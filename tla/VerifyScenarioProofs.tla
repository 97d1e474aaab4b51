------------------------ MODULE VerifyScenarioProofs ------------------------
(***************************************************************************)
(* Theorems about VerifyScenario for any number of setup and cleanup hooks *)
(* and any set of options: first about the order of what happens, then     *)
(* about what the result says of the call.                                 *)
(***************************************************************************)
EXTENDS VerifyScenario, TLAPS

(* A hook call has an outcome once it has settled, and a lifecycle that    *)
(* reached its cleanup has a result or an error: with these TypeOK is      *)
(* inductive.                                                              *)
TypeInv ==
    /\ TypeOK
    /\ \A h \in Hooks : (outcome[h] # "none") <=> (call[h] = "settled")
    /\ pc = "cleanup" => completed \/ primary # "none"
    /\ completed => pc \in {"cleanup", "returned"} /\ \A t \in Targets : execution[t] # "none"

(* Where the hook calls and the requests stand at each point of the code.  *)
PhaseInv ==
    /\ pc = "start" => current = 1 /\ \A h \in Hooks : call[h] = "idle"
    /\ pc \in {"start", "setup"} => \A t \in Targets : request[t] = "idle"
    /\ pc = "setup" =>
          /\ current <= NSetup + 1
          /\ \A h \in SetupHooks : /\ h < current => outcome[h] = "OK"
                                   /\ h > current => call[h] = "idle"
    /\ pc \in {"setup", "requests"} => \A h \in CleanupHooks : call[h] = "idle"
    /\ pc = "requests" \/ completed => \A h \in SetupHooks : outcome[h] = "OK"
    /\ pc \in {"cleanup", "returned"} =>
          /\ \A h \in SetupHooks : call[h] # "running"
          /\ \A t \in Targets : request[t] # "pending"
    /\ pc = "cleanup" =>
          /\ current >= NSetup + 1
          /\ \A h \in CleanupHooks :
                /\ h < current => call[h] = "settled" /\ outcome[h] \in {"OK"} \cup cleanupFailures
                /\ h > current => call[h] = "idle"
    /\ pc = "returned" =>
          /\ \A h \in CleanupHooks : call[h] # "running"
          /\ PolicyFailures(options) = {} => \A h \in CleanupHooks : call[h] = "settled"

(* Cleanup hooks hear of no abort.                                         *)
ShieldInv ==
    \A h \in CleanupHooks : reason[h] # "abort" /\ outcome[h] # "SCENARIO_HOOK_ABORTED"

(* What the executions of the targets stand for.                           *)
ExecutionInv ==
    /\ \A t \in Targets : answer[t] = "OK" => request[t] = "settled"
    /\ \A t \in Targets : execution[t] = "OK" => answer[t] = "OK"
    /\ \A t \in Targets : execution[t] # "none" => request[t] # "pending"
    /\ pc \in {"start", "setup"} => \A t \in Targets : execution[t] = "none"

(* The timer and the result.                                               *)
ResultInv ==
    /\ pc \in {"start", "returned"} => totalTimer # "armed"
    /\ pc # "returned" => result = NoResult
    /\ CompleteIsFaultless

IInv == TypeInv /\ PhaseInv /\ ShieldInv /\ ExecutionInv /\ ResultInv

-----------------------------------------------------------------------------
(* Type correctness                                                        *)

LEMMA PolicyFailuresType == ASSUME NEW o PROVE PolicyFailures(o) \in SUBSET Failures
<1>1. NetworkFailures(o) \in SUBSET Failures
  BY DEF NetworkFailures, Failure, Failures, PolicyCodes
<1>2. HookFailures(o) \in SUBSET Failures
  BY DEF HookFailures, Failure, Failures, PolicyCodes
<1>3. SideEffectFailures(o) \in SUBSET Failures
  BY DEF SideEffectFailures, Failure, Failures, PolicyCodes
<1> QED BY <1>1, <1>2, <1>3 DEF PolicyFailures

LEMMA FinalResultType == TypeInv /\ pc = "cleanup" => FinalResult \in Results
<1> SUFFICES ASSUME TypeInv, pc = "cleanup" PROVE FinalResult \in Results
  OBVIOUS
<1>1. Interruption \in SUBSET Failures
  BY DEF Interruption, Failure, Failures, ExecutionCodes, InterruptionCodes
<1>2. TargetFailures \in SUBSET Failures
  <2>1. completed => \A t \in Targets : execution[t] # "OK" =>
            Failure(execution[t], t) \in Failures
    BY DEF Failure, Failures, TypeInv, TypeOK
  <2> QED BY <2>1 DEF TargetFailures
<1>3. ~completed => Failure(primary, "setup") \in Failures
  BY DEF Failure, Failures, TypeInv, TypeOK
<1>4. \A code \in cleanupFailures : Failure(code, "cleanup") \in Failures
  BY DEF Failure, Failures, TypeInv, TypeOK
<1>5. preparation # "none" => Failure(preparation, "setup") \in Failures
  BY DEF Failure, Failures, TypeInv, TypeOK
<1>6. LifecycleFailures \in SUBSET Failures
  BY <1>1, <1>3, <1>4, <1>5 DEF LifecycleFailures
<1>7. LateInterruption \in SUBSET Failures
  BY <1>1 DEF LateInterruption
<1> QED BY <1>2, <1>6, <1>7 DEF FinalResult, Observed, Results

LEMMA TypeInvInit == Init => TypeInv
<1> SUFFICES ASSUME Init PROVE TypeInv
  OBVIOUS
<1>1. Hook!ContractTypeOK /\ \A h \in Hooks : (outcome[h] # "none") <=> (call[h] = "settled")
  BY DEF Init, Hook!ContractInit, Hook!ContractTypeOK
<1>2. Http!HttpTypeOK /\ execution \in [Targets -> {"none", "OK"} \cup ExecutionCodes]
  BY DEF Init, Http!HttpTypeOK
<1>3. current \in 1 .. NSetup + NCleanup + 1
  BY VerifyScenarioAssumption DEF Init
<1> QED BY <1>1, <1>2, <1>3 DEF Init, TypeInv, TypeOK

LEMMA AbortSignalType == TypeInv /\ AbortSignal =>
        /\ aborted' \in BOOLEAN
        /\ Hook!ContractTypeOK' /\ Http!HttpTypeOK'
        /\ \A h \in Hooks : (outcome'[h] # "none") <=> (call'[h] = "settled")
<1> SUFFICES ASSUME TypeInv, AbortSignal
             PROVE  /\ aborted' \in BOOLEAN
                    /\ Hook!ContractTypeOK' /\ Http!HttpTypeOK'
                    /\ \A h \in Hooks : (outcome'[h] # "none") <=> (call'[h] = "settled")
  OBVIOUS
<1>1. CASE aborted
  BY <1>1 DEF AbortSignal, TypeInv, TypeOK, Hook!ContractTypeOK, Http!HttpTypeOK, callVars,
              requestVars
<1>2. CASE ~aborted
  <2>1. aborted' \in BOOLEAN /\ Http!HttpTypeOK'
    BY <1>2 DEF AbortSignal, TypeInv, TypeOK, Http!AbortAll, Http!HttpTypeOK, Http!HttpCodes
  <2>2. UNCHANGED callVars \/ \E h \in Hooks : Hook!Terminate(h, "abort")
    BY <1>2, VerifyScenarioAssumption DEF AbortSignal, AbortHooks, SetupHooks, Hooks
  <2>3. Hook!ContractTypeOK' /\ \A h \in Hooks : (outcome'[h] # "none") <=> (call'[h] = "settled")
    BY <2>2 DEF callVars, TypeInv, TypeOK, Hook!ContractTypeOK, Hook!Terminate, Hook!SettleWith,
                Hook!HookCodes, Hook!RefusalCodes
  <2> QED BY <2>1, <2>3
<1> QED BY <1>1, <1>2

LEMMA TypeInvNext == TypeInv /\ [Next]_vars => TypeInv'
<1> SUFFICES ASSUME TypeInv, [Next]_vars PROVE TypeInv'
  OBVIOUS
<1> USE DEF signalVars, callVars, requestVars, lifecycleVars
<1>1. CASE Begin
  BY <1>1, PolicyFailuresType
     DEF Begin, TypeInv, TypeOK, Hook!ContractTypeOK, Http!HttpTypeOK, Results
<1>2. CASE CallHook
  <2>1. Hook!ContractTypeOK' /\ \A h \in Hooks : (outcome'[h] # "none") <=> (call'[h] = "settled")
    BY <1>2 DEF CallHook, TypeInv, TypeOK, Hook!ContractTypeOK, Hook!Refuse, Hook!Spawn,
                Hook!SettleWith, Hook!HookCodes, Hook!RefusalCodes
  <2> QED BY <1>2, <2>1 DEF CallHook, TypeInv, TypeOK, Http!HttpTypeOK
<1>3. CASE SetupHookReturns
  <2>1. current \in Hooks /\ current + 1 \in 1 .. NSetup + NCleanup + 1
        /\ NSetup + 1 \in 1 .. NSetup + NCleanup + 1
    BY <1>3, VerifyScenarioAssumption DEF SetupHookReturns, SetupHooks, Hooks
  <2>2. outcome[current] # "none" /\ outcome[current] \in {"none", "OK"} \cup Hook!HookCodes
    BY <1>3, <2>1 DEF SetupHookReturns, TypeInv, TypeOK, Hook!ContractTypeOK
  <2> QED BY <1>3, <2>1, <2>2 DEF SetupHookReturns, EnterCleanup, TypeInv, TypeOK,
                                  Hook!ContractTypeOK, Http!HttpTypeOK
<1>4. CASE OperationFails
  <2>1. NSetup + 1 \in 1 .. NSetup + NCleanup + 1
    BY VerifyScenarioAssumption
  <2> QED BY <1>4, <2>1 DEF OperationFails, EnterCleanup, OperationCodes, TypeInv, TypeOK,
                            Hook!ContractTypeOK, Http!HttpTypeOK
<1>5. CASE SendRequests
  <2>1. Http!HttpTypeOK'
    BY <1>5 DEF SendRequests, Http!Send, Http!HttpTypeOK, Http!HttpCodes, TypeInv, TypeOK
  <2>2. execution' \in [Targets -> {"none", "OK"} \cup ExecutionCodes]
    BY <1>5 DEF SendRequests, ExecutionCodes
  <2> QED BY <1>5, <2>1, <2>2 DEF SendRequests, TypeInv, TypeOK, Hook!ContractTypeOK, Http!Send
<1>6. ASSUME NEW t \in Targets, TargetReturns(t) PROVE TypeInv'
  <2>1. answer[t] \in {"none", "OK"} \cup Http!HttpCodes
    BY DEF TypeInv, TypeOK, Http!HttpTypeOK
  <2>2. execution' \in [Targets -> {"none", "OK"} \cup ExecutionCodes]
    BY <1>6, <2>1 DEF TargetReturns, TypeInv, TypeOK, ExecutionCodes, InterruptionCodes
  <2> QED BY <1>6, <2>2 DEF TargetReturns, TypeInv, TypeOK, Hook!ContractTypeOK, Http!HttpTypeOK
<1>7. CASE OperationReturns
  <2>1. NSetup + 1 \in 1 .. NSetup + NCleanup + 1
    BY VerifyScenarioAssumption
  <2> QED BY <1>7, <2>1 DEF OperationReturns, BothExecutions, EnterCleanup, TypeInv, TypeOK,
                            Hook!ContractTypeOK, Http!HttpTypeOK
<1>8. CASE CleanupHookReturns
  <2>1. current \in Hooks /\ current + 1 \in 1 .. NSetup + NCleanup + 1
    BY <1>8, VerifyScenarioAssumption DEF CleanupHookReturns, CleanupHooks, Hooks
  <2>2. outcome[current] # "none" /\ outcome[current] \in {"none", "OK"} \cup Hook!HookCodes
    BY <1>8, <2>1 DEF CleanupHookReturns, TypeInv, TypeOK, Hook!ContractTypeOK
  <2> QED BY <1>8, <2>1, <2>2 DEF CleanupHookReturns, FailureOf, TypeInv, TypeOK, Hook!ContractTypeOK,
                                  Http!HttpTypeOK
<1>9. CASE Finish
  <2>1. FinalResult \in Results
    BY <1>9, FinalResultType DEF Finish
  <2> QED BY <1>9, <2>1 DEF Finish, TypeInv, TypeOK, Hook!ContractTypeOK, Http!HttpTypeOK
<1>10. CASE CallerAborts
  <2>1. /\ aborted' \in BOOLEAN
        /\ Hook!ContractTypeOK' /\ Http!HttpTypeOK'
        /\ \A h \in Hooks : (outcome'[h] # "none") <=> (call'[h] = "settled")
    BY <1>10, AbortSignalType DEF CallerAborts, TypeInv, TypeOK, Hook!ContractTypeOK,
                                  Http!HttpTypeOK
  <2> QED BY <1>10, <2>1 DEF CallerAborts, TypeInv, TypeOK
<1>11. CASE TotalTimerFires
  BY <1>11, AbortSignalType DEF TotalTimerFires, TypeInv, TypeOK
<1>12. ASSUME NEW h \in Hooks, HookTimerFires(h) \/ HookSettles(h) PROVE TypeInv'
  <2>1. Hook!ContractTypeOK' /\ \A g \in Hooks : (outcome'[g] # "none") <=> (call'[g] = "settled")
    BY <1>12 DEF HookTimerFires, HookSettles, TypeInv, TypeOK, Hook!ContractTypeOK,
                 Hook!Terminate, Hook!Settle, Hook!SettleWith, Hook!HookCodes, Hook!RefusalCodes
  <2> QED BY <1>12, <2>1 DEF HookTimerFires, HookSettles, TypeInv, TypeOK, Http!HttpTypeOK
<1>13. ASSUME NEW t \in Targets, RequestSettles(t) PROVE TypeInv'
  <2>1. Http!HttpTypeOK'
    BY <1>13 DEF RequestSettles, Http!Answer, Http!HttpTypeOK, Http!HttpCodes, TypeInv, TypeOK
  <2> QED BY <1>13, <2>1 DEF RequestSettles, TypeInv, TypeOK, Hook!ContractTypeOK
<1>14. CASE UNCHANGED vars
  BY <1>14 DEF vars, TypeInv, TypeOK, Hook!ContractTypeOK, Http!HttpTypeOK
<1> QED BY <1>1, <1>2, <1>3, <1>4, <1>5, <1>6, <1>7, <1>8, <1>9, <1>10, <1>11, <1>12, <1>13,
           <1>14 DEF Next, Code

(* Every variable keeps its type for any number of hooks and any options:  *)
(* in particular every code a result carries is one the source declares.   *)
THEOREM TypeCorrect == Spec => []TypeOK
<1>1. TypeInv => TypeOK
  BY DEF TypeInv
<1> QED BY <1>1, TypeInvInit, TypeInvNext, PTL DEF Spec

-----------------------------------------------------------------------------
(* Where hooks and requests stand                                          *)

LEMMA HookSets == /\ Hooks = SetupHooks \cup CleanupHooks
                  /\ \A h \in SetupHooks : h \in Nat /\ 1 <= h /\ h <= NSetup
                  /\ \A h \in CleanupHooks : h \in Nat /\ h > NSetup
                  /\ NSetup + 1 \in CleanupHooks \/ CleanupHooks = {}
BY VerifyScenarioAssumption DEF Hooks, SetupHooks, CleanupHooks

(* All that the world outside the code does to the promises: some running  *)
(* hook calls and some pending requests settle.                            *)
OnlySettles ==
    /\ \A h \in Hooks : \/ call'[h] = call[h] /\ outcome'[h] = outcome[h]
                        \/ call[h] = "running" /\ call'[h] = "settled" /\ outcome'[h] # "none"
    /\ \A t \in Targets : \/ request'[t] = request[t] /\ answer'[t] = answer[t]
                          \/ request[t] = "pending" /\ request'[t] = "settled"

LEMMA AbortOnlySettles == TypeInv /\ AbortSignal =>
        /\ OnlySettles
        /\ \A h \in CleanupHooks : reason'[h] = reason[h] /\ outcome'[h] = outcome[h]
<1> SUFFICES ASSUME TypeInv, AbortSignal
             PROVE  /\ OnlySettles
                    /\ \A h \in CleanupHooks : reason'[h] = reason[h] /\ outcome'[h] = outcome[h]
  OBVIOUS
<1>1. CASE aborted
  BY <1>1 DEF AbortSignal, OnlySettles, callVars, requestVars
<1>2. CASE ~aborted
  <2>1. \A t \in Targets : \/ request'[t] = request[t] /\ answer'[t] = answer[t]
                           \/ request[t] = "pending" /\ request'[t] = "settled"
    BY <1>2 DEF AbortSignal, Http!AbortAll
  <2>2. CASE UNCHANGED callVars
    BY <2>1, <2>2 DEF callVars, OnlySettles
  <2>3. ASSUME NEW g \in SetupHooks, Hook!Terminate(g, "abort")
        PROVE  /\ OnlySettles
               /\ \A h \in CleanupHooks : reason'[h] = reason[h] /\ outcome'[h] = outcome[h]
    <3>1. g \in Hooks /\ \A h \in CleanupHooks : h \in Hooks /\ h # g
      BY HookSets, VerifyScenarioAssumption
    <3>2. \A h \in Hooks : \/ call'[h] = call[h] /\ outcome'[h] = outcome[h]
                           \/ /\ call[h] = "running" /\ call'[h] = "settled"
                              /\ outcome'[h] # "none"
      BY <2>3 DEF Hook!Terminate, Hook!SettleWith, TypeInv, TypeOK, Hook!ContractTypeOK
    <3>3. \A h \in CleanupHooks : reason'[h] = reason[h] /\ outcome'[h] = outcome[h]
      BY <2>3, <3>1 DEF Hook!Terminate, Hook!SettleWith, TypeInv, TypeOK, Hook!ContractTypeOK
    <3> QED BY <2>1, <3>2, <3>3 DEF OnlySettles
  <2> QED BY <1>2, <2>2, <2>3 DEF AbortSignal, AbortHooks
<1> QED BY <1>1, <1>2

LEMMA HookOnlySettles ==
    ASSUME TypeInv, NEW h \in Hooks, HookTimerFires(h) \/ HookSettles(h)
    PROVE  OnlySettles
BY DEF HookTimerFires, HookSettles, Hook!Terminate, Hook!Settle, Hook!SettleWith, Hook!HookCodes,
       Hook!RefusalCodes, OnlySettles, requestVars, TypeInv, TypeOK, Hook!ContractTypeOK

LEMMA RequestOnlySettles ==
    ASSUME TypeInv, NEW t \in Targets, RequestSettles(t)
    PROVE  OnlySettles
BY DEF RequestSettles, Http!Answer, OnlySettles, callVars, TypeInv, TypeOK, Http!HttpTypeOK

LEMMA PhaseInvKept ==
    ASSUME TypeInv, PhaseInv, OnlySettles,
           UNCHANGED <<options, pc, current, completed, cleanupFailures>>
    PROVE  PhaseInv'
BY HookSets DEF PhaseInv, OnlySettles, TypeInv

LEMMA PhaseInvNext == TypeInv /\ PhaseInv /\ ExecutionInv /\ [Next]_vars => PhaseInv'
<1> SUFFICES ASSUME TypeInv, PhaseInv, ExecutionInv, [Next]_vars PROVE PhaseInv'
  OBVIOUS
<1> USE DEF signalVars, callVars, requestVars, lifecycleVars
<1>1. CASE Begin
  BY <1>1, HookSets, VerifyScenarioAssumption DEF Begin, PhaseInv, ExecutionInv, TypeInv, TypeOK
<1>2. CASE CallHook
  <2>1. current \in Hooks /\ call[current] = "idle"
        /\ \A h \in Hooks \ {current} : call'[h] = call[h] /\ outcome'[h] = outcome[h]
    BY <1>2, HookSets DEF CallHook, Hook!Refuse, Hook!Spawn, Hook!SettleWith, TypeInv, TypeOK,
                          Hook!ContractTypeOK
  <2>2. outcome[current] = "none"
    BY <2>1 DEF TypeInv
  <2>3. current \in Nat
    BY <2>1, HookSets
  <2>4. CASE pc = "setup"
    <3>1. current \in SetupHooks
      BY <1>2, <2>4, HookSets DEF CallHook, PhaseInv
    <3>2. /\ pc' = pc /\ current' = current /\ completed' = completed /\ request' = request
          /\ current \notin CleanupHooks /\ ~completed
      BY <1>2, <2>4, <3>1, HookSets, VerifyScenarioAssumption DEF CallHook, TypeInv
    <3>3. \A h \in Hooks : h # current => call'[h] = call[h] /\ outcome'[h] = outcome[h]
      BY <2>1
    <3> QED BY <2>3, <2>4, <3>1, <3>2, <3>3, HookSets DEF PhaseInv
  <2>5. CASE pc = "cleanup"
    <3>1. current \in CleanupHooks
      BY <1>2, <2>5, HookSets DEF CallHook, PhaseInv
    <3>2. /\ pc' = pc /\ current' = current /\ completed' = completed /\ request' = request
          /\ cleanupFailures' = cleanupFailures /\ current \notin SetupHooks
      BY <1>2, <2>5, <3>1, HookSets, VerifyScenarioAssumption DEF CallHook
    <3>3. \A h \in Hooks : h # current => call'[h] = call[h] /\ outcome'[h] = outcome[h]
      BY <2>1
    <3> QED BY <2>3, <2>5, <3>1, <3>2, <3>3, HookSets DEF PhaseInv
  <2> QED BY <1>2, <2>4, <2>5 DEF CallHook
<1>3. CASE SetupHookReturns
  <2>1. current \in SetupHooks /\ current \in Nat /\ call[current] = "settled"
    BY <1>3, HookSets DEF SetupHookReturns
  <2>2. CASE outcome[current] = "OK"
    BY <1>3, <2>1, <2>2, HookSets, VerifyScenarioAssumption
       DEF SetupHookReturns, PhaseInv, TypeInv
  <2>3. CASE outcome[current] # "OK"
    <3>1. \A h \in SetupHooks : call[h] # "running"
      BY <1>3, <2>1, HookSets DEF SetupHookReturns, PhaseInv, TypeInv
    <3> QED BY <1>3, <2>1, <2>3, <3>1, HookSets, VerifyScenarioAssumption
            DEF SetupHookReturns, EnterCleanup, PhaseInv, TypeInv
  <2> QED BY <2>2, <2>3
<1>4. CASE OperationFails
  BY <1>4, HookSets, VerifyScenarioAssumption DEF OperationFails, EnterCleanup, PhaseInv, TypeInv
<1>5. CASE SendRequests
  BY <1>5, HookSets, VerifyScenarioAssumption DEF SendRequests, PhaseInv, TypeInv
<1>6. ASSUME NEW t \in Targets, TargetReturns(t) PROVE PhaseInv'
  BY <1>6 DEF TargetReturns, PhaseInv
<1>7. CASE OperationReturns
  BY <1>7, HookSets, VerifyScenarioAssumption
     DEF OperationReturns, BothExecutions, EnterCleanup, PhaseInv, ExecutionInv, TypeInv
<1>8. CASE CleanupHookReturns
  BY <1>8, HookSets, VerifyScenarioAssumption DEF CleanupHookReturns, FailureOf, PhaseInv, TypeInv
<1>9. CASE Finish
  BY <1>9, HookSets, VerifyScenarioAssumption DEF Finish, PhaseInv, TypeInv, Hooks, CleanupHooks
<1>10. CASE CallerAborts
  <2>1. OnlySettles
    BY <1>10, AbortOnlySettles DEF CallerAborts, OnlySettles
  <2> QED BY <1>10, <2>1, PhaseInvKept DEF CallerAborts
<1>11. CASE TotalTimerFires
  BY <1>11, AbortOnlySettles, PhaseInvKept DEF TotalTimerFires
<1>12. ASSUME NEW h \in Hooks, HookTimerFires(h) \/ HookSettles(h) PROVE PhaseInv'
  BY <1>12, HookOnlySettles, PhaseInvKept DEF HookTimerFires, HookSettles
<1>13. ASSUME NEW t \in Targets, RequestSettles(t) PROVE PhaseInv'
  BY <1>13, RequestOnlySettles, PhaseInvKept DEF RequestSettles
<1>14. CASE UNCHANGED vars
  BY <1>14 DEF vars, PhaseInv
<1> QED BY <1>1, <1>2, <1>3, <1>4, <1>5, <1>6, <1>7, <1>8, <1>9, <1>10, <1>11, <1>12, <1>13,
           <1>14 DEF Next, Code

-----------------------------------------------------------------------------
(* Cleanup hooks are shielded from aborts                                  *)

LEMMA ShieldInvNext == TypeInv /\ ShieldInv /\ [Next]_vars => ShieldInv'
<1> SUFFICES ASSUME TypeInv, ShieldInv, [Next]_vars PROVE ShieldInv'
  OBVIOUS
<1>1. CASE CallHook
  <2>1. CASE current \in SetupHooks
    <3>1. current \notin CleanupHooks
      BY <2>1, HookSets, VerifyScenarioAssumption
    <3> QED BY <1>1, <2>1, <3>1, HookSets DEF CallHook, Hook!Refuse, Hook!Spawn, Hook!SettleWith,
               ShieldInv, TypeInv, TypeOK, Hook!ContractTypeOK
  <2>2. CASE current \notin SetupHooks
    BY <1>1, <2>2, HookSets DEF CallHook, Hook!Refuse, Hook!Spawn, Hook!SettleWith, ShieldInv,
       TypeInv, TypeOK, Hook!ContractTypeOK
  <2> QED BY <2>1, <2>2
<1>2. ASSUME NEW h \in Hooks, HookTimerFires(h) \/ HookSettles(h) PROVE ShieldInv'
  BY <1>2, HookSets DEF HookTimerFires, HookSettles, Hook!Terminate, Hook!Settle,
     Hook!SettleWith, Hook!OutcomesFor, ShieldInv, TypeInv, TypeOK, Hook!ContractTypeOK
<1>3. CASE CallerAborts
  BY <1>3, AbortOnlySettles DEF CallerAborts, callVars, ShieldInv
<1>4. CASE TotalTimerFires
  BY <1>4, AbortOnlySettles DEF TotalTimerFires, ShieldInv
<1>5. ASSUME UNCHANGED callVars PROVE ShieldInv'
  BY <1>5 DEF callVars, ShieldInv
<1> QED BY <1>1, <1>2, <1>3, <1>4, <1>5
        DEF Next, Code, vars, Begin, SetupHookReturns, OperationFails, SendRequests,
            TargetReturns, OperationReturns, CleanupHookReturns, Finish, RequestSettles

-----------------------------------------------------------------------------
(* The executions of the targets                                           *)

LEMMA ExecutionInvKept ==
    ASSUME TypeInv, ExecutionInv, OnlySettles, UNCHANGED <<pc, execution>>
    PROVE  ExecutionInv'
BY DEF ExecutionInv, OnlySettles, TypeInv, TypeOK, Http!HttpTypeOK

LEMMA ExecutionInvNext == TypeInv /\ PhaseInv /\ ExecutionInv /\ [Next]_vars => ExecutionInv'
<1> SUFFICES ASSUME TypeInv, PhaseInv, ExecutionInv, [Next]_vars PROVE ExecutionInv'
  OBVIOUS
<1> USE DEF requestVars, lifecycleVars
<1>1. CASE SendRequests
  <2>1. \A t \in Targets : /\ answer'[t] # "OK"
                           /\ execution'[t] # "OK"
                           /\ execution'[t] # "none" => request'[t] = "idle"
    BY <1>1 DEF SendRequests, Http!Send, PhaseInv, ExecutionInv
  <2> QED BY <1>1, <2>1 DEF SendRequests, ExecutionInv
<1>2. ASSUME NEW t \in Targets, TargetReturns(t) PROVE ExecutionInv'
  BY <1>2 DEF TargetReturns, ExecutionInv, TypeInv, TypeOK
<1>3. CASE CallerAborts
  <2>1. OnlySettles
    BY <1>3, AbortOnlySettles DEF CallerAborts, OnlySettles, callVars
  <2> QED BY <1>3, <2>1, ExecutionInvKept DEF CallerAborts
<1>4. CASE TotalTimerFires
  BY <1>4, AbortOnlySettles, ExecutionInvKept DEF TotalTimerFires
<1>5. ASSUME NEW h \in Hooks, HookTimerFires(h) \/ HookSettles(h) PROVE ExecutionInv'
  BY <1>5, HookOnlySettles, ExecutionInvKept DEF HookTimerFires, HookSettles
<1>6. ASSUME NEW t \in Targets, RequestSettles(t) PROVE ExecutionInv'
  BY <1>6, RequestOnlySettles, ExecutionInvKept DEF RequestSettles
<1>7. ASSUME UNCHANGED <<execution, requestVars>>, pc' \in {"start", "setup"} => pc \in {"start", "setup"}
      PROVE  ExecutionInv'
  BY <1>7 DEF ExecutionInv
<1>8. CASE Begin \/ CallHook \/ SetupHookReturns \/ OperationFails
  BY <1>7, <1>8 DEF Begin, CallHook, SetupHookReturns, OperationFails, EnterCleanup
<1>9. CASE OperationReturns \/ CleanupHookReturns \/ Finish \/ UNCHANGED vars
  BY <1>7, <1>9 DEF OperationReturns, CleanupHookReturns, Finish, EnterCleanup, vars
<1> QED BY <1>1, <1>2, <1>3, <1>4, <1>5, <1>6, <1>8, <1>9 DEF Next, Code

-----------------------------------------------------------------------------
(* The result                                                              *)

(* finalizeResult calls a run complete only if nothing went wrong.         *)
LEMMA FinalResultComplete ==
    ASSUME TypeInv, PhaseInv, ExecutionInv,
           pc = "cleanup", current = NSetup + NCleanup + 1, FinalResult.status = "complete"
    PROVE  /\ \A h \in Hooks : outcome[h] = "OK"
           /\ \A t \in Targets : answer[t] = "OK"
           /\ FinalResult.observed = Targets
           /\ ~interrupted /\ ~TotalTimedOut
<1>1. TargetFailures = {} /\ (IF ~completed \/ cleanupFailures # {}
                              THEN LifecycleFailures ELSE LateInterruption) = {}
  BY DEF FinalResult
<1>2. Interruption # {}
  BY DEF Interruption
<1>3. completed
  BY <1>1, <1>2 DEF LifecycleFailures
<1>4. cleanupFailures = {}
  BY <1>1 DEF LifecycleFailures
<1>5. \A t \in Targets : execution[t] = "OK"
  BY <1>1, <1>3 DEF TargetFailures
<1>6. ~interrupted /\ ~TotalTimedOut
  BY <1>1, <1>2, <1>3, <1>4, <1>5 DEF LateInterruption, InterruptionCodes
<1>7. \A h \in CleanupHooks : h < current
  BY VerifyScenarioAssumption DEF CleanupHooks
<1>8. \A h \in Hooks : outcome[h] = "OK"
  BY <1>3, <1>4, <1>7, HookSets DEF PhaseInv
<1> QED BY <1>3, <1>5, <1>6, <1>8 DEF FinalResult, Observed, ExecutionInv

LEMMA ResultInvKept ==
    ASSUME TypeInv, ExecutionInv, ResultInv, OnlySettles,
           UNCHANGED <<pc, result, interrupted, totalTimer>>
    PROVE  ResultInv'
<1>1. \A h \in Hooks : outcome[h] = "OK" => outcome'[h] = "OK"
  BY DEF OnlySettles, TypeInv
<1>2. \A t \in Targets : answer[t] = "OK" => answer'[t] = "OK"
  BY DEF OnlySettles, ExecutionInv
<1> QED BY <1>1, <1>2 DEF ResultInv, CompleteIsFaultless, TotalTimedOut

LEMMA ResultInvNext == IInv /\ [Next]_vars => ResultInv'
<1> SUFFICES ASSUME IInv, [Next]_vars PROVE ResultInv'
  OBVIOUS
<1> USE DEF IInv
<1>1. CASE Begin
  BY <1>1 DEF Begin, ResultInv, CompleteIsFaultless, NoResult
<1>2. CASE Finish
  <2>1. CASE FinalResult.status = "complete"
    <3>1. /\ \A h \in Hooks : outcome'[h] = "OK"
          /\ \A t \in Targets : answer'[t] = "OK"
          /\ result'.observed = Targets
          /\ ~interrupted' /\ ~TotalTimedOut
      BY <1>2, <2>1, FinalResultComplete DEF Finish, callVars, requestVars
    <3> QED BY <1>2, <3>1 DEF Finish, ResultInv, CompleteIsFaultless, TotalTimedOut
  <2>2. CASE FinalResult.status # "complete"
    BY <1>2, <2>2 DEF Finish, ResultInv, CompleteIsFaultless
  <2> QED BY <2>1, <2>2
<1>3. CASE CallerAborts
  <2>1. CASE pc \in {"start", "returned"}
    <3>1. OnlySettles
      BY <1>3, <2>1 DEF CallerAborts, OnlySettles, callVars, requestVars
    <3> QED BY <1>3, <2>1, <3>1, ResultInvKept DEF CallerAborts
  <2>2. CASE pc \notin {"start", "returned"}
    BY <1>3, <2>2 DEF CallerAborts, ResultInv, CompleteIsFaultless, NoResult
  <2> QED BY <2>1, <2>2
<1>4. CASE TotalTimerFires
  BY <1>4 DEF TotalTimerFires, ResultInv, CompleteIsFaultless, NoResult
<1>5. ASSUME NEW h \in Hooks, HookTimerFires(h) \/ HookSettles(h) PROVE ResultInv'
  BY <1>5, HookOnlySettles, ResultInvKept DEF HookTimerFires, HookSettles, signalVars
<1>6. ASSUME NEW t \in Targets, RequestSettles(t) PROVE ResultInv'
  BY <1>6, RequestOnlySettles, ResultInvKept DEF RequestSettles
<1>7. CASE CallHook \/ SetupHookReturns \/ OperationFails \/ SendRequests \/ OperationReturns
           \/ CleanupHookReturns \/ \E t \in Targets : TargetReturns(t)
  BY <1>7 DEF CallHook, SetupHookReturns, OperationFails, SendRequests, OperationReturns,
     CleanupHookReturns, TargetReturns, EnterCleanup, ResultInv, CompleteIsFaultless, NoResult
<1>8. CASE UNCHANGED vars
  <2>1. OnlySettles
    BY <1>8 DEF vars, OnlySettles, callVars, requestVars
  <2> QED BY <1>8, <2>1, ResultInvKept DEF vars, signalVars
<1> QED BY <1>1, <1>2, <1>3, <1>4, <1>5, <1>6, <1>7, <1>8 DEF Next, Code

-----------------------------------------------------------------------------
(* The invariant and what follows from it                                  *)

LEMMA IInvInit == Init => IInv
<1> SUFFICES ASSUME Init PROVE IInv
  OBVIOUS
<1>1. TypeInv
  BY TypeInvInit
<1>2. PhaseInv
  BY <1>1, HookSets DEF Init, PhaseInv, TypeInv, Hook!ContractInit
<1>3. ShieldInv
  BY HookSets DEF Init, ShieldInv, Hook!ContractInit
<1>4. ExecutionInv
  BY DEF Init, ExecutionInv
<1>5. ResultInv
  BY DEF Init, ResultInv, CompleteIsFaultless, NoResult
<1> QED BY <1>1, <1>2, <1>3, <1>4, <1>5 DEF IInv

LEMMA InductiveInvariant == Spec => []IInv
<1>1. IInv /\ [Next]_vars => IInv'
  BY TypeInvNext, PhaseInvNext, ShieldInvNext, ExecutionInvNext, ResultInvNext DEF IInv
<1> QED BY <1>1, IInvInit, PTL DEF Spec

(* A complete result means that every hook succeeded, both targets were    *)
(* observed and nobody interfered (finalizeResult).                        *)
THEOREM CompleteCorrect == Spec => []CompleteIsFaultless
<1>1. IInv => CompleteIsFaultless
  BY DEF IInv, ResultInv
<1> QED BY <1>1, InductiveInvariant, PTL

(* Setup, requests and cleanup never overlap and hooks run one at a time   *)
(* (runScenarioLifecycle).                                                 *)
THEOREM PhasesCorrect == Spec => []PhasesDoNotOverlap
<1>1. IInv => PhasesDoNotOverlap
  <2> SUFFICES ASSUME IInv PROVE PhasesDoNotOverlap
    OBVIOUS
  <2>1. \A t \in Targets : request[t] = "pending" => pc = "requests"
    BY DEF IInv, PhaseInv, TypeInv, TypeOK
  <2>2. ASSUME NEW h \in Hooks, call[h] = "running", NEW g \in Hooks \ {h}
        PROVE  call[g] # "running" /\ (g > h => call[g] = "idle")
    <3>1. h \in Nat /\ g \in Nat /\ g # h /\ current \in Nat
      BY HookSets, VerifyScenarioAssumption DEF IInv, TypeInv, TypeOK, Hooks
    <3>2. outcome[h] = "none"
      BY <2>2 DEF IInv, TypeInv
    <3>3. CASE pc = "setup"
      <4>1. h = current /\ h \in SetupHooks
        BY <2>2, <3>1, <3>2, <3>3, HookSets DEF IInv, PhaseInv
      <4> QED BY <3>1, <3>3, <4>1, HookSets DEF IInv, PhaseInv, TypeInv
    <3>4. CASE pc = "cleanup"
      <4>1. h = current /\ h \in CleanupHooks
        BY <2>2, <3>1, <3>4, HookSets DEF IInv, PhaseInv
      <4> QED BY <3>1, <3>4, <4>1, HookSets, VerifyScenarioAssumption DEF IInv, PhaseInv
    <3> QED BY <2>2, <3>2, <3>3, <3>4, HookSets DEF IInv, PhaseInv, TypeInv, TypeOK
  <2> QED BY <2>1, <2>2 DEF PhasesDoNotOverlap, IInv, PhaseInv
<1> QED BY <1>1, InductiveInvariant, PTL

(* Unless it was refused, a call that returned has attempted every cleanup *)
(* hook, none aborted, and left no promise open (runCleanupHooks).         *)
THEOREM CleanupCorrect == Spec => []CleanupAlwaysAttempted
<1>1. IInv => CleanupAlwaysAttempted
  BY HookSets DEF IInv, PhaseInv, ShieldInv, CleanupAlwaysAttempted, Returned
<1> QED BY <1>1, InductiveInvariant, PTL

-----------------------------------------------------------------------------
(* What the result says of the call: nothing undeclared was done, every    *)
(* missing observation, failed cleanup and interruption is in it, and the  *)
(* call keeps the contract its command relies on.                          *)

(* The lifecycle has one error or one result, and none before it is over.  *)
LifecycleInv ==
    /\ pc = "start" => totalTimer = "off" /\ ~interrupted
    /\ pc \in {"start", "setup", "requests"} => /\ primary = "none" /\ preparation = "none"
                                                /\ cleanupFailures = {} /\ ~completed
    /\ completed => primary = "none" /\ preparation = "none"

(* Only a permitted scenario gets as far as having an effect.              *)
DeclaredInv ==
    pc \in {"setup", "requests", "cleanup"} \/ Effects => PolicyFailures(options) = {}

(* The answers and the executions made of them.                            *)
AnswerInv ==
    /\ \A t \in Targets : answer[t] = "none" <=> request[t] \in {"idle", "pending"}
    /\ \A t \in Targets : execution[t] # "none" => (execution[t] = "OK" <=> answer[t] = "OK")
    /\ pc \in {"cleanup", "returned"} /\ ~completed => \A t \in Targets : request[t] = "idle"

(* An abort has a cause, and who is blamed for one was the cause.          *)
BlameInv ==
    /\ aborted => interrupted \/ TotalTimedOut
    /\ \A t \in Targets : /\ answer[t] = "HTTP_REQUEST_ABORTED" => aborted
                          /\ execution[t] = "VERIFY_TOTAL_TIMEOUT" => TotalTimedOut
                          /\ execution[t] = "VERIFY_INTERRUPTED" => interrupted

(* The result once there is one.                                           *)
ReportInv == InterruptionIsReported /\ EveryObservationAccountedFor /\ CleanupFailureIsReported

JInv == LifecycleInv /\ DeclaredInv /\ AnswerInv /\ BlameInv /\ ReportInv

-----------------------------------------------------------------------------
(* The policy                                                              *)

(* No failure of the policy means that every declaration is there.         *)
LEMMA PolicyPermits ==
    ASSUME NEW o \in Options, PolicyFailures(o) = {}
    PROVE  /\ \A t \in Targets : TargetAllowed(o, t)
           /\ Hooks # {} => o.hookIsolation
           /\ o.stateChanging => /\ o.allowStateChanging
                                 /\ o.isolated = Targets
                                 /\ CleanupHooks \subseteq o.idempotent
<1>1. NetworkFailures(o) = {} /\ HookFailures(o) = {} /\ SideEffectFailures(o) = {}
  BY DEF PolicyFailures
<1>2. \A t \in Targets : TargetAllowed(o, t)
  <2>1. ValidHosts(o.allowHosts) /\ ValidHosts(o.allowDependencyHosts)
    BY <1>1 DEF NetworkFailures
  <2> QED BY <1>1, <2>1 DEF NetworkFailures
<1>3. Hooks # {} => o.hookIsolation
  BY <1>1 DEF HookFailures
<1>4. ASSUME o.stateChanging
      PROVE  o.allowStateChanging /\ o.isolated = Targets /\ CleanupHooks \subseteq o.idempotent
  <2>1. (IF o.allowStateChanging THEN {} ELSE {Failure("VERIFY_SIDE_EFFECT_DENIED", "setup")}) = {}
        /\ {Failure("VERIFY_TARGET_NOT_ISOLATED", t) : t \in Targets \ o.isolated} = {}
        /\ (IF CleanupHooks \subseteq o.idempotent THEN {}
            ELSE {Failure("VERIFY_CLEANUP_NOT_IDEMPOTENT", "setup")}) = {}
    BY <1>1, <1>4 DEF SideEffectFailures
  <2>2. o.isolated \subseteq Targets
    BY OptionsAssumption
  <2>3. Targets \ o.isolated = {}
    BY <2>1
  <2> QED BY <2>1, <2>2, <2>3
<1> QED BY <1>2, <1>3, <1>4

(* The codes of the policy are its own.                                    *)
LEMMA PolicyFailuresCodes ==
    ASSUME NEW o PROVE \A f \in PolicyFailures(o) : f.code \in PolicyCodes
<1>1. \A f \in NetworkFailures(o) : f.code \in PolicyCodes
  BY DEF NetworkFailures, Failure, PolicyCodes
<1>2. \A f \in HookFailures(o) : f.code \in PolicyCodes
  BY DEF HookFailures, Failure, PolicyCodes
<1>3. \A f \in SideEffectFailures(o) : f.code \in PolicyCodes
  BY DEF SideEffectFailures, Failure, PolicyCodes
<1> QED BY <1>1, <1>2, <1>3 DEF PolicyFailures

-----------------------------------------------------------------------------
(* The lifecycle                                                           *)

LEMMA LifecycleInvNext == IInv /\ LifecycleInv /\ [Next]_vars => LifecycleInv'
<1> SUFFICES ASSUME IInv, LifecycleInv, [Next]_vars PROVE LifecycleInv'
  OBVIOUS
<1>1. CASE Begin \/ CallHook \/ SetupHookReturns \/ OperationFails \/ SendRequests
  BY <1>1 DEF Begin, CallHook, SetupHookReturns, OperationFails, SendRequests, EnterCleanup,
              LifecycleInv, lifecycleVars, signalVars, IInv, TypeInv
<1>2. CASE (\E t \in Targets : TargetReturns(t)) \/ OperationReturns \/ CleanupHookReturns \/ Finish
  BY <1>2 DEF TargetReturns, OperationReturns, CleanupHookReturns, Finish, EnterCleanup,
              LifecycleInv, lifecycleVars, signalVars
<1>3. CASE CallerAborts \/ TotalTimerFires
  BY <1>3 DEF CallerAborts, TotalTimerFires, LifecycleInv, lifecycleVars
<1>4. CASE \E h \in Hooks : HookTimerFires(h) \/ HookSettles(h)
  BY <1>4 DEF HookTimerFires, HookSettles, LifecycleInv, lifecycleVars, signalVars
<1>5. CASE (\E t \in Targets : RequestSettles(t)) \/ UNCHANGED vars
  BY <1>5 DEF RequestSettles, LifecycleInv, lifecycleVars, vars, signalVars
<1> QED BY <1>1, <1>2, <1>3, <1>4, <1>5 DEF Next, Code

(* The signal, the timers and the promises move under the code, and leave  *)
(* to it where it is and what it has concluded.                            *)
Environment ==
    \/ CallerAborts \/ TotalTimerFires
    \/ \E h \in Hooks : HookTimerFires(h) \/ HookSettles(h)
    \/ \E t \in Targets : RequestSettles(t)

LEMMA EnvironmentOnlySettles ==
    IInv /\ (Environment \/ UNCHANGED vars) =>
        OnlySettles /\ UNCHANGED <<options, pc, current, lifecycleVars, result>>
<1> SUFFICES ASSUME IInv, Environment \/ UNCHANGED vars
             PROVE  OnlySettles /\ UNCHANGED <<options, pc, current, lifecycleVars, result>>
  OBVIOUS
<1> USE DEF IInv
<1>1. CASE CallerAborts
  <2>1. OnlySettles
    BY <1>1, AbortOnlySettles DEF CallerAborts, OnlySettles, callVars, requestVars
  <2> QED BY <1>1, <2>1 DEF CallerAborts
<1>2. CASE TotalTimerFires
  BY <1>2, AbortOnlySettles DEF TotalTimerFires
<1>3. ASSUME NEW h \in Hooks, HookTimerFires(h) \/ HookSettles(h)
      PROVE  OnlySettles /\ UNCHANGED <<options, pc, current, lifecycleVars, result>>
  BY <1>3, HookOnlySettles DEF HookTimerFires, HookSettles
<1>4. ASSUME NEW t \in Targets, RequestSettles(t)
      PROVE  OnlySettles /\ UNCHANGED <<options, pc, current, lifecycleVars, result>>
  BY <1>4, RequestOnlySettles DEF RequestSettles
<1>5. CASE UNCHANGED vars
  BY <1>5 DEF vars, OnlySettles, callVars, requestVars
<1> QED BY <1>1, <1>2, <1>3, <1>4, <1>5 DEF Environment

LEMMA SettlingKeepsEffects == TypeInv /\ OnlySettles => Effects' = Effects
BY DEF TypeInv, TypeOK, Hook!ContractTypeOK, Http!HttpTypeOK, OnlySettles, Effects

LEMMA DeclaredInvNext == IInv /\ DeclaredInv /\ [Next]_vars => DeclaredInv'
<1> SUFFICES ASSUME IInv, DeclaredInv, [Next]_vars PROVE DeclaredInv'
  OBVIOUS
<1> USE DEF IInv, lifecycleVars, requestVars, callVars
<1>1. CASE Begin
  <2>1. ~Effects'
    BY <1>1 DEF Begin, Effects, PhaseInv
  <2> QED BY <1>1, <2>1 DEF Begin, DeclaredInv
<1>2. CASE CallHook \/ SetupHookReturns \/ OperationFails \/ SendRequests
  BY <1>2 DEF CallHook, SetupHookReturns, OperationFails, SendRequests, EnterCleanup, DeclaredInv
<1>3. CASE (\E t \in Targets : TargetReturns(t)) \/ OperationReturns \/ CleanupHookReturns \/ Finish
  BY <1>3 DEF TargetReturns, OperationReturns, CleanupHookReturns, Finish, EnterCleanup,
              DeclaredInv, Effects
<1>4. CASE Environment \/ UNCHANGED vars
  BY <1>4, EnvironmentOnlySettles, SettlingKeepsEffects DEF DeclaredInv
<1> QED BY <1>1, <1>2, <1>3, <1>4 DEF Next, Code, Environment

-----------------------------------------------------------------------------
(* Answers and executions                                                  *)

(* What settles a request also answers it; only an abort answers with one. *)
OnlyAnswers ==
    \A t \in Targets : \/ request'[t] = request[t] /\ answer'[t] = answer[t]
                       \/ /\ request[t] = "pending" /\ request'[t] = "settled"
                          /\ answer'[t] # "none"
                          /\ answer'[t] = "HTTP_REQUEST_ABORTED" => aborted'

LEMMA AbortOnlyAnswers == TypeInv /\ AbortSignal => OnlyAnswers /\ aborted'
BY DEF AbortSignal, Http!AbortAll, OnlyAnswers, requestVars, TypeInv, TypeOK, Http!HttpTypeOK

LEMMA EnvironmentOnlyAnswers == IInv /\ (Environment \/ UNCHANGED vars) => OnlyAnswers
<1> SUFFICES ASSUME IInv, Environment \/ UNCHANGED vars PROVE OnlyAnswers
  OBVIOUS
<1> USE DEF IInv
<1>1. CASE CallerAborts
  BY <1>1, AbortOnlyAnswers DEF CallerAborts, OnlyAnswers, requestVars
<1>2. CASE TotalTimerFires
  BY <1>2, AbortOnlyAnswers DEF TotalTimerFires
<1>3. CASE (\E h \in Hooks : HookTimerFires(h) \/ HookSettles(h)) \/ UNCHANGED vars
  BY <1>3 DEF HookTimerFires, HookSettles, vars, requestVars, OnlyAnswers
<1>4. ASSUME NEW t \in Targets, RequestSettles(t) PROVE OnlyAnswers
  BY <1>4 DEF RequestSettles, Http!Answer, Http!FailureCodes, OnlyAnswers, TypeInv, TypeOK,
              Http!HttpTypeOK
<1> QED BY <1>1, <1>2, <1>3, <1>4 DEF Environment

LEMMA AnswerInvNext ==
    IInv /\ LifecycleInv /\ AnswerInv /\ [Next]_vars => AnswerInv'
<1> SUFFICES ASSUME IInv, LifecycleInv, AnswerInv, [Next]_vars PROVE AnswerInv'
  OBVIOUS
<1> USE DEF IInv
<1>1. CASE Begin \/ CallHook \/ SetupHookReturns \/ OperationFails
  BY <1>1 DEF Begin, CallHook, SetupHookReturns, OperationFails, EnterCleanup, AnswerInv,
              PhaseInv, requestVars, lifecycleVars
<1>2. CASE SendRequests
  <2>1. \A t \in Targets : /\ answer'[t] = "none" <=> request'[t] \in {"idle", "pending"}
                           /\ execution'[t] # "none" =>
                                 execution'[t] # "OK" /\ answer'[t] # "OK"
    BY <1>2 DEF SendRequests, Http!Send, PhaseInv, AnswerInv
  <2> QED BY <1>2, <2>1 DEF SendRequests, AnswerInv
<1>3. ASSUME NEW t \in Targets, TargetReturns(t) PROVE AnswerInv'
  <2>1. answer[t] # "none"
    BY <1>3 DEF TargetReturns, AnswerInv
  <2>2. execution'[t] = "OK" <=> answer[t] = "OK"
    BY <1>3 DEF TargetReturns, TypeInv, TypeOK
  <2>3. \A u \in Targets \ {t} : execution'[u] = execution[u]
    BY <1>3 DEF TargetReturns, TypeInv, TypeOK
  <2> QED BY <1>3, <2>2, <2>3 DEF TargetReturns, AnswerInv, requestVars
<1>4. CASE OperationReturns \/ CleanupHookReturns \/ Finish
  BY <1>4 DEF OperationReturns, CleanupHookReturns, Finish, EnterCleanup, AnswerInv, requestVars,
              lifecycleVars
<1>5. CASE Environment \/ UNCHANGED vars
  <2>1. OnlyAnswers /\ UNCHANGED <<pc, lifecycleVars>>
    BY <1>5, EnvironmentOnlySettles, EnvironmentOnlyAnswers
  <2>2. \A t \in Targets : answer'[t] = "none" <=> request'[t] \in {"idle", "pending"}
    BY <2>1 DEF OnlyAnswers, AnswerInv
  <2>3. \A t \in Targets : execution[t] # "none" => answer'[t] = answer[t]
    BY <2>1 DEF OnlyAnswers, ExecutionInv
  <2>4. \A t \in Targets : request[t] = "idle" => request'[t] = "idle"
    BY <2>1 DEF OnlyAnswers
  <2> QED BY <2>1, <2>2, <2>3, <2>4 DEF AnswerInv, lifecycleVars
<1> QED BY <1>1, <1>2, <1>3, <1>4, <1>5 DEF Next, Code, Environment

(* An interruption and a timeout stay what they are.                       *)
LEMMA CausesStay ==
    IInv /\ LifecycleInv /\ [Next]_vars => /\ interrupted => interrupted'
                                           /\ TotalTimedOut => TotalTimedOut'
<1> SUFFICES ASSUME IInv, LifecycleInv, [Next]_vars
             PROVE  (interrupted => interrupted') /\ (TotalTimedOut => TotalTimedOut')
  OBVIOUS
<1>1. CASE Code
  BY <1>1 DEF Code, Begin, CallHook, SetupHookReturns, OperationFails, SendRequests, TargetReturns,
              OperationReturns, CleanupHookReturns, Finish, TotalTimedOut, LifecycleInv, signalVars
<1>2. CASE Environment \/ UNCHANGED vars
  BY <1>2 DEF Environment, CallerAborts, TotalTimerFires, HookTimerFires, HookSettles,
              RequestSettles, TotalTimedOut, signalVars, vars
<1> QED BY <1>1, <1>2 DEF Next, Environment

LEMMA BlameInvNext ==
    IInv /\ LifecycleInv /\ AnswerInv /\ BlameInv /\ [Next]_vars => BlameInv'
<1> SUFFICES ASSUME IInv, LifecycleInv, AnswerInv, BlameInv, [Next]_vars PROVE BlameInv'
  OBVIOUS
<1> USE DEF IInv
<1>1. (interrupted => interrupted') /\ (TotalTimedOut => TotalTimedOut')
  BY CausesStay
<1>2. CASE Begin
  <2>1. aborted' => interrupted' \/ TotalTimedOut'
    BY <1>1, <1>2 DEF Begin, BlameInv, TypeInv, TypeOK
  <2>2. \A t \in Targets : answer[t] = "none" /\ execution[t] = "none"
    BY <1>2 DEF Begin, PhaseInv, ExecutionInv, AnswerInv
  <2> QED BY <1>1, <1>2, <2>1, <2>2 DEF Begin, BlameInv, requestVars, lifecycleVars
<1>3. CASE SendRequests
  <2>1. \A t \in Targets : answer'[t] # "HTTP_REQUEST_ABORTED" \/ answer'[t] = answer[t]
    BY <1>3 DEF SendRequests, Http!Send, Http!Started
  <2> QED BY <1>3, <1>1, <2>1 DEF SendRequests, Http!Send, BlameInv
<1>4. ASSUME NEW t \in Targets, TargetReturns(t) PROVE BlameInv'
  <2>1. answer[t] \in {"none", "OK"} \cup Http!HttpCodes
    BY DEF TypeInv, TypeOK, Http!HttpTypeOK
  <2>2. /\ execution'[t] = "VERIFY_TOTAL_TIMEOUT" => TotalTimedOut
        /\ execution'[t] = "VERIFY_INTERRUPTED" => interrupted
    BY <1>4, <2>1 DEF TargetReturns, BlameInv, TypeInv, TypeOK, Http!HttpCodes, Http!FailureCodes
  <2>3. \A u \in Targets \ {t} : execution'[u] = execution[u]
    BY <1>4 DEF TargetReturns, TypeInv, TypeOK
  <2> QED BY <1>1, <1>4, <2>2, <2>3 DEF TargetReturns, BlameInv, signalVars, requestVars
<1>5. CASE CallHook \/ SetupHookReturns \/ OperationFails \/ OperationReturns \/ CleanupHookReturns
           \/ Finish
  BY <1>1, <1>5 DEF CallHook, SetupHookReturns, OperationFails, OperationReturns, Finish,
     CleanupHookReturns, BlameInv, signalVars, requestVars, lifecycleVars
<1>6. CASE Environment \/ UNCHANGED vars
  <2>1. OnlyAnswers /\ UNCHANGED lifecycleVars
    BY <1>6, EnvironmentOnlySettles, EnvironmentOnlyAnswers
  <2>2. aborted => aborted'
    BY <1>6, AbortOnlyAnswers DEF Environment, CallerAborts, TotalTimerFires, HookTimerFires,
       HookSettles, RequestSettles, Http!Answer, signalVars, vars
  <2>3. aborted' => interrupted' \/ TotalTimedOut'
    BY <1>1, <1>6 DEF Environment, CallerAborts, TotalTimerFires, HookTimerFires, HookSettles,
       RequestSettles, Http!Answer, TotalTimedOut, BlameInv, signalVars, vars
  <2> QED BY <1>1, <2>1, <2>2, <2>3 DEF BlameInv, OnlyAnswers, lifecycleVars
<1> QED BY <1>2, <1>3, <1>4, <1>5, <1>6 DEF Next, Code, Environment

-----------------------------------------------------------------------------
(* The result                                                              *)

(* After the return only the caller's own signal can still change.         *)
LEMMA ReturnedStable ==
    IInv /\ pc = "returned" /\ [Next]_vars =>
        UNCHANGED <<options, pc, callVars, requestVars, lifecycleVars, result, interrupted,
                    totalTimer>>
<1> SUFFICES ASSUME IInv, pc = "returned", [Next]_vars
             PROVE  UNCHANGED <<options, pc, callVars, requestVars, lifecycleVars, result,
                                interrupted, totalTimer>>
  OBVIOUS
<1> USE DEF IInv
<1>1. \A h \in Hooks : call[h] # "running"
  BY HookSets DEF PhaseInv
<1>2. (\A t \in Targets : request[t] # "pending") /\ totalTimer # "armed"
  BY DEF PhaseInv, ResultInv
<1>3. ~Code
  BY DEF Code, Begin, CallHook, SetupHookReturns, OperationFails, SendRequests, TargetReturns,
         OperationReturns, CleanupHookReturns, Finish
<1>4. CASE CallerAborts
  BY <1>4 DEF CallerAborts, callVars, requestVars
<1>5. CASE \E h \in Hooks : HookTimerFires(h) \/ HookSettles(h)
  BY <1>1, <1>5 DEF HookTimerFires, HookSettles, Hook!Terminate, Hook!Settle
<1>6. CASE \E t \in Targets : RequestSettles(t)
  BY <1>2, <1>6 DEF RequestSettles, Http!Answer
<1>7. CASE UNCHANGED vars
  BY <1>7 DEF vars, signalVars
<1> QED BY <1>2, <1>3, <1>4, <1>5, <1>6, <1>7 DEF Next, TotalTimerFires

(* A lifecycle that failed has a failure of its own.                       *)
LEMMA LifecycleFailuresNonempty ==
    ASSUME ~completed
    PROVE  \E f \in LifecycleFailures : f.where \in {"setup", "total"}
<1>1. \A code, where : Failure(code, where).where = where
  BY DEF Failure
<1>2. \E code \in {"VERIFY_TOTAL_TIMEOUT", "VERIFY_INTERRUPTED"} :
         Failure(code, "total") \in Interruption
  BY DEF Interruption
<1>3. \/ Interruption \subseteq LifecycleFailures
      \/ Failure(preparation, "setup") \in LifecycleFailures
      \/ Failure(primary, "setup") \in LifecycleFailures
  BY DEF LifecycleFailures
<1> QED BY <1>1, <1>2, <1>3

(* Nobody but an interruption gives a failure its code.                    *)
LEMMA LifecycleFailuresBlame ==
    ASSUME TypeInv, NEW f \in LifecycleFailures, f.code \in InterruptionCodes
    PROVE  /\ f.code = "VERIFY_TOTAL_TIMEOUT" => TotalTimedOut
           /\ f.code = "VERIFY_INTERRUPTED" => interrupted
<1>1. \A code \in Hook!HookCodes \cup OperationCodes \cup PreparationCodes :
         code \notin InterruptionCodes
  BY DEF Hook!HookCodes, Hook!RefusalCodes, OperationCodes, PreparationCodes, InterruptionCodes
<1>2. "none" \notin InterruptionCodes
  BY DEF InterruptionCodes
<1>3. /\ \A code \in cleanupFailures : code \notin InterruptionCodes
      /\ primary \notin InterruptionCodes /\ preparation \notin InterruptionCodes
  BY <1>1, <1>2 DEF TypeInv, TypeOK
<1>4. f \in Interruption /\ (TotalTimedOut \/ interrupted)
  BY <1>3 DEF LifecycleFailures, Failure
<1> QED BY <1>4 DEF Interruption, Failure

LEMMA TargetFailuresBlame ==
    ASSUME BlameInv, NEW f \in TargetFailures
    PROVE  /\ f.code = "VERIFY_TOTAL_TIMEOUT" => TotalTimedOut
           /\ f.code = "VERIFY_INTERRUPTED" => interrupted
<1>1. PICK t \in Targets : f = Failure(execution[t], t)
  BY DEF TargetFailures
<1> QED BY <1>1 DEF BlameInv, Failure

(* The failures of the result of a call whose lifecycle is over.           *)
Reported == TargetFailures \cup (IF ~completed \/ cleanupFailures # {}
                                 THEN LifecycleFailures ELSE LateInterruption)

LEMMA ReportedInterruption ==
    ASSUME TypeInv, BlameInv
    PROVE  /\ interrupted \/ TotalTimedOut => \E f \in Reported : f.code \in InterruptionCodes
           /\ \A f \in Reported : /\ f.code = "VERIFY_TOTAL_TIMEOUT" => TotalTimedOut
                                  /\ f.code = "VERIFY_INTERRUPTED" => interrupted
<1>1. ASSUME interrupted \/ TotalTimedOut PROVE \E f \in Reported : f.code \in InterruptionCodes
  <2>1. \E f \in Interruption : f.code \in InterruptionCodes
    BY DEF Interruption, InterruptionCodes, Failure
  <2>2. CASE ~completed \/ cleanupFailures # {}
    <3>1. Interruption \subseteq LifecycleFailures
      BY <1>1 DEF LifecycleFailures
    <3> QED BY <2>1, <2>2, <3>1 DEF Reported
  <2>3. CASE completed /\ cleanupFailures = {}
    <3>1. CASE \A t \in Targets : execution[t] \notin InterruptionCodes
      BY <1>1, <2>1, <2>3, <3>1 DEF Reported, LateInterruption
    <3>2. ASSUME NEW t \in Targets, execution[t] \in InterruptionCodes
          PROVE  \E f \in Reported : f.code \in InterruptionCodes
      <4>1. Failure(execution[t], t) \in TargetFailures
        BY <2>3, <3>2 DEF TargetFailures, InterruptionCodes
      <4> QED BY <3>2, <4>1 DEF Reported, Failure
    <3> QED BY <3>1, <3>2
  <2> QED BY <2>2, <2>3
<1>2. ASSUME NEW f \in Reported
      PROVE  /\ f.code = "VERIFY_TOTAL_TIMEOUT" => TotalTimedOut
             /\ f.code = "VERIFY_INTERRUPTED" => interrupted
  <2>1. CASE f \in TargetFailures
    BY <2>1, TargetFailuresBlame
  <2>2. CASE f \in LifecycleFailures
    BY <2>2, LifecycleFailuresBlame DEF InterruptionCodes
  <2>3. CASE f \in LateInterruption
    BY <2>3 DEF LateInterruption, Interruption, Failure
  <2> QED BY <2>1, <2>2, <2>3 DEF Reported
<1> QED BY <1>1, <1>2

LEMMA ReportedObservations ==
    ASSUME ExecutionInv, TypeInv, AnswerInv, pc = "cleanup", NEW t \in Targets
    PROVE  /\ t \in Observed <=> answer[t] = "OK"
           /\ t \notin Observed =>
                 \E f \in Reported : f.where = t \/ f.where \in {"startup", "setup", "total"}
<1>1. t \in Observed <=> answer[t] = "OK"
  <2>1. CASE completed
    BY <2>1 DEF Observed, TypeInv, AnswerInv
  <2>2. CASE ~completed
    BY <2>2 DEF Observed, AnswerInv
  <2> QED BY <2>1, <2>2
<1>2. ASSUME completed, t \notin Observed
      PROVE  \E f \in Reported : f.where = t
  <2>1. Failure(execution[t], t) \in TargetFailures
    BY <1>2 DEF TargetFailures, Observed
  <2> QED BY <2>1 DEF Reported, Failure
<1>3. ASSUME ~completed PROVE \E f \in Reported : f.where \in {"setup", "total"}
  BY <1>3, LifecycleFailuresNonempty DEF Reported
<1> QED BY <1>1, <1>2, <1>3

LEMMA ReportedCleanup ==
    ASSUME IInv, pc = "cleanup", current = NSetup + NCleanup + 1,
           NEW h \in CleanupHooks, outcome[h] \notin {"none", "OK"}
    PROVE  Failure(outcome[h], "cleanup") \in Reported
<1>1. h < current
  BY VerifyScenarioAssumption DEF CleanupHooks
<1>2. outcome[h] \in cleanupFailures
  BY <1>1 DEF IInv, PhaseInv
<1> QED BY <1>2 DEF Reported, LifecycleFailures

LEMMA ReportInvNext == IInv /\ JInv /\ [Next]_vars => ReportInv'
<1> SUFFICES ASSUME IInv, JInv, [Next]_vars PROVE ReportInv'
  OBVIOUS
<1>1. CASE pc = "returned"
  <2>1. UNCHANGED <<options, pc, callVars, requestVars, lifecycleVars, result, interrupted,
                    totalTimer>>
    BY <1>1, ReturnedStable
  <2> QED BY <2>1 DEF JInv, ReportInv, InterruptionIsReported, EveryObservationAccountedFor,
                      CleanupFailureIsReported, Returned, TotalTimedOut, callVars, requestVars
<1>2. CASE pc # "returned" /\ pc' # "returned"
  BY <1>2 DEF ReportInv, InterruptionIsReported, EveryObservationAccountedFor,
              CleanupFailureIsReported, Returned
<1>3. CASE Begin /\ pc' = "returned"
  <2>1. /\ result'.failures = PolicyFailures(options) /\ PolicyFailures(options) # {}
        /\ result'.observed = {}
        /\ ~interrupted' /\ ~TotalTimedOut'
    BY <1>3 DEF Begin, JInv, LifecycleInv, TotalTimedOut
  <2>2. \A f \in PolicyFailures(options) : f.code \in PolicyCodes /\ f.code \notin InterruptionCodes
    BY PolicyFailuresCodes DEF PolicyCodes, InterruptionCodes
  <2>3. InterruptionIsReported'
    BY <2>1, <2>2 DEF InterruptionIsReported, InterruptionCodes
  <2>4. \A t \in Targets : answer'[t] # "OK"
    BY <1>3 DEF Begin, requestVars, IInv, PhaseInv, JInv, AnswerInv
  <2>5. EveryObservationAccountedFor'
    BY <2>1, <2>2, <2>4 DEF EveryObservationAccountedFor
  <2>6. \A h \in CleanupHooks : outcome'[h] = "none"
    BY <1>3, HookSets DEF Begin, callVars, IInv, PhaseInv, TypeInv
  <2> QED BY <2>3, <2>5, <2>6 DEF ReportInv, CleanupFailureIsReported
<1>4. CASE Finish
  <2>1. /\ result'.failures = Reported /\ result'.observed = Observed
        /\ UNCHANGED <<interrupted, callVars, requestVars>>
        /\ TotalTimedOut' = TotalTimedOut
    BY <1>4 DEF Finish, FinalResult, Reported, TotalTimedOut
  <2>2. InterruptionIsReported'
    <3>1. /\ interrupted \/ TotalTimedOut => \E f \in Reported : f.code \in InterruptionCodes
          /\ \A f \in Reported : /\ f.code = "VERIFY_TOTAL_TIMEOUT" => TotalTimedOut
                                 /\ f.code = "VERIFY_INTERRUPTED" => interrupted
      BY ReportedInterruption DEF IInv, JInv
    <3> QED BY <2>1, <3>1 DEF InterruptionIsReported
  <2>3. EveryObservationAccountedFor'
    <3>1. \A t \in Targets :
             /\ t \in Observed <=> answer[t] = "OK"
             /\ t \notin Observed =>
                   \E f \in Reported : f.where = t \/ f.where \in {"startup", "setup", "total"}
      BY <1>4, ReportedObservations DEF Finish, IInv, JInv
    <3> QED BY <2>1, <3>1 DEF EveryObservationAccountedFor, requestVars
  <2>4. CleanupFailureIsReported'
    <3>1. \A h \in CleanupHooks : outcome[h] \notin {"none", "OK"} =>
              Failure(outcome[h], "cleanup") \in Reported
      BY <1>4, ReportedCleanup DEF Finish
    <3> QED BY <2>1, <3>1 DEF CleanupFailureIsReported, callVars
  <2> QED BY <2>2, <2>3, <2>4 DEF ReportInv
<1>5. CASE CallHook \/ SetupHookReturns \/ OperationFails \/ SendRequests \/ OperationReturns
           \/ CleanupHookReturns \/ \E t \in Targets : TargetReturns(t)
  <2>1. pc # "returned" /\ pc' # "returned"
    BY <1>5 DEF CallHook, SetupHookReturns, OperationFails, SendRequests, OperationReturns,
       CleanupHookReturns, TargetReturns, EnterCleanup
  <2> QED BY <1>2, <2>1
<1>6. CASE Environment \/ UNCHANGED vars
  <2>1. UNCHANGED pc
    BY <1>6, EnvironmentOnlySettles
  <2> QED BY <1>1, <1>2, <2>1
<1> QED BY <1>2, <1>3, <1>4, <1>5, <1>6 DEF Next, Code, Environment, Begin

-----------------------------------------------------------------------------
(* The invariant and what follows from it                                  *)

LEMMA JInvInit == Init => JInv
<1> SUFFICES ASSUME Init PROVE JInv
  OBVIOUS
<1>1. LifecycleInv
  BY DEF Init, LifecycleInv
<1>2. DeclaredInv
  BY DEF Init, Hook!ContractInit, DeclaredInv, Effects
<1>3. AnswerInv
  BY DEF Init, AnswerInv
<1>4. BlameInv
  BY DEF Init, BlameInv
<1>5. ReportInv
  BY DEF Init, ReportInv, InterruptionIsReported, EveryObservationAccountedFor,
         CleanupFailureIsReported, Returned
<1> QED BY <1>1, <1>2, <1>3, <1>4, <1>5 DEF JInv

LEMMA ResultInvariant == Spec => [](IInv /\ JInv)
<1>1. IInv /\ JInv /\ [Next]_vars => JInv'
  BY LifecycleInvNext, DeclaredInvNext, AnswerInvNext, BlameInvNext, ReportInvNext DEF JInv
<1> QED BY <1>1, JInvInit, InductiveInvariant, PTL DEF Spec

(* No hook and no request without the declarations it needs, whatever the  *)
(* options and the number of hooks (evaluateReplayPolicy).                 *)
THEOREM DeclarationsCorrect == Spec => []EffectsAreDeclared
<1>1. IInv /\ JInv => EffectsAreDeclared
  <2> SUFFICES ASSUME IInv, JInv PROVE EffectsAreDeclared
    OBVIOUS
  <2>1. options \in Options
    BY DEF IInv, TypeInv, TypeOK
  <2>2. CASE Effects
    <3>1. PolicyFailures(options) = {}
      BY <2>2 DEF JInv, DeclaredInv
    <3>2. /\ \A t \in Targets : TargetAllowed(options, t)
          /\ Hooks # {} => options.hookIsolation
          /\ options.stateChanging => /\ options.allowStateChanging
                                      /\ options.isolated = Targets
                                      /\ CleanupHooks \subseteq options.idempotent
      BY <2>1, <3>1, PolicyPermits
    <3> QED BY <3>2 DEF EffectsAreDeclared, TargetAllowed
  <2>3. CASE ~Effects
    BY <2>3 DEF EffectsAreDeclared, Effects
  <2> QED BY <2>2, <2>3
<1> QED BY <1>1, ResultInvariant, PTL

(* A timeout or an interruption is reported exactly if there was one       *)
(* before the return (lifecycleFailures, interruptedFailure).              *)
THEOREM InterruptionCorrect == Spec => []InterruptionIsReported
<1>1. JInv => InterruptionIsReported
  BY DEF JInv, ReportInv
<1> QED BY <1>1, ResultInvariant, PTL

(* Every observation made is in the result, and every one missing has a    *)
(* failure that explains it (finalizeResult).                              *)
THEOREM ObservationsCorrect == Spec => []EveryObservationAccountedFor
<1>1. JInv => EveryObservationAccountedFor
  BY DEF JInv, ReportInv
<1> QED BY <1>1, ResultInvariant, PTL

(* No failed cleanup hook is missing from the result (lifecycleFailures).  *)
THEOREM CleanupFailuresCorrect == Spec => []CleanupFailureIsReported
<1>1. JInv => CleanupFailureIsReported
  BY DEF JInv, ReportInv
<1> QED BY <1>1, ResultInvariant, PTL

-----------------------------------------------------------------------------
(* The contract                                                            *)

(* What the contract sees of a call.                                       *)
Stage == IF pc = "start" THEN "waiting" ELSE IF Returned THEN "returned" ELSE "running"
Sound == /\ ~interrupted /\ ~TotalTimedOut
         /\ primary = "none" /\ cleanupFailures = {}
         /\ \A t \in Targets : execution[t] \in {"none", "OK"}

(* finalizeResult calls the result complete exactly if nothing went wrong. *)
LEMMA FinalResultSound ==
    ASSUME IInv, JInv, pc = "cleanup", current = NSetup + NCleanup + 1
    PROVE  /\ FinalResult.status = IF Sound THEN "complete" ELSE "incomplete"
           /\ FinalResult.observed \in SUBSET Targets
           /\ Sound => FinalResult.observed = Targets
<1>1. ASSUME Sound PROVE FinalResult.status = "complete" /\ FinalResult.observed = Targets
  <2>1. completed /\ cleanupFailures = {} /\ \A t \in Targets : execution[t] = "OK"
    BY <1>1 DEF Sound, IInv, TypeInv
  <2>2. TargetFailures = {} /\ LateInterruption = {}
    BY <1>1, <2>1 DEF TargetFailures, LateInterruption, Sound
  <2> QED BY <2>1, <2>2 DEF FinalResult, Observed
<1>2. ASSUME FinalResult.status = "complete" PROVE Sound
  <2>1. ~interrupted /\ ~TotalTimedOut
    BY <1>2, FinalResultComplete DEF IInv
  <2>2. TargetFailures = {} /\ (IF ~completed \/ cleanupFailures # {}
                                THEN LifecycleFailures ELSE LateInterruption) = {}
    BY <1>2 DEF FinalResult
  <2>3. completed
    BY <2>2, LifecycleFailuresNonempty
  <2>4. cleanupFailures = {}
    BY <2>2 DEF LifecycleFailures
  <2>5. \A t \in Targets : execution[t] = "OK"
    BY <2>2, <2>3 DEF TargetFailures
  <2> QED BY <2>1, <2>3, <2>4, <2>5 DEF Sound, JInv, LifecycleInv
<1>3. FinalResult.status \in {"complete", "incomplete"} /\ FinalResult.observed \in SUBSET Targets
  BY DEF FinalResult, Observed
<1> QED BY <1>1, <1>2, <1>3

(* A step of the running call that does not return can only lose soundness *)
(* and only gain effects.                                                  *)
LEMMA RunningImplements ==
    ASSUME IInv, pc \in {"setup", "requests", "cleanup"}, pc' \in {"setup", "requests", "cleanup"},
           UNCHANGED <<callerAborted, result>>, Effects => Effects', Sound' => Sound
    PROVE  Contract!Run
<1>1. Stage = "running" /\ Stage' = "running"
  BY DEF Stage, Returned
<1>2. Effects' \in {Effects, TRUE}
  BY DEF Effects
<1>3. Sound' \in {Sound, FALSE}
  BY DEF Sound
<1> QED BY <1>1, <1>2, <1>3 DEF Contract!Run, Stage, Sound

LEMMA CodeImplements == IInv /\ JInv /\ Code => Contract!ContractNext
<1> SUFFICES ASSUME IInv, JInv, Code PROVE Contract!ContractNext
  OBVIOUS
<1> USE DEF lifecycleVars, requestVars, callVars, signalVars
<1>1. CASE Begin
  <2>1. result = NoResult /\ Effects' = Effects
    BY <1>1 DEF Begin, IInv, ResultInv, Effects
  <2>2. Sound
    BY <1>1 DEF Begin, Sound, TotalTimedOut, IInv, ExecutionInv, JInv, LifecycleInv
  <2>3. CASE PolicyFailures(options) # {}
    <3>1. Sound' = Sound
      BY <1>1, <2>3 DEF Begin, Sound, TotalTimedOut
    <3>2. /\ Stage = "waiting" /\ Stage' = "returned" /\ result'.status = "incomplete"
          /\ result'.observed = result.observed /\ callerAborted' = callerAborted
      BY <1>1, <2>1, <2>3 DEF Begin, Stage, Returned, NoResult
    <3> QED BY <2>1, <3>1, <3>2 DEF Contract!ContractNext, Contract!Refuse, Stage, Sound
  <2>4. CASE PolicyFailures(options) = {}
    <3>1. Sound' = ~callerAborted
      BY <1>1, <2>2, <2>4 DEF Begin, Sound, TotalTimedOut, IInv, TypeInv, TypeOK
    <3>2. Stage = "waiting" /\ Stage' = "running" /\ UNCHANGED <<result, callerAborted>>
      BY <1>1, <2>4 DEF Begin, Stage, Returned
    <3> QED BY <2>1, <3>1, <3>2 DEF Contract!ContractNext, Contract!Begin, Stage, Sound
  <2> QED BY <2>3, <2>4
<1>2. CASE Finish
  <2>1. /\ Stage = "running" /\ Stage' = "returned" /\ callerAborted' = callerAborted
        /\ result' = FinalResult
    BY <1>2 DEF Finish, Stage, Returned
  <2>2. /\ FinalResult.status = IF Sound THEN "complete" ELSE "incomplete"
        /\ FinalResult.observed \in SUBSET Targets
        /\ Sound => FinalResult.observed = Targets
    BY <1>2, FinalResultSound DEF Finish
  <2>3. Sound' = Sound /\ Effects' = Effects
    BY <1>2 DEF Finish, Sound, Effects, TotalTimedOut
  <2> QED BY <2>1, <2>2, <2>3 DEF Contract!ContractNext, Contract!Return, Stage, Sound
<1>3. CASE CallHook \/ SetupHookReturns \/ OperationFails \/ SendRequests \/ OperationReturns
           \/ CleanupHookReturns \/ \E t \in Targets : TargetReturns(t)
  <2>1. /\ pc \in {"setup", "requests", "cleanup"} /\ pc' \in {"setup", "requests", "cleanup"}
        /\ UNCHANGED <<callerAborted, result>>
    BY <1>3 DEF CallHook, SetupHookReturns, OperationFails, SendRequests, OperationReturns,
       CleanupHookReturns, TargetReturns, EnterCleanup
  <2>2. Effects => Effects'
    <3>1. CASE CallHook
      BY <3>1 DEF CallHook, Hook!Refuse, Hook!Spawn, Hook!SettleWith, Effects, IInv, TypeInv,
                  TypeOK, Hook!ContractTypeOK
    <3>2. CASE SendRequests
      BY <3>2 DEF SendRequests, Http!Send, Effects, IInv, PhaseInv
    <3>3. CASE UNCHANGED <<callVars, requestVars>>
      BY <3>3 DEF Effects
    <3> QED BY <1>3, <3>1, <3>2, <3>3 DEF SetupHookReturns, OperationFails, OperationReturns,
               CleanupHookReturns, TargetReturns
  <2>3. Sound' => Sound
    <3>1. CASE CallHook \/ OperationReturns
      BY <3>1 DEF CallHook, OperationReturns, Sound, TotalTimedOut
    <3>2. CASE SetupHookReturns \/ OperationFails
      BY <3>2 DEF SetupHookReturns, OperationFails, Sound, TotalTimedOut, JInv, LifecycleInv
    <3>3. CASE SendRequests
      BY <3>3 DEF SendRequests, Sound, TotalTimedOut, IInv, ExecutionInv
    <3>4. CASE CleanupHookReturns
      BY <3>4 DEF CleanupHookReturns, Sound, TotalTimedOut
    <3>5. ASSUME NEW t \in Targets, TargetReturns(t) PROVE Sound' => Sound
      <4>1. \A u \in Targets : execution[u] \in {"none"} \/ execution'[u] = execution[u]
        BY <3>5 DEF TargetReturns, IInv, TypeInv, TypeOK
      <4> QED BY <3>5, <4>1 DEF TargetReturns, Sound, TotalTimedOut
    <3> QED BY <1>3, <3>1, <3>2, <3>3, <3>4, <3>5
  <2> QED BY <2>1, <2>2, <2>3, RunningImplements DEF Contract!ContractNext
<1> QED BY <1>1, <1>2, <1>3 DEF Code

LEMMA EnvironmentImplements ==
    IInv /\ JInv /\ (Environment \/ UNCHANGED vars) =>
        Contract!ContractNext \/ UNCHANGED Contract!contractVars
<1> SUFFICES ASSUME IInv, JInv, Environment \/ UNCHANGED vars
             PROVE  Contract!ContractNext \/ UNCHANGED Contract!contractVars
  OBVIOUS
<1>1. UNCHANGED <<pc, lifecycleVars, result>> /\ Effects' = Effects
  BY EnvironmentOnlySettles, SettlingKeepsEffects DEF IInv
<1>2. Stage' = Stage
  BY <1>1 DEF Stage, Returned
<1>3. CASE CallerAborts
  <2>1. pc \in {"start", "returned"} <=> Stage # "running"
    BY DEF Stage, Returned
  <2>2. Sound' = (Sound /\ Stage # "running")
    <3>1. CASE Stage = "running"
      BY <1>3, <2>1, <3>1 DEF CallerAborts, Sound
    <3>2. CASE Stage # "running"
      <4>1. UNCHANGED <<interrupted, totalTimer, lifecycleVars>>
        BY <1>3, <2>1, <3>2 DEF CallerAborts
      <4> QED BY <3>2, <4>1 DEF Sound, TotalTimedOut, lifecycleVars
    <3> QED BY <3>1, <3>2
  <2> QED BY <1>1, <1>2, <1>3, <2>2
          DEF CallerAborts, Contract!ContractNext, Contract!Stop, Stage, Sound
<1>4. CASE TotalTimerFires
  <2>1. pc \in {"setup", "requests", "cleanup"} /\ UNCHANGED <<callerAborted, result>>
    BY <1>4 DEF TotalTimerFires, IInv, TypeInv, TypeOK, ResultInv
  <2>2. ~Sound'
    BY <1>4 DEF TotalTimerFires, Sound, TotalTimedOut
  <2> QED BY <1>1, <2>1, <2>2, RunningImplements DEF Contract!ContractNext
<1>5. CASE \/ \E h \in Hooks : HookTimerFires(h) \/ HookSettles(h)
           \/ \E t \in Targets : RequestSettles(t)
           \/ UNCHANGED vars
  <2>1. UNCHANGED <<callerAborted, interrupted, totalTimer>>
    BY <1>5 DEF HookTimerFires, HookSettles, RequestSettles, vars, signalVars
  <2>2. Sound' = Sound
    BY <1>1, <2>1 DEF Sound, TotalTimedOut, lifecycleVars
  <2> QED BY <1>1, <1>2, <2>1, <2>2 DEF Contract!contractVars, Stage, Sound
<1> QED BY <1>3, <1>4, <1>5 DEF Environment

(* verifyScenario implements VerificationContract: it refuses without any  *)
(* effect, or its result is complete exactly if nothing went wrong before  *)
(* it returned - an abort by the caller included.                          *)
THEOREM ContractImplemented == Spec => ImplementsContract
<1>1. Init => Contract!ContractInit
  <2> SUFFICES ASSUME Init PROVE Contract!ContractInit
    OBVIOUS
  <2>1. (Effects <=> FALSE) /\ (Sound <=> TRUE) /\ Stage = "waiting"
    BY DEF Init, Hook!ContractInit, Effects, Sound, Stage, TotalTimedOut
  <2> QED BY <2>1 DEF Init, Contract!ContractInit, NoResult, Stage, Sound
<1>2. IInv /\ JInv /\ [Next]_vars => [Contract!ContractNext]_(Contract!contractVars)
  BY CodeImplements, EnvironmentImplements DEF Next, Environment
<1> QED BY <1>1, <1>2, ResultInvariant, PTL DEF Spec, ImplementsContract, Contract!ContractSpec
=============================================================================
