---------------------------- MODULE HookLifecycle ---------------------------
(***************************************************************************)
(* runScenarioLifecycle and runCleanupHooks (orchestrator/src/hooks.ts)    *)
(* over the hook processes of ScenarioHook: setup hooks one after another  *)
(* until one fails, the operation, then every cleanup hook, then the       *)
(* result.  The operation is an arbitrary promise here; VerifyScenario     *)
(* looks into it.                                                          *)
(***************************************************************************)
EXTENDS ScenarioHook

VARIABLES phase,            \* "setup", "operation", "cleanup", then "settled"
          current,          \* the hook the loop of the phase is at
          primary,          \* primaryCode, "none" while undefined
          completed,        \* the operation returned a result
          cleanupFailures,  \* the codes runCleanupHooks collected
          verdict           \* the lifecycle's promise: "none", "OK" or an error code

vars == <<hookVars, phase, current, primary, completed, cleanupFailures, verdict>>

OperationCodes == {"SCENARIO_OPERATION_ABORTED", "SCENARIO_OPERATION_FAILED"}

TypeOK ==
    /\ hook \in [Hooks -> HookRecords]
    /\ aborted \in BOOLEAN
    /\ crashed \in BOOLEAN
    /\ mayRefuse \in Systems
    /\ phase \in {"setup", "operation", "cleanup", "settled"}
    /\ current \in 1 .. NSetup + NCleanup + 1
    /\ primary \in {"none"} \cup HookCodes \cup OperationCodes
    /\ completed \in BOOLEAN
    /\ cleanupFailures \subseteq HookCodes
    /\ verdict \in {"none", "OK", "SCENARIO_CLEANUP_FAILED"} \cup HookCodes \cup OperationCodes

Init ==
    /\ HookInit
    /\ phase = "setup"
    /\ current = 1
    /\ primary = "none"
    /\ completed = FALSE
    /\ cleanupFailures = {}
    /\ verdict = "none"

Calling ==
    \/ phase = "setup" /\ current \in SetupHooks
    \/ phase = "cleanup" /\ current \in CleanupHooks

(* The loop calls executeScenarioHook for the hook it is at.               *)
CallHook ==
    /\ Calling
    /\ Refuse(current) \/ Start(current)
    /\ UNCHANGED <<phase, current, primary, completed, cleanupFailures, verdict>>

EnterCleanup == phase' = "cleanup" /\ current' = NSetup + 1

(* Faulty: only an abort ends the setup.                                   *)
NotAborted(h) == hook[h].outcome # "SCENARIO_HOOK_ABORTED"

Succeeded(h) == hook[h].outcome = "OK"

(* await returned in the setup loop: the first failure ends the setup.     *)
SetupHookReturns ==
    /\ phase = "setup" /\ current \in SetupHooks
    /\ hook[current].call = "settled"
    /\ IF Succeeded(current)
       THEN current' = current + 1 /\ UNCHANGED <<phase, primary>>
       ELSE EnterCleanup /\ primary' = hook[current].outcome
    /\ UNCHANGED <<hookVars, completed, cleanupFailures, verdict>>

(* After the last setup hook: a signal aborted meanwhile prevents the      *)
(* operation.                                                              *)
BeginOperation ==
    /\ phase = "setup" /\ current = NSetup + 1
    /\ IF aborted
       THEN EnterCleanup /\ primary' = "SCENARIO_OPERATION_ABORTED"
       ELSE phase' = "operation" /\ UNCHANGED <<current, primary>>
    /\ UNCHANGED <<hookVars, completed, cleanupFailures, verdict>>

OperationReturns ==
    /\ phase = "operation"
    /\ EnterCleanup
    /\ \/ completed' = TRUE /\ UNCHANGED primary
       \/ /\ primary' = IF aborted THEN "SCENARIO_OPERATION_ABORTED"
                                   ELSE "SCENARIO_OPERATION_FAILED"
          /\ UNCHANGED completed
    /\ UNCHANGED <<hookVars, cleanupFailures, verdict>>

(* What the catch clause of runCleanupHooks collects.                      *)
FailureOf(h) == {hook[h].outcome} \ {"OK"}

(* await returned in runCleanupHooks: a failure is collected, the loop     *)
(* goes on.                                                                *)
CleanupHookReturns ==
    /\ phase = "cleanup" /\ current \in CleanupHooks
    /\ hook[current].call = "settled"
    /\ current' = current + 1
    /\ cleanupFailures' = cleanupFailures \cup FailureOf(current)
    /\ UNCHANGED <<hookVars, phase, primary, completed, verdict>>

(* Faulty: a failed cleanup passes for success.                            *)
VerdictDespiteCleanup == IF completed THEN "OK" ELSE primary

Verdict ==
    IF ~completed THEN primary
    ELSE IF cleanupFailures # {} THEN "SCENARIO_CLEANUP_FAILED"
    ELSE "OK"

Return ==
    /\ phase = "cleanup" /\ current = NSetup + NCleanup + 1
    /\ phase' = "settled"
    /\ verdict' = Verdict
    /\ UNCHANGED <<hookVars, current, primary, completed, cleanupFailures>>

Driver ==
    \/ CallHook \/ SetupHookReturns \/ BeginOperation \/ OperationReturns
    \/ CleanupHookReturns \/ Return

Environment ==
    /\ Abort \/ \E h \in Hooks : HookEvent(h)
    /\ UNCHANGED <<phase, current, primary, completed, cleanupFailures, verdict>>

(* A crashed program takes no further step.                                *)
Next == ~crashed /\ (Driver \/ Environment)

Spec == Init /\ [][Next]_vars

(* The event loop continues what it can, fires armed timers and delivers   *)
(* process events, and the operation's promise settles.  Nothing obliges a *)
(* child to exit by itself, and nothing obliges the caller to abort.       *)
Fairness ==
    /\ WF_vars(Next /\ Driver)
    /\ \A h \in Hooks :
         /\ WF_vars(Next /\ TimeoutFires(h))
         /\ WF_vars(Next /\ ForceFires(h))
         /\ WF_vars(Next /\ SpawnError(h))
         /\ WF_vars(Next /\ Close(h))

FairSpec == Spec /\ Fairness

-----------------------------------------------------------------------------
(* Properties                                                              *)

(* A hook counts as successful only if its process exited with code 0 and  *)
(* nobody had asked for its termination (hooks.ts:298-333).                *)
SuccessIsGenuine ==
    \A h \in Hooks : hook[h].outcome = "OK" =>
        hook[h].child = "gone" /\ hook[h].exit = "zero" /\ hook[h].reason = "none"

(* When a call settles nothing of it is left beside the next hook: no      *)
(* armed timer, no listener on the signal, no running process - so two     *)
(* hooks never run at once (finish(), hooks.ts:273-284).  Only a refused   *)
(* kill() leaves the process and the grace timer.                          *)
NothingLeftBehind ==
    \A h \in Hooks : hook[h].call = "settled" =>
        /\ hook[h].timeout # "armed" /\ ~hook[h].listening
        /\ hook[h].force = "armed" \/ hook[h].child \notin {"none", "dead", "gone"} => mayRefuse

(* A setup hook runs only after every earlier one succeeded, and the       *)
(* operation and its success only after all of them did (402-448).         *)
SetupFailureStopsSetup ==
    /\ \A h \in SetupHooks : hook[h].call # "idle" =>
            \A g \in 1 .. h - 1 : hook[g].outcome = "OK"
    /\ phase = "operation" \/ completed => \A h \in SetupHooks : hook[h].outcome = "OK"

(* No cleanup hook starts before the setup process and the operation are   *)
(* over, and an abort, even one before the start, reaches none of them     *)
(* (348-380, 450).                                                         *)
CleanupIsShielded ==
    \A h \in CleanupHooks :
        /\ hook[h].call # "idle" => \A g \in SetupHooks : hook[g].call # "running"
        /\ hook[h].reason # "abort" /\ hook[h].outcome # "SCENARIO_HOOK_ABORTED"

(* A lifecycle that is over has attempted every cleanup hook, and reports  *)
(* success only if every hook of both phases succeeded (450-470).          *)
VerdictIsEarned ==
    phase = "settled" =>
        /\ \A h \in CleanupHooks : hook[h].call = "settled"
        /\ verdict = "OK" => \A h \in Hooks : hook[h].outcome = "OK"

Contract == INSTANCE HookContract WITH
    call <- [h \in Hooks |-> hook[h].call],
    reason <- [h \in Hooks |-> hook[h].reason],
    outcome <- [h \in Hooks |-> hook[h].outcome]

(* Every call keeps the contract VerifyScenario is built on: it settles    *)
(* once, with a code that agrees with the first reason to terminate.       *)
ImplementsContract == Contract!ContractSpec

(* The lifecycle ends although children ignore SIGTERM and never exit: the *)
(* mandatory timeouts and the forced kills see to it.  Where kill() may be *)
(* refused the program may be down instead, but never waits for ever.      *)
LifecycleEnds == <>(phase = "settled" \/ (mayRefuse /\ crashed))

(* "Every cleanup hook is attempted once per invocation, including after   *)
(* ... timeout" (hooks.ts:383-384): none is left out when the program is   *)
(* done with the lifecycle, or done for.                                   *)
EveryCleanupAttempted ==
    phase = "settled" \/ crashed => \A h \in CleanupHooks : hook[h].call # "idle"
=============================================================================
