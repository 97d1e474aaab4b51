--------------------------- MODULE VerifyScenario ---------------------------
(***************************************************************************)
(* verifyScenario (orchestrator/src/verification.ts): the replay policy,   *)
(* the total timer, the caller's signal and the lifecycle of setup hooks,  *)
(* the two concurrent requests and cleanup hooks, up to the result.        *)
(*                                                                         *)
(* A hook call and a request are promises that keep HookContract and       *)
(* HttpContract.  Every await is a point where timers, the caller and the  *)
(* promises may move before the code goes on.                              *)
(***************************************************************************)
EXTENDS ReplayPolicy

CONSTANT Options   \* the options records verifyScenario may be called with

ASSUME VerifyScenarioAssumption == NSetup \in Nat /\ NCleanup \in Nat

(* Declarations are there or not, and isolation is one of a target.        *)
ASSUME OptionsAssumption ==
    \A o \in Options : /\ {o.hookIsolation, o.allowStateChanging, o.stateChanging} \subseteq BOOLEAN
                       /\ o.isolated \subseteq Targets

VARIABLES
    options,          \* the options of this call; it never changes
    pc,               \* "start", "setup", "requests", "cleanup", "returned"
    current,          \* the hook the loop of the phase is at
    callerAborted,    \* options.signal.aborted
    interrupted,      \* what onInterrupt recorded of it
    totalTimer,       \* "off", "armed" or "fired"
    aborted,          \* the composite signal
    call, reason, outcome,   \* the hook calls, see HookContract
    request, answer,         \* the requests, see HttpContract
    execution,        \* execution[t]: "none", "OK" for an observation, or a failure code
    completed,        \* the operation returned its pair of executions
    primary,          \* primaryCode of the lifecycle, "none" while undefined
    preparation,      \* the code of the request preparation error that caused it, or "none"
    cleanupFailures,  \* the codes runCleanupHooks collected
    result            \* NoResult until verifyScenario returns

signalVars == <<callerAborted, interrupted, totalTimer, aborted>>
callVars == <<call, reason, outcome>>
requestVars == <<request, answer>>
lifecycleVars == <<execution, completed, primary, preparation, cleanupFailures>>
vars == <<options, pc, current, signalVars, callVars, requestVars, lifecycleVars, result>>

Hook == INSTANCE HookContract
Http == INSTANCE HttpContract

OperationCodes == {"SCENARIO_OPERATION_ABORTED", "SCENARIO_OPERATION_FAILED"}
PreparationCodes == {"HTTP_REQUEST_BODY_INVALID", "HTTP_REQUEST_ENV_MISSING",
                     "HTTP_REQUEST_HEADER_INVALID", "HTTP_REQUEST_PATH_INVALID"}
InterruptionCodes == {"VERIFY_INTERRUPTED", "VERIFY_TOTAL_TIMEOUT"}
ExecutionCodes == Http!HttpCodes \cup InterruptionCodes \cup {"VERIFY_NETWORK_DENIED"}
PolicyCodes == {"VERIFY_CLEANUP_NOT_IDEMPOTENT", "VERIFY_NETWORK_DENIED",
                "VERIFY_NETWORK_ENFORCEMENT_UNSUPPORTED", "VERIFY_POLICY_INVALID",
                "VERIFY_SIDE_EFFECT_DENIED", "VERIFY_TARGET_NOT_ISOLATED"}

Failures == [code : PolicyCodes \cup ExecutionCodes \cup Hook!HookCodes \cup OperationCodes
                    \cup PreparationCodes,
             where : Targets \cup {"startup", "setup", "cleanup", "total"}]

Results == [status : {"complete", "incomplete"}, failures : SUBSET Failures,
            observed : SUBSET Targets]

NoResult == [status |-> "none", failures |-> {}, observed |-> {}]

TypeOK ==
    /\ options \in Options
    /\ pc \in {"start", "setup", "requests", "cleanup", "returned"}
    /\ current \in 1 .. NSetup + NCleanup + 1
    /\ callerAborted \in BOOLEAN /\ interrupted \in BOOLEAN
    /\ totalTimer \in {"off", "armed", "fired"}
    /\ Hook!ContractTypeOK
    /\ Http!HttpTypeOK
    /\ execution \in [Targets -> {"none", "OK"} \cup ExecutionCodes]
    /\ completed \in BOOLEAN
    /\ primary \in {"none"} \cup Hook!HookCodes \cup OperationCodes
    /\ preparation \in {"none"} \cup PreparationCodes
    /\ cleanupFailures \subseteq Hook!HookCodes
    /\ result \in Results \cup {NoResult}

Init ==
    /\ options \in Options
    /\ pc = "start" /\ current = 1
    /\ callerAborted \in BOOLEAN /\ interrupted = FALSE
    /\ totalTimer = "off" /\ aborted = FALSE
    /\ Hook!ContractInit
    /\ request = [t \in Targets |-> "idle"] /\ answer = [t \in Targets |-> "none"]
    /\ execution = [t \in Targets |-> "none"]
    /\ completed = FALSE
    /\ primary = "none" /\ preparation = "none"
    /\ cleanupFailures = {}
    /\ result = NoResult

TotalTimedOut == totalTimer = "fired"

-----------------------------------------------------------------------------
(* The beginning: a refused scenario returns without any effect; else the  *)
(* composite signal and the total timer are set up.                        *)
Begin ==
    /\ pc = "start"
    /\ IF PolicyFailures(options) # {}
       THEN /\ result' = [status |-> "incomplete", failures |-> PolicyFailures(options),
                          observed |-> {}]
            /\ pc' = "returned"
            /\ UNCHANGED <<interrupted, totalTimer, aborted>>
       ELSE /\ pc' = "setup"
            /\ interrupted' = callerAborted
            /\ aborted' = callerAborted
            /\ totalTimer' = "armed"
            /\ UNCHANGED result
    /\ UNCHANGED <<options, current, callerAborted, callVars, requestVars, lifecycleVars>>

(* Faulty: an abort cancels the cleanup as well.                           *)
EnterCleanupUnlessAborted ==
    pc' = "cleanup" /\ current' = IF aborted THEN NSetup + NCleanup + 1 ELSE NSetup + 1

EnterCleanup == pc' = "cleanup" /\ current' = NSetup + 1

(* The loop of a phase calls executeScenarioHook; only setup hooks get the *)
(* signal.                                                                 *)
CallHook ==
    /\ \/ pc = "setup" /\ current \in SetupHooks
       \/ pc = "cleanup" /\ current \in CleanupHooks
    /\ IF current \in SetupHooks /\ aborted
       THEN Hook!Refuse(current, "SCENARIO_HOOK_ABORTED")
       ELSE \/ Hook!Spawn(current)
            \/ \E code \in Hook!RefusalCodes \ {"SCENARIO_HOOK_ABORTED"} :
                   Hook!Refuse(current, code)
    /\ UNCHANGED <<options, pc, current, signalVars, requestVars, lifecycleVars, result>>

SetupHookReturns ==
    /\ pc = "setup" /\ current \in SetupHooks
    /\ call[current] = "settled"
    /\ IF outcome[current] = "OK"
       THEN current' = current + 1 /\ UNCHANGED <<pc, primary>>
       ELSE EnterCleanup /\ primary' = outcome[current]
    /\ UNCHANGED <<options, signalVars, callVars, requestVars, execution, completed,
                   preparation, cleanupFailures, result>>

(* The operation is not begun under an aborted signal; it fails before it  *)
(* sends anything if the request cannot be prepared or its options are     *)
(* rejected.                                                               *)
OperationFails ==
    /\ pc = "setup" /\ current = NSetup + 1
    /\ EnterCleanup
    /\ IF aborted
       THEN primary' = "SCENARIO_OPERATION_ABORTED" /\ UNCHANGED preparation
       ELSE /\ primary' = "SCENARIO_OPERATION_FAILED"
            /\ preparation' \in {"none"} \cup PreparationCodes
    /\ UNCHANGED <<options, signalVars, callVars, requestVars, execution, completed,
                   cleanupFailures, result>>

(* Both requests are sent in one stretch, except to a denied target.       *)
SendRequests ==
    /\ pc = "setup" /\ current = NSetup + 1
    /\ ~aborted
    /\ pc' = "requests"
    /\ Http!Send({t \in Targets : TargetAllowed(options, t)})
    /\ execution' = [t \in Targets |-> IF TargetAllowed(options, t) THEN "none"
                                                                  ELSE "VERIFY_NETWORK_DENIED"]
    /\ UNCHANGED <<options, current, callerAborted, interrupted, totalTimer, callVars,
                   completed, primary, preparation, cleanupFailures, result>>

(* executeVerificationTarget goes on after its await: an aborted request   *)
(* is attributed to the total timer if that has fired by now.              *)
TargetReturns(t) ==
    /\ pc = "requests" /\ execution[t] = "none"
    /\ request[t] = "settled"
    /\ execution' = [execution EXCEPT ![t] =
                       IF answer[t] # "HTTP_REQUEST_ABORTED" THEN answer[t]
                       ELSE IF TotalTimedOut THEN "VERIFY_TOTAL_TIMEOUT"
                       ELSE "VERIFY_INTERRUPTED"]
    /\ UNCHANGED <<options, pc, current, signalVars, callVars, requestVars, completed, primary,
                   preparation, cleanupFailures, result>>

(* Faulty: goes on with the first execution.                               *)
FirstExecution == \E t \in Targets : execution[t] # "none"

BothExecutions == \A t \in Targets : execution[t] # "none"

(* Promise.all resolved.                                                   *)
OperationReturns ==
    /\ pc = "requests"
    /\ BothExecutions
    /\ EnterCleanup
    /\ completed' = TRUE
    /\ UNCHANGED <<options, signalVars, callVars, requestVars, execution, primary, preparation,
                   cleanupFailures, result>>

(* Faulty: collects successes as well.                                     *)
AnyOutcome(h) == {outcome[h]}

(* What the catch clause of runCleanupHooks collects.                      *)
FailureOf(h) == {outcome[h]} \ {"OK"}

CleanupHookReturns ==
    /\ pc = "cleanup" /\ current \in CleanupHooks
    /\ call[current] = "settled"
    /\ current' = current + 1
    /\ cleanupFailures' = cleanupFailures \cup FailureOf(current)
    /\ UNCHANGED <<options, pc, signalVars, callVars, requestVars, execution, completed,
                   primary, preparation, result>>

-----------------------------------------------------------------------------
(* The result                                                              *)

Interruption ==
    {Failure(IF TotalTimedOut THEN "VERIFY_TOTAL_TIMEOUT" ELSE "VERIFY_INTERRUPTED", "total")}

(* Faulty: the lifecycle's own error hides an interruption.                *)
LifecycleFailuresCauseFirst ==
    (IF ~completed THEN {Failure(primary, "setup")}
     ELSE IF TotalTimedOut \/ interrupted THEN Interruption ELSE {})
    \cup {Failure(code, "cleanup") : code \in cleanupFailures}

(* Faulty: an interruption hides failed cleanup hooks.                     *)
LifecycleFailuresInterruptionOnly ==
    IF TotalTimedOut \/ interrupted THEN Interruption
    ELSE (IF completed THEN {} ELSE {Failure(primary, "setup")})
         \cup {Failure(code, "cleanup") : code \in cleanupFailures}

(* lifecycleFailures(): a timeout or an interruption stands for whatever   *)
(* ended the lifecycle; failed cleanup hooks are always added.             *)
LifecycleFailures ==
    (IF TotalTimedOut \/ interrupted THEN Interruption
     ELSE IF preparation # "none" THEN {Failure(preparation, "setup")}
     ELSE IF ~completed THEN {Failure(primary, "setup")}
     ELSE {})
    \cup {Failure(code, "cleanup") : code \in cleanupFailures}

(* Faulty: forgets the caller's late abort.                                *)
LateTimeout ==
    IF TotalTimedOut /\ \A t \in Targets : execution[t] \notin InterruptionCodes
    THEN Interruption ELSE {}

(* A lifecycle that succeeded is still reported as interrupted, unless an  *)
(* aborted request says so already.                                        *)
LateInterruption ==
    IF (TotalTimedOut \/ interrupted) /\ \A t \in Targets : execution[t] \notin InterruptionCodes
    THEN Interruption
    ELSE {}

(* Faulty: looks at one target only.                                       *)
BaselineFailures ==
    IF completed /\ execution["baseline"] # "OK"
    THEN {Failure(execution["baseline"], "baseline")} ELSE {}

TargetFailures ==
    IF completed
    THEN {Failure(execution[t], t) : t \in {u \in Targets : execution[u] # "OK"}}
    ELSE {}

(* Faulty: a failed cleanup discards the observations.                     *)
ObservedIfClean == {t \in Targets : completed /\ cleanupFailures = {} /\ execution[t] = "OK"}

(* The executions survive a failed cleanup.                                *)
Observed == {t \in Targets : completed /\ execution[t] = "OK"}

(* finalizeResult()                                                        *)
FinalResult ==
    LET failed == ~completed \/ cleanupFailures # {}
        failures == TargetFailures \cup (IF failed THEN LifecycleFailures ELSE LateInterruption)
    IN  [status |-> IF failures = {} THEN "complete" ELSE "incomplete",
         failures |-> failures,
         observed |-> Observed]

(* The lifecycle settles; the timer and the listener are removed.          *)
Finish ==
    /\ pc = "cleanup" /\ current = NSetup + NCleanup + 1
    /\ pc' = "returned"
    /\ totalTimer' = IF totalTimer = "armed" THEN "off" ELSE totalTimer
    /\ result' = FinalResult
    /\ UNCHANGED <<options, current, callerAborted, interrupted, aborted, callVars, requestVars,
                   lifecycleVars>>

-----------------------------------------------------------------------------
(* Timers, the caller, and the promises under way                          *)

AbortHooks ==
    LET listeners == {h \in SetupHooks : call[h] = "running" /\ reason[h] = "none"}
    IN  IF listeners = {}
        THEN UNCHANGED callVars
        ELSE \E h \in listeners : Hook!Terminate(h, "abort")

(* Faulty: the requests do not get the signal.                             *)
AbortSignalHooksOnly ==
    IF aborted
    THEN UNCHANGED <<aborted, requestVars, callVars>>
    ELSE aborted' = TRUE /\ UNCHANGED requestVars /\ AbortHooks

(* The composite signal aborts once: pending requests settle at once, and  *)
(* the running setup hook is asked to terminate unless its own timer came  *)
(* first.                                                                  *)
AbortSignal ==
    IF aborted
    THEN UNCHANGED <<aborted, requestVars, callVars>>
    ELSE Http!AbortAll /\ AbortHooks

(* The caller aborts, before, during or after the call.                    *)
CallerAborts ==
    /\ ~callerAborted
    /\ callerAborted' = TRUE
    /\ IF pc \in {"start", "returned"}
       THEN UNCHANGED <<interrupted, aborted, requestVars, callVars>>
       ELSE interrupted' = TRUE /\ AbortSignal
    /\ UNCHANGED <<options, pc, current, totalTimer, lifecycleVars, result>>

TotalTimerFires ==
    /\ totalTimer = "armed"
    /\ totalTimer' = "fired"
    /\ AbortSignal
    /\ UNCHANGED <<options, pc, current, callerAborted, interrupted, lifecycleVars, result>>

HookTimerFires(h) ==
    /\ Hook!Terminate(h, "timeout")
    /\ UNCHANGED <<options, pc, current, signalVars, requestVars, lifecycleVars, result>>

HookSettles(h) ==
    /\ \E code \in {"OK"} \cup Hook!HookCodes : Hook!Settle(h, code)
    /\ UNCHANGED <<options, pc, current, signalVars, requestVars, lifecycleVars, result>>

RequestSettles(t) ==
    /\ \E code \in {"OK"} \cup Http!FailureCodes : Http!Answer(t, code)
    /\ UNCHANGED <<options, pc, current, callerAborted, interrupted, totalTimer, callVars,
                   lifecycleVars, result>>

Code ==
    \/ Begin \/ CallHook \/ SetupHookReturns \/ OperationFails \/ SendRequests
    \/ \E t \in Targets : TargetReturns(t)
    \/ OperationReturns \/ CleanupHookReturns \/ Finish

Next ==
    \/ Code
    \/ CallerAborts \/ TotalTimerFires
    \/ \E h \in Hooks : HookTimerFires(h) \/ HookSettles(h)
    \/ \E t \in Targets : RequestSettles(t)

Spec == Init /\ [][Next]_vars

(* The event loop continues the code and fires armed timers, and a hook    *)
(* that was asked to terminate settles (HookLifecycle).  A hook need not   *)
(* end by itself, a target need not answer, and nobody need abort.         *)
Fairness ==
    /\ WF_vars(Code)
    /\ WF_vars(TotalTimerFires)
    /\ \A h \in Hooks : /\ WF_vars(HookTimerFires(h))
                        /\ WF_vars(reason[h] # "none" /\ HookSettles(h))

FairSpec == Spec /\ Fairness

-----------------------------------------------------------------------------
(* Properties                                                              *)

Returned == pc = "returned"
Effects == (\E h \in Hooks : call[h] # "idle") \/ (\E t \in Targets : request[t] # "idle")

(* A complete result means that nothing went wrong: every hook of both     *)
(* phases succeeded, both targets were observed, and neither the total     *)
(* timer nor the caller had interfered when it returned (verification.ts,  *)
(* finalizeResult in verification-result.ts).                              *)
CompleteIsFaultless ==
    result.status = "complete" =>
        /\ \A h \in Hooks : outcome[h] = "OK"
        /\ \A t \in Targets : answer[t] = "OK"
        /\ result.observed = Targets
        /\ ~interrupted /\ ~TotalTimedOut

(* Nothing runs unless it was declared: no hook without an isolation       *)
(* boundary, no request to a host that is not allowed, and nothing at all  *)
(* of a state-changing scenario without the authorization, both isolated   *)
(* targets and idempotent cleanup (verification-policy.ts:86-185).         *)
EffectsAreDeclared ==
    /\ \A h \in Hooks : call[h] # "idle" => options.hookIsolation
    /\ \A t \in Targets : request[t] # "idle" =>
          \/ options.host[t] = InvalidUrl
          \/ \E i \in DOMAIN options.allowHosts :
                Canonical[options.allowHosts[i]] = options.host[t]
    /\ Effects /\ options.stateChanging => /\ options.allowStateChanging
                                            /\ options.isolated = Targets
                                            /\ CleanupHooks \subseteq options.idempotent

(* The phases never overlap, whatever is aborted or timed out when: a      *)
(* request is pending only between a successful setup and the first        *)
(* cleanup hook, and hooks run one at a time (hooks.ts:386-471).           *)
PhasesDoNotOverlap ==
    /\ \A t \in Targets : request[t] = "pending" =>
          /\ \A h \in SetupHooks : outcome[h] = "OK"
          /\ \A h \in CleanupHooks : call[h] = "idle"
    /\ \A h \in Hooks : call[h] = "running" =>
          \A g \in Hooks \ {h} : call[g] # "running" /\ (g > h => call[g] = "idle")

(* Whatever happened, a call that was not refused has attempted every      *)
(* cleanup hook, none of them cut short by an abort, and no promise it     *)
(* started is still open when it returns (hooks.ts:348-380, 450).          *)
CleanupAlwaysAttempted ==
    Returned /\ PolicyFailures(options) = {} =>
        /\ \A h \in CleanupHooks : call[h] = "settled" /\ outcome[h] # "SCENARIO_HOOK_ABORTED"
        /\ \A h \in Hooks : call[h] # "running"
        /\ \A t \in Targets : request[t] # "pending"

(* An interruption before the return is reported, and a timeout or an      *)
(* interruption is reported only if it happened (verification.ts:57-68,    *)
(* 99-105, interruptedFailure and lifecycleFailures).                      *)
InterruptionIsReported ==
    LET codes == {f.code : f \in result.failures} IN
    Returned =>
        /\ interrupted \/ TotalTimedOut => codes \cap InterruptionCodes # {}
        /\ "VERIFY_TOTAL_TIMEOUT" \in codes => TotalTimedOut
        /\ "VERIFY_INTERRUPTED" \in codes => interrupted

(* "typed baseline and candidate observations or a stable failure for each *)
(* missing observation" (orchestrator/README.md): observations obtained    *)
(* survive a failing cleanup, and a missing one is explained by a failure  *)
(* of its target, or of the call before it reached the targets; a policy   *)
(* failure of either target explains both.                                 *)
EveryObservationAccountedFor ==
    Returned => \A t \in Targets :
        /\ t \in result.observed <=> answer[t] = "OK"
        /\ t \notin result.observed => \E f \in result.failures :
               f.where = t \/ f.where \in {"startup", "setup", "total"} \/ f.code \in PolicyCodes

(* A cleanup hook that failed shows in the result, also when a timeout or  *)
(* an interruption replaced the lifecycle's own failure (verification-     *)
(* result.ts:69-81).                                                       *)
CleanupFailureIsReported ==
    Returned => \A h \in CleanupHooks : outcome[h] \notin {"none", "OK"} =>
        Failure(outcome[h], "cleanup") \in result.failures

(* verifyScenario as the command sees it.                                  *)
Contract == INSTANCE VerificationContract WITH
    stopped  <- callerAborted,
    stage    <- IF pc = "start" THEN "waiting" ELSE IF Returned THEN "returned" ELSE "running",
    effects  <- Effects,
    sound    <- /\ ~interrupted /\ ~TotalTimedOut
                /\ primary = "none" /\ cleanupFailures = {}
                /\ \A t \in Targets : execution[t] \in {"none", "OK"},
    status   <- result.status,
    observed <- result.observed

(* The detailed call implements the abstract one: refused without effects, *)
(* or complete exactly if nothing went wrong.                              *)
ImplementsContract == Contract!ContractSpec

(* The call returns although no hook ends by itself and no target ever     *)
(* answers: the total timer and the hooks' own timeouts see to it.         *)
VerifyReturns == <>Returned

(* "Target availability, setup, timeout, interruption, cleanup, and        *)
(* transport failures are distinguishable" (orchestrator/README.md:51-52): *)
(* a setup hook that failed by itself shows as a setup failure.            *)
SetupFailureIsReported ==
    Returned => \A h \in SetupHooks : outcome[h] = "SCENARIO_HOOK_FAILED" =>
        Failure("SCENARIO_HOOK_FAILED", "setup") \in result.failures

=============================================================================
