---------------------------- MODULE ScenarioHook ----------------------------
(***************************************************************************)
(* Calls of executeScenarioHook (orchestrator/src/hooks.ts) as the event   *)
(* loop runs them: per call the child process, the hook timeout, the grace *)
(* timer that forces termination, the abort listener and the once-only     *)
(* finish().  The process and the operating system are the environment: a  *)
(* child ends when and as it likes, may ignore SIGTERM, and kill() may be  *)
(* refused where mayRefuse says so.  Who calls which hook when is the      *)
(* business of HookLifecycle, which extends this module.                   *)
(***************************************************************************)
EXTENDS Naturals

CONSTANTS NSetup,      \* hooks 1..NSetup are setup hooks and get the signal,
          NCleanup,    \* the NCleanup after them are cleanup hooks and do not
          Systems      \* the values of mayRefuse to consider

ASSUME ScenarioHookAssumption == NSetup \in Nat /\ NCleanup \in Nat /\ Systems \subseteq BOOLEAN

SetupHooks == 1 .. NSetup
CleanupHooks == NSetup + 1 .. NSetup + NCleanup
Hooks == 1 .. NSetup + NCleanup

VARIABLES hook,      \* hook[h]: everything one call of executeScenarioHook owns
          aborted,   \* options.signal.aborted, shared by the setup hooks
          crashed,   \* an "error" event found no listener: the program is down
          mayRefuse  \* kill() may fail with EPERM (a child that changed user); never changes

hookVars == <<hook, aborted, crashed, mayRefuse>>

HookCodes == {"SCENARIO_HOOK_ABORTED", "SCENARIO_HOOK_ENV_MISSING", "SCENARIO_HOOK_FAILED",
              "SCENARIO_HOOK_START_FAILED", "SCENARIO_HOOK_TIMEOUT"}

HookRecords == [
    call      : {"idle", "running", "settled"},      \* the promise
    outcome   : {"none", "OK"} \cup HookCodes,       \* what it settled with
    reason    : {"none", "timeout", "abort"},        \* terminationReason
    timeout   : {"off", "armed", "fired"},           \* the hook timer
    force     : {"off", "armed", "fired"},           \* the grace timer
    listening : BOOLEAN,                             \* abort is registered
    onError   : BOOLEAN,                             \* once("error") not consumed
    child     : {"none", "unborn", "alive", "dead", "gone"},
                \* unborn: exec failed; dead: not yet reported by "close"
    exit      : {"none", "zero", "other"}]           \* how the child ended

NotCalled == [call |-> "idle", outcome |-> "none", reason |-> "none", timeout |-> "off",
              force |-> "off", listening |-> FALSE, onError |-> FALSE, child |-> "none",
              exit |-> "none"]

HookInit ==
    /\ hook = [h \in Hooks |-> NotCalled]
    /\ aborted \in BOOLEAN
    /\ crashed = FALSE
    /\ mayRefuse \in Systems

-----------------------------------------------------------------------------
(* Faulty: the signal is passed to every hook.                             *)
SignalForAll(h) == TRUE

(* Only the options of a setup hook carry the signal.                      *)
GetsSignal(h) == h \in SetupHooks

(* Faulty: settles again on every event.                                   *)
FinishAgain(r, result) ==
    [r EXCEPT !.call = "settled", !.outcome = result, !.timeout = IF @ = "armed" THEN "off" ELSE @,
              !.force = IF @ = "armed" THEN "off" ELSE @, !.listening = FALSE]

(* Faulty: leaves the grace timer armed.                                   *)
FinishKeepingForce(r, result) ==
    IF r.call = "settled" THEN r ELSE [FinishAgain(r, result) EXCEPT !.force = r.force]

(* finish(): only the first call counts; it disarms the timers it knows    *)
(* of, unregisters abort and settles the promise.                          *)
Finish(r, result) ==
    IF r.call = "settled"
    THEN r
    ELSE [r EXCEPT !.call = "settled",
                   !.outcome = result,
                   !.timeout = IF @ = "armed" THEN "off" ELSE @,
                   !.force = IF @ = "armed" THEN "off" ELSE @,
                   !.listening = FALSE]

Killed(r) == IF r.child = "alive" THEN [r EXCEPT !.child = "dead", !.exit = "other"] ELSE r

(* An "error" event settles the call and consumes the listener.            *)
ErrorEvent(r) == Finish([r EXCEPT !.onError = FALSE], "SCENARIO_HOOK_START_FAILED")

(* Faulty: relies on SIGTERM alone.                                        *)
TerminateOnlyOnce(r, why) ==
    LET asked == [r EXCEPT !.reason = why] IN {Killed(asked), asked}

(* terminateChild(): SIGTERM, then the grace timer.  The child dies, or    *)
(* ignores the signal.  A refused kill emits "error" inside the call:      *)
(* finish() then runs before the grace timer exists, and the timer is      *)
(* armed for a call already settled.                                       *)
TerminateChild(r, why) ==
    LET asked == [r EXCEPT !.reason = why]
        refused == IF mayRefuse /\ r.child = "alive" THEN {ErrorEvent(asked)} ELSE {}
    IN  {[after EXCEPT !.force = "armed"] : after \in {Killed(asked), asked} \cup refused}

(* The call rejects before it has a process: an aborted signal, an         *)
(* environment reference that is not set, or spawn() itself throwing.      *)
Refuse(h) ==
    /\ hook[h].call = "idle"
    /\ \E code \in IF GetsSignal(h) /\ aborted
                   THEN {"SCENARIO_HOOK_ABORTED"}
                   ELSE {"SCENARIO_HOOK_ENV_MISSING", "SCENARIO_HOOK_START_FAILED"} :
            hook' = [hook EXCEPT ![h].call = "settled", ![h].outcome = code]
    /\ UNCHANGED <<aborted, crashed, mayRefuse>>

(* spawn() returned: the hook timer and the listeners are in place.  A     *)
(* command that cannot be executed is reported by a later "error" event.   *)
Start(h) ==
    /\ hook[h].call = "idle"
    /\ ~(GetsSignal(h) /\ aborted)
    /\ \E born \in {"unborn", "alive"} :
            hook' = [hook EXCEPT ![h].call = "running",
                                 ![h].timeout = "armed",
                                 ![h].listening = GetsSignal(h),
                                 ![h].onError = TRUE,
                                 ![h].child = born]
    /\ UNCHANGED <<aborted, crashed, mayRefuse>>

(* The hook timer: it terminates the child unless an abort came first.     *)
TimeoutFires(h) ==
    /\ hook[h].timeout = "armed"
    /\ LET fired == [hook[h] EXCEPT !.timeout = "fired"]
       IN  \E r \in IF fired.reason = "none" THEN TerminateChild(fired, "timeout") ELSE {fired} :
              hook' = [hook EXCEPT ![h] = r]
    /\ UNCHANGED <<aborted, crashed, mayRefuse>>

(* The signal aborts: the registered listener terminates its child, unless *)
(* the hook's own timer came first.                                        *)
Abort ==
    /\ ~aborted
    /\ aborted' = TRUE
    /\ LET listeners == {h \in Hooks : hook[h].listening /\ hook[h].reason = "none"}
       IN  IF listeners = {}
           THEN UNCHANGED hook
           ELSE \E h \in listeners : \E r \in TerminateChild(hook[h], "abort") :
                    hook' = [hook EXCEPT ![h] = r]
    /\ UNCHANGED <<crashed, mayRefuse>>

(* The grace timer sends SIGKILL, which no process can ignore.  If that is *)
(* refused, "error" is emitted: the listener settles the call or, already  *)
(* consumed, is missing, and Node.js ends the program.                     *)
ForceFires(h) ==
    /\ hook[h].force = "armed"
    /\ LET fired == [hook[h] EXCEPT !.force = "fired"]
       IN  \/ hook' = [hook EXCEPT ![h] = Killed(fired)] /\ UNCHANGED crashed
           \/ /\ mayRefuse /\ fired.child = "alive"
              /\ IF fired.onError
                 THEN hook' = [hook EXCEPT ![h] = ErrorEvent(fired)] /\ UNCHANGED crashed
                 ELSE hook' = [hook EXCEPT ![h] = fired] /\ crashed' = TRUE
    /\ UNCHANGED <<aborted, mayRefuse>>

(* The child ends by itself.                                               *)
ChildExits(h) ==
    /\ hook[h].child = "alive"
    /\ \E how \in {"zero", "other"} :
            hook' = [hook EXCEPT ![h].child = "dead", ![h].exit = how]
    /\ UNCHANGED <<aborted, crashed, mayRefuse>>

(* The "error" event of a command that could not be executed; "close"      *)
(* follows it and finds the call settled.                                  *)
SpawnError(h) ==
    /\ hook[h].child = "unborn"
    /\ hook' = [hook EXCEPT ![h] = [ErrorEvent(@) EXCEPT !.child = "dead", !.exit = "other"]]
    /\ UNCHANGED <<aborted, crashed, mayRefuse>>

(* Faulty: a zero exit code excuses the timeout and the abort.             *)
CloseResultByExit(r) ==
    IF r.exit = "zero" THEN "OK"
    ELSE IF r.reason = "timeout" THEN "SCENARIO_HOOK_TIMEOUT"
    ELSE IF r.reason = "abort" THEN "SCENARIO_HOOK_ABORTED"
    ELSE "SCENARIO_HOOK_FAILED"

(* The first reason to terminate wins over the exit code.                  *)
CloseResult(r) ==
    IF r.reason = "timeout" THEN "SCENARIO_HOOK_TIMEOUT"
    ELSE IF r.reason = "abort" THEN "SCENARIO_HOOK_ABORTED"
    ELSE IF r.exit # "zero" THEN "SCENARIO_HOOK_FAILED"
    ELSE "OK"

(* The "close" event.                                                      *)
Close(h) ==
    /\ hook[h].child = "dead"
    /\ hook' = [hook EXCEPT ![h] = [Finish(@, CloseResult(@)) EXCEPT !.child = "gone"]]
    /\ UNCHANGED <<aborted, crashed, mayRefuse>>

(* The timers and events of one call, whatever its caller does meanwhile.  *)
HookEvent(h) ==
    \/ TimeoutFires(h) \/ ForceFires(h)
    \/ ChildExits(h) \/ SpawnError(h) \/ Close(h)
=============================================================================
