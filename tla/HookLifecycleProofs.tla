------------------------ MODULE HookLifecycleProofs ------------------------
(***************************************************************************)
(* Theorems about HookLifecycle, and the hook processes under it, for any  *)
(* number of setup and cleanup hooks, on systems that let the program kill *)
(* its children and on systems that may not.                               *)
(***************************************************************************)
EXTENDS HookLifecycle, TLAPS

(* What one call of executeScenarioHook keeps consistent.                  *)

(* The promise, and what finish() puts away; only a refused kill() leaves  *)
(* the grace timer or the process.                                         *)
CallPart(r) ==
    /\ r.call = "idle" => r = NotCalled
    /\ r.call = "settled" <=> r.outcome # "none"
    /\ r.call = "running" => r.onError /\ r.child \notin {"none", "gone"}
    /\ r.timeout = "armed" \/ r.listening \/ r.child = "unborn" => r.call = "running"
    /\ r.call = "settled" /\ (r.force = "armed" \/ r.child = "alive") => mayRefuse

(* The first reason to terminate the child, and what it does to success.   *)
ReasonPart(r) ==
    /\ r.force # "off" => r.reason # "none"
    /\ r.outcome = "OK" => r.child = "gone" /\ r.exit = "zero" /\ r.reason = "none"

(* The signal is heard by the setup hooks only.                            *)
SignalPart(h, r) ==
    h \notin SetupHooks => /\ ~r.listening
                           /\ r.reason # "abort" /\ r.outcome # "SCENARIO_HOOK_ABORTED"

Consistent(h, r) == CallPart(r) /\ ReasonPart(r) /\ SignalPart(h, r)

CallInv == \A h \in Hooks : Consistent(h, hook[h])

(* Where the calls stand in each phase of the lifecycle.                   *)
PhaseInv ==
    /\ phase \in {"setup", "operation"} =>
          /\ current <= NSetup + 1 /\ ~completed
          /\ \A h \in CleanupHooks : hook[h].call = "idle"
    /\ phase = "setup" => \A h \in SetupHooks : h > current => hook[h].call = "idle"
    /\ phase = "setup" => \A h \in SetupHooks : h < current => hook[h].outcome = "OK"
    /\ phase = "operation" \/ completed => \A h \in SetupHooks : hook[h].outcome = "OK"
    /\ phase \in {"cleanup", "settled"} => \A h \in SetupHooks : hook[h].call # "running"
    /\ phase \in {"cleanup", "settled"} /\ ~completed => primary \notin {"none", "OK"}
    /\ phase = "cleanup" =>
          /\ current >= NSetup + 1
          /\ \A h \in CleanupHooks : h > current => hook[h].call = "idle"
    /\ phase \in {"cleanup", "settled"} =>
          \A h \in CleanupHooks : h < current \/ phase = "settled" =>
              hook[h].call = "settled" /\ hook[h].outcome \in {"OK"} \cup cleanupFailures
    /\ phase = "settled" => verdict = Verdict

(* Setup hooks run one after another.                                      *)
OrderInv ==
    \A h \in SetupHooks : hook[h].call # "idle" => \A g \in 1 .. h - 1 : hook[g].outcome = "OK"

IInv == TypeOK /\ CallInv /\ PhaseInv /\ OrderInv

-----------------------------------------------------------------------------
(* The operators on one call                                               *)

(* The first call of finish() settles the promise and puts away the timers *)
(* and the listener; the process and the reason are as they were.          *)
Finished(s, r, result) ==
    /\ s \in HookRecords
    /\ s.call = "settled" /\ s.outcome = result
    /\ s.timeout # "armed" /\ s.force # "armed" /\ s.listening = FALSE
    /\ s.force # "off" => r.force # "off"
    /\ s.reason = r.reason /\ s.onError = r.onError /\ s.child = r.child /\ s.exit = r.exit

LEMMA FinishOnce ==
    ASSUME NEW r \in HookRecords, r.call # "settled", NEW result \in {"OK"} \cup HookCodes
    PROVE  Finished(Finish(r, result), r, result)
<1> DEFINE s == Finish(r, result)
<1>1. s = [r EXCEPT !.call = "settled", !.outcome = result,
                    !.timeout = IF @ = "armed" THEN "off" ELSE @,
                    !.force = IF @ = "armed" THEN "off" ELSE @, !.listening = FALSE]
  BY DEF Finish
<1>2. s \in HookRecords
  BY <1>1 DEF HookRecords
<1>3. s.call = "settled" /\ s.outcome = result /\ s.listening = FALSE
  BY <1>1 DEF HookRecords
<1>4. s.timeout # "armed" /\ s.force # "armed"
  BY <1>1 DEF HookRecords
<1>5. s.reason = r.reason /\ s.onError = r.onError /\ s.child = r.child /\ s.exit = r.exit
  BY <1>1 DEF HookRecords
<1>6. s.force = IF r.force = "armed" THEN "off" ELSE r.force
  BY <1>1 DEF HookRecords
<1> QED BY <1>2, <1>3, <1>4, <1>5, <1>6 DEF Finished

(* An "error" event of a running call: finish() without the listener.      *)
LEMMA ErrorEventFinishes ==
    ASSUME NEW r \in HookRecords, r.call = "running"
    PROVE  LET s == ErrorEvent(r)
           IN  /\ s \in HookRecords
               /\ s.call = "settled" /\ s.outcome = "SCENARIO_HOOK_START_FAILED"
               /\ s.timeout # "armed" /\ s.force # "armed" /\ s.listening = FALSE
               /\ s.force # "off" => r.force # "off"
               /\ s.reason = r.reason /\ s.child = r.child /\ s.exit = r.exit
<1> DEFINE d == [r EXCEPT !.onError = FALSE]
<1>1. /\ d \in HookRecords /\ d.call = "running" /\ d.reason = r.reason
      /\ d.child = r.child /\ d.exit = r.exit /\ d.force = r.force
  BY DEF HookRecords
<1>2. ErrorEvent(r) = Finish(d, "SCENARIO_HOOK_START_FAILED")
  BY DEF ErrorEvent
<1> HIDE DEF d
<1>3. Finished(Finish(d, "SCENARIO_HOOK_START_FAILED"), d, "SCENARIO_HOOK_START_FAILED")
  BY <1>1, FinishOnce DEF HookCodes
<1> QED BY <1>1, <1>2, <1>3 DEF Finished

(* A signal that is delivered ends the process and touches nothing else.   *)
LEMMA KilledChild ==
    ASSUME NEW r \in HookRecords
    PROVE  LET s == Killed(r)
           IN  /\ s \in HookRecords
               /\ s.call = r.call /\ s.outcome = r.outcome /\ s.reason = r.reason
               /\ s.timeout = r.timeout /\ s.force = r.force /\ s.listening = r.listening
               /\ s.onError = r.onError
               /\ IF r.child = "alive" THEN s.child = "dead" ELSE s = r
<1>1. CASE r.child = "alive"
  <2> DEFINE s == [r EXCEPT !.child = "dead", !.exit = "other"]
  <2>1. /\ s \in HookRecords
        /\ s.call = r.call /\ s.outcome = r.outcome /\ s.reason = r.reason
        /\ s.timeout = r.timeout /\ s.force = r.force /\ s.listening = r.listening
        /\ s.onError = r.onError /\ s.child = "dead"
    BY DEF HookRecords
  <2> QED BY <1>1, <2>1 DEF Killed
<1>2. CASE r.child # "alive"
  BY <1>2 DEF Killed
<1> QED BY <1>1, <1>2

(* What one step may do to a call, as its caller sees it: nothing, decide  *)
(* the reason to terminate, or settle a running call in agreement with it. *)
Moves(r, s) ==
    \/ s.call = r.call /\ s.reason = r.reason /\ s.outcome = r.outcome
    \/ /\ r.call = "running" /\ r.reason = "none" /\ s.reason \in {"timeout", "abort"}
       /\ \/ s.call = r.call /\ s.outcome = r.outcome
          \/ s.call = "settled" /\ s.outcome = "SCENARIO_HOOK_START_FAILED"
    \/ /\ r.call = "running" /\ s.call = "settled" /\ s.reason = r.reason
       /\ s.outcome \in Contract!OutcomesFor(r.reason)

(* terminateChild() of a running call without a reason.                    *)
LEMMA TerminateChildMoves ==
    ASSUME NEW h \in Hooks, NEW r \in HookRecords, Consistent(h, r), r.call = "running",
           NEW why \in {"timeout", "abort"}, r.reason = "none", why = "abort" => h \in SetupHooks,
           NEW q \in HookRecords, r = q \/ r = [q EXCEPT !.timeout = "fired"],
           NEW s \in TerminateChild(r, why)
    PROVE  s \in HookRecords /\ Consistent(h, s) /\ Moves(q, s)
<1> DEFINE asked == [r EXCEPT !.reason = why]
           armed(after) == [after EXCEPT !.force = "armed"]
<1>1. /\ asked \in HookRecords /\ asked.call = "running" /\ asked.reason = why
      /\ asked.outcome = r.outcome /\ asked.timeout = r.timeout /\ asked.force = r.force
      /\ asked.listening = r.listening /\ asked.onError = r.onError
      /\ asked.child = r.child /\ asked.exit = r.exit
  BY DEF HookRecords
<1>2. q.call = r.call /\ q.reason = r.reason /\ q.outcome = r.outcome
  BY DEF HookRecords
<1>3. \E after \in HookRecords :
        /\ s = armed(after)
        /\ \/ after = Killed(asked) \/ after = asked
           \/ mayRefuse /\ r.child = "alive" /\ after = ErrorEvent(asked)
  <2>1. Killed(asked) \in HookRecords /\ ErrorEvent(asked) \in HookRecords
    BY <1>1, KilledChild, ErrorEventFinishes
  <2> QED BY <1>1, <2>1 DEF TerminateChild
<1>4. PICK after \in HookRecords :
        /\ s = armed(after)
        /\ \/ after = Killed(asked) \/ after = asked
           \/ mayRefuse /\ r.child = "alive" /\ after = ErrorEvent(asked)
  BY <1>3
<1>5. /\ s \in HookRecords /\ s.force = "armed"
      /\ s.call = after.call /\ s.outcome = after.outcome /\ s.reason = after.reason
      /\ s.timeout = after.timeout /\ s.listening = after.listening
      /\ s.onError = after.onError /\ s.child = after.child /\ s.exit = after.exit
  BY <1>4 DEF HookRecords
<1> HIDE DEF asked, armed
<1>6. CASE after = Killed(asked) \/ after = asked
  <2>1. /\ after.call = "running" /\ after.outcome = r.outcome /\ after.reason = why
        /\ after.timeout = r.timeout /\ after.listening = r.listening
        /\ after.onError = r.onError /\ after.child \in {r.child, "dead"}
        /\ after.child = "unborn" => r.child = "unborn"
    BY <1>1, <1>6, KilledChild
  <2> QED BY <1>2, <1>5, <2>1
          DEF Consistent, CallPart, ReasonPart, SignalPart, Moves, NotCalled, HookRecords
<1>7. CASE mayRefuse /\ r.child = "alive" /\ after = ErrorEvent(asked)
  <2>1. /\ after.call = "settled" /\ after.outcome = "SCENARIO_HOOK_START_FAILED"
        /\ after.timeout # "armed" /\ after.listening = FALSE
        /\ after.reason = why /\ after.child = "alive"
    BY <1>1, <1>7, ErrorEventFinishes
  <2> QED BY <1>2, <1>5, <1>7, <2>1
          DEF Consistent, CallPart, ReasonPart, SignalPart, Moves, NotCalled
<1> QED BY <1>4, <1>6, <1>7

-----------------------------------------------------------------------------
(* The events of the calls                                                 *)

(* A step at one call that leaves it consistent and moves it as its caller *)
(* may see.                                                                *)
CallStep(h) ==
    /\ \E s \in HookRecords : /\ hook' = [hook EXCEPT ![h] = s]
                              /\ Consistent(h, s) /\ Moves(hook[h], s)
    /\ mayRefuse' = mayRefuse

LEMMA TimeoutFiresKept ==
    ASSUME TypeOK, CallInv, NEW h \in Hooks, TimeoutFires(h) PROVE CallStep(h)
<1> DEFINE r == [hook[h] EXCEPT !.timeout = "fired"]
<1>1. hook[h] \in HookRecords /\ Consistent(h, hook[h]) /\ hook[h].call = "running"
  BY DEF TypeOK, CallInv, TimeoutFires, Consistent, CallPart
<1>2. /\ r \in HookRecords /\ r.call = "running" /\ r.outcome = hook[h].outcome
      /\ r.reason = hook[h].reason /\ r.force = hook[h].force /\ r.timeout = "fired"
      /\ r.listening = hook[h].listening /\ r.onError = hook[h].onError
      /\ r.child = hook[h].child /\ r.exit = hook[h].exit
  BY <1>1 DEF HookRecords
<1>3. PICK s \in IF r.reason = "none" THEN TerminateChild(r, "timeout") ELSE {r} :
         hook' = [hook EXCEPT ![h] = s]
  BY DEF TimeoutFires
<1>4. mayRefuse' = mayRefuse
  BY DEF TimeoutFires
<1>5. Consistent(h, r) /\ Moves(hook[h], r)
  BY <1>1, <1>2 DEF Consistent, CallPart, ReasonPart, SignalPart, Moves, NotCalled
<1>6. CASE r.reason = "none"
  <2>1. s \in TerminateChild(r, "timeout") /\ r = [hook[h] EXCEPT !.timeout = "fired"]
    BY <1>3, <1>6
  <2> HIDE DEF r
  <2>2. s \in HookRecords /\ Consistent(h, s) /\ Moves(hook[h], s)
    BY <1>1, <1>2, <1>5, <1>6, <2>1, TerminateChildMoves
  <2> QED BY <1>3, <1>4, <2>2 DEF CallStep
<1>7. CASE r.reason # "none"
  BY <1>2, <1>3, <1>4, <1>5, <1>7 DEF CallStep
<1> QED BY <1>6, <1>7

LEMMA ForceFiresKept ==
    ASSUME TypeOK, CallInv, NEW h \in Hooks, ForceFires(h) PROVE CallStep(h)
<1> DEFINE r == [hook[h] EXCEPT !.force = "fired"]
<1>1. /\ hook[h] \in HookRecords /\ Consistent(h, hook[h]) /\ hook[h].force = "armed"
      /\ mayRefuse' = mayRefuse
  BY DEF TypeOK, CallInv, ForceFires
<1>2. /\ r \in HookRecords /\ r.call = hook[h].call /\ r.outcome = hook[h].outcome
      /\ r.reason = hook[h].reason /\ r.force = "fired" /\ r.timeout = hook[h].timeout
      /\ r.listening = hook[h].listening /\ r.onError = hook[h].onError
      /\ r.child = hook[h].child /\ r.exit = hook[h].exit
  BY <1>1 DEF HookRecords
<1>3. r.call # "idle" /\ r.reason # "none"
  BY <1>1, <1>2 DEF Consistent, CallPart, ReasonPart, NotCalled
<1>4. \/ hook' = [hook EXCEPT ![h] = Killed(r)]
      \/ hook' = [hook EXCEPT ![h] = r]
      \/ mayRefuse /\ r.child = "alive" /\ r.onError /\ hook' = [hook EXCEPT ![h] = ErrorEvent(r)]
  BY DEF ForceFires
<1> HIDE DEF r
<1>5. CASE hook' = [hook EXCEPT ![h] = Killed(r)]
  <2>1. Killed(r) \in HookRecords
    BY <1>2, KilledChild
  <2>2. Consistent(h, Killed(r)) /\ Moves(hook[h], Killed(r))
    BY <1>1, <1>2, <1>3, KilledChild
       DEF Consistent, CallPart, ReasonPart, SignalPart, Moves, NotCalled
  <2> QED BY <1>1, <1>5, <2>1, <2>2 DEF CallStep
<1>6. CASE hook' = [hook EXCEPT ![h] = r]
  <2>1. Consistent(h, r) /\ Moves(hook[h], r)
    BY <1>1, <1>2, <1>3 DEF Consistent, CallPart, ReasonPart, SignalPart, Moves, NotCalled
  <2> QED BY <1>1, <1>2, <1>6, <2>1 DEF CallStep
<1>7. CASE mayRefuse /\ r.child = "alive" /\ r.onError /\ hook' = [hook EXCEPT ![h] = ErrorEvent(r)]
  <2>1. CASE r.call = "running"
    <3> DEFINE s == ErrorEvent(r)
    <3>1. /\ s \in HookRecords
          /\ s.call = "settled" /\ s.outcome = "SCENARIO_HOOK_START_FAILED"
          /\ s.timeout # "armed" /\ s.force # "armed" /\ s.listening = FALSE
          /\ s.force # "off" => r.force # "off"
          /\ s.reason = r.reason /\ s.child = r.child /\ s.exit = r.exit
      BY <1>2, <2>1, ErrorEventFinishes
    <3> HIDE DEF s
    <3>2. Consistent(h, s) /\ Moves(hook[h], s)
      BY <1>1, <1>2, <1>3, <1>7, <2>1, <3>1
         DEF Consistent, CallPart, ReasonPart, SignalPart, Moves, Contract!OutcomesFor
    <3>3. hook' = [hook EXCEPT ![h] = s]
      BY <1>7 DEF s
    <3> QED BY <1>1, <3>1, <3>2, <3>3 DEF CallStep
  <2>2. CASE r.call = "settled"
    <3> DEFINE s == [r EXCEPT !.onError = FALSE]
    <3>1. /\ s \in HookRecords /\ s.call = r.call /\ s.outcome = r.outcome
          /\ s.timeout = r.timeout /\ s.force = r.force /\ s.listening = r.listening
          /\ s.reason = r.reason /\ s.child = r.child /\ s.exit = r.exit
      BY <1>2 DEF HookRecords
    <3>2. hook' = [hook EXCEPT ![h] = s]
      BY <1>7, <2>2, <3>1 DEF ErrorEvent, Finish
    <3> HIDE DEF s
    <3>3. Consistent(h, s) /\ Moves(hook[h], s)
      BY <1>1, <1>2, <1>3, <1>7, <2>2, <3>1
         DEF Consistent, CallPart, ReasonPart, SignalPart, Moves
    <3> QED BY <1>1, <3>1, <3>2, <3>3 DEF CallStep
  <2> QED BY <1>2, <1>3, <2>1, <2>2 DEF HookRecords
<1> QED BY <1>4, <1>5, <1>6, <1>7

LEMMA ChildExitsKept ==
    ASSUME TypeOK, CallInv, NEW h \in Hooks, ChildExits(h) PROVE CallStep(h)
<1>1. hook[h] \in HookRecords /\ Consistent(h, hook[h]) /\ hook[h].child = "alive"
  BY DEF TypeOK, CallInv, ChildExits
<1>2. PICK how \in {"zero", "other"} : hook' = [hook EXCEPT ![h].child = "dead", ![h].exit = how]
  BY DEF ChildExits
<1> DEFINE s == [hook[h] EXCEPT !.child = "dead", !.exit = how]
<1>3. /\ s \in HookRecords /\ s.call = hook[h].call /\ s.outcome = hook[h].outcome
      /\ s.reason = hook[h].reason /\ s.force = hook[h].force /\ s.timeout = hook[h].timeout
      /\ s.listening = hook[h].listening /\ s.onError = hook[h].onError /\ s.child = "dead"
  BY <1>1 DEF HookRecords
<1>4. hook' = [hook EXCEPT ![h] = s]
  BY <1>1, <1>2 DEF TypeOK
<1> HIDE DEF s
<1>5. Consistent(h, s) /\ Moves(hook[h], s)
  BY <1>1, <1>3 DEF Consistent, CallPart, ReasonPart, SignalPart, Moves, NotCalled
<1> QED BY <1>3, <1>4, <1>5 DEF CallStep, ChildExits

LEMMA SpawnErrorKept ==
    ASSUME TypeOK, CallInv, NEW h \in Hooks, SpawnError(h) PROVE CallStep(h)
<1>1. hook[h] \in HookRecords /\ Consistent(h, hook[h]) /\ hook[h].call = "running"
  BY DEF TypeOK, CallInv, SpawnError, Consistent, CallPart
<1> DEFINE d == ErrorEvent(hook[h])
           s == [d EXCEPT !.child = "dead", !.exit = "other"]
<1>2. /\ d \in HookRecords
      /\ d.call = "settled" /\ d.outcome = "SCENARIO_HOOK_START_FAILED"
      /\ d.timeout # "armed" /\ d.force # "armed" /\ d.listening = FALSE
      /\ d.force # "off" => hook[h].force # "off"
      /\ d.reason = hook[h].reason
  BY <1>1, ErrorEventFinishes
<1>3. hook' = [hook EXCEPT ![h] = s] /\ mayRefuse' = mayRefuse
  BY DEF SpawnError
<1> HIDE DEF d
<1>4. /\ s \in HookRecords /\ s.call = "settled" /\ s.outcome = d.outcome
      /\ s.timeout = d.timeout /\ s.force = d.force /\ s.listening = d.listening
      /\ s.reason = d.reason /\ s.child = "dead"
  BY <1>2 DEF HookRecords
<1> HIDE DEF s
<1>5. Consistent(h, s) /\ Moves(hook[h], s)
  BY <1>1, <1>2, <1>4
     DEF Consistent, CallPart, ReasonPart, SignalPart, Moves, Contract!OutcomesFor
<1> QED BY <1>3, <1>4, <1>5 DEF CallStep

LEMMA CloseKept == ASSUME TypeOK, CallInv, NEW h \in Hooks, Close(h) PROVE CallStep(h)
<1> DEFINE r == hook[h]
           result == CloseResult(r)
           d == Finish(r, result)
           s == [d EXCEPT !.child = "gone"]
<1>1. r \in HookRecords /\ Consistent(h, r) /\ r.child = "dead" /\ mayRefuse' = mayRefuse
  BY DEF TypeOK, CallInv, Close
<1>2. hook' = [hook EXCEPT ![h] = s]
  BY DEF Close
<1>3. /\ result \in {"OK"} \cup HookCodes /\ result # "none"
      /\ result \in Contract!OutcomesFor(r.reason)
      /\ result = "OK" => r.reason = "none" /\ r.exit = "zero"
      /\ result = "SCENARIO_HOOK_ABORTED" => r.reason = "abort"
  <2>1. r.reason \in {"none", "timeout", "abort"}
    BY <1>1 DEF HookRecords
  <2>2. CASE r.reason = "none"
    <3> HIDE DEF r
    <3>1. result = IF r.exit # "zero" THEN "SCENARIO_HOOK_FAILED" ELSE "OK"
      BY <2>2 DEF CloseResult
    <3>2. {"OK", "SCENARIO_HOOK_FAILED"} \subseteq Contract!OutcomesFor(r.reason)
      BY <2>2 DEF Contract!OutcomesFor
    <3> HIDE DEF result
    <3> QED BY <2>2, <3>1, <3>2 DEF HookCodes
  <2>3. CASE r.reason = "timeout"
    <3> HIDE DEF r
    <3>1. result = "SCENARIO_HOOK_TIMEOUT"
      BY <2>3 DEF CloseResult
    <3>2. "SCENARIO_HOOK_TIMEOUT" \in Contract!OutcomesFor(r.reason)
      BY <2>3 DEF Contract!OutcomesFor
    <3> HIDE DEF result
    <3> QED BY <2>3, <3>1, <3>2 DEF HookCodes
  <2>4. CASE r.reason = "abort"
    <3> HIDE DEF r
    <3>1. result = "SCENARIO_HOOK_ABORTED"
      BY <2>4 DEF CloseResult
    <3>2. "SCENARIO_HOOK_ABORTED" \in Contract!OutcomesFor(r.reason)
      BY <2>4 DEF Contract!OutcomesFor
    <3> HIDE DEF result
    <3> QED BY <2>4, <3>1, <3>2 DEF HookCodes
  <2> QED BY <2>1, <2>2, <2>3, <2>4
<1> HIDE DEF result, r
<1>4. CASE r.call = "settled"
  <2>1. d = r
    BY <1>4 DEF Finish
  <2>2. /\ s \in HookRecords /\ s.call = r.call /\ s.outcome = r.outcome
        /\ s.timeout = r.timeout /\ s.force = r.force /\ s.listening = r.listening
        /\ s.reason = r.reason /\ s.child = "gone" /\ s.exit = r.exit /\ s.onError = r.onError
    BY <1>1, <2>1 DEF HookRecords
  <2> HIDE DEF s
  <2>3. Consistent(h, s) /\ Moves(r, s)
    BY <1>1, <1>4, <2>2 DEF Consistent, CallPart, ReasonPart, SignalPart, Moves
  <2> QED BY <1>1, <1>2, <2>2, <2>3 DEF CallStep, r
<1>5. CASE r.call = "running"
  <2>1. Finished(d, r, result)
    BY <1>1, <1>3, <1>5, FinishOnce
  <2> HIDE DEF d
  <2>2. /\ s \in HookRecords /\ s.call = d.call /\ s.outcome = d.outcome
        /\ s.timeout = d.timeout /\ s.force = d.force /\ s.listening = d.listening
        /\ s.reason = d.reason /\ s.child = "gone" /\ s.exit = d.exit
    BY <2>1 DEF HookRecords, Finished
  <2> HIDE DEF s
  <2>3. Consistent(h, s) /\ Moves(r, s)
    BY <1>1, <1>3, <1>5, <2>1, <2>2
       DEF Finished, Consistent, CallPart, ReasonPart, SignalPart, Moves
  <2> QED BY <1>1, <1>2, <2>2, <2>3 DEF CallStep, r
<1>6. r.call # "idle"
  BY <1>1 DEF Consistent, CallPart, NotCalled
<1> QED BY <1>1, <1>4, <1>5, <1>6 DEF HookRecords

LEMMA AbortKept ==
    ASSUME TypeOK, CallInv, Abort
    PROVE  (hook' = hook /\ mayRefuse' = mayRefuse) \/ \E h \in Hooks : CallStep(h)
<1>1. CASE hook' = hook
  BY <1>1 DEF Abort
<1>2. ASSUME NEW h \in Hooks, hook[h].listening, hook[h].reason = "none",
             NEW s \in TerminateChild(hook[h], "abort"), hook' = [hook EXCEPT ![h] = s]
      PROVE  CallStep(h)
  <2>1. hook[h] \in HookRecords /\ Consistent(h, hook[h])
    BY DEF TypeOK, CallInv
  <2>2. hook[h].call = "running" /\ h \in SetupHooks
    BY <1>2, <2>1 DEF Consistent, CallPart, SignalPart
  <2>3. s \in HookRecords /\ Consistent(h, s) /\ Moves(hook[h], s)
    BY <1>2, <2>1, <2>2, TerminateChildMoves
  <2> QED BY <1>2, <2>3 DEF CallStep, Abort
<1> QED BY <1>1, <1>2 DEF Abort

(* The calls themselves: refused, or started.                              *)
LEMMA CallKept ==
    ASSUME TypeOK, CallInv, NEW h \in Hooks, Refuse(h) \/ Start(h)
    PROVE  /\ hook[h].call = "idle" /\ mayRefuse' = mayRefuse
           /\ \E s \in HookRecords :
                /\ hook' = [hook EXCEPT ![h] = s] /\ Consistent(h, s)
                /\ s.reason = "none"
                /\ \/ s.call = "running" /\ s.outcome = "none"
                   \/ s.call = "settled" /\ s.outcome \in Contract!RefusalCodes
<1>1. hook \in [Hooks -> HookRecords] /\ hook[h].call = "idle" /\ mayRefuse' = mayRefuse
  BY DEF TypeOK, Refuse, Start
<1>2. hook[h] = NotCalled
  BY <1>1 DEF CallInv, Consistent, CallPart
<1>3. ASSUME Refuse(h)
      PROVE  \E s \in HookRecords :
                /\ hook' = [hook EXCEPT ![h] = s] /\ Consistent(h, s) /\ s.reason = "none"
                /\ s.call = "settled" /\ s.outcome \in Contract!RefusalCodes
  <2>1. PICK code \in Contract!RefusalCodes :
            /\ hook' = [hook EXCEPT ![h].call = "settled", ![h].outcome = code]
            /\ code = "SCENARIO_HOOK_ABORTED" => h \in SetupHooks
    BY <1>3 DEF Refuse, GetsSignal, Contract!RefusalCodes
  <2> DEFINE s == [NotCalled EXCEPT !.call = "settled", !.outcome = code]
  <2>2. hook' = [hook EXCEPT ![h] = s]
    BY <1>1, <1>2, <2>1
  <2>3. /\ s \in HookRecords /\ Consistent(h, s) /\ s.reason = "none"
        /\ s.call = "settled" /\ s.outcome = code
    BY <2>1 DEF NotCalled, HookRecords, HookCodes, Contract!RefusalCodes, Consistent, CallPart,
                ReasonPart, SignalPart
  <2> QED BY <2>1, <2>2, <2>3
<1>4. ASSUME Start(h)
      PROVE  \E s \in HookRecords :
                /\ hook' = [hook EXCEPT ![h] = s] /\ Consistent(h, s) /\ s.reason = "none"
                /\ s.call = "running" /\ s.outcome = "none"
  <2>1. PICK born \in {"unborn", "alive"} :
            hook' = [hook EXCEPT ![h].call = "running", ![h].timeout = "armed",
                                 ![h].listening = GetsSignal(h), ![h].onError = TRUE,
                                 ![h].child = born]
    BY <1>4 DEF Start
  <2> DEFINE s == [NotCalled EXCEPT !.call = "running", !.timeout = "armed",
                                    !.listening = GetsSignal(h), !.onError = TRUE, !.child = born]
  <2>2. hook' = [hook EXCEPT ![h] = s]
    BY <1>1, <1>2, <2>1
  <2>3. GetsSignal(h) \in BOOLEAN
    BY DEF GetsSignal
  <2>4. /\ s \in HookRecords /\ s.call = "running" /\ s.outcome = "none" /\ s.reason = "none"
        /\ s.force = "off" /\ s.listening = GetsSignal(h) /\ s.onError = TRUE /\ s.child = born
    BY <2>1, <2>3 DEF NotCalled, HookRecords
  <2> HIDE DEF s
  <2>5. Consistent(h, s)
    BY <2>1, <2>4 DEF Consistent, CallPart, ReasonPart, SignalPart, GetsSignal
  <2> QED BY <2>2, <2>4, <2>5
<1> QED BY <1>1, <1>3, <1>4

-----------------------------------------------------------------------------
(* The lifecycle                                                           *)

(* A step of the environment settles running calls and changes no other.   *)
LEMMA EnvironmentMoves ==
    ASSUME TypeOK, CallInv, Environment
    PROVE  /\ hook' \in [Hooks -> HookRecords] /\ mayRefuse' = mayRefuse
           /\ \A h \in Hooks : Consistent(h, hook'[h]) /\ Moves(hook[h], hook'[h])
           /\ hook' = hook \/ \E h \in Hooks : CallStep(h)
<1>1. (hook' = hook /\ mayRefuse' = mayRefuse) \/ \E h \in Hooks : CallStep(h)
  BY AbortKept, TimeoutFiresKept, ForceFiresKept, ChildExitsKept, SpawnErrorKept, CloseKept
     DEF Environment, HookEvent
<1>2. CASE hook' = hook /\ mayRefuse' = mayRefuse
  BY <1>2 DEF TypeOK, CallInv, Moves
<1>3. ASSUME NEW h \in Hooks, CallStep(h)
      PROVE  /\ hook' \in [Hooks -> HookRecords] /\ mayRefuse' = mayRefuse
             /\ \A g \in Hooks : Consistent(g, hook'[g]) /\ Moves(hook[g], hook'[g])
  <2>1. PICK s \in HookRecords : /\ hook' = [hook EXCEPT ![h] = s]
                                 /\ Consistent(h, s) /\ Moves(hook[h], s)
    BY <1>3 DEF CallStep
  <2>2. ASSUME NEW g \in Hooks PROVE hook'[g] = IF g = h THEN s ELSE hook[g]
    BY <2>1, <2>2 DEF TypeOK
  <2>3. ASSUME NEW g \in Hooks PROVE Consistent(g, hook'[g]) /\ Moves(hook[g], hook'[g])
    BY <2>1, <2>2, <2>3 DEF CallInv, Moves
  <2> QED BY <1>3, <2>1, <2>3 DEF TypeOK, CallStep
<1> QED BY <1>1, <1>2, <1>3

LEMMA EnvironmentKept == IInv /\ Environment => IInv'
<1> SUFFICES ASSUME IInv, Environment PROVE IInv'
  OBVIOUS
<1>1. TypeOK /\ CallInv /\ PhaseInv /\ OrderInv
  BY DEF IInv
<1>2. /\ hook' \in [Hooks -> HookRecords] /\ mayRefuse' = mayRefuse
      /\ \A h \in Hooks : Consistent(h, hook'[h]) /\ Moves(hook[h], hook'[h])
  BY <1>1, EnvironmentMoves
<1>3. UNCHANGED <<phase, current, primary, completed, cleanupFailures, verdict>>
  BY DEF Environment
<1>4. ASSUME NEW h \in Hooks
      PROVE  /\ hook[h].call # "running" => /\ hook'[h].call = hook[h].call
                                           /\ hook'[h].outcome = hook[h].outcome
             /\ hook[h].call = "running" => hook'[h].call # "idle"
             /\ hook[h].outcome # "none" <=> hook[h].call = "settled"
  BY <1>1, <1>2 DEF Moves, CallInv, Consistent, CallPart
<1>5. TypeOK'
  <2>1. aborted' \in BOOLEAN /\ crashed' \in BOOLEAN
    BY <1>1 DEF TypeOK, Environment, HookEvent, Abort, TimeoutFires, ForceFires, ChildExits,
                SpawnError, Close
  <2> QED BY <1>1, <1>2, <1>3, <2>1 DEF TypeOK
<1>6. CallInv'
  BY <1>2 DEF CallInv, Consistent, CallPart, ReasonPart, SignalPart
<1>7. /\ \A h \in SetupHooks : h \in Hooks /\ \A g \in 1 .. h - 1 : g \in Hooks
      /\ \A h \in CleanupHooks : h \in Hooks
  BY ScenarioHookAssumption DEF SetupHooks, CleanupHooks, Hooks
<1>8. PhaseInv'
  <2>1. verdict = Verdict => verdict' = Verdict'
    BY <1>3 DEF Verdict
  <2>2. \A h \in Hooks : hook[h].outcome = "OK" => hook'[h].outcome = "OK"
    BY <1>4
  <2>3. \A h \in Hooks : hook[h].call = "settled" =>
            hook'[h].call = "settled" /\ hook'[h].outcome = hook[h].outcome
    BY <1>4
  <2> QED BY <1>1, <1>3, <1>4, <1>7, <2>1, <2>2, <2>3 DEF PhaseInv
<1>9. OrderInv'
  BY <1>1, <1>4, <1>7 DEF OrderInv
<1> QED BY <1>5, <1>6, <1>8, <1>9 DEF IInv

LEMMA CallHookKept == IInv /\ CallHook => IInv'
<1> SUFFICES ASSUME IInv, CallHook PROVE IInv'
  OBVIOUS
<1>1. TypeOK /\ CallInv /\ PhaseInv /\ OrderInv /\ current \in Hooks /\ Calling
  BY ScenarioHookAssumption
     DEF IInv, CallHook, Calling, TypeOK, SetupHooks, CleanupHooks, Hooks
<1>2. hook[current].call = "idle" /\ mayRefuse' = mayRefuse
  BY <1>1, CallKept DEF CallHook
<1>3. PICK s \in HookRecords :
        /\ hook' = [hook EXCEPT ![current] = s] /\ Consistent(current, s)
        /\ s.call \in {"running", "settled"}
  BY <1>1, CallKept DEF CallHook
<1>4. UNCHANGED <<phase, current, primary, completed, cleanupFailures, verdict>>
  BY DEF CallHook
<1>5. ASSUME NEW h \in Hooks PROVE hook'[h] = IF h = current THEN s ELSE hook[h]
  BY <1>1, <1>3, <1>5 DEF TypeOK
<1>6. TypeOK'
  BY <1>1, <1>2, <1>3, <1>4 DEF TypeOK, CallHook, Refuse, Start
<1>7. CallInv'
  BY <1>1, <1>2, <1>3, <1>5 DEF CallInv, Consistent, CallPart, ReasonPart, SignalPart
<1>8. /\ \A h \in SetupHooks : h \in Hooks /\ h \in Nat /\ h \notin CleanupHooks
      /\ \A h \in CleanupHooks : h \in Hooks /\ h \in Nat /\ h > NSetup
      /\ NSetup \in Nat
  BY ScenarioHookAssumption DEF SetupHooks, CleanupHooks, Hooks
<1>9. \A h \in Hooks : hook[h].outcome = "OK" => hook'[h].outcome = "OK"
  BY <1>1, <1>2, <1>5 DEF CallInv, Consistent, CallPart
<1>10. PhaseInv'
  <2>1. verdict = Verdict => verdict' = Verdict'
    BY <1>4 DEF Verdict
  <2>2. CASE phase = "setup" /\ current \in SetupHooks
    BY <1>1, <1>4, <1>5, <1>8, <1>9, <2>1, <2>2 DEF PhaseInv
  <2>3. CASE phase = "cleanup" /\ current \in CleanupHooks
    BY <1>1, <1>4, <1>5, <1>8, <1>9, <2>1, <2>3 DEF PhaseInv
  <2> QED BY <1>1, <2>2, <2>3 DEF Calling
<1>11. OrderInv'
  <2>1. \A h \in SetupHooks : \A g \in 1 .. h - 1 : g \in SetupHooks
    BY ScenarioHookAssumption DEF SetupHooks
  <2>2. CASE phase = "setup" /\ current \in SetupHooks
    <3>1. \A g \in 1 .. current - 1 : hook[g].outcome = "OK"
      BY <1>1, <2>1, <2>2 DEF PhaseInv, SetupHooks
    <3> QED BY <1>1, <1>5, <1>8, <1>9, <2>1, <3>1 DEF OrderInv
  <2>3. CASE phase = "cleanup" /\ current \in CleanupHooks
    BY <1>1, <1>5, <1>8, <1>9, <2>1, <2>3 DEF OrderInv
  <2> QED BY <1>1, <2>2, <2>3 DEF Calling
<1> QED BY <1>6, <1>7, <1>10, <1>11 DEF IInv

(* The steps of the lifecycle that move it on and leave the calls alone.   *)
LEMMA DriverKept ==
    ASSUME IInv, SetupHookReturns \/ BeginOperation \/ OperationReturns \/ CleanupHookReturns
                 \/ Return
    PROVE  IInv'
<1>1. /\ TypeOK /\ CallInv /\ PhaseInv /\ OrderInv /\ UNCHANGED hookVars
      /\ current \in Nat /\ current >= 1
  BY DEF IInv, TypeOK, SetupHookReturns, BeginOperation, OperationReturns, CleanupHookReturns,
         Return
<1>2. UNCHANGED <<hook, aborted, crashed, mayRefuse>> /\ CallInv' /\ OrderInv'
  BY <1>1 DEF hookVars, CallInv, OrderInv, Consistent, CallPart, ReasonPart, SignalPart
<1>3. /\ \A h \in SetupHooks : h \in Hooks /\ h \in Nat /\ h <= NSetup
      /\ \A h \in CleanupHooks : h \in Hooks /\ h \in Nat /\ h > NSetup /\ h <= NSetup + NCleanup
      /\ NSetup \in Nat /\ NCleanup \in Nat
  BY ScenarioHookAssumption DEF SetupHooks, CleanupHooks, Hooks
<1>4. \A h \in Hooks : /\ hook[h].outcome \in {"none", "OK"} \cup HookCodes
                       /\ hook[h].outcome # "none" <=> hook[h].call = "settled"
  BY <1>1 DEF TypeOK, HookRecords, CallInv, Consistent, CallPart
<1>5. CASE SetupHookReturns
  <2>1. CASE Succeeded(current)
    <3>1. /\ current' = current + 1 /\ phase' = "setup" /\ current \in SetupHooks
          /\ UNCHANGED <<primary, completed, cleanupFailures, verdict>>
      BY <1>5, <2>1 DEF SetupHookReturns
    <3>2. TypeOK'
      BY <1>1, <1>2, <1>3, <1>5, <3>1 DEF TypeOK, SetupHookReturns
    <3>3. PhaseInv'
      BY <1>1, <1>2, <1>3, <1>5, <2>1, <3>1 DEF PhaseInv, SetupHookReturns, Succeeded
    <3> QED BY <1>2, <3>2, <3>3 DEF IInv
  <2>2. CASE ~Succeeded(current)
    <3>1. /\ current' = NSetup + 1 /\ phase = "setup" /\ phase' = "cleanup"
          /\ current \in SetupHooks
          /\ primary' = hook[current].outcome /\ primary' \in HookCodes
          /\ primary' \notin {"none", "OK"} /\ hook[current].call = "settled"
          /\ UNCHANGED <<completed, cleanupFailures, verdict>>
      BY <1>3, <1>4, <1>5, <2>2 DEF SetupHookReturns, EnterCleanup, Succeeded
    <3>2. TypeOK'
      BY <1>1, <1>2, <1>3, <3>1 DEF TypeOK
    <3>3. \A h \in SetupHooks : hook[h].call # "running"
      BY <1>1, <1>3, <1>4, <3>1 DEF PhaseInv
    <3>4. PhaseInv'
      BY <1>1, <1>2, <1>3, <3>1, <3>3 DEF PhaseInv
    <3> QED BY <1>2, <3>2, <3>4 DEF IInv
  <2> QED BY <2>1, <2>2
<1>6. CASE BeginOperation
  <2>1. /\ phase = "setup" /\ current = NSetup + 1
        /\ UNCHANGED <<completed, cleanupFailures, verdict>>
    BY <1>6 DEF BeginOperation
  <2>2. \A h \in SetupHooks : hook[h].outcome = "OK" /\ hook[h].call # "running"
    BY <1>1, <1>3, <1>4, <2>1 DEF PhaseInv
  <2>3. TypeOK'
    BY <1>1, <1>2, <1>3, <1>6 DEF TypeOK, BeginOperation, EnterCleanup, OperationCodes
  <2>4. PhaseInv'
    <3>1. CASE aborted
      <4>1. /\ phase' = "cleanup" /\ current' = NSetup + 1
            /\ primary' = "SCENARIO_OPERATION_ABORTED"
        BY <1>6, <3>1 DEF BeginOperation, EnterCleanup
      <4> QED BY <1>1, <1>2, <1>3, <2>1, <2>2, <4>1 DEF PhaseInv
    <3>2. CASE ~aborted
      <4>1. phase' = "operation" /\ UNCHANGED <<current, primary>>
        BY <1>6, <3>2 DEF BeginOperation
      <4> QED BY <1>1, <1>2, <1>3, <2>1, <2>2, <4>1 DEF PhaseInv
    <3> QED BY <3>1, <3>2
  <2> QED BY <1>2, <2>3, <2>4 DEF IInv
<1>7. CASE OperationReturns
  <2>1. \A h \in SetupHooks : hook[h].outcome = "OK" /\ hook[h].call # "running"
    BY <1>1, <1>3, <1>4, <1>7 DEF PhaseInv, OperationReturns
  <2>2. TypeOK'
    <3>1. NSetup + 1 \in 1 .. NSetup + NCleanup + 1
      BY <1>3
    <3> QED BY <1>1, <1>2, <1>7, <3>1 DEF TypeOK, OperationReturns, EnterCleanup, OperationCodes
  <2>3. PhaseInv'
    <3>1. /\ phase = "operation" /\ phase' = "cleanup" /\ current' = NSetup + 1
          /\ completed' = TRUE \/ primary' \in OperationCodes
          /\ UNCHANGED <<cleanupFailures, verdict>>
      BY <1>7 DEF OperationReturns, EnterCleanup, OperationCodes
    <3> QED BY <1>1, <1>2, <1>3, <2>1, <3>1 DEF PhaseInv, OperationCodes
  <2> QED BY <1>2, <2>2, <2>3 DEF IInv
<1>8. CASE CleanupHookReturns
  <2>1. /\ phase = "cleanup" /\ current \in CleanupHooks /\ hook[current].call = "settled"
        /\ current' = current + 1 /\ cleanupFailures' = cleanupFailures \cup FailureOf(current)
        /\ UNCHANGED <<phase, primary, completed, verdict>>
    BY <1>8 DEF CleanupHookReturns
  <2>2. /\ FailureOf(current) \subseteq HookCodes
        /\ hook[current].outcome \in {"OK"} \cup FailureOf(current)
    BY <1>3, <1>4, <2>1 DEF FailureOf
  <2>3. TypeOK'
    BY <1>1, <1>2, <1>3, <2>1, <2>2 DEF TypeOK
  <2>4. PhaseInv'
    BY <1>1, <1>2, <1>3, <2>1, <2>2 DEF PhaseInv
  <2> QED BY <1>2, <2>3, <2>4 DEF IInv
<1>9. CASE Return
  <2>1. /\ phase = "cleanup" /\ current = NSetup + NCleanup + 1
        /\ phase' = "settled" /\ verdict' = Verdict
        /\ UNCHANGED <<current, primary, completed, cleanupFailures>>
    BY <1>9 DEF Return
  <2>2. Verdict' = Verdict
    BY <2>1 DEF Verdict
  <2>3. TypeOK'
    BY <1>1, <1>2, <2>1 DEF TypeOK, Verdict
  <2>4. PhaseInv'
    BY <1>1, <1>2, <1>3, <2>1, <2>2 DEF PhaseInv
  <2> QED BY <1>2, <2>3, <2>4 DEF IInv
<1> QED BY <1>5, <1>6, <1>7, <1>8, <1>9

LEMMA InitKept == Init => IInv
<1> SUFFICES ASSUME Init PROVE IInv
  OBVIOUS
<1>1. \A h \in Hooks : hook[h] = NotCalled
  BY DEF Init, HookInit
<1>2. TypeOK
  <2>1. NotCalled \in HookRecords
    BY DEF NotCalled, HookRecords
  <2>2. hook \in [Hooks -> HookRecords] /\ 1 \in 1 .. NSetup + NCleanup + 1
    BY <2>1, ScenarioHookAssumption DEF Init, HookInit
  <2> QED BY <2>2 DEF Init, HookInit, TypeOK
<1>3. CallInv
  BY <1>1 DEF CallInv, Consistent, CallPart, ReasonPart, SignalPart, NotCalled
<1>4. SetupHooks \subseteq Hooks /\ CleanupHooks \subseteq Hooks /\ NSetup \in Nat
      /\ \A h \in SetupHooks : h \in Nat /\ h >= 1
  BY ScenarioHookAssumption DEF SetupHooks, CleanupHooks, Hooks
<1>5. PhaseInv /\ OrderInv
  BY <1>1, <1>4 DEF Init, PhaseInv, OrderInv, NotCalled
<1> QED BY <1>2, <1>3, <1>5 DEF IInv

LEMMA InductiveInvariant == Spec => []IInv
<1>1. IInv /\ [Next]_vars => IInv'
  <2> SUFFICES ASSUME IInv, [Next]_vars PROVE IInv'
    OBVIOUS
  <2>1. CASE Next
    BY <2>1, CallHookKept, DriverKept, EnvironmentKept DEF Next, Driver
  <2>2. CASE UNCHANGED vars
    BY <2>2 DEF vars, hookVars, IInv, TypeOK, CallInv, Consistent, CallPart, ReasonPart,
                SignalPart, PhaseInv, Verdict, OrderInv
  <2> QED BY <2>1, <2>2
<1> QED BY InitKept, <1>1, PTL DEF Spec

-----------------------------------------------------------------------------
(* The theorems                                                            *)

(* Every state of the calls and of the lifecycle has its type.             *)
THEOREM TypeCorrect == Spec => []TypeOK
BY InductiveInvariant, PTL DEF IInv

(* A hook counts as successful only if its process exited with code 0 and  *)
(* nobody had asked for its termination (hooks.ts:298-333), however the    *)
(* exit, the timeout, the abort and refused kills follow each other.       *)
THEOREM SuccessCorrect == Spec => []SuccessIsGenuine
<1>1. IInv => SuccessIsGenuine
  BY DEF IInv, CallInv, Consistent, ReasonPart, SuccessIsGenuine
<1> QED BY InductiveInvariant, <1>1, PTL

(* A settled call leaves no armed timer, listener or running process       *)
(* beside the next hook, unless kill() was refused (hooks.ts:273-284).     *)
THEOREM CallCleanupCorrect == Spec => []NothingLeftBehind
<1>1. IInv => NothingLeftBehind
  <2> SUFFICES ASSUME IInv, NEW h \in Hooks, hook[h].call = "settled"
               PROVE  /\ hook[h].timeout # "armed" /\ ~hook[h].listening
                      /\ hook[h].force = "armed" \/ hook[h].child \notin {"none", "dead", "gone"}
                            => mayRefuse
    BY DEF NothingLeftBehind
  <2>1. hook[h] \in HookRecords /\ CallPart(hook[h])
    BY DEF IInv, TypeOK, CallInv, Consistent
  <2> QED BY <2>1 DEF CallPart, HookRecords
<1> QED BY InductiveInvariant, <1>1, PTL

(* Setup hooks run one after another, each only after the success of all   *)
(* the earlier ones, and so does the operation (hooks.ts:402-448).         *)
THEOREM SetupCorrect == Spec => []SetupFailureStopsSetup
<1>1. IInv => SetupFailureStopsSetup
  BY DEF IInv, PhaseInv, OrderInv, SetupFailureStopsSetup
<1> QED BY InductiveInvariant, <1>1, PTL

(* No cleanup hook starts beside a setup hook, and no abort reaches one    *)
(* (hooks.ts:348-380, 450).                                                *)
THEOREM ShieldCorrect == Spec => []CleanupIsShielded
<1>1. IInv => CleanupIsShielded
  <2> SUFFICES ASSUME IInv, NEW h \in CleanupHooks
               PROVE  /\ hook[h].call # "idle" => \A g \in SetupHooks : hook[g].call # "running"
                      /\ hook[h].reason # "abort" /\ hook[h].outcome # "SCENARIO_HOOK_ABORTED"
    BY DEF CleanupIsShielded
  <2>1. h \in Hooks /\ h \notin SetupHooks
    BY ScenarioHookAssumption DEF SetupHooks, CleanupHooks, Hooks
  <2>2. hook[h].reason # "abort" /\ hook[h].outcome # "SCENARIO_HOOK_ABORTED"
    BY <2>1 DEF IInv, CallInv, Consistent, SignalPart
  <2>3. hook[h].call # "idle" => phase \in {"cleanup", "settled"}
    BY DEF IInv, PhaseInv, TypeOK
  <2> QED BY <2>2, <2>3 DEF IInv, PhaseInv
<1> QED BY InductiveInvariant, <1>1, PTL

(* A lifecycle that is over has attempted every cleanup hook, and reports  *)
(* success only if every hook of both phases succeeded (450-470).          *)
THEOREM VerdictCorrect == Spec => []VerdictIsEarned
<1>1. IInv => VerdictIsEarned
  <2> SUFFICES ASSUME IInv, phase = "settled"
               PROVE  /\ \A h \in CleanupHooks : hook[h].call = "settled"
                      /\ verdict = "OK" => \A h \in Hooks : hook[h].outcome = "OK"
    BY DEF VerdictIsEarned
  <2>1. \A h \in CleanupHooks :
            hook[h].call = "settled" /\ hook[h].outcome \in {"OK"} \cup cleanupFailures
    BY DEF IInv, PhaseInv
  <2>2. ASSUME verdict = "OK", NEW h \in Hooks PROVE hook[h].outcome = "OK"
    <3>1. completed /\ cleanupFailures = {}
      BY <2>2 DEF IInv, PhaseInv, Verdict
    <3>2. h \in SetupHooks \/ h \in CleanupHooks
      BY ScenarioHookAssumption DEF SetupHooks, CleanupHooks, Hooks
    <3> QED BY <2>1, <3>1, <3>2 DEF IInv, PhaseInv
  <2> QED BY <2>1, <2>2
<1> QED BY InductiveInvariant, <1>1, PTL

-----------------------------------------------------------------------------
(* The refinement                                                          *)

(* A step at a call that its caller may see is a step of the contract.     *)
LEMMA CallStepImplements ==
    ASSUME IInv, NEW h \in Hooks, CallStep(h)
    PROVE  [Contract!ContractNext]_(Contract!contractVars)
<1>1. PICK s \in HookRecords : hook' = [hook EXCEPT ![h] = s] /\ Moves(hook[h], s)
  BY DEF CallStep
<1>2. /\ hook \in [Hooks -> HookRecords]
      /\ hook' = [g \in Hooks |-> IF g = h THEN s ELSE hook[g]]
  BY <1>1 DEF IInv, TypeOK
<1>3. ASSUME s.call = hook[h].call /\ s.reason = hook[h].reason /\ s.outcome = hook[h].outcome
      PROVE  UNCHANGED Contract!contractVars
  BY <1>2, <1>3 DEF Contract!contractVars
<1>4. ASSUME /\ hook[h].call = "running" /\ hook[h].reason = "none"
             /\ s.reason \in {"timeout", "abort"}
             /\ \/ s.call = hook[h].call /\ s.outcome = hook[h].outcome
                \/ s.call = "settled" /\ s.outcome = "SCENARIO_HOOK_START_FAILED"
      PROVE  Contract!ContractNext
  <2>1. Contract!Terminate(h, s.reason)
    BY <1>2, <1>4 DEF Contract!Terminate, Contract!SettleWith
  <2> QED BY <1>4, <2>1 DEF Contract!ContractNext
<1>5. ASSUME /\ hook[h].call = "running" /\ s.call = "settled" /\ s.reason = hook[h].reason
             /\ s.outcome \in Contract!OutcomesFor(hook[h].reason)
      PROVE  Contract!ContractNext
  <2>1. Contract!Settle(h, s.outcome)
    BY <1>2, <1>5 DEF Contract!Settle, Contract!SettleWith
  <2>2. s.outcome \in {"OK"} \cup Contract!HookCodes
    BY <1>5 DEF Contract!OutcomesFor, Contract!HookCodes, Contract!RefusalCodes
  <2> QED BY <2>1, <2>2 DEF Contract!ContractNext
<1> QED BY <1>1, <1>3, <1>4, <1>5 DEF Moves

LEMMA CallImplements ==
    ASSUME IInv, NEW h \in Hooks, Refuse(h) \/ Start(h) PROVE Contract!ContractNext
<1>1. TypeOK /\ CallInv
  BY DEF IInv
<1>2. hook[h].call = "idle"
  BY <1>1, CallKept
<1>3. PICK s \in HookRecords :
        /\ hook' = [hook EXCEPT ![h] = s] /\ Consistent(h, s) /\ s.reason = "none"
        /\ \/ s.call = "running" /\ s.outcome = "none"
           \/ s.call = "settled" /\ s.outcome \in Contract!RefusalCodes
  BY <1>1, CallKept
<1>4. /\ hook[h].reason = "none" /\ hook[h].outcome = "none"
      /\ hook' = [g \in Hooks |-> IF g = h THEN s ELSE hook[g]]
  <2>1. hook[h] = NotCalled
    BY <1>1, <1>2 DEF CallInv, Consistent, CallPart
  <2>2. hook \in [Hooks -> HookRecords]
    BY <1>1 DEF TypeOK
  <2>3. hook[h].reason = "none" /\ hook[h].outcome = "none"
    BY <2>1 DEF NotCalled
  <2> QED BY <1>3, <2>2, <2>3
<1>5. CASE s.call = "running" /\ s.outcome = "none"
  <2>1. Contract!Spawn(h)
    BY <1>2, <1>3, <1>4, <1>5 DEF Contract!Spawn
  <2> QED BY <2>1 DEF Contract!ContractNext
<1>6. CASE s.call = "settled" /\ s.outcome \in Contract!RefusalCodes
  <2>1. Contract!Refuse(h, s.outcome)
    BY <1>2, <1>3, <1>4, <1>6 DEF Contract!Refuse, Contract!SettleWith
  <2> QED BY <1>6, <2>1 DEF Contract!ContractNext
<1> QED BY <1>3, <1>5, <1>6

(* The hook processes, with their timers, listeners and refused kills,     *)
(* keep the contract VerifyScenario drives its hooks through: a call is    *)
(* refused or started, and settles once, in agreement with the first       *)
(* reason to terminate it.                                                 *)
THEOREM ContractImplemented == Spec => ImplementsContract
<1>1. Init => Contract!ContractInit
  BY DEF Init, HookInit, NotCalled, Contract!ContractInit
<1>2. IInv /\ [Next]_vars => [Contract!ContractNext]_(Contract!contractVars)
  <2> SUFFICES ASSUME IInv, [Next]_vars
               PROVE  [Contract!ContractNext]_(Contract!contractVars)
    OBVIOUS
  <2>1. CASE CallHook
    <3>1. current \in Hooks
      BY <2>1, ScenarioHookAssumption
         DEF IInv, CallHook, Calling, TypeOK, SetupHooks, CleanupHooks, Hooks
    <3> QED BY <2>1, <3>1, CallImplements DEF CallHook
  <2>2. CASE Environment
    <3>1. hook' = hook \/ \E h \in Hooks : CallStep(h)
      BY <2>2, EnvironmentMoves DEF IInv
    <3>2. CASE hook' = hook
      BY <3>2 DEF Contract!contractVars
    <3> QED BY <3>1, <3>2, CallStepImplements
  <2>3. CASE hook' = hook
    BY <2>3 DEF Contract!contractVars
  <2>4. Next => CallHook \/ Environment \/ hook' = hook
    BY DEF Next, Driver, SetupHookReturns, BeginOperation, OperationReturns, CleanupHookReturns,
           Return, hookVars
  <2> QED BY <2>1, <2>2, <2>3, <2>4 DEF vars, hookVars
<1> QED BY InductiveInvariant, <1>1, <1>2, PTL DEF Spec, ImplementsContract, Contract!ContractSpec
=============================================================================
