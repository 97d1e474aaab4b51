---------------------------- MODULE HttpExecution ---------------------------
(***************************************************************************)
(* executeHttpRequest (replay-http/src/execute.ts) for the targets of one  *)
(* scenario: per call the request and its response stream, the connect     *)
(* timer, the request timer, the abort listener and the once-only          *)
(* settle().  The network and the target are the environment: they may     *)
(* connect, answer, stall, fail or cut the response at any moment.         *)
(***************************************************************************)
EXTENDS Naturals

CONSTANTS Targets,
          Limit,     \* maxResponseBodyBytes
          Bodies     \* the body lengths a target may intend to send

ASSUME HttpExecutionAssumption == Limit \in Nat \ {0} /\ Bodies \subseteq Nat

VARIABLES aborted,   \* options.signal.aborted
          exec,      \* exec[t]: everything one call of executeHttpRequest owns
          body       \* body[t]: the length of the response body of the target

vars == <<aborted, exec, body>>

HttpCodes ==
    {"HTTP_CONNECT_TIMEOUT", "HTTP_REQUEST_ABORTED", "HTTP_REQUEST_TIMEOUT",
     "HTTP_RESPONSE_TOO_LARGE", "HTTP_TARGET_INVALID", "HTTP_TARGET_UNAVAILABLE",
     "HTTP_TRANSPORT_ERROR"}

ExecRecords == [
    call            : {"idle", "pending", "settled"},        \* the promise
    outcome         : {"none", "OK"} \cup HttpCodes,         \* what it settled with
    phase           : {"none", "startup", "request"},        \* the phase of a failure
    termination     : {"none", "aborted", "connect-timeout", "request-timeout", "too-large"},
    responseStarted : BOOLEAN,
    connectTimer    : {"off", "armed"},
    requestTimer    : {"off", "armed", "done"},              \* done: fired or cleared
    listening       : BOOLEAN,                               \* abort is registered
    destroyed       : BOOLEAN,                               \* clientRequest.destroy()
    socket          : {"none", "opening", "connected", "failed"},
    stream          : {"none", "open", "ended", "cut"},      \* the response
    byteLength      : Nat]

NotCalled == [call |-> "idle", outcome |-> "none", phase |-> "none", termination |-> "none",
              responseStarted |-> FALSE, connectTimer |-> "off", requestTimer |-> "off",
              listening |-> FALSE, destroyed |-> FALSE, socket |-> "none",
              stream |-> "none", byteLength |-> 0]

TypeOK ==
    /\ aborted \in BOOLEAN
    /\ exec \in [Targets -> ExecRecords]
    /\ body \in [Targets -> Bodies]

Init ==
    /\ aborted \in BOOLEAN
    /\ exec = [t \in Targets |-> NotCalled]
    /\ body \in [Targets -> Bodies]

-----------------------------------------------------------------------------
(* Faulty: settles again on every event.                                   *)
SettleAgain(r, outcome, phase) ==
    [r EXCEPT !.call = "settled", !.outcome = outcome, !.phase = phase, !.connectTimer = "off",
              !.requestTimer = IF @ = "off" THEN "off" ELSE "done", !.listening = FALSE]

(* Faulty: leaves the request timer armed.                                 *)
SettleKeepingTimer(r, outcome, phase) ==
    IF r.call = "settled" THEN r
    ELSE [SettleAgain(r, outcome, phase) EXCEPT !.requestTimer = r.requestTimer]

(* settle(): only the first call counts; it clears both timers and         *)
(* unregisters the listener before it resolves the promise.                *)
Settle(r, outcome, phase) ==
    IF r.call = "settled"
    THEN r
    ELSE [r EXCEPT !.call = "settled", !.outcome = outcome, !.phase = phase,
                   !.connectTimer = "off",
                   !.requestTimer = IF @ = "off" THEN "off" ELSE "done",
                   !.listening = FALSE]

TerminateWith(r, why, outcome, phase) ==
    Settle([r EXCEPT !.termination = why, !.destroyed = TRUE], outcome, phase)

(* Faulty: nothing replaces the connect timer.                             *)
MarkConnectedUntimed(r) == [r EXCEPT !.connectTimer = "off"]

(* markConnected(): the connect timer gives way to the request timer.      *)
MarkConnected(r) ==
    [r EXCEPT !.connectTimer = "off",
              !.requestTimer = IF @ = "off" /\ r.call # "settled" THEN "armed" ELSE @]

Becomes(t, r) == exec' = [exec EXCEPT ![t] = r] /\ UNCHANGED <<aborted, body>>

-----------------------------------------------------------------------------
(* The call: an unusable target is reported first, then an aborted signal; *)
(* otherwise the request is under way with the connect timer armed.        *)
Send(t) ==
    /\ exec[t].call = "idle"
    /\ \/ Becomes(t, Settle(exec[t], "HTTP_TARGET_INVALID", "startup"))
       \/ aborted /\ Becomes(t, Settle(exec[t], "HTTP_REQUEST_ABORTED", "startup"))
       \/ ~aborted /\ Becomes(t, [exec[t] EXCEPT !.call = "pending", !.socket = "opening",
                                                 !.connectTimer = "armed", !.listening = TRUE])

ConnectTimeout(t) ==
    /\ exec[t].connectTimer = "armed"
    /\ Becomes(t, TerminateWith([exec[t] EXCEPT !.connectTimer = "off"], "connect-timeout",
                                "HTTP_CONNECT_TIMEOUT", "startup"))

RequestTimeout(t) ==
    /\ exec[t].requestTimer = "armed"
    /\ Becomes(t, TerminateWith([exec[t] EXCEPT !.requestTimer = "done"], "request-timeout",
                                "HTTP_REQUEST_TIMEOUT", "request"))

(* The signal aborts: every registered listener terminates its request.    *)
Abort ==
    /\ ~aborted
    /\ aborted' = TRUE
    /\ exec' = [t \in Targets |->
                  IF exec[t].listening
                  THEN TerminateWith(exec[t], "aborted", "HTTP_REQUEST_ABORTED",
                                     IF exec[t].responseStarted THEN "request" ELSE "startup")
                  ELSE exec[t]]
    /\ UNCHANGED body

-----------------------------------------------------------------------------
(* Events of the socket and of the response                                *)

Connected(t) ==
    /\ exec[t].socket = "opening" /\ ~exec[t].destroyed
    /\ Becomes(t, MarkConnected([exec[t] EXCEPT !.socket = "connected"]))

(* The "error" event of the request, also the late one of a request that   *)
(* was destroyed.  Some errors mean that the target is unavailable, but    *)
(* not once a response has started.                                        *)
RequestError(t) ==
    /\ exec[t].socket \in {"opening", "connected"}
    /\ exec[t].stream \in {"none", "open"}
    /\ \E unavailable \in {FALSE, ~exec[t].responseStarted} :
         LET r == [exec[t] EXCEPT !.socket = "failed"]
         IN  Becomes(t, IF r.termination # "none" THEN r
                        ELSE Settle(r, IF unavailable THEN "HTTP_TARGET_UNAVAILABLE"
                                                      ELSE "HTTP_TRANSPORT_ERROR",
                                       IF r.responseStarted THEN "request" ELSE "startup"))

ReceiveResponse(t) ==
    /\ exec[t].socket = "connected" /\ exec[t].stream = "none" /\ ~exec[t].destroyed
    /\ Becomes(t, MarkConnected([exec[t] EXCEPT !.responseStarted = TRUE, !.stream = "open"]))

(* Faulty: one byte too many, and one byte too few.                        *)
TooLargeByTwo(r) == r.byteLength > Limit + 1
TooLargeAtLimit(r) == r.byteLength >= Limit

TooLarge(r) == r.byteLength > Limit

(* A chunk of the body; the one that passes the limit ends the request.    *)
Data(t) ==
    /\ exec[t].stream = "open" /\ exec[t].socket = "connected" /\ ~exec[t].destroyed
    /\ exec[t].call = "pending"
    /\ \E size \in 1 .. body[t] - exec[t].byteLength :
         LET r == [exec[t] EXCEPT !.byteLength = @ + size]
         IN  Becomes(t, IF TooLarge(r)
                        THEN TerminateWith(r, "too-large", "HTTP_RESPONSE_TOO_LARGE", "request")
                        ELSE r)

(* "aborted" and "error" of the response: it broke off before its end.     *)
ResponseCut(t) ==
    /\ exec[t].stream = "open"
    /\ LET r == [exec[t] EXCEPT !.stream = "cut"]
       IN  Becomes(t, IF r.termination # "none" THEN r
                      ELSE Settle(r, "HTTP_TRANSPORT_ERROR", "request"))

(* "end": the whole body has been delivered, or what was left of it was    *)
(* discarded by destroy().  A response without a status is an error.       *)
ResponseEnd(t) ==
    /\ exec[t].stream = "open"
    /\ exec[t].byteLength = body[t] \/ exec[t].destroyed
    /\ LET r == [exec[t] EXCEPT !.stream = "ended"]
       IN  \/ Becomes(t, Settle(r, "OK", "none"))
           \/ Becomes(t, Settle(r, "HTTP_TRANSPORT_ERROR", "request"))

Next ==
    \/ Abort
    \/ \E t \in Targets :
         \/ Send(t) \/ ConnectTimeout(t) \/ RequestTimeout(t)
         \/ Connected(t) \/ RequestError(t)
         \/ ReceiveResponse(t) \/ Data(t) \/ ResponseCut(t) \/ ResponseEnd(t)

Spec == Init /\ [][Next]_vars

(* The call is made and armed timers fire; the network and the target owe  *)
(* nothing.                                                                *)
Fairness == \A t \in Targets :
    WF_vars(Send(t)) /\ WF_vars(ConnectTimeout(t)) /\ WF_vars(RequestTimeout(t))

FairSpec == Spec /\ Fairness

-----------------------------------------------------------------------------
(* Properties                                                              *)

(* An observation holds the complete body, at most Limit bytes of it, of a *)
(* response that ended normally: a cut or oversized body is never observed *)
(* (execute.ts:160-242).                                                   *)
ObservationIsWhole ==
    \A t \in Targets : exec[t].outcome = "OK" =>
        /\ exec[t].stream = "ended" /\ ~exec[t].destroyed
        /\ exec[t].byteLength = body[t] /\ body[t] <= Limit

(* A settled call leaves no armed timer and no listener on the signal,     *)
(* whichever event settled it (98-111).                                    *)
NothingLeftBehind ==
    \A t \in Targets : exec[t].call = "settled" =>
        /\ exec[t].connectTimer # "armed" /\ exec[t].requestTimer # "armed"
        /\ ~exec[t].listening

(* A failure tells where the exchange broke off: CONNECT_TIMEOUT and       *)
(* UNAVAILABLE only before a response, REQUEST_TIMEOUT only after the      *)
(* connection, TOO_LARGE only for a body beyond the limit, and phase       *)
(* "startup" only if no response had started.                              *)
FailureIsTruthful ==
    \A t \in Targets : LET r == exec[t] IN
        /\ r.outcome = "HTTP_CONNECT_TIMEOUT" => r.socket # "connected" /\ r.stream = "none"
        /\ r.outcome = "HTTP_REQUEST_TIMEOUT" => r.socket \in {"connected", "failed"}
        /\ r.outcome = "HTTP_TARGET_UNAVAILABLE" => r.stream = "none"
        /\ r.outcome = "HTTP_RESPONSE_TOO_LARGE" => body[t] > Limit
        /\ r.phase = "startup" => r.stream = "none"

Contract == INSTANCE HttpContract WITH
    request <- [t \in Targets |-> exec[t].call],
    answer <- [t \in Targets |-> exec[t].outcome]

(* The calls keep the contract VerifyScenario is built on.                 *)
ImplementsContract == Contract!HttpSpec

(* Every call settles whatever the network and the target do, so a stalled *)
(* connection or a response that never ends is not waited for.             *)
EveryCallSettles == \A t \in Targets : <>(exec[t].call = "settled")
=============================================================================
