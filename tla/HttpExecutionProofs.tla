------------------------ MODULE HttpExecutionProofs ------------------------
(***************************************************************************)
(* Theorems about HttpExecution for any set of targets, any limit and any  *)
(* body lengths: the invariants of the calls, and that the calls implement *)
(* HttpContract.                                                           *)
(***************************************************************************)
EXTENDS HttpExecution, TLAPS

(* What one call keeps consistent, for a body of b bytes, in four parts.   *)

(* The promise, its outcome and what settle() puts away.                   *)
CallPart(r) ==
    /\ r.call = "idle" => r = NotCalled
    /\ r.call = "settled" <=> r.outcome # "none"
    /\ r.call = "pending" <=> r.listening
    /\ r.call = "pending" => r.phase = "none" /\ r.termination = "none"
    /\ r.destroyed => r.termination # "none"
    /\ r.termination # "none" => r.destroyed /\ r.call = "settled"

(* The timers follow the socket: the connect timer while it opens, the     *)
(* request timer once it is connected.                                     *)
TimerPart(r) ==
    /\ r.connectTimer = "armed" => r.call = "pending" /\ r.socket = "opening"
    /\ r.requestTimer = "armed" => r.call = "pending"
    /\ r.requestTimer # "off" => r.socket \in {"connected", "failed"}

(* The response needs a connection, and a pending call has not lost it.    *)
StreamPart(r, b) ==
    /\ r.responseStarted <=> r.stream # "none"
    /\ r.stream # "none" => r.socket \in {"connected", "failed"}
    /\ r.call = "pending" => /\ r.socket \in {"opening", "connected"}
                             /\ r.stream \in {"none", "open"}
                             /\ r.byteLength <= Limit
    /\ r.byteLength <= b

(* What the outcome says of the exchange, and why no later event of a      *)
(* socket that is destroyed or gone makes it wrong.                        *)
OutcomePart(r, b) ==
    /\ r.outcome = "OK" => /\ r.stream = "ended" /\ ~r.destroyed
                           /\ r.byteLength = b /\ b <= Limit
    /\ r.outcome = "HTTP_CONNECT_TIMEOUT" =>
          r.destroyed /\ r.socket # "connected" /\ r.stream = "none"
    /\ r.outcome = "HTTP_REQUEST_TIMEOUT" => r.socket \in {"connected", "failed"}
    /\ r.outcome = "HTTP_TARGET_UNAVAILABLE" => r.socket = "failed" /\ r.stream = "none"
    /\ r.outcome = "HTTP_RESPONSE_TOO_LARGE" => b > Limit
    /\ r.phase = "startup" =>
          r.stream = "none" /\ (r.destroyed \/ r.socket \in {"none", "failed"})

Consistent(r, b) == CallPart(r) /\ TimerPart(r) /\ StreamPart(r, b) /\ OutcomePart(r, b)

IInv == TypeOK /\ \A t \in Targets : Consistent(exec[t], body[t])

-----------------------------------------------------------------------------
(* The operators on one call                                               *)

(* The first call of settle() gives the promise its outcome and phase, and *)
(* puts away the timers and the listener; the rest of the call is as it    *)
(* was.                                                                    *)
Settled(s, r, outcome, phase) ==
    /\ s \in ExecRecords
    /\ s.call = "settled" /\ s.outcome = outcome /\ s.phase = phase
    /\ s.connectTimer = "off" /\ s.requestTimer # "armed" /\ ~s.listening
    /\ s.requestTimer = "off" <=> r.requestTimer = "off"
    /\ s.responseStarted = r.responseStarted
    /\ s.socket = r.socket /\ s.stream = r.stream /\ s.byteLength = r.byteLength

LEMMA SettleOnce ==
    ASSUME NEW r \in ExecRecords, r.call # "settled",
           NEW outcome \in {"OK"} \cup HttpCodes, NEW phase \in {"none", "startup", "request"}
    PROVE  LET s == Settle(r, outcome, phase)
           IN  /\ Settled(s, r, outcome, phase)
               /\ s.termination = r.termination /\ s.destroyed = r.destroyed
<1> DEFINE s == Settle(r, outcome, phase)
<1>1. s = [r EXCEPT !.call = "settled", !.outcome = outcome, !.phase = phase,
                    !.connectTimer = "off",
                    !.requestTimer = IF @ = "off" THEN "off" ELSE "done", !.listening = FALSE]
  BY DEF Settle
<1>2. s \in ExecRecords
  BY <1>1 DEF ExecRecords
<1>3. s.call = "settled" /\ s.outcome = outcome /\ s.phase = phase
      /\ s.connectTimer = "off" /\ s.requestTimer # "armed" /\ ~s.listening
      /\ (s.requestTimer = "off" <=> r.requestTimer = "off")
  BY <1>1 DEF ExecRecords
<1>4. /\ s.termination = r.termination /\ s.destroyed = r.destroyed
      /\ s.responseStarted = r.responseStarted
      /\ s.socket = r.socket /\ s.stream = r.stream /\ s.byteLength = r.byteLength
  BY <1>1 DEF ExecRecords
<1> QED BY <1>2, <1>3, <1>4 DEF Settled

(* Terminating a pending call destroys its request and settles it.         *)
LEMMA TerminatePending ==
    ASSUME NEW r \in ExecRecords, r.call = "pending",
           NEW why \in {"aborted", "connect-timeout", "request-timeout", "too-large"},
           NEW outcome \in HttpCodes, NEW phase \in {"startup", "request"}
    PROVE  LET s == TerminateWith(r, why, outcome, phase)
           IN  Settled(s, r, outcome, phase) /\ s.termination = why /\ s.destroyed
<1> DEFINE d == [r EXCEPT !.termination = why, !.destroyed = TRUE]
<1>1. /\ d \in ExecRecords /\ d.call = "pending" /\ d.termination = why /\ d.destroyed = TRUE
      /\ d.requestTimer = r.requestTimer /\ d.responseStarted = r.responseStarted
      /\ d.socket = r.socket /\ d.stream = r.stream /\ d.byteLength = r.byteLength
  BY DEF ExecRecords
<1>2. TerminateWith(r, why, outcome, phase) = Settle(d, outcome, phase)
  BY DEF TerminateWith
<1> HIDE DEF d
<1> DEFINE s == Settle(d, outcome, phase)
<1>3. Settled(s, d, outcome, phase) /\ s.termination = d.termination /\ s.destroyed = d.destroyed
  BY <1>1, SettleOnce
<1> HIDE DEF s
<1>4. Settled(s, r, outcome, phase) /\ s.termination = why /\ s.destroyed
  BY <1>1, <1>3 DEF Settled
<1> QED BY <1>2, <1>4 DEF s

(* A step of one call keeps the invariant if the call stays consistent.    *)
LEMMA BecomesConsistent ==
    ASSUME IInv, NEW t \in Targets, NEW r \in ExecRecords, Becomes(t, r), Consistent(r, body[t])
    PROVE  IInv'
<1>1. TypeOK'
  BY DEF IInv, TypeOK, Becomes
<1>2. \A u \in Targets : body'[u] = body[u] /\ exec'[u] = IF u = t THEN r ELSE exec[u]
  BY DEF IInv, TypeOK, Becomes
<1>3. ASSUME NEW u \in Targets PROVE Consistent(exec'[u], body'[u])
  BY <1>2, <1>3 DEF IInv
<1> QED BY <1>1, <1>3 DEF IInv

(* To the caller a step of one call either answers the pending request or  *)
(* goes unnoticed.                                                         *)
Answering(t, r) ==
    \/ r.call = exec[t].call /\ r.outcome = exec[t].outcome
    \/ /\ exec[t].call = "pending" /\ r.call = "settled"
       /\ r.outcome \in {"OK"} \cup Contract!FailureCodes

ContractStep == [Contract!HttpNext]_(Contract!httpVars)

LEMMA BecomesAnswer ==
    ASSUME IInv, NEW t \in Targets, NEW r \in ExecRecords, Becomes(t, r),
           Consistent(r, body[t]), Answering(t, r)
    PROVE  IInv' /\ ContractStep
<1>1. /\ exec \in [Targets -> ExecRecords] /\ aborted' = aborted
      /\ exec' = [u \in Targets |-> IF u = t THEN r ELSE exec[u]]
  BY DEF IInv, TypeOK, Becomes
<1>2. IInv'
  BY BecomesConsistent
<1>3. ASSUME r.call = exec[t].call /\ r.outcome = exec[t].outcome
      PROVE  UNCHANGED Contract!httpVars
  BY <1>1, <1>3 DEF Contract!httpVars
<1>4. ASSUME /\ exec[t].call = "pending" /\ r.call = "settled"
             /\ r.outcome \in {"OK"} \cup Contract!FailureCodes
      PROVE  Contract!HttpNext
  <2>1. Contract!Answer(t, r.outcome)
    BY <1>1, <1>4 DEF Contract!Answer
  <2> QED BY <1>4, <2>1 DEF Contract!HttpNext
<1> QED BY <1>2, <1>3, <1>4 DEF Answering, ContractStep

LEMMA InitConsistent == Init => IInv
<1> SUFFICES ASSUME Init PROVE IInv
  OBVIOUS
<1>1. TypeOK
  BY DEF Init, TypeOK, NotCalled, ExecRecords
<1>2. ASSUME NEW t \in Targets PROVE Consistent(exec[t], body[t])
  <2>1. exec[t] = NotCalled /\ body[t] \in Nat
    BY HttpExecutionAssumption DEF Init
  <2> QED BY <2>1 DEF Consistent, CallPart, TimerPart, StreamPart, OutcomePart, NotCalled
<1> QED BY <1>1, <1>2 DEF IInv

-----------------------------------------------------------------------------
(* The inductive invariant                                                 *)

(* Every listening call is terminated by an abort, every other one is left *)
(* alone.                                                                  *)
LEMMA AbortKept == IInv /\ Abort => IInv' /\ ContractStep
<1> SUFFICES ASSUME IInv, Abort PROVE IInv' /\ ContractStep
  OBVIOUS
<1>1. ASSUME NEW t \in Targets
      PROVE  /\ exec'[t] \in ExecRecords /\ Consistent(exec'[t], body'[t])
             /\ exec[t].call = "pending" => /\ exec'[t].call = "settled"
                                           /\ exec'[t].outcome = "HTTP_REQUEST_ABORTED"
             /\ exec[t].call # "pending" => exec'[t] = exec[t]
  <2>1. exec[t] \in ExecRecords /\ body'[t] = body[t] /\ Consistent(exec[t], body[t])
    BY DEF IInv, TypeOK, Abort
  <2>2. CASE exec[t].listening
    <3> DEFINE phase == IF exec[t].responseStarted THEN "request" ELSE "startup"
    <3>1. exec'[t] = TerminateWith(exec[t], "aborted", "HTTP_REQUEST_ABORTED", phase)
      BY <2>2 DEF Abort
    <3>2. exec[t].call = "pending"
      BY <2>1, <2>2 DEF Consistent, CallPart
    <3>3. phase \in {"startup", "request"} /\ (phase = "startup" => ~exec[t].responseStarted)
      OBVIOUS
    <3>4. "HTTP_REQUEST_ABORTED" \in HttpCodes
      BY DEF HttpCodes
    <3> HIDE DEF phase
    <3> QED BY <2>1, <3>1, <3>2, <3>3, <3>4, TerminatePending
            DEF Settled, Consistent, CallPart, TimerPart, StreamPart, OutcomePart
  <2>3. CASE ~exec[t].listening
    BY <2>1, <2>3 DEF Abort, Consistent, CallPart
  <2> QED BY <2>2, <2>3
<1>2. TypeOK'
  BY <1>1 DEF Abort, IInv, TypeOK
<1>3. Contract!AbortAll
  BY <1>1 DEF Abort, Contract!AbortAll
<1> QED BY <1>1, <1>2, <1>3 DEF IInv, ContractStep, Contract!HttpNext

(* The call.                                                               *)
LEMMA SendKept == ASSUME IInv, NEW t \in Targets, Send(t) PROVE IInv' /\ ContractStep
<1>1. exec[t] \in ExecRecords /\ body[t] \in Nat /\ Consistent(exec[t], body[t])
  BY HttpExecutionAssumption DEF IInv, TypeOK
<1>2. exec[t] = NotCalled
  BY <1>1 DEF Send, Consistent, CallPart
<1> DEFINE sent == [NotCalled EXCEPT !.call = "pending", !.socket = "opening",
                                   !.connectTimer = "armed", !.listening = TRUE]
<1>3. ASSUME NEW r \in ExecRecords, Becomes(t, r),
             NEW first \in {"none", "HTTP_TARGET_INVALID", "HTTP_REQUEST_ABORTED"},
             first = "none" <=> r.call = "pending", first # "none" <=> r.call = "settled",
             r.outcome = first, Contract!Started(t, first)
      PROVE  Contract!Send({t})
  <2> DEFINE firsts == [u \in {t} |-> first]
  <2>1. /\ exec[t].call = "idle" /\ aborted' = aborted
        /\ exec' = [u \in Targets |-> IF u = t THEN r ELSE exec[u]]
    BY <1>1, <1>3 DEF Send, Becomes, IInv, TypeOK
  <2>2. /\ firsts \in [{t} -> {"none", "HTTP_TARGET_INVALID", "HTTP_REQUEST_ABORTED"}]
        /\ firsts[t] = first
    BY <1>3
  <2> QED BY <1>3, <2>1, <2>2 DEF Contract!Send
<1>4. ASSUME NEW code \in {"HTTP_TARGET_INVALID", "HTTP_REQUEST_ABORTED"},
             code = "HTTP_REQUEST_ABORTED" => aborted,
             Becomes(t, Settle(exec[t], code, "startup"))
      PROVE  IInv' /\ ContractStep
  <2> DEFINE s == Settle(exec[t], code, "startup")
  <2>1. exec[t].call # "settled" /\ code \in HttpCodes
    BY <1>2 DEF NotCalled, HttpCodes
  <2>2. /\ Settled(s, exec[t], code, "startup")
        /\ s.termination = exec[t].termination /\ s.destroyed = exec[t].destroyed
    BY <1>1, <2>1, SettleOnce
  <2> HIDE DEF s
  <2>3. Consistent(s, body[t])
    BY <1>1, <1>2, <2>2
       DEF Settled, Consistent, CallPart, TimerPart, StreamPart, OutcomePart, NotCalled
  <2>4. Becomes(t, s)
    BY <1>4 DEF s
  <2>5. Contract!Send({t})
    BY <1>3, <1>4, <2>2, <2>4 DEF Settled, Contract!Started
  <2> QED BY <2>2, <2>3, <2>4, <2>5, BecomesConsistent
          DEF Settled, ContractStep, Contract!HttpNext
<1>5. ASSUME ~aborted, Becomes(t, sent) PROVE IInv' /\ ContractStep
  <2>1. sent \in ExecRecords
    BY DEF ExecRecords, NotCalled
  <2>2. Consistent(sent, body[t])
    BY <1>1, HttpExecutionAssumption
       DEF Consistent, CallPart, TimerPart, StreamPart, OutcomePart, NotCalled
  <2>3. Contract!Send({t})
    BY <1>3, <1>5, <2>1 DEF NotCalled, Contract!Started
  <2> QED BY <1>5, <2>1, <2>2, <2>3, BecomesConsistent DEF ContractStep, Contract!HttpNext
<1> QED BY <1>2, <1>4, <1>5 DEF Send

(* The two timers: an armed one belongs to a pending call.                 *)
LEMMA TimeoutKept ==
    ASSUME IInv, NEW t \in Targets, ConnectTimeout(t) \/ RequestTimeout(t)
    PROVE  IInv' /\ ContractStep
<1>1. exec[t] \in ExecRecords /\ Consistent(exec[t], body[t])
  BY DEF IInv, TypeOK
<1>2. exec[t].call = "pending"
  BY <1>1 DEF ConnectTimeout, RequestTimeout, Consistent, TimerPart
<1>3. CASE ConnectTimeout(t)
  <2> DEFINE r == [exec[t] EXCEPT !.connectTimer = "off"]
             s == TerminateWith(r, "connect-timeout", "HTTP_CONNECT_TIMEOUT", "startup")
  <2>1. /\ r \in ExecRecords /\ r.call = "pending" /\ r.requestTimer = exec[t].requestTimer
        /\ r.responseStarted = exec[t].responseStarted /\ r.socket = exec[t].socket
        /\ r.stream = exec[t].stream /\ r.byteLength = exec[t].byteLength
    BY <1>1, <1>2 DEF ExecRecords
  <2>2. Becomes(t, s) /\ exec[t].socket = "opening"
    BY <1>1, <1>3 DEF ConnectTimeout, Consistent, TimerPart
  <2> HIDE DEF r
  <2>3. /\ Settled(s, r, "HTTP_CONNECT_TIMEOUT", "startup")
        /\ s.termination = "connect-timeout" /\ s.destroyed
    BY <2>1, TerminatePending DEF HttpCodes
  <2> HIDE DEF s
  <2>4. Consistent(s, body[t])
    BY <1>1, <2>1, <2>2, <2>3
       DEF Settled, Consistent, CallPart, TimerPart, StreamPart, OutcomePart
  <2>5. Answering(t, s)
    BY <1>2, <2>3 DEF Settled, Answering, Contract!FailureCodes
  <2> QED BY <2>2, <2>3, <2>4, <2>5, BecomesAnswer DEF Settled
<1>4. CASE RequestTimeout(t)
  <2> DEFINE r == [exec[t] EXCEPT !.requestTimer = "done"]
             s == TerminateWith(r, "request-timeout", "HTTP_REQUEST_TIMEOUT", "request")
  <2>1. /\ r \in ExecRecords /\ r.call = "pending" /\ r.requestTimer = "done"
        /\ r.responseStarted = exec[t].responseStarted /\ r.socket = exec[t].socket
        /\ r.stream = exec[t].stream /\ r.byteLength = exec[t].byteLength
    BY <1>1, <1>2 DEF ExecRecords
  <2>2. Becomes(t, s) /\ exec[t].socket \in {"connected", "failed"}
    BY <1>1, <1>4 DEF RequestTimeout, Consistent, TimerPart
  <2> HIDE DEF r
  <2>3. /\ Settled(s, r, "HTTP_REQUEST_TIMEOUT", "request")
        /\ s.termination = "request-timeout" /\ s.destroyed
    BY <2>1, TerminatePending DEF HttpCodes
  <2> HIDE DEF s
  <2>4. Consistent(s, body[t])
    BY <1>1, <2>1, <2>2, <2>3
       DEF Settled, Consistent, CallPart, TimerPart, StreamPart, OutcomePart
  <2>5. Answering(t, s)
    BY <1>2, <2>3 DEF Settled, Answering, Contract!FailureCodes
  <2> QED BY <2>2, <2>3, <2>4, <2>5, BecomesAnswer DEF Settled
<1> QED BY <1>3, <1>4

(* markConnected() changes the two timers only, and arms the request timer *)
(* of a call that has not settled.                                         *)
LEMMA MarkConnectedTimers ==
    ASSUME NEW r \in ExecRecords
    PROVE  LET s == MarkConnected(r)
           IN  /\ s \in ExecRecords
               /\ s.call = r.call /\ s.outcome = r.outcome /\ s.phase = r.phase
               /\ s.termination = r.termination /\ s.destroyed = r.destroyed
               /\ s.listening = r.listening /\ s.responseStarted = r.responseStarted
               /\ s.socket = r.socket /\ s.stream = r.stream /\ s.byteLength = r.byteLength
               /\ s.connectTimer = "off"
               /\ s.requestTimer = "armed" => r.requestTimer = "armed" \/ r.call # "settled"
BY DEF MarkConnected, ExecRecords

(* The socket connects, or the response arrives: no call settles.          *)
LEMMA ProgressKept ==
    ASSUME IInv, NEW t \in Targets, Connected(t) \/ ReceiveResponse(t)
    PROVE  IInv' /\ ContractStep
<1>1. exec[t] \in ExecRecords /\ Consistent(exec[t], body[t])
  BY DEF IInv, TypeOK
<1> DEFINE Advanced(r) == 
              /\ r \in ExecRecords
              /\ r.call = exec[t].call /\ r.outcome = exec[t].outcome /\ r.phase = exec[t].phase
              /\ r.termination = exec[t].termination /\ r.destroyed = exec[t].destroyed
              /\ r.listening = exec[t].listening /\ r.byteLength = exec[t].byteLength
              /\ r.requestTimer = exec[t].requestTimer
              /\ r.socket = "connected"
              /\ \/ /\ exec[t].socket = "opening" /\ r.stream = exec[t].stream
                    /\ r.responseStarted = exec[t].responseStarted
                 \/ /\ exec[t].socket = "connected" /\ exec[t].stream = "none"
                    /\ r.stream = "open" /\ r.responseStarted = TRUE
<1>2. ASSUME NEW r, Advanced(r), ~exec[t].destroyed, Becomes(t, MarkConnected(r))
      PROVE  IInv' /\ ContractStep
  <2> DEFINE s == MarkConnected(r)
  <2>1. /\ s \in ExecRecords
        /\ s.call = r.call /\ s.outcome = r.outcome /\ s.phase = r.phase
        /\ s.termination = r.termination /\ s.destroyed = r.destroyed
        /\ s.listening = r.listening /\ s.responseStarted = r.responseStarted
        /\ s.socket = r.socket /\ s.stream = r.stream /\ s.byteLength = r.byteLength
        /\ s.connectTimer = "off"
        /\ s.requestTimer = "armed" => r.requestTimer = "armed" \/ r.call # "settled"
    BY <1>2, MarkConnectedTimers
  <2>2. exec[t].call \in {"pending", "settled"}
    BY <1>1, <1>2 DEF Consistent, CallPart, NotCalled, ExecRecords
  <2> HIDE DEF s
  <2>3. Consistent(s, body[t])
    BY <1>1, <1>2, <2>1, <2>2 DEF Consistent, CallPart, TimerPart, StreamPart, OutcomePart
  <2>4. Answering(t, s)
    BY <1>2, <2>1 DEF Answering
  <2> QED BY <1>2, <2>1, <2>3, <2>4, BecomesAnswer DEF s
<1>3. CASE Connected(t)
  BY <1>1, <1>2, <1>3 DEF Connected, ExecRecords
<1>4. CASE ReceiveResponse(t)
  <2> DEFINE r == [exec[t] EXCEPT !.responseStarted = TRUE, !.stream = "open"]
  <2>1. Advanced(r)
    BY <1>1, <1>4 DEF ReceiveResponse, ExecRecords
  <2> QED BY <1>2, <1>4, <2>1 DEF ReceiveResponse
<1> QED BY <1>3, <1>4

(* An error of the socket, for a pending call or a late one.               *)
LEMMA RequestErrorKept ==
    ASSUME IInv, NEW t \in Targets, RequestError(t) PROVE IInv' /\ ContractStep
<1>1. exec[t] \in ExecRecords /\ Consistent(exec[t], body[t])
  BY DEF IInv, TypeOK
<1> DEFINE r == [exec[t] EXCEPT !.socket = "failed"]
           phase == IF r.responseStarted THEN "request" ELSE "startup"
<1>2. /\ r \in ExecRecords /\ r.socket = "failed"
      /\ r.call = exec[t].call /\ r.outcome = exec[t].outcome /\ r.phase = exec[t].phase
      /\ r.termination = exec[t].termination /\ r.destroyed = exec[t].destroyed
      /\ r.listening = exec[t].listening /\ r.responseStarted = exec[t].responseStarted
      /\ r.connectTimer = exec[t].connectTimer /\ r.requestTimer = exec[t].requestTimer
      /\ r.stream = exec[t].stream /\ r.byteLength = exec[t].byteLength
  BY <1>1 DEF ExecRecords
<1>3. PICK unavailable \in {FALSE, ~exec[t].responseStarted} :
         Becomes(t, IF r.termination # "none" THEN r
                    ELSE Settle(r, IF unavailable THEN "HTTP_TARGET_UNAVAILABLE"
                                                  ELSE "HTTP_TRANSPORT_ERROR", phase))
  BY DEF RequestError
<1> DEFINE code == IF unavailable THEN "HTTP_TARGET_UNAVAILABLE" ELSE "HTTP_TRANSPORT_ERROR"
<1>4. /\ code \in HttpCodes /\ code \in {"HTTP_TARGET_UNAVAILABLE", "HTTP_TRANSPORT_ERROR"}
      /\ code = "HTTP_TARGET_UNAVAILABLE" => ~exec[t].responseStarted
      /\ phase \in {"request", "startup"} /\ (phase = "startup" => ~r.responseStarted)
  BY DEF HttpCodes
<1> HIDE DEF r, phase
<1>5. CASE exec[t].call = "settled"
  <2>1. Becomes(t, r)
    BY <1>2, <1>3, <1>5 DEF Settle
  <2>2. exec[t].socket \in {"opening", "connected"}
    BY DEF RequestError
  <2>3. Consistent(r, body[t])
    BY <1>1, <1>2, <1>5, <2>2 DEF Consistent, CallPart, TimerPart, StreamPart, OutcomePart
  <2>4. Answering(t, r)
    BY <1>2 DEF Answering
  <2> QED BY <1>2, <2>1, <2>3, <2>4, BecomesAnswer
<1>6. CASE exec[t].call = "pending"
  <2> DEFINE s == Settle(r, code, phase)
  <2>1. Becomes(t, s)
    BY <1>1, <1>2, <1>3, <1>6 DEF Consistent, CallPart
  <2> HIDE DEF code
  <2>2. Settled(s, r, code, phase) /\ s.termination = r.termination /\ s.destroyed = r.destroyed
    BY <1>2, <1>4, <1>6, SettleOnce
  <2> HIDE DEF s
  <2>3. Consistent(s, body[t])
    BY <1>1, <1>2, <1>4, <1>6, <2>2
       DEF Settled, Consistent, CallPart, TimerPart, StreamPart, OutcomePart
  <2>4. Answering(t, s)
    BY <1>4, <1>6, <2>2 DEF Settled, Answering, Contract!FailureCodes
  <2> QED BY <2>1, <2>2, <2>3, <2>4, BecomesAnswer DEF Settled
<1>7. exec[t].call # "idle"
  BY <1>1 DEF RequestError, Consistent, CallPart, NotCalled
<1> QED BY <1>1, <1>5, <1>6, <1>7 DEF ExecRecords

(* The response breaks off, or ends: a pending call settles, with the      *)
(* whole body or with a failure; for a settled one only the stream is over.*)
LEMMA ResponseOverKept ==
    ASSUME IInv, NEW t \in Targets, ResponseCut(t) \/ ResponseEnd(t)
    PROVE  IInv' /\ ContractStep
<1>1. exec[t] \in ExecRecords /\ Consistent(exec[t], body[t])
  BY DEF IInv, TypeOK
<1> DEFINE over(stream) == [exec[t] EXCEPT !.stream = stream]
<1>2. ASSUME NEW stream \in {"ended", "cut"}
      PROVE  LET r == over(stream)
             IN  /\ r \in ExecRecords /\ r.stream = stream
                 /\ r.call = exec[t].call /\ r.outcome = exec[t].outcome
                 /\ r.phase = exec[t].phase /\ r.termination = exec[t].termination
                 /\ r.destroyed = exec[t].destroyed /\ r.listening = exec[t].listening
                 /\ r.responseStarted = exec[t].responseStarted
                 /\ r.connectTimer = exec[t].connectTimer
                 /\ r.requestTimer = exec[t].requestTimer
                 /\ r.socket = exec[t].socket /\ r.byteLength = exec[t].byteLength
  BY <1>1 DEF ExecRecords
<1>3. exec[t].stream = "open" /\ exec[t].call # "idle"
  BY <1>1 DEF ResponseCut, ResponseEnd, Consistent, CallPart, NotCalled
<1>4. CASE exec[t].call = "settled"
  <2>1. PICK stream \in {"ended", "cut"} : Becomes(t, over(stream))
    BY <1>2, <1>4 DEF ResponseCut, ResponseEnd, Settle
  <2> DEFINE r == over(stream)
  <2>2. Consistent(r, body[t])
    BY <1>1, <1>2, <1>3, <1>4 DEF Consistent, CallPart, TimerPart, StreamPart, OutcomePart
  <2>3. Answering(t, r)
    BY <1>2 DEF Answering
  <2> QED BY <1>2, <2>1, <2>2, <2>3, BecomesAnswer
<1>5. CASE exec[t].call = "pending"
  <2>1. PICK stream \in {"ended", "cut"}, outcome \in {"OK", "HTTP_TRANSPORT_ERROR"},
             phase \in {"none", "request"} :
           /\ Becomes(t, Settle(over(stream), outcome, phase))
           /\ outcome = "OK" => /\ stream = "ended"
                                /\ exec[t].byteLength = body[t] \/ exec[t].destroyed
    <3>1. exec[t].termination = "none"
      BY <1>1, <1>5 DEF Consistent, CallPart
    <3> HIDE DEF over
    <3>2. CASE ResponseCut(t)
      BY <1>2, <3>1, <3>2 DEF ResponseCut, over
    <3>3. CASE ResponseEnd(t)
      BY <3>3 DEF ResponseEnd, over
    <3> QED BY <3>2, <3>3
  <2> DEFINE r == over(stream)
             s == Settle(r, outcome, phase)
  <2> HIDE DEF over
  <2>2. Settled(s, r, outcome, phase) /\ s.termination = r.termination /\ s.destroyed = r.destroyed
    <3>1. r \in ExecRecords /\ r.call # "settled" /\ outcome \in {"OK"} \cup HttpCodes
      BY <1>2, <1>5 DEF HttpCodes
    <3> HIDE DEF r
    <3> QED BY <3>1, SettleOnce
  <2>3. Becomes(t, s)
    BY <2>1
  <2> HIDE DEF s
  <2>4. Consistent(s, body[t])
    BY <1>1, <1>2, <1>3, <1>5, <2>1, <2>2
       DEF Settled, Consistent, CallPart, TimerPart, StreamPart, OutcomePart
  <2>5. Answering(t, s)
    BY <1>5, <2>2 DEF Settled, Answering, Contract!FailureCodes
  <2> QED BY <2>2, <2>3, <2>4, <2>5, BecomesAnswer DEF Settled
<1> QED BY <1>1, <1>3, <1>4, <1>5 DEF ExecRecords

(* A chunk of the body of a pending call.                                  *)
LEMMA DataKept == ASSUME IInv, NEW t \in Targets, Data(t) PROVE IInv' /\ ContractStep
<1>1. exec[t] \in ExecRecords /\ Consistent(exec[t], body[t]) /\ body[t] \in Nat
  BY HttpExecutionAssumption DEF IInv, TypeOK
<1>2. PICK size \in 1 .. body[t] - exec[t].byteLength :
         LET r == [exec[t] EXCEPT !.byteLength = @ + size]
         IN  Becomes(t, IF TooLarge(r)
                        THEN TerminateWith(r, "too-large", "HTTP_RESPONSE_TOO_LARGE", "request")
                        ELSE r)
  BY DEF Data
<1> DEFINE r == [exec[t] EXCEPT !.byteLength = @ + size]
<1>3. exec[t].byteLength \in Nat /\ size \in Nat /\ exec[t].byteLength + size <= body[t]
  BY <1>1, <1>2 DEF ExecRecords
<1>4. /\ r \in ExecRecords /\ r.byteLength \in Nat /\ r.byteLength <= body[t]
      /\ r.call = exec[t].call /\ r.outcome = exec[t].outcome /\ r.phase = exec[t].phase
      /\ r.termination = exec[t].termination /\ r.destroyed = exec[t].destroyed
      /\ r.listening = exec[t].listening /\ r.responseStarted = exec[t].responseStarted
      /\ r.connectTimer = exec[t].connectTimer /\ r.requestTimer = exec[t].requestTimer
      /\ r.socket = exec[t].socket /\ r.stream = exec[t].stream
  BY <1>1, <1>3 DEF ExecRecords
<1>5. exec[t].call = "pending" /\ exec[t].stream = "open"
  BY DEF Data
<1> HIDE DEF r
<1> USE HttpExecutionAssumption
<1>6. CASE TooLarge(r)
  <2> DEFINE s == TerminateWith(r, "too-large", "HTTP_RESPONSE_TOO_LARGE", "request")
  <2>1. Becomes(t, s)
    BY <1>2, <1>6 DEF r
  <2>2. /\ Settled(s, r, "HTTP_RESPONSE_TOO_LARGE", "request")
        /\ s.termination = "too-large" /\ s.destroyed
    BY <1>4, <1>5, TerminatePending DEF HttpCodes
  <2> HIDE DEF s
  <2>3. Consistent(s, body[t])
    BY <1>1, <1>4, <1>5, <1>6, <2>2
       DEF Settled, Consistent, CallPart, TimerPart, StreamPart, OutcomePart, TooLarge
  <2>4. Answering(t, s)
    BY <1>5, <2>2 DEF Settled, Answering, Contract!FailureCodes
  <2> QED BY <2>1, <2>2, <2>3, <2>4, BecomesAnswer DEF Settled
<1>7. CASE ~TooLarge(r)
  <2>1. Becomes(t, r)
    BY <1>2, <1>7 DEF r
  <2>2. Consistent(r, body[t])
    BY <1>1, <1>4, <1>5, <1>7
       DEF Consistent, CallPart, TimerPart, StreamPart, OutcomePart, TooLarge
  <2>3. Answering(t, r)
    BY <1>4 DEF Answering
  <2> QED BY <1>4, <2>1, <2>2, <2>3, BecomesAnswer
<1> QED BY <1>6, <1>7

LEMMA StepKept == IInv /\ [Next]_vars => IInv' /\ ContractStep
<1> SUFFICES ASSUME IInv, [Next]_vars PROVE IInv' /\ ContractStep
  OBVIOUS
<1>1. CASE Next
  BY <1>1, AbortKept, SendKept, TimeoutKept, ProgressKept, RequestErrorKept, ResponseOverKept,
     DataKept DEF Next
<1>2. CASE UNCHANGED vars
  BY <1>2 DEF vars, IInv, TypeOK, ContractStep, Contract!httpVars
<1> QED BY <1>1, <1>2

LEMMA InductiveInvariant == Spec => []IInv
BY InitConsistent, StepKept, PTL DEF Spec

-----------------------------------------------------------------------------
(* The theorems                                                            *)

(* Every state of the calls, of the network and of the target has its type.*)
THEOREM TypeCorrect == Spec => []TypeOK
BY InductiveInvariant, PTL DEF IInv

(* An observation holds the complete body, at most Limit bytes of it, of a *)
(* response that ended normally (execute.ts:160-242), for every limit and  *)
(* body length.                                                            *)
THEOREM ObservationCorrect == Spec => []ObservationIsWhole
<1>1. IInv => ObservationIsWhole
  BY DEF IInv, ObservationIsWhole, Consistent, OutcomePart
<1> QED BY InductiveInvariant, <1>1, PTL

(* Whichever event settles a call, no timer stays armed and no listener    *)
(* stays registered (execute.ts:98-111).                                   *)
THEOREM CleanupCorrect == Spec => []NothingLeftBehind
<1>1. IInv => NothingLeftBehind
  BY DEF IInv, NothingLeftBehind, Consistent, CallPart, TimerPart
<1> QED BY InductiveInvariant, <1>1, PTL

(* A failure tells where the exchange broke off, whatever events follow it *)
(* (execute.ts:113-158).                                                   *)
THEOREM FailureCorrect == Spec => []FailureIsTruthful
<1>1. IInv => FailureIsTruthful
  BY DEF IInv, FailureIsTruthful, Consistent, OutcomePart
<1> QED BY InductiveInvariant, <1>1, PTL

(* The calls, with their sockets, streams and timers, keep the contract    *)
(* VerifyScenario sends its requests through: each is answered once, with  *)
(* an observation or one typed failure, and an abort answers all the       *)
(* pending ones at once.                                                   *)
THEOREM ContractImplemented == Spec => ImplementsContract
<1>1. Init => Contract!HttpInit
  BY DEF Init, Contract!HttpInit, NotCalled
<1>2. IInv /\ [Next]_vars => [Contract!HttpNext]_(Contract!httpVars)
  BY StepKept DEF ContractStep
<1> QED BY InductiveInvariant, <1>1, <1>2, PTL DEF Spec, ImplementsContract, Contract!HttpSpec
=============================================================================
