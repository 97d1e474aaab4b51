---------------------------- MODULE HttpContract ----------------------------
(***************************************************************************)
(* What the calls of executeHttpRequest (replay-http/src/execute.ts)       *)
(* promise their caller: one call per target, each settled once with an    *)
(* observation or one typed failure, and an abort of the shared signal     *)
(* that settles every pending call at once, in the same step.              *)
(*                                                                         *)
(* HttpExecution keeps this contract with sockets and timers;              *)
(* VerifyScenario sends its two requests through it.                       *)
(***************************************************************************)

CONSTANT Targets

VARIABLES aborted,   \* options.signal.aborted
          request,   \* request[t], the promise: "idle", "pending" or "settled"
          answer     \* answer[t]: "none", "OK" for an observation, or a failure code

httpVars == <<aborted, request, answer>>

(* The failures a pending request may end with by itself.                  *)
FailureCodes ==
    {"HTTP_CONNECT_TIMEOUT", "HTTP_REQUEST_TIMEOUT", "HTTP_RESPONSE_TOO_LARGE",
     "HTTP_TARGET_UNAVAILABLE", "HTTP_TRANSPORT_ERROR"}

HttpCodes == FailureCodes \cup {"HTTP_REQUEST_ABORTED", "HTTP_TARGET_INVALID"}

HttpTypeOK ==
    /\ aborted \in BOOLEAN
    /\ request \in [Targets -> {"idle", "pending", "settled"}]
    /\ answer \in [Targets -> {"none", "OK"} \cup HttpCodes]

HttpInit ==
    /\ aborted \in BOOLEAN
    /\ request = [t \in Targets |-> "idle"]
    /\ answer = [t \in Targets |-> "none"]

(* A target that cannot be addressed is reported before an aborted signal  *)
(* is; any other request is sent unless the signal is aborted.             *)
Started(t, first) ==
    \/ first = "HTTP_TARGET_INVALID"
    \/ aborted /\ first = "HTTP_REQUEST_ABORTED"
    \/ ~aborted /\ first = "none"

(* The calls for the targets in S, made in one synchronous stretch.        *)
Send(S) ==
    /\ \A t \in S : request[t] = "idle"
    /\ \E first \in [S -> {"none", "HTTP_TARGET_INVALID", "HTTP_REQUEST_ABORTED"}] :
         /\ \A t \in S : Started(t, first[t])
         /\ request' = [t \in Targets |-> IF t \notin S THEN request[t]
                                          ELSE IF first[t] = "none" THEN "pending"
                                          ELSE "settled"]
         /\ answer' = [t \in Targets |-> IF t \in S THEN first[t] ELSE answer[t]]
    /\ UNCHANGED aborted

Answer(t, result) ==
    /\ request[t] = "pending"
    /\ request' = [request EXCEPT ![t] = "settled"]
    /\ answer' = [answer EXCEPT ![t] = result]
    /\ UNCHANGED aborted

AbortAll ==
    /\ ~aborted
    /\ aborted' = TRUE
    /\ request' = [t \in Targets |-> IF request[t] = "pending" THEN "settled" ELSE request[t]]
    /\ answer' = [t \in Targets |-> IF request[t] = "pending" THEN "HTTP_REQUEST_ABORTED"
                                                              ELSE answer[t]]

HttpNext ==
    \/ \E S \in SUBSET Targets : Send(S)
    \/ \E t \in Targets, result \in {"OK"} \cup FailureCodes : Answer(t, result)
    \/ AbortAll

HttpSpec == HttpInit /\ [][HttpNext]_httpVars
=============================================================================
