--------------------------- MODULE EvidencePayload ---------------------------
(***************************************************************************)
(* createVerificationEvidencePayload (orchestrator/src/verification-       *)
(* evidence.ts): from the results of the scenarios and the comparisons of  *)
(* their observations to the state and the coverage of the evidence.       *)
(***************************************************************************)
EXTENDS Naturals, Sequences, FiniteSets

CONSTANT Targets

ComparisonStates == {"pass", "advisory", "fail"}
States == ComparisonStates \cup {"incomplete"}

(* Faulty: a difference found counts for more than a scenario without an   *)
(* answer.                                                                 *)
StateRankFailFirst == [pass |-> 0, advisory |-> 1, incomplete |-> 2, fail |-> 3]

StateRank == [pass |-> 0, advisory |-> 1, fail |-> 2, incomplete |-> 3]

(* A result is compared if it is complete and both observations are there. *)
Comparable(result) == result.status = "complete" /\ result.observed = Targets

ResultState(result, comparison) == IF Comparable(result) THEN comparison ELSE "incomplete"

(* The worst of the states, "pass" if there is none.                       *)
AggregateState(states) ==
    CHOOSE s \in {"pass"} \cup states :
        \A t \in {"pass"} \cup states : StateRank[t] <= StateRank[s]

(* comparisons[i] is what comparing the observations of result i yields.   *)
Payload(results, comparisons) ==
    LET completed == {i \in DOMAIN results : results[i].status = "complete"}
        state == [i \in DOMAIN results |-> ResultState(results[i], comparisons[i])]
    IN  [state     |-> AggregateState({state[i] : i \in DOMAIN results}),
         results   |-> state,
         selected  |-> Len(results),
         completed |-> Cardinality(completed),
         skipped   |-> DOMAIN results \ completed]
=============================================================================
