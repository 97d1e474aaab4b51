--------------------------- MODULE VerifyRunProofs ---------------------------
(***************************************************************************)
(* Theorems about VerifyRun for any number of selected scenarios and any   *)
(* set of targets.                                                         *)
(***************************************************************************)
EXTENDS VerifyRun, FiniteSetTheorems, TLAPS

Verdicts == [status : {"complete", "incomplete"}, observed : SUBSET Targets]

(* The call of verifyScenario under way, and those before it.              *)
CallInv ==
    /\ stopped \in BOOLEAN /\ effects \in BOOLEAN /\ sound \in BOOLEAN
    /\ stage \in {"waiting", "running", "returned"}
    /\ status \in (IF stage = "returned" THEN {"complete", "incomplete"} ELSE {"none"})
    /\ observed \in SUBSET Targets
    /\ status = "complete" => observed = Targets
    /\ stage = "running" /\ stopped => ~sound
    /\ pc = "verifying" => (stopped <=> aborted)

ResultsInv ==
    /\ results \in Seq(Verdicts)
    /\ Len(results) <= NScenarios
    /\ \A i \in DOMAIN results : results[i].status = "complete" => results[i].observed = Targets
    /\ pc \in {"start", "loading", "verifying"} => Len(results) < NScenarios

(* What the payload says once it has been created.                         *)
PayloadAgrees ==
    /\ Len(results) = NScenarios
    /\ evidence.state \in States
    /\ evidence.selected = NScenarios
    /\ evidence.state = "incomplete" <=> evidence.completed < evidence.selected
    /\ evidence.skipped = {i \in DOMAIN results : evidence.results[i] = "incomplete"}
    /\ evidence.state # "incomplete" => AllComplete

EvidenceInv ==
    /\ evidence = NoEvidence \/ evidence.state \in States
    /\ pc = "writing" \/ file = Run => PayloadAgrees
    /\ file = Run => pc \in {"writing", "settled", "exited", "killed"}

FileInv ==
    /\ creators = {} /\ installed \subseteq {Run}
    /\ file \in {NoFile, "old", Run}
    /\ file = Run <=> Run \in installed
    /\ report \in [{Run} -> {"none", "ok", "failed", "aborted"}]

(* What the outcome of the command stands for.                             *)
OutcomeInv ==
    /\ outcome \in DOMAIN ExitCodes \cup {"none"}
    /\ outcome = "none" <=> pc \in {"start", "loading", "verifying", "writing", "killed"}
    /\ outcome \in {"success", "behavioralFailure", "incomplete"} =>
          file = Run /\ outcome = Outcome(evidence.state)
    /\ outcome \in {"invalidInput", "infrastructureFailure"} => file # Run

ProcessInv ==
    /\ pc \in {"start", "loading", "verifying", "writing", "settled", "exited", "killed"}
    /\ listeners \subseteq Signals
    /\ aborted \in BOOLEAN
    /\ exitCode = IF pc = "exited" THEN ExitCodes[FinalOutcome] ELSE Unset

IInv == CallInv /\ ResultsInv /\ EvidenceInv /\ FileInv /\ OutcomeInv /\ ProcessInv

-----------------------------------------------------------------------------
(* The payload                                                             *)

(* Some state of a nonempty set of states is at least as bad as the rest.  *)
LEMMA WorstExists ==
    ASSUME NEW S \in SUBSET States, S # {}
    PROVE  \E s \in S : \A t \in S : StateRank[t] <= StateRank[s]
<1>1. /\ StateRank["pass"] = 0 /\ StateRank["advisory"] = 1
      /\ StateRank["fail"] = 2 /\ StateRank["incomplete"] = 3
  BY DEF StateRank
<1>2. \A s \in S : s \in {"pass", "advisory", "fail", "incomplete"}
  BY DEF States, ComparisonStates
<1>3. CASE "incomplete" \in S
  BY <1>1, <1>2, <1>3
<1>4. CASE "incomplete" \notin S /\ "fail" \in S
  BY <1>1, <1>2, <1>4
<1>5. CASE "incomplete" \notin S /\ "fail" \notin S /\ "advisory" \in S
  BY <1>1, <1>2, <1>5
<1>6. CASE "incomplete" \notin S /\ "fail" \notin S /\ "advisory" \notin S
  BY <1>1, <1>2, <1>6
<1> QED BY <1>3, <1>4, <1>5, <1>6

(* The aggregate state is one of the states and the worst of them, so it   *)
(* is incomplete exactly if one of them is.                                *)
LEMMA AggregateIncomplete ==
    ASSUME NEW S \in SUBSET States
    PROVE  /\ AggregateState(S) \in {"pass"} \cup S
           /\ AggregateState(S) = "incomplete" <=> "incomplete" \in S
<1> DEFINE T == {"pass"} \cup S
           worst == AggregateState(S)
<1>1. T \in SUBSET States /\ T # {}
  BY DEF States, ComparisonStates
<1>2. \E s \in T : \A t \in T : StateRank[t] <= StateRank[s]
  <2> HIDE DEF T
  <2> QED BY <1>1, WorstExists
<1>3. worst \in T /\ \A t \in T : StateRank[t] <= StateRank[worst]
  BY <1>2 DEF AggregateState
<1>4. /\ StateRank["pass"] = 0 /\ StateRank["advisory"] = 1
      /\ StateRank["fail"] = 2 /\ StateRank["incomplete"] = 3
  BY DEF StateRank
<1>5. worst \in {"pass", "advisory", "fail", "incomplete"}
  BY <1>1, <1>3 DEF States, ComparisonStates
<1>6. "incomplete" \in S => worst = "incomplete"
  <2> HIDE DEF worst
  <2> QED BY <1>3, <1>4, <1>5
<1> QED BY <1>3, <1>6

(* createVerificationEvidencePayload: the state, the coverage and the      *)
(* skipped checks agree.                                                   *)
LEMMA PayloadCorrect ==
    ASSUME NEW rs \in Seq(Verdicts),
           \A i \in DOMAIN rs : rs[i].status = "complete" => rs[i].observed = Targets,
           NEW comparisons \in [1 .. Len(rs) -> ComparisonStates]
    PROVE  LET payload == Payload(rs, comparisons) IN
           /\ payload.state \in States
           /\ payload.selected = Len(rs)
           /\ payload.state = "incomplete" <=> payload.completed < payload.selected
           /\ payload.skipped = {i \in DOMAIN rs : payload.results[i] = "incomplete"}
           /\ payload.state # "incomplete" => \A i \in DOMAIN rs : rs[i].status = "complete"
<1> DEFINE completed == {i \in DOMAIN rs : rs[i].status = "complete"}
           state == [i \in DOMAIN rs |-> ResultState(rs[i], comparisons[i])]
           S == {state[i] : i \in DOMAIN rs}
           payload == Payload(rs, comparisons)
<1>1. /\ payload.state = AggregateState(S) /\ payload.results = state
      /\ payload.selected = Len(rs) /\ payload.completed = Cardinality(completed)
      /\ payload.skipped = DOMAIN rs \ completed
  BY DEF Payload
<1>2. DOMAIN rs = 1 .. Len(rs) /\ Len(rs) \in Nat
  OBVIOUS
<1>3. \A i \in DOMAIN rs : /\ state[i] \in States
                           /\ state[i] = "incomplete" <=> rs[i].status # "complete"
  <2> SUFFICES ASSUME NEW i \in DOMAIN rs
               PROVE  /\ state[i] \in States
                      /\ state[i] = "incomplete" <=> rs[i].status # "complete"
    OBVIOUS
  <2>1. comparisons[i] \in ComparisonStates /\ comparisons[i] # "incomplete"
    BY <1>2 DEF ComparisonStates
  <2>2. state[i] = ResultState(rs[i], comparisons[i])
    OBVIOUS
  <2>3. Comparable(rs[i]) <=> rs[i].status = "complete"
    BY DEF Comparable
  <2> HIDE DEF state
  <2> QED BY <2>1, <2>2, <2>3 DEF ResultState, States
<1>4. S \in SUBSET States /\ ("incomplete" \in S <=> \E i \in DOMAIN rs : rs[i].status # "complete")
  <2> HIDE DEF state
  <2> QED BY <1>3
<1>5. /\ AggregateState(S) \in {"pass"} \cup S
      /\ AggregateState(S) = "incomplete" <=> "incomplete" \in S
  <2> HIDE DEF S
  <2> QED BY <1>4, AggregateIncomplete
<1>6. payload.state \in States
  <2> HIDE DEF S, payload
  <2> QED BY <1>1, <1>4, <1>5 DEF States, ComparisonStates
<1>7. payload.completed < payload.selected <=> \E i \in DOMAIN rs : rs[i].status # "complete"
  <2>1. IsFiniteSet(DOMAIN rs) /\ Cardinality(DOMAIN rs) = Len(rs)
    <3>1. 1 \in Int /\ Len(rs) \in Int /\ (1 > Len(rs) => Len(rs) = 0)
      BY <1>2
    <3>2. /\ IsFiniteSet(1 .. Len(rs))
          /\ Cardinality(1 .. Len(rs)) = IF 1 > Len(rs) THEN 0 ELSE Len(rs) - 1 + 1
      BY <3>1, FS_Interval
    <3> QED BY <1>2, <3>1, <3>2
  <2>2. completed \subseteq DOMAIN rs
    OBVIOUS
  <2>3. /\ IsFiniteSet(completed) /\ Cardinality(completed) <= Len(rs)
        /\ Cardinality(DOMAIN rs) = Cardinality(completed) => completed = DOMAIN rs
    <3> HIDE DEF completed
    <3> QED BY <2>1, <2>2, FS_Subset
  <2>4. Cardinality(completed) \in Nat
    <3> HIDE DEF completed
    <3> QED BY <2>3, FS_CardinalityType
  <2>5. completed = DOMAIN rs <=> ~\E i \in DOMAIN rs : rs[i].status # "complete"
    OBVIOUS
  <2> HIDE DEF completed, payload
  <2> QED BY <1>1, <1>2, <2>1, <2>3, <2>4, <2>5
<1>8. payload.skipped = {i \in DOMAIN rs : payload.results[i] = "incomplete"}
  <2> HIDE DEF state, payload
  <2> QED BY <1>1, <1>3
<1> HIDE DEF state, S, completed, payload
<1>9. payload.state # "incomplete" => \A i \in DOMAIN rs : rs[i].status = "complete"
  BY <1>1, <1>4, <1>5
<1>10. payload.state = "incomplete" <=> payload.completed < payload.selected
  BY <1>1, <1>4, <1>5, <1>7
<1> QED BY <1>1, <1>6, <1>8, <1>9, <1>10 DEF payload

-----------------------------------------------------------------------------
(* The steps                                                               *)

LEMMA CodesDiffer ==
    /\ ExitCodes["success"] = 0 /\ ExitCodes["behavioralFailure"] = 1
    /\ ExitCodes["invalidInput"] = 2 /\ ExitCodes["incomplete"] = 3
    /\ ExitCodes["infrastructureFailure"] = 4
    /\ DOMAIN ExitCodes = {"success", "behavioralFailure", "invalidInput", "incomplete",
                           "infrastructureFailure"}
  BY DEF ExitCodes

LEMMA InitCorrect == Init => IInv
<1> SUFFICES ASSUME Init
             PROVE  IInv
  OBVIOUS
<1> USE DEF Init
<1>1. CallInv
  BY DEF CallInv, Verification!ContractInit
<1>2. ResultsInv
  BY VerifyRunAssumption DEF ResultsInv
<1>3. EvidenceInv
  BY VerifyRunAssumption DEF EvidenceInv, Evidence!FileInit, Run
<1>4. FileInv
  BY VerifyRunAssumption DEF FileInv, Evidence!FileInit, Run
<1>5. OutcomeInv
  BY CodesDiffer DEF OutcomeInv
<1>6. ProcessInv
  BY DEF ProcessInv
<1> QED BY <1>1, <1>2, <1>3, <1>4, <1>5, <1>6 DEF IInv

LEMMA StartCorrect == ASSUME IInv, Start PROVE IInv'
<1> USE DEF Start, Settle, IInv, callVars, fileVars
<1>1. CallInv'
  BY DEF CallInv
<1>2. ResultsInv'
  BY DEF ResultsInv
<1>3. EvidenceInv' /\ file # Run
  BY DEF EvidenceInv, PayloadAgrees, AllComplete
<1>4. FileInv'
  BY DEF FileInv
<1>5. OutcomeInv'
  BY <1>3, CodesDiffer DEF OutcomeInv
<1>6. ProcessInv'
  BY DEF ProcessInv
<1> QED BY <1>1, <1>2, <1>3, <1>4, <1>5, <1>6

LEMMA LoadCorrect == ASSUME IInv, Load PROVE IInv'
<1> USE DEF Load, Settle, IInv, fileVars
<1>1. CallInv'
  <2>1. CASE pc' = "verifying" /\ Call
    BY <2>1 DEF CallInv, Call, Handed, ProcessInv
  <2>2. CASE pc' = "settled" /\ UNCHANGED callVars
    BY <2>2 DEF CallInv, callVars
  <2> QED BY <2>1, <2>2
<1>2. ResultsInv'
  BY DEF ResultsInv
<1>3. EvidenceInv' /\ file # Run
  BY DEF EvidenceInv, PayloadAgrees, AllComplete
<1>4. FileInv'
  BY DEF FileInv
<1>5. OutcomeInv'
  BY <1>3, CodesDiffer DEF OutcomeInv
<1>6. ProcessInv'
  BY DEF ProcessInv
<1> QED BY <1>1, <1>2, <1>3, <1>4, <1>5, <1>6

(* A step of the call alone.                                               *)
LEMMA OthersKept ==
    ASSUME IInv,
           UNCHANGED <<pc, listeners, aborted, results, evidence, fileVars, outcome, exitCode>>
    PROVE  ResultsInv' /\ EvidenceInv' /\ FileInv' /\ OutcomeInv' /\ ProcessInv'
<1> USE DEF IInv, fileVars
<1>1. ResultsInv'
  BY DEF ResultsInv
<1>2. EvidenceInv'
  BY DEF EvidenceInv, PayloadAgrees, AllComplete
<1>3. FileInv'
  BY DEF FileInv
<1>4. OutcomeInv'
  BY DEF OutcomeInv
<1>5. ProcessInv'
  BY DEF ProcessInv, FinalOutcome
<1> QED BY <1>1, <1>2, <1>3, <1>4, <1>5

LEMMA VerifyStepCorrect == ASSUME IInv, VerifyStep PROVE IInv'
<1>1. CallInv'
  <2>1. ASSUME Verification!Refuse PROVE CallInv'
    BY <2>1 DEF IInv, VerifyStep, CallInv, Verification!Refuse
  <2>2. ASSUME Verification!Begin PROVE CallInv'
    BY <2>2 DEF IInv, VerifyStep, CallInv, Verification!Begin
  <2>3. ASSUME Verification!Run PROVE CallInv'
    <3>1. /\ stage = "running" /\ effects' \in {effects, TRUE} /\ sound' \in {sound, FALSE}
          /\ stopped' = stopped /\ stage' = stage /\ status' = status /\ observed' = observed
          /\ pc' = pc /\ aborted' = aborted
      BY <2>3 DEF VerifyStep, Verification!Run
    <3>2. effects \in BOOLEAN /\ sound \in BOOLEAN /\ (stopped => ~sound)
      BY <3>1 DEF IInv, CallInv
    <3>3. effects' \in BOOLEAN
      BY <3>1, <3>2
    <3>4. sound' \in BOOLEAN /\ (stopped => ~sound')
      <4>1. CASE sound' = sound
        BY <3>2, <4>1, Zenon
      <4>2. CASE sound' = FALSE
        BY <4>2
      <4> QED BY <3>1, <4>1, <4>2
    <3> QED BY <3>1, <3>3, <3>4 DEF IInv, CallInv
  <2> QED BY <2>1, <2>2, <2>3 DEF VerifyStep
<1>2. UNCHANGED <<pc, listeners, aborted, results, evidence, fileVars, outcome, exitCode>>
  BY DEF VerifyStep
<1> QED BY <1>1, <1>2, OthersKept DEF IInv

LEMMA VerifyReturnCorrect == ASSUME IInv, VerifyReturn PROVE IInv'
<1>1. CallInv'
  BY DEF IInv, VerifyReturn, CallInv, Verification!Return
<1>2. UNCHANGED <<pc, listeners, aborted, results, evidence, fileVars, outcome, exitCode>>
  BY DEF VerifyReturn
<1> QED BY <1>1, <1>2, OthersKept DEF IInv

(* The results with the one of the call that has returned.                 *)
LEMMA CollectedCorrect ==
    ASSUME IInv, stage = "returned", pc = "verifying"
    PROVE  /\ Collected \in Seq(Verdicts)
           /\ Len(Collected) = Len(results) + 1
           /\ Len(Collected) <= NScenarios
           /\ \A i \in DOMAIN Collected :
                  Collected[i].status = "complete" => Collected[i].observed = Targets
<1> DEFINE verdict == [status |-> status, observed |-> observed]
<1>1. /\ verdict \in Verdicts
      /\ verdict.status = "complete" => verdict.observed = Targets
  BY DEF IInv, CallInv, Verdicts
<1>2. Collected = Append(results, verdict)
  BY DEF Collected
<1>3. results \in Seq(Verdicts) /\ Len(results) < NScenarios
  BY DEF IInv, ResultsInv
<1> HIDE DEF verdict
<1>4. Collected \in Seq(Verdicts) /\ Len(Collected) = Len(results) + 1
  BY <1>1, <1>2, <1>3
<1>5. ASSUME NEW i \in DOMAIN Collected
      PROVE  \/ i \in DOMAIN results /\ Collected[i] = results[i]
             \/ Collected[i] = verdict
  BY <1>1, <1>2, <1>3
<1>6. \A i \in DOMAIN Collected :
          Collected[i].status = "complete" => Collected[i].observed = Targets
  BY <1>1, <1>5 DEF IInv, ResultsInv
<1> QED BY <1>3, <1>4, <1>6, VerifyRunAssumption

LEMMA NextScenarioCorrect == ASSUME IInv, NextScenario PROVE IInv'
<1>1. /\ pc = "verifying" /\ stage = "returned" /\ Len(Collected) < NScenarios
      /\ results' = Collected
      /\ UNCHANGED <<pc, listeners, aborted, evidence, file, outcome, exitCode>>
      /\ UNCHANGED <<creators, installed, report>>
  BY DEF NextScenario, fileVars
<1>2. CallInv'
  BY DEF IInv, CallInv, NextScenario, Call, Handed, ProcessInv
<1>3. ResultsInv'
  BY <1>1, CollectedCorrect DEF ResultsInv
<1>4. EvidenceInv'
  BY <1>1 DEF IInv, EvidenceInv
<1>5. FileInv'
  BY <1>1 DEF IInv, FileInv
<1>6. OutcomeInv'
  BY <1>1 DEF IInv, OutcomeInv
<1>7. ProcessInv'
  BY <1>1 DEF IInv, ProcessInv
<1> QED BY <1>2, <1>3, <1>4, <1>5, <1>6, <1>7 DEF IInv

LEMMA CreateEvidenceCorrect == ASSUME IInv, CreateEvidence PROVE IInv'
<1>1. /\ pc = "verifying" /\ stage = "returned" /\ Len(Collected) = NScenarios
      /\ results' = Collected
      /\ UNCHANGED <<listeners, aborted, exitCode, stopped, stage, effects, sound, status>>
      /\ UNCHANGED <<observed, creators, file, installed, report>>
  BY DEF CreateEvidence, callVars, fileVars
<1>2. /\ Collected \in Seq(Verdicts)
      /\ \A i \in DOMAIN Collected :
             Collected[i].status = "complete" => Collected[i].observed = Targets
  BY <1>1, CollectedCorrect
<1>3. file # Run /\ outcome = "none"
  BY <1>1 DEF IInv, EvidenceInv, OutcomeInv
<1>4. CASE /\ \E comparisons \in [1 .. NScenarios -> ComparisonStates] :
                  evidence' = Payload(Collected, comparisons)
           /\ pc' = "writing" /\ UNCHANGED outcome
  <2>1. PICK comparisons \in [1 .. Len(Collected) -> ComparisonStates] :
            evidence' = Payload(Collected, comparisons)
    BY <1>1, <1>4
  <2>2. /\ evidence'.state \in States
        /\ evidence'.selected = Len(Collected)
        /\ evidence'.state = "incomplete" <=> evidence'.completed < evidence'.selected
        /\ evidence'.skipped = {i \in DOMAIN Collected : evidence'.results[i] = "incomplete"}
        /\ evidence'.state # "incomplete" =>
               \A i \in DOMAIN Collected : Collected[i].status = "complete"
    BY <1>2, <2>1, PayloadCorrect
  <2>3. PayloadAgrees'
    BY <1>1, <2>2 DEF PayloadAgrees, AllComplete
  <2>4. EvidenceInv'
    BY <1>1, <1>3, <2>2, <2>3 DEF EvidenceInv
  <2>5. CallInv'
    BY <1>1, <1>4 DEF IInv, CallInv
  <2>6. ResultsInv'
    BY <1>1, <1>2, <1>4, VerifyRunAssumption DEF ResultsInv
  <2>7. FileInv'
    BY <1>1 DEF IInv, FileInv
  <2>8. OutcomeInv'
    BY <1>1, <1>3, <1>4 DEF IInv, OutcomeInv
  <2>9. ProcessInv'
    BY <1>1, <1>4 DEF IInv, ProcessInv
  <2> QED BY <2>4, <2>5, <2>6, <2>7, <2>8, <2>9 DEF IInv
<1>5. CASE /\ outcome' \in {"invalidInput", "infrastructureFailure"}
           /\ pc' = "settled" /\ UNCHANGED evidence
  <2>1. CallInv'
    BY <1>1, <1>5 DEF IInv, CallInv
  <2>2. ResultsInv'
    BY <1>1, <1>2, <1>5, VerifyRunAssumption DEF ResultsInv
  <2>3. EvidenceInv'
    BY <1>1, <1>3, <1>5 DEF IInv, EvidenceInv
  <2>4. FileInv'
    BY <1>1 DEF IInv, FileInv
  <2>5. OutcomeInv'
    BY <1>1, <1>3, <1>5, CodesDiffer DEF IInv, OutcomeInv
  <2>6. ProcessInv'
    BY <1>1, <1>5 DEF IInv, ProcessInv
  <2> QED BY <2>1, <2>2, <2>3, <2>4, <2>5, <2>6 DEF IInv
<1> QED BY <1>4, <1>5 DEF CreateEvidence, Settle

LEMMA InstallCorrect == ASSUME IInv, Install PROVE IInv'
<1>1. /\ pc = "writing"
      /\ UNCHANGED <<pc, listeners, aborted, results, evidence, outcome, exitCode>>
      /\ UNCHANGED <<stopped, stage, effects, sound, status, observed, creators, report>>
      /\ file' = Run /\ installed' = installed \cup {Run}
  BY DEF Install, Evidence!Install, callVars
<1>2. CallInv'
  BY <1>1 DEF IInv, CallInv
<1>3. ResultsInv'
  BY <1>1 DEF IInv, ResultsInv
<1>4. EvidenceInv'
  <2>1. PayloadAgrees'
    BY <1>1 DEF IInv, EvidenceInv, PayloadAgrees, AllComplete
  <2> QED BY <1>1, <2>1 DEF IInv, EvidenceInv
<1>5. FileInv'
  BY <1>1, VerifyRunAssumption DEF IInv, FileInv
<1>6. OutcomeInv'
  BY <1>1 DEF IInv, OutcomeInv
<1>7. ProcessInv'
  BY <1>1 DEF IInv, ProcessInv
<1> QED BY <1>2, <1>3, <1>4, <1>5, <1>6, <1>7 DEF IInv

LEMMA OutcomeKnown ==
    \A state : Outcome(state) \in {"success", "behavioralFailure", "incomplete"}
  BY DEF Outcome

LEMMA WrittenCorrect == ASSUME IInv, Written PROVE IInv'
<1>1. /\ pc = "writing" /\ pc' = "settled"
      /\ UNCHANGED <<listeners, aborted, results, evidence, exitCode>>
      /\ UNCHANGED <<stopped, stage, effects, sound, status, observed>>
      /\ UNCHANGED <<creators, file, installed>>
      /\ outcome' = IF report'[Run] = "ok" THEN Outcome(evidence.state)
                                           ELSE "infrastructureFailure"
  BY DEF Written, Settle, Evidence!Report, callVars
<1>2. /\ report' \in [{Run} -> {"none", "ok", "failed", "aborted"}]
      /\ report'[Run] = "ok" => Run \in installed
      /\ report'[Run] # "ok" => Run \notin installed
  <2>1. report \in [{Run} -> {"none", "ok", "failed", "aborted"}]
    BY DEF IInv, FileInv
  <2>2. CASE Run \in installed /\ report' = [report EXCEPT ![Run] = "ok"]
    BY <2>1, <2>2
  <2>3. CASE Run \notin installed /\ \E why \in {"failed", "aborted"} :
                 report' = [report EXCEPT ![Run] = why]
    BY <2>1, <2>3
  <2>4. ~(report' = [report EXCEPT ![Run] = "exists"])
    BY <2>1 DEF Written
  <2> QED BY <2>2, <2>3, <2>4 DEF Written, Evidence!Report
<1>3. CallInv'
  BY <1>1 DEF IInv, CallInv
<1>4. ResultsInv'
  BY <1>1 DEF IInv, ResultsInv
<1>5. EvidenceInv'
  BY <1>1 DEF IInv, EvidenceInv, PayloadAgrees, AllComplete
<1>6. FileInv'
  BY <1>1, <1>2 DEF IInv, FileInv
<1>7. OutcomeInv'
  <2>1. CASE report'[Run] = "ok"
    <3>1. file = Run /\ outcome' = Outcome(evidence.state)
      BY <1>1, <1>2, <2>1 DEF IInv, FileInv
    <3>2. outcome' \in {"success", "behavioralFailure", "incomplete"}
      BY <3>1, OutcomeKnown
    <3> QED BY <1>1, <3>1, <3>2, CodesDiffer DEF OutcomeInv
  <2>2. CASE report'[Run] # "ok"
    BY <1>1, <1>2, <2>2, CodesDiffer DEF IInv, FileInv, OutcomeInv
  <2> QED BY <2>1, <2>2
<1>8. ProcessInv'
  BY <1>1 DEF IInv, ProcessInv
<1> QED BY <1>3, <1>4, <1>5, <1>6, <1>7, <1>8 DEF IInv

LEMMA ExitCorrect == ASSUME IInv, Exit PROVE IInv'
<1>1. /\ pc = "settled" /\ pc' = "exited" /\ listeners' = {}
      /\ exitCode' = ExitCodes[FinalOutcome]
      /\ UNCHANGED <<aborted, results, evidence, outcome>>
      /\ UNCHANGED <<stopped, stage, effects, sound, status, observed>>
      /\ UNCHANGED <<creators, file, installed, report>>
  BY DEF Exit, callVars, fileVars
<1>2. CallInv'
  BY <1>1 DEF IInv, CallInv
<1>3. ResultsInv'
  BY <1>1 DEF IInv, ResultsInv
<1>4. EvidenceInv'
  BY <1>1 DEF IInv, EvidenceInv, PayloadAgrees, AllComplete
<1>5. FileInv'
  BY <1>1 DEF IInv, FileInv
<1>6. OutcomeInv'
  BY <1>1 DEF IInv, OutcomeInv
<1>7. ProcessInv'
  BY <1>1 DEF IInv, ProcessInv, FinalOutcome
<1> QED BY <1>2, <1>3, <1>4, <1>5, <1>6, <1>7 DEF IInv

LEMMA SignalCorrect == ASSUME IInv, NEW s \in Signals, Signal(s) PROVE IInv'
<1>1. /\ pc \in {"loading", "writing", "verifying"}
      /\ pc = "verifying" => stage = "running"
      /\ UNCHANGED <<results, evidence, creators, file, installed, report, outcome, exitCode>>
  BY DEF Signal, Awaiting, fileVars
<1>2. CallInv'
  <2>1. CASE s \in listeners /\ pc = "verifying" /\ ~stopped
    <3>1. /\ stopped' = TRUE /\ aborted' = TRUE /\ pc' = pc /\ sound' = FALSE
          /\ UNCHANGED <<stage, effects, status, observed>>
      BY <1>1, <2>1 DEF Signal, Handed, Verification!Stop
    <3> QED BY <3>1 DEF IInv, CallInv
  <2>2. CASE s \in listeners /\ ~(pc = "verifying" /\ ~stopped)
    BY <1>1, <2>2 DEF Signal, Handed, callVars, IInv, CallInv
  <2>3. CASE s \notin listeners
    BY <1>1, <2>3 DEF Signal, callVars, IInv, CallInv
  <2> QED BY <2>1, <2>2, <2>3
<1>3. /\ pc' = pc \/ pc' = "killed"
      /\ listeners' \subseteq Signals /\ aborted' \in BOOLEAN
  BY DEF Signal, IInv, ProcessInv
<1>4. ResultsInv'
  BY <1>1, <1>3 DEF IInv, ResultsInv
<1>5. EvidenceInv'
  BY <1>1, <1>3 DEF IInv, EvidenceInv, PayloadAgrees, AllComplete
<1>6. FileInv'
  BY <1>1 DEF IInv, FileInv
<1>7. OutcomeInv'
  BY <1>1, <1>3 DEF IInv, OutcomeInv
<1>8. ProcessInv'
  BY <1>1, <1>3 DEF IInv, ProcessInv
<1> QED BY <1>2, <1>4, <1>5, <1>6, <1>7, <1>8 DEF IInv

LEMMA StutterCorrect == ASSUME IInv, UNCHANGED vars PROVE IInv'
<1>1. CallInv'
  BY DEF IInv, CallInv, vars, callVars
<1>2. UNCHANGED <<pc, listeners, aborted, results, evidence, fileVars, outcome, exitCode>>
  BY DEF vars
<1> QED BY <1>1, <1>2, OthersKept DEF IInv

LEMMA StepCorrect == ASSUME IInv, [Next]_vars PROVE IInv'
<1>1. CASE Code
  BY <1>1, StartCorrect, LoadCorrect, NextScenarioCorrect, CreateEvidenceCorrect,
     InstallCorrect, WrittenCorrect, ExitCorrect DEF Code
<1>2. CASE VerifyStep \/ VerifyReturn
  BY <1>2, VerifyStepCorrect, VerifyReturnCorrect
<1>3. CASE \E s \in Signals : Signal(s)
  BY <1>3, SignalCorrect
<1>4. CASE UNCHANGED vars
  BY <1>4, StutterCorrect
<1> QED BY <1>1, <1>2, <1>3, <1>4 DEF Next

LEMMA InductiveInvariant == Spec => []IInv
  BY InitCorrect, StepCorrect, PTL DEF Spec

-----------------------------------------------------------------------------
(* The theorems                                                            *)

(* Every variable of the process keeps its type (TypeOK).                  *)
THEOREM TypeCorrect == Spec => []TypeOK
<1>1. IInv => TypeOK
  <2> SUFFICES ASSUME IInv
               PROVE  TypeOK
    OBVIOUS
  <2>1. \A i \in DOMAIN results : results[i] \in Verdicts
    BY DEF IInv, ResultsInv
  <2>2. exitCode \in 0 .. Unset
    <3>1. FinalOutcome \in DOMAIN ExitCodes \/ pc # "exited"
      BY CodesDiffer DEF IInv, OutcomeInv, FinalOutcome
    <3> QED BY <3>1, CodesDiffer DEF IInv, ProcessInv, Unset
  <2>3. evidence.state \in States \cup {"none"}
    BY DEF IInv, EvidenceInv, NoEvidence
  <2> QED BY <2>1, <2>2, <2>3
          DEF TypeOK, IInv, ResultsInv, OutcomeInv, ProcessInv, Verdicts
<1> QED BY <1>1, InductiveInvariant, PTL

(* The exit code says what happened, whatever was selected and whenever a  *)
(* signal came (ExitCodeIsTruthful).                                       *)
THEOREM ExitCodeCorrect == Spec => []ExitCodeIsTruthful
<1>1. ASSUME IInv, Exited
      PROVE  /\ exitCode \in 0 .. 4
             /\ exitCode \in {0, 1} =>
                   /\ ~aborted /\ AllComplete
                   /\ file = Run
                   /\ evidence.state \in (IF exitCode = 0 THEN {"pass", "advisory"} ELSE {"fail"})
             /\ exitCode = 3 => aborted \/ (file = Run /\ evidence.state = "incomplete")
             /\ exitCode \in {2, 4} => ~aborted /\ file # Run
  <2>1. exitCode = ExitCodes[FinalOutcome] /\ outcome \in DOMAIN ExitCodes /\ aborted \in BOOLEAN
    BY <1>1 DEF IInv, ProcessInv, OutcomeInv, Exited
  <2>2. outcome \in {"success", "behavioralFailure", "incomplete"} =>
            /\ file = Run /\ outcome = Outcome(evidence.state)
            /\ evidence.state \in {"pass", "advisory", "fail", "incomplete"}
            /\ evidence.state # "incomplete" => AllComplete
    BY <1>1 DEF IInv, OutcomeInv, EvidenceInv, PayloadAgrees, States, ComparisonStates
  <2>3. outcome \in {"invalidInput", "infrastructureFailure"} => file # Run
    BY <1>1 DEF IInv, OutcomeInv
  <2>4. CASE aborted
    BY <2>1, <2>4, CodesDiffer DEF FinalOutcome
  <2>5. CASE ~aborted /\ outcome = "success"
    BY <2>1, <2>2, <2>5, CodesDiffer DEF FinalOutcome, Outcome
  <2>6. CASE ~aborted /\ outcome = "behavioralFailure"
    BY <2>1, <2>2, <2>6, CodesDiffer DEF FinalOutcome, Outcome
  <2>7. CASE ~aborted /\ outcome = "incomplete"
    BY <2>1, <2>2, <2>7, CodesDiffer DEF FinalOutcome, Outcome
  <2>8. CASE ~aborted /\ outcome \in {"invalidInput", "infrastructureFailure"}
    BY <2>1, <2>3, <2>8, CodesDiffer DEF FinalOutcome
  <2> QED BY <2>1, <2>4, <2>5, <2>6, <2>7, <2>8, CodesDiffer
<1>2. IInv => ExitCodeIsTruthful
  BY <1>1 DEF ExitCodeIsTruthful
<1> QED BY <1>2, InductiveInvariant, PTL

(* The parts of the evidence in place agree with each other and with the   *)
(* results, also after a kill (EvidenceIsConsistent).                      *)
THEOREM EvidenceCorrect == Spec => []EvidenceIsConsistent
<1>1. IInv => EvidenceIsConsistent
  BY DEF IInv, EvidenceInv, PayloadAgrees, EvidenceIsConsistent
<1> QED BY <1>1, InductiveInvariant, PTL

(* No scenario completes that had not returned when a signal aborted the   *)
(* run (InterruptionReachesEveryScenario).                                 *)
THEOREM InterruptionCorrect == Spec => InterruptionReachesEveryScenario
<1> DEFINE Reached == aborted /\ pc = "verifying" /\ stage # "returned" => status' # "complete"
<1>1. ASSUME IInv, [Next]_vars PROVE [Reached]_vars
  <2> SUFFICES ASSUME aborted, pc = "verifying", stage # "returned", status' = "complete", Next
               PROVE  FALSE
    BY <1>1
  <2>1. status = "none" /\ stopped
    BY <1>1 DEF IInv, CallInv
  <2>2. CASE Code
    BY <2>1, <2>2 DEF Code, Start, Load, NextScenario, CreateEvidence, Install, Written, Exit,
                      callVars
  <2>3. CASE VerifyStep
    BY <2>1, <2>3 DEF VerifyStep, Verification!Refuse, Verification!Begin, Verification!Run
  <2>4. CASE VerifyReturn
    <3>1. stage = "running" /\ sound
      BY <2>4 DEF VerifyReturn, Verification!Return
    <3> QED BY <1>1, <2>1, <3>1 DEF IInv, CallInv
  <2>5. CASE \E s \in Signals : Signal(s)
    BY <2>1, <2>5 DEF Signal, Verification!Stop, callVars
  <2> QED BY <2>2, <2>3, <2>4, <2>5 DEF Next
<1> QED BY <1>1, InductiveInvariant, PTL DEF Spec, InterruptionReachesEveryScenario
=============================================================================
