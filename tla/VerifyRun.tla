------------------------------ MODULE VerifyRun ------------------------------
(***************************************************************************)
(* A process that runs the verify command: bin.ts with its signal          *)
(* handlers, runCli and verifyCommand (cli/src), from the start to the     *)
(* exit code.  Its calls of verifyScenario keep VerificationContract, and  *)
(* the writing of the evidence keeps AtomicFile.                           *)
(***************************************************************************)
EXTENDS EvidencePayload

CONSTANTS NScenarios,   \* how many scenarios are selected
          NoFile

Run == "run"            \* this process as a writer of the evidence

ASSUME VerifyRunAssumption == NScenarios \in Nat \ {0} /\ NoFile # Run

Signals == {"SIGINT", "SIGTERM"}

VARIABLES
    pc,           \* "start", "loading", "verifying", "writing", "settled", "exited", "killed"
    listeners,    \* the signals whose handler is still installed
    aborted,      \* abortController.signal.aborted
    stopped, stage, effects, sound, status, observed,   \* the current call of verifyScenario
    results,      \* the results of the calls before it
    evidence,     \* the payload to be written, NoEvidence before
    creators, file, installed, report,                  \* the evidence file
    outcome,      \* the status of the command's result, "none" before
    exitCode      \* process.exitCode, 5 while unset

callVars == <<stopped, stage, effects, sound, status, observed>>
fileVars == <<creators, file, installed, report>>
vars == <<pc, listeners, aborted, callVars, results, evidence, fileVars, outcome, exitCode>>

Verification == INSTANCE VerificationContract
Evidence == INSTANCE AtomicFile WITH Writers <- {Run}

NoEvidence == [state |-> "none", results |-> <<>>, selected |-> 0, completed |-> 0,
               skipped |-> {}]

ExitCodes == [success |-> 0, behavioralFailure |-> 1, invalidInput |-> 2, incomplete |-> 3,
              infrastructureFailure |-> 4]
Unset == 5

TypeOK ==
    /\ pc \in {"start", "loading", "verifying", "writing", "settled", "exited", "killed"}
    /\ listeners \subseteq Signals
    /\ aborted \in BOOLEAN
    /\ Len(results) <= NScenarios
    /\ \A i \in DOMAIN results : /\ results[i].status \in {"complete", "incomplete"}
                                 /\ results[i].observed \subseteq Targets
    /\ evidence.state \in States \cup {"none"}
    /\ outcome \in DOMAIN ExitCodes \cup {"none"}
    /\ exitCode \in 0 .. Unset

Init ==
    /\ pc = "start"
    /\ listeners = Signals
    /\ aborted = FALSE
    /\ Verification!ContractInit /\ ~stopped
    /\ results = <<>>
    /\ evidence = NoEvidence
    /\ Evidence!FileInit /\ creators = {}
    /\ outcome = "none"
    /\ exitCode = Unset

-----------------------------------------------------------------------------
(* The command                                                             *)

Settle(result) == pc' = "settled" /\ outcome' = result

(* The arguments are parsed; options that are wrong end the command.       *)
Start ==
    /\ pc = "start"
    /\ \/ pc' = "loading" /\ UNCHANGED outcome
       \/ Settle("invalidInput")
    /\ UNCHANGED <<listeners, aborted, callVars, results, evidence, fileVars, exitCode>>

(* Faulty: verifyScenario is not handed the signal.                        *)
Withheld(signal) == FALSE

(* The signal verifyScenario is called with.                               *)
Handed(signal) == signal

(* The next call of verifyScenario.                                        *)
Call ==
    /\ stopped' = Handed(aborted)
    /\ stage' = "waiting" /\ effects' = FALSE /\ sound' = TRUE
    /\ status' = "none" /\ observed' = {}

(* loadConfig, loadScenarios and the selection of scenarios.               *)
Load ==
    /\ pc = "loading"
    /\ \/ pc' = "verifying" /\ Call /\ UNCHANGED outcome
       \/ /\ \E result \in {"invalidInput", "infrastructureFailure"} : Settle(result)
          /\ UNCHANGED callVars
    /\ UNCHANGED <<listeners, aborted, results, evidence, fileVars, exitCode>>

(* A step of the current call of verifyScenario.                           *)
VerifyStep ==
    /\ pc = "verifying"
    /\ Verification!Refuse \/ Verification!Begin \/ Verification!Run
    /\ UNCHANGED <<pc, listeners, aborted, results, evidence, fileVars, outcome, exitCode>>

VerifyReturn ==
    /\ pc = "verifying"
    /\ Verification!Return
    /\ UNCHANGED <<pc, listeners, aborted, results, evidence, fileVars, outcome, exitCode>>

(* Faulty: a scenario that was not completed is tried again.               *)
CollectedIfComplete ==
    IF status = "complete" THEN Append(results, [status |-> status, observed |-> observed])
                           ELSE results

Collected == Append(results, [status |-> status, observed |-> observed])

(* The loop takes the result.                                              *)
NextScenario ==
    /\ pc = "verifying" /\ stage = "returned"
    /\ Len(Collected) < NScenarios
    /\ results' = Collected
    /\ Call
    /\ UNCHANGED <<pc, listeners, aborted, evidence, fileVars, outcome, exitCode>>

(* After the last one the payload is created and its writing begins; an    *)
(* invalid comparison rule or an unsafe payload ends the command.          *)
CreateEvidence ==
    /\ pc = "verifying" /\ stage = "returned"
    /\ Len(Collected) = NScenarios
    /\ results' = Collected
    /\ \/ /\ \E comparisons \in [1 .. NScenarios -> ComparisonStates] :
                 evidence' = Payload(Collected, comparisons)
          /\ pc' = "writing"
          /\ UNCHANGED outcome
       \/ /\ \E i \in 1 .. NScenarios : Comparable(Collected[i])
          /\ Settle("invalidInput")
          /\ UNCHANGED evidence
       \/ Settle("infrastructureFailure") /\ UNCHANGED evidence
    /\ UNCHANGED <<listeners, aborted, callVars, fileVars, exitCode>>

Install ==
    /\ pc = "writing"
    /\ Evidence!Install(Run)
    /\ UNCHANGED <<pc, listeners, aborted, callVars, results, evidence, outcome, exitCode>>

(* The status verifyCommand derives from the state of the evidence.        *)
Outcome(state) ==
    IF state = "incomplete" THEN "incomplete"
    ELSE IF state = "fail" THEN "behavioralFailure"
    ELSE "success"

(* writeEvidenceArtifact settles.                                          *)
Written ==
    /\ pc = "writing"
    /\ Evidence!Report(Run)
    /\ report'[Run] \in {"ok", "failed"}
    /\ Settle(IF report'[Run] = "ok" THEN Outcome(evidence.state) ELSE "infrastructureFailure")
    /\ UNCHANGED <<listeners, aborted, callVars, results, evidence, exitCode>>

-----------------------------------------------------------------------------
(* The process                                                             *)

(* Faulty: the result of the command counts although it was interrupted.   *)
FinalOutcomeOfCommand == outcome

(* An interruption takes the place of the command's own result.            *)
FinalOutcome == IF aborted THEN "incomplete" ELSE outcome

Exit ==
    /\ pc = "settled"
    /\ pc' = "exited"
    /\ exitCode' = ExitCodes[FinalOutcome]
    /\ listeners' = {}
    /\ UNCHANGED <<aborted, callVars, results, evidence, fileVars, outcome>>

(* The code awaits something that the event loop brings: everywhere else   *)
(* it runs on without letting a signal's handler in.                       *)
Awaiting == pc \in {"loading", "writing"} \/ (pc = "verifying" /\ stage = "running")

(* The first signal of each kind aborts; another one of that kind finds no *)
(* handler and kills the process.                                          *)
Signal(s) ==
    /\ Awaiting
    /\ IF s \in listeners
       THEN /\ listeners' = listeners \ {s}
            /\ aborted' = TRUE
            /\ IF pc = "verifying" /\ Handed(~stopped)
               THEN Verification!Stop
               ELSE UNCHANGED callVars
            /\ UNCHANGED pc
       ELSE /\ pc' = "killed"
            /\ UNCHANGED <<listeners, aborted, callVars>>
    /\ UNCHANGED <<results, evidence, fileVars, outcome, exitCode>>

Code ==
    \/ Start \/ Load \/ NextScenario \/ CreateEvidence
    \/ Install \/ Written \/ Exit

Next ==
    \/ Code
    \/ VerifyStep \/ VerifyReturn
    \/ \E s \in Signals : Signal(s)

Spec == Init /\ [][Next]_vars

(* The event loop continues the code, the file system answers, and         *)
(* verifyScenario returns (VerifyReturns of VerifyScenario).  Nobody need  *)
(* send a signal.                                                          *)
Fairness ==
    /\ WF_vars(Code)
    /\ WF_vars(VerifyStep /\ stage = "waiting")
    /\ WF_vars(VerifyReturn)

FairSpec == Spec /\ Fairness

-----------------------------------------------------------------------------
(* Properties                                                              *)

Exited == pc = "exited"
AllComplete == Len(results) = NScenarios
               /\ \A i \in DOMAIN results : results[i].status = "complete"

(* What a caller may conclude from the exit code (cli/README.md, run.ts:76 *)
(* and verify.ts:147-159).  0 and 1: every scenario was verified, nobody   *)
(* interrupted, and this run's evidence is in place and says so; 3: there  *)
(* was an interruption, or the evidence in place is incomplete; 2 and 4:   *)
(* the evidence that was there before still is.                            *)
ExitCodeIsTruthful ==
    Exited =>
        /\ exitCode \in 0 .. 4
        /\ exitCode \in {0, 1} =>
              /\ ~aborted /\ AllComplete
              /\ file = Run
              /\ evidence.state \in (IF exitCode = 0 THEN {"pass", "advisory"} ELSE {"fail"})
        /\ exitCode = 3 => aborted \/ (file = Run /\ evidence.state = "incomplete")
        /\ exitCode \in {2, 4} => ~aborted /\ file # Run

(* The evidence in place, also the one of a run that was killed, covers    *)
(* every selected scenario, and its parts agree: it is incomplete exactly  *)
(* if some scenario was not completed, which then is a skipped check, and  *)
(* every completed one has been compared (verification-evidence.ts).       *)
EvidenceIsConsistent ==
    file = Run =>
        /\ evidence.selected = NScenarios
        /\ evidence.state = "incomplete" <=> evidence.completed < evidence.selected
        /\ evidence.skipped = {i \in DOMAIN results : evidence.results[i] = "incomplete"}
        /\ evidence.state = "pass" => AllComplete

(* A scenario that begins or is still running when the signal aborts does  *)
(* not complete: the interruption reaches every call, not only the one it  *)
(* meets (verify.ts:106-116).                                              *)
InterruptionReachesEveryScenario ==
    [][aborted /\ pc = "verifying" /\ stage # "returned" => status' # "complete"]_vars

(* The command ends, unless it is killed first.                            *)
CommandEnds == <>(Exited \/ pc = "killed")

(* "Misconfigured, unavailable, interrupted, and unsafe runs cannot        *)
(* produce `pass`" (ROADMAP.md:90).                                        *)
InterruptedRunDoesNotPass ==
    Exited /\ aborted /\ file = Run => evidence.state # "pass"
=============================================================================
