# Runtime Evidence in TLA+

Runtime Evidence replays captured HTTP scenarios against a baseline and a
candidate of a service, compares what it observes and writes canonical
evidence.  This directory holds TLA+ models of the parts whose correctness
depends on order and on failure, the TLC configurations that check them on
small instances, and TLAPS proofs for every value of the constants.  Paths are
relative to `packages/` of the repository.

## 1. Inventory

| Component | State it keeps | Operations | What makes it correct |
|---|---|---|---|
| Hook processes (`orchestrator/src/hooks.ts`, `executeScenarioHook`) | per call: child process, `terminationReason`, `settled`, hook timer, grace timer, abort and `error` listeners | start, hook timeout, abort, forced kill, `error`, `close` | settles once with the code of the first reason; nothing left armed or running; settles although the child ignores SIGTERM |
| Scenario lifecycle (`hooks.ts`, `runScenarioLifecycle`, `runCleanupHooks`) | loop position, `primaryCode`, `completed`, collected cleanup failures | setup loop, operation, cleanup loop, throw or return | first setup failure stops setup; every cleanup hook attempted, shielded from aborts; success only if all succeeded |
| Scenario verification (`verification.ts`, `verification-target.ts`, `verification-result.ts`) | total timer, `interrupted`, composite signal, executions, failures | policy, lifecycle, two requests, late interruption, result | `complete` only if nothing went wrong; no failure, interruption or observation lost; always returns |
| Replay policy (`verification-policy.ts`) | none | `evaluateReplayPolicy`, `isTargetAllowed` | nothing undeclared runs |
| HTTP execution (`replay-http/src/execute.ts`) | per call: socket, response stream, two timers, `termination`, byte count, abort listener | send, connect, receive, data, end, cut, error, two timeouts, abort | settles once; whole bodies only; failures tell the truth; always settles |
| Request, target, response preparation (`replay-http/src/request.ts`, `target.ts`, `response.ts`) | none | references resolved, headers validated and merged | a scenario and a target determine one request; the request wins over the target |
| Evidence payload (`verification-evidence.ts`) | none | aggregation of results and comparisons | `incomplete` dominates `fail`, which dominates `advisory` and `pass`; coverage counts |
| Comparators (`comparators/src`) | traversal stack, differences | status, headers, body, JSON, latency | deterministic; no difference hidden or reported twice |
| Configuration (`config/src/load.ts`) | directory of the climb | discovery, defaults, validation, resolution | one file decides, and entirely; nothing from the environment in what is hashed |
| Scenario loading (`orchestrator/src/scenario-loader.ts`) | files by real path, scenarios read | discovery, reading, selection | complete, ordered, without repetition, below its root; fails closed |
| Evidence artifact (`evidence-schema/src/artifact.ts`, `canonical-json.ts`) | files | canonicalise, digest, write, read | old evidence intact or new evidence whole |
| Capture (`capture-http/src`) | redaction state, files | validate, redact, prepare, persist | nothing unredacted persisted; every removal recorded; no overwrite; verify can replay it |
| Command line (`cli/src`) | abort controller, files | parse, run, verify loop, capture, init, report, exit code | exit code agrees with the evidence; an interrupted run never passes |
| Reporters, schemas, plugin SDK | none | rendering, declarations | not about behaviour over time |

How they interact: `runCli` hands a signal to `verifyCommand`, which loads
configuration and scenarios and awaits `verifyScenario` for one scenario after
another.  `verifyScenario` derives a composite signal from the caller's signal
and its own total timer, and hands it to `runScenarioLifecycle`.  That awaits
setup hooks one by one, then the operation - two concurrent
`executeHttpRequest` calls that share the signal - and then the cleanup hooks,
which do not get the signal.  The result becomes part of one evidence payload,
which is written to a file; the exit code follows from its state.
`captureCommand` loads a configuration in the same way and leaves a scenario
file where a later or a simultaneous `verifyCommand` finds it: files are how
the two interact.

Hard behaviours: everything runs on one event loop, so nothing happens between
two awaits, but at every await the timers, the signal, child processes and
sockets may move.  A child may ignore SIGTERM or may not be signalled at all; a
network may stall at any point; the total timer and the caller may abort at any
await, also when the work is over and only the cleanup remains.  The commands
read directories while others change them, and a redaction consists of several
steps, each of which sees what the ones before it have left.  `PROJECT.json`
lists each such hazard at its line with the properties aimed at it.

## 2. Modules

| Module | Models | Role |
|---|---|---|
| `HookContract` | what a hook call promises | abstract specification |
| `ScenarioHook` | `executeScenarioHook` with process, timers, listeners | detailed component |
| `HookLifecycle` | `runScenarioLifecycle`, `runCleanupHooks` over `ScenarioHook` | composition; implements `HookContract` |
| `HttpContract` | what the HTTP calls promise | abstract specification |
| `HttpExecution` | `executeHttpRequest` per target | detailed component; implements `HttpContract` |
| `ReplayPolicy` | `evaluateReplayPolicy` | operators |
| `VerificationContract` | what `verifyScenario` promises its caller | abstract specification |
| `VerifyScenario` | `verifyScenario` over `HookContract`, `HttpContract`, `ReplayPolicy` | composition; implements `VerificationContract` |
| `AtomicFile` | what writing a file promises its readers and its caller | abstract specification |
| `FileWriters` | `writeEvidenceArtifact`, `writeTextFile`, `persistSanitizedCapture`, call by call | detailed component; implements `AtomicFile` |
| `EvidencePayload` | `createVerificationEvidencePayload` | operators |
| `VerifyRun` | `bin.ts`, `runCli`, `verifyCommand` over `VerificationContract`, `AtomicFile`, `EvidencePayload` | composition |
| `Comparison` | `compareHttpObservations` with the stack walk, step by step | detailed component, against a definition without a stack |
| `HeaderNames` | names in lower case, what makes a header invalid, the merging of headers | constants, operators |
| `ConfigRules` | schema, defaults, checks and resolution of `loadConfig` | operators |
| `ConfigLoading` | `discoverConfig`, `loadConfig`, several clients | component |
| `ScenarioLoading` | `loadScenarios` and the selection | component |
| `CaptureRules` | `prepareSanitizedCapture` | operators |
| `RequestRules` | `prepareScenarioRequest`, `prepareTargetRequest` | operators |
| `Workspace` | a capture and a verify command over the five above | composition |
| `MCVerifyScenario`, `MCComparison`, `MCWorkspace` | constants for TLC | model checking |
| `HookLifecycleProofs`, `HttpExecutionProofs` | theorems about the two lower levels, and that they implement their contracts | proofs |
| `VerifyScenarioProofs` | theorems about `VerifyScenario`, what its result says, and that it implements its contract | proofs |
| `FileWritersProofs`, `VerifyRunProofs` | theorems about the writers, with `AtomicFile`, and about the verify command | proofs |
| `ComparisonProofs` | theorems about the walk and the verdict of `Comparison` | proofs |
| `WorkspaceProofs` | theorems about configuration and discovery in `Workspace` | proofs |
| `CaptureProofs` | theorems about the operators of `CaptureRules` and `RequestRules`, and about what a capture in `Workspace` saves and verify replays | proofs |

The hook and HTTP models are joined by contracts.  `HookLifecycle` shows that
processes, timers and listeners refine `HookContract`, `HttpExecution` that
sockets and timers refine `HttpContract`, and `VerifyScenario` drives both
contracts by their own actions (`Hook!Spawn`, `Hook!Terminate`, `Http!Send`,
`Http!AbortAll`, ...).  So the verification is checked against everything the
two lower levels were shown to do, without the product of their state spaces.
`VerifyRun` continues upwards in the same way: it takes the steps of
`VerificationContract`, which `VerifyScenario` implements, and of `AtomicFile`,
which `FileWriters` implements for the evidence.

    HookLifecycle --> HookContract --+
    HttpExecution --> HttpContract --+--> VerifyScenario --> VerificationContract --+
    ReplayPolicy --------------------+                                              +--> VerifyRun
    FileWriters --------------------------------> AtomicFile -----------------------+
    EvidencePayload ----------------------------------------------------------------+

    ConfigRules --> ConfigLoading --> ScenarioLoading --+
    CaptureRules ---------------------------------------+--> Workspace
    RequestRules ---------------------------------------+

`Workspace` is the way into `verifyScenario` that `VerifyRun` takes as one step
(`loading`), together with the command that produces its input.  The two are
not one model: what is loaded has no influence on the order of what follows.
`Comparison` stands alone, as a comparison is one synchronous call between two
of `VerifyRun`'s steps, which takes any verdict for possible.

### From code to state and actions

*Granularity.*  A synchronous stretch of code - an event handler, or the code
from one await to the next - is one action.  The continuation after an await
is an action of its own that becomes possible when the promise settled
(`SetupHookReturns`, `TargetReturns`, `CleanupHookReturns`): the code between
the settling and the continuation is the microtask queue, and the models allow
other events in between.  This is more than Node.js does in places (microtasks run before the
next timer), never less.

*Hooks.*  `hook[h]` holds the locals of one call (`hooks.ts:250-284`).
`TerminateChild` is `terminateChild`: SIGTERM, then the grace timer; a refused
kill emits `error` inside the call, before the timer is stored.  `Finish` is
`finish()`; `Close` picks the result as lines 299-334 do.  A child is `unborn`
if the command could not be executed (reported by a later `error`), `alive`,
`dead` (not yet reported) or `gone` (reported by `close`).  A synchronous
failure of `spawn`, a missing environment reference and an aborted signal
reject the call before it has a process (`Refuse`).

*Lifecycle.*  `phase` and `current` are the position in the two loops,
`primary` is `primaryCode`, `verdict` the promise.  In `HookLifecycle` the
operation is any promise; in `VerifyScenario` it is the pair of requests.

*Requests.*  `exec[t]` holds the locals of one call (`execute.ts:89-96`), the
socket and the stream.  `ReceiveResponse`, `Data`, `ResponseEnd`,
`ResponseCut` and `RequestError` are the listeners; after `destroy()` they may
still be called, and the models let them.  `body[t]` is the length the target
means to send; chunks of any size arrive until it is reached.

*Verification.*  `aborted` is the composite signal, `interrupted` what
`onInterrupt` recorded, `totalTimer = "fired"` is `totalTimedOut`.
`FinalResult` puts together what the `try`/`catch` of `verification.ts:99-120`
and `finalizeResult` do.  A failure is a record of its code and of where it
belongs; kinds and messages follow from the code and are left out.

*Files.*  `pc[w]` is the file system call a writer has issued; a step is the
effect of that call and what the code does up to the next one.  A name
(`Dest`, `Temp(w)`, `Backup(w)`) stands for the file it is a name of, a file for
the writer that created it, and `whole` for the files that were written to the
end.  A call fails if `Fallible` says so; the failures the code tells apart
(`EEXIST`, `ENOENT`, a refused replacement) are alternatives of their own.
Every writer may be killed between two calls.  One destination is written by
one function; only `writeTextFile` is called with and without `overwrite` for
the same file.

*The command.*  `pc` is the position in `verifyCommand`; the variables of
`VerificationContract` are the current call of `verifyScenario`, `results` the
calls before it.  `listeners` are the handlers `process.once` left installed:
the first signal of a kind aborts, a second one kills.  A signal is delivered
while the code awaits the event loop, not while it runs on synchronously
(`Awaiting`).  What comparing yields is any of the three verdicts.

*Comparison.*  A JSON value is a function on its paths, so that a subtree is a
set of paths with one prefix.  `pending` is the stack of `compareJsonValues`;
one action is one turn of its loop, by what it finds: `Skip`, `Report`,
`Descend`, `Agree`.  The definitions the result is checked against (`Expected`,
`Masked`) speak of prefixes only and know no order of visits.

*Configuration.*  `step[c]` and `at[c]` are the position of client `c` in the climb
of `discoverConfig`; between `stat` and `readFile` others may take the file
away.  A YAML tree is a function on paths, too; `Merge` is `mergeValues`,
`ConfigFault` the checks of `loadConfig` in their order, `Resolved` and
`EvidenceTarget` what it returns.  The schema is `Conforms`.

*Scenarios.*  `search` holds the locals of `discoverScenarioFiles` and
`loadScenarios`: matches in any order, links resolved, files ordered, read one
by one.  Anything may vanish, and a capture may add a file, between two awaits.

*Capture.*  A text is a sequence of classes of tokens, chosen so that each
pattern of `text-redaction.ts` matches some sequences and the patterns may
overlap; `Sanitized` applies them in their order, each to what is left.  The
patterns of Bearer and Basic have different characters: of a string with a dot, a JWT
say, Basic's takes what is before the dot only, and no pattern matches the `"rest"`.
`Draft` is `prepareSanitizedCapture` with the redaction state all of its steps
share.  In `Workspace`, `capture` is the position in `captureCommand`.  Whether
what became of an input is a scenario by the schema (`prepare.ts:57`) depends on detail the
model leaves out, such as lengths, so `Prepare` may always be refused there.

*Preparation.*  `PrepareRequest` is one turn of the loop of `verifyCommand` up to
the requests; a scenario may also be refused or end before (`"not reached"`),
which `VerifyScenario` has in detail.

`Workspace` has two specifications: `Spec` is about safety, `FairSpec`, which the run
checks, adds the fairness of section 3.

Definitions headed *Faulty* are deliberately wrong variants of the definition
that follows them: with them in its place, the property named for them in
`PROJECT.json` fails, which shows that the property can tell the difference.

## 3. What the runs check

| Run | Instance | Shows |
|---|---|---|
| `hook_lifecycle` | 2 setup hooks, 1 cleanup hook; kills permitted or possibly refused | all interleavings of timers, abort and process events: no overlap, shielded cleanup, earned success, the hook contract, an end |
| `http_execution` | 2 targets, limit 2, bodies of 0, 2 and 3 bytes | whole bodies, truthful failures, no leftovers, the contract, every call settles |
| `verify_lifecycle` | 2 setup hooks, 1 cleanup hook, every combination of what the policy reads | nothing undeclared runs; results, phases, cleanup, interruption, the contract, termination |
| `file_writers` | 2 writers of one file, any call may fail, crashes, abort | whole files only, nothing lost, nothing replaced, nothing left over, `AtomicFile` |
| `verify_run` | 2 scenarios, signals at every await | exit code, evidence and interruption agree; the command ends |
| `json_comparison` | every pair of 94 JSON values, and 411 other pairs, under 12 policies | the walk is exact, pass is earned, the comparison ends |
| `workspace` | 1210 situations of 2 directories, 3 scenario files, 1 removal | configuration, discovery, redaction, replay of what was captured, an end |
| `cleanup_skipped_by_crash`, `setup_failure_hidden`, `partial_output_exposed`, `interrupted_run_passes`, `redaction_order` | small | the findings of section 5 |

Properties worth a comment:

* `NothingLeftBehind` (both components): a settled call has no armed timer and
  no listener, whichever of its events settled it; for hooks it also says that
  no process is left, so two hooks never run at once.  Where a kill may be
  refused the process and its grace timer are excepted: the code reports that the
  hook "could not be started" (`hooks.ts:286-296`) while it runs on.
* `CleanupIsShielded`: no cleanup hook starts before setup and operation are
  over, and no abort reaches one.
* `ObservationIsWhole`: an observed body is complete and within the limit.  The
  limit (2) lies between the bodies checked (0, 2, 3): below, exactly at, above,
  in one chunk or several.
* `CompleteIsFaultless`, `InterruptionIsReported`,
  `EveryObservationAccountedFor`, `CleanupFailureIsReported`: together, the
  result tells what happened and nothing that did not.
* `CompleteCopySurvives`: through the three renames of the backup path, with a
  second writer, failures and crashes at each of them, a complete copy exists.
* `NothingReplaced`: the clean-up of the writer that lost the race for a name
  does not remove the winner's file.
* `ExitCodeIsTruthful`: what each exit code lets a caller conclude about the
  evidence in place.  It uses the file itself, not only the command's result.
* `InterruptionReachesEveryScenario`: after an abort no call completes, be it
  running or begun later.
* `WalkIsExact`: the paths reported are those at which the values differ outside
  the rules, each once and in the order of the document.  `PassIsEarned` goes
  on to the verdict: `pass` if and only if the two observations agree once
  everything under a rule is masked.
* `EffectiveConfigIsDeclared`: every setting comes from the deciding file or
  else from the defaults, in whatever order files vanish and however they are
  merged.  `SecretsStayInTheEnvironment` holds whatever the file writes into the
  list of sensitive names.
* `CapturedScenarioReplays`: capture and verify know sensitive names and unsafe
  keys from lists of their own, in two packages.  What one lets through the other
  accepts, but for a header whose name becomes an unsafe key in lower case
  (section 5); and with the removed values back in the environment the headers
  sent are those captured, whatever the target is configured with.
* `SavedScenarioIsClean`, `RedactionIsRecorded`: names, paths and patterns remove
  parts of the same values one after another and share one count.
* `ImplementsContract` (three times) and `ImplementsAtomicFile` are refinement, checked as temporal
  properties with the mapping in the module.
* `LifecycleEnds`, `EveryCallSettles`, `VerifyReturns`, `CommandEnds`,
  `ComparisonEnds`, `LoadingEnds` are liveness.

*Bounds.*  Two setup hooks and one cleanup hook have a predecessor,
a successor and a change of phase; further hooks repeat the loop's step,
and the proofs cover any number for `VerifyScenario`.  There are always exactly two targets in
the code.  The options of `verify_lifecycle` are permitted ones and whatever
one missing or invalid declaration makes of them.
Two writers show every conflict over one name, as each of them only reacts to
whether that name exists.  Two scenarios are one before and one after an
interruption, and enough for two states to be aggregated.
The JSON values have up to four levels, two keys and two indexes: a rule can
meet a path, what is above it, what is below it and what is beside it, in an
object and in an array.  Two directories (`Depth`) are the start directory and
the root, so that a climb has a first and a last step; three files include one
with another extension and a link.  Texts have up to three tokens, the longest
stretch two patterns can share.  One removal (`MaxRemovals`) is enough for
each gap between two awaits; it is the only bound on a step.  The situations of
`MCWorkspace` differ from an ordinary one in one or two respects: every field of
the configuration present, absent and invalid, every kind of scenario file,
every kind of capture.

*Deadlock* checking is off in every configuration, since all these behaviours end
(a lifecycle returns, calls settle, a command is over); where it matters that they end
well, a liveness property says so.

*Fairness.*  Weak fairness is given to the code's own continuations and to armed
timers, because the event loop runs both; to the events Node.js owes for a
process that ended or never started (`Close`, `SpawnError`); and to the call
itself.  None is given to the child (it need not exit), the network (it need
not answer) or the caller (it need not abort).  The timers are `unref`ed, so
they do not keep the loop alive by themselves, but whenever one is armed a child
process or a socket is open, and that does.  In `VerifyScenario` a hook that
was asked to terminate settles; `HookLifecycle` shows why.  In `VerifyRun` a call
of `verifyScenario` returns, as `VerifyReturns` says, and the file system
answers; nobody need send a signal.  In `Comparison` the one synchronous call
goes on.  In `Workspace` fairness is given to the loops the liveness property is
about, the climb of either command and the steps of verify: the file system
answers.  Nobody need remove a file, and nothing is claimed of the other steps of the
capture.

## 4. What is proved

Every invariant that a passing run checks is a theorem, for every value of the
constants, and so are the four refinements and the two action properties.

| Module | Theorems | Property |
|---|---|---|
| `HookLifecycleProofs` | `TypeCorrect`, `SuccessCorrect`, `CallCleanupCorrect`, `SetupCorrect`, `ShieldCorrect`, `VerdictCorrect`, `ContractImplemented` | `TypeOK`, `SuccessIsGenuine`, `NothingLeftBehind`, `SetupFailureStopsSetup`, `CleanupIsShielded`, `VerdictIsEarned`, `ImplementsContract` |
| `HttpExecutionProofs` | `TypeCorrect`, `ObservationCorrect`, `CleanupCorrect`, `FailureCorrect`, `ContractImplemented` | `TypeOK`, `ObservationIsWhole`, `NothingLeftBehind`, `FailureIsTruthful`, `ImplementsContract` |
| `VerifyScenarioProofs` | `TypeCorrect`, `CompleteCorrect`, `PhasesCorrect`, `CleanupCorrect`, `DeclarationsCorrect`, `InterruptionCorrect`, `ObservationsCorrect`, `CleanupFailuresCorrect`, `ContractImplemented` | `TypeOK`, `CompleteIsFaultless`, `PhasesDoNotOverlap`, `CleanupAlwaysAttempted`, `EffectsAreDeclared`, `InterruptionIsReported`, `EveryObservationAccountedFor`, `CleanupFailureIsReported`, `ImplementsContract` |
| `FileWritersProofs` | `TypeCorrect`, `CleanupCorrect`, `CopyCorrect`, `CreationCorrect`, `AtomicFileImplemented` | `TypeOK`, `NothingLeftOver`, `CompleteCopySurvives`, `NothingReplaced`, `ImplementsAtomicFile` |
| `VerifyRunProofs` | `TypeCorrect`, `ExitCodeCorrect`, `EvidenceCorrect`, `InterruptionCorrect` | `TypeOK`, `ExitCodeIsTruthful`, `EvidenceIsConsistent`, `InterruptionReachesEveryScenario` |
| `ComparisonProofs` | `WalkCorrect`, `PassCorrect` | `WalkIsExact`, `PassIsEarned` |
| `WorkspaceProofs` | `ConfigurationCorrect`, `SecretsCorrect`, `DiscoveryCorrect` | `EffectiveConfigIsDeclared`, `SecretsStayInTheEnvironment`, `DiscoveryIsComplete` |
| `CaptureProofs` | `CleanCorrect`, `RecordCorrect`, `ReplayCorrect` | `SavedScenarioIsClean`, `RedactionIsRecorded`, `CapturedScenarioReplays` |

Every proof has one shape.  No property is inductive, so each module defines an
invariant in named parts; one lemma per action (or per kind of action) shows
that a step preserves it, a lemma per property that it implies the property, and
`PTL` combines them.

*Hooks* (any number of setup and cleanup hooks).  `CallInv` relates the fields of
one call - what a settled promise leaves armed or running, that a reason excludes
success, that only setup hooks hear the signal - and `PhaseInv` says which hooks
are idle, running and settled at each position of the two loops.  `OrderInv`
keeps the order after the loops are over.  The operators on one call (`Finish`,
`TerminateChild`, ...) have lemmas of their own, which the actions cite.

*Requests* (any set of targets, any limit, any bodies).  `Consistent` relates socket,
stream, timers and promise of one call; what an outcome says must stay true
although the events of a destroyed socket go on, which `OutcomePart` states.

*Verification* (any number of hooks, any options, any host normalisation).
`IInv == TypeInv /\ PhaseInv /\ ShieldInv /\ ExecutionInv /\ ResultInv` where
`PhaseInv` is again the position in the loops (and setup hooks that were passed
succeeded unless the lifecycle already has a primary failure), `ShieldInv` that an
abort never is a cleanup hook's reason or outcome, `ExecutionInv` relates
executions to requests in each phase, and `ResultInv` says what a result was
computed from.  The second half of the module adds to it who is to blame for an abort
(`BlameInv`), what the policy has excluded (`DeclaredInv`) and what a result is bound to
mention.

*Files* (any number of writers and of failing calls).  `Progress` says of each
writer, by the call it has issued, whether its file is whole and under which
name; `BackupPart` who holds a backup; three parts say what can be at the
destination when everybody overwrites, writes evidence, or captures.

*The command* (any number of scenarios).  `CallInv` and `ResultsInv` tie the current
call to those before it, `EvidenceInv` the payload to the results, `FileInv` the file
to the payload, `OutcomeInv` the outcome to the file.  `WorstExists` is the lemma about
the aggregation of states.

*Comparison* (any values, of any size and shape, any rules).  The stack is in the order
of the document, last first, and everything reported comes before
it (`StackInv`, `ReportedInv`); what has to be reported has been, or lies below a path on the
stack (`CompleteInv`).  So an empty stack means that nothing is missing.
`PushedCorrect` says what the children of a container are, and in which order:
a set of paths has an order, since a smallest set that had none would have a
first member and a rest with an order.  That `Expected` is empty if and only if
the masked values are equal (`ExpectedIsMasked`) needs no walk: the shortest path at
which two masked values differ would be in `Expected`.

*Configuration and discovery* (any files, directories, clients' positions and removals).
`ConfigInv` says that a client was led to its file past nothing and has loaded what
it holds; a file that is removed keeps its content, a file that is not there
cannot be loaded.  `DiscoveryInv` adds that what was found is a file below the root and that
each match examined has led to its file, if both have been there all the time.

*Capture* (any texts, bodies, headers and policies, any targets).  Most of the work is in
lemmas about operators, each stated once:

* `SanitizedCorrect`: after all patterns a text is clean, that is, no pattern matches
  anything but the marker, and one that has changed had a match
  (`MarkerStays`: the marker has none).  `AssignmentsAre` says what the recursive choice of
  matches from left to right comes to.
* `RulesCorrect`, `BodyCorrect`: each configured path cuts a subtree and is counted once,
  what an earlier one has cut stays cut (`ApplyRuleCorrect` is the step,
  `RulesInOrder` the list of intermediate trees), and the walk over what is left leaves
  no sensitive entry.  `HeadersCorrect`, `QueryCorrect` and `TextsCorrect` say the same of
  the other parts, `TogetherCorrect` and `FiveTogether` of their sum, and `DraftParts`
  of the draft.
* The counts are sums over finite sets, defined by a fold of the library.  That this fold is
  what its definition says (`FoldExists`, `SumsExist`) and that a sum is at least the number
  of its terms that are not 0 (`SumCounts`) is proved by the smallest counterexample
  (`Smallest`) instead of an induction.

`CaptureInv` ties these to the command: a draft that is shown or saved is the `Draft` of the
request under the policy in force, of an input without a fault, and what is under its name
is the draft, for as long as it is there.  `RequestsInv` says of each request of verify that it
was refused for a reason or has every header of its scenario
(`PreparedKeepsHeaders`: the request wins over the target, for any headers).  `ReplayCorrect` then
needs only that the names of a draft are in lower case already, so that two of them never
become one, and that `SensitiveHeaders` of the loader is part of `CaptureSensitive`.

*Refinement.*  `ContractImplemented` and `AtomicFileImplemented` map initial states to
initial states and every step to a step of the abstract specification or a
stutter, one lemma per action; the mapping is the `INSTANCE ... WITH` of the module.
The abstract specifications state no fairness, so this is all of it.

*Assumptions*, each named in the module that declares the constants:

* `VerifyScenarioAssumption`, `VerifyRunAssumption`, `HttpExecutionAssumption`,
  `FileWritersAssumption`, ...: numbers of hooks and scenarios, a positive limit, a
  value for "no file" that is not the name of a writer.
* `OptionsAssumption`: declarations are Boolean, isolation is one of a target; the
  types of `VerifyScenarioOptions`.
* `ComparisonAssumption`: a JSON value is a tree (what is above a path is an object or an
  array), a latency is a number of units, a policy is what its schema admits.
* `WorkspaceAssumption`: a situation has a document per directory that is a tree, an
  environment, a request; `IsWorld` lists it.  The request is what the schema of the input
  admits (`IsInput`): finitely many headers, parameters, tags and paths of the body, and
  texts.
* `HeaderNamesAssumption`: a name in lower case stays what it is in lower case.
* `SecretsCorrect` has a hypothesis: no variable has the value of a literal of the
  configuration (`SecretsAreDistinct`).  Secrets are told apart by their values, so
  without it a literal that happens to equal a secret would count as one.  The
  constants of `MCWorkspace` satisfy it, which TLC evaluates.

What the proofs changed in the models: operators written with `CASE` had guards that overlap, of
which TLC takes the first and the logic any, and are chains of `IF` now; a
discovery was first claimed to find the file behind every match that was there throughout,
which is false of a link to a folder in whose place a capture creates a file after the
link has been examined: `DiscoveryIsComplete` asks now that the file be there
throughout as well, and `MCWorkspace` has the situation (`Turned`).

The unsafe keys were a third case.  `CapturedScenarioReplays` first said that
the loader has nothing against what capture saves; its proof needs that no name becomes an unsafe
key in lower case, which nothing in the code ensures.  No header of that name was among the
situations of `MCWorkspace`; now one is, and the property says what happens.
`RequestRules` and `CaptureRules` check a header by the same `ValidHeader`, and a list of
sensitive headers in the policy by `InvalidHeaders`.

*Only model-checked.*  Liveness (`LifecycleEnds`, `EveryCallSettles`, `VerifyReturns`,
`CommandEnds`, `ComparisonEnds`, `LoadingEnds`) needs fairness and `ENABLED` and is out of the
prover's reach.  The proofs about `Workspace` are of `Spec`; the run checks `FairSpec`,
which implies it.  All theorems are about the model: that a pattern of
`text-redaction.ts` matches what its class of tokens says is not among them.

## 5. Findings

1. `cleanup_skipped_by_crash`: a hook that runs as another user cannot be
   signalled.  Its hook timer calls `kill`, which is refused and emits `error`;
   the call is over, but `terminateChild` (`hooks.ts:207-210`) arms the grace timer
   after `finish()` ran, so nobody clears it.  When it fires, the second `error`
   finds no listener and ends the program, possibly before the remaining cleanup
   hooks, of which the comment at `hooks.ts:383` says that every one is attempted.
2. `setup_failure_hidden`: a setup hook failed, then the total timer fires
   during cleanup.  The result names the timeout only
   (`verification-result.ts:48`), though `orchestrator/README.md:51` calls the
   two distinguishable.
3. `partial_output_exposed`: without `overwrite`, `writeTextFile`
   (`cli/src/files.ts:53`) creates the destination and then fills it, so a reader
   or a crash meets a partial file.  The comment at `files.ts:43` promises the
   contrary; it holds for the overwriting path.
4. `interrupted_run_passes`: after the last scenario nothing looks at the signal
   before the evidence is in place.  A signal during the writing gives exit code
   3 (`cli/src/run.ts:76`) beside an `evidence.json` that says `pass`, though
   `ROADMAP.md:90` excludes `pass` for interrupted runs.
5. `redaction_order`: in a text with a label, a scheme word and a credential
   the assignment pattern replaces the scheme word, which is all it sees of the
   value; the pattern of the scheme (`text-redaction.ts:16`) then has nothing to
   match, and the credential stays, though `capture-http/README.md:39` says that
   both are removed.

The order of the patterns has another effect, which `HideCredentials` has and
`CredentialsAreRemoved` does not count, since it asks only that no credential stays as it was:
of a JWT after the word `Basic` that pattern takes the first part (`text-redaction.ts:32`), and
the pattern of JWTs no longer matches the payload and the signature, which stay.

One more has no run of its own, since `CapturedScenarioReplays` says exactly when it
happens: `assertSafeKeys` (`capture-http/src/input.ts:84-94`) looks for unsafe keys before
`sanitizeHeaders` (`request-redaction.ts:76`) puts the names of headers in lower case.
A captured header `Constructor` is therefore saved as `constructor`, a scenario that
`loadScenarioFile` refuses with `SCENARIO_UNSAFE_KEY`
(`orchestrator/src/scenario-loader.ts:32` and 140), and with it every verification that
finds the file, though `capture-http/README.md:41` says that unsafe object keys prevent
persistence.

## 6. Plan

Modelled: hooks, lifecycle, HTTP execution, policy, verification, file writers,
the verify and the capture command, comparison, configuration, scenario loading,
redaction, preparation of headers.

The order was: the lifecycle and its two lower levels with their contracts, the verification
over them, the command and its files, comparison, and last what the commands read and
write for each other; each was checked, then proved.

What a next step would be:

1. The text of a body on its way through capture, loader and request, so that
   `CapturedScenarioReplays` says of bodies what it says of headers.
2. `response.ts`: which headers and which body of a response are compared.
3. A run for the sixth finding of section 5.

No module that is proved about declares a `RECURSIVE` operator.

## 7. Not modelled

* Reporters render text from validated evidence; the plugin SDK has no behaviour.
* Schemas are declarations: of the configuration's there is `Conforms`, for the
  others a file or an input is valid or not.
* Parsing of command-line arguments, and what `init`, `report` and `doctor` do beyond
  writing files, which is in `FileWriters`.
* Overrides of `loadConfig`, which no command passes; the digest of a
  configuration; canonical JSON and the reading of evidence.
* URL, path, query and the text of bodies of a request; which headers of a
  response are kept, and how its body is decoded.
* Text: YAML, regular expressions, glob patterns and paths of the file system are
  replaced by what they tell apart.  A value that JSON parsing rounds is compared
  rounded.
* Real time: an armed timer may fire at any moment, so nothing depends on how
  delays relate, and the width of a delay (2^31-1 ms) does not appear.
* Capture writes below its own directory and verify searches below that of the
  configuration; `Workspace` starts both in the same one, and has the case in
  which the configuration lies above it.

## 8. Running

    tlc -config HookLifecycle.cfg HookLifecycle
    tlc -config HttpExecution.cfg HttpExecution
    tlc -config VerifyLifecycle.cfg MCVerifyScenario
    tlc -config FileWriters.cfg FileWriters
    tlc -config VerifyRun.cfg VerifyRun
    tlc -config Comparison.cfg MCComparison
    tlc -config Workspace.cfg MCWorkspace
    tlapm HookLifecycleProofs.tla
    tlapm HttpExecutionProofs.tla
    tlapm VerifyScenarioProofs.tla
    tlapm FileWritersProofs.tla
    tlapm VerifyRunProofs.tla
    tlapm ComparisonProofs.tla
    tlapm WorkspaceProofs.tla
    tlapm CaptureProofs.tla

`ComparisonProofs` and `WorkspaceProofs` print "no supported yet" where the library's
order on the natural numbers takes an operator as a parameter; every obligation is
proved all the same.
