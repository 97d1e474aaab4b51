----------------------------- MODULE Workspace -----------------------------
(***************************************************************************)
(* One verify and one capture command (cli/src/commands) started in the    *)
(* same directory: both load the configuration, capture writes a scenario  *)
(* file into the start directory, and verify searches scenario files below *)
(* the directory of the configuration, all at the same time; meanwhile     *)
(* somebody may remove files.  Then verify prepares the requests of the    *)
(* scenarios, one after another; what else it does with them is in         *)
(* VerifyRun, how the scenario file is written in FileWriters.             *)
(***************************************************************************)
EXTENDS ScenarioLoading, CaptureRules, RequestRules

CONSTANTS Worlds,       \* what the commands may find: [configs, environment, chosen, dir, request]
          FileOf,       \* FileOf[id]: the number of the name <id>.yaml
          MaxRemovals   \* bound: files that others remove

(* Directories and names are numbers; the name of a file that capture      *)
(* creates is among them.                                                  *)
IsWorld(world) ==
    /\ DOMAIN world.configs = 1 .. Depth /\ world.chosen \in 0 .. Depth
    /\ \A d \in 1 .. Depth : /\ DOMAIN world.configs[d] = {"node", "file"}
                             /\ IsTree(world.configs[d].file.doc)
    /\ DOMAIN world.dir = 1 .. Depth
    /\ \A d \in 1 .. Depth : \A n \in DOMAIN world.dir[d] :
          n \in Nat \ {0} /\ world.dir[d][n].to \in Nat \X Nat
    /\ FileOf[world.request.input.id.name] \in Nat \ {0} /\ IsInput(world.request.input)

ASSUME WorkspaceAssumption ==
    /\ Clients = {"verify", "capture"} /\ Depth \in Nat \ {0}
    /\ YamlFiles \subseteq Nat \ {0}
    /\ \A world \in Worlds : IsWorld(world)

(* What is secret is known by its value: nothing else of the configuration *)
(* is the same as the value of a variable.                                 *)
SecretsAreDistinct(world) ==
    \A v \in DOMAIN world.environment :
        LET secret == world.environment[v] IN
        /\ secret # "[environment reference]"
        /\ \A p \in DOMAIN Defaults : secret \notin ToSet(Defaults[p].value)
        /\ \A d \in 1 .. Depth :
              LET doc == world.configs[d].file.doc IN
              \A p \in DOMAIN doc :
                 /\ secret \notin ToSet(doc[p].value)
                 /\ p \in Urls /\ doc[p].kind # "map" => secret # Origin[doc[p].value[1]]

VARIABLES request,   \* the options --scenario, --yes and the file --input; never changes
          capture,   \* the capture: its phase, draft and the code of its result
          requests,  \* what verify made of the scenarios so far, in their order
          removals

captureVars == <<request, capture>>
vars == <<configVars, dir, search, captureVars, requests, removals>>

NoDraft == [id |-> "none"]

Init ==
    /\ \E world \in Worlds :
          /\ configs = world.configs /\ environment = world.environment /\ chosen = world.chosen
          /\ dir = world.dir
          /\ request = world.request
    /\ ConfigInit /\ SearchInit
    /\ capture = [phase |-> "started", draft |-> NoDraft, code |-> "none"]
    /\ requests = <<>>
    /\ removals = 0

-----------------------------------------------------------------------------
(* The capture command                                                     *)

Finish(code) == capture' = [capture EXCEPT !.phase = "ended", !.code = code]

(* readCaptureInput() and JSON.parse()                                     *)
ReadInput ==
    /\ capture.phase = "started"
    /\ \/ Finish("CLI_CAPTURE_INPUT_READ_FAILED")
       \/ request.source = "large" /\ Finish("CLI_CAPTURE_INPUT_TOO_LARGE")
       \/ request.source = "garbled" /\ Finish("CLI_CAPTURE_INPUT_INVALID")
       \/ request.source = "json" /\ capture' = [capture EXCEPT !.phase = "loading"]
    /\ UNCHANGED <<configVars, dir, search, request, requests, removals>>

CaptureLoads ==
    /\ capture.phase = "loading" /\ LoadConfig("capture")
    /\ UNCHANGED <<dir, search, captureVars, requests, removals>>

CapturePolicy ==
    LET config == loaded["capture"].config IN
    [headers |-> config[<<"redaction", "headers">>].value,
     jsonPaths |-> config[<<"redaction", "jsonPaths">>].value]

(* prepareSanitizedCapture() and the preview; without --yes no more.  What *)
(* became of the input may not be a scenario by the schema of scenarios.   *)
Prepare ==
    /\ capture.phase = "loading" /\ step["capture"] \in {"loaded", "failed"}
    /\ IF step["capture"] = "failed" THEN Finish(configFault["capture"])
       ELSE LET fault == CaptureFault(request.input, CapturePolicy)
                draft == Draft(request.input, CapturePolicy)
            IN  IF fault # "none" THEN Finish(fault)
                ELSE \/ Finish("CAPTURE_REDACTION_FAILED")
                     \/ capture' = [phase |-> IF request.confirmed THEN "persisting" ELSE "ended",
                                    draft |-> draft,
                                    code |-> IF request.confirmed THEN "none"
                                             ELSE "CLI_CAPTURE_CONFIRMATION_REQUIRED"]
    /\ UNCHANGED <<configVars, dir, search, request, requests, removals>>

(* The text of a draft, as the loader of scenarios will read it.           *)
Scenario(draft) ==
    [parses |-> TRUE, mapping |-> TRUE, valid |-> TRUE, id |-> draft.id.name,
     unsafe |-> KeysOf(draft) \cap ScenarioUnsafeKeys # {}, variables |-> <<>>,
     headers |-> draft.headers,
     body |-> CASE DOMAIN draft.body = {} -> "absent"
                [] <<>> \in DOMAIN draft.body /\ draft.body[<<>>].kind = "text" -> "text"
                [] OTHER -> "json"]

Destination == <<1, FileOf[capture.draft.id.name]>>

(* persistSanitizedCapture(), which creates the file at once or not at all.*)
Persist ==
    /\ capture.phase = "persisting"
    /\ \/ /\ \E code \in {"CAPTURE_ABORTED", "CAPTURE_WRITE_FAILED"} : Finish(code)
          /\ UNCHANGED dir
       \/ Exists(Destination) /\ Finish("CAPTURE_DESTINATION_EXISTS") /\ UNCHANGED dir
       \/ /\ ~Exists(Destination)
          /\ dir' = [dir EXCEPT ![1] = Over(@, [n \in {Destination[2]} |->
                 [kind |-> "file", to |-> NoFile, scenario |-> Scenario(capture.draft)]])]
          /\ Finish("CLI_CAPTURE_SAVED")
    /\ UNCHANGED <<configVars, search, request, requests, removals>>

CaptureStep == ReadInput \/ CaptureLoads \/ Prepare \/ Persist

-----------------------------------------------------------------------------
(* The verify command                                                      *)

VerifyLoads ==
    /\ LoadConfig("verify")
    /\ UNCHANGED <<dir, search, captureVars, requests, removals>>

(* The patterns of the configuration, below its directory.                 *)
Search ==
    /\ step["verify"] = "loaded"
    /\ \/ Discover(at["verify"], <<Items(loaded["verify"].config, <<"scenarios", "include">>),
                                   Items(loaded["verify"].config, <<"scenarios", "exclude">>)>>)
       \/ Yield \/ Examine \/ EndOfMatches \/ ReadScenario
       \/ Select(request.selectors)
    /\ UNCHANGED <<configVars, captureVars, requests, removals>>

(* The URL and the headers of configuredTargets().                         *)
TargetUrl(t) == loaded["verify"].config[<<"targets", t, "url">>].value[1]
TargetHeaders(t) ==
    LET config == loaded["verify"].config
        paths  == {p \in DOMAIN config : IsHeader(p) /\ p[2] = t}
    IN  [n \in {p[4] : p \in paths} |-> config[<<"targets", t, "headers", n>>].value]

(* A request that is not made, or what is sent to the targets.             *)
Unsent(fault) == [fault |-> fault, sent |-> <<>>]

Prepared(scenario) ==
    LET headers == RequestHeaders(scenario, environment)
        valid   == {t \in Sides : ValidTarget(TargetUrl(t), TargetHeaders(t), headers)}
    IN  [fault |-> "none", sent |-> [t \in valid |-> RequestOverTarget(TargetHeaders(t), headers)]]

(* verifyScenario() of the next scenario, if it comes to the requests.     *)
PrepareRequest ==
    /\ search.phase = "selected" /\ Len(requests) < Len(search.scenarios)
    /\ LET scenario == search.scenarios[Len(requests) + 1]
           faults   == RequestFaults(scenario.headers, environment)
       IN  \/ requests' = Append(requests, Unsent("not reached"))
           \/ \E fault \in faults : requests' = Append(requests, Unsent(fault))
           \/ faults = {} /\ requests' = Append(requests, Prepared(scenario))
    /\ UNCHANGED <<configVars, dir, search, captureVars, removals>>

VerifyStep == VerifyLoads \/ Search \/ PrepareRequest

-----------------------------------------------------------------------------
(* Others                                                                  *)

Disturb ==
    /\ removals < MaxRemovals /\ removals' = removals + 1
    /\ \/ (\E d \in DOMAIN configs : RemoveConfig(d)) /\ UNCHANGED <<dir, search>>
       \/ (\E d \in DOMAIN dir : \E n \in DOMAIN dir[d] : RemoveScenario(d, n))
          /\ UNCHANGED configVars
    /\ UNCHANGED <<captureVars, requests>>

Next == CaptureStep \/ VerifyStep \/ Disturb

Spec == Init /\ [][Next]_vars

(* Both commands go on as far as they loop; that others remove a file is   *)
(* never certain.                                                          *)
FairSpec == Spec /\ WF_vars(CaptureLoads) /\ WF_vars(VerifyStep)

-----------------------------------------------------------------------------
(* Properties                                                              *)

Saved == capture.code = "CLI_CAPTURE_SAVED"

(* The environment has back what the redaction of the headers took out.    *)
Restored ==
    \A n \in DOMAIN request.input.headers :
        LET header == capture.draft.headers[Lower[n]] IN
        ~Missing(header, environment) /\ Value(header, environment) = request.input.headers[n]

(* Capture refuses unsafe keys before it puts the names of headers in      *)
(* lower case (input.ts:143, request-redaction.ts:76).                     *)
UnsafeInLowerCase(input) == \E n \in DOMAIN input.headers : Lower[n] \in CaptureUnsafeKeys

(* A scenario that capture has written replays the request it was made of. *)
(* The loader has nothing to say against the file as long as it is there,  *)
(* although the two packages know sensitive names and unsafe keys from     *)
(* lists of their own, but for a header whose name becomes an unsafe key;  *)
(* and if the environment has what was taken out, the headers sent are     *)
(* those captured, whatever headers the target adds (input.ts:45,          *)
(* request-redaction.ts:19-27 and 29-47, scenario-loader.ts:32-41,         *)
(* request.ts:29-67, target.ts:29-48).                                     *)
CapturedScenarioReplays ==
    /\ Saved /\ Exists(Destination) =>
       ScenarioFault(Entry(Destination).scenario)
          = IF UnsafeInLowerCase(request.input) THEN "SCENARIO_UNSAFE_KEY" ELSE "none"
    /\ Saved /\ Restored =>
       \A i \in DOMAIN requests : search.scenarios[i] = Scenario(capture.draft) =>
          /\ requests[i].fault \in {"none", "not reached"}
          /\ \A t \in DOMAIN requests[i].sent : \A n \in DOMAIN request.input.headers :
                requests[i].sent[t][Lower[n]] = request.input.headers[n]

(* No saved or previewed scenario holds what a rule of the built-in or the *)
(* configured policy stands for (redaction.ts:30-73): one step removes the *)
(* values of the names, one the configured paths and one what patterns     *)
(* match, each from what the ones before it have left.                     *)
SavedScenarioIsClean ==
    capture.draft # NoDraft => CleanDraft(capture.draft, CapturePolicy)

(* The provenance names a rule if and only if something was removed, and   *)
(* counts no less than what has changed (redaction-state.ts:12-27), over   *)
(* all the steps that share the state.                                     *)
RedactionIsRecorded ==
    capture.draft # NoDraft => HonestDraft(request.input, capture.draft)

(* Both commands have a configuration or an error in the end, and verify   *)
(* its scenarios, whatever vanishes meanwhile: the climb to the parent     *)
(* directories ends, and so do the loops over the matches and the files    *)
(* (load.ts:419-445, scenario-loader.ts:354-379 and 406-428).              *)
LoadingEnds ==
    /\ <>(step["verify"] = "failed" \/ search.phase \in {"selected", "failed"})
    /\ capture.phase = "loading" ~> step["capture"] \in {"loaded", "failed"}

(* README.md:39 of capture-http: "Bearer and Basic credentials, private    *)
(* keys, JWTs, GitHub tokens, AWS access keys, and common secret           *)
(* assignments are removed from other strings."                            *)
CredentialsAreRemoved ==
    capture.draft # NoDraft => WithoutCredentials(request.input, capture.draft)
=============================================================================
