-------------------------- MODULE ScenarioLoading --------------------------
(***************************************************************************)
(* loadScenarios (orchestrator/src/scenario-loader.ts) and the selection   *)
(* by verifyCommand: one search for scenario files below a root, while     *)
(* others remove and add files.                                            *)
(*                                                                         *)
(* The directories are those of ConfigLoading; the scenario files of one   *)
(* are numbered in the order of their names.  What dir[d][n] holds is      *)
(* [kind, to, scenario]: a "file" with a scenario, a "folder", or a "link" *)
(* to a file <<d, n>>, where a directory beyond Depth is one elsewhere.    *)
(* Of a scenario's text we keep whether it is YAML, a mapping, free of     *)
(* unsafe keys and valid, its id, its headers as [kind, value], for each   *)
(* variable of a hook whether its value is written out ("text") or a       *)
(* reference, and of what kind its body is.                                *)
(***************************************************************************)
EXTENDS ConfigLoading

CONSTANTS YamlFiles,         \* the numbers of names that end in .yaml or .yml
          Matches,           \* Matches[pattern]: the numbers of the names glob() matches
          InvalidPatterns,   \* what validatePattern() refuses
          SecretVariables    \* the names sensitiveEnvironmentName matches

VARIABLES dir,     \* dir[d]: the scenario files of directory d
          search   \* the search: its phase and everything it has found; of the files,
                   \* present are those that have been there since it began

NoFile == <<0, 0>>
NoSearch == [phase |-> "idle", root |-> 0, patterns |-> <<>>, present |-> {}, seen |-> {}, match |-> 0,
             found |-> {}, files |-> <<>>, scenarios |-> <<>>, fault |-> "none"]

SearchInit == search = NoSearch

Exists(file) == file[1] \in DOMAIN dir /\ file[2] \in DOMAIN dir[file[1]]
Entry(file) == dir[file[1]][file[2]]

(* realpath()                                                              *)
RealPath(file) == IF Entry(file).kind = "link" THEN Entry(file).to ELSE file

(* A directory lies within those that are its parents.                     *)
WithinRoot(file) == file[1] <= search.root

FailSearch(code) == search' = [search EXCEPT !.phase = "failed", !.fault = code]

-----------------------------------------------------------------------------
(* Discovery                                                               *)

Included(patterns) ==
    UNION {Matches[p] : p \in ToSet(patterns[1])} \ UNION {Matches[p] : p \in ToSet(patterns[2])}

(* The patterns <<include, exclude>> are checked first, then the root.     *)
Discover(root, patterns) ==
    /\ search.phase = "idle"
    /\ IF patterns[1] = <<>> \/ ToSet(patterns[1] \o patterns[2]) \cap InvalidPatterns # {}
       THEN FailSearch("SCENARIO_PATTERN_INVALID")
       ELSE \/ FailSearch("SCENARIO_DISCOVERY_FAILED")
            \/ search' = [search EXCEPT !.phase = "globbing", !.root = root, !.patterns = patterns,
                                        !.present = UNION {{d} \X DOMAIN dir[d] : d \in DOMAIN dir}]
    /\ UNCHANGED dir

(* glob() yields a match, in any order; the loop skips other extensions.   *)
Yield ==
    /\ search.phase = "globbing" /\ search.match = 0
    /\ \E n \in (DOMAIN dir[search.root] \cap Included(search.patterns)) \ search.seen :
          search' = [search EXCEPT !.seen = @ \cup {n}, !.match = IF n \in YamlFiles THEN n ELSE 0]
    /\ UNCHANGED dir

(* Faulty: a file is known by the name under which it was found.           *)
KnownByName(match) == match

(* filesByRealPath                                                         *)
Known(match) == RealPath(match)

(* realpath(), isWithinRoot() and stat() of the match.                     *)
Examine ==
    /\ search.phase = "globbing" /\ search.match # 0
    /\ LET match  == <<search.root, search.match>>
           target == RealPath(match)
           next   == [search EXCEPT !.match = 0]
       IN  \/ FailSearch("SCENARIO_DISCOVERY_FAILED")
           \/ Exists(match) /\ ~WithinRoot(target) /\ FailSearch("SCENARIO_PATH_OUTSIDE_ROOT")
           \/ /\ Exists(match) /\ WithinRoot(target) /\ Exists(target)
              /\ search' = IF Entry(target).kind = "file"
                           THEN [next EXCEPT !.found = @ \cup {Known(match)}] ELSE next
    /\ UNCHANGED dir

(* The portable relative paths, in the order of compareCodeUnits().        *)
Before(f, g) == f[1] < g[1] \/ (f[1] = g[1] /\ f[2] < g[2])

(* The files in this order.                                                *)
Sorted(files) ==
    CHOOSE s \in [1 .. Cardinality(files) -> files] :
        /\ ToSet(s) = files
        /\ \A i, j \in DOMAIN s : i < j => Before(s[i], s[j])

(* Nothing that has been there since the beginning is left to yield.       *)
EndOfMatches ==
    /\ search.phase = "globbing" /\ search.match = 0
    /\ \A n \in Included(search.patterns) :
          <<search.root, n>> \in search.present => n \in search.seen
    /\ IF search.found = {}
       THEN FailSearch("SCENARIO_NOT_FOUND")
       ELSE search' = [search EXCEPT !.phase = "reading",
                                     !.files = Sorted(search.found)]
    /\ UNCHANGED dir

-----------------------------------------------------------------------------
(* Reading                                                                 *)

ScenarioUnsafeKeys == {"__proto__", "constructor", "prototype"}
SensitiveHeaders == {"authorization", "cookie", "proxy-authorization", "set-cookie", "x-api-key"}

(* assertNoInlineSecrets()                                                 *)
InlineSecret(s) ==
    \/ \E h \in DOMAIN s.headers : Lower[h] \in SensitiveHeaders /\ s.headers[h].kind = "text"
    \/ \E v \in DOMAIN s.variables : v \in SecretVariables /\ s.variables[v] = "text"

(* The first complaint of loadScenarioFile() about a file it could read.   *)
ScenarioFault(s) ==
    IF ~s.parses THEN "SCENARIO_PARSE_FAILED"
    ELSE IF ~s.mapping THEN "SCENARIO_ROOT_INVALID"
    ELSE IF s.unsafe THEN "SCENARIO_UNSAFE_KEY"
    ELSE IF ~s.valid THEN "SCENARIO_VALIDATION_FAILED"
    ELSE IF InlineSecret(s) THEN "SCENARIO_INLINE_SECRET"
    ELSE "none"

Ids == {s.id : s \in ToSet(search.scenarios)}
NextFile == search.files[Len(search.scenarios) + 1]

(* loadScenarioFile() and the check of the identifier, file by file.       *)
ReadScenario ==
    /\ search.phase = "reading" /\ Len(search.scenarios) < Len(search.files)
    /\ \/ FailSearch("SCENARIO_READ_FAILED")
       \/ /\ Exists(NextFile)
          /\ LET s     == Entry(NextFile).scenario
                 fault == ScenarioFault(s)
             IN  IF fault # "none" THEN FailSearch(fault)
                 ELSE IF s.id \in Ids THEN FailSearch("SCENARIO_DUPLICATE_ID")
                 ELSE search' = [search EXCEPT !.scenarios = Append(@, s)]
    /\ UNCHANGED dir

(* selectedScenarios(): no selector twice, and each names a scenario.      *)
ValidSelectors(selectors) ==
    selectors = <<>> \/ (IsInjective(selectors) /\ ToSet(selectors) \subseteq Ids)

(* The scenarios to run are in the order of their files.                   *)
Select(selectors) ==
    /\ search.phase = "reading" /\ Len(search.scenarios) = Len(search.files)
    /\ IF ValidSelectors(selectors)
       THEN search' = [search EXCEPT !.phase = "selected",
                          !.scenarios = SelectSeq(@, LAMBDA s : selectors = <<>>
                                                                  \/ Contains(selectors, s.id))]
       ELSE FailSearch("CLI_SCENARIO_SELECTOR_INVALID")
    /\ UNCHANGED dir

(* Somebody removes a file; it has not been there all the time.            *)
RemoveScenario(d, n) ==
    /\ n \in DOMAIN dir[d]
    /\ dir' = [dir EXCEPT ![d] = [m \in DOMAIN @ \ {n} |-> @[m]]]
    /\ search' = [search EXCEPT !.present = @ \ {<<d, n>>}]

-----------------------------------------------------------------------------
(* Properties                                                              *)

(* A discovery that is over has the files in one order, each once, all of  *)
(* them below the root; whatever order glob() yields, and whoever adds or  *)
(* removes files meanwhile, it misses none that was there all the time,    *)
(* under its own name or under one that leads to it (scenario-loader.ts:   *)
(* 352-396).                                                               *)
DiscoveryIsComplete ==
    search.phase \in {"reading", "selected"} =>
        /\ \A i, j \in DOMAIN search.files : i < j => Before(search.files[i], search.files[j])
        /\ \A f \in ToSet(search.files) :
              WithinRoot(f) /\ (Exists(f) => Entry(f).kind = "file")
        /\ \A n \in Included(search.patterns) \cap YamlFiles :
              <<search.root, n>> \in search.present =>
                 LET file == RealPath(<<search.root, n>>) IN
                 file \in search.present /\ Entry(file).kind = "file"
                    => file \in ToSet(search.files)
=============================================================================
