--------------------------- MODULE ConfigLoading ---------------------------
(***************************************************************************)
(* loadConfig and discoverConfig (config/src/load.ts), called by several   *)
(* clients at the same time in the same start directory, while somebody    *)
(* else may remove files.  The directories are counted from the start      *)
(* directory, 1, up to the root of the file system, Depth.                 *)
(***************************************************************************)
EXTENDS ConfigRules

CONSTANTS Clients, Depth

VARIABLES
    configs,      \* configs[d]: runtime-evidence.yaml in directory d, a [node, file]
    environment,  \* the environment variables; never changes
    chosen,       \* options.filePath as the number of its directory, 0 if undefined
    step,         \* step[c]: "inspecting", "reading", "loaded" or "failed"
    at,           \* at[c]: the directory c is at
    loaded,       \* loaded[c]: what loadConfig returned, NotLoaded before
    configFault   \* configFault[c]: the code it failed with

configVars == <<configs, environment, chosen, step, at, loaded, configFault>>
unchangedFiles == <<configs, environment, chosen>>

NotLoaded == [config |-> <<>>, hashed |-> <<>>, evidenceTargets |-> <<>>]

ConfigInit ==
    /\ step = [c \in Clients |-> IF chosen = 0 THEN "inspecting" ELSE "reading"]
    /\ at = [c \in Clients |-> IF chosen = 0 THEN 1 ELSE chosen]
    /\ loaded = [c \in Clients |-> NotLoaded]
    /\ configFault = [c \in Clients |-> "none"]

FailConfig(c, code) ==
    /\ step' = [step EXCEPT ![c] = "failed"]
    /\ configFault' = [configFault EXCEPT ![c] = code]
    /\ UNCHANGED <<at, loaded>>

(* stat() finds a regular file.                                            *)
InspectFile(c) ==
    /\ step[c] = "inspecting" /\ configs[at[c]].node = "file"
    /\ step' = [step EXCEPT ![c] = "reading"]
    /\ UNCHANGED <<unchangedFiles, at, loaded, configFault>>

(* stat() fails, but not because there is nothing.                         *)
InspectFails(c) ==
    /\ step[c] = "inspecting" /\ configs[at[c]].node = "unreadable"
    /\ FailConfig(c, "CONFIG_READ_FAILED")
    /\ UNCHANGED unchangedFiles

NothingThere(d) == configs[d].node \in {"missing", "folder"}

(* Faulty: the root is inspected for ever.                                 *)
StaysAtRoot(d) == FALSE

IsRoot(d) == d = Depth

(* Nothing there, or not a file: the parent is next, if there is one.      *)
Climb(c) ==
    /\ step[c] = "inspecting" /\ NothingThere(at[c])
    /\ IF IsRoot(at[c])
       THEN FailConfig(c, "CONFIG_NOT_FOUND")
       ELSE /\ at' = [at EXCEPT ![c] = IF @ < Depth THEN @ + 1 ELSE @]
            /\ UNCHANGED <<step, loaded, configFault>>
    /\ UNCHANGED unchangedFiles

(* readFile() and everything after it, which has no further await.         *)
ReadConfig(c) ==
    /\ step[c] = "reading"
    /\ LET found == configs[at[c]]
           fault == ConfigFault(found.file, environment)
       IN  \/ FailConfig(c, "CONFIG_READ_FAILED")
           \/ found.node = "file" /\ fault # "none" /\ FailConfig(c, fault)
           \/ /\ found.node = "file" /\ fault = "none"
              /\ step' = [step EXCEPT ![c] = "loaded"]
              /\ loaded' = [loaded EXCEPT ![c] = LoadedConfig(found.file, environment)]
              /\ UNCHANGED <<at, configFault>>
    /\ UNCHANGED unchangedFiles

LoadConfig(c) == InspectFile(c) \/ InspectFails(c) \/ Climb(c) \/ ReadConfig(c)

(* Somebody removes a configuration file; what it held is remembered.      *)
RemoveConfig(d) ==
    /\ configs[d].node = "file"
    /\ configs' = [configs EXCEPT ![d].node = "missing"]
    /\ UNCHANGED <<environment, chosen, step, at, loaded, configFault>>

-----------------------------------------------------------------------------
(* Properties                                                              *)

(* The file that decides: the chosen one, or the nearest that nobody took  *)
(* away before it was looked at.                                           *)
Decides(c) ==
    IF chosen # 0 THEN at[c] = chosen
    ELSE \A d \in 1 .. at[c] - 1 : configs[d].node \in {"missing", "folder"}

(* Every setting is the one of the deciding file or else the default, and  *)
(* the file loses none (load.ts:168-182 and 419-445): a configuration that *)
(* is partly another one would verify under another policy.                *)
EffectiveConfigIsDeclared ==
    \A c \in Clients : step[c] = "loaded" =>
        LET declared  == configs[at[c]].file.doc
            effective == loaded[c].hashed
        IN  /\ Decides(c)
            /\ DOMAIN effective = DOMAIN declared \cup DOMAIN Defaults
            /\ \A p \in DOMAIN effective :
                  effective[p] = IF p \in DOMAIN declared THEN declared[p] ELSE Defaults[p]

(* The value of a sensitive header is never one written in the file, in    *)
(* whatever case its name is spelled, also if the file replaces the list   *)
(* of sensitive names; and nothing that was read from the environment goes *)
(* into the hash or the evidence (load.ts:253-281 and 387-407).            *)
SecretsStayInTheEnvironment ==
    \A c \in Clients : step[c] = "loaded" =>
        LET secrets == {environment[v] : v \in DOMAIN environment}
            config  == loaded[c].config
        IN  /\ \A p \in DOMAIN config :
                  IsHeader(p) /\ (\/ Lower[p[4]] \in BuiltInSensitive
                                  \/ \E h \in ToSet(config[<<"redaction", "headers">>].value) :
                                        Lower[h] = Lower[p[4]])
                  => config[p].value[1] \in secrets
            /\ \A p \in DOMAIN loaded[c].hashed :
                  ToSet(loaded[c].hashed[p].value) \cap secrets = {}
            /\ \A t \in Sides : loaded[c].evidenceTargets[t] \notin secrets
=============================================================================
