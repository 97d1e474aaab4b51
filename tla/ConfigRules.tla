---------------------------- MODULE ConfigRules ----------------------------
(***************************************************************************)
(* What loadConfig (config/src/load.ts) makes of the text of a             *)
(* configuration file: defaults, schema, inline secrets, allow lists and   *)
(* environment references, in this order.                                  *)
(*                                                                         *)
(* A YAML tree is a function on the paths of its nodes: <<>> is the root,  *)
(* a label is [kind, value] with a sequence of strings as its value, empty *)
(* for a mapping.  A file is [parses, doc].                                *)
(***************************************************************************)
EXTENDS HeaderNames, Naturals

CONSTANTS Canonical,  \* normalizeNetworkHost() on the host names that occur,
          NoHost,     \* NoHost where it is undefined
          Origin      \* the literal URL if it is an origin, else "[invalid target]"

Sides == {"baseline", "candidate"}
UnsafeKeys == {"__proto__", "constructor", "prototype"}
BuiltInSensitive == {"authorization", "cookie", "proxy-authorization", "set-cookie", "x-api-key"}

Map == [kind |-> "map", value |-> <<>>]
List(items) == [kind |-> "list", value |-> items]
Text(x) == [kind |-> "text", value |-> <<x>>]
Number(x) == [kind |-> "number", value |-> <<x>>]
Flag(x) == [kind |-> "flag", value |-> <<x>>]

(* A document of YAML: the paths are sequences of keys, and a mapping has  *)
(* nothing beside its entries.                                             *)
IsTree(doc) ==
    \A p \in DOMAIN doc : /\ p \in Seq(STRING) /\ doc[p].value \in Seq(STRING)
                          /\ doc[p].kind = "map" => doc[p] = Map

-----------------------------------------------------------------------------
(* The schema                                                              *)

Isolations == {<<"network", "hookIsolation">>} \cup {<<"targets", t, "isolation">> : t \in Sides}
HeaderMaps == {<<"targets", t, "headers">> : t \in Sides}
Urls == {<<"targets", t, "url">> : t \in Sides}
Maps == {<<>>, <<"project">>, <<"targets">>, <<"scenarios">>, <<"network">>, <<"sideEffects">>,
         <<"redaction">>, <<"timeouts">>, <<"comparison">>}
        \cup {<<"targets", t>> : t \in Sides} \cup HeaderMaps \cup Isolations
Lists == {<<"scenarios", "include">>, <<"scenarios", "exclude">>,
          <<"network", "allowHosts">>, <<"network", "allowDependencyHosts">>,
          <<"redaction", "headers">>, <<"redaction", "jsonPaths">>,
          <<"comparison", "ignoredJsonPaths">>, <<"comparison", "normalizedJsonPaths">>}
Limits == {<<"comparison", "maxLatencyRegressionMs">>,
           <<"comparison", "maxLatencyRegressionPercent">>}
Timeouts == {<<"timeouts", "connectMs">>, <<"timeouts", "requestMs">>}
Texts == {<<"project", "name">>}
         \cup {Append(p, k) : p \in Isolations, k \in {"kind", "reference"}}

Optional == {<<"sideEffects">>, <<"scenarios", "exclude">>, <<"network", "allowDependencyHosts">>,
             <<"comparison", "normalizedJsonPaths">>, <<"comparison", "maxLatencyRegressionMs">>}
            \cup HeaderMaps \cup Isolations

IsHeader(p) == Len(p) = 4 /\ Front(p) \in HeaderMaps
Referable(p) == p \in Urls \/ IsHeader(p)
IsReference(p) == p # <<>> /\ Last(p) = "env" /\ Referable(Front(p))

(* What the schema says of the node at p; an unknown field may be nothing. *)
(* The pattern of a variable's name is left out.                           *)
Allowed(p, label) ==
    \/ p \in Maps /\ label.kind = "map"
    \/ p \in Lists /\ label.kind = "list" /\ IsInjective(label.value) /\ ~Contains(label.value, "")
                   /\ (p = <<"scenarios", "include">> => label.value # <<>>)
    \/ p \in Limits /\ label.kind = "number" /\ label.value # <<"-1">>
    \/ p \in Timeouts /\ label.kind = "number" /\ label.value \notin {<<"-1">>, <<"0">>}
    \/ p \in Texts /\ label.kind = "text" /\ label.value # <<"">>
                   /\ (Last(p) = "kind" => label.value[1] \in {"container", "virtual-machine"})
    \/ p = <<"sideEffects", "allowStateChanging">> /\ label.kind = "flag"
    \/ p = <<"schemaVersion">> /\ label = Number("1")
    \/ p = <<"network", "default">> /\ label = Text("deny")
    \/ Referable(p) /\ label.kind \in {"text", "map"}
    \/ IsReference(p) /\ label.kind = "text"

Required ==
    (Maps \cup Lists \cup Limits \cup Timeouts \cup Texts \cup Urls
     \cup {<<"sideEffects", "allowStateChanging">>, <<"schemaVersion">>, <<"network", "default">>})
    \ (Optional \cup {<<>>})

(* ConfigSchemaV1; a mapping in the place of a text is a reference.        *)
Conforms(doc) ==
    /\ \A p \in DOMAIN doc : Allowed(p, doc[p])
    /\ \A p \in Required : Front(p) \in DOMAIN doc => p \in DOMAIN doc
    /\ \A p \in DOMAIN doc : Referable(p) /\ doc[p].kind = "map" => Append(p, "env") \in DOMAIN doc

-----------------------------------------------------------------------------
(* Defaults                                                                *)

DefaultMaps == {<<>>, <<"network">>, <<"sideEffects">>, <<"redaction">>, <<"timeouts">>,
                <<"comparison">>}
EmptyLists == {<<"network", "allowHosts">>, <<"network", "allowDependencyHosts">>,
               <<"redaction", "jsonPaths">>,
               <<"comparison", "ignoredJsonPaths">>, <<"comparison", "normalizedJsonPaths">>}
DefaultSensitive ==
    List(<<"authorization", "cookie", "proxy-authorization", "set-cookie", "x-api-key">>)
DefaultValues == {
    [path |-> <<"redaction", "headers">>, label |-> DefaultSensitive],
    [path |-> <<"network", "default">>, label |-> Text("deny")],
    [path |-> <<"sideEffects", "allowStateChanging">>, label |-> Flag("false")],
    [path |-> <<"timeouts", "connectMs">>, label |-> Number("1000")],
    [path |-> <<"timeouts", "requestMs">>, label |-> Number("10000")],
    [path |-> <<"comparison", "maxLatencyRegressionPercent">>, label |-> Number("20")]}

(* CONFIG_DEFAULTS_V1                                                      *)
Defaults ==
    [p \in DefaultMaps \cup EmptyLists \cup {v.path : v \in DefaultValues} |->
        IF p \in DefaultMaps THEN Map
        ELSE IF p \in EmptyLists THEN List(<<>>)
        ELSE (CHOOSE v \in DefaultValues : v.path = p).label]

(* Faulty: a section of the file takes the place of the whole default.     *)
MergeSections(base, override) ==
    Over(override, [p \in {q \in DOMAIN base : \A n \in 1 .. Len(q) :
                               SubSeq(q, 1, n) \notin DOMAIN override} |-> base[p]])

(* The nodes of base that mergeValues() comes to: every node on the way is *)
(* a mapping in both, or in base alone.                                    *)
Merged(base, override) ==
    {p \in DOMAIN base : \A n \in 0 .. Len(p) :
        LET above == SubSeq(p, 1, n) IN
        above \in DOMAIN override => base[above] = Map /\ override[above] = Map}

(* mergeValues(): two mappings are merged, else the override is taken.     *)
Merge(base, override) == Over(override, [p \in Merged(base, override) |-> base[p]])

-----------------------------------------------------------------------------
(* Checks beyond the schema                                                *)

HasUnsafeKey(doc) == \E p \in DOMAIN doc : \E i \in DOMAIN p : p[i] \in UnsafeKeys

(* Faulty: the names the file configures replace the built-in ones.        *)
ConfiguredSensitive(doc) == {Lower[h] : h \in ToSet(doc[<<"redaction", "headers">>].value)}

Sensitive(doc) ==
    BuiltInSensitive \cup {Lower[h] : h \in ToSet(doc[<<"redaction", "headers">>].value)}

(* assertNoInlineSecrets()                                                 *)
HasInlineSecret(doc) ==
    \E p \in DOMAIN doc : IsHeader(p) /\ Lower[p[4]] \in Sensitive(doc) /\ doc[p].kind = "text"

(* assertNetworkAllowLists(): no invalid name and no name twice.           *)
HostsAreUnique(list) ==
    /\ \A i \in DOMAIN list : Canonical[list[i]] # NoHost
    /\ \A i, j \in DOMAIN list : i # j => Canonical[list[i]] # Canonical[list[j]]

(* The list at p, empty where an optional one is absent.                   *)
Items(doc, p) == IF p \in DOMAIN doc THEN doc[p].value ELSE <<>>

ValidAllowLists(doc) ==
    /\ HostsAreUnique(Items(doc, <<"network", "allowHosts">>))
    /\ HostsAreUnique(Items(doc, <<"network", "allowDependencyHosts">>))

References(doc) == {p \in DOMAIN doc : IsReference(p)}

(* The first complaint of loadConfig about a file it could read.           *)
ConfigFault(file, environment) ==
    LET merged == Merge(Defaults, file.doc) IN
    IF ~file.parses THEN "CONFIG_PARSE_FAILED"
    ELSE IF file.doc[<<>>] # Map THEN "CONFIG_ROOT_INVALID"
    ELSE IF HasUnsafeKey(file.doc) THEN "CONFIG_UNSAFE_KEY"
    ELSE IF ~Conforms(merged) THEN "CONFIG_VALIDATION_FAILED"
    ELSE IF HasInlineSecret(merged) THEN "CONFIG_INLINE_SECRET"
    ELSE IF ~ValidAllowLists(merged) THEN "CONFIG_VALIDATION_FAILED"
    ELSE IF \E p \in References(merged) : merged[p].value[1] \notin DOMAIN environment
         THEN "CONFIG_ENV_MISSING"
    ELSE "none"

(* resolveEnvironment(): the value of the variable in place of a reference.*)
Resolved(doc, environment) ==
    [p \in DOMAIN doc \ References(doc) |->
        IF Append(p, "env") \in References(doc)
        THEN Text(environment[doc[Append(p, "env")].value[1]])
        ELSE doc[p]]

(* evidenceTargetUrl()                                                     *)
EvidenceTarget(doc, t) ==
    LET url == doc[<<"targets", t, "url">>] IN
    IF url.kind = "map" THEN "[environment reference]" ELSE Origin[url.value[1]]

(* What loadConfig returns; hashed is what configHash is computed of.      *)
LoadedConfig(file, environment) ==
    LET merged == Merge(Defaults, file.doc) IN
    [config |-> Resolved(merged, environment), hashed |-> merged,
     evidenceTargets |-> [t \in Sides |-> EvidenceTarget(merged, t)]]
=============================================================================
