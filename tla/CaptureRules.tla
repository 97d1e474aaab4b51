---------------------------- MODULE CaptureRules ----------------------------
(***************************************************************************)
(* prepareSanitizedCapture (capture-http/src): what of a captured request  *)
(* goes into a scenario file.                                              *)
(*                                                                         *)
(* A text is a sequence of tokens: a "label" that ends in : or =, of fewer *)
(* than eight characters, the schemes "bearer" and "basic", and what may   *)
(* follow them: an "opaque" string of eight or more of the characters of   *)
(* Basic's pattern; a "dotted" one, which goes on after such characters    *)
(* with others that are Bearer's only; a "token" that is recognizable by   *)
(* itself (AWS, GitHub); a "jwt", which is recognizable and dotted.  Then  *)
(* there are the marker "redacted", the "rest" of a dotted string with the *)
(* marker before it, in which no pattern matches, and any short "word".    *)
(* A private key is not told apart from "bearer" and its credential: it    *)
(* has a beginning and a rest as well.                                     *)
(*                                                                         *)
(* A body is a function on the paths of a JSON value, with segments        *)
(* <<"key", k>> and <<"index", i>> and labels [kind, value]; without a     *)
(* body its domain is empty.                                               *)
(***************************************************************************)
EXTENDS HeaderNames, Naturals

CONSTANTS JsonPath,        \* parseJsonPath(), a function on expressions,
          Unsupported,     \* Unsupported where it throws
          SensitiveNames,  \* the names isSensitiveFieldName() matches
          SecretNames,     \* the names containsKnownSecret() matches
          VariableFor      \* environmentReference(), which tells all of them
                           \* apart: VariableFor[<<id, header>>]

CaptureUnsafeKeys == {"__proto__", "constructor", "prototype"}
CaptureSensitive == {"authorization", "cookie", "proxy-authenticate", "proxy-authorization",
                     "set-cookie", "www-authenticate", "x-api-key"}

Leaf(text) == [kind |-> "text", value |-> text]
Redacted == Leaf(<<"redacted">>)
Reference(variable) == [kind |-> "env", value |-> <<variable>>]

-----------------------------------------------------------------------------
(* Texts                                                                   *)

(* Where assignments start, from left to right and without overlaps.       *)
Assignments(t) ==
    LET start[i \in DOMAIN t] == t[i] = "label" /\ i < Len(t) /\ (i = 1 \/ ~start[i - 1])
    IN  {i \in DOMAIN t : start[i]}

Credentials(t) ==
    {i \in 1 .. Len(t) - 1 : /\ t[i] \in {"bearer", "basic"}
                             /\ t[i + 1] \in {"opaque", "dotted", "token", "jwt"}}

(* The replacements keep the label or the scheme.                          *)
HideAssigned(t) == [i \in DOMAIN t |-> IF i - 1 \in Assignments(t) THEN "redacted" ELSE t[i]]

(* The pattern of Basic ends at the first dot.                             *)
HideCredentials(t) ==
    [i \in DOMAIN t |->
        IF i - 1 \notin Credentials(t) THEN t[i]
        ELSE IF t[i - 1] = "basic" /\ t[i] \in {"dotted", "jwt"} THEN "rest" ELSE "redacted"]

HideTokens(t) == [i \in DOMAIN t |-> IF t[i] \in {"token", "jwt"} THEN "redacted" ELSE t[i]]

(* Faulty: recognizable tokens stay where no label announces them.         *)
SanitizedAnnounced(t) == HideCredentials(HideAssigned(t))

(* sanitizeKnownSecrets(): the patterns one after another.                 *)
Sanitized(t) == HideTokens(HideCredentials(HideAssigned(t)))

(* The matches of all patterns, including those that change nothing.       *)
Matched(t) ==
    LET assigned == HideAssigned(t)
        hidden   == HideCredentials(assigned)
    IN  Cardinality(Assignments(t)) + Cardinality(Credentials(assigned))
        + Cardinality({i \in DOMAIN t : hidden[i] \in {"token", "jwt"}})

PatternRules(t) == IF Matched(t) = 0 THEN {} ELSE {<<"pattern">>}

IsSecret(t) == Sanitized(t) # t

(* What redacting a value, or several, gives: it, the rules and the count. *)
Outcome(value, rules, count) == [value |-> value, rules |-> rules, count |-> count]

SanitizedText(t) == Outcome(Sanitized(t), PatternRules(t), Matched(t))

Total(counts) == MapThenSumSet(LAMBDA x : counts[x], DOMAIN counts)

(* The outcomes of the members of a function, as one.                      *)
Together(outcomes) ==
    Outcome([x \in DOMAIN outcomes |-> outcomes[x].value],
            UNION {outcomes[x].rules : x \in DOMAIN outcomes},
            Total([x \in DOMAIN outcomes |-> outcomes[x].count]))

-----------------------------------------------------------------------------
(* The body                                                                *)

Cut(doc, p) == [q \in {r \in DOMAIN doc : ~IsStrictPrefix(p, r)} |->
                   IF q = p THEN Redacted ELSE doc[q]]

(* Faulty: cuts without recording it.                                      *)
ApplyRuleUnrecorded(sofar, expression) ==
    LET p == JsonPath[expression] IN
    IF p \notin DOMAIN sofar.value THEN sofar
    ELSE Outcome(Cut(sofar.value, p), sofar.rules, sofar.count)

(* applyJsonPath(): a path that leads nowhere changes nothing.             *)
ApplyRule(sofar, expression) ==
    LET p == JsonPath[expression] IN
    IF p \notin DOMAIN sofar.value \/ sofar.value[p] = Redacted THEN sofar
    ELSE Outcome(Cut(sofar.value, p), sofar.rules \cup {<<"jsonpath", expression>>}, sofar.count + 1)

(* The policy lists its expressions in their order, each once.             *)
AfterRules(body, expressions) == FoldLeft(ApplyRule, Outcome(body, {}, 0), expressions)

SensitiveEntry(doc, p) ==
    p # <<>> /\ Last(p)[1] = "key" /\ Last(p)[2] \in SensitiveNames /\ doc[p] # Redacted

(* The entries sanitizeJsonValue() comes to: below no sensitive one.       *)
Visited(doc) ==
    {p \in DOMAIN doc : \A n \in 1 .. Len(p) - 1 : ~SensitiveEntry(doc, SubSeq(p, 1, n))}

SecretKey(doc) == \E p \in Visited(doc) \ {<<>>} : Last(p)[1] = "key" /\ Last(p)[2] \in SecretNames

SanitizedNode(doc, p) ==
    IF SensitiveEntry(doc, p) THEN Outcome(Redacted, {<<"json-key", Last(p)[2]>>}, 1)
    ELSE IF doc[p].kind = "text" THEN LET text == SanitizedText(doc[p].value) IN
                                      [text EXCEPT !.value = Leaf(@)]
    ELSE Outcome(doc[p], {}, 0)

(* sanitizeBody()                                                          *)
SanitizedBody(body, expressions) ==
    LET ruled == AfterRules(body, expressions)
        nodes == Together([p \in Visited(ruled.value) |-> SanitizedNode(ruled.value, p)])
    IN  Outcome(nodes.value, ruled.rules \cup nodes.rules, ruled.count + nodes.count)

-----------------------------------------------------------------------------
(* Headers, query and the rest                                             *)

HideHeader(n, policy) ==
    \/ n \in CaptureSensitive \cup {Lower[h] : h \in ToSet(policy.headers)}
    \/ n \in SensitiveNames

(* sanitizeHeaders(): a sensitive name or a secret in the value makes the  *)
(* value a reference to an environment variable.                           *)
SanitizedHeaders(id, headers, policy) ==
    LET value(n) == headers[CHOOSE m \in DOMAIN headers : Lower[m] = n]
        reference(n) == Reference(VariableFor[<<id, n>>])
    IN
    Together([n \in {Lower[m] : m \in DOMAIN headers} |->
        IF HideHeader(n, policy) THEN Outcome(reference(n), {<<"header", n>>}, 1)
        ELSE Outcome(IF IsSecret(value(n)) THEN reference(n) ELSE Leaf(value(n)),
                     PatternRules(value(n)), Matched(value(n)))])

(* sanitizeQuery()                                                         *)
SanitizedQuery(query) ==
    Together([n \in DOMAIN query |->
        IF n \in SensitiveNames THEN Outcome(<<"redacted">>, {<<"query", n>>}, 1)
        ELSE SanitizedText(query[n])])

(* The captured requests: finitely many entries, each of them a text or in *)
(* a body a label.                                                         *)
IsInput(input) ==
    /\ \A part \in {input.headers, input.query, input.body} : IsFiniteSet(DOMAIN part)
    /\ DOMAIN input.headers \subseteq DOMAIN Lower
    /\ input.headers \in [DOMAIN input.headers -> Seq(STRING)]
    /\ input.query \in [DOMAIN input.query -> Seq(STRING)]
    /\ input.body \in [DOMAIN input.body -> [kind : STRING, value : Seq(STRING)]]
    /\ input.texts \in Seq(Seq(STRING))
    /\ IsFiniteSet(input.tags) /\ input.tags \subseteq Seq(STRING)

(* The object keys of a request, or of the draft made of it.               *)
KeysOf(request) ==
    DOMAIN request.headers \cup DOMAIN request.query
    \cup {s[2] : s \in {t \in UNION {ToSet(p) : p \in DOMAIN request.body} : t[1] = "key"}}

(* validateCapturedHttpScenarioInput()                                     *)
ValidInput(input) ==
    /\ KeysOf(input) \cap CaptureUnsafeKeys = {}
    /\ input.contract /\ ~input.pathHasQuery
    /\ \A m, n \in DOMAIN input.headers : Lower[m] = Lower[n] => m = n
    /\ \A n \in DOMAIN input.headers : ValidHeader(n, input.headers[n])

(* The first complaint of prepareSanitizedCapture().                       *)
CaptureFault(input, policy) ==
    IF ~ValidInput(input) THEN "CAPTURE_INPUT_INVALID"
    ELSE IF IsSecret(input.id.text) \/ IsSecret(input.path) THEN "CAPTURE_REDACTION_FAILED"
    ELSE IF \E e \in ToSet(policy.jsonPaths) : JsonPath[e] = Unsupported
         THEN "CAPTURE_JSON_PATH_INVALID"
    ELSE IF \/ SecretKey(AfterRules(input.body, policy.jsonPaths).value)
            \/ \E h \in ToSet(policy.headers) : Lower[h] \in InvalidHeaders
            \/ (DOMAIN input.headers \cup DOMAIN input.query) \cap SecretNames # {}
         THEN "CAPTURE_REDACTION_FAILED"
    ELSE "none"

(* redactCapture(), of an input without a fault: the texts are the         *)
(* description, the name and the rationale.                                *)
Draft(input, policy) ==
    LET body    == SanitizedBody(input.body, policy.jsonPaths)
        headers == SanitizedHeaders(input.id.name, input.headers, policy)
        query   == SanitizedQuery(input.query)
        texts   == Together([i \in DOMAIN input.texts |-> SanitizedText(input.texts[i])])
        tags    == Together([t \in input.tags |-> SanitizedText(t)])
        all     == Together(<<body, headers, query, texts, tags>>)
    IN  [id |-> input.id, headers |-> headers.value, query |-> query.value, body |-> body.value,
         texts |-> texts.value, tags |-> {tags.value[t] : t \in input.tags},
         rules |-> all.rules, removed |-> all.count]

-----------------------------------------------------------------------------
(* What a draft must be                                                    *)

Clean(t) ==
    \A i \in DOMAIN t :
        /\ t[i] \notin {"token", "jwt"}
        /\ i < Len(t) => /\ t[i] = "label" => t[i + 1] = "redacted"
                         /\ t[i] \in {"bearer", "basic"} => t[i + 1] \notin {"opaque", "dotted"}

(* Every name that is sensitive has lost its value, every configured path  *)
(* its subtree, and every text that is left is clean.                      *)
CleanDraft(draft, policy) ==
    /\ \A n \in DOMAIN draft.headers :
          \/ draft.headers[n].kind = "env"
          \/ /\ n \notin SensitiveNames \cup CaptureSensitive
             /\ \A h \in ToSet(policy.headers) : Lower[h] # n
             /\ Clean(draft.headers[n].value)
    /\ \A n \in DOMAIN draft.query : IF n \in SensitiveNames THEN draft.query[n] = <<"redacted">>
                                     ELSE Clean(draft.query[n])
    /\ \A p \in DOMAIN draft.body :
          /\ ~SensitiveEntry(draft.body, p)
          /\ draft.body[p].kind = "text" => Clean(draft.body[p].value)
    /\ \A e \in ToSet(policy.jsonPaths) :
          JsonPath[e] \in DOMAIN draft.body => draft.body[JsonPath[e]] = Redacted
    /\ \A t \in ToSet(draft.texts) \cup draft.tags : Clean(t)

(* Each path at which the body was cut or changed.                         *)
ChangedPaths(input, draft) ==
    {p \in DOMAIN draft.body : draft.body[p] # input.body[p]}

(* The removals it reports are at least the places at which it differs     *)
(* from the input, and it names a rule if there was one.                   *)
HonestDraft(input, draft) ==
    /\ draft.rules = {} <=> draft.removed = 0
    /\ draft.removed >=
          Cardinality(ChangedPaths(input, draft))
          + Cardinality({n \in DOMAIN draft.headers : draft.headers[n].kind = "env"})
          + Cardinality({n \in DOMAIN draft.query : draft.query[n] # input.query[n]})
          + Cardinality({i \in DOMAIN draft.texts : draft.texts[i] # input.texts[i]})
          + Cardinality(input.tags \ draft.tags)

(* No credential that followed a scheme is in the draft as it was; the     *)
(* rest of a dotted one may be.                                            *)
WithoutCredentials(input, draft) ==
    \A i \in DOMAIN input.texts : \A k \in Credentials(input.texts[i]) :
        draft.texts[i][k + 1] # input.texts[i][k + 1]
=============================================================================
