----------------------------- MODULE Comparison -----------------------------
(***************************************************************************)
(* compareHttpObservations (comparators/src): status, headers, body and    *)
(* latency of two observations, in this order.  Two JSON bodies are walked *)
(* with an explicit stack of paths.                                        *)
(*                                                                         *)
(* A JSON value is a function on its paths: <<>> is its root, a segment is *)
(* <<"key", k>> or <<"index", i>>, a container is labelled Obj or Arr and  *)
(* everything else with its kind and value.  Keys and header names are     *)
(* numbers, ranked as sort() ranks the names.                              *)
(***************************************************************************)
EXTENDS Integers, SequencesExt

CONSTANTS Pairs,      \* the observations [baseline, candidate] to compare
          Policies    \* the comparison policies of the configuration

ContentType == 1
JsonTypes == {"application/json", "application/problem+json"}
Obj == [kind |-> "object", value |-> 0]
Arr == [kind |-> "array", value |-> 0]
Segments == {"key", "index"} \X Nat
Unsupported == <<<<"unsupported", 0>>>>    \* a rule in another syntax

(* What is above a path is a container, of an array if a segment is an     *)
(* index.                                                                  *)
IsJson(doc) ==
    /\ IsFiniteSet(DOMAIN doc) /\ <<>> \in DOMAIN doc
    /\ \A p \in DOMAIN doc :
          /\ p \in Seq(Segments)
          /\ doc[p].kind = "object" => doc[p] = Obj
          /\ doc[p].kind = "array" => doc[p] = Arr
          /\ \A i \in 1 .. Len(p) : LET q == SubSeq(p, 1, i - 1) IN
                q \in DOMAIN doc /\ doc[q] = IF p[i][1] = "key" THEN Obj ELSE Arr

IsObservation(o) ==
    /\ IsFiniteSet(DOMAIN o.headers) /\ DOMAIN o.headers \subseteq Nat
    /\ o.headers = [n \in DOMAIN o.headers |-> o.headers[n]]
    /\ o.latency \in Nat /\ IsJson(o.body.doc)

IsPolicy(o) ==
    /\ \A p \in o.ignored \cup o.normalized : p \in Seq(Segments) \/ p = Unsupported
    /\ o.maxPercent \in Int
    /\ \A limit \in o.maxMs : limit \in Int /\ o.maxMs = {limit}

ASSUME ComparisonAssumption ==
    /\ \A p \in Pairs : IsObservation(p.baseline) /\ IsObservation(p.candidate)
    /\ \A o \in Policies : IsPolicy(o)

VARIABLES pair, policy,  \* the arguments
          stage,         \* "called", "walking", "done" or "rejected"
          pending,       \* the stack of JSON paths still to visit
          differences,   \* what has been found, in order
          status         \* "none" before, then the result or the error code

vars == <<pair, policy, stage, pending, differences, status>>

Difference(comparator, path) == [comparator |-> comparator, path |-> path]

-----------------------------------------------------------------------------
(* The policy                                                              *)

(* pathsOverlap()                                                          *)
PathsOverlap(p, q) == IsPrefix(p, q) \/ IsPrefix(q, p)

(* normalizeComparisonPolicy(): the first complaint, "none" if it is valid.*)
PolicyError(o) ==
    IF \E limit \in o.maxMs \cup {o.maxPercent} : limit < 0 THEN "COMPARE_LATENCY_LIMIT_INVALID"
    ELSE IF Unsupported \in o.ignored \cup o.normalized THEN "COMPARE_JSON_PATH_INVALID"
    ELSE IF \E p \in o.ignored, q \in o.normalized : PathsOverlap(p, q)
         THEN "COMPARE_JSON_PATH_CONFLICT"
    ELSE "none"

-----------------------------------------------------------------------------
(* The comparators beside the walk                                         *)

B == pair.baseline
C == pair.candidate

StatusDifferences == IF B.code = C.code THEN <<>> ELSE <<Difference("status", <<>>)>>

(* The members of a set in the order of their rank.                        *)
Ranked(set, rank) ==
    CHOOSE s \in [1 .. Cardinality(set) -> set] :
        /\ ToSet(s) = set
        /\ \A i, j \in DOMAIN s : i < j => rank[s[i]] < rank[s[j]]

(* Faulty: takes a header only one side has for equal.                     *)
HeaderChangedIfPresent(n) ==
    n \in DOMAIN B.headers /\ n \in DOMAIN C.headers /\ B.headers[n] # C.headers[n]

HeaderChanged(n) ==
    ~(n \in DOMAIN B.headers /\ n \in DOMAIN C.headers /\ B.headers[n] = C.headers[n])

HeaderDifferences ==
    LET changed == {n \in DOMAIN B.headers \cup DOMAIN C.headers : HeaderChanged(n)}
        names   == Ranked(changed, [n \in changed |-> n])
    IN  [i \in DOMAIN names |-> Difference("header", <<<<"name", names[i]>>>>)]

(* The bytes of two bodies agree if their records do.                      *)
ExactDifferences == IF B.body = C.body THEN <<>> ELSE <<Difference("body.exact", <<>>)>>

DeclaresJson(o) == ContentType \in DOMAIN o.headers /\ o.headers[ContentType][1] \in JsonTypes

JsonRequired == DeclaresJson(B) \/ DeclaresJson(C)
BothValid == B.body.valid /\ C.body.valid

(* What compareBody() finds without a walk.                                *)
BodyDifferences ==
    IF ~JsonRequired THEN ExactDifferences
    ELSE IF ~BothValid THEN <<Difference("json.validity", <<>>)>> \o ExactDifferences
    ELSE <<>>

Exceeds(regression, limit) == regression > limit

LatencyDifferences ==
    LET regression == C.latency - B.latency
        slower(limit, scale, name) ==
            IF regression > 0 /\ Exceeds(regression * scale, limit)
            THEN <<Difference(name, <<>>)>> ELSE <<>>
    IN  slower(B.latency * policy.maxPercent, 100, "latency.relative")
        \o (IF policy.maxMs = {} THEN <<>>
            ELSE slower(CHOOSE limit \in policy.maxMs : TRUE, 1, "latency.absolute"))

-----------------------------------------------------------------------------
(* The walk                                                                *)

Init ==
    /\ pair \in Pairs
    /\ policy \in Policies
    /\ stage = "called"
    /\ pending = <<>>
    /\ differences = <<>>
    /\ status = "none"

Reject ==
    /\ stage = "called" /\ PolicyError(policy) # "none"
    /\ stage' = "rejected" /\ status' = PolicyError(policy)
    /\ UNCHANGED <<pair, policy, pending, differences>>

Begin ==
    /\ stage = "called" /\ PolicyError(policy) = "none"
    /\ stage' = "walking"
    /\ differences' = StatusDifferences \o HeaderDifferences \o BodyDifferences
    /\ pending' = IF JsonRequired /\ BothValid THEN << <<>> >> ELSE <<>>
    /\ UNCHANGED <<pair, policy, status>>

Top == Last(pending)
Ignored(p) == p \in policy.ignored
Normalized(p) == p \in policy.normalized
InBoth(p) == p \in DOMAIN B.body.doc /\ p \in DOMAIN C.body.doc
SameKind(p) == B.body.doc[p].kind = C.body.doc[p].kind
SameValue(p) == B.body.doc[p] = C.body.doc[p]
Container(p) == B.body.doc[p].kind \in {"object", "array"}

(* Faulty: presence is looked at before the rules.                         *)
SkippedIfPresent(p) == InBoth(p) /\ (Ignored(p) \/ Normalized(p))

(* A rule ends the visit: an ignored path needs no value, a normalized one *)
(* needs two.                                                              *)
Skipped(p) == Ignored(p) \/ (Normalized(p) /\ InBoth(p))

Children(p) ==
    {q \in DOMAIN B.body.doc \cup DOMAIN C.body.doc : Len(q) = Len(p) + 1 /\ IsPrefix(p, q)}

(* The children, last first, so that the first is popped next.             *)
Pushed(p) == Reverse(Ranked(Children(p), [q \in Children(p) |-> Last(q)[2]]))

(* Faulty: a path that a rule covers stays on the stack.                   *)
PoppedUnlessSkipped == IF Skipped(Top) THEN pending ELSE Front(pending)

Popped == Front(pending)

Visiting == stage = "walking" /\ pending # <<>>

Skip ==
    /\ Visiting /\ Skipped(Top)
    /\ pending' = Popped
    /\ UNCHANGED <<pair, policy, stage, differences, status>>

(* A value is missing, of another kind, or another primitive.              *)
Report ==
    /\ Visiting /\ ~Skipped(Top)
    /\ InBoth(Top) => ~SameKind(Top) \/ (~Container(Top) /\ ~SameValue(Top))
    /\ pending' = Popped
    /\ differences' = Append(differences, Difference("json.structure", Top))
    /\ UNCHANGED <<pair, policy, stage, status>>

Descend ==
    /\ Visiting /\ ~Skipped(Top) /\ InBoth(Top) /\ SameKind(Top) /\ Container(Top)
    /\ pending' = Popped \o Pushed(Top)
    /\ UNCHANGED <<pair, policy, stage, differences, status>>

Agree ==
    /\ Visiting /\ ~Skipped(Top) /\ InBoth(Top)
    /\ ~Container(Top) /\ SameValue(Top)
    /\ pending' = Popped
    /\ UNCHANGED <<pair, policy, stage, differences, status>>

(* Every difference is an error, the default severity of difference().     *)
Return ==
    /\ stage = "walking" /\ pending = <<>>
    /\ stage' = "done"
    /\ differences' = differences \o LatencyDifferences
    /\ status' = IF differences' = <<>> THEN "pass" ELSE "fail"
    /\ UNCHANGED <<pair, policy, pending>>

Next == Reject \/ Begin \/ Skip \/ Report \/ Descend \/ Agree \/ Return

(* compareHttpObservations runs without interruption.                      *)
Spec == Init /\ [][Next]_vars /\ WF_vars(Next)

-----------------------------------------------------------------------------
(* Properties                                                              *)

Walked == stage = "done" /\ JsonRequired /\ BothValid

(* The paths at which two JSON values differ, without a walk: every path   *)
(* above is a container of one kind in both and under no rule, and the     *)
(* path itself is in one value only or has different labels.               *)
Reached(p) ==
    \A i \in 0 .. Len(p) - 1 : LET q == SubSeq(p, 1, i) IN
        InBoth(q) /\ SameKind(q) /\ ~Ignored(q) /\ ~Normalized(q)
Differs(p) == ~InBoth(p) \/ (~Normalized(p) /\ B.body.doc[p] # C.body.doc[p])
Expected == {p \in DOMAIN B.body.doc \cup DOMAIN C.body.doc :
                Reached(p) /\ ~Ignored(p) /\ Differs(p)}

Reported == {i \in DOMAIN differences : differences[i].comparator = "json.structure"}

(* The order of a document, in which the keys of an object are sorted.     *)
Before(p, q) ==
    \E i \in 1 .. Len(p) : /\ i <= Len(q)
                           /\ SubSeq(p, 1, i - 1) = SubSeq(q, 1, i - 1)
                           /\ p[i][2] < q[i][2]

(* The stack walk reports exactly the paths at which the values differ     *)
(* outside the rules, whatever the shapes of the two values are, each once *)
(* and in the order of the document: equal responses give equal evidence   *)
(* (compareJsonValues, json.ts:88-194).                                    *)
WalkIsExact ==
    /\ Walked => {differences[i].path : i \in Reported} = Expected
    /\ \A i, j \in Reported : i < j => Before(differences[i].path, differences[j].path)

(* A JSON value with everything under a rule removed: the subtree of an    *)
(* ignored path, and all but the presence of a normalized one.             *)
Masked(doc) ==
    [p \in {q \in DOMAIN doc : /\ \A r \in policy.ignored : ~IsPrefix(r, q)
                               /\ \A r \in policy.normalized : ~IsStrictPrefix(r, q)} |->
        IF Normalized(p) THEN Obj ELSE doc[p]]

(* "pass" is said of exactly those observations that agree in everything   *)
(* the policy does not exempt, and a policy whose rules contradict each    *)
(* other never gets an answer (compare.ts:20-48, json-path.ts:62-90).      *)
PassIsEarned ==
    /\ stage = "done" =>
          (status = "pass" <=>
              /\ B.code = C.code /\ B.headers = C.headers
              /\ \/ B.body = C.body
                 \/ JsonRequired /\ BothValid /\ Masked(B.body.doc) = Masked(C.body.doc)
              /\ ~(JsonRequired /\ ~BothValid)
              /\ \/ C.latency <= B.latency
                 \/ /\ 100 * C.latency <= B.latency * (100 + policy.maxPercent)
                    /\ \A limit \in policy.maxMs : C.latency <= B.latency + limit)
    /\ stage = "done" => \A p \in policy.ignored, q \in policy.normalized :
                            ~IsPrefix(p, q) /\ ~IsPrefix(q, p)

(* The walk ends: no path is visited for ever.                             *)
ComparisonEnds == <>(stage \in {"done", "rejected"})
=============================================================================
