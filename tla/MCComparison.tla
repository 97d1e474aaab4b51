---------------------------- MODULE MCComparison ----------------------------
(***************************************************************************)
(* JSON values of up to four levels, two keys and two indexes, and for     *)
(* each rule a policy that meets them; headers, status and latency vary    *)
(* with a fixed body.                                                      *)
(***************************************************************************)
EXTENDS Comparison

Leaf(kind, value) == [p \in {<<>>} |-> [kind |-> kind, value |-> value]]

(* A container with the children given by segment.                         *)
Node(label, child) ==
    [p \in {<<>>} \cup UNION {{<<s>> \o q : q \in DOMAIN child[s]} : s \in DOMAIN child} |->
        IF p = <<>> THEN label ELSE child[p[1]][Tail(p)]]

Key(k) == <<"key", k>>
Index(i) == <<"index", i>>
Containers(values) ==
    UNION {{Node(Obj, child) : child \in [keys -> values]} : keys \in SUBSET {Key(1), Key(2)}}
    \cup UNION {{Node(Arr, child) : child \in [{Index(i) : i \in 0 .. n - 1} -> values]} :
                    n \in 0 .. 2}

One == Leaf("number", 1)
Array(doc) == Node(Arr, [s \in {Index(0)} |-> doc])
Inner == {One, Leaf("number", 2), Leaf("null", 0), Array(One),
          Node(Obj, [s \in {Key(1)} |-> One]), Node(Obj, [s \in {Key(1)} |-> Array(Array(One))])}
Documents == {One, Leaf("null", 0)} \cup Containers(Inner)

Parsed(doc, layout) == [valid |-> TRUE, doc |-> doc, layout |-> layout]
Garbled == [valid |-> FALSE, doc |-> Leaf("null", 0), layout |-> 1]
Typed(type) == [n \in {ContentType} |-> <<type>>]
Observation(headers, body) == [code |-> 200, headers |-> headers, body |-> body, latency |-> 10]
Json(doc) == Observation(Typed("application/json"), Parsed(doc, 1))

Simple == Node(Obj, [s \in {Key(1)} |-> One])
Headers == {Typed("application/json"), Typed("text/plain"), Typed("text/plain") @@ (2 :> <<"a">>),
            Typed("text/plain") @@ (2 :> <<"a", "b">>), [n \in {} |-> <<>>]}
Bodies == {Parsed(Simple, 1), Parsed(Simple, 2), Garbled, [Garbled EXCEPT !.layout = 2]}

JsonPairs == [baseline : {Json(d) : d \in Documents}, candidate : {Json(d) : d \in Documents}]
OtherPairs ==
    {[baseline |-> Observation(h, b), candidate |-> Observation(g, c)] :
        h \in Headers, g \in Headers, b \in Bodies, c \in Bodies}
    \cup {[baseline |-> Json(Simple), candidate |-> [Json(Simple) EXCEPT !.code = s, !.latency = l]] :
            s \in {200, 500}, l \in {9, 10, 11, 12, 15, 16}}
MCPairs == JsonPairs \cup OtherPairs

Rules(ignored, normalized) ==
    [ignored |-> ignored, normalized |-> normalized, maxPercent |-> 20, maxMs |-> {5}]
MCPolicies ==
    {Rules(i, {}) : i \in {{}, {<<Key(1)>>}, {<<Index(0)>>, <<Key(2)>>}}}
    \cup {Rules({}, n) : n \in {{<<Key(1)>>}, {<<Key(2), Key(1)>>}}}
    \cup {Rules({<<Key(1), Key(1)>>}, {<<Key(2)>>, <<Index(1)>>}),
          Rules({<<Key(1)>>}, {<<Key(1), Key(1)>>}), Rules({<<Key(1), Key(1)>>}, {<<Key(1)>>}),
          Rules({Unsupported}, {}), [Rules({}, {}) EXCEPT !.maxPercent = 100],
          [Rules({}, {}) EXCEPT !.maxPercent = 100, !.maxMs = {}],
          [Rules({}, {}) EXCEPT !.maxPercent = -1]}
=============================================================================
