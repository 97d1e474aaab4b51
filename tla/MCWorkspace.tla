---------------------------- MODULE MCWorkspace ----------------------------
(***************************************************************************)
(* What the commands may find: one ordinary world, and around it worlds    *)
(* with another configuration, other scenario files or another capture.    *)
(***************************************************************************)
EXTENDS Workspace

MCClients == {"verify", "capture"}

Names == BuiltInSensitive \cup {"content-type", "x-team", "accept", "x-token", "bad name", "key-id", "constructor"}
MCLower == [n \in Names \cup {"Authorization", "X-Team", "Constructor"} |->
               CASE n = "Authorization" -> "authorization" [] n = "X-Team" -> "x-team"
                 [] n = "Constructor" -> "constructor" [] OTHER -> n]
MCCanonical == [n \in {"app", "APP", "db", "bad name"} |->
                   CASE n = "APP" -> "app" [] n = "bad name" -> NoHost [] OTHER -> n]
MCOrigin == [u \in {"http://app", "http://db", "http://app/path"} |->
                IF u = "http://app/path" THEN "[invalid target]" ELSE u]
MCOriginOnly == [u \in {"http://app", "http://db", "http://secret", "http://app/path"} |->
                    u # "http://app/path"]
MCVariableFor == [p \in {"a", "b"} \X Names |-> p[1] \o "_" \o p[2]]
MCMatches == ("*" :> {1, 2, 3, 4}) @@ ("*.yaml" :> {1, 2, 4}) @@ ("a*" :> {1}) @@ ("../*" :> {})
MCFileOf == ("a" :> 1) @@ ("b" :> 2)

Key(k) == <<"key", k>>
Index(i) == <<"index", i>>
MCJsonPath == ("$" :> <<>>) @@ ("$.card" :> <<Key("card")>>)
              @@ ("$.card[0]" :> <<Key("card"), Index(0)>>) @@ ("card" :> Unsupported)

-----------------------------------------------------------------------------
(* Configurations                                                          *)

Basic ==
    [p \in {<<>>, <<"project">>, <<"targets">>, <<"targets", "baseline">>,
            <<"targets", "candidate">>, <<"scenarios">>} |-> Map]
    @@ (<<"schemaVersion">> :> Number("1")) @@ (<<"project", "name">> :> Text("shop"))
    @@ (<<"targets", "baseline", "url">> :> Text("http://app"))
    @@ (<<"targets", "candidate", "url">> :> Text("http://db"))
    @@ (<<"scenarios", "include">> :> List(<<"*.yaml">>))

Without(doc, p) == [q \in {r \in DOMAIN doc : ~IsPrefix(p, r)} |-> doc[q]]
Header(name, label) ==
    (<<"targets", "baseline", "headers">> :> Map)
    @@ (<<"targets", "baseline", "headers", name>> :> label)
Refer(p, variable) == (p :> Map) @@ (Append(p, "env") :> Text(variable))
Redact(headers, paths) ==
    (<<"redaction">> :> Map) @@ (<<"redaction", "headers">> :> List(headers))
    @@ (<<"redaction", "jsonPaths">> :> List(paths))

Authorization == <<"targets", "baseline", "headers", "Authorization">>
BaseUrl == <<"targets", "baseline", "url">>

Additions ==
    {(<<"surprise">> :> Map), (<<"project", "constructor">> :> Text("x")),
     (<<"schemaVersion">> :> Number("2")), (<<"project">> :> Text("shop")),
     (<<"project", "name">> :> Text("")), (<<>> :> List(<<>>)),
     (<<"scenarios", "include">> :> List(<<>>)),
     (<<"scenarios", "exclude">> :> List(<<"a*">>)),
     (<<"timeouts">> :> Map) @@ (<<"timeouts", "connectMs">> :> Number("0")),
     (<<"timeouts">> :> Map) @@ (<<"timeouts", "connectMs">> :> Number("50")),
     (<<"comparison">> :> Map) @@ (<<"comparison", "maxLatencyRegressionMs">> :> Number("5")),
     (<<"comparison">> :> Map) @@ (<<"comparison", "maxLatencyRegressionPercent">> :> Number("-1")),
     (<<"comparison">> :> Text("none")),
     (<<"network">> :> Map) @@ (<<"network", "default">> :> Text("allow")),
     (<<"network">> :> Map) @@ (<<"network", "hookIsolation">> :> Map),
     (<<"sideEffects">> :> Map) @@ (<<"sideEffects", "allowStateChanging">> :> Flag("true")),
     (<<"redaction">> :> Map) @@ (<<"redaction", "headers">> :> List(<<"X-Team">>)),
     Header("Authorization", Text("plain")), Header("x-team", Text("plain")),
     Redact(<<"X-Team">>, <<>>) @@ Header("x-team", Text("plain")),
     Redact(<<>>, <<>>) @@ Header("Authorization", Text("plain")),
     (<<"targets", "baseline", "headers">> :> Map) @@ Refer(Authorization, "TOKEN"),
     (<<"targets", "baseline", "headers">> :> Map) @@ Refer(Authorization, "UNSET"),
     (<<"targets", "baseline", "headers">> :> Map) @@ (Authorization :> Map),
     Header("accept", Text("plain")), Header("bad name", Text("plain")),
     Refer(BaseUrl, "TARGET"), (BaseUrl :> Text("http://app/path")),
     (<<"network">> :> Map) @@ (<<"network", "default">> :> Text("deny"))
        @@ (<<"network", "allowHosts">> :> List(<<"app">>))}
    \cup {(<<"network">> :> Map) @@ (<<"network", list>> :> List(hosts)) :
            list \in {"allowHosts", "allowDependencyHosts"},
            hosts \in {<<"app", "db">>, <<"app", "APP">>, <<"bad name">>, <<"app", "app">>}}

Documents == {Basic} \cup {a @@ Basic : a \in Additions}
             \cup {Without(Basic, p) : p \in DOMAIN Basic \ {<<>>}}

File(doc) == [parses |-> TRUE, doc |-> doc]
ConfigAt(file) == [node |-> "file", file |-> file]
At(node) == [node |-> node, file |-> File(Basic)]

-----------------------------------------------------------------------------
(* Scenario files                                                          *)

Valid(id) == [parses |-> TRUE, mapping |-> TRUE, unsafe |-> FALSE, valid |-> TRUE, id |-> id,
              headers |-> ("Authorization" :> [kind |-> "env", value |-> <<"TOKEN">>])
                          @@ ("accept" :> Text("word")),
              variables |-> ("API_TOKEN" :> "env") @@ ("MODE" :> "text"), body |-> "absent"]
Holding(scenario) == [kind |-> "file", to |-> NoFile, scenario |-> scenario]
Link(d, n) == [kind |-> "link", to |-> <<d, n>>, scenario |-> Valid("none")]
Folder == [kind |-> "folder", to |-> NoFile, scenario |-> Valid("none")]

Invalid(s) ==
    {[s EXCEPT !.parses = FALSE], [s EXCEPT !.mapping = FALSE], [s EXCEPT !.unsafe = TRUE],
     [s EXCEPT !.valid = FALSE], [s EXCEPT !.headers["Authorization"] = Text("word")],
     [s EXCEPT !.variables["API_TOKEN"] = "text"]}

Nothing == [n \in {} |-> Folder]
Two == (1 :> Holding(Valid("a"))) @@ (3 :> Holding(Valid("b")))
Entries == {Holding(Valid("b")), Holding(Valid("a")), Folder, Link(1, 1), Link(2, 1), Link(3, 1)}
Near == {(2 :> e) @@ Two : e \in Entries} \cup {(1 :> e) @@ (2 :> Link(1, 1)) : e \in {Folder}}
        \cup {(1 :> Holding(s)) : s \in Invalid(Valid("a"))} \cup {Nothing}
(* A link to a folder, in whose place capture may create a file.           *)
Turned == (1 :> Folder) @@ (2 :> Link(1, 1)) @@ (4 :> Holding(Valid("c")))
Far == {(1 :> Holding(Valid("a"))) @@ (2 :> e) : e \in Entries \ {Link(1, 1)}}

-----------------------------------------------------------------------------
(* Captures                                                                *)

Tokens == {"label", "bearer", "basic", "opaque", "dotted", "token", "jwt", "redacted", "word"}
ShortTexts == UNION {[1 .. n -> Tokens] : n \in 0 .. 3}

Plain == <<"word">>
NoNames == [n \in {} |-> Plain]
NoBody == [p \in {} |-> Map]

Input == [contract |-> TRUE, pathHasQuery |-> FALSE, id |-> [name |-> "b", text |-> Plain],
          path |-> Plain, headers |-> NoNames, query |-> NoNames, body |-> NoBody,
          texts |-> <<Plain>>, tags |-> {}]

Card(value, other) ==
    (<<>> :> Map) @@ (<<Key("card")>> :> Map) @@ (<<Key("card"), Index(0)>> :> value)
    @@ (<<Key("card"), Key("password")>> :> value) @@ (<<Key("note")>> :> other)

Bodies ==
    {Card(v, o) : v \in {Redacted, Leaf(<<"token">>), Map}, o \in {Leaf(<<"basic", "jwt">>), Redacted}}
    \cup {(<<>> :> Leaf(<<"token">>)), Card(Map, Map) @@ (<<Key("constructor")>> :> Map),
          Card(Map, Map) @@ (<<Key("secret key")>> :> Map)}

Rich == [Input EXCEPT !.headers = ("Authorization" :> Plain) @@ ("accept" :> <<"label", "word">>),
                      !.query = ("x-token" :> Plain), !.tags = {<<"token">>},
                      !.body = Card(Leaf(<<"token">>), Leaf(<<"bearer", "opaque">>))]

Inputs ==
    {Rich} \cup {[Input EXCEPT !.headers = n :> v] :
        n \in {"Authorization", "accept", "X-Team", "x-token", "bad name", "key-id", "constructor",
              "Constructor"},
        v \in {Plain, <<"token">>, <<"label", "redacted">>, <<"bad value">>}}
    \cup {[Input EXCEPT !.query = (n :> v) @@ ("accept" :> Plain)] :
            n \in {"x-token", "key-id", "page", "constructor"}, v \in {Plain, <<"basic", "opaque">>}}
    \cup {[Input EXCEPT !.body = b] : b \in Bodies}
    \cup {[Input EXCEPT !.tags = {Plain, <<"token">>, <<"redacted">>}],
          [Input EXCEPT !.texts = <<Plain, <<"label", "word">>, <<"token">>>>],
          [Input EXCEPT !.headers = ("Authorization" :> Plain) @@ ("authorization" :> Plain)],
          [Input EXCEPT !.contract = FALSE], [Input EXCEPT !.pathHasQuery = TRUE],
          [Input EXCEPT !.id.text = <<"token">>], [Input EXCEPT !.path = <<"label", "word">>],
          [Input EXCEPT !.id.name = "a"]}

Request(input) == [selectors |-> <<>>, source |-> "json", confirmed |-> TRUE, input |-> input]
Unconfirmed == [Request(Input) EXCEPT !.confirmed = FALSE]

-----------------------------------------------------------------------------
(* Worlds                                                                  *)

Ordinary == [configs |-> <<At("file"), At("missing")>>, chosen |-> 0,
             environment |-> ("TOKEN" :> "secret one") @@ ("TARGET" :> "http://secret")
                             @@ ("b_authorization" :> "word") @@ ("b_accept" :> "token")
                             @@ ("b_x-team" :> "bad value"),
             dir |-> <<Two, Nothing>>, request |-> Request(Input)]

Configured(file) == [Ordinary EXCEPT !.configs[1] = ConfigAt(file), !.dir = <<Nothing, Nothing>>]

ConfigWorlds ==
    {Configured(File(doc)) : doc \in Documents}
    \cup {Configured([parses |-> FALSE, doc |-> Basic])}
    \cup {[Ordinary EXCEPT !.configs = <<At(near), ConfigAt(File(Redact(<<>>, <<>>) @@ Basic))>>,
                           !.chosen = c] :
            near \in {"file", "folder", "missing", "unreadable"}, c \in 0 .. 2}
    \cup {[Ordinary EXCEPT !.configs = <<At("missing"), At("missing")>>]}

Included1(patterns) == (<<"scenarios", "include">> :> List(patterns)) @@ Basic

ScenarioWorlds ==
    {[Ordinary EXCEPT !.dir[1] = d, !.request.confirmed = FALSE] : d \in Near}
    \cup {[Ordinary EXCEPT !.dir[1] = d] :
            d \in {Nothing, Two, (2 :> Folder) @@ Two, (2 :> Holding([Valid("b") EXCEPT !.valid = FALSE]))}}
    \cup {[Ordinary EXCEPT !.dir[1] = Turned, !.request.input.id.name = "a"]}
    \cup {[Ordinary EXCEPT !.dir[2] = d, !.request = Unconfirmed,
                           !.configs = <<At("missing"), At("file")>>] : d \in Far}
    \cup {[Configured(File(Included1(patterns))) EXCEPT !.dir = <<Two, Nothing>>] :
            patterns \in {<<"*">>, <<"a*">>, <<"a*", "*">>, <<"../*">>}}
    \cup {[Ordinary EXCEPT !.request.selectors = s] :
            s \in {<<"b">>, <<"a">>, <<"a", "a">>, <<"a", "none">>}}

CaptureWorlds ==
    {[Configured(File(Basic)) EXCEPT !.request.input.texts = <<t>>] : t \in ShortTexts}
    \cup {[Configured(File(Redact(h, p) @@ Basic)) EXCEPT !.request.input = i] :
            i \in Inputs, h \in {<<>>, <<"X-Team">>}, p \in {<<>>, <<"$.card", "$.card[0]">>}}
    \cup {[Configured(File(Redact(h, p) @@ Basic)) EXCEPT !.request.input.body = b] :
            b \in Bodies \cup {NoBody}, h \in {<<>>, <<"bad name">>},
            p \in {<<"$">>, <<"$.card[0]">>, <<"card">>}}
    \cup {[Configured(File(Header(n, Text("plain")) @@ Basic))
              EXCEPT !.request.input.headers = (n :> v) @@ ("Authorization" :> Plain)] :
            n \in {"accept", "x-team"}, v \in {Plain, <<"token">>}}
    \cup {[Ordinary EXCEPT !.request.source = s] : s \in {"large", "garbled"}}

MCWorlds == ConfigWorlds \cup ScenarioWorlds \cup CaptureWorlds

ASSUME SecretsAssumption == \A world \in Worlds : SecretsAreDistinct(world)

(* Short texts only.                                                       *)
TextWorlds == {[Configured(File(Basic)) EXCEPT !.request.input.texts = <<t>>] : t \in ShortTexts}
=============================================================================
