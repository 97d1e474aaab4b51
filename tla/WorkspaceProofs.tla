--------------------------- MODULE WorkspaceProofs ---------------------------
(***************************************************************************)
(* Theorems about the configuration and the discovery of scenario files in *)
(* Workspace, for any number of directories and whatever they hold.        *)
(***************************************************************************)
EXTENDS Workspace, SequenceTheorems, WellFoundedInduction, FiniteSetTheorems, TLAPS

-----------------------------------------------------------------------------
(* Paths of a configuration                                                *)

LEMMA FirstPrefixes ==
    ASSUME NEW S, NEW p \in Seq(S)
    PROVE  /\ SubSeq(p, 1, 0) = <<>> /\ SubSeq(p, 1, Len(p)) = p
           /\ Len(p) > 0 => SubSeq(p, 1, 1) = <<p[1]>>
<1>1. SubSeq(p, 1, 0) = <<>> /\ SubSeq(p, 1, Len(p)) = p
  BY SubSeqEmpty, SubSeqFull
<1>2. Len(p) > 0 => SubSeq(p, 1, 1) = <<p[1]>>
  <2> SUFFICES ASSUME Len(p) > 0 PROVE SubSeq(p, 1, 1) = <<p[1]>>
    OBVIOUS
  <2> DEFINE s == SubSeq(p, 1, 1)
             t == <<p[1]>>
  <2>1. s \in Seq(S) /\ Len(s) = 1 /\ s[1] = p[1]
    OBVIOUS
  <2>2. t \in Seq(S) /\ Len(t) = 1 /\ t[1] = p[1]
    OBVIOUS
  <2> HIDE DEF s, t
  <2>3. s = t
    BY <2>1, <2>2, SeqEqual
  <2> QED BY <2>3 DEF s, t
<1> QED BY <1>1, <1>2

LEMMA Tuples ==
    ASSUME NEW a, NEW b
    PROVE  /\ <<a>> \in Seq({a}) /\ Len(<<a>>) = 1 /\ <<a>>[1] = a
           /\ <<a, b>> \in Seq({a, b}) /\ Len(<<a, b>>) = 2 /\ <<a, b>>[1] = a /\ <<a, b>>[2] = b
  OBVIOUS

(* Every node on the way to a default is a mapping of the defaults.        *)
LEMMA DefaultsShape ==
    /\ DOMAIN Defaults = DefaultMaps \cup EmptyLists \cup {v.path : v \in DefaultValues}
    /\ \A p \in DefaultMaps : Defaults[p] = Map
    /\ \A p \in DOMAIN Defaults : \A n \in 0 .. Len(p) :
          SubSeq(p, 1, n) = p \/ SubSeq(p, 1, n) \in DefaultMaps
<1>1. /\ DOMAIN Defaults = DefaultMaps \cup EmptyLists \cup {v.path : v \in DefaultValues}
      /\ \A p \in DefaultMaps : Defaults[p] = Map
  BY DEF Defaults
<1> DEFINE Deep(p) == p = <<p[1], p[2]>> /\ <<p[1]>> \in DefaultMaps
<1>2. \A p \in DefaultMaps : p = <<>> \/ p = <<p[1]>>
  BY DEF DefaultMaps
<1>3. \A p \in EmptyLists : Deep(p)
  BY DEF EmptyLists, DefaultMaps
<1>4. \A v \in DefaultValues : Deep(v.path)
  BY DEF DefaultValues, DefaultMaps
<1>5. ASSUME NEW p \in DOMAIN Defaults, NEW n \in 0 .. Len(p)
      PROVE  SubSeq(p, 1, n) = p \/ SubSeq(p, 1, n) \in DefaultMaps
  <2>1. CASE p = <<>>
    BY <2>1
  <2>2. CASE p = <<p[1]>>
    <3>1. PICK S : p \in Seq(S) /\ Len(p) = 1
      <4>1. <<p[1]>> \in Seq({p[1]}) /\ Len(<<p[1]>>) = 1
        BY Tuples
      <4> QED BY <2>2, <4>1
    <3>2. SubSeq(p, 1, 0) = <<>> /\ SubSeq(p, 1, 1) = p
      BY <3>1, FirstPrefixes
    <3>3. n \in {0, 1} /\ <<>> \in DefaultMaps
      BY <1>5, <3>1 DEF DefaultMaps
    <3> QED BY <3>2, <3>3
  <2>3. CASE Deep(p)
    <3>1. PICK S : p \in Seq(S) /\ Len(p) = 2
      <4>1. <<p[1], p[2]>> \in Seq({p[1], p[2]}) /\ Len(<<p[1], p[2]>>) = 2
        BY Tuples
      <4> QED BY <2>3, <4>1
    <3>2. SubSeq(p, 1, 0) = <<>> /\ SubSeq(p, 1, 1) = <<p[1]>> /\ SubSeq(p, 1, 2) = p
      BY <3>1, FirstPrefixes
    <3>3. n \in {0, 1, 2} /\ <<>> \in DefaultMaps
      BY <1>5, <3>1 DEF DefaultMaps
    <3> QED BY <2>3, <3>2, <3>3
  <2>4. p \in DefaultMaps \/ p \in EmptyLists \/ \E v \in DefaultValues : p = v.path
    BY <1>1, <1>5
  <2> QED BY <1>2, <1>3, <1>4, <2>1, <2>2, <2>3, <2>4
<1> QED BY <1>1, <1>5

(* How long the paths of the schema are.                                   *)
LEMMA Lengths ==
    /\ \A p \in Lists \cup Limits \cup Timeouts : Len(p) = 2
    /\ \A p \in Urls : Len(p) = 3
    /\ \A p \in Texts : Len(p) \in Nat /\ Len(p) >= 2
<1>1. \A p \in Urls : Len(p) = 3
  BY DEF Urls
<1>2. \A p \in Lists \cup Limits \cup Timeouts : Len(p) = 2
  BY DEF Lists, Limits, Timeouts
<1>3. ASSUME NEW p \in Isolations, NEW k
      PROVE  Len(Append(p, k)) \in Nat /\ Len(Append(p, k)) >= 2
  <2>1. CASE p = <<"network", "hookIsolation">>
    BY <2>1
  <2>2. ASSUME NEW t \in Sides, p = <<"targets", t, "isolation">>
        PROVE  Len(Append(p, k)) \in Nat /\ Len(Append(p, k)) >= 2
    BY <2>2
  <2> QED BY <2>1, <2>2 DEF Isolations
<1>4. \A p \in Texts : Len(p) \in Nat /\ Len(p) >= 2
  BY <1>3, SMTT(60) DEF Texts
<1> QED BY <1>1, <1>2, <1>4

LEMMA FrontFacts ==
    ASSUME NEW S, NEW p \in Seq(S), p # <<>>
    PROVE  /\ Front(p) \in Seq(S) /\ Len(Front(p)) = Len(p) - 1
           /\ \A i \in 1 .. Len(p) - 1 : Front(p)[i] = p[i]
<1>1. Len(p) \in Nat /\ Len(p) >= 1 /\ \A i \in 1 .. Len(p) - 1 : p[i] \in S
  BY EmptySeq
<1> DEFINE n == Len(p) - 1
<1>2. n \in Int /\ 1 \in Int /\ \A i \in 1 .. n : p[i] \in S
  BY <1>1
<1>3. /\ SubSeq(p, 1, n) \in Seq(S) /\ Len(SubSeq(p, 1, n)) = IF 1 <= n THEN n - 1 + 1 ELSE 0
      /\ \A i \in 1 .. n - 1 + 1 : SubSeq(p, 1, n)[i] = p[1 + i - 1]
  <2> HIDE DEF n
  <2> QED BY <1>2, SubSeqProperties
<1>4. /\ (IF 1 <= n THEN n - 1 + 1 ELSE 0) = n
      /\ n - 1 + 1 = n /\ \A i \in 1 .. n : 1 + i - 1 = i
  <2>1. n \in Nat
    BY <1>1
  <2> HIDE DEF n
  <2> QED BY <2>1
<1>5. Front(p) = SubSeq(p, 1, n)
  BY DEF Front
<1>6. \A i \in 1 .. n : Front(p)[i] = p[i]
  <2> HIDE DEF n
  <2> QED BY <1>3, <1>4, <1>5
<1> QED BY <1>3, <1>4, <1>5, <1>6, Zenon

LEMMA FrontIs ==
    ASSUME NEW S, NEW p \in Seq(S), NEW t \in Seq(S), p # <<>>, Len(p) = Len(t) + 1,
           \A i \in 1 .. Len(t) : t[i] = p[i]
    PROVE  Front(p) = t
<1>1. Len(t) \in Nat /\ Len(p) - 1 = Len(t)
  OBVIOUS
<1>2. Front(p) \in Seq(S) /\ Len(Front(p)) = Len(t) /\ \A i \in 1 .. Len(t) : Front(p)[i] = t[i]
  BY <1>1, FrontFacts
<1> QED BY <1>2, SeqEqual

LEMMA FrontOfAppend ==
    ASSUME NEW S, NEW p \in Seq(S), NEW e
    PROVE  LET q == Append(p, e) IN q # <<>> /\ Last(q) = e /\ Front(q) = p
<1> DEFINE T == S \cup {e}
           q == Append(p, e)
<1>1. p \in Seq(T) /\ e \in T
  BY SeqMonotonic
<1> HIDE DEF T
<1>2. q \in Seq(T) /\ q # <<>> /\ Len(q) = Len(p) + 1 /\ q[Len(p) + 1] = e
  BY <1>1, AppendProperties
<1>3. \A i \in 1 .. Len(p) : p[i] = q[i]
  BY <1>1, AppendProperties
<1> HIDE DEF q
<1>4. Front(q) = p
  BY <1>1, <1>2, <1>3, FrontIs
<1> QED BY <1>2, <1>4 DEF q, Last

LEMMA Fronts ==
    ASSUME NEW a, NEW b, NEW c
    PROVE  Front(<<a>>) = <<>> /\ Front(<<a, b>>) = <<a>> /\ Front(<<a, b, c>>) = <<a, b>>
<1> DEFINE S == {a, b, c}
           q == <<a>>
           r == <<a, b>>
           s == <<a, b, c>>
<1>1. q \in Seq(S) /\ q # <<>> /\ Len(q) = 1 /\ q[1] = a
  OBVIOUS
<1>2. r \in Seq(S) /\ r # <<>> /\ Len(r) = 2 /\ r[1] = a /\ r[2] = b
  OBVIOUS
<1>3. s \in Seq(S) /\ s # <<>> /\ Len(s) = 3 /\ s[1] = a /\ s[2] = b
  OBVIOUS
<1> HIDE DEF S, q, r, s
<1> DEFINE e == <<>>
<1>4. e \in Seq(S) /\ Len(e) = 0
  BY EmptySeq
<1> HIDE DEF e
<1>5. /\ Len(q) = Len(e) + 1 /\ \A i \in 1 .. Len(e) : e[i] = q[i]
      /\ Len(r) = Len(q) + 1 /\ \A i \in 1 .. Len(q) : q[i] = r[i]
      /\ Len(s) = Len(r) + 1 /\ \A i \in 1 .. Len(r) : r[i] = s[i]
  BY <1>1, <1>2, <1>3, <1>4
<1>6. Front(q) = e
  BY <1>1, <1>4, <1>5, FrontIs
<1>7. Front(r) = q
  BY <1>1, <1>2, <1>5, FrontIs
<1>8. Front(s) = r
  BY <1>2, <1>3, <1>5, FrontIs
<1> QED BY <1>6, <1>7, <1>8 DEF e, q, r, s

(* Where the defaults have a mapping the schema has nothing else.          *)
LEMMA DefaultMapsAreMaps ==
    ASSUME NEW p \in DefaultMaps, NEW label, Allowed(p, label)
    PROVE  label.kind = "map"
<1>1. PICK S : p \in Seq(S) /\ (Len(p) = 0 \/ Len(p) = 1)
  <2>1. CASE p = <<>>
    BY <2>1, EmptySeq
  <2>2. CASE p = <<p[1]>>
    <3>1. <<p[1]>> \in Seq({p[1]}) /\ Len(<<p[1]>>) = 1
      BY Tuples
    <3> QED BY <2>2, <3>1
  <2>3. p = <<>> \/ p = <<p[1]>>
    BY DEF DefaultMaps
  <2> QED BY <2>1, <2>2, <2>3
<1>2. /\ p \notin Lists /\ p \notin Limits /\ p \notin Timeouts /\ p \notin Urls
      /\ p \notin Texts /\ ~IsHeader(p)
  <2>1. Len(p) # 2 /\ Len(p) # 3 /\ Len(p) # 4 /\ ~(Len(p) >= 2)
    <3> DEFINE n == Len(p)
    <3>1. n = 0 \/ n = 1
      BY <1>1
    <3> HIDE DEF n
    <3>2. n # 2 /\ n # 3 /\ n # 4 /\ ~(n >= 2)
      BY <3>1
    <3> QED BY <3>2 DEF n
  <2>2. p \notin Lists /\ p \notin Limits /\ p \notin Timeouts
    BY <2>1, Lengths, Zenon
  <2>3. p \notin Urls
    <3>1. \A q \in Urls : Len(q) = 3
      BY Lengths
    <3> QED BY <2>1, <3>1, Zenon
  <2>4. p \notin Texts
    <3>1. \A q \in Texts : Len(q) >= 2
      BY Lengths
    <3> QED BY <2>1, <3>1, Zenon
  <2>5. ~IsHeader(p)
    BY <2>1, Zenon DEF IsHeader
  <2> QED BY <2>2, <2>3, <2>4, <2>5
<1>3. p \notin {<<"sideEffects", "allowStateChanging">>, <<"network", "default">>}
  BY <1>1, SMTT(60)
<1>4. p # <<"schemaVersion">>
  BY DEF DefaultMaps
<1>5. ~IsReference(p)
  <2> SUFFICES ASSUME p # <<>>, Referable(Front(p)) PROVE FALSE
    BY DEF IsReference
  <2>1. Len(Front(p)) \in Nat /\ Len(Front(p)) <= 1
    BY <1>1, FrontFacts
  <2> QED BY <2>1, Lengths DEF Referable, IsHeader
<1> QED BY <1>2, <1>3, <1>4, <1>5 DEF Allowed, Referable

LEMMA DefaultsAreNoHeaders == \A p \in DOMAIN Defaults : Len(p) # 4
<1>1. \A p \in DefaultMaps : Len(p) # 4
  BY DEF DefaultMaps
<1>2. \A p \in EmptyLists : Len(p) # 4
  BY DEF EmptyLists
<1>3. \A v \in DefaultValues : Len(v.path) # 4
  BY DEF DefaultValues
<1> QED BY <1>1, <1>2, <1>3, DefaultsShape

(* What a header of a target is written as.                                *)
LEMMA HeadersAreTexts ==
    ASSUME NEW p, IsHeader(p), NEW label, Allowed(p, label)
    PROVE  label.kind \in {"text", "map"}
<1>1. Len(p) = 4
  BY DEF IsHeader
<1>2. p \notin Lists \cup Limits \cup Timeouts
  BY <1>1, Lengths
<1>3. p \notin {<<"sideEffects", "allowStateChanging">>, <<"network", "default">>,
               <<"schemaVersion">>}
  BY <1>1
<1> QED BY <1>2, <1>3 DEF Allowed

-----------------------------------------------------------------------------
(* The configuration                                                       *)

LEMMA TreeLabels ==
    ASSUME NEW doc, IsTree(doc), NEW p \in DOMAIN doc
    PROVE  /\ p \in Seq(STRING) /\ doc[p].value \in Seq(STRING)
           /\ doc[p].kind = "map" => doc[p] = Map
  BY DEF IsTree

(* mergeValues() loses nothing of a file that is loaded, and takes nothing *)
(* but what the file leaves open from the defaults.                        *)
LEMMA MergeCorrect ==
    ASSUME NEW file, NEW env, IsTree(file.doc), ConfigFault(file, env) = "none"
    PROVE  LET merged == Merge(Defaults, file.doc) IN
           /\ DOMAIN merged = DOMAIN file.doc \cup DOMAIN Defaults
           /\ \A p \in DOMAIN merged :
                 merged[p] = IF p \in DOMAIN file.doc THEN file.doc[p] ELSE Defaults[p]
<1> DEFINE doc == file.doc
           kept == [p \in Merged(Defaults, doc) |-> Defaults[p]]
           merged == Merge(Defaults, doc)
<1>1. Conforms(merged)
  BY DEF ConfigFault
<1>2. /\ DOMAIN merged = DOMAIN doc \cup Merged(Defaults, doc)
      /\ \A p \in DOMAIN doc : merged[p] = doc[p]
      /\ \A p \in Merged(Defaults, doc) : p \notin DOMAIN doc => merged[p] = Defaults[p]
  BY DEF Merge, Over
<1>3. ASSUME NEW p \in DefaultMaps, p \in DOMAIN doc
      PROVE  Defaults[p] = Map /\ doc[p] = Map
  <2>1. Allowed(p, doc[p])
    BY <1>1, <1>2, <1>3 DEF Conforms
  <2>2. doc[p].kind = "map"
    BY <2>1, DefaultMapsAreMaps
  <2> QED BY <1>3, <2>2, DefaultsShape, TreeLabels
<1>4. ASSUME NEW p \in DOMAIN Defaults, p \notin DOMAIN doc
      PROVE  p \in Merged(Defaults, doc)
  <2>1. ASSUME NEW n \in 0 .. Len(p), SubSeq(p, 1, n) \in DOMAIN doc
        PROVE  Defaults[SubSeq(p, 1, n)] = Map /\ doc[SubSeq(p, 1, n)] = Map
    <3>1. SubSeq(p, 1, n) \in DefaultMaps
      BY <1>4, <2>1, DefaultsShape
    <3> QED BY <1>3, <2>1, <3>1
  <2> QED BY <2>1 DEF Merged
<1>5. Merged(Defaults, doc) \subseteq DOMAIN Defaults
  BY DEF Merged
<1> HIDE DEF merged, doc
<1>6. DOMAIN merged = DOMAIN doc \cup DOMAIN Defaults
  BY <1>2, <1>4, <1>5
<1>7. \A p \in DOMAIN merged : merged[p] = IF p \in DOMAIN doc THEN doc[p] ELSE Defaults[p]
  BY <1>2, <1>4, <1>6
<1> QED BY <1>6, <1>7 DEF merged, doc

(* The client was led to its file by the option or past nothing, and what  *)
(* it has loaded is what the file held, which nobody rewrites.             *)
FromWorld ==
    \E world \in Worlds :
        /\ environment = world.environment /\ chosen = world.chosen /\ request = world.request
        /\ DOMAIN configs = 1 .. Depth
        /\ \A d \in 1 .. Depth : /\ DOMAIN configs[d] = {"node", "file"}
                                 /\ configs[d].file = world.configs[d].file

LedThere(c) ==
    /\ chosen # 0 => at[c] = chosen /\ step[c] # "inspecting"
    /\ chosen = 0 => \A d \in 1 .. at[c] - 1 : NothingThere(d)

IsLoaded(c) ==
    step[c] = "loaded" => /\ loaded[c] = LoadedConfig(configs[at[c]].file, environment)
                          /\ ConfigFault(configs[at[c]].file, environment) = "none"

ConfigInv ==
    /\ FromWorld
    /\ DOMAIN step = Clients /\ DOMAIN loaded = Clients /\ at \in [Clients -> 1 .. Depth]
    /\ \A c \in Clients : LedThere(c) /\ IsLoaded(c)

LEMMA WorldFacts ==
    ASSUME FromWorld
    PROVE  /\ chosen \in 0 .. Depth /\ DOMAIN configs = 1 .. Depth
           /\ \A d \in 1 .. Depth : DOMAIN configs[d] = {"node", "file"} /\ IsTree(configs[d].file.doc)
  BY WorkspaceAssumption DEF FromWorld, IsWorld

LEMMA ConfigInitially == Init => ConfigInv
<1> SUFFICES ASSUME Init PROVE ConfigInv
  OBVIOUS
<1>1. FromWorld
  BY WorkspaceAssumption DEF Init, FromWorld, IsWorld
<1>2. chosen \in 0 .. Depth /\ Depth \in Nat \ {0}
  BY <1>1, WorldFacts, WorkspaceAssumption
<1>3. /\ DOMAIN step = Clients /\ DOMAIN loaded = Clients /\ at \in [Clients -> 1 .. Depth]
      /\ \A c \in Clients : /\ step[c] = (IF chosen = 0 THEN "inspecting" ELSE "reading")
                            /\ at[c] = (IF chosen = 0 THEN 1 ELSE chosen)
  BY <1>2 DEF Init, ConfigInit
<1>4. \A c \in Clients : LedThere(c) /\ IsLoaded(c)
  BY <1>2, <1>3 DEF LedThere, IsLoaded
<1> QED BY <1>1, <1>3, <1>4 DEF ConfigInv

(* A client that loads keeps the invariant.                                *)
LEMMA LoadingKeepsConfig ==
    ASSUME ConfigInv, NEW c \in Clients, LoadConfig(c), UNCHANGED request
    PROVE  ConfigInv'
<1>1. UNCHANGED unchangedFiles
  BY DEF LoadConfig, InspectFile, InspectFails, Climb, ReadConfig
<1>2. FromWorld'
  BY <1>1 DEF ConfigInv, FromWorld, unchangedFiles
<1>3. \A d : NothingThere(d)' <=> NothingThere(d)
  BY <1>1 DEF NothingThere, unchangedFiles
<1>4. Depth \in Nat \ {0}
  BY WorkspaceAssumption
<1> USE DEF ConfigInv
<1>5. CASE InspectFile(c)
  <2>1. /\ DOMAIN step' = Clients /\ UNCHANGED <<at, loaded, chosen>>
        /\ step'[c] = "reading" /\ step[c] = "inspecting"
        /\ \A e \in Clients \ {c} : step'[e] = step[e]
    BY <1>5 DEF InspectFile, unchangedFiles
  <2>2. \A e \in Clients : LedThere(e)' /\ IsLoaded(e)'
    BY <1>1, <1>3, <2>1 DEF LedThere, IsLoaded, unchangedFiles
  <2> QED BY <1>2, <2>1, <2>2
<1>6. ASSUME NEW code, FailConfig(c, code)
      PROVE  ConfigInv'
  <2>1. /\ DOMAIN step' = Clients /\ UNCHANGED <<at, loaded, chosen>>
        /\ step'[c] = "failed"
        /\ \A e \in Clients \ {c} : step'[e] = step[e]
    BY <1>1, <1>6 DEF FailConfig, unchangedFiles
  <2>2. \A e \in Clients : LedThere(e)' /\ IsLoaded(e)'
    BY <1>1, <1>3, <2>1 DEF LedThere, IsLoaded, unchangedFiles
  <2> QED BY <1>2, <2>1, <2>2
<1>7. CASE Climb(c) /\ ~IsRoot(at[c])
  <2>1. /\ UNCHANGED <<step, loaded, chosen>> /\ at' \in [Clients -> 1 .. Depth]
        /\ at'[c] = at[c] + 1 /\ \A e \in Clients \ {c} : at'[e] = at[e]
        /\ step[c] = "inspecting" /\ NothingThere(at[c])
    BY <1>4, <1>7 DEF Climb, IsRoot, unchangedFiles
  <2>2. LedThere(c)' /\ IsLoaded(c)'
    <3>1. chosen' = 0
      BY <2>1 DEF LedThere
    <3>2. ASSUME NEW d \in 1 .. at'[c] - 1
          PROVE  NothingThere(d)'
      <4>1. at[c] \in Nat /\ (d \in 1 .. at[c] - 1 \/ d = at[c])
        BY <1>4, <2>1
      <4> QED BY <1>3, <2>1, <3>1, <4>1 DEF LedThere
    <3>3. step'[c] # "loaded"
      BY <2>1
    <3> QED BY <3>1, <3>2, <3>3 DEF LedThere, IsLoaded
  <2>3. \A e \in Clients \ {c} : LedThere(e)' /\ IsLoaded(e)'
    BY <1>1, <1>3, <2>1 DEF LedThere, IsLoaded, unchangedFiles
  <2> QED BY <1>2, <2>1, <2>2, <2>3
<1>8. CASE ReadConfig(c) /\ ~\E code : FailConfig(c, code)
  <2>1. /\ UNCHANGED <<at, chosen>> /\ DOMAIN step' = Clients /\ DOMAIN loaded' = Clients
        /\ step'[c] = "loaded" /\ step[c] = "reading"
        /\ loaded'[c] = LoadedConfig(configs[at[c]].file, environment)
        /\ ConfigFault(configs[at[c]].file, environment) = "none"
        /\ \A e \in Clients \ {c} : step'[e] = step[e] /\ loaded'[e] = loaded[e]
    BY <1>8 DEF ReadConfig, unchangedFiles
  <2>2. \A e \in Clients : LedThere(e)' /\ IsLoaded(e)'
    BY <1>1, <1>3, <2>1 DEF LedThere, IsLoaded, unchangedFiles
  <2> QED BY <1>2, <2>1, <2>2
<1> QED BY <1>5, <1>6, <1>7, <1>8 DEF LoadConfig, InspectFails, Climb

(* Nor does one who removes a file: that makes nothing of something.       *)
LEMMA RemovalKeepsConfig ==
    ASSUME ConfigInv, NEW d \in DOMAIN configs, RemoveConfig(d), UNCHANGED request
    PROVE  ConfigInv'
<1> USE DEF ConfigInv
<1>1. UNCHANGED <<environment, chosen, step, at, loaded, configFault, request>>
  BY DEF RemoveConfig
<1>2. DOMAIN configs = 1 .. Depth /\ \A e \in 1 .. Depth : DOMAIN configs[e] = {"node", "file"}
  BY DEF FromWorld
<1>3. /\ DOMAIN configs' = 1 .. Depth /\ configs'[d].node = "missing"
      /\ configs'[d].file = configs[d].file /\ DOMAIN configs'[d] = {"node", "file"}
      /\ \A e \in 1 .. Depth \ {d} : configs'[e] = configs[e]
  BY <1>2 DEF RemoveConfig
<1>4. \A e \in 1 .. Depth : configs'[e].file = configs[e].file /\ DOMAIN configs'[e] = {"node", "file"}
  BY <1>2, <1>3
<1>5. FromWorld'
  BY <1>1, <1>3, <1>4 DEF FromWorld
<1>6. \A e \in 1 .. Depth : NothingThere(e) => NothingThere(e)'
  BY <1>3 DEF NothingThere
<1>7. ASSUME NEW c \in Clients
      PROVE  LedThere(c)' /\ IsLoaded(c)'
  <2>1. at[c] \in 1 .. Depth /\ Depth \in Nat
    BY WorkspaceAssumption
  <2>2. \A e \in 1 .. at[c] - 1 : e \in 1 .. Depth
    BY <2>1
  <2> QED BY <1>1, <1>4, <1>6, <2>1, <2>2 DEF LedThere, IsLoaded
<1> QED BY <1>1, <1>5, <1>7

LEMMA ConfigStays ==
    ASSUME ConfigInv, UNCHANGED <<configVars, request>>
    PROVE  ConfigInv'
<1>1. /\ UNCHANGED <<configs, environment, chosen, step, at, loaded, request>>
      /\ \A d : NothingThere(d)' <=> NothingThere(d)
  BY DEF configVars, NothingThere
<1>2. FromWorld'
  BY <1>1 DEF ConfigInv, FromWorld
<1>3. \A c \in Clients : LedThere(c)' /\ IsLoaded(c)'
  BY <1>1 DEF ConfigInv, LedThere, IsLoaded
<1> QED BY <1>1, <1>2, <1>3 DEF ConfigInv

LEMMA ConfigInductive == ConfigInv /\ [Next]_vars => ConfigInv'
<1> SUFFICES ASSUME ConfigInv, [Next]_vars PROVE ConfigInv'
  OBVIOUS
<1>1. CASE CaptureLoads \/ VerifyLoads
  <2>1. UNCHANGED request /\ \E c \in Clients : LoadConfig(c)
    BY <1>1, WorkspaceAssumption DEF CaptureLoads, VerifyLoads, captureVars
  <2> QED BY <2>1, LoadingKeepsConfig
<1>2. CASE ReadInput \/ Prepare \/ Persist \/ Search \/ PrepareRequest
  <2>1. UNCHANGED <<configVars, request>>
    BY <1>2 DEF ReadInput, Prepare, Persist, Search, PrepareRequest, captureVars
  <2> QED BY <2>1, ConfigStays
<1>3. CASE Disturb
  <2>1. UNCHANGED request
    BY <1>3 DEF Disturb, captureVars
  <2>2. (\E d \in DOMAIN configs : RemoveConfig(d)) \/ UNCHANGED configVars
    BY <1>3 DEF Disturb
  <2> QED BY <2>1, <2>2, RemovalKeepsConfig, ConfigStays
<1>4. CASE UNCHANGED vars
  BY <1>4, ConfigStays DEF vars, captureVars
<1> QED BY <1>1, <1>2, <1>3, <1>4 DEF Next, CaptureStep, VerifyStep

LEMMA ConfigInvariant == Spec => []ConfigInv
<1> QED BY ConfigInitially, ConfigInductive, PTL DEF Spec

(* Whatever the files hold and whoever removes them meanwhile, a client    *)
(* that has loaded a configuration has every setting of the file that      *)
(* decides, and a default only where that file says nothing.               *)
THEOREM ConfigurationCorrect == Spec => []EffectiveConfigIsDeclared
<1>1. ASSUME ConfigInv PROVE EffectiveConfigIsDeclared
  <2> SUFFICES ASSUME NEW c \in Clients, step[c] = "loaded"
               PROVE  LET declared  == configs[at[c]].file.doc
                          effective == loaded[c].hashed
                      IN  /\ Decides(c)
                          /\ DOMAIN effective = DOMAIN declared \cup DOMAIN Defaults
                          /\ \A p \in DOMAIN effective :
                                effective[p] = IF p \in DOMAIN declared THEN declared[p]
                                               ELSE Defaults[p]
    BY DEF EffectiveConfigIsDeclared
  <2>1. at[c] \in 1 .. Depth /\ LedThere(c) /\ IsLoaded(c) /\ FromWorld
    BY <1>1 DEF ConfigInv
  <2>2. chosen \in 0 .. Depth /\ IsTree(configs[at[c]].file.doc)
    BY <2>1, WorldFacts
  <2>3. Decides(c)
    BY <2>1, <2>2 DEF Decides, LedThere, NothingThere
  <2>4. /\ ConfigFault(configs[at[c]].file, environment) = "none"
        /\ loaded[c].hashed = Merge(Defaults, configs[at[c]].file.doc)
    BY <2>1 DEF IsLoaded, LoadedConfig
  <2> DEFINE file == configs[at[c]].file
             merged == Merge(Defaults, file.doc)
  <2>5. /\ DOMAIN merged = DOMAIN file.doc \cup DOMAIN Defaults
        /\ \A p \in DOMAIN merged :
              merged[p] = IF p \in DOMAIN file.doc THEN file.doc[p] ELSE Defaults[p]
    BY <2>2, <2>4, MergeCorrect
  <2> HIDE DEF merged
  <2> QED BY <2>3, <2>4, <2>5 DEF merged
<1> QED BY <1>1, ConfigInvariant, PTL

(* A configuration names the URL of each target.                           *)
LEMMA UrlsAreThere ==
    ASSUME NEW doc, Conforms(doc), <<>> \in DOMAIN doc, NEW t \in Sides
    PROVE  <<"targets", t, "url">> \in DOMAIN doc
<1>1. <<"targets">> \in Required
  BY DEF Required, Maps, Optional, HeaderMaps, Isolations
<1>2. <<"targets", t>> \in Required
  <2>1. <<"targets", t>> \in Maps
    BY DEF Maps
  <2>2. <<"targets", t>> \notin Optional \cup {<<>>}
    BY DEF Optional, HeaderMaps, Isolations
  <2> QED BY <2>1, <2>2 DEF Required
<1>3. <<"targets", t, "url">> \in Required
  <2>1. <<"targets", t, "url">> \in Urls
    BY DEF Urls
  <2>2. <<"targets", t, "url">> \notin Optional \cup {<<>>}
    BY DEF Optional, HeaderMaps, Isolations
  <2> QED BY <2>1, <2>2 DEF Required
<1>4. \A p \in Required : Front(p) \in DOMAIN doc => p \in DOMAIN doc
  BY DEF Conforms
<1>5. <<"targets">> \in DOMAIN doc
  BY <1>1, <1>4, Fronts
<1>6. <<"targets", t>> \in DOMAIN doc
  BY <1>2, <1>4, <1>5, Fronts
<1> QED BY <1>3, <1>4, <1>6, Fronts

(* The policy of redaction is not touched by the environment.              *)
LEMMA PolicyStays ==
    ASSUME NEW doc, NEW env, NEW k \in {"headers", "jsonPaths"}, <<"redaction", k>> \in DOMAIN doc
    PROVE  /\ <<"redaction", k>> \in DOMAIN Resolved(doc, env)
           /\ Resolved(doc, env)[<<"redaction", k>>] = doc[<<"redaction", k>>]
<1> DEFINE p == <<"redaction", k>>
<1>1. ~IsReference(p)
  BY DEF IsReference, Last
<1>2. ~Referable(p)
  BY DEF Referable, Urls, IsHeader
<1>3. Append(p, "env") \notin References(doc)
  <2>1. Front(Append(p, "env")) = p
    <3>1. p \in Seq({"redaction", k})
      BY Tuples
    <3> HIDE DEF p
    <3> QED BY <3>1, FrontOfAppend
  <2> QED BY <1>2, <2>1 DEF References, IsReference
<1> QED BY <1>1, <1>3 DEF Resolved, References

(* A reference in the place of a header is replaced.                       *)
LEMMA HeadersAreResolved ==
    ASSUME NEW doc, NEW env, NEW S, NEW p \in Seq(S), p \in DOMAIN Resolved(doc, env),
           IsHeader(p), doc[p].kind = "map", Conforms(doc),
           \A q \in References(doc) : doc[q].value[1] \in DOMAIN env
    PROVE  Resolved(doc, env)[p].value[1] \in {env[v] : v \in DOMAIN env}
<1> DEFINE q == Append(p, "env")
<1>1. p \in DOMAIN doc /\ Referable(p)
  BY DEF Resolved, Referable
<1>2. q \in DOMAIN doc
  BY <1>1 DEF Conforms
<1>3. q # <<>> /\ Last(q) = "env" /\ Front(q) = p
  BY FrontOfAppend
<1>4. q \in References(doc)
  BY <1>1, <1>2, <1>3 DEF References, IsReference
<1>5. Resolved(doc, env)[p] = Text(env[doc[q].value[1]])
  BY <1>4 DEF Resolved
<1>6. Resolved(doc, env)[p].value[1] = env[doc[q].value[1]]
  BY <1>5 DEF Text
<1> QED BY <1>4, <1>6

(* Whatever files and environment the commands find, if no variable has    *)
(* the value of a literal of them: a header whose name is sensitive, in    *)
(* whatever case, has its value from the environment, and neither the      *)
(* hashed configuration nor the evidence has one of the environment.       *)
THEOREM SecretsCorrect ==
    ASSUME \A world \in Worlds : SecretsAreDistinct(world)
    PROVE  Spec => []SecretsStayInTheEnvironment
<1>1. ASSUME ConfigInv PROVE SecretsStayInTheEnvironment
  <2> DEFINE secrets == {environment[v] : v \in DOMAIN environment}
  <2>1. ASSUME NEW c \in Clients, step[c] = "loaded"
        PROVE  LET config == loaded[c].config IN
               /\ \A p \in DOMAIN config :
                     IsHeader(p) /\ (\/ Lower[p[4]] \in BuiltInSensitive
                                     \/ \E h \in ToSet(config[<<"redaction", "headers">>].value) :
                                           Lower[h] = Lower[p[4]])
                     => config[p].value[1] \in secrets
               /\ \A p \in DOMAIN loaded[c].hashed :
                     ToSet(loaded[c].hashed[p].value) \cap secrets = {}
               /\ \A t \in Sides : loaded[c].evidenceTargets[t] \notin secrets
    <3> DEFINE file == configs[at[c]].file
               doc == file.doc
               merged == Merge(Defaults, doc)
               config == Resolved(merged, environment)
    <3>1. at[c] \in 1 .. Depth /\ IsLoaded(c) /\ FromWorld /\ IsTree(doc)
      BY <1>1, WorldFacts DEF ConfigInv
    <3>2. /\ ConfigFault(file, environment) = "none"
          /\ loaded[c] = [config |-> config, hashed |-> merged,
                          evidenceTargets |-> [t \in Sides |-> EvidenceTarget(merged, t)]]
      BY <2>1, <3>1, SMTT(30) DEF IsLoaded, LoadedConfig
    <3>3. /\ Conforms(merged) /\ ~HasInlineSecret(merged)
          /\ \A q \in References(merged) : merged[q].value[1] \in DOMAIN environment
      BY <3>2 DEF ConfigFault
    <3>4. /\ DOMAIN merged = DOMAIN doc \cup DOMAIN Defaults
          /\ \A p \in DOMAIN merged : merged[p] = IF p \in DOMAIN doc THEN doc[p] ELSE Defaults[p]
      BY <3>1, <3>2, MergeCorrect
    <3>5. PICK world \in Worlds : /\ environment = world.environment
                                  /\ doc = world.configs[at[c]].file.doc
      BY <3>1 DEF FromWorld
    <3>6. ASSUME NEW secret \in secrets
          PROVE  /\ secret # "[environment reference]"
                 /\ \A p \in DOMAIN Defaults : secret \notin ToSet(Defaults[p].value)
                 /\ \A p \in DOMAIN doc :
                       /\ secret \notin ToSet(doc[p].value)
                       /\ p \in Urls /\ doc[p].kind # "map" => secret # Origin[doc[p].value[1]]
      <4>1. SecretsAreDistinct(world)
        OBVIOUS
      <4>2. PICK v \in DOMAIN world.environment : secret = world.environment[v]
        BY <3>5
      <4> HIDE DEF secrets
      <4>3. /\ secret # "[environment reference]"
            /\ \A p \in DOMAIN Defaults : secret \notin ToSet(Defaults[p].value)
            /\ \A d \in 1 .. Depth : \A p \in DOMAIN world.configs[d].file.doc :
                  /\ secret \notin ToSet(world.configs[d].file.doc[p].value)
                  /\ p \in Urls /\ world.configs[d].file.doc[p].kind # "map"
                     => secret # Origin[world.configs[d].file.doc[p].value[1]]
        BY <4>1, <4>2, Zenon DEF SecretsAreDistinct
      <4> QED BY <3>1, <3>5, <4>3
    <3> HIDE DEF merged
    <3>7. \A p \in DOMAIN merged : ToSet(merged[p].value) \cap secrets = {}
      BY <3>4, <3>6
    <3>8. ASSUME NEW t \in Sides
          PROVE  EvidenceTarget(merged, t) \notin secrets
      <4> DEFINE p == <<"targets", t, "url">>
      <4>1. <<>> \in DOMAIN Defaults /\ p \notin DOMAIN Defaults /\ p \in Urls
        BY DefaultsShape DEF DefaultMaps, EmptyLists, DefaultValues, Urls
      <4>2. p \in DOMAIN doc /\ merged[p] = doc[p]
        BY <3>3, <3>4, <4>1, UrlsAreThere
      <4> HIDE DEF p
      <4>3. CASE doc[p].kind = "map"
        BY <3>6, <4>2, <4>3, ZenonT(60) DEF EvidenceTarget, p
      <4>4. CASE doc[p].kind # "map"
        BY <3>6, <4>1, <4>2, <4>4 DEF EvidenceTarget, p
      <4> QED BY <4>3, <4>4
    <3>9. <<"redaction", "headers">> \in DOMAIN Defaults
      BY DefaultsShape DEF DefaultValues
    <3>10. config[<<"redaction", "headers">>] = merged[<<"redaction", "headers">>]
      BY <3>4, <3>9, PolicyStays
    <3>11. ASSUME NEW p \in DOMAIN config, IsHeader(p),
                  \/ Lower[p[4]] \in BuiltInSensitive
                  \/ \E h \in ToSet(config[<<"redaction", "headers">>].value) : Lower[h] = Lower[p[4]]
           PROVE  config[p].value[1] \in secrets
      <4>1. p \in DOMAIN merged
        BY <3>11 DEF Resolved
      <4>2. Lower[p[4]] \in Sensitive(merged)
        BY <3>10, <3>11 DEF Sensitive
      <4>3. merged[p].kind = "map"
        <5>1. merged[p].kind # "text"
          BY <3>3, <3>11, <4>1, <4>2 DEF HasInlineSecret
        <5>2. Allowed(p, merged[p])
          BY <3>3, <4>1 DEF Conforms
        <5> QED BY <3>11, <5>1, <5>2, HeadersAreTexts
      <4>4. p \in Seq(STRING)
        <5>1. p \in DOMAIN doc
          BY <3>4, <3>11, <4>1, DefaultsAreNoHeaders DEF IsHeader
        <5> QED BY <3>1, <5>1, TreeLabels
      <4> QED BY <3>3, <3>11, <4>3, <4>4, HeadersAreResolved
    <3> QED BY <3>2, <3>7, <3>8, <3>11
  <2> QED BY <2>1 DEF SecretsStayInTheEnvironment
<1> QED BY <1>1, ConfigInvariant, PTL

-----------------------------------------------------------------------------
(* The order of the files                                                  *)

LEMMA NatLeast ==
    ASSUME NEW T, T \subseteq Nat, T # {}
    PROVE  \E x \in T : \A y \in T : x <= y
<1>1. PICK x \in T : \A y \in T : ~(<<y, x>> \in OpToRel(<, Nat))
  <2>1. \E x \in T : \A y \in T : ~(<<y, x>> \in OpToRel(<, Nat))
    BY NatLessThanWellFounded, WFMin
  <2> QED BY <2>1
<1>2. OpToRel(<, Nat) = {ss \in Nat \X Nat : ss[1] < ss[2]}
  BY DEF OpToRel
<1>3. ASSUME NEW y \in T PROVE ~(y < x)
  <2>1. x \in Nat /\ y \in Nat
    OBVIOUS
  <2>2. y < x => <<y, x>> \in {ss \in Nat \X Nat : ss[1] < ss[2]}
    BY <2>1
  <2> QED BY <1>1, <1>2, <2>2
<1> QED BY <1>3

(* Of any files there is one that is before the others.                    *)
LEMMA FirstFile ==
    ASSUME NEW T, T \subseteq Nat \X Nat, T # {}
    PROVE  \E f \in T : \A g \in T \ {f} : Before(f, g)
<1> DEFINE A == {f[1] : f \in T}
<1>1. PICK a \in A : \A x \in A : a <= x
  <2>1. A \subseteq Nat /\ A # {}
    OBVIOUS
  <2> HIDE DEF A
  <2> QED BY <2>1, NatLeast
<1> DEFINE B == {k \in Nat : <<a, k>> \in T}
<1>2. PICK b \in B : \A x \in B : b <= x
  <2>1. \E f \in T : f[1] = a /\ f[2] \in Nat /\ f = <<a, f[2]>>
    BY <1>1
  <2>2. B \subseteq Nat /\ B # {}
    BY <2>1
  <2> HIDE DEF B
  <2> QED BY <2>2, NatLeast
<1>3. ASSUME NEW g \in T, g # <<a, b>>
      PROVE  Before(<<a, b>>, g)
  <2>1. g[1] \in Nat /\ g[2] \in Nat /\ g = <<g[1], g[2]>> /\ a \in Nat /\ b \in Nat
    BY <1>1, <1>2, <1>3
  <2>2. a <= g[1]
    BY <1>1
  <2>3. CASE a < g[1]
    BY <2>3 DEF Before
  <2>4. CASE a = g[1]
    <3>1. g[2] \in B /\ g[2] # b
      BY <1>3, <2>1, <2>4
    <3>2. b < g[2]
      BY <1>2, <2>1, <3>1
    <3> QED BY <2>4, <3>2 DEF Before
  <2> QED BY <2>1, <2>2, <2>3, <2>4
<1> QED BY <1>2, <1>3

IsOrder(s, files) ==
    /\ s \in [1 .. Cardinality(files) -> files] /\ ToSet(s) = files
    /\ \A i, j \in DOMAIN s : i < j => Before(s[i], s[j])

(* They are put in order by putting the first before the rest.             *)
LEMMA FirstAndRest ==
    ASSUME NEW T, IsFiniteSet(T), NEW f \in T, \A g \in T \ {f} : Before(f, g),
           NEW r, IsOrder(r, T \ {f})
    PROVE  \E s : IsOrder(s, T)
<1> DEFINE n == Cardinality(T)
           s == [i \in 1 .. n |-> IF i = 1 THEN f ELSE r[i - 1]]
<1>1. n \in Nat /\ n >= 1 /\ Cardinality(T \ {f}) = n - 1
  BY FS_CardinalityType, FS_RemoveElement, FS_EmptySet
<1>2. /\ DOMAIN r = 1 .. n - 1 /\ \A i \in 1 .. n - 1 : r[i] \in T \ {f}
      /\ {r[i] : i \in 1 .. n - 1} = T \ {f}
      /\ \A i, j \in 1 .. n - 1 : i < j => Before(r[i], r[j])
  BY <1>1 DEF IsOrder, ToSet
<1> HIDE DEF n
<1>3. /\ DOMAIN s = 1 .. n /\ s[1] = f
      /\ \A i \in 2 .. n : i - 1 \in 1 .. n - 1 /\ s[i] = r[i - 1]
  BY <1>1
<1>4. s \in [1 .. n -> T]
  BY <1>1, <1>2
<1>5. {s[i] : i \in 1 .. n} = T
  <2>1. ASSUME NEW g \in T \ {f} PROVE \E i \in 1 .. n : s[i] = g
    <3>1. PICK j \in 1 .. n - 1 : r[j] = g
      BY <1>2
    <3>2. j + 1 \in 2 .. n /\ (j + 1) - 1 = j
      BY <1>1
    <3> QED BY <1>3, <3>1, <3>2
  <2>2. 1 \in 1 .. n
    BY <1>1
  <2> HIDE DEF s
  <2> QED BY <1>3, <1>4, <2>1, <2>2
<1>6. ASSUME NEW i \in 1 .. n, NEW j \in 1 .. n, i < j
      PROVE  Before(s[i], s[j])
  <2>1. j \in 2 .. n /\ s[j] = r[j - 1] /\ j - 1 \in 1 .. n - 1
    BY <1>1, <1>3, <1>6
  <2>2. CASE i = 1
    BY <1>2, <1>3, <2>1, <2>2
  <2>3. CASE i # 1
    <3>1. i \in 2 .. n /\ i - 1 \in 1 .. n - 1 /\ i - 1 < j - 1 /\ s[i] = r[i - 1]
      BY <1>1, <1>3, <1>6, <2>1, <2>3
    <3> QED BY <1>2, <2>1, <3>1
  <2> QED BY <2>2, <2>3
<1>7. IsOrder(s, T)
  <2> HIDE DEF s
  <2> QED BY <1>3, <1>4, <1>5, <1>6 DEF IsOrder, ToSet, n
<1> QED BY <1>7

(* So a smallest set of files that has no order does not exist.            *)
LEMMA SortedCorrect ==
    ASSUME NEW T, IsFiniteSet(T), T \subseteq Nat \X Nat
    PROVE  IsOrder(Sorted(T), T)
<1> DEFINE Bad == {n \in Nat : \E U \in SUBSET (Nat \X Nat) :
                      IsFiniteSet(U) /\ Cardinality(U) = n /\ ~\E s : IsOrder(s, U)}
<1>1. ASSUME Bad # {} PROVE FALSE
  <2>1. PICK n \in Bad : \A m \in Bad : n <= m
    <3>1. Bad \subseteq Nat
      OBVIOUS
    <3> HIDE DEF Bad
    <3> QED BY <1>1, <3>1, NatLeast
  <2>2. PICK U \in SUBSET (Nat \X Nat) :
           IsFiniteSet(U) /\ Cardinality(U) = n /\ ~\E s : IsOrder(s, U)
    BY <2>1
  <2>3. CASE U = {}
    <3> DEFINE e == [i \in 1 .. 0 |-> 0]
    <3>1. Cardinality(U) = 0
      BY <2>3, FS_EmptySet
    <3>2. e \in [1 .. 0 -> {}] /\ DOMAIN e = {} /\ ToSet(e) = {}
      BY DEF ToSet
    <3>3. IsOrder(e, U)
      <4> HIDE DEF e
      <4> QED BY <2>3, <3>1, <3>2 DEF IsOrder
    <3> QED BY <2>2, <3>3
  <2>4. CASE U # {}
    <3>1. PICK f \in U : \A g \in U \ {f} : Before(f, g)
      BY <2>4, FirstFile
    <3>2. IsFiniteSet(U \ {f}) /\ Cardinality(U \ {f}) = n - 1
      BY <2>2, FS_RemoveElement
    <3>3. n \in Nat /\ n # 0
      BY <2>1, <2>2, <2>4, FS_EmptySet
    <3>4. n - 1 \notin Bad
      BY <2>1, <3>3
    <3>5. n - 1 \in Nat /\ U \ {f} \in SUBSET (Nat \X Nat)
      BY <3>3
    <3>6. PICK r : IsOrder(r, U \ {f})
      BY <3>2, <3>4, <3>5
    <3> QED BY <2>2, <3>1, <3>6, FirstAndRest
  <2> QED BY <2>3, <2>4
<1>2. \E s : IsOrder(s, T)
  BY <1>1, FS_CardinalityType
<1>3. \E s \in [1 .. Cardinality(T) -> T] :
         /\ ToSet(s) = T
         /\ \A i, j \in DOMAIN s : i < j => Before(s[i], s[j])
  BY <1>2 DEF IsOrder
<1> QED BY <1>3 DEF Sorted, IsOrder

-----------------------------------------------------------------------------
(* The search                                                              *)

DirInv ==
    /\ DOMAIN dir = 1 .. Depth
    /\ \A d \in 1 .. Depth : \A n \in DOMAIN dir[d] : n \in Nat \ {0} /\ dir[d][n].to \in Nat \X Nat
    /\ DOMAIN capture = {"phase", "draft", "code"}
    /\ capture.phase = "persisting" => capture.draft.id = request.input.id

(* What is found is a file below the root, if it is still there.           *)
FoundInv ==
    /\ search.root \in Nat /\ search.match \in YamlFiles \cup {0}
    /\ IsFiniteSet(search.found) /\ search.found \subseteq Nat \X Nat
    /\ \A f \in search.found : WithinRoot(f) /\ (Exists(f) => Entry(f).kind = "file")

(* A match that is done with has led to its file, if both have been there. *)
Examined(n) ==
    <<search.root, n>> \in search.present =>
        LET file == RealPath(<<search.root, n>>) IN
        file \in search.present /\ Entry(file).kind = "file" => file \in search.found

SearchInv ==
    /\ DOMAIN search = DOMAIN NoSearch
    /\ search.phase = "idle" => search = NoSearch
    /\ \A f \in search.present : f \in Nat \X Nat /\ Exists(f)
    /\ \A n \in Included(search.patterns) \cap YamlFiles \cap search.seen :
          n # search.match => Examined(n)
    /\ search.phase \in {"reading", "selected"} =>
          /\ search.match = 0 /\ search.files = Sorted(search.found)
          /\ \A n \in Included(search.patterns) :
                <<search.root, n>> \in search.present => n \in search.seen

DiscoveryInv == ConfigInv /\ DirInv /\ FoundInv /\ SearchInv

LEMMA DiscoveryInitially == Init => DiscoveryInv
<1> SUFFICES ASSUME Init PROVE DiscoveryInv
  OBVIOUS
<1>1. ConfigInv
  BY ConfigInitially
<1>2. search = NoSearch
  BY DEF Init, SearchInit
<1>3. DirInv
  BY WorkspaceAssumption DEF Init, DirInv, IsWorld
<1>4. FoundInv
  BY <1>2, FS_EmptySet DEF FoundInv, NoSearch
<1>5. SearchInv
  BY <1>2 DEF SearchInv, NoSearch
<1> QED BY <1>1, <1>3, <1>4, <1>5 DEF DiscoveryInv

(* It is enough for the property.                                          *)
LEMMA DiscoveryEnough ==
    ASSUME DiscoveryInv PROVE DiscoveryIsComplete
<1> SUFFICES ASSUME search.phase \in {"reading", "selected"}
             PROVE  /\ \A i, j \in DOMAIN search.files :
                          i < j => Before(search.files[i], search.files[j])
                    /\ \A f \in ToSet(search.files) :
                          WithinRoot(f) /\ (Exists(f) => Entry(f).kind = "file")
                    /\ \A n \in Included(search.patterns) \cap YamlFiles :
                          <<search.root, n>> \in search.present =>
                             LET file == RealPath(<<search.root, n>>) IN
                             file \in search.present /\ Entry(file).kind = "file"
                                => file \in ToSet(search.files)
  BY DEF DiscoveryIsComplete
<1>1. FoundInv /\ SearchInv
  BY DEF DiscoveryInv
<1>2. IsOrder(search.files, search.found)
  BY <1>1, SortedCorrect DEF FoundInv, SearchInv
<1>3. /\ ToSet(search.files) = search.found
      /\ \A i, j \in DOMAIN search.files : i < j => Before(search.files[i], search.files[j])
  BY <1>2 DEF IsOrder
<1>4. \A f \in search.found : WithinRoot(f) /\ (Exists(f) => Entry(f).kind = "file")
  BY <1>1 DEF FoundInv
<1>5. ASSUME NEW n \in Included(search.patterns) \cap YamlFiles,
             <<search.root, n>> \in search.present
      PROVE  Examined(n)
  <2>1. n \in search.seen /\ n # search.match
    BY <1>1, <1>5, WorkspaceAssumption DEF SearchInv
  <2> QED BY <1>1, <1>5, <2>1 DEF SearchInv
<1> QED BY <1>3, <1>4, <1>5 DEF Examined

(* A search that fails, or is not touched, keeps what it has.              *)
LEMMA SearchStays ==
    ASSUME DiscoveryInv, ConfigInv', UNCHANGED <<dir, request, capture>>,
           search' = search \/ \E code : FailSearch(code)
    PROVE  DiscoveryInv'
<1>1. DOMAIN search = DOMAIN NoSearch
  BY DEF DiscoveryInv, SearchInv
<1>2. /\ DOMAIN search' = DOMAIN NoSearch
      /\ search'.root = search.root /\ search'.patterns = search.patterns
      /\ search'.present = search.present /\ search'.seen = search.seen
      /\ search'.match = search.match /\ search'.found = search.found
      /\ search'.files = search.files
      /\ search' = search \/ search'.phase = "failed"
  BY <1>1 DEF FailSearch, NoSearch
<1>3. DirInv'
  BY DEF DiscoveryInv, DirInv
<1>4. FoundInv'
  BY <1>2 DEF DiscoveryInv, FoundInv, WithinRoot, Exists, Entry
<1>5. \A n : Examined(n)' <=> Examined(n)
  BY <1>2 DEF Examined, RealPath, Entry
<1>6. SearchInv'
  <2>1. (search.phase # "idle" \/ search = NoSearch) => (search'.phase = "idle" => search' = NoSearch)
    BY <1>2
  <2> QED BY <1>2, <1>5, <2>1 DEF DiscoveryInv, SearchInv, Exists
<1> QED BY <1>3, <1>4, <1>6 DEF DiscoveryInv

(* The search begins with every file that is there.                        *)
LEMMA DiscoverKeeps ==
    ASSUME DiscoveryInv, ConfigInv', UNCHANGED <<dir, request, capture>>,
           NEW patterns, Discover(at["verify"], patterns)
    PROVE  DiscoveryInv'
<1> DEFINE root == at["verify"]
           begun == [search EXCEPT !.phase = "globbing", !.root = root, !.patterns = patterns,
                                   !.present = UNION {{d} \X DOMAIN dir[d] : d \in DOMAIN dir}]
<1>1. CASE \E code : FailSearch(code)
  BY <1>1, SearchStays
<1>2. CASE search' = begun
  <2>1. search = NoSearch
    BY DEF Discover, DiscoveryInv, SearchInv
  <2>2. /\ DOMAIN search' = DOMAIN NoSearch /\ search'.phase = "globbing" /\ search'.root = root
        /\ search'.present = UNION {{d} \X DOMAIN dir[d] : d \in DOMAIN dir}
        /\ search'.seen = {} /\ search'.match = 0 /\ search'.found = {}
    BY <1>2, <2>1 DEF NoSearch
  <2>3. root \in Nat
    BY WorkspaceAssumption DEF DiscoveryInv, ConfigInv
  <2>4. DirInv'
    BY DEF DiscoveryInv, DirInv
  <2>5. FoundInv'
    BY <2>2, <2>3, FS_EmptySet DEF FoundInv
  <2>6. \A f \in search'.present : f \in Nat \X Nat /\ Exists(f)'
    <3> SUFFICES ASSUME NEW f \in search'.present PROVE f \in Nat \X Nat /\ Exists(f)'
      OBVIOUS
    <3>1. PICK d \in DOMAIN dir : f \in {d} \X DOMAIN dir[d]
      BY <2>2
    <3> QED BY <3>1, WorkspaceAssumption DEF Exists, DiscoveryInv, DirInv
  <2>7. SearchInv'
    BY <2>2, <2>6 DEF SearchInv
  <2> QED BY <2>4, <2>5, <2>7 DEF DiscoveryInv
<1> QED BY <1>1, <1>2 DEF Discover

(* A match is looked at before the next one.                               *)
LEMMA YieldKeeps ==
    ASSUME DiscoveryInv, ConfigInv', UNCHANGED <<dir, request, capture>>, Yield
    PROVE  DiscoveryInv'
<1>1. PICK n : search' = [search EXCEPT !.seen = @ \cup {n},
                                        !.match = IF n \in YamlFiles THEN n ELSE 0]
  BY DEF Yield
<1>2. DOMAIN search = DOMAIN NoSearch /\ search.phase = "globbing" /\ search.match = 0
  BY DEF Yield, DiscoveryInv, SearchInv
<1>3. /\ DOMAIN search' = DOMAIN NoSearch /\ search'.phase = "globbing"
      /\ search'.root = search.root /\ search'.patterns = search.patterns
      /\ search'.present = search.present /\ search'.found = search.found
      /\ search'.seen = search.seen \cup {n}
      /\ search'.match = IF n \in YamlFiles THEN n ELSE 0
  BY <1>1, <1>2 DEF NoSearch
<1>4. DirInv'
  BY DEF DiscoveryInv, DirInv
<1>5. FoundInv'
  BY <1>3 DEF DiscoveryInv, FoundInv, WithinRoot, Exists, Entry
<1>6. \A m : Examined(m)' <=> Examined(m)
  BY <1>3 DEF Examined, RealPath, Entry
<1>7. ASSUME NEW m \in Included(search.patterns) \cap YamlFiles \cap search'.seen,
             m # search'.match
      PROVE  Examined(m)'
  <2>1. m \in search.seen /\ m # search.match
    BY <1>2, <1>3, <1>7, WorkspaceAssumption
  <2> QED BY <1>6, <1>7, <2>1 DEF DiscoveryInv, SearchInv
<1>8. SearchInv'
  BY <1>3, <1>7 DEF DiscoveryInv, SearchInv, Exists, Included
<1> QED BY <1>4, <1>5, <1>8 DEF DiscoveryInv

(* A match that is there is followed to its file.                          *)
LEMMA ExamineKeeps ==
    ASSUME DiscoveryInv, ConfigInv', UNCHANGED <<dir, request, capture>>, Examine
    PROVE  DiscoveryInv'
<1> DEFINE match == <<search.root, search.match>>
           target == RealPath(match)
           next == [search EXCEPT !.match = 0]
<1>1. CASE \E code : FailSearch(code)
  BY <1>1, SearchStays
<1>2. CASE /\ Exists(match) /\ WithinRoot(target) /\ Exists(target)
           /\ search' = IF Entry(target).kind = "file"
                        THEN [next EXCEPT !.found = @ \cup {Known(match)}] ELSE next
  <2>1. DOMAIN search = DOMAIN NoSearch /\ search.phase = "globbing" /\ search.match # 0
    BY DEF Examine, DiscoveryInv, SearchInv
  <2>2. /\ DOMAIN search' = DOMAIN NoSearch /\ search'.phase = "globbing"
        /\ search'.root = search.root /\ search'.patterns = search.patterns
        /\ search'.present = search.present /\ search'.seen = search.seen
        /\ search'.match = 0
        /\ search'.found = IF Entry(target).kind = "file" THEN search.found \cup {target}
                           ELSE search.found
    BY <1>2, <2>1 DEF NoSearch, Known
  <2>3. target \in Nat \X Nat
    <3>1. match \in Nat \X Nat
      BY <2>1, WorkspaceAssumption DEF DiscoveryInv, FoundInv
    <3>2. Entry(match).to \in Nat \X Nat
      BY <1>2 DEF Exists, Entry, DiscoveryInv, DirInv
    <3> QED BY <3>1, <3>2 DEF RealPath
  <2>4. DirInv'
    BY DEF DiscoveryInv, DirInv
  <2>5. FoundInv'
    <3>1. FoundInv
      BY DEF DiscoveryInv
    <3>2. IsFiniteSet(search.found \cup {target})
      BY <3>1, FS_AddElement, SMTT(60) DEF FoundInv
    <3> HIDE DEF target
    <3>3. IsFiniteSet(search'.found) /\ search'.found \subseteq Nat \X Nat
      BY <2>2, <2>3, <3>1, <3>2 DEF FoundInv
    <3>4. ASSUME NEW f \in search'.found
          PROVE  WithinRoot(f)' /\ (Exists(f)' => Entry(f)'.kind = "file")
      <4>1. WithinRoot(f) /\ (Exists(f) => Entry(f).kind = "file")
        BY <1>2, <2>2, <3>1, <3>4 DEF FoundInv
      <4> QED BY <2>2, <4>1 DEF WithinRoot, Exists, Entry
    <3> QED BY <2>2, <3>1, <3>3, <3>4 DEF FoundInv
  <2>6. ASSUME NEW m \in Included(search.patterns) \cap YamlFiles \cap search.seen
        PROVE  Examined(m)'
    <3>1. CASE m = search.match
      <4>1. target \in search'.found \/ Entry(target).kind # "file"
        BY <2>2, SMTT(60)
      <4> QED BY <2>2, <3>1, <4>1 DEF Examined, RealPath, Entry
    <3>2. CASE m # search.match
      <4>1. Examined(m) /\ search.found \subseteq search'.found
        BY <2>2, <3>2 DEF DiscoveryInv, SearchInv
      <4> QED BY <2>2, <4>1 DEF Examined, RealPath, Entry
    <3> QED BY <3>1, <3>2, ZenonT(60)
  <2>7. SearchInv'
    BY <2>2, <2>6 DEF DiscoveryInv, SearchInv, Exists, Included
  <2> QED BY <2>4, <2>5, <2>7 DEF DiscoveryInv
<1> QED BY <1>1, <1>2 DEF Examine

(* After the matches, no file that is found is added or forgotten.         *)
LEMMA ReadingKeeps ==
    ASSUME DiscoveryInv, ConfigInv', UNCHANGED <<dir, request, capture>>,
           \/ EndOfMatches \/ ReadScenario \/ \E selectors : Select(selectors)
    PROVE  DiscoveryInv'
<1>1. CASE \E code : FailSearch(code)
  BY <1>1, SearchStays
<1>2. CASE ~\E code : FailSearch(code)
  <2>1. DOMAIN search = DOMAIN NoSearch
    BY DEF DiscoveryInv, SearchInv
  <2> DEFINE Kept ==
        /\ DOMAIN search' = DOMAIN NoSearch
        /\ search'.root = search.root /\ search'.patterns = search.patterns
        /\ search'.present = search.present /\ search'.seen = search.seen
        /\ search'.match = search.match /\ search'.found = search.found
        /\ search'.phase \in {"reading", "selected"}
        /\ search.match = 0 /\ search'.files = Sorted(search.found)
        /\ \A n \in Included(search.patterns) :
              <<search.root, n>> \in search.present => n \in search.seen
  <2>2. Kept
    <3>1. CASE EndOfMatches
      <4>1. search' = [search EXCEPT !.phase = "reading", !.files = Sorted(search.found)]
        BY <1>2, <3>1 DEF EndOfMatches
      <4> QED BY <2>1, <3>1, <4>1 DEF NoSearch, EndOfMatches
    <3>2. CASE ReadScenario
      <4>1. search' = [search EXCEPT !.scenarios = Append(@, Entry(NextFile).scenario)]
        BY <1>2, <3>2 DEF ReadScenario
      <4>2. search.phase = "reading"
        BY <3>2 DEF ReadScenario
      <4> QED BY <2>1, <4>1, <4>2 DEF NoSearch, DiscoveryInv, SearchInv
    <3>3. ASSUME NEW selectors, Select(selectors)
          PROVE  Kept
      <4>1. PICK scenarios : search' = [search EXCEPT !.phase = "selected", !.scenarios = scenarios]
        BY <1>2, <3>3 DEF Select
      <4>2. search.phase = "reading"
        BY <3>3 DEF Select
      <4> QED BY <2>1, <4>1, <4>2 DEF NoSearch, DiscoveryInv, SearchInv
    <3> QED BY <3>1, <3>2, <3>3
  <2>3. DirInv'
    BY DEF DiscoveryInv, DirInv
  <2>4. FoundInv'
    BY <2>2 DEF DiscoveryInv, FoundInv, WithinRoot, Exists, Entry
  <2>5. \A n : Examined(n)' <=> Examined(n)
    BY <2>2 DEF Examined, RealPath, Entry
  <2>6. SearchInv'
    BY <2>2, <2>5 DEF DiscoveryInv, SearchInv, Exists, Included
  <2> QED BY <2>3, <2>4, <2>6 DEF DiscoveryInv
<1> QED BY <1>1, <1>2

(* A change of the directories that leaves alone what has been there all   *)
(* the time, and puts nothing but files in the place of what was removed.  *)
LEMMA ChangeKeeps ==
    ASSUME DiscoveryInv, ConfigInv', DirInv',
           \A f \in search'.present : Exists(f) /\ Exists(f)' /\ Entry(f)' = Entry(f),
           \A f : Exists(f)' => Entry(f)'.kind = "file" \/ (Exists(f) /\ Entry(f)' = Entry(f)),
           \/ search' = search
           \/ \E f : search' = [search EXCEPT !.present = @ \ {f}]
    PROVE  DiscoveryInv'
<1>1. DOMAIN search = DOMAIN NoSearch
  BY DEF DiscoveryInv, SearchInv
<1>2. /\ DOMAIN search' = DOMAIN NoSearch /\ search'.phase = search.phase
      /\ search'.root = search.root /\ search'.patterns = search.patterns
      /\ search'.seen = search.seen /\ search'.match = search.match
      /\ search'.found = search.found /\ search'.files = search.files
      /\ search'.present \subseteq search.present
  BY <1>1 DEF NoSearch
<1>3. FoundInv'
  <2>1. ASSUME NEW f \in search.found
        PROVE  WithinRoot(f)' /\ (Exists(f)' => Entry(f)'.kind = "file")
    <3>1. WithinRoot(f) /\ (Exists(f) => Entry(f).kind = "file")
      BY DEF DiscoveryInv, FoundInv
    <3> QED BY <1>2, <3>1 DEF WithinRoot
  <2> QED BY <1>2, <2>1 DEF DiscoveryInv, FoundInv
<1>4. ASSUME NEW n, Examined(n)
      PROVE  Examined(n)'
  <2> DEFINE match == <<search.root, n>>
  <2> SUFFICES ASSUME match \in search'.present, RealPath(match)' \in search'.present,
                      Entry(RealPath(match))'.kind = "file"
               PROVE  RealPath(match)' \in search.found
    BY <1>2, SMTT(30) DEF Examined
  <2>1. RealPath(match)' = RealPath(match)
    BY <1>2 DEF RealPath, Entry
  <2>2. Entry(RealPath(match))' = Entry(RealPath(match))
    <3>1. RealPath(match) \in search'.present
      BY <2>1
    <3> QED BY <2>1, <3>1 DEF Entry
  <2> QED BY <1>2, <1>4, <2>1, <2>2 DEF Examined
<1>5. SearchInv'
  <2>1. search'.phase = "idle" => search' = NoSearch
    <3> SUFFICES ASSUME search = NoSearch, search' # search PROVE search' = NoSearch
      BY <1>2 DEF DiscoveryInv, SearchInv
    <3>1. PICK f : search' = [search EXCEPT !.present = @ \ {f}]
      OBVIOUS
    <3> QED BY <3>1 DEF NoSearch
  <2> QED BY <1>2, <1>4, <2>1 DEF DiscoveryInv, SearchInv
<1> QED BY <1>3, <1>5 DEF DiscoveryInv

LEMMA RemovalKeepsDiscovery ==
    ASSUME DiscoveryInv, ConfigInv', UNCHANGED <<request, capture>>,
           NEW d \in DOMAIN dir, NEW n \in DOMAIN dir[d], RemoveScenario(d, n)
    PROVE  DiscoveryInv'
<1>1. /\ DOMAIN search = DOMAIN NoSearch /\ DirInv
      /\ \A f \in search.present : Exists(f) /\ f \in Nat \X Nat
  BY DEF DiscoveryInv, SearchInv
<1>2. /\ DOMAIN dir' = DOMAIN dir /\ DOMAIN dir'[d] = DOMAIN dir[d] \ {n}
      /\ \A m \in DOMAIN dir[d] \ {n} : dir'[d][m] = dir[d][m]
      /\ \A e \in DOMAIN dir \ {d} : dir'[e] = dir[e]
      /\ search' = [search EXCEPT !.present = @ \ {<<d, n>>}]
      /\ search'.present = search.present \ {<<d, n>>}
  BY <1>1 DEF RemoveScenario, NoSearch
<1>3. DirInv'
  BY <1>1, <1>2 DEF DirInv
<1>4. \A f : Exists(f)' => Exists(f) /\ Entry(f)' = Entry(f)
  BY <1>2 DEF Exists, Entry
<1>5. ASSUME NEW f \in search'.present
      PROVE  Exists(f)'
  <2>1. Exists(f) /\ f # <<d, n>>
    BY <1>1, <1>2
  <2>2. ~(f[1] = d /\ f[2] = n)
    BY <1>1, <1>2, <2>1
  <2> QED BY <1>2, <2>1, <2>2 DEF Exists
<1> QED BY <1>1, <1>2, <1>3, <1>4, <1>5, ChangeKeeps

(* Capture creates a file where there is none.                             *)
LEMMA CreationKeepsDiscovery ==
    ASSUME DiscoveryInv, ConfigInv', UNCHANGED <<request, search>>,
           DOMAIN capture' = {"phase", "draft", "code"},
           capture.phase = "persisting", capture'.phase = "ended", ~Exists(Destination),
           dir' = [dir EXCEPT ![1] = Over(@, [n \in {Destination[2]} |->
                      [kind |-> "file", to |-> NoFile, scenario |-> Scenario(capture.draft)]])]
    PROVE  DiscoveryInv'
<1> DEFINE created == Destination[2]
           entry == [kind |-> "file", to |-> NoFile, scenario |-> Scenario(capture.draft)]
<1>1. DirInv /\ FromWorld /\ 1 \in 1 .. Depth /\ \A f \in search.present : Exists(f)
  BY WorkspaceAssumption DEF DiscoveryInv, ConfigInv, SearchInv
<1>2. created \in Nat \ {0}
  <2>1. capture.draft.id = request.input.id
    BY <1>1 DEF DirInv
  <2>2. FileOf[request.input.id.name] \in Nat \ {0}
    BY <1>1, WorkspaceAssumption DEF FromWorld, IsWorld
  <2> QED BY <2>1, <2>2 DEF Destination
<1>3. created \notin DOMAIN dir[1] /\ Destination = <<1, created>>
  BY <1>1 DEF Exists, Destination, DirInv
<1>4. entry.kind = "file" /\ entry.to \in Nat \X Nat
  BY DEF NoFile
<1> HIDE DEF created, entry
<1>5. /\ DOMAIN dir' = DOMAIN dir /\ DOMAIN dir'[1] = DOMAIN dir[1] \cup {created}
      /\ \A m \in DOMAIN dir[1] : dir'[1][m] = dir[1][m]
      /\ dir'[1][created] = entry
      /\ \A d \in DOMAIN dir \ {1} : dir'[d] = dir[d]
  BY <1>1, <1>3 DEF Over, DirInv, created, entry
<1>6. DirInv'
  BY <1>1, <1>2, <1>4, <1>5 DEF DirInv
<1>7. \A f : Exists(f) => Exists(f)' /\ Entry(f)' = Entry(f)
  BY <1>5 DEF Exists, Entry
<1>8. \A f : Exists(f)' => Entry(f)'.kind = "file" \/ (Exists(f) /\ Entry(f)' = Entry(f))
  BY <1>4, <1>5 DEF Exists, Entry
<1> QED BY <1>1, <1>6, <1>7, <1>8, ChangeKeeps

(* Steps that change neither the directories nor the search.               *)
LEMMA DiscoveryStays ==
    ASSUME DiscoveryInv, ConfigInv', UNCHANGED <<dir, search, request>>,
           DOMAIN capture' = {"phase", "draft", "code"},
           capture'.phase = "persisting" =>
              capture' = capture \/ capture'.draft.id = request.input.id
    PROVE  DiscoveryInv'
<1>1. DirInv'
  BY DEF DiscoveryInv, DirInv
<1>2. FoundInv'
  BY SMTT(60) DEF DiscoveryInv, FoundInv, WithinRoot, Exists, Entry
<1>3. SearchInv'
  BY DEF DiscoveryInv, SearchInv, Exists, Examined, RealPath, Entry
<1> QED BY <1>1, <1>2, <1>3 DEF DiscoveryInv

(* Only what a request was made into is persisted.                         *)
LEMMA CapturePhases ==
    ASSUME ReadInput \/ Prepare \/ Persist, DOMAIN capture = {"phase", "draft", "code"}
    PROVE  /\ DOMAIN capture' = {"phase", "draft", "code"}
           /\ capture'.phase = "persisting" => capture'.draft.id = request.input.id
           /\ Persist => capture.phase = "persisting" /\ capture'.phase = "ended"
<1>1. ASSUME NEW code, Finish(code)
      PROVE  DOMAIN capture' = {"phase", "draft", "code"} /\ capture'.phase = "ended"
  BY <1>1 DEF Finish
<1>2. CASE ReadInput
  <2>1. \/ \E code : Finish(code)
        \/ capture' = [capture EXCEPT !.phase = "loading"]
    BY <1>2 DEF ReadInput
  <2>2. ReadInput => ~Persist
    BY DEF ReadInput, Persist
  <2> QED BY <1>1, <1>2, <2>1, <2>2
<1>3. CASE Persist
  BY <1>1, <1>3 DEF Persist
<1>4. CASE Prepare
  <2> DEFINE draft == Draft(request.input, CapturePolicy)
             asked == [phase |-> IF request.confirmed THEN "persisting" ELSE "ended",
                       draft |-> draft,
                       code |-> IF request.confirmed THEN "none"
                                ELSE "CLI_CAPTURE_CONFIRMATION_REQUIRED"]
  <2>1. (\E code : Finish(code)) \/ capture' = asked
    BY <1>4 DEF Prepare
  <2>2. draft.id = request.input.id
    BY DEF Draft
  <2>3. Prepare => ~Persist
    BY DEF Prepare, Persist
  <2> HIDE DEF draft
  <2> QED BY <1>1, <1>4, <2>1, <2>2, <2>3
<1> QED BY <1>2, <1>3, <1>4

LEMMA DiscoveryInductive == DiscoveryInv /\ [Next]_vars => DiscoveryInv'
<1> SUFFICES ASSUME DiscoveryInv, [Next]_vars PROVE DiscoveryInv'
  OBVIOUS
<1>1. ConfigInv' /\ DOMAIN capture = {"phase", "draft", "code"}
  BY ConfigInductive DEF DiscoveryInv, DirInv
<1>2. CASE ReadInput \/ Prepare
  <2>1. UNCHANGED <<dir, search, request>>
    BY <1>2 DEF ReadInput, Prepare
  <2> QED BY <1>1, <1>2, <2>1, CapturePhases, DiscoveryStays
<1>3. CASE CaptureLoads \/ VerifyLoads \/ PrepareRequest
  <2>1. UNCHANGED <<dir, search, request, capture>>
    BY <1>3 DEF CaptureLoads, VerifyLoads, PrepareRequest, captureVars
  <2> QED BY <1>1, <2>1, DiscoveryStays
<1>4. CASE Persist
  <2>1. /\ UNCHANGED <<search, request>> /\ DOMAIN capture' = {"phase", "draft", "code"}
        /\ capture.phase = "persisting" /\ capture'.phase = "ended"
    BY <1>1, <1>4, CapturePhases DEF Persist
  <2>2. CASE UNCHANGED dir
    BY <1>1, <2>1, <2>2, DiscoveryStays
  <2>3. CASE ~UNCHANGED dir
    <3>1. /\ ~Exists(Destination)
          /\ dir' = [dir EXCEPT ![1] = Over(@, [n \in {Destination[2]} |->
                 [kind |-> "file", to |-> NoFile, scenario |-> Scenario(capture.draft)]])]
      BY <1>4, <2>3 DEF Persist
    <3> QED BY <1>1, <2>1, <3>1, CreationKeepsDiscovery
  <2> QED BY <2>2, <2>3
<1>5. CASE Search
  <2>1. UNCHANGED <<dir, request, capture>>
    BY <1>5 DEF Search, captureVars, Discover, Yield, Examine, EndOfMatches, ReadScenario, Select
  <2>2. CASE \E patterns : Discover(at["verify"], patterns)
    BY <1>1, <2>1, <2>2, DiscoverKeeps
  <2>3. CASE Yield
    BY <1>1, <2>1, <2>3, YieldKeeps
  <2>4. CASE Examine
    BY <1>1, <2>1, <2>4, ExamineKeeps
  <2>5. CASE EndOfMatches \/ ReadScenario \/ \E selectors : Select(selectors)
    BY <1>1, <2>1, <2>5, ReadingKeeps
  <2> QED BY <1>5, <2>2, <2>3, <2>4, <2>5 DEF Search
<1>6. CASE Disturb
  <2>1. UNCHANGED <<request, capture>>
    BY <1>6 DEF Disturb, captureVars
  <2>2. \/ UNCHANGED <<dir, search>>
        \/ \E d \in DOMAIN dir : \E n \in DOMAIN dir[d] : RemoveScenario(d, n)
    BY <1>6 DEF Disturb
  <2> QED BY <1>1, <2>1, <2>2, DiscoveryStays, RemovalKeepsDiscovery
<1>7. CASE UNCHANGED vars
  <2>1. UNCHANGED <<dir, search, request, capture>>
    BY <1>7 DEF vars, captureVars
  <2> QED BY <1>1, <2>1, DiscoveryStays
<1> QED BY <1>2, <1>3, <1>4, <1>5, <1>6, <1>7 DEF Next, CaptureStep, VerifyStep

(* Whatever the directories hold, and whatever capture adds to them and    *)
(* others remove from them meanwhile: a discovery that is over has its     *)
(* files in one order, each once and all below the root, and has missed    *)
(* none that was there all the time.                                       *)
THEOREM DiscoveryCorrect == Spec => []DiscoveryIsComplete
<1>1. Spec => []DiscoveryInv
  BY DiscoveryInitially, DiscoveryInductive, PTL DEF Spec
<1> QED BY <1>1, DiscoveryEnough, PTL
=============================================================================
