-------------------------- MODULE ComparisonProofs --------------------------
(***************************************************************************)
(* Theorems about Comparison, for observations of any size and any rules.  *)
(***************************************************************************)
EXTENDS Comparison, SequenceTheorems, FiniteSetTheorems, WellFoundedInduction, TLAPS

-----------------------------------------------------------------------------
(* Paths                                                                   *)

LEMMA StartOfPath ==
    ASSUME NEW S, NEW p \in Seq(S), NEW n \in 0 .. Len(p)
    PROVE  /\ SubSeq(p, 1, n) \in Seq(S) /\ Len(SubSeq(p, 1, n)) = n
           /\ \A i \in 1 .. n : SubSeq(p, 1, n)[i] = p[i]
<1>1. n \in Int /\ 1 \in Int /\ \A i \in 1 .. n : p[i] \in S
  OBVIOUS
<1>2. /\ SubSeq(p, 1, n) \in Seq(S) /\ Len(SubSeq(p, 1, n)) = IF 1 <= n THEN n - 1 + 1 ELSE 0
      /\ \A i \in 1 .. n - 1 + 1 : SubSeq(p, 1, n)[i] = p[1 + i - 1]
  BY <1>1, SubSeqProperties
<1>3. /\ (IF 1 <= n THEN n - 1 + 1 ELSE 0) = n
      /\ n - 1 + 1 = n /\ \A i \in 1 .. n : 1 + i - 1 = i
  OBVIOUS
<1> QED BY <1>2, <1>3

LEMMA EqualStarts ==
    ASSUME NEW S, NEW p \in Seq(S), NEW q \in Seq(S), NEW n \in 0 .. Len(p), n <= Len(q)
    PROVE  SubSeq(p, 1, n) = SubSeq(q, 1, n) <=> \A i \in 1 .. n : p[i] = q[i]
<1> DEFINE s == SubSeq(p, 1, n)
           t == SubSeq(q, 1, n)
<1>1. n \in 0 .. Len(q)
  OBVIOUS
<1>2. /\ s \in Seq(S) /\ Len(s) = n /\ \A i \in 1 .. n : s[i] = p[i]
      /\ t \in Seq(S) /\ Len(t) = n /\ \A i \in 1 .. n : t[i] = q[i]
  BY <1>1, StartOfPath
<1> HIDE DEF s, t
<1>3. s = t => \A i \in 1 .. n : p[i] = q[i]
  BY <1>2
<1>4. (\A i \in 1 .. n : p[i] = q[i]) => s = t
  BY <1>2, SeqEqual
<1> QED BY <1>3, <1>4 DEF s, t

LEMMA PrefixIs ==
    ASSUME NEW S, NEW p \in Seq(S), NEW q \in Seq(S)
    PROVE  IsPrefix(p, q) <=> Len(p) <= Len(q) /\ \A i \in 1 .. Len(p) : p[i] = q[i]
<1>1. Len(p) <= Len(q) =>
         (SubSeq(p, 1, Len(p)) = SubSeq(q, 1, Len(p)) <=> \A i \in 1 .. Len(p) : p[i] = q[i])
  BY EqualStarts
<1> QED BY <1>1 DEF IsPrefix

(* The start of a path is a prefix of it, and no other path so long is.    *)
LEMMA StartIsPrefix ==
    ASSUME NEW S, NEW p \in Seq(S), NEW q \in Seq(S)
    PROVE  /\ IsPrefix(p, q) => SubSeq(q, 1, Len(p)) = p
           /\ \A n \in 0 .. Len(q) : IsPrefix(SubSeq(q, 1, n), q)
<1>1. IsPrefix(p, q) => SubSeq(q, 1, Len(p)) = p
  BY SubSeqFull DEF IsPrefix
<1>2. ASSUME NEW n \in 0 .. Len(q)
      PROVE  IsPrefix(SubSeq(q, 1, n), q)
  <2> DEFINE s == SubSeq(q, 1, n)
  <2>1. s \in Seq(S) /\ Len(s) = n /\ \A i \in 1 .. n : s[i] = q[i]
    BY StartOfPath
  <2> HIDE DEF s
  <2>2. IsPrefix(s, q)
    BY <2>1, PrefixIs
  <2> QED BY <2>2 DEF s
<1> QED BY <1>1, <1>2

LEMMA BeforeIs ==
    ASSUME NEW S, NEW p \in Seq(S), NEW q \in Seq(S)
    PROVE  Before(p, q) <=> \E i \in 1 .. Len(p) : /\ i <= Len(q) /\ p[i][2] < q[i][2]
                                                   /\ \A k \in 1 .. i - 1 : p[k] = q[k]
<1>1. ASSUME NEW i \in 1 .. Len(p), i <= Len(q)
      PROVE  SubSeq(p, 1, i - 1) = SubSeq(q, 1, i - 1) <=> \A k \in 1 .. i - 1 : p[k] = q[k]
  <2>1. i - 1 \in 0 .. Len(p) /\ i - 1 <= Len(q)
    BY <1>1
  <2> QED BY <2>1, EqualStarts
<1> QED BY <1>1 DEF Before

(* What is below a path is before and after the same as the path.          *)
LEMMA BeforeBelow ==
    ASSUME NEW S, NEW p \in Seq(S), NEW q \in Seq(S), NEW r \in Seq(S), Before(p, q)
    PROVE  /\ IsPrefix(q, r) => Before(p, r)
           /\ IsPrefix(p, r) => Before(r, q)
<1>1. PICK i \in 1 .. Len(p) : /\ i <= Len(q) /\ p[i][2] < q[i][2]
                               /\ \A k \in 1 .. i - 1 : p[k] = q[k]
  BY BeforeIs
<1>2. ASSUME IsPrefix(q, r) PROVE Before(p, r)
  <2>1. Len(q) <= Len(r) /\ \A k \in 1 .. Len(q) : q[k] = r[k]
    BY <1>2, PrefixIs
  <2>2. i <= Len(r) /\ p[i][2] < r[i][2] /\ \A k \in 1 .. i - 1 : p[k] = r[k]
    BY <1>1, <2>1
  <2> QED BY <2>2, BeforeIs
<1>3. ASSUME IsPrefix(p, r) PROVE Before(r, q)
  <2>1. Len(p) <= Len(r) /\ \A k \in 1 .. Len(p) : p[k] = r[k]
    BY <1>3, PrefixIs
  <2>2. i \in 1 .. Len(r) /\ r[i][2] < q[i][2] /\ \A k \in 1 .. i - 1 : r[k] = q[k]
    BY <1>1, <2>1
  <2> QED BY <1>1, <2>2, BeforeIs
<1> QED BY <1>2, <1>3

-----------------------------------------------------------------------------
(* Sets in order                                                           *)

LEMMA NatLeast ==
    ASSUME NEW T, T \subseteq Nat, T # {}
    PROVE  \E x \in T : \A y \in T : x <= y
<1>1. PICK x \in T : \A y \in T : ~(<<y, x>> \in OpToRel(<, Nat))
  <2>1. \E x \in T : \A y \in T : ~(<<y, x>> \in OpToRel(<, Nat))
    BY NatLessThanWellFounded, WFMin
  <2> QED BY <2>1
<1>2. OpToRel(<, Nat) = {ss \in Nat \X Nat : ss[1] < ss[2]}
  BY DEF OpToRel
<1>3. ASSUME NEW y \in T PROVE ~(y < x)
  <2>1. x \in Nat /\ y \in Nat
    OBVIOUS
  <2>2. y < x => <<y, x>> \in {ss \in Nat \X Nat : ss[1] < ss[2]}
    BY <2>1
  <2> QED BY <1>1, <1>2, <2>2
<1> QED BY <1>3

IsRanked(s, set, rank) ==
    /\ s \in [1 .. Cardinality(set) -> set] /\ ToSet(s) = set
    /\ \A i, j \in DOMAIN s : i < j => rank[s[i]] < rank[s[j]]

(* A set is put in order by putting the first before the rest.             *)
LEMMA FirstAndRest ==
    ASSUME NEW T, IsFiniteSet(T), NEW rank, NEW f \in T, \A g \in T \ {f} : rank[f] < rank[g],
           NEW r, IsRanked(r, T \ {f}, rank)
    PROVE  \E s : IsRanked(s, T, rank)
<1> DEFINE n == Cardinality(T)
           s == [i \in 1 .. n |-> IF i = 1 THEN f ELSE r[i - 1]]
<1>1. n \in Nat /\ n >= 1 /\ Cardinality(T \ {f}) = n - 1
  BY FS_CardinalityType, FS_RemoveElement, FS_EmptySet
<1>2. /\ DOMAIN r = 1 .. n - 1 /\ \A i \in 1 .. n - 1 : r[i] \in T \ {f}
      /\ {r[i] : i \in 1 .. n - 1} = T \ {f}
      /\ \A i, j \in 1 .. n - 1 : i < j => rank[r[i]] < rank[r[j]]
  BY <1>1 DEF IsRanked, ToSet
<1> HIDE DEF n
<1>3. /\ DOMAIN s = 1 .. n /\ s[1] = f
      /\ \A i \in 2 .. n : i - 1 \in 1 .. n - 1 /\ s[i] = r[i - 1]
  BY <1>1
<1>4. s \in [1 .. n -> T]
  BY <1>1, <1>2
<1>5. {s[i] : i \in 1 .. n} = T
  <2>1. ASSUME NEW g \in T \ {f} PROVE \E i \in 1 .. n : s[i] = g
    <3>1. PICK j \in 1 .. n - 1 : r[j] = g
      BY <1>2
    <3>2. j + 1 \in 2 .. n /\ (j + 1) - 1 = j
      BY <1>1
    <3> QED BY <1>3, <3>1, <3>2
  <2>2. 1 \in 1 .. n
    BY <1>1
  <2> HIDE DEF s
  <2> QED BY <1>3, <1>4, <2>1, <2>2
<1>6. ASSUME NEW i \in 1 .. n, NEW j \in 1 .. n, i < j
      PROVE  rank[s[i]] < rank[s[j]]
  <2>1. j \in 2 .. n /\ s[j] = r[j - 1] /\ j - 1 \in 1 .. n - 1
    BY <1>1, <1>3, <1>6
  <2>2. CASE i = 1
    BY <1>2, <1>3, <2>1, <2>2
  <2>3. CASE i # 1
    <3>1. i \in 2 .. n /\ i - 1 \in 1 .. n - 1 /\ i - 1 < j - 1 /\ s[i] = r[i - 1]
      BY <1>1, <1>3, <1>6, <2>1, <2>3
    <3> QED BY <1>2, <2>1, <3>1
  <2> QED BY <2>2, <2>3
<1>7. IsRanked(s, T, rank)
  <2> HIDE DEF s
  <2> QED BY <1>3, <1>4, <1>5, <1>6 DEF IsRanked, ToSet, n
<1> QED BY <1>7

(* So a smallest set that has no order does not exist.                     *)
LEMMA RankedCorrect ==
    ASSUME NEW T, IsFiniteSet(T), NEW rank, \A x \in T : rank[x] \in Nat,
           \A x, y \in T : x # y => rank[x] # rank[y]
    PROVE  IsRanked(Ranked(T, rank), T, rank)
<1> DEFINE Bad == {n \in Nat : \E U \in SUBSET T :
                      IsFiniteSet(U) /\ Cardinality(U) = n /\ ~\E s : IsRanked(s, U, rank)}
<1>1. ASSUME Bad # {} PROVE FALSE
  <2>1. PICK n \in Bad : \A m \in Bad : n <= m
    <3>1. Bad \subseteq Nat
      OBVIOUS
    <3> HIDE DEF Bad
    <3> QED BY <1>1, <3>1, NatLeast
  <2>2. PICK U \in SUBSET T :
           IsFiniteSet(U) /\ Cardinality(U) = n /\ ~\E s : IsRanked(s, U, rank)
    BY <2>1
  <2>3. CASE U = {}
    <3> DEFINE e == [i \in 1 .. 0 |-> 0]
    <3>1. Cardinality(U) = 0
      BY <2>3, FS_EmptySet
    <3>2. e \in [1 .. 0 -> {}] /\ DOMAIN e = {} /\ ToSet(e) = {}
      BY DEF ToSet
    <3>3. IsRanked(e, U, rank)
      <4> HIDE DEF e
      <4> QED BY <2>3, <3>1, <3>2 DEF IsRanked
    <3> QED BY <2>2, <3>3
  <2>4. CASE U # {}
    <3>1. PICK f \in U : \A g \in U \ {f} : rank[f] < rank[g]
      <4> DEFINE R == {rank[x] : x \in U}
      <4>1. R \subseteq Nat /\ R # {}
        BY <2>4
      <4>2. PICK a \in R : \A b \in R : a <= b
        <5> HIDE DEF R
        <5> QED BY <4>1, NatLeast
      <4>3. PICK f \in U : rank[f] = a
        BY <4>2
      <4>4. \A g \in U \ {f} : rank[f] <= rank[g] /\ rank[f] # rank[g]
        BY <4>2, <4>3
      <4>5. \A g \in U : rank[g] \in Nat
        OBVIOUS
      <4> HIDE DEF R
      <4> QED BY <4>4, <4>5
    <3>2. IsFiniteSet(U \ {f}) /\ Cardinality(U \ {f}) = n - 1
      BY <2>2, FS_RemoveElement
    <3>3. n \in Nat /\ n # 0
      BY <2>1, <2>2, <2>4, FS_EmptySet
    <3>4. n - 1 \notin Bad
      BY <2>1, <3>3
    <3>5. n - 1 \in Nat /\ U \ {f} \in SUBSET T
      BY <3>3
    <3>6. PICK r : IsRanked(r, U \ {f}, rank)
      BY <3>2, <3>4, <3>5
    <3> QED BY <2>2, <3>1, <3>6, FirstAndRest
  <2> QED BY <2>3, <2>4
<1>2. \E s : IsRanked(s, T, rank)
  BY <1>1, FS_CardinalityType
<1>3. \E s \in [1 .. Cardinality(T) -> T] :
         /\ ToSet(s) = T
         /\ \A i, j \in DOMAIN s : i < j => rank[s[i]] < rank[s[j]]
  BY <1>2 DEF IsRanked
<1> QED BY <1>3 DEF Ranked, IsRanked

-----------------------------------------------------------------------------
(* The children of a container                                             *)

Paths == DOMAIN B.body.doc \cup DOMAIN C.body.doc

LEMMA DocFacts ==
    ASSUME pair \in Pairs
    PROVE  /\ IsJson(B.body.doc) /\ IsJson(C.body.doc)
           /\ IsFiniteSet(Paths) /\ Paths \subseteq Seq(Segments) /\ <<>> \in Paths
<1>1. IsJson(B.body.doc) /\ IsJson(C.body.doc)
  BY ComparisonAssumption DEF IsObservation, B, C
<1>2. IsFiniteSet(DOMAIN B.body.doc) /\ IsFiniteSet(DOMAIN C.body.doc)
  BY <1>1 DEF IsJson
<1>3. IsFiniteSet(Paths)
  BY <1>2, FS_Union DEF Paths
<1> QED BY <1>1, <1>3 DEF IsJson, Paths

LEMMA ChildFacts ==
    ASSUME pair \in Pairs, NEW p \in Paths, NEW q \in Children(p)
    PROVE  /\ q \in Paths /\ q \in Seq(Segments) /\ p \in Seq(Segments) /\ Len(q) = Len(p) + 1
           /\ IsPrefix(p, q) /\ SubSeq(q, 1, Len(p)) = p
           /\ Last(q) = q[Len(q)] /\ Last(q) \in Segments
<1>1. q \in Paths /\ Len(q) = Len(p) + 1 /\ IsPrefix(p, q)
  BY DEF Children, Paths
<1>2. q \in Seq(Segments) /\ p \in Seq(Segments)
  BY <1>1, DocFacts
<1>3. SubSeq(q, 1, Len(p)) = p
  BY <1>1, <1>2, StartIsPrefix
<1>4. Last(q) = q[Len(q)]
  BY DEF Last
<1>5. Len(q) \in 1 .. Len(q)
  BY <1>1, <1>2
<1>6. q[Len(q)] \in Segments
  BY <1>2, <1>5, ElementOfSeq
<1> QED BY <1>1, <1>2, <1>3, <1>4, <1>6

(* A child says what its parent is.                                        *)
LEMMA ParentOfChild ==
    ASSUME pair \in Pairs, NEW p \in Paths, InBoth(p), SameKind(p), NEW q \in Children(p)
    PROVE  Container(p) /\ (B.body.doc[p].kind = "object" <=> Last(q)[1] = "key")
<1>1. /\ q \in Paths /\ Len(q) = Len(p) + 1 /\ SubSeq(q, 1, Len(p)) = p
      /\ Last(q) = q[Len(q)] /\ Len(p) \in Nat
  BY ChildFacts
<1>2. ASSUME NEW doc, IsJson(doc), q \in DOMAIN doc
      PROVE  doc[p] = IF Last(q)[1] = "key" THEN Obj ELSE Arr
  <2>1. Len(q) \in 1 .. Len(q) /\ Len(q) - 1 = Len(p)
    BY <1>1
  <2> QED BY <1>1, <1>2, <2>1 DEF IsJson
<1>3. \/ B.body.doc[p] = IF Last(q)[1] = "key" THEN Obj ELSE Arr
      \/ C.body.doc[p] = IF Last(q)[1] = "key" THEN Obj ELSE Arr
  BY <1>1, <1>2, DocFacts DEF Paths
<1> QED BY <1>3 DEF SameKind, Container, Obj, Arr

LEMMA PushedCorrect ==
    ASSUME pair \in Pairs, NEW p \in Paths, InBoth(p), SameKind(p)
    PROVE  LET s == Pushed(p) IN
           /\ s \in Seq(Paths) /\ {s[i] : i \in 1 .. Len(s)} = Children(p)
           /\ \A i, j \in 1 .. Len(s) : i < j => Before(s[j], s[i])
<1> DEFINE T == Children(p)
           rank == [q \in T |-> Last(q)[2]]
           r == Ranked(T, rank)
           n == Cardinality(T)
           s == [i \in 1 .. n |-> r[n - i + 1]]
<1>1. IsFiniteSet(T) /\ n \in Nat /\ T \subseteq Paths
  <2>1. T \subseteq Paths
    BY ChildFacts
  <2> HIDE DEF T
  <2> QED BY <2>1, DocFacts, FS_Subset, FS_CardinalityType
<1>2. \A q \in T : rank[q] = Last(q)[2] /\ Last(q)[1] \in {"key", "index"} /\ Last(q)[2] \in Nat
  BY ChildFacts DEF Segments
<1>3. ASSUME NEW q \in T, NEW t \in T, q # t
      PROVE  Last(q)[2] # Last(t)[2]
  <2>1. /\ q \in Seq(Segments) /\ t \in Seq(Segments) /\ p \in Seq(Segments)
        /\ Len(q) = Len(p) + 1 /\ Len(t) = Len(p) + 1 /\ IsPrefix(p, q) /\ IsPrefix(p, t)
        /\ Last(q) = q[Len(p) + 1] /\ Last(t) = t[Len(p) + 1]
        /\ Last(q) \in Segments /\ Last(t) \in Segments
    BY ChildFacts
  <2>2. \A i \in 1 .. Len(p) : q[i] = t[i]
    BY <2>1, PrefixIs
  <2>3. \A i \in 1 .. Len(q) : i \in 1 .. Len(p) \/ i = Len(p) + 1
    BY <2>1
  <2>4. Last(q) = Last(t) => q = t
    BY <2>1, <2>2, <2>3, SeqEqual
  <2>5. Last(q)[1] = Last(t)[1]
    <3>1. Last(q)[1] = "key" <=> Last(t)[1] = "key"
      BY ParentOfChild
    <3> QED BY <1>2, <3>1
  <2> QED BY <1>3, <2>1, <2>4, <2>5 DEF Segments
<1>4. IsRanked(r, T, rank)
  <2>1. \A x \in T : rank[x] \in Nat
    BY <1>2
  <2>2. \A x, y \in T : x # y => rank[x] # rank[y]
    BY <1>2, <1>3
  <2> HIDE DEF T, rank
  <2> QED BY <1>1, <2>1, <2>2, RankedCorrect
<1>5. /\ DOMAIN r = 1 .. n /\ {r[i] : i \in 1 .. n} = T /\ \A i \in 1 .. n : r[i] \in T
      /\ \A i, j \in 1 .. n : i < j => Last(r[i])[2] < Last(r[j])[2]
  <2>1. /\ r \in [1 .. n -> T] /\ ToSet(r) = T
        /\ \A i, j \in DOMAIN r : i < j => rank[r[i]] < rank[r[j]]
    BY <1>4 DEF IsRanked
  <2> HIDE DEF T, rank, r, n
  <2> QED BY <1>2, <2>1 DEF ToSet
<1>6. Pushed(p) = s
  <2>1. r \in Seq(T) /\ Len(r) = n
    <3> HIDE DEF T, r, n
    <3> QED BY <1>1, <1>4 DEF IsRanked, n
  <2> QED BY <2>1 DEF Pushed, Reverse
<1> HIDE DEF T, rank, r, n
<1>7. s \in Seq(Paths) /\ Len(s) = n /\ \A i \in 1 .. n : s[i] = r[n - i + 1] /\ s[i] \in T
  <2>1. \A i \in 1 .. n : n - i + 1 \in 1 .. n
    BY <1>1
  <2> QED BY <1>1, <1>5, <2>1
<1>8. {s[i] : i \in 1 .. n} = T
  <2>1. ASSUME NEW q \in T PROVE \E i \in 1 .. n : s[i] = q
    <3>1. PICK j \in 1 .. n : r[j] = q
      BY <1>5
    <3>2. n - j + 1 \in 1 .. n /\ n - (n - j + 1) + 1 = j
      BY <1>1
    <3> QED BY <1>7, <3>1, <3>2
  <2> HIDE DEF s
  <2> QED BY <1>7, <2>1
<1>9. ASSUME NEW i \in 1 .. n, NEW j \in 1 .. n, i < j
      PROVE  Before(s[j], s[i])
  <2>1. Last(s[j])[2] < Last(s[i])[2]
    <3>1. n - j + 1 \in 1 .. n /\ n - i + 1 \in 1 .. n /\ n - j + 1 < n - i + 1
      BY <1>1, <1>9
    <3> QED BY <1>5, <1>7, <3>1
  <2> DEFINE a == s[j]
             b == s[i]
  <2>2. a \in Children(p) /\ b \in Children(p)
    BY <1>7 DEF T
  <2> HIDE DEF s, a, b
  <2>3. /\ a \in Seq(Segments) /\ b \in Seq(Segments) /\ p \in Seq(Segments)
        /\ Len(a) = Len(p) + 1 /\ Len(b) = Len(p) + 1 /\ IsPrefix(p, a) /\ IsPrefix(p, b)
        /\ Last(a) = a[Len(p) + 1] /\ Last(b) = b[Len(p) + 1]
    BY <2>2, ChildFacts
  <2>4. \A k \in 1 .. Len(p) : a[k] = b[k]
    BY <2>3, PrefixIs
  <2>5. /\ Len(p) + 1 \in 1 .. Len(a) /\ Len(p) + 1 <= Len(b)
        /\ a[Len(p) + 1][2] < b[Len(p) + 1][2] /\ (Len(p) + 1) - 1 = Len(p)
    BY <2>1, <2>3 DEF a, b
  <2>6. Before(a, b)
    BY <2>3, <2>4, <2>5, BeforeIs
  <2> QED BY <2>6 DEF a, b
<1> HIDE DEF s
<1> QED BY <1>6, <1>7, <1>8, <1>9 DEF T

-----------------------------------------------------------------------------
(* The comparators beside the walk                                         *)

WalkFindings == {Difference("json.structure", p) : p \in Paths}
Names == {"status", "header", "body.exact", "json.validity",
          "latency.relative", "latency.absolute"}
OtherFindings ==
    {Difference(c, p) : c \in Names, p \in {<<>>} \cup {<<<<"name", n>>>> : n \in Nat}}

LEMMA SingleFinding ==
    ASSUME NEW c \in Names
    PROVE  <<Difference(c, <<>>)>> \in Seq(OtherFindings) /\ <<Difference(c, <<>>)>> # <<>>
<1> DEFINE d == Difference(c, <<>>)
<1>1. d \in OtherFindings
  BY DEF OtherFindings, Names
<1> HIDE DEF d
<1>2. <<d>> \in Seq(OtherFindings) /\ <<d>> # <<>>
  BY <1>1
<1> QED BY <1>2 DEF d

LEMMA HeadersCompared ==
    ASSUME pair \in Pairs
    PROVE  /\ HeaderDifferences \in Seq(OtherFindings)
           /\ HeaderDifferences = <<>> <=> B.headers = C.headers
<1> DEFINE T == {n \in DOMAIN B.headers \cup DOMAIN C.headers : HeaderChanged(n)}
           rank == [n \in T |-> n]
           names == Ranked(T, rank)
           k == Cardinality(T)
           s == [i \in DOMAIN names |-> Difference("header", <<<<"name", names[i]>>>>)]
<1>1. /\ IsFiniteSet(DOMAIN B.headers) /\ IsFiniteSet(DOMAIN C.headers)
      /\ DOMAIN B.headers \cup DOMAIN C.headers \subseteq Nat
      /\ B.headers = [n \in DOMAIN B.headers |-> B.headers[n]]
      /\ C.headers = [n \in DOMAIN C.headers |-> C.headers[n]]
  BY ComparisonAssumption DEF IsObservation, B, C
<1>2. IsFiniteSet(T) /\ T \subseteq Nat /\ k \in Nat
  <2>1. IsFiniteSet(DOMAIN B.headers \cup DOMAIN C.headers)
    BY <1>1, FS_Union
  <2>2. T \subseteq DOMAIN B.headers \cup DOMAIN C.headers
    OBVIOUS
  <2> HIDE DEF T
  <2> QED BY <1>1, <2>1, <2>2, FS_Subset, FS_CardinalityType
<1>3. IsRanked(names, T, rank)
  <2>1. \A x \in T : rank[x] = x
    OBVIOUS
  <2> HIDE DEF T, rank
  <2> QED BY <1>2, <2>1, RankedCorrect
<1>4. DOMAIN names = 1 .. k /\ \A i \in 1 .. k : names[i] \in T
  <2> HIDE DEF T, rank, names
  <2> QED BY <1>3 DEF IsRanked
<1>5. HeaderDifferences = s
  BY DEF HeaderDifferences
<1>6. s \in Seq(OtherFindings) /\ Len(s) = k
  <2>1. \A i \in 1 .. k : Difference("header", <<<<"name", names[i]>>>>) \in OtherFindings
    <3>1. ASSUME NEW n \in Nat PROVE Difference("header", <<<<"name", n>>>>) \in OtherFindings
      BY DEF OtherFindings, Names
    <3>2. \A i \in 1 .. k : names[i] \in Nat
      <4> HIDE DEF T, names, k
      <4> QED BY <1>2, <1>4
    <3> HIDE DEF names, k
    <3> QED BY <3>1, <3>2
  <2> DEFINE found(i) == Difference("header", <<<<"name", names[i]>>>>)
  <2>2. s = [i \in 1 .. k |-> found(i)]
    BY <1>4
  <2>3. \A i \in 1 .. k : found(i) \in OtherFindings
    BY <2>1
  <2> HIDE DEF s, k, found
  <2> QED BY <1>2, <2>2, <2>3
<1>7. s = <<>> <=> k = 0
  <2> HIDE DEF s, k
  <2> QED BY <1>2, <1>6, EmptySeq
<1>8. k = 0 <=> T = {}
  <2> HIDE DEF T
  <2> QED BY <1>2, FS_EmptySet
<1>9. T = {} <=> B.headers = C.headers
  <2>1. ASSUME T = {} PROVE B.headers = C.headers
    <3>1. \A n \in DOMAIN B.headers \cup DOMAIN C.headers : ~HeaderChanged(n)
      BY <2>1
    <3>2. DOMAIN B.headers = DOMAIN C.headers
      BY <3>1 DEF HeaderChanged
    <3>3. \A n \in DOMAIN B.headers : B.headers[n] = C.headers[n]
      BY <3>1 DEF HeaderChanged
    <3> QED BY <1>1, <3>2, <3>3
  <2>2. ASSUME B.headers = C.headers PROVE T = {}
    BY <2>2 DEF HeaderChanged
  <2> QED BY <2>1, <2>2
<1> QED BY <1>5, <1>6, <1>7, <1>8, <1>9

(* What is found before the walk.                                          *)
Prelude == StatusDifferences \o HeaderDifferences \o BodyDifferences

LEMMA PreludeCorrect ==
    ASSUME pair \in Pairs
    PROVE  /\ Prelude \in Seq(OtherFindings)
           /\ Prelude = <<>> <=> /\ B.code = C.code /\ B.headers = C.headers
                                 /\ IF JsonRequired THEN BothValid ELSE B.body = C.body
<1>1. /\ StatusDifferences \in Seq(OtherFindings)
      /\ StatusDifferences = <<>> <=> B.code = C.code
  <2> DEFINE d == <<Difference("status", <<>>)>>
  <2>1. d \in Seq(OtherFindings) /\ d # <<>>
    BY SingleFinding DEF Names
  <2>2. StatusDifferences = IF B.code = C.code THEN <<>> ELSE d
    BY DEF StatusDifferences
  <2> HIDE DEF d
  <2> QED BY <2>1, <2>2, EmptySeq
<1>2. /\ HeaderDifferences \in Seq(OtherFindings)
      /\ HeaderDifferences = <<>> <=> B.headers = C.headers
  BY HeadersCompared
<1>3. ExactDifferences \in Seq(OtherFindings) /\ (ExactDifferences = <<>> <=> B.body = C.body)
  <2> DEFINE d == <<Difference("body.exact", <<>>)>>
  <2>1. d \in Seq(OtherFindings) /\ d # <<>>
    BY SingleFinding DEF Names
  <2>2. ExactDifferences = IF B.body = C.body THEN <<>> ELSE d
    BY DEF ExactDifferences
  <2> HIDE DEF d
  <2> QED BY <2>1, <2>2, EmptySeq
<1>4. /\ BodyDifferences \in Seq(OtherFindings)
      /\ BodyDifferences = <<>> <=> IF JsonRequired THEN BothValid ELSE B.body = C.body
  <2> DEFINE v == <<Difference("json.validity", <<>>)>>
  <2>1. v \in Seq(OtherFindings) /\ v # <<>>
    BY SingleFinding DEF Names
  <2> HIDE DEF v
  <2>2. v \o ExactDifferences \in Seq(OtherFindings) /\ v \o ExactDifferences # <<>>
    BY <1>3, <2>1, ConcatProperties, ConcatEqualIffEmpty
  <2>3. BodyDifferences = IF ~JsonRequired THEN ExactDifferences
                          ELSE IF ~BothValid THEN v \o ExactDifferences ELSE <<>>
    BY DEF BodyDifferences, v
  <2> QED BY <1>3, <2>2, <2>3, EmptySeq
<1>5. \A s, t \in Seq(OtherFindings) :
         s \o t \in Seq(OtherFindings) /\ (s \o t = <<>> <=> s = <<>> /\ t = <<>>)
  BY ConcatProperties, ConcatEqualIffEmpty
<1> DEFINE first == StatusDifferences \o HeaderDifferences
<1>6. first \in Seq(OtherFindings) /\ (first = <<>> <=> B.code = C.code /\ B.headers = C.headers)
  BY <1>1, <1>2, <1>5
<1> HIDE DEF first
<1>7. /\ first \o BodyDifferences \in Seq(OtherFindings)
      /\ first \o BodyDifferences = <<>> <=> first = <<>> /\ BodyDifferences = <<>>
  BY <1>4, <1>5, <1>6
<1> QED BY <1>4, <1>6, <1>7 DEF Prelude, first

(* No more latency than the limits allow.                                  *)
FastEnough ==
    \/ C.latency <= B.latency
    \/ /\ 100 * C.latency <= B.latency * (100 + policy.maxPercent)
       /\ \A limit \in policy.maxMs : C.latency <= B.latency + limit

LEMMA LatencyCompared ==
    ASSUME pair \in Pairs, policy \in Policies
    PROVE  /\ LatencyDifferences \in Seq(OtherFindings)
           /\ LatencyDifferences = <<>> <=> FastEnough
<1> DEFINE b == B.latency
           c == C.latency
           m == policy.maxPercent
           relative == IF c - b > 0 /\ (c - b) * 100 > b * m
                       THEN <<Difference("latency.relative", <<>>)>> ELSE <<>>
           slower(limit) == IF c - b > 0 /\ (c - b) * 1 > limit
                            THEN <<Difference("latency.absolute", <<>>)>> ELSE <<>>
           absolute == IF policy.maxMs = {} THEN <<>>
                       ELSE slower(CHOOSE limit \in policy.maxMs : TRUE)
<1>1. b \in Nat /\ c \in Nat /\ m \in Int
  BY ComparisonAssumption DEF IsObservation, IsPolicy, B, C
<1>2. LatencyDifferences = relative \o absolute
  BY DEF LatencyDifferences, Exceeds
<1>3. relative \in Seq(OtherFindings) /\ absolute \in Seq(OtherFindings)
  <2>1. /\ <<Difference("latency.relative", <<>>)>> \in Seq(OtherFindings)
        /\ <<Difference("latency.absolute", <<>>)>> \in Seq(OtherFindings)
    BY SingleFinding DEF Names
  <2>2. <<>> \in Seq(OtherFindings)
    BY EmptySeq
  <2>3. relative \in Seq(OtherFindings)
    BY <2>1, <2>2, Zenon
  <2>4. \A limit : slower(limit) \in Seq(OtherFindings)
    BY <2>1, <2>2, Zenon
  <2> HIDE DEF slower
  <2> QED BY <2>2, <2>3, <2>4, Zenon
<1>4. relative = <<>> <=> c <= b \/ 100 * c <= b * (100 + m)
  <2>1. relative = <<>> <=> ~(c - b > 0 /\ (c - b) * 100 > b * m)
    BY Zenon
  <2> HIDE DEF b, c, m
  <2>2. c - b > 0 <=> ~(c <= b)
    BY <1>1
  <2>3. (c - b) * 100 > b * m <=> ~(100 * c <= b * (100 + m))
    <3>1. b * (100 + m) = 100 * b + b * m /\ b * m \in Int
      BY <1>1
    <3> DEFINE x == b * m
    <3>2. x \in Int /\ b * (100 + m) = 100 * b + x
      BY <3>1
    <3> HIDE DEF x
    <3>3. (c - b) * 100 > x <=> ~(100 * c <= 100 * b + x)
      BY <1>1, <3>2
    <3> QED BY <3>2, <3>3 DEF x
  <2> QED BY <2>1, <2>2, <2>3
<1>5. absolute = <<>> <=> c <= b \/ \A limit \in policy.maxMs : c <= b + limit
  <2>1. CASE policy.maxMs = {}
    BY <2>1
  <2>2. CASE policy.maxMs # {}
    <3>1. PICK x \in Int : policy.maxMs = {x}
      BY <2>2, ComparisonAssumption DEF IsPolicy
    <3>2. absolute = slower(x)
      BY <2>2, <3>1
    <3>3. slower(x) = <<>> <=> ~(c - b > 0 /\ (c - b) * 1 > x)
      BY Zenon
    <3> HIDE DEF b, c, slower, absolute
    <3>4. ~(c - b > 0 /\ (c - b) * 1 > x) <=> c <= b \/ c <= b + x
      BY <1>1, <3>1
    <3> QED BY <3>1, <3>2, <3>3, <3>4
  <2> QED BY <2>1, <2>2
<1>6. /\ relative \o absolute \in Seq(OtherFindings)
      /\ relative \o absolute = <<>> <=> relative = <<>> /\ absolute = <<>>
  <2> HIDE DEF relative, absolute
  <2> QED BY <1>3, ConcatProperties, ConcatEqualIffEmpty
<1>7. FastEnough <=> /\ c <= b \/ 100 * c <= b * (100 + m)
                     /\ c <= b \/ \A limit \in policy.maxMs : c <= b + limit
  BY DEF FastEnough
<1> HIDE DEF relative, absolute, b, c, m
<1> QED BY <1>2, <1>4, <1>5, <1>6, <1>7

-----------------------------------------------------------------------------
(* What is above a path                                                    *)

LEMMA StartsFacts ==
    ASSUME pair \in Pairs, NEW p \in Paths, NEW i \in 0 .. Len(p) - 1
    PROVE  /\ SubSeq(p, 1, i) \in Paths /\ Len(SubSeq(p, 1, i)) = i
           /\ IsPrefix(SubSeq(p, 1, i), p) /\ SubSeq(p, 1, i) # p
           /\ InBoth(SubSeq(p, 1, i)) /\ SameKind(SubSeq(p, 1, i)) => Container(SubSeq(p, 1, i))
<1> DEFINE q == SubSeq(p, 1, i)
<1>1. p \in Seq(Segments) /\ i \in 0 .. Len(p) /\ i + 1 \in 1 .. Len(p) /\ (i + 1) - 1 = i
  BY DocFacts
<1>2. Len(q) = i /\ IsPrefix(q, p) /\ q # p
  <2>1. Len(q) = i /\ IsPrefix(q, p)
    BY <1>1, StartOfPath, StartIsPrefix
  <2>2. i # Len(p)
    BY <1>1
  <2> QED BY <2>1, <2>2
<1>3. ASSUME NEW doc, IsJson(doc), p \in DOMAIN doc
      PROVE  q \in DOMAIN doc /\ doc[q].kind \in {"object", "array"}
  <2>1. q \in DOMAIN doc /\ doc[q] = IF p[i + 1][1] = "key" THEN Obj ELSE Arr
    BY <1>1, <1>3 DEF IsJson
  <2> HIDE DEF q
  <2> QED BY <2>1 DEF Obj, Arr
<1>4. \/ q \in DOMAIN B.body.doc /\ B.body.doc[q].kind \in {"object", "array"}
      \/ q \in DOMAIN C.body.doc /\ C.body.doc[q].kind \in {"object", "array"}
  BY <1>3, DocFacts DEF Paths
<1> HIDE DEF q
<1>5. q \in Paths /\ (SameKind(q) => Container(q))
  BY <1>4 DEF Paths, SameKind, Container
<1> QED BY <1>2, <1>5 DEF q

(* A path that begins with another is that path, or has it above.          *)
LEMMA PrefixCases ==
    ASSUME NEW S, NEW t \in Seq(S), NEW p \in Seq(S), IsPrefix(t, p)
    PROVE  \/ t = p
           \/ Len(t) \in 0 .. Len(p) - 1 /\ t = SubSeq(p, 1, Len(t))
<1>1. Len(t) <= Len(p) /\ \A i \in 1 .. Len(t) : t[i] = p[i]
  BY PrefixIs
<1>2. t = SubSeq(p, 1, Len(t))
  BY StartIsPrefix
<1>3. CASE Len(t) = Len(p)
  BY <1>1, <1>3, SeqEqual
<1>4. CASE Len(t) # Len(p)
  <2>1. Len(t) \in 0 .. Len(p) - 1
    BY <1>1, <1>4
  <2> QED BY <1>2, <2>1
<1> QED BY <1>3, <1>4

-----------------------------------------------------------------------------
(* The two readings of a difference                                        *)

LEMMA PolicyFacts ==
    ASSUME policy \in Policies, PolicyError(policy) = "none"
    PROVE  /\ policy.ignored \cup policy.normalized \subseteq Seq(Segments)
           /\ \A p \in policy.ignored, q \in policy.normalized :
                 ~IsPrefix(p, q) /\ ~IsPrefix(q, p)
<1>1. Unsupported \notin policy.ignored \cup policy.normalized
  BY DEF PolicyError
<1>2. \A p \in policy.ignored, q \in policy.normalized : ~PathsOverlap(p, q)
  BY DEF PolicyError
<1>3. \A p \in policy.ignored \cup policy.normalized : p \in Seq(Segments)
  BY <1>1, ComparisonAssumption DEF IsPolicy
<1> QED BY <1>2, <1>3 DEF PathsOverlap

Uncovered(q) == /\ \A r \in policy.ignored : ~IsPrefix(r, q)
                /\ \A r \in policy.normalized : ~IsStrictPrefix(r, q)

(* Whatever the walk has to report is outside the rules.                   *)
LEMMA ExpectedIsUncovered ==
    ASSUME pair \in Pairs, policy \in Policies, PolicyError(policy) = "none", NEW p \in Expected
    PROVE  p \in Paths /\ Uncovered(p)
<1>1. p \in Paths /\ p \in Seq(Segments) /\ Reached(p) /\ ~Ignored(p)
  BY DocFacts DEF Expected, Paths
<1>2. ASSUME NEW r \in policy.ignored \cup policy.normalized, IsPrefix(r, p)
      PROVE  r = p \/ (~Ignored(r) /\ ~Normalized(r))
  <2>1. r \in Seq(Segments)
    BY PolicyFacts
  <2>2. r = p \/ (Len(r) \in 0 .. Len(p) - 1 /\ r = SubSeq(p, 1, Len(r)))
    BY <1>1, <1>2, <2>1, PrefixCases
  <2> QED BY <1>1, <2>2 DEF Reached
<1>3. \A r \in policy.ignored : ~IsPrefix(r, p)
  BY <1>1, <1>2 DEF Ignored
<1>4. \A r \in policy.normalized : ~IsStrictPrefix(r, p)
  BY <1>2 DEF Normalized, IsStrictPrefix
<1> QED BY <1>1, <1>3, <1>4 DEF Uncovered

(* If nothing is to report, two values agree outside the rules: the        *)
(* shortest path at which they did not would be reported.                  *)
LEMMA NothingExpected ==
    ASSUME pair \in Pairs, policy \in Policies, PolicyError(policy) = "none", Expected = {},
           NEW x \in Paths, Uncovered(x)
    PROVE  ~Differs(x)
<1> DEFINE Bad == {Len(p) : p \in {q \in Paths : Uncovered(q) /\ Differs(q)}}
<1>1. ASSUME Differs(x) PROVE FALSE
  <2>1. Bad \subseteq Nat /\ Bad # {}
    <3>1. \A p \in Paths : Len(p) \in Nat
      BY DocFacts
    <3> QED BY <1>1, <3>1
  <2>2. PICK n \in Bad : \A m \in Bad : n <= m
    <3> HIDE DEF Bad
    <3> QED BY <2>1, NatLeast
  <2>3. PICK p \in Paths : Uncovered(p) /\ Differs(p) /\ Len(p) = n
    BY <2>2
  <2>4. p \in Seq(Segments) /\ IsPrefix(p, p)
    BY <2>3, DocFacts, PrefixIs
  <2>5. \A q \in Paths : Uncovered(q) /\ Differs(q) => n <= Len(q)
    BY <2>2
  <2>6. ASSUME NEW i \in 0 .. Len(p) - 1
        PROVE  LET q == SubSeq(p, 1, i) IN
               InBoth(q) /\ SameKind(q) /\ ~Ignored(q) /\ ~Normalized(q)
    <3> DEFINE q == SubSeq(p, 1, i)
    <3>1. q \in Paths /\ Len(q) = i /\ IsPrefix(q, p) /\ q # p
      BY StartsFacts
    <3>2. q \in Seq(Segments) /\ IsPrefix(q, q)
      BY <3>1, DocFacts, PrefixIs
    <3> HIDE DEF q
    <3>3. ASSUME NEW r \in policy.ignored \cup policy.normalized, IsPrefix(r, q)
          PROVE  IsPrefix(r, p) /\ r # p
      <4>1. r \in Seq(Segments)
        BY PolicyFacts
      <4>2. /\ Len(r) <= Len(q) /\ \A k \in 1 .. Len(r) : r[k] = q[k]
            /\ Len(q) <= Len(p) /\ \A k \in 1 .. Len(q) : q[k] = p[k]
        BY <2>4, <3>1, <3>2, <3>3, <4>1, PrefixIs
      <4>3. Len(r) <= Len(p) /\ \A k \in 1 .. Len(r) : r[k] = p[k]
        BY <2>4, <3>2, <4>1, <4>2
      <4>4. Len(r) # Len(p)
        BY <2>4, <3>1, <3>2, <4>1, <4>2
      <4> QED BY <2>4, <4>1, <4>3, <4>4, PrefixIs
    <3>4. Uncovered(q)
      BY <2>3, <3>3 DEF Uncovered, IsStrictPrefix
    <3>5. ~Ignored(q)
      BY <3>2, <3>4 DEF Uncovered, Ignored
    <3>6. ~Normalized(q)
      BY <2>3, <3>1 DEF Uncovered, Normalized, IsStrictPrefix
    <3>7. ~(n <= Len(q))
      BY <2>3, <2>4, <3>1
    <3>8. ~Differs(q)
      BY <2>5, <3>1, <3>4, <3>7
    <3> QED BY <3>5, <3>6, <3>8 DEF Differs, SameKind, q
  <2>7. Reached(p) /\ ~Ignored(p)
    BY <2>3, <2>4, <2>6 DEF Reached, Uncovered, Ignored
  <2>8. p \in Expected
    BY <2>3, <2>7 DEF Expected, Paths
  <2> QED BY <2>8
<1> QED BY <1>1

LEMMA ExpectedIsMasked ==
    ASSUME pair \in Pairs, policy \in Policies, PolicyError(policy) = "none"
    PROVE  Expected = {} <=> Masked(B.body.doc) = Masked(C.body.doc)
<1> DEFINE b == B.body.doc
           c == C.body.doc
<1>1. /\ DOMAIN Masked(b) = {q \in DOMAIN b : Uncovered(q)}
      /\ DOMAIN Masked(c) = {q \in DOMAIN c : Uncovered(q)}
  BY DEF Masked, Uncovered
<1>2. \A q : Uncovered(q) =>
         /\ q \in DOMAIN b => Masked(b)[q] = IF Normalized(q) THEN Obj ELSE b[q]
         /\ q \in DOMAIN c => Masked(c)[q] = IF Normalized(q) THEN Obj ELSE c[q]
  BY DEF Masked, Uncovered
<1>3. ASSUME Masked(b) = Masked(c), NEW p \in Expected
      PROVE  FALSE
  <2>1. p \in Paths /\ Uncovered(p) /\ Differs(p)
    BY ExpectedIsUncovered DEF Expected
  <2>2. p \in DOMAIN Masked(b) <=> p \in DOMAIN Masked(c)
    BY <1>3
  <2>3. p \in DOMAIN b /\ p \in DOMAIN c
    BY <1>1, <2>1, <2>2 DEF Paths
  <2>4. ~Normalized(p) /\ b[p] # c[p]
    BY <2>1, <2>3 DEF Differs, InBoth
  <2> QED BY <1>2, <1>3, <2>1, <2>3, <2>4
<1>4. ASSUME Expected = {}
      PROVE  Masked(b) = Masked(c)
  <2>1. ASSUME NEW q \in Paths, Uncovered(q)
        PROVE  q \in DOMAIN b /\ q \in DOMAIN c /\ (Normalized(q) \/ b[q] = c[q])
    <3>1. ~Differs(q)
      BY <1>4, <2>1, NothingExpected
    <3> QED BY <3>1 DEF Differs, InBoth
  <2>2. {q \in DOMAIN b : Uncovered(q)} = {q \in DOMAIN c : Uncovered(q)}
    BY <2>1 DEF Paths
  <2> DEFINE D == {q \in DOMAIN b : Uncovered(q)}
  <2>3. \A q \in D : (IF Normalized(q) THEN Obj ELSE b[q]) = (IF Normalized(q) THEN Obj ELSE c[q])
    BY <2>1 DEF Paths
  <2>4. /\ Masked(b) = [q \in D |-> IF Normalized(q) THEN Obj ELSE b[q]]
        /\ Masked(c) = [q \in D |-> IF Normalized(q) THEN Obj ELSE c[q]]
    BY <2>2 DEF Masked, Uncovered
  <2> HIDE DEF D, b, c
  <2> QED BY <2>3, <2>4
<1> QED BY <1>3, <1>4

-----------------------------------------------------------------------------
(* The invariant                                                           *)

Path(i) == differences[i].path
Findings == WalkFindings \cup OtherFindings
Walkable == JsonRequired /\ BothValid

TypeInv ==
    /\ pair \in Pairs /\ policy \in Policies
    /\ stage \in {"called", "walking", "done", "rejected"}
    /\ pending \in Seq(Paths)
    /\ differences \in Seq(Findings)
    /\ stage # "walking" => pending = <<>>
    /\ stage \in {"called", "rejected"} => differences = <<>>
    /\ stage \in {"walking", "done"} => PolicyError(policy) = "none"

(* What is on the stack can be reached, and the top comes first.           *)
StackInv ==
    /\ \A k \in 1 .. Len(pending) : Reached(pending[k])
    /\ \A k, l \in 1 .. Len(pending) : k < l => Before(pending[l], pending[k])

(* What has been reported differs, came in order and comes before what is  *)
(* on the stack.                                                           *)
ReportedInv ==
    /\ \A i \in Reported : Path(i) \in Expected
    /\ \A i, j \in Reported : i < j => Before(Path(i), Path(j))
    /\ \A i \in Reported, k \in 1 .. Len(pending) : Before(Path(i), pending[k])

(* What has to be reported has been, or lies below the stack.              *)
CompleteInv ==
    stage \in {"walking", "done"} /\ Walkable =>
        \A p \in Expected : \/ \E i \in Reported : Path(i) = p
                            \/ \E k \in 1 .. Len(pending) : IsPrefix(pending[k], p)

(* Without two JSON bodies there is no walk.                               *)
NoWalkInv == ~Walkable => pending = <<>> /\ Reported = {}

ResultInv ==
    /\ stage = "walking" => (Reported = DOMAIN differences <=> Prelude = <<>>)
    /\ stage = "done" =>
          (status = "pass" <=> Prelude = <<>> /\ FastEnough /\ Reported = {})

IInv == TypeInv /\ StackInv /\ ReportedInv /\ CompleteInv /\ NoWalkInv /\ ResultInv

(* The arguments stay what they are, and what depends on them only.        *)
LEMMA ArgumentsStay ==
    ASSUME UNCHANGED <<pair, policy>>
    PROVE  /\ Paths' = Paths /\ Findings' = Findings /\ Expected' = Expected
           /\ Walkable' = Walkable /\ Prelude' = Prelude /\ FastEnough' = FastEnough
           /\ PolicyError(policy)' = PolicyError(policy)
           /\ \A p : Reached(p)' = Reached(p)
<1>1. B' = B /\ C' = C /\ policy' = policy /\ pair' = pair
  BY DEF B, C
<1>2. Paths' = Paths
  BY <1>1 DEF Paths
<1>3. WalkFindings' = WalkFindings
  BY <1>2 DEF WalkFindings
<1>4. JsonRequired' = JsonRequired /\ BothValid' = BothValid
  BY <1>1 DEF JsonRequired, BothValid
<1>5. \A p : /\ InBoth(p)' = InBoth(p) /\ SameKind(p)' = SameKind(p)
             /\ Ignored(p)' = Ignored(p) /\ Normalized(p)' = Normalized(p)
  BY <1>1 DEF InBoth, SameKind, Ignored, Normalized
<1>6. \A p : Reached(p)' = Reached(p)
  BY <1>5 DEF Reached
<1>7. \A p : Differs(p)' = Differs(p)
  BY <1>1, <1>5 DEF Differs
<1>8. Expected' = Expected
  BY <1>1, <1>5, <1>6, <1>7 DEF Expected
<1>9. Prelude' = Prelude
  <2>1. StatusDifferences' = StatusDifferences
    BY <1>1 DEF StatusDifferences
  <2>2. HeaderDifferences' = HeaderDifferences
    BY <1>1 DEF HeaderDifferences, HeaderChanged
  <2>3. BodyDifferences' = BodyDifferences
    BY <1>1, <1>4 DEF BodyDifferences, ExactDifferences
  <2> QED BY <2>1, <2>2, <2>3 DEF Prelude
<1>10. FastEnough' = FastEnough
  BY <1>1 DEF FastEnough
<1> QED BY <1>1, <1>2, <1>3, <1>4, <1>6, <1>8, <1>9, <1>10 DEF Findings, Walkable

LEMMA TopFacts ==
    ASSUME TypeInv, Visiting
    PROVE  LET n == Len(pending) IN
           /\ n \in Nat /\ n >= 1 /\ Top = pending[n] /\ Top \in Paths
           /\ Popped \in Seq(Paths) /\ Len(Popped) = n - 1
           /\ \A k \in 1 .. n - 1 : Popped[k] = pending[k] /\ pending[k] \in Paths
<1>1. pending \in Seq(Paths) /\ pending # <<>>
  BY DEF TypeInv, Visiting
<1>2. /\ Front(pending) \in Seq(Paths) /\ Len(Front(pending)) = Len(pending) - 1
      /\ \A i \in 1 .. Len(pending) - 1 : Front(pending)[i] = pending[i]
  <2>1. Len(pending) - 1 \in 0 .. Len(pending)
    BY <1>1, EmptySeq
  <2> QED BY <1>1, <2>1, StartOfPath DEF Front
<1>3. Len(pending) \in Nat /\ Len(pending) >= 1
  BY <1>1, EmptySeq
<1>4. \A k \in 1 .. Len(pending) : pending[k] \in Paths
  BY <1>1
<1> QED BY <1>2, <1>3, <1>4 DEF Top, Popped, Last

(* A path above one to report is a container in both and under no rule.    *)
LEMMA AboveExpected ==
    ASSUME pair \in Pairs, NEW t \in Paths, NEW p \in Expected, IsPrefix(t, p)
    PROVE  \/ t = p
           \/ /\ t # p /\ Len(t) \in 0 .. Len(p) - 1 /\ t = SubSeq(p, 1, Len(t))
              /\ InBoth(t) /\ SameKind(t) /\ Container(t) /\ ~Ignored(t) /\ ~Normalized(t)
<1>1. p \in Paths /\ Reached(p) /\ p \in Seq(Segments) /\ t \in Seq(Segments)
  BY DocFacts DEF Expected, Paths
<1>2. t = p \/ (Len(t) \in 0 .. Len(p) - 1 /\ t = SubSeq(p, 1, Len(t)))
  BY <1>1, PrefixCases
<1>3. ASSUME Len(t) \in 0 .. Len(p) - 1, t = SubSeq(p, 1, Len(t))
      PROVE  InBoth(t) /\ SameKind(t) /\ Container(t) /\ ~Ignored(t) /\ ~Normalized(t)
  <2>1. InBoth(t) /\ SameKind(t) /\ ~Ignored(t) /\ ~Normalized(t)
    BY <1>1, <1>3 DEF Reached
  <2>2. Container(t)
    BY <1>1, <1>3, <2>1, StartsFacts
  <2> QED BY <2>1, <2>2
<1> QED BY <1>2, <1>3

(* A path whose visit says nothing leaves the stack.                       *)
LEMMA PopKeeps ==
    ASSUME IInv, Visiting, pending' = Popped,
           UNCHANGED <<pair, policy, stage, differences, status>>,
           \A p \in Expected : ~IsPrefix(Top, p)
    PROVE  IInv'
<1> DEFINE n == Len(pending)
<1>1. /\ n \in Nat /\ n >= 1 /\ Top = pending[n] /\ pending' \in Seq(Paths) /\ Len(pending') = n - 1
      /\ \A k \in 1 .. n - 1 : pending'[k] = pending[k]
  BY TopFacts DEF IInv
<1>2. \A k \in 1 .. Len(pending') : k \in 1 .. Len(pending) /\ pending'[k] = pending[k]
  BY <1>1
<1>3. /\ Reported' = Reported /\ \A i : Path(i)' = Path(i)
      /\ stage' = stage /\ differences' = differences /\ status' = status
      /\ pair' = pair /\ policy' = policy
  BY DEF Reported, Path
<1>4. /\ Paths' = Paths /\ Findings' = Findings /\ Expected' = Expected
      /\ Walkable' = Walkable /\ Prelude' = Prelude /\ FastEnough' = FastEnough
      /\ PolicyError(policy)' = PolicyError(policy) /\ \A p : Reached(p)' = Reached(p)
  BY ArgumentsStay
<1>5. stage = "walking" /\ Walkable
  BY DEF IInv, NoWalkInv, Visiting
<1>6. TypeInv'
  BY <1>1, <1>3, <1>4, <1>5 DEF IInv, TypeInv
<1>7. StackInv'
  <2>1. StackInv
    BY DEF IInv
  <2> QED BY <1>2, <1>4, <2>1 DEF StackInv
<1>8. ReportedInv'
  <2>1. ReportedInv
    BY DEF IInv
  <2> QED BY <1>2, <1>3, <1>4, <2>1 DEF ReportedInv
<1>9. CompleteInv'
  <2>1. ASSUME NEW p \in Expected
        PROVE  \/ \E i \in Reported : Path(i) = p
               \/ \E k \in 1 .. Len(pending') : IsPrefix(pending'[k], p)
    <3>1. CASE \E i \in Reported : Path(i) = p
      BY <3>1
    <3>2. CASE \E k \in 1 .. n : IsPrefix(pending[k], p)
      <4>1. PICK k \in 1 .. n : IsPrefix(pending[k], p)
        BY <3>2
      <4>2. k # n
        BY <1>1, <4>1
      <4>3. k \in 1 .. n - 1
        BY <1>1, <4>2
      <4> QED BY <1>1, <4>1, <4>3
    <3> QED BY <1>5, <3>1, <3>2 DEF IInv, CompleteInv
  <2> QED BY <1>3, <1>4, <2>1 DEF CompleteInv
<1>10. NoWalkInv'
  BY <1>4, <1>5 DEF NoWalkInv
<1>11. ResultInv'
  BY <1>3, <1>4 DEF IInv, ResultInv
<1> QED BY <1>6, <1>7, <1>8, <1>9, <1>10, <1>11 DEF IInv

LEMMA SkipKeeps ==
    ASSUME IInv, Skip PROVE IInv'
<1>1. pair \in Pairs /\ Top \in Paths /\ Visiting /\ Skipped(Top)
  BY TopFacts DEF IInv, TypeInv, Skip
<1>2. ASSUME NEW p \in Expected, IsPrefix(Top, p) PROVE FALSE
  <2>1. ~Ignored(p) /\ Differs(p)
    BY DEF Expected
  <2>2. Top = p \/ (~Ignored(Top) /\ ~Normalized(Top))
    BY <1>1, <1>2, AboveExpected
  <2> QED BY <1>1, <2>1, <2>2 DEF Skipped, Differs
<1> QED BY <1>1, <1>2, PopKeeps DEF Skip

LEMMA AgreeKeeps ==
    ASSUME IInv, Agree PROVE IInv'
<1>1. /\ pair \in Pairs /\ Top \in Paths /\ Visiting
      /\ InBoth(Top) /\ ~Container(Top) /\ SameValue(Top)
  BY TopFacts DEF IInv, TypeInv, Agree
<1>2. ASSUME NEW p \in Expected, IsPrefix(Top, p) PROVE FALSE
  <2>1. Differs(p)
    BY DEF Expected
  <2>2. Top = p \/ Container(Top)
    BY <1>1, <1>2, AboveExpected
  <2> QED BY <1>1, <2>1, <2>2 DEF SameValue, Differs
<1> QED BY <1>1, <1>2, PopKeeps DEF Agree

LEMMA ReportKeeps ==
    ASSUME IInv, Report PROVE IInv'
<1> DEFINE d == Difference("json.structure", Top)
<1>1. /\ pair' = pair /\ policy' = policy /\ stage' = stage /\ stage = "walking" /\ pair \in Pairs
      /\ Visiting /\ ~Skipped(Top) /\ differences' = Append(differences, d)
      /\ InBoth(Top) => ~SameKind(Top) \/ (~Container(Top) /\ ~SameValue(Top))
  BY DEF IInv, TypeInv, Report, Visiting
<1>2. /\ Paths' = Paths /\ Findings' = Findings /\ Expected' = Expected
      /\ Walkable' = Walkable /\ Prelude' = Prelude
      /\ PolicyError(policy)' = PolicyError(policy) /\ \A p : Reached(p)' = Reached(p)
  BY <1>1, ArgumentsStay
<1>3. Walkable /\ differences \in Seq(Findings)
  BY <1>1 DEF IInv, NoWalkInv, TypeInv, Visiting
<1>4. PICK n \in Nat : n = Len(pending)
  BY DEF IInv, TypeInv
<1>5. PICK m \in Nat : m = Len(differences)
  BY <1>3
<1>6. /\ n >= 1 /\ Top = pending[n] /\ Top \in Paths
      /\ pending' \in Seq(Paths) /\ Len(pending') = n - 1
      /\ \A k \in 1 .. n - 1 : pending'[k] = pending[k]
  BY <1>4, TopFacts DEF IInv, Report
<1>7. d \in Findings /\ d.comparator = "json.structure" /\ d.path = Top
  BY <1>6 DEF Findings, WalkFindings, Difference
<1>8. /\ differences' \in Seq(Findings) /\ DOMAIN differences' = 1 .. m + 1
      /\ differences'[m + 1] = d /\ \A i \in 1 .. m : differences'[i] = differences[i]
  <2> HIDE DEF d
  <2> QED BY <1>1, <1>3, <1>5, <1>7, AppendProperties
<1>9. Reported \subseteq 1 .. m /\ m + 1 \notin 1 .. m /\ DOMAIN differences = 1 .. m
  BY <1>3, <1>5 DEF Reported
<1> HIDE DEF d
<1>10. Reported' = Reported \cup {m + 1}
  <2>1. Reported' = {i \in 1 .. m + 1 : differences'[i].comparator = "json.structure"}
    BY <1>8 DEF Reported
  <2>2. Reported = {i \in 1 .. m : differences[i].comparator = "json.structure"}
    BY <1>9 DEF Reported
  <2>3. \A i \in 1 .. m + 1 : i \in 1 .. m \/ i = m + 1
    OBVIOUS
  <2>4. m + 1 \in 1 .. m + 1 /\ 1 .. m \subseteq 1 .. m + 1
    OBVIOUS
  <2> QED BY <1>7, <1>8, <2>1, <2>2, <2>3, <2>4
<1>11. Path(m + 1)' = Top /\ \A i \in Reported : Path(i)' = Path(i)
  <2>1. differences'[m + 1].path = Top
    BY <1>7, <1>8
  <2>2. \A i \in Reported : differences'[i].path = differences[i].path
    BY <1>8, <1>9
  <2> QED BY <2>1, <2>2 DEF Path
<1>12. Top \in Expected
  <2>1. Reached(Top)
    BY <1>4, <1>6 DEF IInv, StackInv
  <2>2. ~Ignored(Top) /\ Differs(Top)
    BY <1>1 DEF Skipped, Differs, SameKind, SameValue
  <2> QED BY <1>6, <2>1, <2>2 DEF Expected, Paths
<1>13. ASSUME NEW p \in Expected, IsPrefix(Top, p) PROVE Top = p
  <2>1. Top = p \/ (InBoth(Top) /\ SameKind(Top) /\ Container(Top))
    BY <1>1, <1>6, <1>13, AboveExpected
  <2> QED BY <1>1, <2>1
<1>14. TypeInv'
  BY <1>1, <1>2, <1>6, <1>8 DEF IInv, TypeInv
<1>15. \A k \in 1 .. Len(pending') : k \in 1 .. n /\ k < n /\ pending'[k] = pending[k]
  BY <1>6
<1>16. StackInv'
  <2>1. StackInv
    BY DEF IInv
  <2> QED BY <1>2, <1>4, <1>15, <2>1 DEF StackInv
<1>17. ReportedInv'
  <2>1. /\ \A i \in Reported : Path(i) \in Expected
        /\ \A i, j \in Reported : i < j => Before(Path(i), Path(j))
        /\ \A i \in Reported, k \in 1 .. n : Before(Path(i), pending[k])
        /\ \A k \in 1 .. n : k < n => Before(pending[n], pending[k])
    BY <1>4, <1>6 DEF IInv, StackInv, ReportedInv
  <2>2. \A i \in Reported : i < m + 1 /\ ~(m + 1 < i) /\ n \in 1 .. n
    BY <1>6, <1>9
  <2>3. \A i \in Reported' : Path(i)' \in Expected'
    BY <1>2, <1>10, <1>11, <1>12, <2>1
  <2>4. \A i, j \in Reported' : i < j => Before(Path(i)', Path(j)')
    <3>1. ~(m + 1 < m + 1)
      OBVIOUS
    <3>2. \A i \in Reported : Before(Path(i), Top)
      BY <1>6, <2>1, <2>2
    <3> QED BY <1>10, <1>11, <2>1, <2>2, <3>1, <3>2
  <2>5. \A i \in Reported', k \in 1 .. Len(pending') : Before(Path(i)', pending'[k])
    <3>1. \A k \in 1 .. Len(pending') : Before(Top, pending'[k])
      BY <1>6, <1>15, <2>1
    <3> QED BY <1>10, <1>11, <1>15, <2>1, <3>1
  <2> QED BY <2>3, <2>4, <2>5 DEF ReportedInv
<1>18. CompleteInv'
  <2>1. ASSUME NEW p \in Expected
        PROVE  \/ \E i \in Reported' : Path(i)' = p
               \/ \E k \in 1 .. Len(pending') : IsPrefix(pending'[k], p)
    <3>1. CASE \E i \in Reported : Path(i) = p
      BY <1>10, <1>11, <3>1
    <3>2. CASE \E k \in 1 .. n : IsPrefix(pending[k], p)
      <4>1. PICK k \in 1 .. n : IsPrefix(pending[k], p)
        BY <3>2
      <4>2. CASE k = n
        BY <1>6, <1>10, <1>11, <1>13, <4>1, <4>2
      <4>3. CASE k # n
        <5>1. k \in 1 .. n - 1
          BY <4>3
        <5> QED BY <1>6, <4>1, <5>1
      <4> QED BY <4>2, <4>3
    <3> QED BY <1>1, <1>3, <1>4, <3>1, <3>2 DEF IInv, CompleteInv
  <2> QED BY <1>2, <2>1 DEF CompleteInv
<1>19. NoWalkInv'
  BY <1>2, <1>3 DEF NoWalkInv
<1>20. ResultInv'
  <2>1. Reported' = DOMAIN differences' <=> Reported = DOMAIN differences
    <3>1. 1 .. m + 1 = (1 .. m) \cup {m + 1}
      OBVIOUS
    <3> QED BY <1>8, <1>9, <1>10, <3>1
  <2> QED BY <1>1, <1>2, <2>1 DEF IInv, ResultInv
<1> QED BY <1>14, <1>16, <1>17, <1>18, <1>19, <1>20 DEF IInv

(* The children of a path are where the path was, and lead to whatever has *)
(* to be reported below it.                                                *)
LEMMA ChildrenReached ==
    ASSUME pair \in Pairs, NEW t \in Paths, Reached(t), ~Skipped(t),
           InBoth(t), SameKind(t), Container(t)
    PROVE  /\ \A q \in Children(t) : Reached(q)
           /\ \A p \in Expected : IsPrefix(t, p) => \E q \in Children(t) : IsPrefix(q, p)
<1>1. t \in Seq(Segments) /\ IsJson(B.body.doc) /\ IsJson(C.body.doc)
  BY DocFacts
<1>2. ASSUME NEW q \in Children(t)
      PROVE  Reached(q)
  <2>1. /\ q \in Seq(Segments) /\ Len(q) = Len(t) + 1 /\ SubSeq(q, 1, Len(t)) = t
        /\ IsPrefix(t, q)
    BY ChildFacts
  <2>2. ASSUME NEW i \in 0 .. Len(q) - 1
        PROVE  LET r == SubSeq(q, 1, i) IN
               InBoth(r) /\ SameKind(r) /\ ~Ignored(r) /\ ~Normalized(r)
    <3>1. CASE i = Len(t)
      <4>1. SubSeq(q, 1, i) = t
        BY <2>1, <3>1
      <4>2. InBoth(t) /\ SameKind(t) /\ ~Ignored(t) /\ ~Normalized(t)
        BY DEF Skipped
      <4> QED BY <4>1, <4>2
    <3>2. CASE i # Len(t)
      <4>1. i \in 0 .. Len(t) - 1
        <5>1. PICK l \in Nat : l = Len(t)
          BY <1>1
        <5>2. i \in 0 .. (l + 1) - 1 /\ i # l
          BY <2>1, <3>2, <5>1
        <5>3. i \in 0 .. l - 1
          BY <5>2
        <5> QED BY <5>1, <5>3
      <4>2. \A k \in 1 .. Len(t) : t[k] = q[k]
        BY <1>1, <2>1, PrefixIs
      <4>3. SubSeq(t, 1, i) = SubSeq(q, 1, i)
        <5>1. i \in 0 .. Len(t) /\ i <= Len(q) /\ \A k \in 1 .. i : t[k] = q[k]
          BY <1>1, <2>1, <4>1, <4>2
        <5> QED BY <1>1, <2>1, <5>1, EqualStarts
      <4>4. LET r == SubSeq(t, 1, i) IN
               InBoth(r) /\ SameKind(r) /\ ~Ignored(r) /\ ~Normalized(r)
        BY <4>1 DEF Reached
      <4> QED BY <4>3, <4>4
    <3> QED BY <3>1, <3>2
  <2> QED BY <2>2 DEF Reached
<1>3. ASSUME NEW p \in Expected, IsPrefix(t, p)
      PROVE  \E q \in Children(t) : IsPrefix(q, p)
  <2>1. p \in Paths /\ p \in Seq(Segments)
    BY DocFacts DEF Expected, Paths
  <2>2. t # p
    <3>1. Differs(t) => B.body.doc[t] # C.body.doc[t]
      BY DEF Differs
    <3>2. B.body.doc[t] = C.body.doc[t]
      BY <1>1 DEF InBoth, SameKind, Container, IsJson
    <3> QED BY <3>1, <3>2 DEF Expected
  <2>3. Len(t) \in 0 .. Len(p) - 1 /\ t = SubSeq(p, 1, Len(t))
    BY <1>1, <1>3, <2>1, <2>2, PrefixCases
  <2> DEFINE q == SubSeq(p, 1, Len(t) + 1)
  <2>4. Len(t) + 1 \in 0 .. Len(p) /\ Len(t) + 1 <= Len(p)
    BY <1>1, <2>1, <2>3
  <2>5. /\ q \in Seq(Segments) /\ Len(q) = Len(t) + 1 /\ IsPrefix(q, p)
        /\ \A k \in 1 .. Len(t) + 1 : q[k] = p[k]
    BY <2>1, <2>4, StartOfPath, StartIsPrefix
  <2>6. q \in Paths
    <3>1. CASE Len(t) + 1 = Len(p)
      <4> HIDE DEF q
      <4>1. q = p
        BY <2>1, <2>5, <3>1, SeqEqual
      <4> QED BY <2>1, <4>1
    <3>2. CASE Len(t) + 1 # Len(p)
      <4>1. Len(t) + 1 \in 0 .. Len(p) - 1
        BY <2>1, <2>4, <3>2
      <4> QED BY <2>1, <4>1, StartsFacts
    <3> QED BY <3>1, <3>2
  <2>7. IsPrefix(t, q)
    <3> HIDE DEF q
    <3>1. \A k \in 1 .. Len(t) : t[k] = p[k]
      BY <1>1, <1>3, <2>1, PrefixIs
    <3>2. Len(t) <= Len(q) /\ \A k \in 1 .. Len(t) : t[k] = q[k]
      BY <1>1, <2>5, <3>1
    <3> QED BY <1>1, <2>5, <3>2, PrefixIs
  <2> HIDE DEF q
  <2>8. q \in Children(t)
    BY <2>5, <2>6, <2>7 DEF Children, Paths
  <2> QED BY <2>5, <2>8
<1> QED BY <1>2, <1>3

LEMMA DescendKeeps ==
    ASSUME IInv, Descend PROVE IInv'
<1>1. /\ pair' = pair /\ policy' = policy /\ stage' = stage /\ stage = "walking" /\ pair \in Pairs
      /\ differences' = differences /\ status' = status
      /\ Visiting /\ ~Skipped(Top) /\ InBoth(Top) /\ SameKind(Top) /\ Container(Top)
      /\ pending' = Popped \o Pushed(Top)
  BY DEF IInv, TypeInv, Descend, Visiting
<1>2. /\ Paths' = Paths /\ Findings' = Findings /\ Expected' = Expected
      /\ Walkable' = Walkable /\ Prelude' = Prelude /\ FastEnough' = FastEnough
      /\ PolicyError(policy)' = PolicyError(policy) /\ \A p : Reached(p)' = Reached(p)
  BY <1>1, ArgumentsStay
<1>3. Reported' = Reported /\ \A i : Path(i)' = Path(i)
  BY <1>1 DEF Reported, Path
<1>4. Walkable
  BY <1>1 DEF IInv, NoWalkInv, Visiting
<1>5. PICK n \in Nat : n = Len(pending)
  BY DEF IInv, TypeInv
<1>6. /\ n >= 1 /\ Top = pending[n] /\ Top \in Paths
      /\ Popped \in Seq(Paths) /\ Len(Popped) = n - 1
      /\ \A k \in 1 .. n - 1 : Popped[k] = pending[k] /\ pending[k] \in Paths
  BY <1>1, <1>5, TopFacts DEF IInv
<1>7. PICK t : t = Top
  OBVIOUS
<1>8. PICK s : s = Pushed(t)
  OBVIOUS
<1>9. /\ s \in Seq(Paths) /\ {s[i] : i \in 1 .. Len(s)} = Children(t)
      /\ \A i, j \in 1 .. Len(s) : i < j => Before(s[j], s[i])
  BY <1>1, <1>6, <1>7, <1>8, PushedCorrect
<1>10. PICK c \in Nat : c = Len(s)
  BY <1>9
<1>11. /\ Reached(t) /\ t \in Paths
       /\ \A k \in 1 .. n - 1 : Reached(pending[k]) /\ Before(t, pending[k])
       /\ \A k, l \in 1 .. n - 1 : k < l => Before(pending[l], pending[k])
       /\ \A i \in Reported : Before(Path(i), t)
  <2>1. n \in 1 .. n /\ \A k \in 1 .. n - 1 : k \in 1 .. n /\ k < n
    BY <1>6
  <2> QED BY <1>5, <1>6, <1>7, <2>1 DEF IInv, StackInv, ReportedInv
<1>12. /\ \A q \in Children(t) : Reached(q)
       /\ \A p \in Expected : IsPrefix(t, p) => \E q \in Children(t) : IsPrefix(q, p)
  BY <1>1, <1>7, <1>11, ChildrenReached
<1>13. /\ pending' \in Seq(Paths) /\ Len(pending') = n - 1 + c
       /\ \A k \in 1 .. n - 1 : pending'[k] = pending[k]
       /\ \A k \in n .. n - 1 + c : pending'[k] = s[k - (n - 1)] /\ k - (n - 1) \in 1 .. c
  <2>1. /\ Popped \o s \in Seq(Paths) /\ Len(Popped \o s) = Len(Popped) + Len(s)
        /\ \A i \in 1 .. Len(Popped) + Len(s) :
              (Popped \o s)[i] = IF i <= Len(Popped) THEN Popped[i] ELSE s[i - Len(Popped)]
    BY <1>6, <1>9, ConcatProperties
  <2> DEFINE a == Popped \o s
  <2>2. pending' = a
    BY <1>1, <1>7, <1>8
  <2>3. /\ a \in Seq(Paths) /\ Len(a) = n - 1 + c
        /\ \A i \in 1 .. n - 1 + c : a[i] = IF i <= n - 1 THEN Popped[i] ELSE s[i - (n - 1)]
    BY <1>6, <1>10, <2>1
  <2> HIDE DEF a
  <2> QED BY <1>6, <2>2, <2>3
<1>14. \A k \in 1 .. Len(pending') : k \in 1 .. n - 1 \/ k \in n .. n - 1 + c
  BY <1>6, <1>13
<1>15. \A i \in 1 .. c : /\ s[i] \in Paths /\ s[i] \in Children(t) /\ IsPrefix(t, s[i])
  BY <1>9, <1>10 DEF Children
<1>16. \A p \in Paths : p \in Seq(Segments)
  BY <1>1, DocFacts
<1>17. TypeInv'
  BY <1>1, <1>2, <1>13 DEF IInv, TypeInv
<1>18. StackInv'
  <2>1. \A k \in 1 .. Len(pending') : Reached(pending'[k])
    BY <1>11, <1>12, <1>13, <1>14, <1>15
  <2>2. ASSUME NEW k \in 1 .. Len(pending'), NEW l \in 1 .. Len(pending'), k < l
        PROVE  Before(pending'[l], pending'[k])
    <3>1. CASE l \in 1 .. n - 1
      <4>1. k \in 1 .. n - 1
        BY <2>2, <3>1
      <4> QED BY <1>11, <1>13, <2>2, <3>1, <4>1
    <3>2. CASE l \in n .. n - 1 + c /\ k \in 1 .. n - 1
      <4>1. pending'[l] \in Paths /\ IsPrefix(t, pending'[l])
        BY <1>13, <1>15, <3>2
      <4>2. pending'[k] = pending[k] /\ pending[k] \in Paths /\ Before(t, pending[k])
        BY <1>6, <1>11, <1>13, <3>2
      <4> QED BY <1>11, <1>16, <4>1, <4>2, BeforeBelow
    <3>3. CASE l \in n .. n - 1 + c /\ k \in n .. n - 1 + c
      <4>1. k - (n - 1) < l - (n - 1)
        BY <2>2, <3>3
      <4> QED BY <1>9, <1>10, <1>13, <3>3, <4>1
    <3> QED BY <1>14, <3>1, <3>2, <3>3
  <2> QED BY <1>2, <2>1, <2>2 DEF StackInv
<1>19. ReportedInv'
  <2>1. ASSUME NEW i \in Reported, NEW k \in 1 .. Len(pending')
        PROVE  Before(Path(i), pending'[k])
    <3>1. CASE k \in 1 .. n - 1
      <4>1. k \in 1 .. n
        BY <3>1
      <4> QED BY <1>5, <1>13, <3>1, <4>1 DEF IInv, ReportedInv
    <3>2. CASE k \in n .. n - 1 + c
      <4>1. pending'[k] \in Paths /\ IsPrefix(t, pending'[k])
        BY <1>13, <1>15, <3>2
      <4>2. Path(i) \in Paths /\ Before(Path(i), t)
        BY <1>11 DEF IInv, ReportedInv, Expected, Paths
      <4> QED BY <1>11, <1>16, <4>1, <4>2, BeforeBelow
    <3> QED BY <1>14, <3>1, <3>2
  <2>2. ReportedInv
    BY DEF IInv
  <2> QED BY <1>2, <1>3, <2>1, <2>2 DEF ReportedInv
<1>20. CompleteInv'
  <2>1. ASSUME NEW p \in Expected
        PROVE  \/ \E i \in Reported : Path(i) = p
               \/ \E k \in 1 .. Len(pending') : IsPrefix(pending'[k], p)
    <3>1. CASE \E i \in Reported : Path(i) = p
      BY <3>1
    <3>2. CASE IsPrefix(t, p)
      <4>1. PICK q \in Children(t) : IsPrefix(q, p)
        BY <1>12, <3>2
      <4>2. PICK i \in 1 .. c : s[i] = q
        BY <1>9, <1>10
      <4>3. /\ n - 1 + i \in n .. n - 1 + c /\ (n - 1 + i) - (n - 1) = i
            /\ n - 1 + i \in 1 .. n - 1 + c
        BY <1>6
      <4> QED BY <1>13, <4>1, <4>2, <4>3
    <3>3. CASE \E k \in 1 .. n : k # n /\ IsPrefix(pending[k], p)
      <4>1. PICK k \in 1 .. n : k # n /\ IsPrefix(pending[k], p)
        BY <3>3
      <4>2. k \in 1 .. n - 1 /\ k \in 1 .. n - 1 + c
        BY <4>1
      <4> QED BY <1>13, <4>1, <4>2
    <3> QED BY <1>1, <1>4, <1>5, <1>6, <1>7, <3>1, <3>2, <3>3 DEF IInv, CompleteInv
  <2> QED BY <1>2, <1>3, <2>1 DEF CompleteInv
<1>21. NoWalkInv'
  BY <1>2, <1>4 DEF NoWalkInv
<1>22. ResultInv'
  BY <1>1, <1>2, <1>3 DEF IInv, ResultInv
<1> QED BY <1>17, <1>18, <1>19, <1>20, <1>21, <1>22 DEF IInv

-----------------------------------------------------------------------------
(* The beginning and the end                                               *)

LEMMA OthersAreNotReported ==
    ASSUME NEW f \in OtherFindings
    PROVE  f.comparator # "json.structure"
BY DEF OtherFindings, Difference, Names

LEMMA InitKeeps ==
    ASSUME Init PROVE IInv
<1>1. pending = <<>> /\ differences = <<>> /\ stage = "called" /\ Len(pending) = 0
  BY DEF Init
<1>2. Reported = {} /\ 1 .. Len(pending) = {}
  BY <1>1 DEF Reported
<1>3. TypeInv
  BY <1>1 DEF Init, TypeInv
<1> QED BY <1>1, <1>2, <1>3
        DEF IInv, StackInv, ReportedInv, CompleteInv, NoWalkInv, ResultInv

LEMMA RejectKeeps ==
    ASSUME IInv, Reject PROVE IInv'
<1>1. /\ pair' = pair /\ policy' = policy /\ pending' = pending /\ differences' = differences
      /\ stage' = "rejected" /\ stage = "called"
  BY DEF Reject
<1>2. /\ Paths' = Paths /\ Findings' = Findings
      /\ Walkable' = Walkable
  BY <1>1, ArgumentsStay
<1>3. pending = <<>> /\ differences = <<>>
  BY <1>1 DEF IInv, TypeInv
<1>4. Reported' = {} /\ 1 .. Len(pending') = {}
  BY <1>1, <1>3 DEF Reported
<1>5. TypeInv'
  BY <1>1, <1>2, <1>3 DEF IInv, TypeInv
<1> QED BY <1>1, <1>3, <1>4, <1>5
        DEF IInv, StackInv, ReportedInv, CompleteInv, NoWalkInv, ResultInv

LEMMA BeginKeeps ==
    ASSUME IInv, Begin PROVE IInv'
<1>1. /\ pair' = pair /\ policy' = policy /\ pair \in Pairs /\ policy \in Policies
      /\ stage' = "walking" /\ differences' = Prelude /\ PolicyError(policy) = "none"
      /\ pending' = IF Walkable THEN << <<>> >> ELSE <<>>
  BY DEF IInv, TypeInv, Begin, Prelude, Walkable
<1>2. /\ Paths' = Paths /\ Findings' = Findings /\ Expected' = Expected
      /\ Walkable' = Walkable /\ Prelude' = Prelude
      /\ PolicyError(policy)' = PolicyError(policy) /\ \A p : Reached(p)' = Reached(p)
  BY <1>1, ArgumentsStay
<1>3. Prelude \in Seq(OtherFindings)
  BY <1>1, PreludeCorrect
<1>4. Reported' = {}
  <2>1. \A i \in DOMAIN Prelude : Prelude[i].comparator # "json.structure"
    BY <1>3, OthersAreNotReported
  <2> QED BY <1>1, <2>1 DEF Reported
<1>5. DOMAIN differences' = {} <=> Prelude = <<>>
  BY <1>1, <1>3, EmptySeq
<1>6. Reached(<<>>) /\ <<>> \in Paths
  <2>1. 0 .. Len(<<>>) - 1 = {}
    OBVIOUS
  <2> QED BY <1>1, <2>1, DocFacts DEF Reached
<1>7. CASE Walkable
  <2>1. /\ pending' \in Seq(Paths) /\ Len(pending') = 1 /\ pending'[1] = <<>>
    BY <1>1, <1>6, <1>7
  <2>2. ASSUME NEW p \in Expected PROVE IsPrefix(pending'[1], p)
    <3>1. p \in Seq(Segments)
      BY <1>1, DocFacts DEF Expected, Paths
    <3>2. <<>> \in Seq(Segments) /\ Len(<<>>) = 0 /\ 1 .. 0 = {} /\ Len(p) \in Nat
      BY <3>1
    <3>3. IsPrefix(<<>>, p)
      <4>1. Len(<<>>) <= Len(p) /\ \A i \in 1 .. Len(<<>>) : <<>>[i] = p[i]
        BY <3>2
      <4> QED BY <3>1, <3>2, <4>1, PrefixIs
    <3> QED BY <2>1, <3>3
  <2>3. \A k \in 1 .. Len(pending') : k = 1
    BY <2>1
  <2>4. TypeInv'
    <3>1. Prelude \in Seq(Findings)
      BY <1>3 DEF Findings
    <3> QED BY <1>1, <1>2, <2>1, <3>1 DEF TypeInv
  <2>5. StackInv'
    BY <1>2, <1>6, <2>1, <2>3 DEF StackInv
  <2>6. ReportedInv' /\ NoWalkInv'
    BY <1>2, <1>4, <1>7 DEF ReportedInv, NoWalkInv
  <2>7. CompleteInv'
    <3>1. 1 \in 1 .. Len(pending')
      BY <2>1
    <3> QED BY <1>2, <2>2, <3>1 DEF CompleteInv
  <2>8. ResultInv'
    BY <1>1, <1>2, <1>4, <1>5 DEF ResultInv
  <2> QED BY <2>4, <2>5, <2>6, <2>7, <2>8 DEF IInv
<1>8. CASE ~Walkable
  <2>1. pending' = <<>> /\ 1 .. Len(pending') = {}
    BY <1>1, <1>8
  <2>2. TypeInv'
    <3>1. Prelude \in Seq(Findings)
      BY <1>3 DEF Findings
    <3> QED BY <1>1, <1>2, <2>1, <3>1 DEF TypeInv
  <2>3. StackInv' /\ ReportedInv' /\ NoWalkInv' /\ CompleteInv'
    BY <1>2, <1>4, <1>8, <2>1 DEF StackInv, ReportedInv, NoWalkInv, CompleteInv
  <2>4. ResultInv'
    BY <1>1, <1>2, <1>4, <1>5 DEF ResultInv
  <2> QED BY <2>2, <2>3, <2>4 DEF IInv
<1> QED BY <1>7, <1>8

LEMMA ReturnKeeps ==
    ASSUME IInv, Return PROVE IInv'
<1>1. /\ pair' = pair /\ policy' = policy /\ pair \in Pairs /\ policy \in Policies
      /\ pending' = pending /\ pending = <<>> /\ stage = "walking" /\ stage' = "done"
      /\ differences' = differences \o LatencyDifferences
      /\ status' = IF differences' = <<>> THEN "pass" ELSE "fail"
      /\ differences \in Seq(Findings) /\ PolicyError(policy) = "none"
  BY DEF IInv, TypeInv, Return
<1>2. /\ Paths' = Paths /\ Findings' = Findings /\ Expected' = Expected
      /\ Walkable' = Walkable /\ Prelude' = Prelude /\ FastEnough' = FastEnough
      /\ PolicyError(policy)' = PolicyError(policy) /\ \A p : Reached(p)' = Reached(p)
  BY <1>1, ArgumentsStay
<1>3. PICK e : e = LatencyDifferences
  OBVIOUS
<1>4. e \in Seq(OtherFindings) /\ (e = <<>> <=> FastEnough)
  BY <1>1, <1>3, LatencyCompared
<1>5. e \in Seq(Findings)
  BY <1>4 DEF Findings
<1>6. PICK m \in Nat : m = Len(differences)
  BY <1>1
<1>7. PICK c \in Nat : c = Len(e)
  BY <1>4
<1>8. /\ differences' \in Seq(Findings) /\ DOMAIN differences' = 1 .. m + c
      /\ \A i \in 1 .. m : differences'[i] = differences[i]
      /\ \A i \in m + 1 .. m + c : i - m \in 1 .. c /\ differences'[i] = e[i - m]
  <2>1. /\ differences \o e \in Seq(Findings) /\ Len(differences \o e) = m + c
        /\ \A i \in 1 .. m + c : (differences \o e)[i] = IF i <= m THEN differences[i] ELSE e[i - m]
    BY <1>1, <1>5, <1>6, <1>7, ConcatProperties
  <2>2. differences' = differences \o e
    BY <1>1, <1>3
  <2>3. /\ differences' \in Seq(Findings) /\ Len(differences') = m + c
        /\ \A i \in 1 .. m + c : differences'[i] = IF i <= m THEN differences[i] ELSE e[i - m]
    BY <2>1, <2>2
  <2>4. DOMAIN differences' = 1 .. m + c
    BY <2>3
  <2>5. \A i \in 1 .. m : differences'[i] = differences[i]
    BY <2>3
  <2>6. \A i \in m + 1 .. m + c : i - m \in 1 .. c /\ differences'[i] = e[i - m]
    BY <2>3
  <2> QED BY <2>3, <2>4, <2>5, <2>6
<1>9. Reported' = Reported /\ \A i \in Reported : Path(i)' = Path(i)
  <2>1. \A i \in m + 1 .. m + c : differences'[i].comparator # "json.structure"
    <3>1. \A i \in 1 .. c : e[i] \in OtherFindings
      BY <1>4, <1>7
    <3> QED BY <1>8, <3>1, OthersAreNotReported
  <2>2. DOMAIN differences = 1 .. m
    BY <1>1, <1>6
  <2>3. \A i \in 1 .. m + c : i \in 1 .. m \/ i \in m + 1 .. m + c
    OBVIOUS
  <2>4. \A i \in 1 .. m : i \in 1 .. m + c
    OBVIOUS
  <2>5. Reported' = Reported
    BY <1>8, <2>1, <2>2, <2>3, <2>4 DEF Reported
  <2>6. \A i \in Reported : differences'[i].path = differences[i].path
    BY <1>8, <2>2 DEF Reported
  <2> QED BY <2>5, <2>6 DEF Path
<1>10. TypeInv'
  BY <1>1, <1>2, <1>8 DEF IInv, TypeInv
<1>11. StackInv'
  BY <1>1, <1>2 DEF IInv, StackInv
<1>12. ReportedInv'
  <2>1. ReportedInv
    BY DEF IInv
  <2> QED BY <1>1, <1>2, <1>9, <2>1 DEF ReportedInv
<1>13. CompleteInv'
  <2>1. CompleteInv
    BY DEF IInv
  <2> QED BY <1>1, <1>2, <1>9, <2>1 DEF CompleteInv
<1>14. NoWalkInv'
  <2>1. NoWalkInv
    BY DEF IInv
  <2> QED BY <1>1, <1>2, <1>9, <2>1 DEF NoWalkInv
<1>15. ResultInv'
  <2>1. differences = <<>> <=> Prelude = <<>> /\ Reported = {}
    <3>1. Reported = DOMAIN differences <=> Prelude = <<>>
      BY <1>1 DEF IInv, ResultInv
    <3>2. differences = <<>> <=> DOMAIN differences = {}
      BY <1>1, EmptySeq
    <3>3. DOMAIN differences = {} => Reported = {}
      BY DEF Reported
    <3> QED BY <3>1, <3>2, <3>3, Zenon
  <2>2. differences' = <<>> <=> differences = <<>> /\ e = <<>>
    <3>1. differences \o e = <<>> <=> differences = <<>> /\ e = <<>>
      BY <1>1, <1>5, ConcatEqualIffEmpty
    <3> QED BY <1>1, <1>3, <3>1
  <2>3. status' = "pass" <=> differences' = <<>>
    BY <1>1
  <2>4. status' = "pass" <=> Prelude = <<>> /\ FastEnough /\ Reported = {}
    BY <1>4, <2>1, <2>2, <2>3, Zenon
  <2> QED BY <1>1, <1>2, <1>9, <2>4 DEF ResultInv
<1> QED BY <1>10, <1>11, <1>12, <1>13, <1>14, <1>15 DEF IInv

LEMMA StutterKeeps ==
    ASSUME IInv, UNCHANGED vars PROVE IInv'
<1>1. /\ pair' = pair /\ policy' = policy /\ pending' = pending /\ differences' = differences
      /\ stage' = stage /\ status' = status
  BY DEF vars
<1>2. /\ Paths' = Paths /\ Findings' = Findings /\ Expected' = Expected
      /\ Walkable' = Walkable /\ Prelude' = Prelude /\ FastEnough' = FastEnough
      /\ PolicyError(policy)' = PolicyError(policy) /\ \A p : Reached(p)' = Reached(p)
  BY <1>1, ArgumentsStay
<1>3. Reported' = Reported /\ \A i : Path(i)' = Path(i)
  BY <1>1 DEF Reported, Path
<1>4. TypeInv' /\ StackInv'
  BY <1>1, <1>2 DEF IInv, TypeInv, StackInv
<1>5. ReportedInv' /\ CompleteInv'
  BY <1>1, <1>2, <1>3 DEF IInv, ReportedInv, CompleteInv
<1>6. NoWalkInv' /\ ResultInv'
  BY <1>1, <1>2, <1>3 DEF IInv, NoWalkInv, ResultInv
<1> QED BY <1>4, <1>5, <1>6 DEF IInv

(* The invariant holds from the first turn of the loop to the answer       *)
(* (compareHttpObservations, compare.ts:37-48).                            *)
THEOREM IInvAlways == Spec => []IInv
<1>1. Init => IInv
  BY InitKeeps
<1>2. IInv /\ [Next]_vars => IInv'
  BY RejectKeeps, BeginKeeps, SkipKeeps, ReportKeeps, DescendKeeps, AgreeKeeps, ReturnKeeps,
     StutterKeeps DEF Next
<1> QED BY <1>1, <1>2, PTL DEF Spec

-----------------------------------------------------------------------------
(* What a comparison promises                                              *)

(* The stack walk reports exactly the paths at which two JSON values       *)
(* differ outside the rules, each once and in the order of the document    *)
(* (compareJsonValues, json.ts:88-194).                                    *)
THEOREM WalkCorrect == Spec => []WalkIsExact
<1>1. IInv => WalkIsExact
  <2> SUFFICES ASSUME IInv PROVE WalkIsExact
    OBVIOUS
  <2>1. /\ \A i \in Reported : Path(i) \in Expected
        /\ \A i, j \in Reported : i < j => Before(Path(i), Path(j))
    BY DEF IInv, ReportedInv
  <2>2. ASSUME Walked, NEW p \in Expected
        PROVE  \E i \in Reported : Path(i) = p
    <3>1. pending = <<>> /\ stage = "done" /\ Walkable
      BY <2>2 DEF IInv, TypeInv, Walked, Walkable
    <3>2. 1 .. Len(pending) = {}
      BY <3>1
    <3> QED BY <3>1, <3>2 DEF IInv, CompleteInv
  <2> QED BY <2>1, <2>2 DEF WalkIsExact, Path
<1> QED BY <1>1, IInvAlways, PTL

(* "pass" is said of exactly the observations that agree in everything the *)
(* policy does not exempt, and contradicting rules never get an answer     *)
(* (compare.ts:20-48, json-path.ts:62-90).                                 *)
THEOREM PassCorrect == Spec => []PassIsEarned
<1>1. IInv => PassIsEarned
  <2> SUFFICES ASSUME IInv, stage = "done" PROVE PassIsEarned
    BY DEF PassIsEarned
  <2>1. pair \in Pairs /\ policy \in Policies /\ PolicyError(policy) = "none" /\ pending = <<>>
    BY DEF IInv, TypeInv
  <2>2. \A p \in policy.ignored, q \in policy.normalized : ~IsPrefix(p, q) /\ ~IsPrefix(q, p)
    BY <2>1, PolicyFacts
  <2>3. status = "pass" <=> Prelude = <<>> /\ FastEnough /\ Reported = {}
    BY DEF IInv, ResultInv
  <2>4. Prelude = <<>> <=> /\ B.code = C.code /\ B.headers = C.headers
                           /\ IF JsonRequired THEN BothValid ELSE B.body = C.body
    BY <2>1, PreludeCorrect
  <2>5. Walkable => (Reported = {} <=> Expected = {})
    <3>1. 1 .. Len(pending) = {}
      BY <2>1
    <3>2. Walkable => \A p \in Expected : \E i \in Reported : Path(i) = p
      BY <3>1 DEF IInv, CompleteInv
    <3>3. \A i \in Reported : Path(i) \in Expected
      BY DEF IInv, ReportedInv
    <3> QED BY <3>2, <3>3
  <2>6. ~Walkable => Reported = {}
    BY DEF IInv, NoWalkInv
  <2>7. Expected = {} <=> Masked(B.body.doc) = Masked(C.body.doc)
    BY <2>1, ExpectedIsMasked
  <2>8. B.body = C.body => Masked(B.body.doc) = Masked(C.body.doc)
    BY Zenon
  <2> DEFINE masked == Masked(B.body.doc) = Masked(C.body.doc)
             same == B.body = C.body
             plain == B.code = C.code /\ B.headers = C.headers
  <2>9. status = "pass" <=>
           /\ plain /\ (same \/ (JsonRequired /\ BothValid /\ masked))
           /\ ~(JsonRequired /\ ~BothValid) /\ FastEnough
    <3>1. Prelude = <<>> <=> plain /\ (IF JsonRequired THEN BothValid ELSE same)
      BY <2>4
    <3> HIDE DEF masked, same, plain
    <3> QED BY <2>3, <2>5, <2>6, <2>7, <2>8, <3>1 DEF Walkable, masked, same
  <2> QED BY <2>2, <2>9 DEF PassIsEarned, FastEnough
<1> QED BY <1>1, IInvAlways, PTL
=============================================================================
