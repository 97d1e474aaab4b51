---------------------------- MODULE CaptureProofs ----------------------------
(***************************************************************************)
(* Theorems about the redaction of a capture, for texts, bodies, headers   *)
(* and policies of any size, and about the requests verify makes of what   *)
(* was saved.                                                              *)
(***************************************************************************)
EXTENDS WorkspaceProofs

-----------------------------------------------------------------------------
(* Folds over finite sets                                                  *)

(* A nonempty set of finite sets has a smallest member.                    *)
LEMMA Smallest ==
    ASSUME NEW Bad, Bad # {}, \A s \in Bad : IsFiniteSet(s)
    PROVE  \E s \in Bad : \A t \in Bad : Cardinality(s) <= Cardinality(t)
<1> DEFINE Sizes == {Cardinality(s) : s \in Bad}
<1>1. Sizes \subseteq Nat /\ Sizes # {}
  BY FS_CardinalityType
<1>2. PICK n \in Sizes : \A m \in Sizes : n <= m
  <2> HIDE DEF Sizes
  <2> QED BY <1>1, NatLeast
<1> QED BY <1>2

(* A function defined by taking one member after another out of a set is   *)
(* what its definition says.                                               *)
Follows(g, D, base, pick, put) ==
    \A s \in D : g[s] = IF s = {} THEN base ELSE put[<<pick[s], g[s \ {pick[s]}]>>]

CanFold(S, V, base, pick, put) ==
    /\ IsFiniteSet(S) /\ base \in V
    /\ \A s \in SUBSET S : s # {} => pick[s] \in s
    /\ \A x \in S, v \in V : put[<<x, v>>] \in V

HasFold(S, V, base, pick, put) ==
    \E g \in [SUBSET S -> V] : Follows(g, SUBSET S, base, pick, put)

LEMMA FoldExists ==
    ASSUME NEW S, NEW V, NEW base, NEW pick, NEW put, CanFold(S, V, base, pick, put)
    PROVE  HasFold(S, V, base, pick, put)
<1> USE DEF CanFold, HasFold
<1> DEFINE Small(n) == {s \in SUBSET S : Cardinality(s) <= n}
           Bad == {n \in Nat : ~\E g \in [Small(n) -> V] : Follows(g, Small(n), base, pick, put)}
<1>1. \A s \in SUBSET S : IsFiniteSet(s) /\ Cardinality(s) \in Nat
  BY FS_Subset, FS_CardinalityType
<1>2. \A s \in SUBSET S : s # {} => /\ pick[s] \in S /\ s \ {pick[s]} \in SUBSET S
                                    /\ Cardinality(s \ {pick[s]}) = Cardinality(s) - 1
  BY <1>1, FS_RemoveElement
<1>3. ASSUME NEW n \in Bad PROVE n # 0 /\ n - 1 \in Bad
  <2>1. n # 0
    <3>1. ASSUME n = 0 PROVE FALSE
      <4> DEFINE g == [s \in Small(0) |-> base]
      <4>1. \A s \in Small(0) : s = {}
        BY <1>1, FS_EmptySet
      <4>2. g \in [Small(0) -> V] /\ Follows(g, Small(0), base, pick, put)
        BY <4>1 DEF Follows
      <4> QED BY <1>3, <3>1, <4>2
    <3> QED BY <3>1
  <2>2. ASSUME n - 1 \notin Bad PROVE FALSE
    <3>1. n \in Nat /\ n - 1 \in Nat
      BY <2>1
    <3>2. PICK f \in [Small(n - 1) -> V] : Follows(f, Small(n - 1), base, pick, put)
      BY <2>2, <3>1
    <3> DEFINE g == [s \in Small(n) |->
                        IF s = {} THEN base ELSE put[<<pick[s], f[s \ {pick[s]}]>>]]
    <3>3. \A s \in Small(n) : s # {} => pick[s] \in S /\ s \ {pick[s]} \in Small(n - 1)
      <4>1. \A s \in Small(n) : Cardinality(s) - 1 <= n - 1
        BY <1>1, <3>1
      <4> QED BY <1>2, <4>1
    <3>4. g \in [Small(n) -> V]
      <4>1. \A s \in Small(n) : s # {} => f[s \ {pick[s]}] \in V
        BY <3>2, <3>3
      <4>2. \A s \in Small(n) : s # {} => put[<<pick[s], f[s \ {pick[s]}]>>] \in V
        BY <3>3, <4>1
      <4> HIDE DEF Small
      <4> QED BY <4>2
    <3>5. \A s \in Small(n - 1) : s \in Small(n) /\ g[s] = f[s]
      <4>1. \A s \in Small(n - 1) : s \in Small(n)
        BY <1>1, <3>1
      <4> HIDE DEF Small
      <4> QED BY <3>2, <4>1 DEF Follows
    <3>6. Follows(g, Small(n), base, pick, put)
      <4> HIDE DEF Small
      <4> QED BY <3>3, <3>5 DEF Follows
    <3> QED BY <1>3, <3>4, <3>6
  <2> QED BY <2>1, <2>2
<1>4. Bad = {}
  <2>1. ASSUME Bad # {} PROVE FALSE
    <3>1. Bad \subseteq Nat
      OBVIOUS
    <3>2. PICK n \in Bad : \A m \in Bad : n <= m
      <4> HIDE DEF Bad
      <4> QED BY <2>1, <3>1, NatLeast
    <3>3. n \in Nat /\ n - 1 \in Bad
      <4>1. n - 1 \in Bad
        BY <1>3
      <4> HIDE DEF Bad
      <4> QED BY <3>1, <4>1
    <3> HIDE DEF Bad
    <3>4. n <= n - 1
      BY <3>2, <3>3
    <3> QED BY <3>3, <3>4
  <2> QED BY <2>1
<1>5. Cardinality(S) \in Nat /\ Small(Cardinality(S)) = SUBSET S
  <2>1. ASSUME NEW s \in SUBSET S PROVE Cardinality(s) <= Cardinality(S)
    BY FS_Subset
  <2>2. Cardinality(S) \in Nat
    BY FS_CardinalityType
  <2>3. Small(Cardinality(S)) = SUBSET S
    BY <2>1
  <2> QED BY <2>2, <2>3
<1>6. Cardinality(S) \notin Bad
  BY <1>4
<1>7. \E g \in [Small(Cardinality(S)) -> V] :
         Follows(g, Small(Cardinality(S)), base, pick, put)
  BY <1>5, <1>6
<1> HIDE DEF Small
<1> QED BY <1>5, <1>7

-----------------------------------------------------------------------------
(* Sums                                                                    *)

(* The sums over all sets of indexes.                                      *)
AreSums(g, f, S) ==
    /\ g \in [SUBSET S -> Nat] /\ g[{}] = 0
    /\ \A s \in SUBSET S : \A x \in s : g[s] = f[x] + g[s \ {x}]

(* The sums over all subsets of a set, by taking out one index after       *)
(* another.                                                                *)
HasSums(S, f, pick) ==
    \E g \in [SUBSET S -> Nat] :
        /\ g[{}] = 0
        /\ \A s \in SUBSET S : s # {} => g[s] = f[pick[s]] + g[s \ {pick[s]}]

CanSum(S, f, pick) ==
    /\ IsFiniteSet(S) /\ f \in [S -> Nat]
    /\ \A s \in SUBSET S : s # {} => pick[s] \in s

LEMMA SumsExist ==
    ASSUME NEW S, NEW f, NEW pick, CanSum(S, f, pick)
    PROVE  HasSums(S, f, pick)
<1>1. PICK V, zero : V = Nat /\ zero = 0
  OBVIOUS
<1>2. PICK put : put = [p \in S \X V |-> f[p[1]] + p[2]]
  OBVIOUS
<1>3. CanFold(S, V, zero, pick, put)
  <2>1. zero \in V
    BY <1>1
  <2>2. \A x \in S, v \in V : put[<<x, v>>] \in V
    BY <1>1, <1>2 DEF CanSum
  <2> QED BY <2>1, <2>2 DEF CanFold, CanSum
<1>4. HasFold(S, V, zero, pick, put)
  BY <1>3, FoldExists
<1>5. PICK g \in [SUBSET S -> V] : Follows(g, SUBSET S, zero, pick, put)
  BY <1>4 DEF HasFold
<1>6. g[{}] = 0
  BY <1>1, <1>5 DEF Follows
<1>7. ASSUME NEW s \in SUBSET S, s # {}
      PROVE  g[s] = f[pick[s]] + g[s \ {pick[s]}]
  <2>1. PICK x : x = pick[s]
    OBVIOUS
  <2>2. x \in S /\ s \ {x} \in SUBSET S
    BY <1>7, <2>1 DEF CanSum
  <2>3. g[s] = put[<<x, g[s \ {x}]>>]
    BY <1>5, <1>7, <2>1 DEF Follows
  <2>4. g[s \ {x}] \in V
    BY <1>5, <2>2
  <2>5. put[<<x, g[s \ {x}]>>] = f[x] + g[s \ {x}]
    BY <1>1, <1>2, <2>2, <2>4
  <2> QED BY <2>1, <2>3, <2>5
<1> QED BY <1>1, <1>5, <1>6, <1>7 DEF HasSums

(* It does not matter which index is taken out first.                      *)
LEMMA SumIsPartial ==
    ASSUME NEW S, IsFiniteSet(S), NEW f \in [S -> Nat]
    PROVE  \E g : AreSums(g, f, S) /\ Total(f) = g[S]
<1> DEFINE first(s) == CHOOSE x \in s : TRUE
           Def(h) == h = [s \in SUBSET S |->
                             IF s = {} THEN 0 ELSE LET x == first(s) IN f[x] + h[s \ {x}]]
<1>1. \A s \in SUBSET S : IsFiniteSet(s) /\ (s # {} => first(s) \in s)
  BY FS_Subset
<1> HIDE DEF first
<1>2. PICK g \in [SUBSET S -> Nat] :
         /\ g[{}] = 0
         /\ \A s \in SUBSET S : s # {} => g[s] = f[first(s)] + g[s \ {first(s)}]
  <2>1. PICK pick : pick = [s \in SUBSET S |-> first(s)]
    OBVIOUS
  <2>2. \A s \in SUBSET S : s # {} => pick[s] \in s
    BY <1>1, <2>1
  <2>3. CanSum(S, f, pick)
    BY <2>2 DEF CanSum
  <2>4. HasSums(S, f, pick)
    BY <2>3, SumsExist
  <2> QED BY <2>1, <2>4 DEF HasSums
<1>3. ASSUME NEW s \in SUBSET S, s # {}
      PROVE  /\ first(s) \in s /\ first(s) \in S /\ s \ {first(s)} \in SUBSET S
             /\ g[s] = f[first(s)] + g[s \ {first(s)}]
  BY <1>1, <1>2, <1>3
<1>4. g[{}] = 0
  BY <1>2
<1>5. PICK h : h = CHOOSE some : Def(some)
  OBVIOUS
<1>6. Def(h)
  <2>1. Def(g)
    BY <1>3, <1>4
  <2> QED BY <1>5, <2>1
<1>7. Total(f) = h[S]
  BY <1>5 DEF Total, MapThenSumSet, MapThenFoldSet, first
<1>8. h[S] = g[S]
  <2> DEFINE Bad == {s \in SUBSET S : h[s] # g[s]}
  <2>1. ASSUME Bad # {} PROVE FALSE
    <3>1. PICK s \in Bad : \A t \in Bad : Cardinality(s) <= Cardinality(t)
      <4>1. \A s \in Bad : IsFiniteSet(s)
        BY <1>1
      <4> HIDE DEF Bad
      <4> QED BY <2>1, <4>1, Smallest
    <3>2. s # {}
      BY <1>4, <1>6
    <3>3. PICK x : x = first(s)
      OBVIOUS
    <3>4. x \in s /\ s \ {x} \in SUBSET S /\ g[s] = f[x] + g[s \ {x}]
      BY <1>3, <3>2, <3>3
    <3>5. h[s] = f[x] + h[s \ {x}]
      BY <1>6, <3>2, <3>3
    <3>6. s \ {x} \in Bad
      BY <3>1, <3>4, <3>5
    <3>7. Cardinality(s) \in Nat /\ Cardinality(s \ {x}) = Cardinality(s) - 1
      BY <1>1, <3>4, FS_RemoveElement, FS_CardinalityType
    <3>8. Cardinality(s) <= Cardinality(s \ {x})
      BY <3>1, <3>6
    <3> QED BY <3>7, <3>8
  <2> QED BY <2>1
<1>9. \A s \in SUBSET S : \A x \in s : g[s] = f[x] + g[s \ {x}]
  <2> DEFINE Bad == {s \in SUBSET S : \E x \in s : g[s] # f[x] + g[s \ {x}]}
  <2>1. ASSUME Bad # {} PROVE FALSE
    <3>1. PICK s \in Bad : \A t \in Bad : Cardinality(s) <= Cardinality(t)
      <4>1. \A s \in Bad : IsFiniteSet(s)
        BY <1>1
      <4> HIDE DEF Bad
      <4> QED BY <2>1, <4>1, Smallest
    <3>2. PICK x \in s : g[s] # f[x] + g[s \ {x}]
      OBVIOUS
    <3>3. PICK y : y = first(s)
      OBVIOUS
    <3>4. y \in s /\ g[s] = f[y] + g[s \ {y}] /\ x # y /\ y \in S /\ x \in S
      BY <1>3, <3>2, <3>3
    <3>5. \A z \in s : s \ {z} \notin Bad
      <4>1. ASSUME NEW z \in s, s \ {z} \in Bad PROVE FALSE
        <5>1. Cardinality(s) \in Nat /\ Cardinality(s \ {z}) = Cardinality(s) - 1
          BY <1>1, FS_RemoveElement, FS_CardinalityType
        <5>2. Cardinality(s) <= Cardinality(s \ {z})
          BY <3>1, <4>1
        <5> QED BY <5>1, <5>2
      <4> QED BY <4>1
    <3>6. g[s \ {y}] = f[x] + g[(s \ {y}) \ {x}]
      BY <3>4, <3>5
    <3>7. g[s \ {x}] = f[y] + g[(s \ {x}) \ {y}]
      BY <3>4, <3>5
    <3>8. PICK rest : rest = g[(s \ {x}) \ {y}]
      OBVIOUS
    <3>9. g[s \ {y}] = f[x] + rest
      <4>1. (s \ {y}) \ {x} = (s \ {x}) \ {y}
        OBVIOUS
      <4> QED BY <3>6, <3>8, <4>1
    <3>10. f[x] \in Nat /\ f[y] \in Nat /\ rest \in Nat
      BY <3>4, <3>8
    <3>11. g[s] = f[x] + g[s \ {x}]
      BY <3>4, <3>7, <3>8, <3>9, <3>10
    <3> QED BY <3>2, <3>11
  <2> QED BY <2>1
<1> QED BY <1>2, <1>4, <1>7, <1>8, <1>9 DEF AreSums

(* A sum is zero if everything is, and counts what is not.                 *)
LEMMA SumCounts ==
    ASSUME NEW S, IsFiniteSet(S), NEW f \in [S -> Nat]
    PROVE  /\ Total(f) \in Nat
           /\ Total(f) = 0 <=> \A x \in S : f[x] = 0
           /\ Cardinality({x \in S : f[x] # 0}) <= Total(f)
<1>1. PICK g : AreSums(g, f, S) /\ Total(f) = g[S]
  BY SumIsPartial
<1> DEFINE some(s) == {x \in s : f[x] # 0}
           Bad == {s \in SUBSET S : ~(Cardinality(some(s)) <= g[s])}
<1>2. \A s \in SUBSET S : /\ IsFiniteSet(s) /\ g[s] \in Nat
                          /\ IsFiniteSet(some(s)) /\ Cardinality(some(s)) \in Nat
  <2>1. \A s \in SUBSET S : some(s) \in SUBSET S
    OBVIOUS
  <2> HIDE DEF some
  <2> QED BY <1>1, <2>1, FS_Subset, FS_CardinalityType DEF AreSums
<1>3. ASSUME Bad # {} PROVE FALSE
  <2>1. PICK s \in Bad : \A t \in Bad : Cardinality(s) <= Cardinality(t)
    <3>1. \A s \in Bad : IsFiniteSet(s)
      BY <1>2
    <3> HIDE DEF Bad
    <3> QED BY <1>3, <3>1, Smallest
  <2>2. CASE s = {}
    <3>1. some(s) = {} /\ Cardinality(some(s)) = 0 /\ g[s] = 0
      BY <1>1, <2>2, FS_EmptySet DEF AreSums
    <3> QED BY <2>1, <3>1
  <2>3. CASE s # {}
    <3>1. PICK x \in s : TRUE
      BY <2>3
    <3>2. g[s] = f[x] + g[s \ {x}] /\ f[x] \in Nat /\ s \ {x} \in SUBSET S
      BY <1>1 DEF AreSums
    <3>3. s \ {x} \notin Bad
      <4>1. Cardinality(s) \in Nat /\ Cardinality(s \ {x}) = Cardinality(s) - 1
        BY <1>2, FS_RemoveElement, FS_CardinalityType
      <4> QED BY <2>1, <4>1
    <3>4. Cardinality(some(s \ {x})) <= g[s \ {x}]
      BY <3>2, <3>3
    <3>5. Cardinality(some(s)) <= f[x] + Cardinality(some(s \ {x}))
      <4>1. CASE f[x] = 0
        <5>1. some(s) = some(s \ {x})
          BY <4>1
        <5>2. Cardinality(some(s)) \in Nat
          BY <1>2
        <5> QED BY <4>1, <5>1, <5>2
      <4>2. CASE f[x] # 0
        <5>1. some(s) \ {x} = some(s \ {x}) /\ x \in some(s)
          BY <4>2
        <5>2. Cardinality(some(s) \ {x}) = Cardinality(some(s)) - 1 /\ Cardinality(some(s)) \in Nat
          <6> HIDE DEF some
          <6> QED BY <1>2, <5>1, FS_RemoveElement
        <5> HIDE DEF some
        <5> QED BY <3>2, <4>2, <5>1, <5>2, SMTT(30)
      <4> QED BY <4>1, <4>2
    <3>6. /\ Cardinality(some(s)) \in Nat /\ Cardinality(some(s \ {x})) \in Nat
          /\ g[s \ {x}] \in Nat
      BY <1>2, <3>2
    <3>7. ~(Cardinality(some(s)) <= g[s])
      BY <2>1
    <3> HIDE DEF some
    <3> QED BY <3>2, <3>4, <3>5, <3>6, <3>7
  <2> QED BY <2>2, <2>3
<1>4. Cardinality(some(S)) <= Total(f) /\ Total(f) \in Nat
  BY <1>1, <1>2, <1>3
<1>5. ASSUME Total(f) = 0, NEW x \in S PROVE f[x] = 0
  <2>1. g[S] = f[x] + g[S \ {x}] /\ f[x] \in Nat /\ g[S \ {x}] \in Nat
    BY <1>1 DEF AreSums
  <2>2. g[S] = 0
    BY <1>1, <1>5
  <2> QED BY <2>1, <2>2
<1>6. ASSUME \A x \in S : f[x] = 0 PROVE Total(f) = 0
  <2> DEFINE Worse == {s \in SUBSET S : g[s] # 0}
  <2>1. ASSUME Worse # {} PROVE FALSE
    <3>1. PICK s \in Worse : \A t \in Worse : Cardinality(s) <= Cardinality(t)
      <4>1. \A s \in Worse : IsFiniteSet(s)
        BY <1>2
      <4> HIDE DEF Worse
      <4> QED BY <2>1, <4>1, Smallest
    <3>2. s # {}
      BY <1>1 DEF AreSums
    <3>3. PICK x \in s : TRUE
      BY <3>2
    <3>4. g[s] = f[x] + g[s \ {x}] /\ f[x] = 0 /\ g[s \ {x}] \in Nat /\ s \ {x} \in SUBSET S
      BY <1>1, <1>6 DEF AreSums
    <3>5. s \ {x} \in Worse
      BY <3>1, <3>4
    <3>6. Cardinality(s) \in Nat /\ Cardinality(s \ {x}) = Cardinality(s) - 1
      BY <1>2, FS_RemoveElement, FS_CardinalityType
    <3>7. Cardinality(s) <= Cardinality(s \ {x})
      BY <3>1, <3>5
    <3> QED BY <3>6, <3>7
  <2> QED BY <1>1, <2>1
<1>7. Total(f) = 0 <=> \A x \in S : f[x] = 0
  BY <1>5, <1>6
<1> QED BY <1>4, <1>7

-----------------------------------------------------------------------------
(* Texts                                                                   *)

(* The definition of the assignments has a solution, and it is unique.     *)
IsStarts(t, n, A) ==
    /\ A \subseteq 1 .. n
    /\ \A i \in 1 .. n : i \in A <=> t[i] = "label" /\ i < Len(t) /\ (i = 1 \/ i - 1 \notin A)

LEMMA StartsExist ==
    ASSUME NEW t, Len(t) \in Nat
    PROVE  \E A : IsStarts(t, Len(t), A)
<1> DEFINE Bad == {n \in Nat : ~\E A : IsStarts(t, n, A)}
<1>1. 0 \notin Bad
  <2>1. IsStarts(t, 0, {})
    BY DEF IsStarts
  <2> QED BY <2>1
<1>2. ASSUME NEW n \in Nat, n \notin Bad PROVE n + 1 \notin Bad
  <2>1. PICK A : IsStarts(t, n, A)
    BY <1>2
  <2>2. CASE t[n + 1] = "label" /\ n + 1 < Len(t) /\ (n = 0 \/ n \notin A)
    <3>1. IsStarts(t, n + 1, A \cup {n + 1})
      BY <2>1, <2>2 DEF IsStarts
    <3> QED BY <3>1
  <2>3. CASE ~(t[n + 1] = "label" /\ n + 1 < Len(t) /\ (n = 0 \/ n \notin A))
    <3>1. IsStarts(t, n + 1, A)
      BY <2>1, <2>3 DEF IsStarts
    <3> QED BY <3>1
  <2> QED BY <2>2, <2>3
<1>3. Bad = {}
  <2>1. ASSUME Bad # {} PROVE FALSE
    <3>1. Bad \subseteq Nat
      OBVIOUS
    <3>2. PICK n \in Bad : \A m \in Bad : n <= m
      <4> HIDE DEF Bad
      <4> QED BY <2>1, <3>1, NatLeast
    <3>3. n # 0 /\ n \in Nat
      BY <1>1, <3>1, <3>2
    <3>4. n - 1 \in Nat /\ n - 1 \notin Bad
      <4> HIDE DEF Bad
      <4> QED BY <3>2, <3>3
    <3>5. (n - 1) + 1 \notin Bad
      BY <1>2, <3>4
    <3>6. (n - 1) + 1 = n
      BY <3>3
    <3> QED BY <3>2, <3>5, <3>6
  <2> QED BY <2>1
<1> QED BY <1>3

LEMMA AssignmentsAre ==
    ASSUME NEW S, NEW t \in Seq(S)
    PROVE  IsStarts(t, Len(t), Assignments(t))
<1> DEFINE Def(h) == h = [i \in DOMAIN t |->
                             t[i] = "label" /\ i < Len(t) /\ (i = 1 \/ ~h[i - 1])]
<1>1. Len(t) \in Nat /\ DOMAIN t = 1 .. Len(t)
  OBVIOUS
<1>2. PICK A : IsStarts(t, Len(t), A)
  BY <1>1, StartsExist
<1>3. PICK g : g = [i \in DOMAIN t |-> i \in A]
  OBVIOUS
<1>4. Def(g)
  <2>1. ASSUME NEW i \in DOMAIN t
        PROVE  (i \in A) = (t[i] = "label" /\ i < Len(t) /\ (i = 1 \/ ~g[i - 1]))
    <3>1. i # 1 => i - 1 \in DOMAIN t
      BY <1>1
    <3>2. i # 1 => (g[i - 1] <=> i - 1 \in A)
      BY <1>3, <3>1
    <3> QED BY <1>1, <1>2, <3>2 DEF IsStarts
  <2> QED BY <1>3, <2>1
<1>5. PICK h : h = CHOOSE some : Def(some)
  OBVIOUS
<1>6. Def(h)
  BY <1>4, <1>5
<1>7. Assignments(t) = {i \in DOMAIN t : h[i]}
  BY <1>5 DEF Assignments
<1>8. ASSUME NEW i \in DOMAIN t
      PROVE  h[i] <=> t[i] = "label" /\ i < Len(t) /\ (i = 1 \/ ~h[i - 1])
  BY <1>6
<1>9. ASSUME NEW i \in DOMAIN t, i # 1 PROVE ~h[i - 1] <=> i - 1 \notin Assignments(t)
  <2>1. i - 1 \in DOMAIN t
    BY <1>1, <1>9
  <2> QED BY <1>7, <2>1
<1> HIDE DEF Def
<1>10. ASSUME NEW i \in DOMAIN t
       PROVE  i \in Assignments(t) <=> /\ t[i] = "label" /\ i < Len(t)
                                       /\ i = 1 \/ i - 1 \notin Assignments(t)
  BY <1>7, <1>8, <1>9
<1>11. Assignments(t) \subseteq DOMAIN t
  BY <1>7
<1> QED BY <1>1, <1>10, <1>11 DEF IsStarts

(* A function on the first numbers is as long as there are.                *)
LEMMA LengthIs ==
    ASSUME NEW n \in Nat, NEW f, f = [i \in 1 .. n |-> f[i]]
    PROVE  Len(f) = n
<1>1. PICK S : S = {f[i] : i \in 1 .. n}
  OBVIOUS
<1>2. f \in [1 .. n -> S]
  <2>1. \A i \in 1 .. n : f[i] \in S
    BY <1>1
  <2> QED BY <2>1
<1> QED BY <1>2

(* What the patterns make of a text is clean, and they report a match if   *)
(* they change it.                                                         *)
LEMMA SanitizedCorrect ==
    ASSUME NEW S, NEW t \in Seq(S)
    PROVE  /\ Clean(Sanitized(t))
           /\ Matched(t) \in Nat
           /\ Sanitized(t) # t => Matched(t) # 0
           /\ PatternRules(t) = {} <=> Matched(t) = 0
<1>1. Len(t) \in Nat /\ DOMAIN t = 1 .. Len(t)
  OBVIOUS
<1>2. PICK A : A = Assignments(t)
  OBVIOUS
<1>3. PICK assigned : assigned = HideAssigned(t)
  OBVIOUS
<1>4. PICK C : C = Credentials(assigned)
  OBVIOUS
<1>5. PICK hidden : hidden = HideCredentials(assigned)
  OBVIOUS
<1>6. PICK s : s = Sanitized(t)
  OBVIOUS
<1>7. PICK T : T = {i \in DOMAIN t : hidden[i] \in {"token", "jwt"}}
  OBVIOUS
<1>8. A \subseteq 1 .. Len(t)
      /\ \A i \in 1 .. Len(t) :
            i \in A <=> t[i] = "label" /\ i < Len(t) /\ (i = 1 \/ i - 1 \notin A)
  BY <1>2, AssignmentsAre DEF IsStarts
<1>9. /\ DOMAIN assigned = 1 .. Len(t)
      /\ \A i \in 1 .. Len(t) : assigned[i] = IF i - 1 \in A THEN "redacted" ELSE t[i]
  BY <1>1, <1>2, <1>3 DEF HideAssigned
<1>10. Len(assigned) = Len(t)
  <2>1. assigned = [i \in 1 .. Len(t) |-> assigned[i]]
    BY <1>1, <1>3 DEF HideAssigned
  <2> QED BY <1>1, <2>1, LengthIs
<1>11. C = {i \in 1 .. Len(t) - 1 : /\ assigned[i] \in {"bearer", "basic"}
                                    /\ assigned[i + 1] \in {"opaque", "dotted", "token", "jwt"}}
  BY <1>4, <1>10 DEF Credentials
<1>12. /\ DOMAIN hidden = 1 .. Len(t)
       /\ \A i \in 1 .. Len(t) : IF i - 1 \in C THEN hidden[i] \in {"redacted", "rest"}
                                                ELSE hidden[i] = assigned[i]
  BY <1>4, <1>5, <1>9 DEF HideCredentials
<1>13. /\ DOMAIN s = 1 .. Len(t)
       /\ \A i \in 1 .. Len(t) : s[i] = IF hidden[i] \in {"token", "jwt"} THEN "redacted"
                                          ELSE hidden[i]
  BY <1>3, <1>5, <1>6, <1>12 DEF Sanitized, HideTokens
<1>14. Len(s) = Len(t)
  <2>1. s = HideTokens(hidden)
    BY <1>3, <1>5, <1>6 DEF Sanitized
  <2>2. s = [i \in 1 .. Len(t) |-> s[i]]
    BY <1>12, <2>1 DEF HideTokens
  <2> QED BY <1>1, <2>2, LengthIs
<1>15. Clean(s)
  <2>1. ASSUME NEW i \in 1 .. Len(t) PROVE s[i] \notin {"token", "jwt"}
    BY <1>13
  <2>2. ASSUME NEW i \in 1 .. Len(t), i < Len(t), s[i] = "label" PROVE s[i + 1] = "redacted"
    <3>1. i + 1 \in 1 .. Len(t) /\ (i + 1) - 1 = i
      BY <1>1, <2>2
    <3>2. hidden[i] = "label" /\ assigned[i] = "label" /\ i - 1 \notin A /\ t[i] = "label"
      BY <1>9, <1>12, <1>13, <2>2
    <3>3. i \in A
      BY <1>8, <2>2, <3>2
    <3>4. i \notin C
      BY <1>11, <3>2
    <3>5. assigned[i + 1] = "redacted"
      BY <1>9, <3>1, <3>3
    <3> QED BY <1>12, <1>13, <3>1, <3>4, <3>5
  <2>3. ASSUME NEW i \in 1 .. Len(t), i < Len(t), s[i] \in {"bearer", "basic"}
        PROVE  s[i + 1] \notin {"opaque", "dotted"}
    <3>1. i + 1 \in 1 .. Len(t) /\ (i + 1) - 1 = i /\ i \in 1 .. Len(t) - 1
      BY <1>1, <2>3
    <3>2. assigned[i] \in {"bearer", "basic"}
      BY <1>12, <1>13, <2>3
    <3>3. ASSUME s[i + 1] \in {"opaque", "dotted"} PROVE FALSE
      <4>1. hidden[i + 1] \in {"opaque", "dotted"} /\ assigned[i + 1] = hidden[i + 1]
        BY <1>12, <1>13, <3>1, <3>3
      <4>2. i \in C
        BY <1>11, <3>1, <3>2, <4>1
      <4> QED BY <1>12, <3>1, <4>1, <4>2
    <3> QED BY <3>3
  <2> QED BY <1>13, <1>14, <2>1, <2>2, <2>3 DEF Clean
<1>16. /\ IsFiniteSet(A) /\ IsFiniteSet(C) /\ IsFiniteSet(T)
       /\ Cardinality(A) \in Nat /\ Cardinality(C) \in Nat /\ Cardinality(T) \in Nat
  <2>1. IsFiniteSet(1 .. Len(t))
    BY <1>1, FS_Interval
  <2>2. A \subseteq 1 .. Len(t) /\ C \subseteq 1 .. Len(t) /\ T \subseteq 1 .. Len(t)
    BY <1>1, <1>7, <1>8, <1>11
  <2> QED BY <2>1, <2>2, FS_Subset, FS_CardinalityType
<1>17. Matched(t) = Cardinality(A) + Cardinality(C) + Cardinality(T)
  BY <1>2, <1>3, <1>4, <1>5, <1>7 DEF Matched
<1>18. Matched(t) \in Nat
  BY <1>16, <1>17
<1>19. ASSUME Matched(t) = 0 PROVE s = t
  <2>1. A = {} /\ C = {} /\ T = {}
    <3>1. Cardinality(A) = 0 /\ Cardinality(C) = 0 /\ Cardinality(T) = 0
      BY <1>16, <1>17, <1>19
    <3> QED BY <1>16, <3>1, FS_EmptySet
  <2>2. ASSUME NEW i \in 1 .. Len(t) PROVE s[i] = t[i]
    <3>1. hidden[i] = t[i]
      BY <1>9, <1>12, <2>1
    <3>2. hidden[i] \notin {"token", "jwt"}
      BY <1>1, <1>7, <2>1
    <3> QED BY <1>13, <3>1, <3>2
  <2>3. s = [i \in 1 .. Len(t) |-> s[i]]
    BY <1>1, <1>3, <1>5, <1>6, <1>12 DEF Sanitized, HideTokens
  <2>4. t = [i \in 1 .. Len(t) |-> t[i]]
    BY <1>1
  <2> QED BY <2>2, <2>3, <2>4
<1>20. PatternRules(t) = {} <=> Matched(t) = 0
  BY DEF PatternRules
<1> QED BY <1>6, <1>15, <1>18, <1>19, <1>20

(* The marker stays what it is.                                            *)
LEMMA MarkerStays == Sanitized(<<"redacted">>) = <<"redacted">>
<1>1. PICK t : t = <<"redacted">>
  OBVIOUS
<1>2. t \in Seq({"redacted"}) /\ Len(t) = 1 /\ DOMAIN t = {1} /\ t[1] = "redacted"
  <2>1. t \in Seq({"redacted"}) /\ Len(t) = 1 /\ t[1] = "redacted"
    BY <1>1, Tuples
  <2>2. DOMAIN t = {1}
    BY <2>1
  <2> QED BY <2>1, <2>2
<1>3. Assignments(t) = {}
  BY <1>2, AssignmentsAre DEF IsStarts
<1>4. HideAssigned(t) = t
  <2>1. HideAssigned(t) = [i \in DOMAIN t |-> t[i]]
    BY <1>3 DEF HideAssigned
  <2> QED BY <1>2, <2>1
<1>5. Credentials(t) = {}
  BY <1>2 DEF Credentials
<1>6. HideCredentials(t) = t
  <2>1. HideCredentials(t) = [i \in DOMAIN t |-> t[i]]
    BY <1>5 DEF HideCredentials
  <2> QED BY <1>2, <2>1
<1>7. HideTokens(t) = t
  <2>1. HideTokens(t) = [i \in DOMAIN t |-> t[i]]
    BY <1>2 DEF HideTokens
  <2> QED BY <1>2, <2>1
<1> QED BY <1>1, <1>4, <1>6, <1>7 DEF Sanitized

(* Several outcomes as one: a rule is named if something is counted, and   *)
(* the count covers each place where something is.                         *)
IsOutcome(o) == o.count \in Nat /\ (o.rules = {} <=> o.count = 0)

AreOutcomes(S, outcomes) ==
    /\ IsFiniteSet(S) /\ DOMAIN outcomes = S
    /\ \A x \in S : IsOutcome(outcomes[x])

LEMMA TogetherCorrect ==
    ASSUME NEW S, NEW outcomes, AreOutcomes(S, outcomes)
    PROVE  /\ IsOutcome(Together(outcomes))
           /\ Together(outcomes).value = [x \in S |-> outcomes[x].value]
           /\ \A T \in SUBSET S : (\A x \in T : outcomes[x].count # 0) =>
                 Cardinality(T) <= Together(outcomes).count
<1> USE DEF AreOutcomes
<1>1. PICK f : f = [x \in DOMAIN outcomes |-> outcomes[x].count]
  OBVIOUS
<1>2. f \in [S -> Nat] /\ \A x \in S : f[x] = outcomes[x].count
  BY <1>1 DEF IsOutcome
<1>3. /\ Total(f) \in Nat
      /\ Total(f) = 0 <=> \A x \in S : f[x] = 0
      /\ Cardinality({x \in S : f[x] # 0}) <= Total(f)
  BY <1>2, SumCounts
<1>4. /\ Together(outcomes).value = [x \in S |-> outcomes[x].value]
      /\ Together(outcomes).rules = UNION {outcomes[x].rules : x \in S}
      /\ Together(outcomes).count = Total(f)
  BY <1>1 DEF Together, Outcome
<1>5. IsOutcome(Together(outcomes))
  <2>1. UNION {outcomes[x].rules : x \in S} = {} <=> \A x \in S : outcomes[x].rules = {}
    OBVIOUS
  <2>2. \A x \in S : outcomes[x].rules = {} <=> f[x] = 0
    BY <1>2 DEF IsOutcome
  <2> QED BY <1>3, <1>4, <2>1, <2>2 DEF IsOutcome
<1>6. ASSUME NEW T \in SUBSET S, \A x \in T : outcomes[x].count # 0
      PROVE  Cardinality(T) <= Together(outcomes).count
  <2>1. PICK U : U = {x \in S : f[x] # 0}
    OBVIOUS
  <2>2. T \subseteq U /\ U \subseteq S
    BY <1>2, <1>6, <2>1
  <2>3. IsFiniteSet(U) /\ Cardinality(U) \in Nat
    BY <2>2, FS_Subset, FS_CardinalityType
  <2>4. Cardinality(T) <= Cardinality(U) /\ Cardinality(T) \in Nat
    BY <2>2, <2>3, FS_Subset, FS_CardinalityType
  <2>5. Cardinality(U) <= Total(f)
    BY <1>3, <2>1
  <2> QED BY <1>3, <1>4, <2>3, <2>4, <2>5
<1> QED BY <1>4, <1>5, <1>6

-----------------------------------------------------------------------------
(* The configured paths                                                    *)

LEMMA MaxCorrect ==
    ASSUME NEW n \in Nat, NEW s \in SUBSET (1 .. n), s # {}
    PROVE  Max(s) \in s /\ \A x \in s : Max(s) >= x
<1> DEFINE Rest == {n - x : x \in s}
<1>1. Rest \subseteq Nat /\ Rest # {}
  <2>1. \A x \in s : n - x \in Nat
    OBVIOUS
  <2> QED BY <2>1
<1>2. PICK m \in Rest : \A k \in Rest : m <= k
  <2> HIDE DEF Rest
  <2> QED BY <1>1, NatLeast
<1>3. PICK x \in s : m = n - x
  OBVIOUS
<1>4. \A y \in s : x >= y
  <2>1. ASSUME NEW y \in s PROVE x >= y
    <3>1. n - y \in Rest
      OBVIOUS
    <3>2. n - x <= n - y
      BY <1>2, <1>3, <3>1
    <3>3. x \in Nat /\ y \in Nat
      OBVIOUS
    <3> QED BY <3>2, <3>3
  <2> QED BY <2>1
<1> QED BY <1>4 DEF Max

(* What the rules can come to: a part of the body, with some labels        *)
(* replaced.                                                               *)
Cuts(body, expressions) ==
    [value : UNION {[D -> {body[p] : p \in DOMAIN body} \cup {Redacted}] : D \in SUBSET DOMAIN body},
     rules : SUBSET {<<"jsonpath", expressions[i]>> : i \in DOMAIN expressions},
     count : Nat]

LEMMA ApplyRuleCuts ==
    ASSUME NEW body, NEW expressions, NEW o \in Cuts(body, expressions),
           NEW i \in DOMAIN expressions
    PROVE  ApplyRule(o, expressions[i]) \in Cuts(body, expressions)
<1> DEFINE Labels == {body[p] : p \in DOMAIN body} \cup {Redacted}
           Rules == {<<"jsonpath", expressions[j]>> : j \in DOMAIN expressions}
           e == expressions[i]
           p == JsonPath[e]
<1>1. PICK D \in SUBSET DOMAIN body : o.value \in [D -> Labels]
  BY DEF Cuts
<1>2. o.rules \in SUBSET Rules /\ o.count \in Nat
  <2> HIDE DEF Labels
  <2> QED BY DEF Cuts
<1>3. CASE p \notin DOMAIN o.value \/ o.value[p] = Redacted
  BY <1>3 DEF ApplyRule
<1>4. CASE ~(p \notin DOMAIN o.value \/ o.value[p] = Redacted)
  <2>1. PICK E : E = {r \in D : ~IsStrictPrefix(p, r)}
    OBVIOUS
  <2>2. Cut(o.value, p) \in [E -> Labels] /\ E \in SUBSET DOMAIN body
    <3>1. Cut(o.value, p) = [q \in E |-> IF q = p THEN Redacted ELSE o.value[q]]
      BY <1>1, <2>1 DEF Cut
    <3>2. \A q \in E : (IF q = p THEN Redacted ELSE o.value[q]) \in Labels
      BY <1>1, <2>1
    <3> HIDE DEF Labels
    <3> QED BY <2>1, <3>1, <3>2
  <2>3. o.rules \cup {<<"jsonpath", e>>} \in SUBSET Rules /\ o.count + 1 \in Nat
    BY <1>2
  <2>4. ApplyRule(o, e) = [value |-> Cut(o.value, p), rules |-> o.rules \cup {<<"jsonpath", e>>},
                           count |-> o.count + 1]
    BY <1>4 DEF ApplyRule, Outcome
  <2>5. Cut(o.value, p) \in UNION {[F -> Labels] : F \in SUBSET DOMAIN body}
    BY <2>2
  <2> HIDE DEF Labels, Rules, p, e
  <2>6. ApplyRule(o, e) \in [value : UNION {[F -> Labels] : F \in SUBSET DOMAIN body},
                             rules : SUBSET Rules, count : Nat]
    BY <2>3, <2>4, <2>5
  <2> QED BY <2>6 DEF Cuts, Labels, Rules, e
<1> QED BY <1>3, <1>4

(* The rules are applied one after another.                                *)
AreStages(stages, body, expressions) ==
    /\ stages[0] = Outcome(body, {}, 0)
    /\ \A n \in 1 .. Len(expressions) : stages[n] = ApplyRule(stages[n - 1], expressions[n])

LEMMA RulesInOrder ==
    ASSUME NEW S, NEW expressions \in Seq(S), NEW body, body = [p \in DOMAIN body |-> body[p]]
    PROVE  \E stages : /\ AreStages(stages, body, expressions)
                       /\ AfterRules(body, expressions) = stages[Len(expressions)]
<1>1. PICK N : N = Len(expressions) /\ N \in Nat /\ DOMAIN expressions = 1 .. N
  OBVIOUS
<1>2. PICK I : I = 1 .. N
  OBVIOUS
<1>3. PICK V, base : V = Cuts(body, expressions) /\ base = Outcome(body, {}, 0)
  OBVIOUS
<1>4. PICK pick : pick = [s \in SUBSET I |-> Max(s)]
  OBVIOUS
<1>5. PICK put : put = [x \in I \X V |-> ApplyRule(x[2], expressions[x[1]])]
  OBVIOUS
<1>6. base \in V
  <2>1. body \in [DOMAIN body -> {body[p] : p \in DOMAIN body} \cup {Redacted}]
    <3>1. PICK L : L = {body[p] : p \in DOMAIN body} \cup {Redacted}
      OBVIOUS
    <3>2. \A p \in DOMAIN body : body[p] \in L
      BY <3>1
    <3>3. body \in [DOMAIN body -> L]
      BY <3>2
    <3> QED BY <3>1, <3>3
  <2>2. PICK values : values =
           UNION {[D -> {body[p] : p \in DOMAIN body} \cup {Redacted}] : D \in SUBSET DOMAIN body}
    OBVIOUS
  <2>3. body \in values
    BY <2>1, <2>2
  <2>4. base = [value |-> body, rules |-> {}, count |-> 0]
    BY <1>3 DEF Outcome
  <2> QED BY <1>3, <2>2, <2>3, <2>4 DEF Cuts
<1>7. ASSUME NEW s \in SUBSET I, s # {} PROVE pick[s] = Max(s) /\ pick[s] \in s
  BY <1>1, <1>2, <1>4, <1>7, MaxCorrect
<1>8. ASSUME NEW x \in I, NEW v \in V
      PROVE  put[<<x, v>>] = ApplyRule(v, expressions[x]) /\ put[<<x, v>>] \in V
  <2>1. put[<<x, v>>] = ApplyRule(v, expressions[x])
    BY <1>5
  <2>2. ApplyRule(v, expressions[x]) \in V
    BY <1>1, <1>2, <1>3, ApplyRuleCuts
  <2> QED BY <2>1, <2>2
<1>9. IsFiniteSet(I)
  <2>1. IsFiniteSet(1 .. N)
    BY <1>1, FS_Interval
  <2> QED BY <1>2, <2>1
<1>10. CanFold(I, V, base, pick, put)
  BY <1>6, <1>7, <1>8, <1>9 DEF CanFold
<1>11. HasFold(I, V, base, pick, put)
  BY <1>10, FoldExists
<1>12. PICK g \in [SUBSET I -> V] : Follows(g, SUBSET I, base, pick, put)
  BY <1>11 DEF HasFold
<1> DEFINE Def(h) == h = [s \in SUBSET I |-> IF s = {} THEN base
                            ELSE LET x == Max(s) IN ApplyRule(h[s \ {x}], expressions[x])]
<1>13. ASSUME NEW s \in SUBSET I, s # {}
       PROVE  g[s] = ApplyRule(g[s \ {Max(s)}], expressions[Max(s)])
  <2>1. PICK x : x = Max(s)
    OBVIOUS
  <2>2. pick[s] = x /\ x \in I /\ s \ {x} \in SUBSET I
    BY <1>7, <1>13, <2>1
  <2>3. g[s] = put[<<x, g[s \ {x}]>>]
    BY <1>12, <1>13, <2>2 DEF Follows
  <2>4. g[s \ {x}] \in V
    BY <1>12, <2>2
  <2> QED BY <1>8, <2>1, <2>2, <2>3, <2>4
<1>14. Def(g)
  <2>1. g[{}] = base
    BY <1>12 DEF Follows
  <2> QED BY <1>12, <1>13, <2>1
<1>15. PICK h : h = CHOOSE some : Def(some)
  OBVIOUS
<1>16. Def(h)
  BY <1>14, <1>15
<1>17. AfterRules(body, expressions) = h[I]
  BY <1>1, <1>2, <1>3, <1>15 DEF AfterRules, FoldLeft, MapThenFoldSet
<1>18. PICK stages : stages = [n \in 0 .. N |-> h[1 .. n]]
  OBVIOUS
<1>19. stages[0] = base
  <2>1. 1 .. 0 = {}
    OBVIOUS
  <2> QED BY <1>1, <1>16, <1>18, <2>1
<1>20. ASSUME NEW n \in 1 .. N PROVE stages[n] = ApplyRule(stages[n - 1], expressions[n])
  <2>1. PICK s : s = 1 .. n
    OBVIOUS
  <2>2. s \in SUBSET I /\ s # {} /\ s \ {n} = 1 .. (n - 1)
    BY <1>1, <1>2, <2>1
  <2>3. Max(s) = n
    <3>1. Max(s) \in s /\ \A x \in s : Max(s) >= x
      BY <1>1, <1>2, <2>2, MaxCorrect
    <3> QED BY <2>1, <3>1
  <2>4. h[s] = ApplyRule(h[s \ {n}], expressions[n])
    BY <1>16, <2>2, <2>3
  <2>5. stages[n] = h[s] /\ stages[n - 1] = h[s \ {n}]
    <3>1. n \in 0 .. N /\ n - 1 \in 0 .. N
      BY <1>1
    <3>2. stages[n] = h[1 .. n] /\ stages[n - 1] = h[1 .. (n - 1)]
      <4> HIDE DEF Def
      <4> QED BY <1>18, <3>1
    <3> HIDE DEF Def
    <3> QED BY <2>1, <2>2, <3>2
  <2> QED BY <2>4, <2>5
<1>21. stages[N] = h[I]
  BY <1>1, <1>2, <1>18
<1> QED BY <1>1, <1>3, <1>17, <1>19, <1>20, <1>21 DEF AreStages

(* What holds of a body after some of the rules.                           *)
Differing(value, body) == {p \in DOMAIN value : value[p] # body[p]}

IsStage(o, body, applied) ==
    /\ DOMAIN o.value \subseteq DOMAIN body
    /\ \A p \in DOMAIN o.value : o.value[p] = body[p] \/ o.value[p] = Redacted
    /\ \A e \in applied : JsonPath[e] \in DOMAIN o.value => o.value[JsonPath[e]] = Redacted
    /\ IsOutcome(o)
    /\ Cardinality(Differing(o.value, body)) <= o.count

LEMMA ApplyRuleCorrect ==
    ASSUME NEW body, IsFiniteSet(DOMAIN body), NEW o, NEW applied, IsStage(o, body, applied), NEW e
    PROVE  IsStage(ApplyRule(o, e), body, applied \cup {e})
<1>1. PICK p, v : p = JsonPath[e] /\ v = o.value
  OBVIOUS
<1>2. CASE p \notin DOMAIN v \/ v[p] = Redacted
  <2>1. ApplyRule(o, e) = o
    BY <1>1, <1>2 DEF ApplyRule
  <2>2. \A f \in applied \cup {e} : JsonPath[f] \in DOMAIN o.value => o.value[JsonPath[f]] = Redacted
    BY <1>1, <1>2 DEF IsStage
  <2> QED BY <2>1, <2>2 DEF IsStage
<1>3. CASE ~(p \notin DOMAIN v \/ v[p] = Redacted)
  <2>1. PICK w : w = Cut(v, p)
    OBVIOUS
  <2>2. PICK r : r = ApplyRule(o, e)
    OBVIOUS
  <2>3. /\ r.value = w /\ r.rules = o.rules \cup {<<"jsonpath", e>>} /\ r.count = o.count + 1
    BY <1>1, <1>3, <2>1, <2>2 DEF ApplyRule, Outcome
  <2>4. /\ DOMAIN w \subseteq DOMAIN v
        /\ \A q \in DOMAIN w : w[q] = IF q = p THEN Redacted ELSE v[q]
    BY <2>1 DEF Cut
  <2>5. DOMAIN v \subseteq DOMAIN body /\ \A q \in DOMAIN v : v[q] = body[q] \/ v[q] = Redacted
    BY <1>1 DEF IsStage
  <2>6. DOMAIN w \subseteq DOMAIN body /\ \A q \in DOMAIN w : w[q] = body[q] \/ w[q] = Redacted
    BY <2>4, <2>5
  <2>7. ASSUME NEW f \in applied \cup {e}, JsonPath[f] \in DOMAIN w
        PROVE  w[JsonPath[f]] = Redacted
    <3>1. JsonPath[f] # p => v[JsonPath[f]] = Redacted
      <4>1. ASSUME JsonPath[f] # p PROVE f \in applied /\ JsonPath[f] \in DOMAIN v
        BY <1>1, <2>4, <2>7, <4>1
      <4> QED BY <1>1, <4>1 DEF IsStage
    <3> QED BY <2>4, <2>7, <3>1
  <2>8. IsOutcome(r)
    <3>1. o.count \in Nat
      BY DEF IsStage, IsOutcome
    <3>2. r.count \in Nat /\ r.count # 0
      BY <2>3, <3>1
    <3>3. r.rules # {}
      BY <2>3
    <3> QED BY <3>2, <3>3 DEF IsOutcome
  <2>9. Cardinality(Differing(w, body)) <= o.count + 1
    <3>1. PICK A, B : A = Differing(v, body) /\ B = Differing(w, body)
      OBVIOUS
    <3>2. A \subseteq DOMAIN body /\ B \subseteq A \cup {p}
      BY <2>4, <2>5, <3>1 DEF Differing
    <3>3. IsFiniteSet(A) /\ Cardinality(A) \in Nat
      BY <3>2, FS_Subset, FS_CardinalityType
    <3>4. IsFiniteSet(A \cup {p}) /\ Cardinality(A \cup {p}) \in Nat
          /\ Cardinality(A \cup {p}) <= Cardinality(A) + 1
      <4>1. /\ IsFiniteSet(A \cup {p})
            /\ Cardinality(A \cup {p}) = IF p \in A THEN Cardinality(A) ELSE Cardinality(A) + 1
        BY <3>3, FS_AddElement
      <4> QED BY <3>3, <4>1
    <3>5. Cardinality(B) <= Cardinality(A \cup {p}) /\ Cardinality(B) \in Nat
      BY <3>2, <3>4, FS_Subset, FS_CardinalityType
    <3>6. Cardinality(A) <= o.count /\ o.count \in Nat
      BY <1>1, <3>1 DEF IsStage, IsOutcome
    <3> QED BY <3>1, <3>3, <3>4, <3>5, <3>6
  <2> QED BY <2>2, <2>3, <2>6, <2>7, <2>8, <2>9 DEF IsStage
<1> QED BY <1>2, <1>3

(* Bodies and texts of requests.                                           *)
IsBody(body) ==
    /\ IsFiniteSet(DOMAIN body) /\ body = [p \in DOMAIN body |-> body[p]]
    /\ \A p \in DOMAIN body : body[p] \in [kind : STRING, value : Seq(STRING)]

LEMMA RulesCorrect ==
    ASSUME NEW S, NEW expressions \in Seq(S), NEW body, IsBody(body)
    PROVE  IsStage(AfterRules(body, expressions), body, ToSet(expressions))
<1>1. PICK N : N = Len(expressions) /\ N \in Nat /\ DOMAIN expressions = 1 .. N
  OBVIOUS
<1>2. body = [p \in DOMAIN body |-> body[p]] /\ IsFiniteSet(DOMAIN body)
  BY DEF IsBody
<1>3. PICK stages : /\ AreStages(stages, body, expressions)
                    /\ AfterRules(body, expressions) = stages[N]
  BY <1>1, <1>2, RulesInOrder
<1> DEFINE Applied(n) == {expressions[i] : i \in 1 .. n}
           Bad == {n \in 0 .. N : ~IsStage(stages[n], body, Applied(n))}
<1>4. 0 \notin Bad
  <2>1. stages[0] = [value |-> body, rules |-> {}, count |-> 0]
    BY <1>3 DEF AreStages, Outcome
  <2>2. Applied(0) = {}
    OBVIOUS
  <2>3. Differing(body, body) = {}
    BY DEF Differing
  <2>4. Cardinality(Differing(body, body)) = 0
    BY <2>3, FS_EmptySet
  <2> HIDE DEF Applied
  <2>5. IsStage(stages[0], body, Applied(0))
    BY <2>1, <2>2, <2>4 DEF IsStage, IsOutcome
  <2> QED BY <2>5
<1>5. ASSUME NEW n \in 1 .. N, n - 1 \notin Bad PROVE n \notin Bad
  <2>1. n - 1 \in 0 .. N
    BY <1>1
  <2>2. IsStage(stages[n - 1], body, Applied(n - 1))
    BY <1>5, <2>1
  <2>3. stages[n] = ApplyRule(stages[n - 1], expressions[n])
    BY <1>1, <1>3 DEF AreStages
  <2>4. Applied(n) = Applied(n - 1) \cup {expressions[n]}
    <3>1. \A i \in 1 .. n : i = n \/ i \in 1 .. (n - 1)
      BY <1>1
    <3>2. n \in 1 .. n /\ \A i \in 1 .. (n - 1) : i \in 1 .. n
      BY <1>1
    <3> QED BY <3>1, <3>2
  <2> HIDE DEF Applied
  <2>5. IsStage(ApplyRule(stages[n - 1], expressions[n]), body, Applied(n - 1) \cup {expressions[n]})
    BY <1>2, <2>2, ApplyRuleCorrect
  <2> QED BY <2>3, <2>4, <2>5
<1>6. Bad = {}
  <2>1. ASSUME Bad # {} PROVE FALSE
    <3>1. Bad \subseteq Nat
      BY <1>1
    <3>2. PICK n \in Bad : \A m \in Bad : n <= m
      <4> HIDE DEF Bad
      <4> QED BY <2>1, <3>1, NatLeast
    <3>3. n \in 0 .. N
      OBVIOUS
    <3> HIDE DEF Bad
    <3>4. n \in 1 .. N
      BY <1>1, <1>4, <3>2, <3>3
    <3>5. n - 1 \notin Bad
      BY <1>1, <3>2, <3>4
    <3> QED BY <1>5, <3>2, <3>4, <3>5
  <2> QED BY <2>1
<1>7. IsStage(stages[N], body, Applied(N))
  <2>1. N \in 0 .. N
    BY <1>1
  <2> HIDE DEF Applied
  <2> QED BY <1>6, <2>1
<1>8. Applied(N) = ToSet(expressions)
  BY <1>1 DEF ToSet
<1> QED BY <1>3, <1>7, <1>8

-----------------------------------------------------------------------------
(* Bodies                                                                  *)

LEMMA MarkerIsClean ==
    /\ Redacted.kind = "text" /\ Redacted.value = <<"redacted">>
    /\ <<"redacted">> \in Seq({"redacted"}) /\ Clean(<<"redacted">>)
<1>1. PICK t : t = <<"redacted">>
  OBVIOUS
<1>2. t \in Seq({"redacted"})
  BY <1>1, Tuples
<1>3. Clean(Sanitized(t))
  BY <1>2, SanitizedCorrect
<1>4. Sanitized(t) = t
  BY <1>1, MarkerStays
<1>5. Redacted.kind = "text" /\ Redacted.value = t
  BY <1>1 DEF Redacted, Leaf
<1> QED BY <1>1, <1>2, <1>3, <1>4, <1>5

(* A node is redacted, or its text is cleaned.                             *)
LEMMA NodeCorrect ==
    ASSUME NEW doc, NEW p \in DOMAIN doc,
           doc[p] = Redacted \/ doc[p] \in [kind : STRING, value : Seq(STRING)]
    PROVE  LET node == SanitizedNode(doc, p) IN
           /\ IsOutcome(node)
           /\ SensitiveEntry(doc, p) \/ doc[p] = Redacted => node.value = Redacted
           /\ node.value.kind = "text" => Clean(node.value.value)
           /\ node.value # doc[p] => node.count # 0
<1>1. PICK node : node = SanitizedNode(doc, p)
  OBVIOUS
<1>2. PICK label : label = doc[p]
  OBVIOUS
<1>3. CASE SensitiveEntry(doc, p)
  <2>1. PICK rules : rules = {<<"json-key", Last(p)[2]>>}
    OBVIOUS
  <2>2. node = [value |-> Redacted, rules |-> rules, count |-> 1]
    BY <1>1, <1>3, <2>1 DEF SanitizedNode, Outcome
  <2>3. rules # {}
    BY <2>1
  <2>4. node.value = Redacted /\ node.rules = rules /\ node.count = 1
    BY <2>2
  <2>5. IsOutcome(node)
    BY <2>3, <2>4 DEF IsOutcome
  <2>6. node.value.kind = "text" => Clean(node.value.value)
    BY <2>4, MarkerIsClean
  <2> QED BY <1>1, <2>4, <2>5, <2>6
<1>4. CASE ~SensitiveEntry(doc, p) /\ label.kind = "text"
  <2>1. PICK t : t = label.value
    OBVIOUS
  <2>2. PICK S : t \in Seq(S)
    BY <1>2, <2>1, MarkerIsClean
  <2>3. label = Leaf(t)
    BY <1>2, <1>4, <2>1 DEF Leaf, Redacted
  <2>4. /\ node.value = Leaf(Sanitized(t)) /\ node.rules = PatternRules(t)
        /\ node.count = Matched(t)
    BY <1>1, <1>2, <1>4, <2>1 DEF SanitizedNode, SanitizedText, Outcome
  <2>5. /\ Clean(Sanitized(t)) /\ Matched(t) \in Nat /\ (Sanitized(t) # t => Matched(t) # 0)
        /\ (PatternRules(t) = {} <=> Matched(t) = 0)
    BY <2>2, SanitizedCorrect
  <2>6. IsOutcome(node)
    BY <2>4, <2>5 DEF IsOutcome
  <2>7. node.value.value = Sanitized(t)
    BY <2>4 DEF Leaf
  <2>8. label = Redacted => node.value = Redacted
    <3>1. label = Redacted => t = <<"redacted">>
      BY <2>1, MarkerIsClean
    <3> QED BY <2>3, <2>4, <3>1, MarkerStays
  <2>9. node.value # label => node.count # 0
    BY <2>3, <2>4, <2>5
  <2> QED BY <1>1, <1>2, <1>4, <2>5, <2>6, <2>7, <2>8, <2>9
<1>5. CASE ~SensitiveEntry(doc, p) /\ label.kind # "text"
  <2>1. node = [value |-> label, rules |-> {}, count |-> 0]
    BY <1>1, <1>2, <1>5 DEF SanitizedNode, Outcome
  <2>2. node.value = label /\ node.rules = {} /\ node.count = 0
    BY <2>1
  <2>3. IsOutcome(node)
    BY <2>2 DEF IsOutcome
  <2> QED BY <1>1, <1>2, <1>5, <2>2, <2>3, MarkerIsClean
<1> QED BY <1>3, <1>4, <1>5

(* Two finite sets have no more members together than one after another.   *)
LEMMA UnionSize ==
    ASSUME NEW A, NEW B, IsFiniteSet(A), IsFiniteSet(B), NEW C \in SUBSET (A \cup B),
           NEW m \in Nat, NEW n \in Nat, Cardinality(A) <= m, Cardinality(B) <= n
    PROVE  Cardinality(C) <= m + n
<1>1. /\ IsFiniteSet(A \cup B)
      /\ Cardinality(A \cup B) = Cardinality(A) + Cardinality(B) - Cardinality(A \cap B)
  BY FS_Union
<1>2. IsFiniteSet(A \cap B) /\ Cardinality(A \cap B) \in Nat
  BY FS_Subset, FS_CardinalityType
<1>3. Cardinality(C) <= Cardinality(A \cup B) /\ Cardinality(C) \in Nat
  BY <1>1, FS_Subset, FS_CardinalityType
<1>4. Cardinality(A) \in Nat /\ Cardinality(B) \in Nat /\ Cardinality(A \cup B) \in Nat
  BY <1>1, FS_CardinalityType
<1> QED BY <1>1, <1>2, <1>3, <1>4

LEMMA BodyCorrect ==
    ASSUME NEW S, NEW expressions \in Seq(S), NEW body, IsBody(body)
    PROVE  LET out == SanitizedBody(body, expressions) IN
           /\ IsOutcome(out)
           /\ DOMAIN out.value \subseteq DOMAIN body
           /\ Cardinality(Differing(out.value, body)) <= out.count
           /\ \A p \in DOMAIN out.value :
                 /\ ~SensitiveEntry(out.value, p)
                 /\ out.value[p].kind = "text" => Clean(out.value[p].value)
           /\ \A e \in ToSet(expressions) :
                 JsonPath[e] \in DOMAIN out.value => out.value[JsonPath[e]] = Redacted
<1>1. PICK out : out = SanitizedBody(body, expressions)
  OBVIOUS
<1>2. PICK ruled, doc : ruled = AfterRules(body, expressions) /\ doc = ruled.value
  OBVIOUS
<1>3. PICK V : V = Visited(doc)
  OBVIOUS
<1>4. PICK each : each = [p \in V |-> SanitizedNode(doc, p)]
  OBVIOUS
<1>5. PICK nodes : nodes = Together(each)
  OBVIOUS
<1>6. /\ out.value = nodes.value /\ out.rules = ruled.rules \cup nodes.rules
      /\ out.count = ruled.count + nodes.count
  BY <1>1, <1>2, <1>3, <1>4, <1>5 DEF SanitizedBody, Outcome
<1>7. IsStage(ruled, body, ToSet(expressions))
  BY <1>2, RulesCorrect
<1>8. V \subseteq DOMAIN doc /\ DOMAIN doc \subseteq DOMAIN body
      /\ IsFiniteSet(V) /\ IsFiniteSet(DOMAIN doc)
  <2>1. V \subseteq DOMAIN doc
    BY <1>3 DEF Visited
  <2>2. DOMAIN doc \subseteq DOMAIN body
    BY <1>2, <1>7 DEF IsStage
  <2>3. IsFiniteSet(DOMAIN body)
    BY DEF IsBody
  <2> QED BY <2>1, <2>2, <2>3, FS_Subset
<1>9. ASSUME NEW p \in V
      PROVE  /\ IsOutcome(each[p])
             /\ SensitiveEntry(doc, p) \/ doc[p] = Redacted => each[p].value = Redacted
             /\ each[p].value.kind = "text" => Clean(each[p].value.value)
             /\ each[p].value # doc[p] => each[p].count # 0
  <2>1. p \in DOMAIN doc /\ p \in DOMAIN body
    BY <1>8
  <2>2. doc[p] = Redacted \/ doc[p] \in [kind : STRING, value : Seq(STRING)]
    <3>1. doc[p] = Redacted \/ doc[p] = body[p]
      BY <1>2, <1>7, <2>1 DEF IsStage
    <3>2. body[p] \in [kind : STRING, value : Seq(STRING)]
      BY <2>1 DEF IsBody
    <3> QED BY <3>1, <3>2
  <2>3. each[p] = SanitizedNode(doc, p)
    BY <1>4
  <2> QED BY <2>1, <2>2, <2>3, NodeCorrect
<1>10. AreOutcomes(V, each)
  BY <1>4, <1>8, <1>9 DEF AreOutcomes
<1>11. /\ IsOutcome(nodes)
       /\ nodes.value = [p \in V |-> each[p].value]
       /\ \A T \in SUBSET V : (\A p \in T : each[p].count # 0) => Cardinality(T) <= nodes.count
  BY <1>5, <1>10, TogetherCorrect
<1>12. DOMAIN out.value = V /\ \A p \in V : out.value[p] = each[p].value
  BY <1>6, <1>11
<1>13. IsOutcome(out)
  <2>1. IsOutcome(ruled)
    BY <1>7 DEF IsStage
  <2>2. /\ ruled.count \in Nat /\ nodes.count \in Nat /\ out.count = ruled.count + nodes.count
        /\ (ruled.rules = {} <=> ruled.count = 0) /\ (nodes.rules = {} <=> nodes.count = 0)
    BY <1>6, <1>11, <2>1 DEF IsOutcome
  <2>3. out.rules = {} <=> ruled.rules = {} /\ nodes.rules = {}
    BY <1>6
  <2>4. out.count \in Nat /\ (out.count = 0 <=> ruled.count = 0 /\ nodes.count = 0)
    BY <2>2
  <2> QED BY <2>2, <2>3, <2>4 DEF IsOutcome
<1>14. Cardinality(Differing(out.value, body)) <= out.count
  <2>1. PICK A : A = Differing(doc, body)
    OBVIOUS
  <2>2. PICK B : B = {p \in V : each[p].value # doc[p]}
    OBVIOUS
  <2>3. Differing(out.value, body) \subseteq A \cup B
    BY <1>8, <1>12, <2>1, <2>2 DEF Differing
  <2>4. A \subseteq DOMAIN doc /\ B \subseteq V
    BY <2>1, <2>2 DEF Differing
  <2>5. IsFiniteSet(A) /\ IsFiniteSet(B)
    BY <1>8, <2>4, FS_Subset
  <2>6. Cardinality(A) <= ruled.count /\ ruled.count \in Nat
    BY <1>2, <1>7, <2>1 DEF IsStage, IsOutcome
  <2>7. Cardinality(B) <= nodes.count /\ nodes.count \in Nat
    BY <1>9, <1>11, <2>2, <2>4 DEF IsOutcome
  <2> QED BY <1>6, <2>3, <2>5, <2>6, <2>7, UnionSize
<1>15. ASSUME NEW p \in V PROVE ~SensitiveEntry(out.value, p)
  BY <1>9, <1>12 DEF SensitiveEntry
<1>16. ASSUME NEW e \in ToSet(expressions), JsonPath[e] \in V
       PROVE  out.value[JsonPath[e]] = Redacted
  <2>1. doc[JsonPath[e]] = Redacted
    BY <1>2, <1>7, <1>8, <1>16 DEF IsStage
  <2> QED BY <1>9, <1>12, <1>16, <2>1
<1>17. V \subseteq DOMAIN body
  BY <1>8
<1> QED BY <1>1, <1>9, <1>12, <1>13, <1>14, <1>15, <1>16, <1>17

-----------------------------------------------------------------------------
(* Headers and query                                                       *)

(* The captured value of a header, by its name in lower case.              *)
Captured(headers, n) == headers[CHOOSE m \in DOMAIN headers : Lower[m] = n]

Referring(values) == {n \in DOMAIN values : values[n].kind = "env"}

AreHeaders(headers) ==
    /\ IsFiniteSet(DOMAIN headers)
    /\ \A n \in DOMAIN headers : headers[n] \in Seq(STRING)

LEMMA HeadersCorrect ==
    ASSUME NEW id, NEW policy, NEW headers, AreHeaders(headers)
    PROVE  LET out == SanitizedHeaders(id, headers, policy) IN
           /\ IsOutcome(out)
           /\ DOMAIN out.value = {Lower[m] : m \in DOMAIN headers}
           /\ \A n \in DOMAIN out.value :
                 \/ out.value[n] = Reference(VariableFor[<<id, n>>])
                 \/ /\ ~HideHeader(n, policy)
                    /\ out.value[n] = Leaf(Captured(headers, n))
                    /\ Clean(Captured(headers, n))
           /\ Cardinality(Referring(out.value)) <= out.count
<1>1. PICK out : out = SanitizedHeaders(id, headers, policy)
  OBVIOUS
<1>2. PICK L : L = {Lower[m] : m \in DOMAIN headers}
  OBVIOUS
<1> DEFINE value(n) == headers[CHOOSE m \in DOMAIN headers : Lower[m] = n]
           reference(n) == Reference(VariableFor[<<id, n>>])
           entry(n) == IF HideHeader(n, policy) THEN Outcome(reference(n), {<<"header", n>>}, 1)
                       ELSE Outcome(IF IsSecret(value(n)) THEN reference(n) ELSE Leaf(value(n)),
                                    PatternRules(value(n)), Matched(value(n)))
<1>3. PICK each : each = [n \in L |-> entry(n)]
  OBVIOUS
<1>4. out = Together(each)
  BY <1>1, <1>2, <1>3 DEF SanitizedHeaders
<1>5. IsFiniteSet(L)
  <2>1. IsFiniteSet(DOMAIN headers)
    BY DEF AreHeaders
  <2>2. PICK f : f = [m \in DOMAIN headers |-> Lower[m]]
    OBVIOUS
  <2>3. f \in Surjection(DOMAIN headers, L)
    BY <1>2, <2>2 DEF Surjection
  <2> QED BY <2>1, <2>3, FS_Surjection
<1>6. ASSUME NEW n \in L
      PROVE  /\ IsOutcome(each[n])
             /\ \/ each[n].value = reference(n)
                \/ ~HideHeader(n, policy) /\ each[n].value = Leaf(value(n)) /\ Clean(value(n))
             /\ each[n].value.kind = "env" => each[n].count # 0
  <2>1. PICK v, r : v = value(n) /\ r = reference(n)
    OBVIOUS
  <2>2. v \in Seq(STRING)
    <3>1. PICK m : m = CHOOSE some \in DOMAIN headers : Lower[some] = n
      OBVIOUS
    <3>2. m \in DOMAIN headers
      BY <1>2, <3>1
    <3> QED BY <2>1, <3>1, <3>2 DEF AreHeaders
  <2>3. /\ Clean(Sanitized(v)) /\ Matched(v) \in Nat /\ (Sanitized(v) # v => Matched(v) # 0)
        /\ (PatternRules(v) = {} <=> Matched(v) = 0)
    BY <2>2, SanitizedCorrect
  <2>4. CASE HideHeader(n, policy)
    <3>1. PICK rules : rules = {<<"header", n>>}
      OBVIOUS
    <3>2. each[n] = [value |-> r, rules |-> rules, count |-> 1]
      BY <1>3, <2>1, <2>4, <3>1 DEF Outcome
    <3>3. IsOutcome(each[n])
      <4>1. rules # {}
        BY <3>1
      <4> QED BY <3>2, <4>1 DEF IsOutcome
    <3>4. each[n].value = r /\ each[n].count = 1
      BY <3>2
    <3> QED BY <2>1, <3>3, <3>4
  <2>5. CASE ~HideHeader(n, policy)
    <3>1. each[n] = [value |-> IF IsSecret(v) THEN r ELSE Leaf(v), rules |-> PatternRules(v),
                     count |-> Matched(v)]
      BY <1>3, <2>1, <2>5 DEF Outcome
    <3>2. /\ each[n].value = IF IsSecret(v) THEN r ELSE Leaf(v)
          /\ each[n].rules = PatternRules(v) /\ each[n].count = Matched(v)
      BY <3>1
    <3>3. IsOutcome(each[n])
      BY <2>3, <3>2 DEF IsOutcome
    <3>4. CASE IsSecret(v)
      <4>1. each[n].value = r /\ each[n].count # 0
        BY <2>3, <3>2, <3>4 DEF IsSecret
      <4> QED BY <2>1, <3>3, <4>1
    <3>5. CASE ~IsSecret(v)
      <4>1. each[n].value = Leaf(v) /\ Clean(v)
        BY <2>3, <3>2, <3>5 DEF IsSecret
      <4>2. Leaf(v).kind # "env"
        BY DEF Leaf
      <4> QED BY <2>1, <2>5, <3>3, <4>1, <4>2
    <3> QED BY <3>4, <3>5
  <2> QED BY <2>4, <2>5
<1> HIDE DEF entry, value, reference
<1>7. AreOutcomes(L, each)
  BY <1>3, <1>5, <1>6 DEF AreOutcomes
<1>8. /\ IsOutcome(out)
      /\ out.value = [n \in L |-> each[n].value]
      /\ \A T \in SUBSET L : (\A n \in T : each[n].count # 0) => Cardinality(T) <= out.count
  BY <1>4, <1>7, TogetherCorrect
<1>9. DOMAIN out.value = L /\ \A n \in L : out.value[n] = each[n].value
  BY <1>8
<1>10. Cardinality(Referring(out.value)) <= out.count
  <2>1. PICK T : T = Referring(out.value)
    OBVIOUS
  <2>2. T \in SUBSET L /\ \A n \in T : each[n].count # 0
    BY <1>6, <1>9, <2>1 DEF Referring
  <2> QED BY <1>8, <2>1, <2>2
<1>11. \A n \in L : \/ out.value[n] = Reference(VariableFor[<<id, n>>])
                    \/ /\ ~HideHeader(n, policy)
                       /\ out.value[n] = Leaf(Captured(headers, n))
                       /\ Clean(Captured(headers, n))
  BY <1>6, <1>9 DEF Captured, value, reference
<1> QED BY <1>1, <1>2, <1>8, <1>9, <1>10, <1>11

(* Texts, by their keys, or the marker in their place.                     *)
LEMMA TextCorrect ==
    ASSUME NEW t \in Seq(STRING)
    PROVE  /\ IsOutcome(SanitizedText(t)) /\ Clean(SanitizedText(t).value)
           /\ SanitizedText(t).value # t => SanitizedText(t).count # 0
<1>1. /\ Clean(Sanitized(t)) /\ Matched(t) \in Nat /\ (Sanitized(t) # t => Matched(t) # 0)
      /\ (PatternRules(t) = {} <=> Matched(t) = 0)
  BY SanitizedCorrect
<1>2. /\ SanitizedText(t).value = Sanitized(t) /\ SanitizedText(t).rules = PatternRules(t)
      /\ SanitizedText(t).count = Matched(t)
  BY DEF SanitizedText, Outcome
<1> QED BY <1>1, <1>2 DEF IsOutcome

LEMMA QueryCorrect ==
    ASSUME NEW query, AreHeaders(query)
    PROVE  LET out == SanitizedQuery(query) IN
           /\ IsOutcome(out) /\ DOMAIN out.value = DOMAIN query
           /\ \A n \in DOMAIN query : IF n \in SensitiveNames THEN out.value[n] = <<"redacted">>
                                      ELSE Clean(out.value[n])
           /\ Cardinality({n \in DOMAIN query : out.value[n] # query[n]}) <= out.count
<1>1. PICK out : out = SanitizedQuery(query)
  OBVIOUS
<1>2. PICK L : L = DOMAIN query
  OBVIOUS
<1>3. PICK each : each = [n \in L |->
                             IF n \in SensitiveNames THEN Outcome(<<"redacted">>, {<<"query", n>>}, 1)
                             ELSE SanitizedText(query[n])]
  OBVIOUS
<1>4. out = Together(each)
  BY <1>1, <1>2, <1>3 DEF SanitizedQuery
<1>5. ASSUME NEW n \in L
      PROVE  /\ IsOutcome(each[n])
             /\ IF n \in SensitiveNames THEN each[n].value = <<"redacted">>
                ELSE Clean(each[n].value)
             /\ each[n].value # query[n] => each[n].count # 0
  <2>1. CASE n \in SensitiveNames
    <3>1. PICK rules, marker : rules = {<<"query", n>>} /\ marker = <<"redacted">>
      OBVIOUS
    <3>2. each[n] = [value |-> marker, rules |-> rules, count |-> 1]
      BY <1>3, <2>1, <3>1 DEF Outcome
    <3>3. each[n].value = marker /\ each[n].rules = rules /\ each[n].count = 1 /\ rules # {}
      BY <3>1, <3>2
    <3>4. IsOutcome(each[n])
      BY <3>3 DEF IsOutcome
    <3> QED BY <2>1, <3>1, <3>3, <3>4
  <2>2. CASE n \notin SensitiveNames
    <3>1. query[n] \in Seq(STRING)
      BY <1>2 DEF AreHeaders
    <3>2. each[n] = SanitizedText(query[n])
      BY <1>3, <2>2
    <3> QED BY <2>2, <3>1, <3>2, TextCorrect
  <2> QED BY <2>1, <2>2
<1>6. AreOutcomes(L, each)
  BY <1>2, <1>3, <1>5 DEF AreOutcomes, AreHeaders
<1>7. /\ IsOutcome(out)
      /\ out.value = [n \in L |-> each[n].value]
      /\ \A T \in SUBSET L : (\A n \in T : each[n].count # 0) => Cardinality(T) <= out.count
  BY <1>4, <1>6, TogetherCorrect
<1>8. DOMAIN out.value = L /\ \A n \in L : out.value[n] = each[n].value
  BY <1>7
<1>9. Cardinality({n \in L : out.value[n] # query[n]}) <= out.count
  <2>1. PICK T : T = {n \in L : out.value[n] # query[n]}
    OBVIOUS
  <2>2. T \in SUBSET L /\ \A n \in T : each[n].count # 0
    BY <1>5, <1>8, <2>1
  <2> QED BY <1>7, <2>1, <2>2
<1> QED BY <1>1, <1>2, <1>5, <1>7, <1>8, <1>9

(* Texts numbered or known by themselves.                                  *)
LEMMA TextsCorrect ==
    ASSUME NEW S, IsFiniteSet(S), NEW texts, \A x \in S : texts[x] \in Seq(STRING)
    PROVE  LET out == Together([x \in S |-> SanitizedText(texts[x])]) IN
           /\ IsOutcome(out) /\ DOMAIN out.value = S
           /\ \A x \in S : Clean(out.value[x])
           /\ Cardinality({x \in S : out.value[x] # texts[x]}) <= out.count
<1> DEFINE all == [x \in S |-> SanitizedText(texts[x])]
<1>0. PICK each : each = all
  OBVIOUS
<1>1. PICK out : out = Together(each)
  OBVIOUS
<1>2. ASSUME NEW x \in S
      PROVE  /\ IsOutcome(each[x]) /\ Clean(each[x].value)
             /\ each[x].value # texts[x] => each[x].count # 0
  BY <1>0, TextCorrect
<1>3. AreOutcomes(S, each)
  BY <1>0, <1>2 DEF AreOutcomes
<1>4. /\ IsOutcome(out)
      /\ out.value = [x \in S |-> each[x].value]
      /\ \A T \in SUBSET S : (\A x \in T : each[x].count # 0) => Cardinality(T) <= out.count
  BY <1>1, <1>3, TogetherCorrect
<1>5. DOMAIN out.value = S /\ \A x \in S : out.value[x] = each[x].value
  BY <1>4
<1>6. Cardinality({x \in S : out.value[x] # texts[x]}) <= out.count
  <2>1. PICK T : T = {x \in S : out.value[x] # texts[x]}
    OBVIOUS
  <2>2. T \in SUBSET S /\ \A x \in T : each[x].count # 0
    BY <1>2, <1>5, <2>1
  <2> QED BY <1>4, <2>1, <2>2
<1> QED BY <1>0, <1>1, <1>2, <1>4, <1>5, <1>6

-----------------------------------------------------------------------------
(* Drafts                                                                  *)

LEMMA FiveBounds ==
    ASSUME NEW a \in Nat, NEW b \in Nat, NEW c \in Nat, NEW d \in Nat, NEW e \in Nat,
           NEW f \in Nat, NEW g \in Nat, NEW h \in Nat, NEW i \in Nat, NEW j \in Nat,
           a <= f, b <= g, c <= h, d <= i, e <= j
    PROVE  f + g + h + i + j >= a + b + c + d + e
  OBVIOUS

LEMMA FiveTogether ==
    ASSUME NEW a, NEW b, NEW c, NEW d, NEW e,
           IsOutcome(a), IsOutcome(b), IsOutcome(c), IsOutcome(d), IsOutcome(e)
    PROVE  LET all == Together(<<a, b, c, d, e>>) IN
           IsOutcome(all) /\ all.count = a.count + b.count + c.count + d.count + e.count
<1>1. PICK parts, S : parts = <<a, b, c, d, e>> /\ S = 1 .. 5
  OBVIOUS
<1>2. /\ DOMAIN parts = S
      /\ parts[1] = a /\ parts[2] = b /\ parts[3] = c /\ parts[4] = d /\ parts[5] = e
  BY <1>1
<1>3. IsFiniteSet(S)
  <2>1. IsFiniteSet(1 .. 5)
    <3>1. PICK m, n : m = 1 /\ n = 5
      OBVIOUS
    <3>2. m \in Int /\ n \in Int
      BY <3>1
    <3>3. IsFiniteSet(m .. n)
      BY <3>2, FS_Interval
    <3> QED BY <3>1, <3>3
  <2> QED BY <1>1, <2>1
<1>4. AreOutcomes(S, parts)
  BY <1>1, <1>2, <1>3 DEF AreOutcomes
<1>5. IsOutcome(Together(parts))
  BY <1>4, TogetherCorrect
<1>6. PICK f : f = [x \in DOMAIN parts |-> parts[x].count]
  OBVIOUS
<1>7. Together(parts).count = Total(f)
  BY <1>6 DEF Together, Outcome
<1>8. /\ f \in [S -> Nat]
      /\ f[1] = a.count /\ f[2] = b.count /\ f[3] = c.count /\ f[4] = d.count /\ f[5] = e.count
  BY <1>1, <1>2, <1>6 DEF IsOutcome
<1>9. PICK g : AreSums(g, f, S) /\ Total(f) = g[S]
  BY <1>3, <1>8, SumIsPartial
<1>10. g[{}] = 0 /\ \A s \in SUBSET S : \A x \in s : g[s] = f[x] + g[s \ {x}]
  BY <1>9 DEF AreSums
<1>11. g[6 .. 5] = 0
  <2>1. 6 .. 5 = {}
    OBVIOUS
  <2> QED BY <1>10, <2>1
<1>12. g[5 .. 5] = f[5] + 0
  <2>1. (5 .. 5) \ {5} = 6 .. 5 /\ 5 .. 5 \in SUBSET S /\ 5 \in 5 .. 5
    BY <1>1
  <2>2. g[5 .. 5] = f[5] + g[(5 .. 5) \ {5}]
    BY <1>10, <2>1
  <2> QED BY <1>11, <2>1, <2>2
<1>13. g[4 .. 5] = f[4] + (f[5] + 0)
  <2>1. (4 .. 5) \ {4} = 5 .. 5 /\ 4 .. 5 \in SUBSET S /\ 4 \in 4 .. 5
    BY <1>1
  <2>2. g[4 .. 5] = f[4] + g[(4 .. 5) \ {4}]
    BY <1>10, <2>1
  <2> QED BY <1>12, <2>1, <2>2
<1>14. g[3 .. 5] = f[3] + (f[4] + (f[5] + 0))
  <2>1. (3 .. 5) \ {3} = 4 .. 5 /\ 3 .. 5 \in SUBSET S /\ 3 \in 3 .. 5
    BY <1>1
  <2>2. g[3 .. 5] = f[3] + g[(3 .. 5) \ {3}]
    BY <1>10, <2>1
  <2> QED BY <1>13, <2>1, <2>2
<1>15. g[2 .. 5] = f[2] + (f[3] + (f[4] + (f[5] + 0)))
  <2>1. (2 .. 5) \ {2} = 3 .. 5 /\ 2 .. 5 \in SUBSET S /\ 2 \in 2 .. 5
    BY <1>1
  <2>2. g[2 .. 5] = f[2] + g[(2 .. 5) \ {2}]
    BY <1>10, <2>1
  <2> QED BY <1>14, <2>1, <2>2
<1>16. g[1 .. 5] = f[1] + (f[2] + (f[3] + (f[4] + (f[5] + 0))))
  <2>1. (1 .. 5) \ {1} = 2 .. 5 /\ 1 .. 5 \in SUBSET S /\ 1 \in 1 .. 5
    BY <1>1
  <2>2. g[1 .. 5] = f[1] + g[(1 .. 5) \ {1}]
    BY <1>10, <2>1
  <2> QED BY <1>15, <2>1, <2>2
<1>17. Together(parts).count = a.count + b.count + c.count + d.count + e.count
  <2>1. /\ a.count \in Nat /\ b.count \in Nat /\ c.count \in Nat /\ d.count \in Nat
        /\ e.count \in Nat
    BY DEF IsOutcome
  <2> QED BY <1>1, <1>7, <1>8, <1>9, <1>16, <2>1
<1> QED BY <1>1, <1>5, <1>17

(* The parts of a draft, each made of one part of the input.               *)
LEMMA DraftParts ==
    ASSUME NEW S, NEW input, IsInput(input), NEW policy, policy.jsonPaths \in Seq(S)
    PROVE  LET draft == Draft(input, policy) IN
           /\ \A n \in DOMAIN draft.headers :
                 \/ draft.headers[n] = Reference(VariableFor[<<input.id.name, n>>])
                 \/ /\ ~HideHeader(n, policy)
                    /\ draft.headers[n] = Leaf(Captured(input.headers, n))
                    /\ Clean(Captured(input.headers, n))
           /\ DOMAIN draft.headers = {Lower[m] : m \in DOMAIN input.headers}
           /\ DOMAIN draft.query = DOMAIN input.query
           /\ DOMAIN draft.body \subseteq DOMAIN input.body
           /\ CleanDraft(draft, policy)
           /\ HonestDraft(input, draft)
<1>1. PICK draft : draft = Draft(input, policy)
  OBVIOUS
<1>2. PICK body : body = SanitizedBody(input.body, policy.jsonPaths)
  OBVIOUS
<1>3. PICK headers : headers = SanitizedHeaders(input.id.name, input.headers, policy)
  OBVIOUS
<1>4. PICK query : query = SanitizedQuery(input.query)
  OBVIOUS
<1>5. PICK texts : texts = Together([i \in DOMAIN input.texts |-> SanitizedText(input.texts[i])])
  OBVIOUS
<1>6. PICK tags : tags = Together([t \in input.tags |-> SanitizedText(t)])
  OBVIOUS
<1>7. PICK all : all = Together(<<body, headers, query, texts, tags>>)
  OBVIOUS
<1>8. /\ draft.headers = headers.value /\ draft.query = query.value /\ draft.body = body.value
      /\ draft.texts = texts.value /\ draft.tags = {tags.value[t] : t \in input.tags}
      /\ draft.rules = all.rules /\ draft.removed = all.count
  BY <1>1, <1>2, <1>3, <1>4, <1>5, <1>6, <1>7 DEF Draft
<1>9. IsBody(input.body) /\ AreHeaders(input.headers) /\ AreHeaders(input.query)
  <2>1. /\ IsFiniteSet(DOMAIN input.body) /\ IsFiniteSet(DOMAIN input.headers)
        /\ IsFiniteSet(DOMAIN input.query)
    BY DEF IsInput
  <2>2. IsBody(input.body)
    BY <2>1 DEF IsBody, IsInput
  <2>3. AreHeaders(input.headers) /\ AreHeaders(input.query)
    BY <2>1 DEF AreHeaders, IsInput
  <2> QED BY <2>2, <2>3
<1>10. /\ IsOutcome(body)
       /\ DOMAIN body.value \subseteq DOMAIN input.body
       /\ Cardinality(Differing(body.value, input.body)) <= body.count
       /\ \A p \in DOMAIN body.value :
             /\ ~SensitiveEntry(body.value, p)
             /\ body.value[p].kind = "text" => Clean(body.value[p].value)
       /\ \A e \in ToSet(policy.jsonPaths) :
             JsonPath[e] \in DOMAIN body.value => body.value[JsonPath[e]] = Redacted
  BY <1>2, <1>9, BodyCorrect
<1>11. /\ IsOutcome(headers)
       /\ DOMAIN headers.value = {Lower[m] : m \in DOMAIN input.headers}
       /\ \A n \in DOMAIN headers.value :
             \/ headers.value[n] = Reference(VariableFor[<<input.id.name, n>>])
             \/ /\ ~HideHeader(n, policy)
                /\ headers.value[n] = Leaf(Captured(input.headers, n))
                /\ Clean(Captured(input.headers, n))
       /\ Cardinality(Referring(headers.value)) <= headers.count
  BY <1>3, <1>9, HeadersCorrect
<1>12. /\ IsOutcome(query) /\ DOMAIN query.value = DOMAIN input.query
       /\ \A n \in DOMAIN input.query :
             IF n \in SensitiveNames THEN query.value[n] = <<"redacted">>
             ELSE Clean(query.value[n])
       /\ Cardinality({n \in DOMAIN input.query : query.value[n] # input.query[n]}) <= query.count
  BY <1>4, <1>9, QueryCorrect
<1>13. /\ IsOutcome(texts) /\ DOMAIN texts.value = DOMAIN input.texts
       /\ \A i \in DOMAIN input.texts : Clean(texts.value[i])
       /\ Cardinality({i \in DOMAIN input.texts : texts.value[i] # input.texts[i]}) <= texts.count
  <2>1. PICK N : N = DOMAIN input.texts
    OBVIOUS
  <2>2. IsFiniteSet(N)
    <3>1. Len(input.texts) \in Nat /\ N = 1 .. Len(input.texts)
      BY <2>1 DEF IsInput
    <3>2. IsFiniteSet(1 .. Len(input.texts))
      BY <3>1, FS_Interval
    <3> QED BY <3>1, <3>2
  <2>3. \A i \in N : input.texts[i] \in Seq(STRING)
    BY <2>1 DEF IsInput
  <2>4. texts = Together([i \in N |-> SanitizedText(input.texts[i])])
    BY <1>5, <2>1
  <2> QED BY <2>1, <2>2, <2>3, <2>4, TextsCorrect
<1>14. /\ IsOutcome(tags) /\ DOMAIN tags.value = input.tags
       /\ \A t \in input.tags : Clean(tags.value[t])
       /\ Cardinality({t \in input.tags : tags.value[t] # t}) <= tags.count
  <2>1. PICK N : N = input.tags
    OBVIOUS
  <2>2. PICK same : same = [t \in N |-> t]
    OBVIOUS
  <2>3. IsFiniteSet(N) /\ \A t \in N : same[t] = t /\ same[t] \in Seq(STRING)
    BY <2>1, <2>2 DEF IsInput
  <2>4. tags = Together([t \in N |-> SanitizedText(same[t])])
    <3>1. [t \in N |-> SanitizedText(t)] = [t \in N |-> SanitizedText(same[t])]
      BY <2>3
    <3> QED BY <1>6, <2>1, <3>1
  <2>5. /\ IsOutcome(tags) /\ DOMAIN tags.value = N
        /\ \A t \in N : Clean(tags.value[t])
        /\ Cardinality({t \in N : tags.value[t] # same[t]}) <= tags.count
    BY <2>3, <2>4, TextsCorrect
  <2>6. {t \in N : tags.value[t] # same[t]} = {t \in N : tags.value[t] # t}
    BY <2>3
  <2> QED BY <2>1, <2>5, <2>6
<1>15. /\ IsOutcome(all)
       /\ all.count = body.count + headers.count + query.count + texts.count + tags.count
  <2>1. /\ IsOutcome(body) /\ IsOutcome(headers) /\ IsOutcome(query)
        /\ IsOutcome(texts) /\ IsOutcome(tags)
    BY <1>10, <1>11, <1>12, <1>13, <1>14
  <2> QED BY <1>7, <2>1, FiveTogether
<1>16. CleanDraft(draft, policy)
  <2>1. ASSUME NEW n \in DOMAIN draft.headers, draft.headers[n].kind # "env"
        PROVE  /\ n \notin SensitiveNames \cup CaptureSensitive
               /\ \A h \in ToSet(policy.headers) : Lower[h] # n
               /\ Clean(draft.headers[n].value)
    <3>1. draft.headers[n] # Reference(VariableFor[<<input.id.name, n>>])
      BY <2>1 DEF Reference
    <3>2. /\ ~HideHeader(n, policy)
          /\ draft.headers[n] = Leaf(Captured(input.headers, n))
          /\ Clean(Captured(input.headers, n))
      BY <1>8, <1>11, <3>1
    <3>3. Clean(draft.headers[n].value)
      <4>1. draft.headers[n].value = Captured(input.headers, n)
        BY <3>2 DEF Leaf
      <4> QED BY <3>2, <4>1
    <3> QED BY <3>2, <3>3 DEF HideHeader
  <2>2. \A n \in DOMAIN draft.query :
           IF n \in SensitiveNames THEN draft.query[n] = <<"redacted">> ELSE Clean(draft.query[n])
    BY <1>8, <1>12
  <2>3. ASSUME NEW t \in ToSet(draft.texts) \cup draft.tags PROVE Clean(t)
    <3>1. CASE t \in ToSet(draft.texts)
      <4>1. PICK i \in DOMAIN texts.value : t = texts.value[i]
        BY <1>8, <3>1 DEF ToSet
      <4> QED BY <1>13, <4>1
    <3>2. CASE t \in draft.tags
      BY <1>8, <1>14, <3>2
    <3> QED BY <2>3, <3>1, <3>2
  <2>4. /\ \A p \in DOMAIN draft.body :
              /\ ~SensitiveEntry(draft.body, p)
              /\ draft.body[p].kind = "text" => Clean(draft.body[p].value)
        /\ \A e \in ToSet(policy.jsonPaths) :
              JsonPath[e] \in DOMAIN draft.body => draft.body[JsonPath[e]] = Redacted
    BY <1>8, <1>10
  <2> QED BY <2>1, <2>2, <2>3, <2>4 DEF CleanDraft
<1>17. HonestDraft(input, draft)
  <2>1. PICK b, h, q, x, g :
           /\ b = Cardinality(ChangedPaths(input, draft))
           /\ h = Cardinality({n \in DOMAIN draft.headers : draft.headers[n].kind = "env"})
           /\ q = Cardinality({n \in DOMAIN draft.query : draft.query[n] # input.query[n]})
           /\ x = Cardinality({i \in DOMAIN draft.texts : draft.texts[i] # input.texts[i]})
           /\ g = Cardinality(input.tags \ draft.tags)
    OBVIOUS
  <2>2. b <= body.count
    <3>1. ChangedPaths(input, draft) = Differing(body.value, input.body)
      BY <1>8 DEF ChangedPaths, Differing
    <3> QED BY <1>10, <2>1, <3>1
  <2>3. h <= headers.count
    BY <1>8, <1>11, <2>1 DEF Referring
  <2>4. q <= query.count
    BY <1>8, <1>12, <2>1
  <2>5. x <= texts.count
    BY <1>8, <1>13, <2>1
  <2>6. g <= tags.count
    <3>1. PICK T, U : T = {t \in input.tags : tags.value[t] # t} /\ U = input.tags \ draft.tags
      OBVIOUS
    <3>2. U \subseteq T /\ T \subseteq input.tags
      BY <1>8, <3>1
    <3>3. IsFiniteSet(T) /\ Cardinality(T) \in Nat
      BY <3>2, FS_Subset, FS_CardinalityType DEF IsInput
    <3>4. Cardinality(U) <= Cardinality(T) /\ Cardinality(U) \in Nat
      BY <3>2, <3>3, FS_Subset, FS_CardinalityType
    <3>5. tags.count \in Nat
      BY <1>14 DEF IsOutcome
    <3> QED BY <1>14, <2>1, <3>1, <3>3, <3>4, <3>5
  <2>7. /\ b \in Nat /\ h \in Nat /\ q \in Nat /\ x \in Nat /\ g \in Nat
    <3>1. IsFiniteSet(ChangedPaths(input, draft))
      <4>1. ChangedPaths(input, draft) \subseteq DOMAIN input.body
        BY <1>8, <1>10 DEF ChangedPaths
      <4> QED BY <1>9, <4>1, FS_Subset DEF IsBody
    <3>2. IsFiniteSet({n \in DOMAIN draft.headers : draft.headers[n].kind = "env"})
      <4>1. IsFiniteSet(DOMAIN draft.headers)
        <5>1. PICK L : L = {Lower[m] : m \in DOMAIN input.headers}
          OBVIOUS
        <5>2. PICK f : f = [m \in DOMAIN input.headers |-> Lower[m]]
          OBVIOUS
        <5>3. f \in Surjection(DOMAIN input.headers, L)
          BY <5>1, <5>2 DEF Surjection
        <5>4. IsFiniteSet(DOMAIN input.headers)
          BY <1>9 DEF AreHeaders
        <5>5. IsFiniteSet(L)
          BY <5>3, <5>4, FS_Surjection
        <5> QED BY <1>8, <1>11, <5>1, <5>5
      <4> QED BY <4>1, FS_Subset
    <3>3. IsFiniteSet({n \in DOMAIN draft.query : draft.query[n] # input.query[n]})
      BY <1>8, <1>9, <1>12, FS_Subset DEF AreHeaders
    <3>4. IsFiniteSet({i \in DOMAIN draft.texts : draft.texts[i] # input.texts[i]})
      <4>1. Len(input.texts) \in Nat /\ DOMAIN input.texts = 1 .. Len(input.texts)
        BY DEF IsInput
      <4>2. IsFiniteSet(1 .. Len(input.texts))
        BY <4>1, FS_Interval
      <4> QED BY <1>8, <1>13, <4>1, <4>2, FS_Subset
    <3>5. IsFiniteSet(input.tags \ draft.tags)
      BY FS_Subset DEF IsInput
    <3> QED BY <2>1, <3>1, <3>2, <3>3, <3>4, <3>5, FS_CardinalityType
  <2>8. /\ body.count \in Nat /\ headers.count \in Nat /\ query.count \in Nat
        /\ texts.count \in Nat /\ tags.count \in Nat
    BY <1>10, <1>11, <1>12, <1>13, <1>14 DEF IsOutcome
  <2>9. draft.removed >= b + h + q + x + g
    <3>1. draft.removed = body.count + headers.count + query.count + texts.count + tags.count
      BY <1>8, <1>15
    <3> QED BY <2>2, <2>3, <2>4, <2>5, <2>6, <2>7, <2>8, <3>1, FiveBounds, SMTT(30)
  <2>10. draft.rules = {} <=> draft.removed = 0
    BY <1>8, <1>15 DEF IsOutcome
  <2> QED BY <2>1, <2>9, <2>10 DEF HonestDraft
<1> QED BY <1>1, <1>8, <1>10, <1>11, <1>12, <1>16, <1>17

-----------------------------------------------------------------------------
(* The capture                                                             *)

(* The draft is the one made of the input, which had no fault, under the   *)
(* policy of the configuration that was loaded.                            *)
IsPrepared ==
    /\ step["capture"] = "loaded"
    /\ CaptureFault(request.input, CapturePolicy) = "none"
    /\ capture.draft = Draft(request.input, CapturePolicy)

(* What is saved under the name of the draft is the draft, for as long as  *)
(* it is there; and no error has the code of a success.                    *)
CaptureInv ==
    /\ DOMAIN configFault = Clients /\ configFault["capture"] # "CLI_CAPTURE_SAVED"
    /\ capture.draft = NoDraft \/ IsPrepared
    /\ capture.phase = "persisting" \/ Saved => IsPrepared
    /\ Saved /\ Exists(Destination) => Entry(Destination).scenario = Scenario(capture.draft)

LEMMA CaptureInitially == Init => CaptureInv
<1> SUFFICES ASSUME Init PROVE CaptureInv
  OBVIOUS
<1>1. configFault = [c \in Clients |-> "none"] /\ "capture" \in Clients
  BY WorkspaceAssumption DEF Init, ConfigInit
<1>2. capture.phase = "started" /\ capture.draft = NoDraft /\ capture.code = "none"
  BY DEF Init
<1> QED BY <1>1, <1>2 DEF CaptureInv, Saved

(* No complaint is taken for a success.                                    *)
LEMMA CodesOfFaults ==
    /\ \A file, env : ConfigFault(file, env) # "CLI_CAPTURE_SAVED"
    /\ \A input, policy : CaptureFault(input, policy) # "CLI_CAPTURE_SAVED"
<1>1. ASSUME NEW file, NEW env PROVE ConfigFault(file, env) # "CLI_CAPTURE_SAVED"
  BY DEF ConfigFault
<1>2. ASSUME NEW input, NEW policy PROVE CaptureFault(input, policy) # "CLI_CAPTURE_SAVED"
  BY DEF CaptureFault
<1> QED BY <1>1, <1>2

(* Once capture has its configuration, nothing takes the policy away.      *)
LEMMA ConfigurationStays ==
    ASSUME ConfigInv, [Next]_vars, step["capture"] = "loaded"
    PROVE  step'["capture"] = "loaded" /\ CapturePolicy' = CapturePolicy
<1>1. "capture" \in Clients /\ DOMAIN step = Clients /\ DOMAIN loaded = Clients
  BY WorkspaceAssumption DEF ConfigInv
<1>2. ASSUME NEW c \in Clients, LoadConfig(c)
      PROVE  step'["capture"] = "loaded" /\ loaded'["capture"] = loaded["capture"]
  <2>1. step[c] \in {"inspecting", "reading"}
    BY <1>2 DEF LoadConfig, InspectFile, InspectFails, Climb, ReadConfig
  <2>2. c # "capture"
    BY <2>1
  <2>3. \/ UNCHANGED <<step, loaded>>
        \/ \E s : step' = [step EXCEPT ![c] = s] /\ UNCHANGED loaded
        \/ \E s, l : step' = [step EXCEPT ![c] = s] /\ loaded' = [loaded EXCEPT ![c] = l]
    BY <1>2 DEF LoadConfig, InspectFile, InspectFails, Climb, ReadConfig, FailConfig
  <2> QED BY <1>1, <2>2, <2>3
<1>3. (\E c \in Clients : LoadConfig(c)) \/ UNCHANGED <<step, loaded>>
  <2>1. CASE CaptureLoads \/ VerifyLoads
    BY <2>1, WorkspaceAssumption DEF CaptureLoads, VerifyLoads
  <2>2. CASE ReadInput \/ Prepare \/ Persist \/ Search \/ PrepareRequest \/ UNCHANGED vars
    BY <2>2 DEF ReadInput, Prepare, Persist, Search, PrepareRequest, vars, configVars
  <2>3. CASE Disturb
    BY <2>3 DEF Disturb, RemoveConfig, configVars
  <2> QED BY <2>1, <2>2, <2>3 DEF Next, CaptureStep, VerifyStep
<1>4. step'["capture"] = "loaded" /\ loaded'["capture"] = loaded["capture"]
  BY <1>2, <1>3
<1> QED BY <1>4 DEF CapturePolicy

LEMMA PreparedStays ==
    ASSUME ConfigInv, [Next]_vars, IsPrepared, capture'.draft = capture.draft, UNCHANGED request
    PROVE  IsPrepared'
<1>1. step'["capture"] = "loaded" /\ CapturePolicy' = CapturePolicy
  BY ConfigurationStays DEF IsPrepared
<1> HIDE DEF CapturePolicy
<1> QED BY <1>1 DEF IsPrepared

(* The files of the directories do not change but by the creation of one.  *)
LEMMA FilesStay ==
    ASSUME DirInv, [Next]_vars, ~Persist
    PROVE  \A f : Exists(f)' => Exists(f) /\ Entry(f)' = Entry(f)
<1>1. CASE UNCHANGED dir
  BY <1>1 DEF Exists, Entry
<1>2. CASE \E d \in DOMAIN dir : \E n \in DOMAIN dir[d] : RemoveScenario(d, n)
  <2>1. PICK d \in DOMAIN dir : \E n \in DOMAIN dir[d] : RemoveScenario(d, n)
    BY <1>2
  <2>2. PICK n \in DOMAIN dir[d] : RemoveScenario(d, n)
    BY <2>1
  <2>3. /\ DOMAIN dir' = DOMAIN dir /\ DOMAIN dir'[d] = DOMAIN dir[d] \ {n}
        /\ \A m \in DOMAIN dir[d] \ {n} : dir'[d][m] = dir[d][m]
        /\ \A e \in DOMAIN dir \ {d} : dir'[e] = dir[e]
    BY <2>2 DEF RemoveScenario
  <2> QED BY <2>3 DEF Exists, Entry
<1>3. CASE ReadInput \/ CaptureLoads \/ Prepare \/ VerifyLoads \/ PrepareRequest \/ UNCHANGED vars
  BY <1>1, <1>3 DEF ReadInput, CaptureLoads, Prepare, VerifyLoads, PrepareRequest, vars
<1>4. CASE Search
  BY <1>1, <1>4 DEF Search, Discover, Yield, Examine, EndOfMatches, ReadScenario, Select
<1>5. CASE Disturb
  BY <1>1, <1>2, <1>5 DEF Disturb
<1> QED BY <1>3, <1>4, <1>5 DEF Next, CaptureStep, VerifyStep

LEMMA FaultsStay ==
    ASSUME CaptureInv, [Next]_vars
    PROVE  DOMAIN configFault' = Clients /\ configFault'["capture"] # "CLI_CAPTURE_SAVED"
<1>1. DOMAIN configFault = Clients /\ configFault["capture"] # "CLI_CAPTURE_SAVED"
      /\ "capture" \in Clients
  BY WorkspaceAssumption DEF CaptureInv
<1>2. CASE UNCHANGED configFault
  BY <1>1, <1>2
<1>3. ASSUME NEW c \in Clients, LoadConfig(c)
      PROVE  DOMAIN configFault' = Clients /\ configFault'["capture"] # "CLI_CAPTURE_SAVED"
  <2>1. ASSUME NEW code, FailConfig(c, code), code # "CLI_CAPTURE_SAVED"
        PROVE  DOMAIN configFault' = Clients /\ configFault'["capture"] # "CLI_CAPTURE_SAVED"
    BY <1>1, <2>1 DEF FailConfig
  <2>2. CASE InspectFile(c)
    BY <1>2, <2>2 DEF InspectFile
  <2>3. CASE InspectFails(c)
    BY <2>1, <2>3 DEF InspectFails
  <2>4. CASE Climb(c)
    BY <1>2, <2>1, <2>4 DEF Climb
  <2>5. CASE ReadConfig(c)
    BY <1>2, <2>1, <2>5, CodesOfFaults DEF ReadConfig
  <2> QED BY <1>3, <2>2, <2>3, <2>4, <2>5 DEF LoadConfig
<1>4. (\E c \in Clients : LoadConfig(c)) \/ UNCHANGED configFault
  <2>1. CASE CaptureLoads \/ VerifyLoads
    BY <2>1, WorkspaceAssumption DEF CaptureLoads, VerifyLoads
  <2>2. CASE ReadInput \/ Prepare \/ Persist \/ Search \/ PrepareRequest \/ UNCHANGED vars
    BY <2>2 DEF ReadInput, Prepare, Persist, Search, PrepareRequest, vars, configVars
  <2>3. CASE Disturb
    BY <2>3 DEF Disturb, RemoveConfig, configVars
  <2> QED BY <2>1, <2>2, <2>3 DEF Next, CaptureStep, VerifyStep
<1> QED BY <1>2, <1>3, <1>4

(* Steps that neither prepare nor save.                                    *)
LEMMA CaptureKept ==
    ASSUME ConfigInv, DirInv, CaptureInv, [Next]_vars, UNCHANGED request,
           ~Persist \/ UNCHANGED dir,
           capture'.draft = capture.draft, capture'.phase = "persisting" => capture.phase = "persisting",
           Saved' => Saved
    PROVE  CaptureInv'
<1>1. capture'.draft = NoDraft \/ IsPrepared'
  BY PreparedStays DEF CaptureInv
<1>2. capture'.phase = "persisting" \/ Saved' => IsPrepared'
  BY PreparedStays DEF CaptureInv
<1>3. \A f : Exists(f)' => Exists(f) /\ Entry(f)' = Entry(f)
  <2>1. CASE UNCHANGED dir
    BY <2>1 DEF Exists, Entry
  <2> QED BY <2>1, FilesStay
<1>4. ASSUME Saved', Exists(Destination)'
      PROVE  Entry(Destination)'.scenario = Scenario(capture.draft)'
  <2>1. Destination' = Destination
    BY DEF Destination
  <2>2. PICK f : f = Destination
    OBVIOUS
  <2>3. Exists(f)' /\ (Exists(f) => Entry(f).scenario = Scenario(capture.draft))
    <3>1. Exists(f)'
      BY <1>4, <2>1, <2>2 DEF Exists
    <3>2. Exists(f) => Entry(f).scenario = Scenario(capture.draft)
      BY <1>4, <2>2 DEF CaptureInv
    <3> QED BY <3>1, <3>2
  <2>4. Entry(f)'.scenario = Scenario(capture.draft)
    BY <1>3, <2>3
  <2>5. Scenario(capture.draft)' = Scenario(capture.draft)
    BY DEF Scenario
  <2> QED BY <2>1, <2>2, <2>4, <2>5 DEF Entry
<1> QED BY <1>1, <1>2, <1>4, FaultsStay DEF CaptureInv

LEMMA CaptureInductive ==
    ASSUME ConfigInv, DirInv, CaptureInv, [Next]_vars
    PROVE  CaptureInv'
<1>1. DOMAIN capture = {"phase", "draft", "code"}
  BY DEF DirInv
<1>2. ASSUME NEW code, Finish(code), code # "CLI_CAPTURE_SAVED"
      PROVE  /\ capture'.draft = capture.draft /\ capture'.phase = "ended" /\ ~Saved'
  BY <1>1, <1>2 DEF Finish, Saved
<1>3. CASE ReadInput
  <2>1. UNCHANGED <<dir, request>>
    BY <1>3 DEF ReadInput
  <2>2. CASE \E code : Finish(code) /\ code # "CLI_CAPTURE_SAVED"
    BY <1>2, <2>1, <2>2, CaptureKept
  <2>3. CASE capture' = [capture EXCEPT !.phase = "loading"]
    <3>1. capture'.draft = capture.draft /\ capture'.phase = "loading"
          /\ capture'.code = capture.code
      BY <1>1, <2>3
    <3> QED BY <2>1, <3>1, CaptureKept DEF Saved
  <2> QED BY <1>3, <2>2, <2>3 DEF ReadInput
<1>4. CASE Prepare
  <2>1. UNCHANGED <<configVars, dir, request>>
    BY <1>4 DEF Prepare
  <2>2. CASE \E code : Finish(code) /\ code # "CLI_CAPTURE_SAVED"
    BY <1>2, <2>1, <2>2, CaptureKept
  <2>3. CASE ~\E code : Finish(code) /\ code # "CLI_CAPTURE_SAVED"
    <3> DEFINE draft == Draft(request.input, CapturePolicy)
               made == [phase |-> IF request.confirmed THEN "persisting" ELSE "ended",
                        draft |-> draft,
                        code |-> IF request.confirmed THEN "none"
                                 ELSE "CLI_CAPTURE_CONFIRMATION_REQUIRED"]
    <3>1. /\ step["capture"] = "loaded"
          /\ CaptureFault(request.input, CapturePolicy) = "none"
          /\ capture' = made
      <4>1. configFault["capture"] # "CLI_CAPTURE_SAVED"
        BY DEF CaptureInv
      <4> HIDE DEF draft
      <4> QED BY <1>4, <2>3, <4>1, CodesOfFaults DEF Prepare, draft
    <3> HIDE DEF draft
    <3>2. capture'.draft = draft /\ ~Saved'
      BY <3>1 DEF Saved
    <3>3. step' = step /\ CapturePolicy' = CapturePolicy
      BY <2>1 DEF configVars, CapturePolicy
    <3> HIDE DEF CapturePolicy
    <3>4. IsPrepared'
      BY <2>1, <3>1, <3>2, <3>3 DEF IsPrepared, draft
    <3> QED BY <3>2, <3>4, FaultsStay DEF CaptureInv
  <2> QED BY <2>2, <2>3
<1>5. CASE Persist
  <2>1. UNCHANGED <<configVars, request>> /\ capture.phase = "persisting"
    BY <1>5 DEF Persist
  <2>2. CASE (\E code : Finish(code) /\ code # "CLI_CAPTURE_SAVED") /\ UNCHANGED dir
    BY <1>2, <2>1, <2>2, CaptureKept
  <2>3. CASE /\ ~Exists(Destination)
             /\ dir' = [dir EXCEPT ![1] = Over(@, [n \in {Destination[2]} |->
                    [kind |-> "file", to |-> NoFile, scenario |-> Scenario(capture.draft)]])]
             /\ Finish("CLI_CAPTURE_SAVED")
    <3>1. PICK m, file : /\ m = FileOf[capture.draft.id.name]
                         /\ file = [kind |-> "file", to |-> NoFile,
                                    scenario |-> Scenario(capture.draft)]
      OBVIOUS
    <3>2. capture'.draft = capture.draft
      BY <1>1, <2>3 DEF Finish
    <3>3. IsPrepared'
      BY <2>1, <3>2, PreparedStays DEF CaptureInv
    <3>4. Destination = <<1, m>> /\ Destination' = <<1, m>>
      BY <3>1, <3>2 DEF Destination
    <3>5. 1 \in DOMAIN dir
      BY WorkspaceAssumption DEF DirInv
    <3>6. m \notin DOMAIN dir[1]
      BY <2>3, <3>4, <3>5 DEF Exists
    <3>7. dir'[1] = Over(dir[1], [n \in {m} |-> file])
      BY <2>3, <3>1, <3>4, <3>5
    <3>8. dir'[1][m] = file
      BY <3>6, <3>7 DEF Over
    <3>9. Entry(Destination)' = file
      BY <3>4, <3>8 DEF Entry
    <3>10. file.scenario = Scenario(capture.draft)'
      <4>1. Scenario(capture.draft)' = Scenario(capture.draft)
        BY <3>2 DEF Scenario
      <4> QED BY <3>1, <4>1
    <3> QED BY <3>3, <3>9, <3>10, FaultsStay DEF CaptureInv
  <2> QED BY <1>5, <2>2, <2>3 DEF Persist
<1>6. CASE CaptureLoads \/ VerifyStep \/ Disturb \/ UNCHANGED vars
  <2>1. UNCHANGED captureVars
    BY <1>6 DEF CaptureLoads, VerifyStep, VerifyLoads, Search, PrepareRequest, Disturb, vars
  <2>2. UNCHANGED <<request, capture>>
    BY <2>1 DEF captureVars
  <2>3. ~Persist \/ UNCHANGED dir
    <3>1. Persist => capture.phase = "persisting" /\ capture'.phase = "ended"
      BY <1>1, CapturePhases
    <3> QED BY <2>2, <3>1
  <2> QED BY <2>2, <2>3, CaptureKept DEF Saved
<1> QED BY <1>3, <1>4, <1>5, <1>6 DEF Next, CaptureStep

LEMMA PolicyIsTyped ==
    ASSUME ConfigInv, step["capture"] = "loaded"
    PROVE  CapturePolicy.jsonPaths \in Seq(STRING)
<1> DEFINE p == <<"redaction", "jsonPaths">>
           file == configs[at["capture"]].file
           merged == Merge(Defaults, file.doc)
<1>1. "capture" \in Clients /\ at["capture"] \in 1 .. Depth /\ IsLoaded("capture") /\ FromWorld
  BY WorkspaceAssumption DEF ConfigInv
<1>2. IsTree(file.doc)
  BY <1>1, WorldFacts
<1>3. /\ ConfigFault(file, environment) = "none"
      /\ loaded["capture"].config = Resolved(merged, environment)
  BY <1>1 DEF IsLoaded, LoadedConfig
<1>4. /\ DOMAIN merged = DOMAIN file.doc \cup DOMAIN Defaults
      /\ \A q \in DOMAIN merged :
            merged[q] = IF q \in DOMAIN file.doc THEN file.doc[q] ELSE Defaults[q]
  BY <1>2, <1>3, MergeCorrect
<1>5. p \in DOMAIN Defaults /\ Defaults[p].value = <<>>
  <2>1. p \in EmptyLists /\ Len(p) = 2
    BY DEF EmptyLists
  <2>2. p \in DOMAIN Defaults
    BY <2>1, DefaultsShape
  <2>3. \A q \in DefaultMaps : Len(q) # 2
    BY DEF DefaultMaps
  <2>4. p \notin DefaultMaps
    BY <2>1, <2>3
  <2> HIDE DEF p
  <2>5. Defaults[p] = List(<<>>)
    BY <2>1, <2>2, <2>4 DEF Defaults
  <2> QED BY <2>2, <2>5 DEF List
<1> HIDE DEF merged, file
<1>6. p \in DOMAIN merged /\ merged[p].value \in Seq(STRING)
  <2>1. CASE p \in DOMAIN file.doc
    <3>1. file.doc[p].value \in Seq(STRING)
      BY <1>2, <2>1, TreeLabels
    <3> QED BY <1>4, <2>1, <3>1
  <2>2. CASE p \notin DOMAIN file.doc
    <3>1. p \in DOMAIN merged /\ merged[p] = Defaults[p]
      BY <1>4, <1>5, <2>2
    <3>2. <<>> \in Seq(STRING)
      OBVIOUS
    <3> HIDE DEF p
    <3> QED BY <1>5, <3>1, <3>2
  <2>3. p \in DOMAIN merged
    BY <1>4, <1>5
  <2> HIDE DEF p
  <2> QED BY <2>1, <2>2, <2>3
<1>7. Resolved(merged, environment)[p] = merged[p]
  BY <1>6, PolicyStays
<1> QED BY <1>3, <1>6, <1>7 DEF CapturePolicy

LEMMA InputIsTyped ==
    ASSUME ConfigInv
    PROVE  IsInput(request.input)
BY WorkspaceAssumption DEF ConfigInv, FromWorld, IsWorld

LEMMA CaptureInvariant == Spec => [](DiscoveryInv /\ CaptureInv)
<1>1. DiscoveryInv /\ CaptureInv /\ [Next]_vars => CaptureInv'
  BY CaptureInductive DEF DiscoveryInv
<1> QED BY <1>1, DiscoveryInitially, DiscoveryInductive, CaptureInitially, PTL DEF Spec

(* Whatever request is captured under whatever policy: a scenario that is  *)
(* shown or saved holds no value of a sensitive name, nothing below a      *)
(* configured path and nothing a pattern matches.                          *)
THEOREM CleanCorrect == Spec => []SavedScenarioIsClean
<1>1. ASSUME DiscoveryInv, CaptureInv PROVE SavedScenarioIsClean
  <2>1. ASSUME capture.draft # NoDraft PROVE CleanDraft(capture.draft, CapturePolicy)
    <3>1. IsPrepared /\ ConfigInv
      BY <1>1, <2>1 DEF CaptureInv, DiscoveryInv
    <3>2. CapturePolicy.jsonPaths \in Seq(STRING) /\ IsInput(request.input)
      BY <3>1, PolicyIsTyped, InputIsTyped DEF IsPrepared
    <3>3. CleanDraft(Draft(request.input, CapturePolicy), CapturePolicy)
      <4> HIDE DEF CapturePolicy
      <4> QED BY <3>2, DraftParts
    <3> QED BY <3>1, <3>3 DEF IsPrepared
  <2> QED BY <2>1 DEF SavedScenarioIsClean
<1> QED BY <1>1, CaptureInvariant, PTL

(* The provenance of such a scenario names a rule if and only if something *)
(* was removed, and counts at least the places at which it differs from    *)
(* what was captured.                                                      *)
THEOREM RecordCorrect == Spec => []RedactionIsRecorded
<1>1. ASSUME DiscoveryInv, CaptureInv PROVE RedactionIsRecorded
  <2>1. ASSUME capture.draft # NoDraft PROVE HonestDraft(request.input, capture.draft)
    <3>1. IsPrepared /\ ConfigInv
      BY <1>1, <2>1 DEF CaptureInv, DiscoveryInv
    <3>2. CapturePolicy.jsonPaths \in Seq(STRING) /\ IsInput(request.input)
      BY <3>1, PolicyIsTyped, InputIsTyped DEF IsPrepared
    <3>3. HonestDraft(request.input, Draft(request.input, CapturePolicy))
      <4> HIDE DEF CapturePolicy
      <4> QED BY <3>2, DraftParts
    <3> QED BY <3>1, <3>3 DEF IsPrepared
  <2> QED BY <2>1 DEF RedactionIsRecorded
<1> QED BY <1>1, CaptureInvariant, PTL

-----------------------------------------------------------------------------
(* What is replayed                                                        *)

(* A request was refused for a reason or has all headers of its scenario.  *)
IsMadeOf(made, scenario) ==
    /\ made.fault \in {"none", "not reached"} \cup RequestFaults(scenario.headers, environment)
    /\ LET headers == RequestHeaders(scenario, environment) IN
       \A t \in DOMAIN made.sent : \A n \in DOMAIN headers : made.sent[t][n] = headers[n]

RequestsInv ==
    /\ \E S : requests \in Seq(S)
    /\ requests = <<>> \/ search.phase = "selected"
    /\ \A i \in 1 .. Len(requests) : IsMadeOf(requests[i], search.scenarios[i])

(* Once scenarios are selected they stay, and so does the environment.     *)
LEMMA SelectionStays ==
    ASSUME ConfigInv, SearchInv, [Next]_vars
    PROVE  /\ UNCHANGED environment
           /\ search.phase = "selected" => /\ search'.phase = "selected"
                                           /\ search'.scenarios = search.scenarios
<1>1. DOMAIN search = DOMAIN NoSearch
  BY DEF SearchInv
<1>2. \A c \in Clients : LoadConfig(c) => UNCHANGED environment
  BY DEF LoadConfig, InspectFile, InspectFails, Climb, ReadConfig, unchangedFiles
<1>3. CASE CaptureLoads \/ VerifyLoads
  BY <1>2, <1>3, WorkspaceAssumption DEF CaptureLoads, VerifyLoads
<1>4. CASE ReadInput \/ Prepare \/ Persist \/ PrepareRequest \/ UNCHANGED vars
  BY <1>4 DEF ReadInput, Prepare, Persist, PrepareRequest, vars, configVars
<1>5. CASE Search
  <2>1. UNCHANGED environment
    BY <1>5 DEF Search, configVars
  <2>2. search.phase # "selected"
    BY <1>5 DEF Search, Discover, Yield, Examine, EndOfMatches, ReadScenario, Select
  <2> QED BY <2>1, <2>2
<1>6. CASE Disturb
  <2>1. UNCHANGED environment
    BY <1>6 DEF Disturb, RemoveConfig, configVars
  <2>2. CASE UNCHANGED search
    BY <2>1, <2>2
  <2>3. CASE \E d \in DOMAIN dir : \E n \in DOMAIN dir[d] : RemoveScenario(d, n)
    <3>1. \E gone : search' = [search EXCEPT !.present = @ \ gone]
      BY <2>3 DEF RemoveScenario
    <3>2. search'.phase = search.phase /\ search'.scenarios = search.scenarios
      BY <1>1, <3>1 DEF NoSearch
    <3> QED BY <2>1, <3>2
  <2> QED BY <1>6, <2>2, <2>3 DEF Disturb
<1> QED BY <1>3, <1>4, <1>5, <1>6 DEF Next, CaptureStep, VerifyStep

(* A target's own headers do not displace those of the scenario.           *)
LEMMA PreparedKeepsHeaders ==
    ASSUME NEW scenario
    PROVE  IsMadeOf(Prepared(scenario), scenario)
<1>1. PICK headers : headers = RequestHeaders(scenario, environment)
  OBVIOUS
<1>2. PICK valid : valid = {t \in Sides : ValidTarget(TargetUrl(t), TargetHeaders(t), headers)}
  OBVIOUS
<1> DEFINE sent == [t \in valid |-> RequestOverTarget(TargetHeaders(t), headers)]
<1>3. Prepared(scenario) = [fault |-> "none", sent |-> sent]
  BY <1>1, <1>2 DEF Prepared
<1>4. ASSUME NEW t \in valid, NEW n \in DOMAIN headers
      PROVE  sent[t][n] = headers[n]
  BY DEF RequestOverTarget, Over
<1> HIDE DEF sent
<1>5. DOMAIN sent = valid
  BY DEF sent
<1>6. Prepared(scenario).fault = "none" /\ Prepared(scenario).sent = sent
  BY <1>3
<1> QED BY <1>1, <1>4, <1>5, <1>6 DEF IsMadeOf

LEMMA EmptyDomain == DOMAIN <<>> = {}
<1>1. 1 .. 0 = {}
  OBVIOUS
<1>2. <<>> \in Seq({}) /\ Len(<<>>) = 0
  BY EmptySeq
<1>3. DOMAIN <<>> = 1 .. Len(<<>>)
  BY <1>2, LenProperties
<1> QED BY <1>1, <1>2, <1>3, Zenon

LEMMA UnsentIsMade ==
    ASSUME NEW scenario, NEW fault,
           fault = "not reached" \/ fault \in RequestFaults(scenario.headers, environment)
    PROVE  IsMadeOf(Unsent(fault), scenario)
<1>1. Unsent(fault).fault = fault /\ Unsent(fault).sent = <<>>
  BY DEF Unsent
<1> QED BY <1>1, EmptyDomain DEF IsMadeOf

LEMMA RequestsInductive ==
    ASSUME ConfigInv, SearchInv, RequestsInv, [Next]_vars
    PROVE  RequestsInv'
<1>1. PICK S : requests \in Seq(S)
  BY DEF RequestsInv
<1>2. /\ UNCHANGED environment
      /\ search.phase = "selected" => /\ search'.phase = "selected"
                                      /\ search'.scenarios = search.scenarios
  BY SelectionStays
<1>3. CASE UNCHANGED requests
  <2>1. ASSUME NEW i \in 1 .. Len(requests) PROVE IsMadeOf(requests[i], search.scenarios[i])'
    <3>1. requests # <<>> /\ IsMadeOf(requests[i], search.scenarios[i])
      BY <1>1 DEF RequestsInv
    <3>2. requests'[i] = requests[i] /\ search'.scenarios[i] = search.scenarios[i]
      BY <1>2, <1>3, <3>1 DEF RequestsInv
    <3> QED BY <1>2, <3>1, <3>2, ZenonT(60) DEF IsMadeOf
  <2> QED BY <1>2, <1>3, <2>1 DEF RequestsInv
<1>4. CASE PrepareRequest
  <2>1. PICK scenario : scenario = search.scenarios[Len(requests) + 1]
    OBVIOUS
  <2>2. search.phase = "selected"
    BY <1>4 DEF PrepareRequest
  <2>3. PICK made : requests' = Append(requests, made) /\ IsMadeOf(made, scenario)
    <3>1. CASE requests' = Append(requests, Unsent("not reached"))
      BY <3>1, UnsentIsMade
    <3>2. CASE \E fault \in RequestFaults(scenario.headers, environment) :
                  requests' = Append(requests, Unsent(fault))
      BY <3>2, UnsentIsMade
    <3>3. CASE requests' = Append(requests, Prepared(scenario))
      BY <3>3, PreparedKeepsHeaders
    <3> QED BY <1>4, <2>1, <3>1, <3>2, <3>3 DEF PrepareRequest
  <2>4. /\ requests' \in Seq(S \cup {made}) /\ Len(requests') = Len(requests) + 1
        /\ Len(requests) \in Nat /\ requests'[Len(requests) + 1] = made
        /\ \A i \in 1 .. Len(requests) : requests'[i] = requests[i]
    <3>1. requests \in Seq(S \cup {made}) /\ made \in S \cup {made}
      BY <1>1
    <3> QED BY <2>3, <3>1
  <2>5. ASSUME NEW i \in 1 .. Len(requests)' PROVE IsMadeOf(requests[i], search.scenarios[i])'
    <3>1. CASE i \in 1 .. Len(requests)
      <4>1. IsMadeOf(requests[i], search.scenarios[i])
        BY <3>1 DEF RequestsInv
      <4>2. requests'[i] = requests[i] /\ search'.scenarios[i] = search.scenarios[i]
        BY <1>2, <2>2, <2>4, <3>1
      <4> QED BY <1>2, <4>1, <4>2, ZenonT(60) DEF IsMadeOf
    <3>2. CASE i = Len(requests) + 1
      <4>1. requests'[i] = made /\ search'.scenarios[i] = scenario
        BY <1>2, <2>1, <2>2, <2>4, <3>2
      <4>2. IsMadeOf(made, scenario)
        BY <2>3
      <4> QED BY <1>2, <4>1, <4>2 DEF IsMadeOf
    <3> QED BY <2>4, <3>1, <3>2
  <2> QED BY <1>2, <2>2, <2>4, <2>5 DEF RequestsInv
<1>5. PrepareRequest \/ UNCHANGED requests
  BY DEF Next, CaptureStep, ReadInput, CaptureLoads, Prepare, Persist, VerifyStep, VerifyLoads,
         Search, Disturb, vars
<1> QED BY <1>3, <1>4, <1>5

LEMMA NamesInLowerCase ==
    ASSUME NEW input, IsInput(input)
    PROVE  \A n \in {Lower[m] : m \in DOMAIN input.headers} : Lower[n] = n
BY HeaderNamesAssumption DEF IsInput

(* What is asked of a draft that capture goes on with.                     *)
IsAccepted(draft, input) ==
    /\ IsInput(input)
    /\ \E policy : /\ \E S : policy.jsonPaths \in Seq(S)
                   /\ CaptureFault(input, policy) = "none"
                   /\ draft = Draft(input, policy)

AcceptedFacts(draft, input) ==
    /\ ValidInput(input)
    /\ DOMAIN draft.headers = {Lower[m] : m \in DOMAIN input.headers}
    /\ DOMAIN draft.query = DOMAIN input.query
    /\ DOMAIN draft.body \subseteq DOMAIN input.body
    /\ \A n \in DOMAIN draft.headers : /\ Lower[n] = n
                                       /\ n \in CaptureSensitive => draft.headers[n].kind = "env"

LEMMA DraftsAreAccepted ==
    ASSUME NEW draft, NEW input, IsAccepted(draft, input)
    PROVE  AcceptedFacts(draft, input)
<1>1. PICK policy : /\ \E S : policy.jsonPaths \in Seq(S)
                    /\ CaptureFault(input, policy) = "none"
                    /\ draft = Draft(input, policy)
  BY DEF IsAccepted
<1>2. PICK S : policy.jsonPaths \in Seq(S)
  BY <1>1
<1>3. IsInput(input)
  BY DEF IsAccepted
<1>4. ValidInput(input)
  <2>1. CASE ~ValidInput(input)
    <3>1. CaptureFault(input, policy) = "CAPTURE_INPUT_INVALID"
      BY <2>1 DEF CaptureFault
    <3> QED BY <1>1, <3>1
  <2> QED BY <2>1
<1>5. /\ \A n \in DOMAIN draft.headers :
            \/ draft.headers[n] = Reference(VariableFor[<<input.id.name, n>>])
            \/ ~HideHeader(n, policy)
      /\ DOMAIN draft.headers = {Lower[m] : m \in DOMAIN input.headers}
      /\ DOMAIN draft.query = DOMAIN input.query
      /\ DOMAIN draft.body \subseteq DOMAIN input.body
  BY <1>1, <1>2, <1>3, DraftParts
<1>6. ASSUME NEW n \in DOMAIN draft.headers
      PROVE  Lower[n] = n /\ (n \in CaptureSensitive => draft.headers[n].kind = "env")
  <2>1. Lower[n] = n
    BY <1>3, <1>5, NamesInLowerCase
  <2>2. n \in CaptureSensitive => HideHeader(n, policy)
    BY DEF HideHeader
  <2>3. \A variable : Reference(variable).kind = "env"
    BY DEF Reference
  <2> QED BY <1>5, <2>1, <2>2, <2>3
<1> QED BY <1>4, <1>5, <1>6 DEF AcceptedFacts

(* Of the keys of the draft only those are new that are in lower case.     *)
LEMMA UnsafeKeysOfDraft ==
    ASSUME NEW draft, NEW input, AcceptedFacts(draft, input)
    PROVE  KeysOf(draft) \cap ScenarioUnsafeKeys # {} <=> UnsafeInLowerCase(input)
<1>1. ScenarioUnsafeKeys = CaptureUnsafeKeys
  BY DEF ScenarioUnsafeKeys, CaptureUnsafeKeys
<1> DEFINE segments(r) == UNION {ToSet(p) : p \in DOMAIN r.body}
           names(r) == {s[2] : s \in {t \in segments(r) : t[1] = "key"}}
<1>2. \A r : KeysOf(r) = DOMAIN r.headers \cup DOMAIN r.query \cup names(r)
  BY DEF KeysOf
<1>3. DOMAIN draft.body \subseteq DOMAIN input.body
  BY DEF AcceptedFacts
<1>4. segments(draft) \subseteq segments(input)
  BY <1>3
<1> HIDE DEF segments
<1>5. names(draft) \subseteq names(input)
  BY <1>4
<1> HIDE DEF names
<1>6. (DOMAIN input.query \cup names(input)) \cap CaptureUnsafeKeys = {}
  <2>1. KeysOf(input) \cap CaptureUnsafeKeys = {}
    BY DEF AcceptedFacts, ValidInput
  <2> QED BY <1>2, <2>1
<1>7. KeysOf(draft) \cap CaptureUnsafeKeys
         = {Lower[m] : m \in DOMAIN input.headers} \cap CaptureUnsafeKeys
  BY <1>2, <1>5, <1>6 DEF AcceptedFacts
<1> QED BY <1>1, <1>7 DEF UnsafeInLowerCase

(* The loader has its own list of sensitive headers.                       *)
LEMMA ScenarioIsAccepted ==
    ASSUME NEW draft, NEW input, AcceptedFacts(draft, input)
    PROVE  ScenarioFault(Scenario(draft))
              = IF UnsafeInLowerCase(input) THEN "SCENARIO_UNSAFE_KEY" ELSE "none"
<1>1. PICK s : s = Scenario(draft)
  OBVIOUS
<1>2. /\ s.parses /\ s.mapping /\ s.valid
      /\ s.unsafe = (KeysOf(draft) \cap ScenarioUnsafeKeys # {})
      /\ s.headers = draft.headers /\ s.variables = <<>>
  BY <1>1 DEF Scenario
<1>3. SensitiveHeaders \subseteq CaptureSensitive
  BY DEF SensitiveHeaders, CaptureSensitive
<1>4. ~InlineSecret(s)
  <2>1. ASSUME NEW h \in DOMAIN s.headers, Lower[h] \in SensitiveHeaders
        PROVE  s.headers[h].kind # "text"
    BY <1>2, <1>3, <2>1 DEF AcceptedFacts
  <2>2. DOMAIN s.variables = {}
    BY <1>2, EmptyDomain
  <2> QED BY <2>1, <2>2 DEF InlineSecret
<1>5. s.unsafe <=> UnsafeInLowerCase(input)
  BY <1>2, UnsafeKeysOfDraft
<1>6. ScenarioFault(s) = IF s.unsafe THEN "SCENARIO_UNSAFE_KEY" ELSE "none"
  BY <1>2, <1>4 DEF ScenarioFault
<1> QED BY <1>1, <1>5, <1>6

(* If the environment has back what was taken out.                         *)
HasBack(draft, input) ==
    \A n \in DOMAIN input.headers :
        LET header == draft.headers[Lower[n]] IN
        ~Missing(header, environment) /\ Value(header, environment) = input.headers[n]

LEMMA RequestHasHeaders ==
    ASSUME NEW draft, NEW input, AcceptedFacts(draft, input), HasBack(draft, input)
    PROVE  /\ RequestFaults(draft.headers, environment) = {}
           /\ LET headers == RequestHeaders(Scenario(draft), environment) IN
              \A n \in DOMAIN input.headers :
                 Lower[n] \in DOMAIN headers /\ headers[Lower[n]] = input.headers[n]
<1>1. PICK L : L = {Lower[m] : m \in DOMAIN input.headers}
  OBVIOUS
<1>2. DOMAIN draft.headers = L /\ \A n \in L : Lower[n] = n
  BY <1>1 DEF AcceptedFacts
<1>3. ASSUME NEW n \in DOMAIN input.headers
      PROVE  /\ Lower[n] \in L
             /\ ~Missing(draft.headers[Lower[n]], environment)
             /\ Value(draft.headers[Lower[n]], environment) = input.headers[n]
  BY <1>1 DEF HasBack
<1>4. ASSUME NEW n \in L
      PROVE  /\ ~Missing(draft.headers[n], environment)
             /\ ValidHeader(n, Value(draft.headers[n], environment))
  <2>1. PICK m \in DOMAIN input.headers : n = Lower[m]
    BY <1>1
  <2>2. ValidHeader(m, input.headers[m])
    BY DEF AcceptedFacts, ValidInput
  <2> QED BY <1>2, <1>3, <2>1, <2>2 DEF ValidHeader
<1>5. RequestFaults(draft.headers, environment) = {}
  BY <1>2, <1>4 DEF RequestFaults
<1>6. PICK resolved : resolved = [n \in L |-> Value(draft.headers[n], environment)]
  OBVIOUS
<1>7. ASSUME NEW n \in L PROVE n \in DOMAIN Lowered(resolved) /\ Lowered(resolved)[n] = resolved[n]
  <2>1. PICK m : m = CHOOSE some \in L : Lower[some] = n
    OBVIOUS
  <2>2. m = n
    BY <1>2, <2>1
  <2>3. DOMAIN resolved = L /\ n \in {Lower[k] : k \in L}
    BY <1>2, <1>6
  <2> QED BY <2>1, <2>2, <2>3 DEF Lowered
<1>8. ASSUME NEW n \in L
      PROVE  /\ n \in DOMAIN RequestHeaders(Scenario(draft), environment)
             /\ RequestHeaders(Scenario(draft), environment)[n] = resolved[n]
  <2>1. Scenario(draft).headers = draft.headers
    BY DEF Scenario
  <2>2. PICK implied : RequestHeaders(Scenario(draft), environment)
                          = Over(Lowered(resolved), implied)
    BY <1>2, <1>6, <2>1 DEF RequestHeaders
  <2> QED BY <1>7, <2>2 DEF Over
<1>9. ASSUME NEW n \in DOMAIN input.headers
      PROVE  /\ Lower[n] \in DOMAIN RequestHeaders(Scenario(draft), environment)
             /\ RequestHeaders(Scenario(draft), environment)[Lower[n]] = input.headers[n]
  BY <1>3, <1>6, <1>8
<1> QED BY <1>5, <1>9

LEMMA RequestsInvariant == Spec => [](DiscoveryInv /\ CaptureInv /\ RequestsInv)
<1>1. Init => RequestsInv
  <2> SUFFICES ASSUME Init PROVE RequestsInv
    OBVIOUS
  <2>1. requests = <<>>
    BY DEF Init
  <2>2. requests \in Seq({}) /\ 1 .. Len(requests) = {}
    BY <2>1, EmptySeq
  <2> QED BY <2>1, <2>2 DEF RequestsInv
<1>2. DiscoveryInv /\ RequestsInv /\ [Next]_vars => RequestsInv'
  BY RequestsInductive DEF DiscoveryInv
<1> QED BY <1>1, <1>2, CaptureInvariant, PTL DEF Spec

(* A scenario that capture has written, as long as it is there, is refused *)
(* by the loader of verify only for a header whose name in lower case is   *)
(* an unsafe key; and whatever the targets are configured with, the        *)
(* request made of it has the headers captured, once the environment has   *)
(* what was taken out.                                                     *)
THEOREM ReplayCorrect == Spec => []CapturedScenarioReplays
<1>1. ASSUME DiscoveryInv, CaptureInv, RequestsInv, Saved
      PROVE  AcceptedFacts(capture.draft, request.input)
  <2>1. IsPrepared /\ ConfigInv
    BY <1>1 DEF CaptureInv, DiscoveryInv
  <2>2. CapturePolicy.jsonPaths \in Seq(STRING) /\ IsInput(request.input)
    BY <2>1, PolicyIsTyped, InputIsTyped DEF IsPrepared
  <2>3. IsAccepted(capture.draft, request.input)
    <3> HIDE DEF CapturePolicy
    <3> QED BY <2>1, <2>2 DEF IsAccepted, IsPrepared
  <2> QED BY <2>3, DraftsAreAccepted
<1>2. ASSUME CaptureInv, AcceptedFacts(capture.draft, request.input), Saved, Exists(Destination)
      PROVE  ScenarioFault(Entry(Destination).scenario)
                = IF UnsafeInLowerCase(request.input) THEN "SCENARIO_UNSAFE_KEY" ELSE "none"
  <2>1. Entry(Destination).scenario = Scenario(capture.draft)
    BY <1>2 DEF CaptureInv
  <2> QED BY <1>2, <2>1, ScenarioIsAccepted
<1>3. ASSUME RequestsInv, AcceptedFacts(capture.draft, request.input), Restored,
             NEW i \in DOMAIN requests, search.scenarios[i] = Scenario(capture.draft)
      PROVE  /\ requests[i].fault \in {"none", "not reached"}
             /\ \A t \in DOMAIN requests[i].sent : \A n \in DOMAIN request.input.headers :
                   requests[i].sent[t][Lower[n]] = request.input.headers[n]
  <2>1. PICK made, scenario, draft :
           made = requests[i] /\ scenario = Scenario(draft) /\ draft = capture.draft
    OBVIOUS
  <2>2. IsMadeOf(made, scenario)
    <3>1. i \in 1 .. Len(requests)
      BY DEF RequestsInv
    <3> QED BY <1>3, <2>1, <3>1 DEF RequestsInv
  <2>3. HasBack(draft, request.input)
    BY <1>3, <2>1 DEF HasBack, Restored
  <2>4. /\ RequestFaults(draft.headers, environment) = {}
        /\ \A n \in DOMAIN request.input.headers :
              /\ Lower[n] \in DOMAIN RequestHeaders(scenario, environment)
              /\ RequestHeaders(scenario, environment)[Lower[n]] = request.input.headers[n]
    BY <1>3, <2>1, <2>3, RequestHasHeaders
  <2>5. scenario.headers = draft.headers
    BY <2>1 DEF Scenario
  <2> QED BY <2>1, <2>2, <2>4, <2>5 DEF IsMadeOf
<1>4. ASSUME DiscoveryInv, CaptureInv, RequestsInv PROVE CapturedScenarioReplays
  BY <1>1, <1>2, <1>3, <1>4 DEF CapturedScenarioReplays
<1> QED BY <1>4, RequestsInvariant, PTL
=============================================================================
