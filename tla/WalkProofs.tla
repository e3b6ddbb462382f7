------------------------------ MODULE WalkProofs ------------------------------
(***************************************************************************)
(* Theorems about Walk: the plan of subtrees is what select_roots promises *)
(* for every choice of MIB groups and roots, and what a host is reported   *)
(* with holds for any number of hosts, subtrees and permits.               *)
(***************************************************************************)
EXTENDS Walk, Facts

Oid == Seq(Nat)

-----------------------------------------------------------------------------
(* The order of OIDs, number by number.                                    *)

(* An OID lies within another when it begins with all of its numbers.      *)
LEMMA WithinNumbers ==
  ASSUME NEW a \in Oid, NEW b \in Oid
  PROVE  IsWithin(b, a) <=> /\ Len(a) <= Len(b)
                            /\ \A i \in 1..Len(a) : a[i] = b[i]
BY DEF IsWithin, IsPrefix, Oid

(* It comes before another when it is a part of it, or smaller where they  *)
(* first differ.                                                           *)
Differ(a, b, i) == /\ i \in 1..Len(a) /\ i \in 1..Len(b) /\ a[i] < b[i]
                   /\ \A j \in 1..i - 1 : a[j] = b[j]

(* One OID is before another when it is the beginning of it, or is less at *)
(* the first number that differs.                                          *)
LEMMA BeforeNumbers ==
  ASSUME NEW a \in Oid, NEW b \in Oid
  PROVE  Before(a, b) <=> \/ /\ Len(a) < Len(b)
                             /\ \A i \in 1..Len(a) : a[i] = b[i]
                          \/ \E i \in 1..Len(a) : Differ(a, b, i)
<1>1. IsStrictPrefix(a, b) <=> Len(a) < Len(b) /\ \A i \in 1..Len(a) : a[i] = b[i]
  <2>1. IsPrefix(a, b) <=> Len(a) <= Len(b) /\ \A i \in 1..Len(a) : a[i] = b[i]
    BY DEF IsPrefix, Oid
  <2>2. ASSUME Len(a) = Len(b), \A i \in 1..Len(a) : a[i] = b[i]  PROVE a = b
    BY <2>2 DEF Oid
  <2>3. Len(a) \in Nat /\ Len(b) \in Nat
    BY DEF Oid
  <2> QED BY <2>1, <2>2, <2>3 DEF IsStrictPrefix
<1>2. ASSUME NEW i \in DOMAIN a \cap DOMAIN b
      PROVE  SubSeq(a, 1, i - 1) = SubSeq(b, 1, i - 1)
               <=> \A j \in 1..i - 1 : a[j] = b[j]
  BY <1>2 DEF Oid
<1>3. DOMAIN a = 1..Len(a) /\ DOMAIN b = 1..Len(b)
  BY DEF Oid
<1> QED BY <1>1, <1>2, <1>3 DEF Before, Differ

(* Neither of two OIDs that differ in a number lies within the other.      *)
LEMMA DifferApart ==
  ASSUME NEW a \in Oid, NEW b \in Oid, NEW i, Differ(a, b, i)
  PROVE  ~IsWithin(a, b) /\ ~IsWithin(b, a)
BY WithinNumbers DEF Differ, Oid

(* Of two OIDs, either one lies within the other or they differ.           *)
LEMMA Compared ==
  ASSUME NEW a \in Oid, NEW b \in Oid
  PROVE  \/ IsWithin(a, b) \/ IsWithin(b, a)
         \/ \E i \in 1..Len(a) : Differ(a, b, i)
         \/ \E i \in 1..Len(b) : Differ(b, a, i)
<1> DEFINE T == {i \in 1..Len(a) : i <= Len(b) /\ a[i] # b[i]}
<1>1. /\ Len(a) \in Nat /\ Len(b) \in Nat
      /\ \A i \in 1..Len(a) : a[i] \in Nat
      /\ \A i \in 1..Len(b) : b[i] \in Nat
  BY DEF Oid
<1>2. CASE T = {}
  <2>1. \A i \in 1..Len(a) : i <= Len(b) => a[i] = b[i]
    BY <1>2
  <2>2. CASE Len(a) <= Len(b)
    BY <1>1, <2>1, <2>2, WithinNumbers
  <2>3. CASE Len(b) <= Len(a)
    BY <1>1, <2>1, <2>3, WithinNumbers
  <2> QED BY <1>1, <2>2, <2>3
<1>3. CASE T # {}
  <2>1. T \subseteq Nat
    BY <1>1
  <2>2. PICK x \in T : \A y \in T : x <= y
    <3> HIDE DEF T
    <3> QED BY <1>3, <2>1, LeastOf
  <2>3. x \in 1..Len(a) /\ x \in 1..Len(b) /\ a[x] # b[x]
    BY <1>1, <2>2
  <2>4. \A j \in 1..x - 1 : a[j] = b[j]
    BY <1>1, <2>2, <2>3
  <2>5. a[x] < b[x] \/ b[x] < a[x]
    BY <1>1, <2>3
  <2> QED BY <2>3, <2>4, <2>5 DEF Differ
<1> QED BY <1>2, <1>3

(* The order is strict and total.                                          *)
LEMMA BeforeIrreflexive ==
  ASSUME NEW a \in Oid
  PROVE  ~Before(a, a)
BY BeforeNumbers DEF Differ, Oid

(* Of two OIDs one is before the other.                                    *)
LEMMA BeforeTotal ==
  ASSUME NEW a \in Oid, NEW b \in Oid, a # b
  PROVE  Before(a, b) \/ Before(b, a)
<1>1. CASE IsWithin(a, b) \/ IsWithin(b, a)
  BY <1>1 DEF IsWithin, Before, IsStrictPrefix
<1>2. CASE \E i \in 1..Len(a) : Differ(a, b, i)
  BY <1>2, BeforeNumbers
<1>3. CASE \E i \in 1..Len(b) : Differ(b, a, i)
  BY <1>3, BeforeNumbers
<1> QED BY <1>1, <1>2, <1>3, Compared

(* An OID before one that is before a third is before the third.           *)
LEMMA BeforeTransitive ==
  ASSUME NEW a \in Oid, NEW b \in Oid, NEW c \in Oid, Before(a, b), Before(b, c)
  PROVE  Before(a, c)
<1>1. /\ Len(a) \in Nat /\ Len(b) \in Nat /\ Len(c) \in Nat
      /\ \A i \in 1..Len(a) : a[i] \in Nat
      /\ \A i \in 1..Len(b) : b[i] \in Nat
      /\ \A i \in 1..Len(c) : c[i] \in Nat
  BY DEF Oid
<1>2. CASE Len(a) < Len(b) /\ \A i \in 1..Len(a) : a[i] = b[i]
  <2>1. CASE Len(b) < Len(c) /\ \A i \in 1..Len(b) : b[i] = c[i]
    BY <1>1, <1>2, <2>1, BeforeNumbers
  <2>2. CASE \E i \in 1..Len(b) : Differ(b, c, i)
    <3>1. PICK i \in 1..Len(b) : Differ(b, c, i)
      BY <2>2
    <3>2. CASE i <= Len(a)
      <4>1. i \in 1..Len(a) /\ Differ(a, c, i)
        BY <1>1, <1>2, <3>1, <3>2 DEF Differ
      <4> QED BY <4>1, BeforeNumbers
    <3>3. CASE ~(i <= Len(a))
      <4>1. Len(a) < Len(c) /\ \A j \in 1..Len(a) : a[j] = c[j]
        BY <1>1, <1>2, <3>1, <3>3 DEF Differ
      <4> QED BY <4>1, BeforeNumbers
    <3> QED BY <3>2, <3>3
  <2> QED BY <2>1, <2>2, BeforeNumbers
<1>3. CASE \E i \in 1..Len(a) : Differ(a, b, i)
  <2>0. PICK i \in 1..Len(a) : Differ(a, b, i)
    BY <1>3
  <2>1. CASE Len(b) < Len(c) /\ \A j \in 1..Len(b) : b[j] = c[j]
    <3>1. Differ(a, c, i)
      BY <1>1, <2>0, <2>1 DEF Differ
    <3> QED BY <3>1, BeforeNumbers
  <2>2. CASE \E k \in 1..Len(b) : Differ(b, c, k)
    <3>1. PICK k \in 1..Len(b) : Differ(b, c, k)
      BY <2>2
    <3>2. CASE i <= k
      <4>1. Differ(a, c, i)
        <5>1. i \in 1..Len(c)
          BY <1>1, <2>0, <3>1, <3>2 DEF Differ
        <5>2. \A j \in 1..i - 1 : a[j] = b[j] /\ b[j] = c[j]
          BY <1>1, <2>0, <3>1, <3>2 DEF Differ
        <5>3. a[i] < b[i] /\ (b[i] < c[i] \/ b[i] = c[i])
          BY <1>1, <2>0, <3>1, <3>2 DEF Differ
        <5>4. a[i] < c[i]
          BY <1>1, <2>0, <5>1, <5>3 DEF Differ
        <5> QED BY <5>1, <5>2, <5>4, <2>0 DEF Differ
      <4> QED BY <4>1, BeforeNumbers
    <3>3. CASE k < i
      <4>1. k \in 1..Len(a) /\ Differ(a, c, k)
        BY <1>1, <2>0, <3>1, <3>3 DEF Differ
      <4> QED BY <4>1, BeforeNumbers
    <3> QED BY <1>1, <3>2, <3>3 DEF Differ
  <2> QED BY <2>1, <2>2, BeforeNumbers
<1> QED BY <1>2, <1>3, BeforeNumbers

(* An OID does not come before one that it lies within.                    *)
LEMMA WithinNotBefore ==
  ASSUME NEW a \in Oid, NEW b \in Oid, IsWithin(a, b)
  PROVE  ~Before(a, b)
BY WithinNumbers, BeforeNumbers DEF Differ, Oid

(* Lying within is transitive, and mutual for an OID and itself only.      *)
LEMMA WithinTransitive ==
  ASSUME NEW a \in Oid, NEW b \in Oid, NEW c \in Oid, IsWithin(a, b), IsWithin(b, c)
  PROVE  IsWithin(a, c)
BY WithinNumbers DEF Oid

(* An OID lies within itself.                                              *)
LEMMA WithinSelf ==
  ASSUME NEW a \in Oid
  PROVE  IsWithin(a, a)
BY WithinNumbers DEF Oid

(* Two OIDs that lie within each other are the same.                       *)
LEMMA WithinMutual ==
  ASSUME NEW a \in Oid, NEW b \in Oid, IsWithin(a, b), IsWithin(b, a)
  PROVE  a = b
BY WithinNumbers DEF Oid

(* An OID within two others makes one of these lie within the other.       *)
LEMMA WithinBoth ==
  ASSUME NEW a \in Oid, NEW b \in Oid, NEW c \in Oid, IsWithin(c, a), IsWithin(c, b)
  PROVE  IsWithin(a, b) \/ IsWithin(b, a)
BY WithinNumbers, SMTT(30) DEF Oid
-----------------------------------------------------------------------------
(* The plan.                                                               *)

(* sorted() puts every OID of a finite set into a sequence, in order.      *)
LEMMA SortedOids ==
  ASSUME NEW S, S \subseteq Oid, IsFiniteSet(S)
  PROVE  /\ Sorted(S) \in Seq(S) /\ Len(Sorted(S)) = Cardinality(S)
         /\ \A x \in S : \E i \in 1..Len(Sorted(S)) : Sorted(S)[i] = x
         /\ \A i, j \in 1..Len(Sorted(S)) : i < j => Before(Sorted(S)[i], Sorted(S)[j])
<1> DEFINE R == {p \in S \X S : Before(p[1], p[2])}
           n == Cardinality(S)
           q == Sorted(S)
<1>1. \A x, y \in S : <<x, y>> \in R <=> Before(x, y)
  OBVIOUS
<1>2. StrictOrder(S, R)
  <2> HIDE DEF R
  <2> QED BY <1>1, BeforeIrreflexive, BeforeTotal, BeforeTransitive DEF StrictOrder
<1>3. \A x \in S : Below(S, R, x) = {y \in S : Before(y, x)}
  BY <1>1 DEF Below
<1> HIDE DEF R
<1>4. n \in Nat
  BY FS_CardinalityType
<1>5. ASSUME NEW i \in 1..n
      PROVE  q[i] \in S /\ Cardinality(Below(S, R, q[i])) = i - 1
  <2>1. \E x \in S : Cardinality({y \in S : Before(y, x)}) = i - 1
    <3>1. \E x \in S : Cardinality(Below(S, R, x)) = i - 1
      BY <1>2, RankOnto
    <3> QED BY <3>1, <1>3
  <2>2. q[i] = CHOOSE x \in S : Cardinality({y \in S : Before(y, x)}) = i - 1
    BY DEF Sorted
  <2>3. q[i] \in S /\ Cardinality({y \in S : Before(y, q[i])}) = i - 1
    <3> HIDE DEF q
    <3> QED BY <2>1, <2>2
  <2> QED BY <1>3, <2>3
<1>6. q \in [1..n -> S]
  BY <1>5 DEF Sorted
<1>7. InOrder(q, S, R)
  <2> HIDE DEF q
  <2> QED BY <1>2, <1>5, <1>6, RankSorts
<1>8. q \in Seq(S) /\ Len(q) = n
  <2> HIDE DEF q, n
  <2> QED BY <1>4, <1>6
<1> HIDE DEF q
<1>9. \A i, j \in 1..n : i < j => Before(q[i], q[j])
  <2>1. \A i, j \in 1..n : i < j => <<q[i], q[j]>> \in R
    BY <1>7 DEF InOrder
  <2> QED BY <1>1, <1>6, <2>1
<1>10. \A x \in S : \E i \in 1..n : q[i] = x
  BY <1>7 DEF InOrder
<1> QED BY <1>8, <1>9, <1>10 DEF q

(* The selected roots are finitely many OIDs.                              *)
LEMMA SpecsFinite ==
  ASSUME NEW r \in Runs
  PROVE  Specs(r) \subseteq Oid /\ IsFiniteSet(Specs(r))
<1> DEFINE F == {GroupRoots[k] : k \in Keys(r)}
<1>1. r \in RunSet /\ IsFiniteSet(r.custom) /\ IsFiniteSet(Groups)
  BY WalkAssumption
<1>2. r.keys \subseteq Groups /\ r.custom \subseteq Oid
      /\ r.mib \in {"absent", "all", "none", "some"}
  BY <1>1 DEF RunSet, Oid
<1>3. Keys(r) \subseteq Groups
  BY <1>2 DEF Keys
<1>4. IsFiniteSet(Keys(r))
  BY <1>1, <1>3, FS_Subset
<1>5. IsFiniteSet(F)
  <2> DEFINE f == [k \in Keys(r) |-> GroupRoots[k]]
  <2>1. f \in Surjection(Keys(r), F)
    BY DEF Surjection
  <2> HIDE DEF f, F
  <2> QED BY <1>4, <2>1, FS_Surjection
<1>6. \A T \in F : IsFiniteSet(T) /\ T \subseteq Oid
  BY <1>3, WalkAssumption DEF Oid
<1> HIDE DEF F
<1>7. IsFiniteSet(UNION F)
  BY <1>5, <1>6, FS_UNION
<1>8. UNION F \subseteq Oid
  BY <1>6
<1>9. Specs(r) = (UNION F) \cup r.custom
  BY DEF Specs, F
<1> DEFINE A == UNION F
           B == r.custom
<1>10. IsFiniteSet(A) /\ IsFiniteSet(B) /\ A \subseteq Oid /\ B \subseteq Oid
       /\ Specs(r) = A \cup B
  BY <1>1, <1>2, <1>7, <1>8, <1>9
<1> HIDE DEF A, B
<1>11. IsFiniteSet(A \cup B)
  BY <1>10, FS_Union
<1> QED BY <1>10, <1>11

(* The loop of select_roots, one spec after the other.                     *)
KeepsEach(acc, q, S) ==
  /\ acc \in [0..Len(q) -> Seq(S)] /\ acc[0] = <<>>
  /\ \A n \in 1..Len(q) : acc[n] = KeepBroadest(acc[n - 1], q[n])
  /\ acc[Len(q)] = Broadest(q)

(* Broadest folds KeepBroadest over the specs: there is an accumulator     *)
(* that takes them one after the other.                                    *)
LEMMA BroadestSteps ==
  ASSUME NEW S, NEW q \in Seq(S)
  PROVE  \E acc : KeepsEach(acc, q, S)
<1> DEFINE D == DOMAIN q
           V == Seq(S)
           H == [i \in D |-> [v \in V |-> KeepBroadest(v, q[i])]]
           ch == [s \in SUBSET D |-> Max(s)]
           Fold(it) == it = [s \in SUBSET D |-> IF s = {} THEN <<>>
                              ELSE KeepBroadest(it[s \ {Max(s)}], q[Max(s)])]
<1>1. D = 1..Len(q) /\ Len(q) \in Nat /\ IsFiniteSet(D)
  BY FS_Interval
<1>2. \A s \in SUBSET D : s # {} => Max(s) \in s
  BY <1>1, MaxIn
<1>3. \A i \in D, v \in V : KeepBroadest(v, q[i]) \in V
  BY DEF KeepBroadest
<1>4. PICK jt : FoldsBy(jt, D, ch, V, <<>>, H)
  <2>1. <<>> \in V
    OBVIOUS
  <2>2. H \in [D -> [V -> V]]
    <3> HIDE DEF V, D
    <3> QED BY <1>3
  <2>3. \A s \in SUBSET D : s # {} => ch[s] \in s
    BY <1>2
  <2> HIDE DEF V, D, H, ch
  <2> QED BY <1>1, <2>1, <2>2, <2>3, FoldExists
<1>5. Fold(jt)
  <2> HIDE DEF D, V
  <2>1. jt \in [SUBSET D -> V] /\ jt[{}] = <<>>
    BY <1>4 DEF FoldsBy
  <2>2. ASSUME NEW s \in SUBSET D, s # {}
        PROVE  jt[s] = KeepBroadest(jt[s \ {Max(s)}], q[Max(s)])
    <3>1. Max(s) \in D /\ jt[s \ {Max(s)}] \in V
      BY <1>2, <2>1, <2>2
    <3>2. jt[s] = H[Max(s)][jt[s \ {Max(s)}]]
      <4> HIDE DEF H
      <4>1. jt[s] = H[ch[s]][jt[s \ {ch[s]}]]
        BY <1>4, <2>2 DEF FoldsBy
      <4> QED BY <4>1
    <3> QED BY <3>1, <3>2
  <2> QED BY <2>1, <2>2
<1> DEFINE it == CHOOSE it : Fold(it)
<1>6. Fold(it)
  <2> HIDE DEF Fold
  <2> QED BY <1>5
<1>7. Broadest(q) = it[D]
  BY DEF Broadest, FoldLeft, MapThenFoldSet
<1> HIDE DEF it
<1> DEFINE acc == [n \in 0..Len(q) |-> it[1..n]]
<1>8. acc[0] = <<>> /\ acc[Len(q)] = Broadest(q)
  <2>1. 1..0 = {} /\ 0 \in 0..Len(q) /\ Len(q) \in 0..Len(q)
    BY <1>1
  <2>2. it[{}] = <<>>
    BY <1>6
  <2> HIDE DEF D
  <2> QED BY <1>1, <1>7, <2>1, <2>2
<1>9. ASSUME NEW n \in 1..Len(q)  PROVE acc[n] = KeepBroadest(acc[n - 1], q[n])
  <2>1. Max(1..n) = n /\ (1..n) \ {n} = 1..n - 1 /\ 1..n \in SUBSET D /\ 1..n # {}
    <3>1. Max(1..n) = n
      BY <1>1, MaxUpto
    <3>2. (1..n) \ {n} = 1..n - 1
      BY <1>1
    <3>3. n \in 1..n /\ 1..n \subseteq 1..Len(q)
      BY <1>1
    <3> HIDE DEF D
    <3> QED BY <1>1, <3>1, <3>2, <3>3
  <2>2. it[1..n] = KeepBroadest(it[1..n - 1], q[n])
    <3> HIDE DEF D
    <3> QED BY <1>6, <2>1
  <2>3. n \in 0..Len(q) /\ n - 1 \in 0..Len(q)
    BY <1>1
  <2> QED BY <2>2, <2>3
<1> HIDE DEF acc
<1>10. ASSUME NEW n \in 0..Len(q)  PROVE acc[n] \in V
  <2> DEFINE T == {k \in Nat : k <= Len(q) => acc[k] \in V}
  <2>1. 0 \in T
    <3>1. <<>> \in V
      OBVIOUS
    <3> HIDE DEF V
    <3> QED BY <1>8, <3>1
  <2>2. ASSUME NEW k \in T  PROVE k + 1 \in T
    <3> SUFFICES ASSUME k + 1 <= Len(q)  PROVE acc[k + 1] \in V
      OBVIOUS
    <3>1. k + 1 \in 1..Len(q) /\ k + 1 \in D /\ (k + 1) - 1 = k /\ acc[k] \in V
      BY <1>1
    <3>2. acc[k + 1] = KeepBroadest(acc[k], q[k + 1])
      BY <1>9, <3>1
    <3> HIDE DEF V, D
    <3> QED BY <1>3, <3>1, <3>2
  <2> HIDE DEF T
  <2>3. T = Nat
    <3>1. T \subseteq Nat
      BY DEF T
    <3> QED BY <2>1, <2>2, <3>1, FromZeroOn
  <2> QED BY <1>1, <2>3 DEF T
<1>11. acc \in [0..Len(q) -> V]
  BY <1>10 DEF acc
<1>12. KeepsEach(acc, q, S)
  BY <1>8, <1>9, <1>11 DEF KeepsEach
<1> QED BY <1>12
(* Subtrees in order, none of them within another.                         *)
Apart(a, b) == Before(a, b) /\ ~IsWithin(a, b) /\ ~IsWithin(b, a)

Disjoint(k) == \A i, j \in 1..Len(k) : i < j => Apart(k[i], k[j])

(* Until its n-th spec the loop has kept some of them, apart, which cover  *)
(* all of them.                                                            *)
Covering(k, q, n) ==
  /\ k \in Seq({q[i] : i \in 1..n}) /\ Disjoint(k)
  /\ \A i \in 1..n : \E j \in 1..Len(k) : IsWithin(q[i], k[j])

(* One spec more: what is kept stays apart, and covers it too.             *)
LEMMA KeepCovers ==
  ASSUME NEW q \in Seq(Oid), \A i, j \in 1..Len(q) : i < j => Before(q[i], q[j]),
         NEW n \in 1..Len(q), NEW k, Covering(k, q, n - 1)
  PROVE  Covering(KeepBroadest(k, q[n]), q, n)
<1> DEFINE m == Len(k)
           Old == {q[i] : i \in 1..n - 1}
           New == {q[i] : i \in 1..n}
           x == q[n]
<1>1. Len(q) \in Nat /\ n \in Nat /\ x \in Oid /\ \A i \in 1..Len(q) : q[i] \in Oid
  BY DEF Oid
<1>2. Old \subseteq New /\ x \in New /\ New \subseteq Oid
  BY <1>1
<1>3. k \in Seq(Old)
  BY DEF Covering
<1>4. m \in Nat /\ k \in Seq(New) /\ \A i \in 1..m : k[i] \in Old /\ k[i] \in Oid
  <2> HIDE DEF Old, New
  <2> QED BY <1>2, <1>3
<1>5. ToSet(k) = {k[i] : i \in 1..m}
  <2>1. DOMAIN k = 1..m
    BY <1>3
  <2> QED BY <2>1 DEF ToSet
<1>6. CASE \E i \in 1..m : IsWithin(x, k[i])
  <2>1. KeepBroadest(k, x) = k
    BY <1>5, <1>6 DEF KeepBroadest
  <2>2. \A i \in 1..n : \E j \in 1..m : IsWithin(q[i], k[j])
    <3> TAKE i \in 1..n
    <3>1. CASE i = n
      BY <1>6, <3>1
    <3>2. CASE i # n
      <4>1. i \in 1..n - 1
        BY <1>1, <3>2
      <4> QED BY <4>1 DEF Covering
    <3> QED BY <3>1, <3>2
  <2> QED BY <1>4, <2>1, <2>2 DEF Covering
<1>7. CASE ~ \E i \in 1..m : IsWithin(x, k[i])
  <2> DEFINE l == Append(k, x)
  <2>1. KeepBroadest(k, x) = l
    BY <1>5, <1>7 DEF KeepBroadest
  <2>2. l \in Seq(New) /\ Len(l) = m + 1 /\ l[m + 1] = x /\ \A i \in 1..m : l[i] = k[i]
    <3> HIDE DEF New
    <3> QED BY <1>2, <1>4
  <2>3. ASSUME NEW i \in 1..m  PROVE Apart(k[i], x)
    <3>1. PICK j \in 1..n - 1 : k[i] = q[j]
      BY <1>4
    <3>2. Before(k[i], x)
      BY <1>1, <3>1
    <3>3. ~IsWithin(x, k[i])
      BY <1>7
    <3>4. ~IsWithin(k[i], x)
      BY <1>1, <1>4, <3>2, WithinNotBefore
    <3> QED BY <3>2, <3>3, <3>4 DEF Apart
  <2>4. Disjoint(l)
    <3> SUFFICES ASSUME NEW i \in 1..m + 1, NEW j \in 1..m + 1, i < j
                 PROVE  Apart(l[i], l[j])
      BY <2>2 DEF Disjoint
    <3>1. i \in 1..m
      BY <1>4
    <3>2. CASE j = m + 1
      BY <2>2, <2>3, <3>1, <3>2
    <3>3. CASE j # m + 1
      <4>1. j \in 1..m
        BY <1>4, <3>3
      <4>2. Apart(k[i], k[j])
        BY <3>1, <4>1 DEF Covering, Disjoint
      <4> QED BY <2>2, <3>1, <4>1, <4>2
    <3> QED BY <3>2, <3>3
  <2>5. \A i \in 1..n : \E j \in 1..m + 1 : IsWithin(q[i], l[j])
    <3> TAKE i \in 1..n
    <3>1. CASE i = n
      <4>1. IsWithin(x, l[m + 1]) /\ m + 1 \in 1..m + 1
        BY <1>1, <1>4, <2>2, WithinSelf
      <4> QED BY <3>1, <4>1
    <3>2. CASE i # n
      <4>1. i \in 1..n - 1
        BY <1>1, <3>2
      <4>2. PICK j \in 1..m : IsWithin(q[i], k[j])
        BY <4>1 DEF Covering
      <4>3. j \in 1..m + 1 /\ l[j] = k[j]
        BY <1>4, <2>2
      <4> QED BY <4>2, <4>3
    <3> QED BY <3>1, <3>2
  <2> HIDE DEF l, m
  <2>6. Covering(l, q, n)
    BY <2>2, <2>4, <2>5 DEF Covering
  <2> QED BY <2>1, <2>6
<1> QED BY <1>6, <1>7

(* The loop over specs in order keeps some that are apart and cover all.   *)
LEMMA BroadestCovers ==
  ASSUME NEW q \in Seq(Oid), \A i, j \in 1..Len(q) : i < j => Before(q[i], q[j])
  PROVE  Covering(Broadest(q), q, Len(q))
<1>1. PICK acc : KeepsEach(acc, q, Oid)
  BY BroadestSteps
<1>2. Len(q) \in Nat
  OBVIOUS
<1> DEFINE T == {n \in Nat : n <= Len(q) => Covering(acc[n], q, n)}
<1>3. 0 \in T
  <2>1. acc[0] = <<>> /\ 1..0 = {} /\ Len(<<>>) = 0
    BY <1>1 DEF KeepsEach
  <2>2. Covering(<<>>, q, 0)
    BY <2>1 DEF Covering, Disjoint
  <2> QED BY <2>1, <2>2
<1>4. ASSUME NEW n \in T  PROVE n + 1 \in T
  <2> SUFFICES ASSUME n + 1 <= Len(q)  PROVE Covering(acc[n + 1], q, n + 1)
    OBVIOUS
  <2>1. n + 1 \in 1..Len(q) /\ (n + 1) - 1 = n /\ n <= Len(q)
    BY <1>2
  <2>2. acc[n + 1] = KeepBroadest(acc[n], q[n + 1])
    BY <1>1, <2>1 DEF KeepsEach
  <2>3. Covering(acc[n], q, (n + 1) - 1)
    BY <2>1
  <2>4. Covering(KeepBroadest(acc[n], q[n + 1]), q, n + 1)
    BY <2>1, <2>3, KeepCovers
  <2> QED BY <2>2, <2>4
<1> HIDE DEF T
<1>5. T = Nat
  <2>1. T \subseteq Nat
    BY DEF T
  <2> QED BY <1>3, <1>4, <2>1, FromZeroOn
<1>6. Covering(acc[Len(q)], q, Len(q))
  BY <1>2, <1>5 DEF T
<1> QED BY <1>1, <1>6 DEF KeepsEach

(* What is kept of the roots selected: some of them, in order and apart,   *)
(* which cover all of them.                                                *)
LEMMA KeptCovers ==
  ASSUME NEW r \in Runs
  PROVE  /\ Kept(r) \in Seq(Oid) /\ ToSet(Kept(r)) \subseteq Specs(r)
         /\ Disjoint(Kept(r))
         /\ \A s \in Specs(r) : \E k \in ToSet(Kept(r)) : IsWithin(s, k)
<1> DEFINE S == Specs(r)
           q == Sorted(S)
           k == Broadest(q)
<1>1. S \subseteq Oid /\ IsFiniteSet(S)
  BY SpecsFinite
<1> HIDE DEF S
<1>2. /\ q \in Seq(S)
      /\ \A x \in S : \E i \in 1..Len(q) : q[i] = x
      /\ \A i, j \in 1..Len(q) : i < j => Before(q[i], q[j])
  <2> HIDE DEF q
  <2> QED BY <1>1, SortedOids DEF q
<1> HIDE DEF q
<1>3. q \in Seq(Oid) /\ \A i \in 1..Len(q) : q[i] \in S
  BY <1>1, <1>2
<1>4. Covering(k, q, Len(q))
  BY <1>2, <1>3, BroadestCovers
<1> HIDE DEF k
<1> DEFINE A == {q[i] : i \in 1..Len(q)}
<1>5. A \subseteq S
  BY <1>3
<1>6. k \in Seq(A)
  BY <1>4 DEF Covering
<1> HIDE DEF A
<1>7. k \in Seq(Oid) /\ \A i \in 1..Len(k) : k[i] \in S
  BY <1>1, <1>5, <1>6
<1>8. ToSet(k) = {k[i] : i \in 1..Len(k)}
  BY <1>7 DEF ToSet
<1>9. \A s \in S : \E x \in ToSet(k) : IsWithin(s, x)
  <2> TAKE s \in S
  <2>1. PICK i \in 1..Len(q) : q[i] = s
    BY <1>2
  <2>2. PICK j \in 1..Len(k) : IsWithin(q[i], k[j])
    BY <1>4 DEF Covering
  <2> QED BY <1>8, <2>1, <2>2
<1>10. Kept(r) = k
  BY DEF Kept, k, q, S
<1>11. Disjoint(k)
  BY <1>4 DEF Covering
<1>12. ToSet(k) \subseteq S
  BY <1>7, <1>8
<1> QED BY <1>7, <1>9, <1>10, <1>11, <1>12 DEF S
(* What lies within two subtrees that are apart is apart.                  *)
LEMMA ApartWithin ==
  ASSUME NEW a \in Oid, NEW b \in Oid, Apart(a, b),
         NEW x \in Oid, NEW y \in Oid, IsWithin(x, a), IsWithin(y, b)
  PROVE  Apart(x, y)
<1>1. ~Before(b, a)
  BY BeforeTransitive, BeforeIrreflexive DEF Apart
<1>2. PICK i \in 1..Len(a) : Differ(a, b, i)
  BY <1>1, Compared, BeforeNumbers DEF Apart
<1>3. Differ(x, y, i) /\ i \in 1..Len(x)
  <2>1. Len(a) \in Nat /\ Len(b) \in Nat /\ Len(x) \in Nat /\ Len(y) \in Nat
    BY DEF Oid
  <2>2. Len(a) <= Len(x) /\ \A j \in 1..Len(a) : x[j] = a[j]
    BY WithinNumbers
  <2>3. Len(b) <= Len(y) /\ \A j \in 1..Len(b) : y[j] = b[j]
    BY WithinNumbers
  <2> QED BY <1>2, <2>1, <2>2, <2>3 DEF Differ
<1> QED BY <1>3, BeforeNumbers, DifferApart DEF Apart

(* The branches of a subtree are in order, apart and within it.            *)
LEMMA BranchesApart ==
  ASSUME NEW k \in Oid
  PROVE  /\ Expanded(k) \in Seq(Oid) /\ Disjoint(Expanded(k))
         /\ \A i \in 1..Len(Expanded(k)) : IsWithin(Expanded(k)[i], k)
         /\ ToSet(Expanded(k)) = IF k \in DOMAIN Branches
                                THEN {Append(k, n) : n \in Branches[k]} ELSE {k}
<1>1. CASE k \in DOMAIN Branches
  <2> DEFINE B == Branches[k]
             S == {Append(k, n) : n \in B}
             q == Sorted(S)
  <2>1. IsFiniteSet(B) /\ B \subseteq Nat
    BY <1>1, WalkAssumption
  <2>2. IsFiniteSet(S)
    <3> DEFINE f == [n \in B |-> Append(k, n)]
    <3>1. f \in Surjection(B, S)
      BY DEF Surjection
    <3> HIDE DEF f, S, B
    <3> QED BY <2>1, <3>1, FS_Surjection
  <2>3. \A x \in S : x \in Oid /\ Len(x) = Len(k) + 1 /\ IsWithin(x, k)
    <3> SUFFICES ASSUME NEW n \in Nat
                 PROVE  /\ Append(k, n) \in Oid /\ Len(Append(k, n)) = Len(k) + 1
                        /\ IsWithin(Append(k, n), k)
      BY <2>1
    <3>1. Append(k, n) \in Oid /\ Len(Append(k, n)) = Len(k) + 1
          /\ \A i \in 1..Len(k) : Append(k, n)[i] = k[i]
      BY DEF Oid
    <3>2. Len(k) \in Nat
      BY DEF Oid
    <3> DEFINE x == Append(k, n)
    <3>3. ASSUME x \in Oid, Len(k) <= Len(x), \A i \in 1..Len(k) : k[i] = x[i]
          PROVE  IsWithin(x, k)
      <4> HIDE DEF x
      <4> QED BY <3>3, WithinNumbers
    <3> QED BY <3>1, <3>2, <3>3
  <2>4. Expanded(k) = q
    BY <1>1 DEF Expanded
  <2> HIDE DEF S
  <2>5. S \subseteq Oid
    BY <2>3
  <2>6. /\ q \in Seq(S) /\ \A x \in S : \E i \in 1..Len(q) : q[i] = x
        /\ \A i, j \in 1..Len(q) : i < j => Before(q[i], q[j])
    <3> HIDE DEF q
    <3> QED BY <2>2, <2>5, SortedOids DEF q
  <2> HIDE DEF q
  <2>7. q \in Seq(Oid) /\ \A i \in 1..Len(q) : q[i] \in S
    BY <2>5, <2>6
  <2>8. ASSUME NEW x \in S, NEW y \in S, Before(x, y)  PROVE Apart(x, y)
    <3>1. x # y /\ x \in Oid /\ y \in Oid /\ Len(x) = Len(y)
      BY <2>3, <2>8, BeforeIrreflexive
    <3>2. ASSUME NEW v \in Oid, NEW w \in Oid, Len(v) = Len(w), IsWithin(v, w)
          PROVE  v = w
      <4>1. IsWithin(w, v)
        <5>1. \A i \in 1..Len(w) : w[i] = v[i]
          BY <3>2, WithinNumbers
        <5>2. Len(v) \in Nat
          BY DEF Oid
        <5> QED BY <3>2, <5>1, <5>2, WithinNumbers
      <4> QED BY <3>2, <4>1, WithinMutual
    <3> QED BY <2>8, <3>1, <3>2 DEF Apart
  <2>9. Disjoint(q)
    BY <2>6, <2>7, <2>8 DEF Disjoint
  <2>10. ToSet(q) = S
    <3>1. ToSet(q) = {q[i] : i \in 1..Len(q)}
      BY <2>7 DEF ToSet
    <3> QED BY <2>6, <2>7, <3>1
  <2> QED BY <1>1, <2>3, <2>4, <2>7, <2>9, <2>10 DEF S
<1>2. CASE k \notin DOMAIN Branches
  <2>1. Expanded(k) = <<k>>
    BY <1>2 DEF Expanded
  <2>2. <<k>> \in Seq(Oid) /\ Len(<<k>>) = 1 /\ <<k>>[1] = k
    OBVIOUS
  <2>3. Disjoint(<<k>>)
    BY <2>2 DEF Disjoint
  <2>4. ToSet(<<k>>) = {k}
    BY DEF ToSet
  <2> QED BY <1>2, <2>1, <2>2, <2>3, <2>4, WithinSelf
<1> QED BY <1>1, <1>2

(* FlattenSeq of a sequence that is not empty, part by part.               *)
FlattensEach(fl, qq) ==
  /\ fl \in [1..Len(qq) -> Seq(Oid)]
  /\ fl[1] = qq[1] /\ \A n \in 2..Len(qq) : fl[n] = fl[n - 1] \o qq[n]
  /\ FlattenSeq(qq) = fl[Len(qq)]

(* FlattenSeq joins the sequences from the first to the last: there is an  *)
(* accumulator for it.                                                     *)
LEMMA FlattenSteps ==
  ASSUME NEW qq \in Seq(Seq(Oid)), Len(qq) # 0
  PROVE  \E fl : FlattensEach(fl, qq)
<1> DEFINE N == Len(qq)
           V == Seq(Oid)
           Is(fl) == fl = [i \in 1..N |-> IF i = 1 THEN qq[i] ELSE fl[i - 1] \o qq[i]]
           H == [n \in Nat |-> [v \in V |-> IF n + 2 <= N THEN v \o qq[n + 2] ELSE v]]
<1>1. N \in Nat \ {0} /\ \A i \in 1..N : qq[i] \in V
  OBVIOUS
<1>2. \A v, w \in V : v \o w \in V
  OBVIOUS
<1>3. PICK f : Recurs(f, V, qq[1], H)
  <2>1. qq[1] \in V
    BY <1>1
  <2>2. H \in [Nat -> [V -> V]]
    <3> HIDE DEF V, N
    <3>1. ASSUME NEW n \in Nat, NEW v \in V, n + 2 <= N  PROVE v \o qq[n + 2] \in V
      <4>1. n + 2 \in 1..N
        BY <1>1, <3>1
      <4> QED BY <1>1, <1>2, <4>1
    <3> QED BY <3>1
  <2> HIDE DEF V, H
  <2> QED BY <2>1, <2>2, Recursion
<1>4. /\ f \in [Nat -> V] /\ f[0] = qq[1]
      /\ \A n \in Nat : n + 2 <= N => f[n + 1] = f[n] \o qq[n + 2]
  <2> HIDE DEF V, N
  <2>1. f \in [Nat -> V] /\ f[0] = qq[1] /\ \A n \in Nat : f[n + 1] = H[n][f[n]]
    <3> HIDE DEF H
    <3> QED BY <1>3 DEF Recurs
  <2> QED BY <2>1
<1> DEFINE g == [i \in 1..N |-> f[i - 1]]
<1>5. g \in [1..N -> V] /\ g[1] = qq[1]
  <2> HIDE DEF V, N
  <2> QED BY <1>1, <1>4
<1>6. ASSUME NEW i \in 1..N, i # 1  PROVE g[i] = g[i - 1] \o qq[i]
  <2> HIDE DEF V, N
  <2>1. i - 2 \in Nat /\ (i - 2) + 2 = i /\ (i - 2) + 1 = i - 1 /\ i - 1 \in 1..N
        /\ i <= N /\ (i - 1) - 1 = i - 2
    BY <1>1, <1>6
  <2>2. f[(i - 2) + 1] = f[i - 2] \o qq[(i - 2) + 2]
    BY <1>4, <2>1
  <2> QED BY <2>1, <2>2
<1>7. Is(g)
  <2> HIDE DEF V, N
  <2>1. ASSUME NEW i \in 1..N
        PROVE  g[i] = IF i = 1 THEN qq[i] ELSE g[i - 1] \o qq[i]
    BY <1>5, <1>6
  <2>2. g = [i \in 1..N |-> g[i]]
    OBVIOUS
  <2> HIDE DEF g
  <2> QED BY <2>1, <2>2
<1> DEFINE fl == CHOOSE fl : Is(fl)
<1>8. Is(fl)
  <2> HIDE DEF Is
  <2> QED BY <1>7
<1>9. FlattenSeq(qq) = fl[N]
  BY DEF FlattenSeq
<1> HIDE DEF fl, g
<1>10. fl[1] = qq[1] /\ \A n \in 2..N : fl[n] = fl[n - 1] \o qq[n]
  <2> HIDE DEF N
  <2>1. 1 \in 1..N /\ \A n \in 2..N : n \in 1..N /\ n # 1
    BY <1>1
  <2> QED BY <1>8, <2>1
<1>11. ASSUME NEW i \in 1..N  PROVE fl[i] \in V
  <2> DEFINE T == {n \in Nat : n + 1 <= N => fl[n + 1] \in V}
  <2> HIDE DEF V, N
  <2>1. 0 \in T
    BY <1>1, <1>10
  <2>2. ASSUME NEW n \in T  PROVE n + 1 \in T
    <3> SUFFICES ASSUME (n + 1) + 1 <= N  PROVE fl[(n + 1) + 1] \in V
      OBVIOUS
    <3>1. n + 2 \in 2..N /\ n + 2 \in 1..N /\ (n + 2) - 1 = n + 1 /\ (n + 1) + 1 = n + 2
          /\ n + 1 <= N /\ n \in Nat
      BY <1>1
    <3>2. fl[n + 1] \in V
      BY <3>1
    <3>3. fl[n + 2] = fl[n + 1] \o qq[n + 2]
      BY <1>10, <3>1
    <3> HIDE DEF T
    <3> QED BY <1>1, <1>2, <3>1, <3>2, <3>3
  <2> HIDE DEF T
  <2>3. T = Nat
    <3>1. T \subseteq Nat
      BY DEF T
    <3> QED BY <2>1, <2>2, <3>1, FromZeroOn
  <2>4. i - 1 \in T /\ (i - 1) + 1 = i /\ i <= N
    BY <1>1, <2>3
  <2>5. (i - 1) + 1 <= N => fl[(i - 1) + 1] \in V
    BY <2>4 DEF T
  <2> QED BY <2>4, <2>5
<1>12. fl \in [1..N -> V]
  <2> HIDE DEF N, V
  <2>1. fl = [i \in 1..N |-> IF i = 1 THEN qq[i] ELSE fl[i - 1] \o qq[i]]
    BY <1>8
  <2>2. DOMAIN fl = 1..N
    BY <2>1
  <2>3. fl = [i \in 1..N |-> fl[i]]
    BY <2>1, <2>2
  <2> QED BY <1>11, <2>3
<1>13. FlattensEach(fl, qq)
  BY <1>9, <1>10, <1>12 DEF FlattensEach
<1> QED BY <1>13
(* Two sequences, each in order and apart, the first before the second.    *)
LEMMA JoinApart ==
  ASSUME NEW u \in Seq(Oid), NEW v \in Seq(Oid), Disjoint(u), Disjoint(v),
         \A i \in 1..Len(u), j \in 1..Len(v) : Apart(u[i], v[j])
  PROVE  Disjoint(u \o v)
<1> DEFINE w == u \o v
           m == Len(u)
           n == Len(v)
<1>1. m \in Nat /\ n \in Nat /\ Len(w) = m + n
  OBVIOUS
<1>2. ASSUME NEW i \in 1..m + n
      PROVE  w[i] = IF i <= m THEN u[i] ELSE v[i - m]
  OBVIOUS
<1> SUFFICES ASSUME NEW i \in 1..m + n, NEW j \in 1..m + n, i < j
             PROVE  Apart(w[i], w[j])
  BY <1>1 DEF Disjoint
<1> HIDE DEF w, m, n
<1>3. CASE j <= m
  <2>1. i \in 1..m /\ j \in 1..m /\ w[i] = u[i] /\ w[j] = u[j]
    BY <1>1, <1>2, <1>3
  <2> QED BY <2>1 DEF Disjoint, m
<1>4. CASE i <= m /\ ~(j <= m)
  <2>1. i \in 1..m /\ j - m \in 1..n /\ w[i] = u[i] /\ w[j] = v[j - m]
    BY <1>1, <1>2, <1>4
  <2> QED BY <2>1 DEF m, n
<1>5. CASE ~(i <= m)
  <2>1. i - m \in 1..n /\ j - m \in 1..n /\ i - m < j - m
        /\ w[i] = v[i - m] /\ w[j] = v[j - m]
    BY <1>1, <1>2, <1>5
  <2> QED BY <2>1 DEF Disjoint, n
<1> QED BY <1>1, <1>3, <1>4, <1>5

(* What two sequences have together.                                       *)
LEMMA JoinMembers ==
  ASSUME NEW u \in Seq(Oid), NEW v \in Seq(Oid)
  PROVE  ToSet(u \o v) = ToSet(u) \cup ToSet(v)
<1> DEFINE w == u \o v
           m == Len(u)
           n == Len(v)
<1>1. m \in Nat /\ n \in Nat /\ Len(w) = m + n /\ w \in Seq(Oid)
  OBVIOUS
<1>2. \A i \in 1..m + n : w[i] = IF i <= m THEN u[i] ELSE v[i - m]
  OBVIOUS
<1>3. /\ ToSet(w) = {w[i] : i \in 1..m + n} /\ ToSet(u) = {u[i] : i \in 1..m}
      /\ ToSet(v) = {v[i] : i \in 1..n}
  BY <1>1 DEF ToSet
<1> HIDE DEF w, m, n
<1>4. \A i \in 1..m : i \in 1..m + n /\ w[i] = u[i]
  BY <1>1, <1>2
<1>5. \A i \in 1..n : i + m \in 1..m + n /\ w[i + m] = v[i]
  BY <1>1, <1>2
<1>6. \A i \in 1..m + n : (i \in 1..m /\ w[i] = u[i]) \/ (i - m \in 1..n /\ w[i] = v[i - m])
  BY <1>1, <1>2
<1>7. ToSet(w) \subseteq ToSet(u) \cup ToSet(v)
  BY <1>3, <1>6
<1>8. ToSet(u) \subseteq ToSet(w) /\ ToSet(v) \subseteq ToSet(w)
  BY <1>3, <1>4, <1>5
<1> QED BY <1>7, <1>8 DEF w

(* Subtrees in order and apart, each replaced by ones within it.           *)
LEMMA FlattenApart ==
  ASSUME NEW k \in Seq(Oid), Disjoint(k), NEW qq \in Seq(Seq(Oid)), Len(qq) = Len(k),
         \A i \in 1..Len(k) : /\ Disjoint(qq[i])
                             /\ \A j \in 1..Len(qq[i]) : IsWithin(qq[i][j], k[i])
  PROVE  FlattenSeq(qq) \in Seq(Oid) /\ Disjoint(FlattenSeq(qq))
<1> DEFINE N == Len(k)
<1>1. N \in Nat /\ \A i \in 1..N : k[i] \in Oid /\ qq[i] \in Seq(Oid)
  OBVIOUS
<1>2. CASE N = 0
  <2>1. FlattenSeq(qq) = qq /\ qq = <<>>
    BY <1>2 DEF FlattenSeq
  <2> QED BY <2>1 DEF Disjoint
<1>3. CASE N # 0
  <2>1. PICK fl : FlattensEach(fl, qq)
    BY <1>3, FlattenSteps
  <2> DEFINE Fine(n) == /\ Disjoint(fl[n])
                        /\ \A j \in 1..Len(fl[n]) : \E i \in 1..n : IsWithin(fl[n][j], k[i])
             T == {n \in Nat : n + 1 <= N => Fine(n + 1)}
  <2>2. \A n \in 1..N : fl[n] \in Seq(Oid)
    BY <2>1 DEF FlattensEach
  <2>3. 0 \in T
    <3>1. fl[1] = qq[1] /\ 1 \in 1..N /\ 1 \in 1..1
      BY <1>1, <1>3, <2>1 DEF FlattensEach
    <3>2. Fine(1)
      BY <3>1
    <3> HIDE DEF Fine
    <3> QED BY <3>2
  <2>4. ASSUME NEW n \in T  PROVE n + 1 \in T
    <3> SUFFICES ASSUME (n + 1) + 1 <= N  PROVE Fine((n + 1) + 1)
      <4> HIDE DEF Fine
      <4> QED OBVIOUS
    <3> DEFINE m == n + 1
    <3>1. m \in Nat /\ m \in 1..N /\ m + 1 \in 1..N /\ m + 1 \in 2..Len(qq)
          /\ (m + 1) - 1 = m /\ n \in Nat /\ n + 1 <= N
      BY <1>1
    <3>2. Fine(m)
      <4> HIDE DEF Fine
      <4> QED BY <3>1
    <3> HIDE DEF T, N
    <3>3. fl[m + 1] = fl[m] \o qq[m + 1]
      <4> HIDE DEF m
      <4> QED BY <2>1, <3>1 DEF FlattensEach
    <3> HIDE DEF m
    <3> DEFINE u == fl[m]
               v == qq[m + 1]
    <3>4. /\ u \in Seq(Oid) /\ v \in Seq(Oid) /\ Disjoint(u) /\ Disjoint(v)
          /\ \A j \in 1..Len(u) : \E i \in 1..m : IsWithin(u[j], k[i])
          /\ \A j \in 1..Len(v) : IsWithin(v[j], k[m + 1])
      BY <1>1, <2>2, <3>1, <3>2 DEF N
    <3> HIDE DEF u, v
    <3>5. ASSUME NEW i \in 1..Len(u), NEW j \in 1..Len(v)  PROVE Apart(u[i], v[j])
      <4>1. PICK h \in 1..m : IsWithin(u[i], k[h])
        BY <3>4
      <4>2. h \in 1..N /\ h < m + 1
        BY <1>1, <3>1
      <4>3. Apart(k[h], k[m + 1])
        BY <3>1, <4>2 DEF Disjoint, N
      <4>4. u[i] \in Oid /\ v[j] \in Oid /\ k[h] \in Oid /\ k[m + 1] \in Oid
        BY <1>1, <3>1, <3>4, <4>2
      <4> QED BY <3>4, <4>1, <4>3, <4>4, ApartWithin
    <3>6. Disjoint(u \o v)
      BY <3>4, <3>5, JoinApart
    <3>7. \A j \in 1..Len(u \o v) : \E i \in 1..m + 1 : IsWithin((u \o v)[j], k[i])
      <4> TAKE j \in 1..Len(u \o v)
      <4>1. \/ j \in 1..Len(u) /\ (u \o v)[j] = u[j]
            \/ j - Len(u) \in 1..Len(v) /\ (u \o v)[j] = v[j - Len(u)]
        BY <3>4
      <4>2. CASE j \in 1..Len(u) /\ (u \o v)[j] = u[j]
        <5>1. PICK i \in 1..m : IsWithin(u[j], k[i])
          BY <3>4, <4>2
        <5>2. i \in 1..m + 1
          BY <3>1
        <5> QED BY <4>2, <5>1, <5>2
      <4>3. CASE j - Len(u) \in 1..Len(v) /\ (u \o v)[j] = v[j - Len(u)]
        <5>1. m + 1 \in 1..m + 1
          BY <3>1
        <5> QED BY <3>4, <4>3, <5>1
      <4> QED BY <4>1, <4>2, <4>3
    <3>8. fl[m + 1] = u \o v
      BY <3>3 DEF u, v
    <3>9. Fine(m + 1)
      BY <3>6, <3>7, <3>8
    <3> QED BY <3>9 DEF m
  <2> HIDE DEF T
  <2>5. T = Nat
    <3>1. T \subseteq Nat
      BY DEF T
    <3> QED BY <2>3, <2>4, <3>1, FromZeroOn
  <2>6. Fine(N)
    <3>1. N - 1 \in T /\ (N - 1) + 1 = N /\ N <= N
      BY <1>1, <1>3, <2>5
    <3> HIDE DEF Fine
    <3> QED BY <3>1 DEF T
  <2>7. FlattenSeq(qq) = fl[N] /\ N \in 1..N
    BY <1>1, <1>3, <2>1 DEF FlattensEach
  <2> QED BY <2>2, <2>6, <2>7
<1> QED BY <1>2, <1>3

(* FlattenSeq has what one of the sequences has, and nothing else.         *)
LEMMA FlattenMembers ==
  ASSUME NEW qq \in Seq(Seq(Oid)), NEW x
  PROVE  x \in ToSet(FlattenSeq(qq)) <=> \E i \in 1..Len(qq) : x \in ToSet(qq[i])
<1> DEFINE N == Len(qq)
<1>1. N \in Nat /\ \A i \in 1..N : qq[i] \in Seq(Oid)
  OBVIOUS
<1>2. CASE N = 0
  <2>1. FlattenSeq(qq) = <<>> /\ ToSet(<<>>) = {}
    BY <1>2 DEF FlattenSeq, ToSet
  <2> QED BY <1>2, <2>1
<1>3. CASE N # 0
  <2>1. PICK fl : FlattensEach(fl, qq)
    BY <1>3, FlattenSteps
  <2> DEFINE Has(n) == x \in ToSet(fl[n]) <=> \E i \in 1..n : x \in ToSet(qq[i])
             T == {n \in Nat : n + 1 <= N => Has(n + 1)}
  <2>2. \A n \in 1..N : fl[n] \in Seq(Oid)
    BY <2>1 DEF FlattensEach
  <2>3. 0 \in T
    <3>1. fl[1] = qq[1] /\ 1..1 = {1}
      BY <2>1 DEF FlattensEach
    <3> QED BY <3>1
  <2>4. ASSUME NEW n \in T  PROVE n + 1 \in T
    <3> SUFFICES ASSUME (n + 1) + 1 <= N  PROVE Has((n + 1) + 1)
      <4> HIDE DEF Has
      <4> QED OBVIOUS
    <3> DEFINE m == n + 1
    <3>1. m \in Nat /\ m \in 1..N /\ m + 1 \in 1..N /\ m + 1 \in 2..Len(qq)
          /\ (m + 1) - 1 = m /\ n \in Nat /\ n + 1 <= N
      BY <1>1
    <3>2. Has(m)
      <4> HIDE DEF Has
      <4> QED BY <3>1
    <3> HIDE DEF T, N
    <3>3. fl[m + 1] = fl[m] \o qq[m + 1]
      <4> HIDE DEF m
      <4> QED BY <2>1, <3>1 DEF FlattensEach
    <3> HIDE DEF m
    <3> DEFINE u == fl[m]
               v == qq[m + 1]
    <3>4. u \in Seq(Oid) /\ v \in Seq(Oid)
      BY <1>1, <2>2, <3>1
    <3> HIDE DEF u, v
    <3>5. ToSet(u \o v) = ToSet(u) \cup ToSet(v)
      BY <3>4, JoinMembers
    <3>6. 1..m + 1 = (1..m) \cup {m + 1}
      BY <3>1
    <3>7. Has(m + 1)
      BY <3>2, <3>3, <3>5, <3>6 DEF u, v
    <3> QED BY <3>7 DEF m
  <2> HIDE DEF T
  <2>5. T = Nat
    <3>1. T \subseteq Nat
      BY DEF T
    <3> QED BY <2>3, <2>4, <3>1, FromZeroOn
  <2>6. Has(N)
    <3>1. N - 1 \in T /\ (N - 1) + 1 = N /\ N <= N
      BY <1>1, <1>3, <2>5
    <3> HIDE DEF Has
    <3> QED BY <3>1 DEF T
  <2>7. FlattenSeq(qq) = fl[N]
    BY <2>1 DEF FlattensEach
  <2> QED BY <2>6, <2>7
<1> QED BY <1>2, <1>3

(* The subtrees of every plan are in order and apart.                      *)
LEMMA RootsApart ==
  ASSUME NEW r \in Runs
  PROVE  SelectRoots(r) \in Seq(Oid) /\ Disjoint(SelectRoots(r))
<1> DEFINE k == Kept(r)
           qq == [i \in DOMAIN k |-> Expanded(k[i])]
<1>1. k \in Seq(Oid) /\ Disjoint(k)
  BY KeptCovers
<1> HIDE DEF k
<1>2. DOMAIN k = 1..Len(k) /\ Len(k) \in Nat /\ \A i \in 1..Len(k) : k[i] \in Oid
  BY <1>1
<1>3. \A i \in 1..Len(k) :
        /\ Expanded(k[i]) \in Seq(Oid) /\ Disjoint(Expanded(k[i]))
        /\ \A j \in 1..Len(Expanded(k[i])) : IsWithin(Expanded(k[i])[j], k[i])
  BY <1>2, BranchesApart
<1>4. /\ qq \in Seq(Seq(Oid)) /\ Len(qq) = Len(k)
      /\ \A i \in 1..Len(k) : qq[i] = Expanded(k[i])
  BY <1>2, <1>3
<1> HIDE DEF qq
<1>5. FlattenSeq(qq) \in Seq(Oid) /\ Disjoint(FlattenSeq(qq))
  BY <1>1, <1>3, <1>4, FlattenApart
<1>6. SelectRoots(r) = IF r.perBranch THEN FlattenSeq(qq) ELSE k
  BY DEF SelectRoots, k, qq
<1> QED BY <1>1, <1>5, <1>6

(* What a plan has: with --per-branch, the branches of what was kept.      *)
LEMMA RootsMembers ==
  ASSUME NEW r \in Runs, NEW x
  PROVE  x \in ToSet(SelectRoots(r)) <=>
           IF r.perBranch THEN \E k \in ToSet(Kept(r)) : x \in ToSet(Expanded(k))
           ELSE x \in ToSet(Kept(r))
<1> DEFINE k == Kept(r)
           qq == [i \in DOMAIN k |-> Expanded(k[i])]
<1>1. k \in Seq(Oid)
  BY KeptCovers
<1> HIDE DEF k
<1>2. DOMAIN k = 1..Len(k) /\ Len(k) \in Nat /\ \A i \in 1..Len(k) : k[i] \in Oid
  BY <1>1
<1>3. /\ qq \in Seq(Seq(Oid)) /\ Len(qq) = Len(k)
      /\ \A i \in 1..Len(k) : qq[i] = Expanded(k[i])
  <2>1. \A i \in 1..Len(k) : Expanded(k[i]) \in Seq(Oid)
    BY <1>2, BranchesApart
  <2> QED BY <1>2, <2>1
<1> HIDE DEF qq
<1>4. x \in ToSet(FlattenSeq(qq)) <=> \E i \in 1..Len(k) : x \in ToSet(Expanded(k[i]))
  BY <1>3, FlattenMembers
<1>5. ToSet(k) = {k[i] : i \in 1..Len(k)}
  BY <1>2 DEF ToSet
<1>6. SelectRoots(r) = IF r.perBranch THEN FlattenSeq(qq) ELSE k
  BY DEF SelectRoots, k, qq
<1> QED BY <1>4, <1>5, <1>6 DEF k

\* One of the subtrees holds s.
Covered(s, roots) == \E root \in roots : IsWithin(s, root)

(* The plan against its definition, for every selection of roots.          *)
LEMMA PlanFollowsSpecs ==
  ASSUME NEW r \in Runs
  PROVE  /\ ToSet(Kept(r)) =
              {s \in Specs(r) : \A x \in Specs(r) : IsWithin(s, x) => s = x}
         /\ Increasing(SelectRoots(r))
         /\ \A s \in Specs(r) :
              ~Covered(s, ToSet(SelectRoots(r))) <=>
                /\ r.perBranch
                /\ \E k \in ToSet(Kept(r)) \cap DOMAIN Branches :
                     IsWithin(s, k) /\ ~Covered(s, {Append(k, n) : n \in Branches[k]})
<1> DEFINE S == Specs(r)
           k == Kept(r)
<1>1. S \subseteq Oid
  BY SpecsFinite
<1>2. /\ k \in Seq(Oid) /\ ToSet(k) \subseteq S /\ Disjoint(k)
      /\ \A s \in S : \E x \in ToSet(k) : IsWithin(s, x)
  BY KeptCovers
<1> HIDE DEF S, k
<1>3. ToSet(k) = {k[i] : i \in 1..Len(k)} /\ Len(k) \in Nat
  BY <1>2 DEF ToSet
<1>4. ASSUME NEW x \in ToSet(k), NEW y \in ToSet(k), IsWithin(x, y)  PROVE x = y
  <2>1. PICK i \in 1..Len(k), j \in 1..Len(k) : x = k[i] /\ y = k[j]
    BY <1>3
  <2>2. ~(i < j) /\ ~(j < i)
    BY <1>2, <1>4, <2>1 DEF Disjoint, Apart
  <2>3. i = j
    BY <1>3, <2>2
  <2> QED BY <2>1, <2>3
<1>5. ASSUME NEW s \in ToSet(k), NEW x \in S, IsWithin(s, x)  PROVE s = x
  <2>1. PICK y \in ToSet(k) : IsWithin(x, y)
    BY <1>2
  <2>2. s \in Oid /\ x \in Oid /\ y \in Oid
    BY <1>1, <1>2
  <2>3. IsWithin(s, y)
    BY <1>5, <2>1, <2>2, WithinTransitive
  <2>4. s = y
    BY <1>4, <2>3
  <2> QED BY <1>5, <2>1, <2>2, <2>4, WithinMutual
<1>6. ASSUME NEW s \in S, \A x \in S : IsWithin(s, x) => s = x  PROVE s \in ToSet(k)
  BY <1>2, <1>6
<1>7. ToSet(k) = {s \in S : \A x \in S : IsWithin(s, x) => s = x}
  BY <1>2, <1>5, <1>6
<1>8. Increasing(SelectRoots(r))
  <2> DEFINE q == SelectRoots(r)
  <2>1. q \in Seq(Oid) /\ Disjoint(q)
    BY RootsApart
  <2> HIDE DEF q
  <2>2. Len(q) \in Nat
    BY <2>1
  <2>3. \A i \in 1..Len(q) - 1 : i \in 1..Len(q) /\ i + 1 \in 1..Len(q) /\ i < i + 1
    BY <2>2
  <2>4. Increasing(q)
    BY <2>1, <2>3 DEF Disjoint, Apart, Increasing
  <2> QED BY <2>4 DEF q
<1> DEFINE all == ToSet(SelectRoots(r))
           of(x) == {Append(x, n) : n \in Branches[x]}
<1>9. \A x : x \in all <=> IF r.perBranch THEN \E y \in ToSet(k) : x \in ToSet(Expanded(y))
                            ELSE x \in ToSet(k)
  BY RootsMembers DEF k
<1>10. ASSUME NEW y \in ToSet(k)
       PROVE  /\ y \in Oid
              /\ ToSet(Expanded(y)) = IF y \in DOMAIN Branches THEN of(y) ELSE {y}
              /\ \A x \in ToSet(Expanded(y)) : x \in Oid /\ IsWithin(x, y)
  <2>1. y \in Oid
    BY <1>1, <1>2
  <2> DEFINE e == Expanded(y)
  <2>2. /\ e \in Seq(Oid) /\ \A i \in 1..Len(e) : IsWithin(e[i], y)
        /\ ToSet(e) = IF y \in DOMAIN Branches THEN of(y) ELSE {y}
    BY <2>1, BranchesApart
  <2> HIDE DEF e, of
  <2>3. ToSet(e) = {e[i] : i \in 1..Len(e)} /\ \A i \in 1..Len(e) : e[i] \in Oid
    BY <2>2 DEF ToSet
  <2> QED BY <2>1, <2>2, <2>3 DEF e
<1> HIDE DEF all, of
<1>11. ASSUME NEW s \in S, ~Covered(s, all)
       PROVE  /\ r.perBranch
              /\ \E y \in ToSet(k) \cap DOMAIN Branches : IsWithin(s, y) /\ ~Covered(s, of(y))
  <2>1. PICK y \in ToSet(k) : IsWithin(s, y)
    BY <1>2
  <2>2. r.perBranch
    BY <1>9, <1>11, <2>1 DEF Covered
  <2>3. \A x \in ToSet(Expanded(y)) : ~IsWithin(s, x)
    BY <1>9, <1>11, <2>2 DEF Covered
  <2>4. y \in DOMAIN Branches /\ ~Covered(s, of(y))
    BY <1>10, <2>1, <2>3 DEF Covered
  <2> QED BY <2>1, <2>2, <2>4
<1>12. ASSUME NEW s \in S, NEW y \in ToSet(k) \cap DOMAIN Branches, r.perBranch,
              IsWithin(s, y), ~Covered(s, of(y)), Covered(s, all)
       PROVE  FALSE
  <2>1. PICK x \in all : IsWithin(s, x)
    BY <1>12 DEF Covered
  <2>2. PICK z \in ToSet(k) : x \in ToSet(Expanded(z))
    BY <1>9, <1>12, <2>1
  <2>3. x \in Oid /\ IsWithin(x, z) /\ z \in Oid /\ y \in Oid /\ s \in Oid
    BY <1>1, <1>10, <2>2
  <2>4. IsWithin(s, z)
    BY <2>1, <2>3, WithinTransitive
  <2>5. y = z
    BY <1>4, <1>12, <2>3, <2>4, WithinBoth
  <2>6. x \in of(y)
    BY <1>10, <2>2, <2>5
  <2> QED BY <1>12, <2>1, <2>6 DEF Covered
<1>13. \A s \in S :
         ~Covered(s, all) <=>
           /\ r.perBranch
           /\ \E y \in ToSet(k) \cap DOMAIN Branches : IsWithin(s, y) /\ ~Covered(s, of(y))
  BY <1>11, <1>12
<1> QED BY <1>7, <1>8, <1>13 DEF S, k, all, of
-----------------------------------------------------------------------------
(* The walk.                                                               *)

(* The plan of the command line that runs.                                 *)
LEMMA RootsPlanned ==
  ASSUME run \in Runs
  PROVE  Roots \in Seq(Oid) /\ Disjoint(Roots)
BY RootsApart DEF Roots, Plan

(* There is at least one permit.                                           *)
LEMMA SomePermit ==
  Max({1, Concurrency}) \in Nat \ {0}
<1>1. Concurrency \in Int
  BY WalkAssumption
<1>2. \E x \in {1, Concurrency} : \A y \in {1, Concurrency} : x >= y
  BY <1>1
<1>3. Max({1, Concurrency}) \in {1, Concurrency} /\ Max({1, Concurrency}) >= 1
  BY <1>2 DEF Max
<1> QED BY <1>1, <1>3

(* The reports, and what the steps change in one.                          *)
Entries == [root : Oid, error : Errors, binds : Seq(Oids), truncated : BOOLEAN]
Reports == [version : {"v1", "v2c"}, reachable : BOOLEAN, error : Errors,
            subtrees : Seq(Entries)]
Places == {"idle", "waiting", "probe", "reprobe", "root", "rows", "done"}

Kinds ==
  /\ run \in Runs /\ run.version \in {"v1", "v2c"} /\ permits \in Nat
  /\ exit \in {-1, 0, 1} /\ pc \in [Hosts -> Places]
  /\ session \in [Hosts -> {"v1", "v2c"}] /\ report \in [Hosts -> Reports]
  /\ binds \in [Hosts -> Seq(Oids)] /\ timeouts \in [Hosts -> 0..2]
  /\ answered \in [Hosts -> SUBSET {"v1", "v2c"}]

(* Kinds is the type of the variables, with the fields of a report named.  *)
LEMMA TypedKinds == Typed <=> Kinds
BY WalkAssumption DEF Typed, Kinds, RunSet, Reports, Entries, Places, Oid

(* A report with another error keeps its other fields.                     *)
LEMMA ErrorSet ==
  ASSUME NEW r \in Reports, NEW e \in Errors
  PROVE  LET x == [r EXCEPT !.error = e]
         IN  /\ x \in Reports /\ x.version = r.version /\ x.reachable = r.reachable
             /\ x.error = e /\ x.subtrees = r.subtrees
BY DEF Reports

(* A report that becomes reachable keeps its other fields.                 *)
LEMMA ReachableSet ==
  ASSUME NEW r \in Reports
  PROVE  LET x == [r EXCEPT !.reachable = TRUE]
         IN  /\ x \in Reports /\ x.version = r.version /\ x.reachable
             /\ x.error = r.error /\ x.subtrees = r.subtrees
BY DEF Reports

(* A report that becomes reachable in a version keeps its other fields.    *)
LEMMA VersionSet ==
  ASSUME NEW r \in Reports, NEW v \in {"v1", "v2c"}
  PROVE  LET x == [r EXCEPT !.reachable = TRUE, !.version = v]
         IN  /\ x \in Reports /\ x.version = v /\ x.reachable
             /\ x.error = r.error /\ x.subtrees = r.subtrees
BY DEF Reports

(* A report with one subtree more keeps its other fields.                  *)
LEMMA SubtreeAdded ==
  ASSUME NEW r \in Reports, NEW s \in Entries
  PROVE  LET x == [r EXCEPT !.subtrees = Append(r.subtrees, s)]
         IN  /\ x \in Reports /\ x.version = r.version /\ x.reachable = r.reachable
             /\ x.error = r.error /\ x.subtrees = Append(r.subtrees, s)
<1> DEFINE l == Append(r.subtrees, s)
<1>1. l \in Seq(Entries)
  <2>1. r.subtrees \in Seq(Entries)
    BY DEF Reports
  <2> QED BY <2>1
<1> HIDE DEF l
<1>2. LET x == [r EXCEPT !.subtrees = l]
      IN  /\ x \in Reports /\ x.version = r.version /\ x.reachable = r.reachable
          /\ x.error = r.error /\ x.subtrees = l
  BY <1>1 DEF Reports
<1> QED BY <1>2 DEF l

(* The reports keep their type when one of them is replaced by a report.   *)
LEMMA ReportSet ==
  ASSUME report \in [Hosts -> Reports], NEW h \in Hosts, NEW rep \in Reports,
         report' = [report EXCEPT ![h] = rep]
  PROVE  report' \in [Hosts -> Reports] /\ report'[h] = rep
OBVIOUS

(* A subtree that is walked or skipped is one of the plan.                 *)
LEMMA SubtreeTyped ==
  ASSUME Kinds, NEW h \in Hosts, Len(report[h].subtrees) < Len(Roots),
         NEW error \in Errors, NEW found \in Seq(Oids), NEW cut \in BOOLEAN
  PROVE  Subtree(h, error, found, cut) \in Entries
<1>1. Roots \in Seq(Oid)
  BY RootsPlanned DEF Kinds
<1> DEFINE m == Len(report[h].subtrees)
<1>2. m \in Nat
  <2>1. report[h].subtrees \in Seq(Entries)
    BY DEF Kinds, Reports
  <2> QED BY <2>1
<1>3. Roots[m + 1] \in Oid
  <2> HIDE DEF m
  <2>1. m + 1 \in 1..Len(Roots)
    BY <1>1, <1>2 DEF m
  <2> HIDE DEF Roots
  <2> QED BY <1>1, <2>1
<1> QED BY <1>3 DEF Subtree, Entries

(* A step of a host leaves the others as they are.                         *)
LEMMA OthersKeep ==
  ASSUME Kinds, NEW h \in Hosts, Step(h), NEW g \in Hosts, g # h
  PROVE  /\ run' = run /\ exit' = exit
         /\ pc'[g] = pc[g] /\ session'[g] = session[g] /\ report'[g] = report[g]
         /\ binds'[g] = binds[g] /\ timeouts'[g] = timeouts[g]
         /\ answered'[g] = answered[g]
<1> USE DEF Kinds
<1>1. CASE Enter(h)
  BY <1>1 DEF Enter
<1>2. CASE Answered(h)
  BY <1>2 DEF Answered
<1>3. CASE Unanswered(h)
  BY <1>3 DEF Unanswered, Finish
<1>4. CASE Raises(h)
  BY <1>4 DEF Raises, Finish
<1>5. CASE NextRoot(h)
  BY <1>5 DEF NextRoot, Finish
<1>6. ASSUME NEW e, NEW f, NEW c, EndSubtree(h, e, f, c),
             UNCHANGED <<permits, session, answered, run, exit>>
      PROVE  /\ pc'[g] = pc[g] /\ session'[g] = session[g] /\ report'[g] = report[g]
             /\ binds'[g] = binds[g] /\ timeouts'[g] = timeouts[g]
             /\ answered'[g] = answered[g]
  BY <1>6 DEF EndSubtree
<1>7. CASE \E oid \in Oids, type \in Types : Row(h, oid, type)
  <2>1. PICK oid \in Oids, type \in Types : Row(h, oid, type)
    BY <1>7
  <2>2. CASE binds' = [binds EXCEPT ![h] = Append(binds[h], oid)]
             /\ UNCHANGED <<pc, report, timeouts>>
    BY <2>1, <2>2 DEF Row
  <2>3. CASE \/ EndSubtree(h, "none", Append(binds[h], oid), TRUE)
             \/ EndSubtree(h, "none", binds[h], FALSE)
             \/ EndSubtree(h, "other", binds[h], FALSE)
    <3> HIDE DEF Kinds
    <3> QED BY <2>1, <2>3, <1>6 DEF Row
  <2> QED BY <2>1, <2>2, <2>3 DEF Row
<1>8. CASE \E error \in {"none", "timeout", "other"} : RowsEnd(h, error)
  <2> HIDE DEF Kinds
  <2> QED BY <1>8, <1>6 DEF RowsEnd
<1> QED BY <1>1, <1>2, <1>3, <1>4, <1>5, <1>7, <1>8 DEF Step

(* A binding that is taken lies in the subtree and comes after the last.   *)
Follows(h, oid) ==
  LET root == Roots[Len(report[h].subtrees) + 1]
  IN  /\ IsWithin(oid, root)
      /\ Before(IF binds[h] = <<>> THEN root ELSE Last(binds[h]), oid)

(* The three ways of a step of the rows: one more binding, the limit, and  *)
(* the other ends of the subtree.                                          *)
Takes(h, oid) ==
  /\ pc[h] = "rows" /\ oid \in Oids /\ Follows(h, oid)
  /\ Len(Append(binds[h], oid)) < MaxOids
  /\ binds' = [binds EXCEPT ![h] = Append(binds[h], oid)]
  /\ UNCHANGED <<pc, report, timeouts, permits, session, answered, run, exit>>

Ends(h, error, found, cut) ==
  /\ pc[h] = "rows" /\ error \in {"none", "timeout", "other"}
  /\ \/ found = binds[h] /\ cut = FALSE
     \/ \E oid \in Oids : /\ found = Append(binds[h], oid) /\ cut = TRUE
                          /\ Follows(h, oid) /\ Len(found) >= MaxOids
  /\ EndSubtree(h, error, found, cut)
  /\ UNCHANGED <<permits, session, answered, run, exit>>

(* A binding, or the end of the rows, keeps the binding or ends the        *)
(* subtree.                                                                *)
LEMMA RowsCases ==
  ASSUME NEW h \in Hosts,
         \/ \E oid \in Oids, type \in Types : Row(h, oid, type)
         \/ \E error \in {"none", "timeout", "other"} : RowsEnd(h, error)
  PROVE  \/ \E oid \in Oids : Takes(h, oid)
         \/ \E error, found, cut : Ends(h, error, found, cut)
<1>1. ASSUME NEW oid \in Oids, NEW type \in Types, Row(h, oid, type)
      PROVE  \/ Takes(h, oid)
             \/ \E error, found, cut : Ends(h, error, found, cut)
  <2> DEFINE root == Roots[Len(report[h].subtrees) + 1]
             verdict == Judge(root, binds[h], oid, type)
             found == Append(binds[h], oid)
  <2>1. verdict = "take" => Follows(h, oid)
    BY DEF Judge, Follows
  <2> HIDE DEF root, verdict
  <2>2. /\ pc[h] = "rows" /\ UNCHANGED <<permits, session, answered, run, exit>>
        /\ \/ /\ verdict = "take" /\ Len(found) < MaxOids
              /\ binds' = [binds EXCEPT ![h] = found]
              /\ UNCHANGED <<pc, report, timeouts>>
           \/ /\ verdict = "take" /\ Len(found) >= MaxOids
              /\ EndSubtree(h, "none", found, TRUE)
           \/ EndSubtree(h, "none", binds[h], FALSE)
           \/ EndSubtree(h, "other", binds[h], FALSE)
    BY <1>1 DEF Row, verdict, root
  <2>3. CASE /\ verdict = "take" /\ Len(found) < MaxOids
             /\ binds' = [binds EXCEPT ![h] = found]
             /\ UNCHANGED <<pc, report, timeouts>>
    BY <2>1, <2>2, <2>3 DEF Takes
  <2>4. CASE /\ verdict = "take" /\ Len(found) >= MaxOids
             /\ EndSubtree(h, "none", found, TRUE)
    <3>1. Ends(h, "none", found, TRUE)
      BY <2>1, <2>2, <2>4 DEF Ends
    <3> QED BY <3>1
  <2>5. CASE EndSubtree(h, "none", binds[h], FALSE)
    <3>1. Ends(h, "none", binds[h], FALSE)
      BY <2>2, <2>5 DEF Ends
    <3> QED BY <3>1
  <2>6. CASE EndSubtree(h, "other", binds[h], FALSE)
    <3>1. Ends(h, "other", binds[h], FALSE)
      BY <2>2, <2>6 DEF Ends
    <3> QED BY <3>1
  <2> QED BY <2>2, <2>3, <2>4, <2>5, <2>6
<1>2. ASSUME NEW error \in {"none", "timeout", "other"}, RowsEnd(h, error)
      PROVE  \E e, f, c : Ends(h, e, f, c)
  <2>1. Ends(h, error, binds[h], FALSE)
    BY <1>2 DEF RowsEnd, Ends
  <2> QED BY <2>1
<1> QED BY <1>1, <1>2

(* What the end of a subtree changes: it is reported, and the next root is *)
(* up.                                                                     *)
LEMMA EndsEffect ==
  ASSUME Kinds, NEW h \in Hosts, NEW error, NEW found, NEW cut,
         Ends(h, error, found, cut),
         timeouts[h] < 2, Len(report[h].subtrees) < Len(Roots)
  PROVE  /\ Kinds' /\ pc'[h] = "root" /\ binds'[h] = <<>>
         /\ session'[h] = session[h] /\ answered'[h] = answered[h]
         /\ timeouts'[h] = IF error = "timeout" THEN timeouts[h] + 1 ELSE 0
         /\ report'[h].version = report[h].version
         /\ report'[h].reachable = report[h].reachable
         /\ report'[h].subtrees = Append(report[h].subtrees, Subtree(h, error, found, cut))
<1>1. binds[h] \in Seq(Oids) /\ report[h] \in Reports
  BY DEF Kinds
<1>2. found \in Seq(Oids) /\ cut \in BOOLEAN /\ error \in Errors
  <2>1. \A oid \in Oids : Append(binds[h], oid) \in Seq(Oids)
    BY <1>1
  <2> QED BY <1>1, <2>1 DEF Ends, Errors
<1> DEFINE s == Subtree(h, error, found, cut)
           rep == [report[h] EXCEPT !.subtrees = Append(report[h].subtrees, s)]
<1>3. s \in Entries
  BY <1>2, SubtreeTyped
<1>4. report' = [report EXCEPT ![h] = rep]
  BY DEF Ends, EndSubtree
<1> HIDE DEF s
<1>5. /\ rep \in Reports /\ rep.version = report[h].version
      /\ rep.reachable = report[h].reachable
      /\ rep.subtrees = Append(report[h].subtrees, s)
  BY <1>1, <1>3, SubtreeAdded
<1> HIDE DEF rep
<1>6. report' \in [Hosts -> Reports] /\ report'[h] = rep
  BY <1>4, <1>5, ReportSet DEF Kinds
<1>7. timeouts' \in [Hosts -> 0..2]
      /\ timeouts'[h] = IF error = "timeout" THEN timeouts[h] + 1 ELSE 0
  <2> DEFINE k == IF error = "timeout" THEN timeouts[h] + 1 ELSE 0
  <2>1. timeouts \in [Hosts -> 0..2]
    BY DEF Kinds
  <2>2. k \in 0..2
    BY <2>1
  <2>3. timeouts' = [timeouts EXCEPT ![h] = k]
    BY DEF Ends, EndSubtree
  <2> HIDE DEF k
  <2>4. timeouts' \in [Hosts -> 0..2] /\ timeouts'[h] = k
    BY <2>1, <2>2, <2>3
  <2> QED BY <2>4 DEF k
<1>8. /\ pc' \in [Hosts -> Places] /\ pc'[h] = "root"
      /\ binds' \in [Hosts -> Seq(Oids)] /\ binds'[h] = <<>>
  BY DEF Ends, EndSubtree, Kinds, Places
<1>9. UNCHANGED <<permits, session, answered, run, exit>>
  BY DEF Ends
<1>10. Kinds'
  BY <1>6, <1>7, <1>8, <1>9 DEF Kinds
<1> QED BY <1>5, <1>6, <1>7, <1>8, <1>9, <1>10 DEF s

(* The three ways of the loop over the roots.                              *)
Skips(h) ==
  /\ pc[h] = "root" /\ Len(report[h].subtrees) < Len(Roots) /\ timeouts[h] >= 2
  /\ report' = [report EXCEPT ![h].subtrees = Append(@, Subtree(h, "skipped", <<>>, FALSE))]
  /\ binds' = [binds EXCEPT ![h] = <<>>]
  /\ UNCHANGED <<pc, permits, session, timeouts, answered, run, exit>>

(* What a skipped root changes: it is reported as a subtree without        *)
(* bindings.                                                               *)
LEMMA SkipsEffect ==
  ASSUME Kinds, NEW h \in Hosts, Skips(h)
  PROVE  /\ Kinds' /\ binds'[h] = <<>>
         /\ report'[h].version = report[h].version
         /\ report'[h].reachable = report[h].reachable
         /\ report'[h].subtrees = Append(report[h].subtrees, Subtree(h, "skipped", <<>>, FALSE))
<1>1. report[h] \in Reports
  BY DEF Kinds
<1> DEFINE s == Subtree(h, "skipped", <<>>, FALSE)
           rep == [report[h] EXCEPT !.subtrees = Append(report[h].subtrees, s)]
<1>2. "skipped" \in Errors /\ <<>> \in Seq(Oids) /\ FALSE \in BOOLEAN
  BY DEF Errors
<1>3. s \in Entries
  BY <1>2, SubtreeTyped DEF Skips
<1>4. report' = [report EXCEPT ![h] = rep]
  BY DEF Skips
<1> HIDE DEF s
<1>5. /\ rep \in Reports /\ rep.version = report[h].version
      /\ rep.reachable = report[h].reachable
      /\ rep.subtrees = Append(report[h].subtrees, s)
  BY <1>1, <1>3, SubtreeAdded
<1> HIDE DEF rep
<1>6. report' \in [Hosts -> Reports] /\ report'[h] = rep
  BY <1>4, <1>5, ReportSet DEF Kinds
<1>7. binds' \in [Hosts -> Seq(Oids)] /\ binds'[h] = <<>>
  BY DEF Skips, Kinds
<1>8. UNCHANGED <<pc, permits, session, timeouts, answered, run, exit>>
  BY DEF Skips
<1>9. Kinds'
  BY <1>6, <1>7, <1>8 DEF Kinds
<1> QED BY <1>5, <1>6, <1>7, <1>9 DEF s

(* At a root it is skipped, or its subtree begins, or the host is done.    *)
LEMMA RootCases ==
  ASSUME NEW h \in Hosts, NextRoot(h)
  PROVE  \/ Skips(h)
         \/ /\ Len(report[h].subtrees) < Len(Roots) /\ timeouts[h] < 2
            /\ pc' = [pc EXCEPT ![h] = "rows"] /\ UNCHANGED <<report, permits>>
         \/ /\ Len(report[h].subtrees) = Len(Roots)
            /\ Finish(h, report[h])
BY DEF NextRoot, Skips

(* The steps of a host before its subtrees and how they change it.         *)
Opens(h) == Enter(h) \/ Answered(h) \/ Unanswered(h) \/ Raises(h)

(* Until its first root a task reports no subtree and walks none.          *)
LEMMA OpensEffect ==
  ASSUME Kinds, NEW h \in Hosts, Opens(h)
  PROVE  /\ Kinds' /\ pc[h] \in {"waiting", "probe", "reprobe"}
         /\ pc'[h] \in {"probe", "reprobe", "root", "done"}
         /\ report'[h].subtrees = report[h].subtrees
         /\ binds' = binds /\ timeouts' = timeouts
<1> DEFINE r == report[h]
<1>1. r \in Reports /\ pc[h] \in Places
  BY DEF Kinds
<1>2. CASE Enter(h)
  <2>1. /\ pc[h] = "waiting" /\ permits' \in Nat
        /\ pc' \in [Hosts -> Places] /\ pc'[h] \in {"probe", "root", "done"}
    <3>1. pc \in [Hosts -> Places] /\ permits \in Nat
      BY DEF Kinds
    <3>2. pc[h] = "waiting" /\ permits' \in Nat
      BY <1>2, <3>1 DEF Enter
    <3>3. PICK to \in {"probe", "root", "done"} : pc' = [pc EXCEPT ![h] = to]
      BY <1>2 DEF Enter
    <3>4. to \in Places
      BY DEF Places
    <3> QED BY <3>1, <3>2, <3>3, <3>4
  <2>2. \/ report' = [report EXCEPT ![h] = [r EXCEPT !.error = "other"]]
        \/ report' = [report EXCEPT ![h] = [r EXCEPT !.reachable = TRUE]]
        \/ report' = report
    BY <1>2 DEF Enter
  <2>3. report' \in [Hosts -> Reports] /\ report'[h].subtrees = r.subtrees
    <3> HIDE DEF r
    <3>1. "other" \in Errors
      BY DEF Errors
    <3>2. CASE report' = [report EXCEPT ![h] = [r EXCEPT !.error = "other"]]
      <4> DEFINE x == [r EXCEPT !.error = "other"]
      <4>1. x \in Reports /\ x.subtrees = r.subtrees
        BY <1>1, <3>1, ErrorSet
      <4> HIDE DEF x
      <4>2. report' = [report EXCEPT ![h] = x]
        BY <3>2 DEF x
      <4> QED BY <4>1, <4>2, ReportSet DEF Kinds
    <3>3. CASE report' = [report EXCEPT ![h] = [r EXCEPT !.reachable = TRUE]]
      <4> DEFINE x == [r EXCEPT !.reachable = TRUE]
      <4>1. x \in Reports /\ x.subtrees = r.subtrees
        BY <1>1, ReachableSet
      <4> HIDE DEF x
      <4>2. report' = [report EXCEPT ![h] = x]
        BY <3>3 DEF x
      <4> QED BY <4>1, <4>2, ReportSet DEF Kinds
    <3>4. CASE report' = report
      BY <3>4 DEF Kinds, r
    <3> QED BY <2>2, <3>2, <3>3, <3>4
  <2>4. UNCHANGED <<session, binds, timeouts, answered, run, exit>>
    BY <1>2 DEF Enter
  <2>5. Kinds'
    BY <2>1, <2>3, <2>4 DEF Kinds
  <2> QED BY <2>1, <2>3, <2>4, <2>5
<1>3. CASE Answered(h)
  <2> DEFINE v == IF pc[h] = "reprobe" THEN "v1" ELSE r.version
             x == [r EXCEPT !.reachable = TRUE, !.version = v]
  <2>1. report' = [report EXCEPT ![h] = x]
    BY <1>3 DEF Answered
  <2>2. v \in {"v1", "v2c"}
    BY <1>1 DEF Reports
  <2> HIDE DEF v, r
  <2>3. x \in Reports /\ x.subtrees = r.subtrees
    BY <1>1, <2>2, VersionSet
  <2> HIDE DEF x
  <2>4. report' \in [Hosts -> Reports] /\ report'[h].subtrees = r.subtrees
    BY <2>1, <2>3, ReportSet DEF Kinds
  <2>5. /\ pc[h] \in {"probe", "reprobe"} /\ pc' \in [Hosts -> Places] /\ pc'[h] = "root"
        /\ answered' \in [Hosts -> SUBSET {"v1", "v2c"}]
        /\ UNCHANGED <<permits, session, binds, timeouts, run, exit>>
    BY <1>3 DEF Answered, Kinds, Places
  <2>6. Kinds'
    BY <2>4, <2>5 DEF Kinds
  <2> QED BY <2>4, <2>5, <2>6 DEF r
<1>4. ASSUME NEW e \in Errors, Finish(h, [r EXCEPT !.error = e]),
             pc[h] \in {"probe", "reprobe"}, session' \in [Hosts -> {"v1", "v2c"}],
             UNCHANGED <<binds, timeouts, answered, run, exit>>
      PROVE  /\ Kinds' /\ pc'[h] = "done" /\ report'[h].subtrees = r.subtrees
  <2> DEFINE x == [r EXCEPT !.error = e]
  <2>1. report' = [report EXCEPT ![h] = x]
    BY <1>4 DEF Finish
  <2> HIDE DEF r
  <2>2. x \in Reports /\ x.subtrees = r.subtrees
    BY <1>1, ErrorSet
  <2> HIDE DEF x
  <2>3. report' \in [Hosts -> Reports] /\ report'[h].subtrees = r.subtrees
    BY <2>1, <2>2, ReportSet DEF Kinds
  <2>4. pc' \in [Hosts -> Places] /\ pc'[h] = "done" /\ permits' \in Nat
    BY <1>4 DEF Finish, Kinds, Places
  <2>5. Kinds'
    BY <1>4, <2>3, <2>4 DEF Kinds
  <2> QED BY <2>3, <2>4, <2>5
<1>5. CASE Unanswered(h)
  <2>1. session' \in [Hosts -> {"v1", "v2c"}]
    BY <1>5 DEF Unanswered, Kinds
  <2>2. CASE pc[h] = "probe" /\ run.fallback /\ run.version = "v2c"
    <3>1. /\ pc' \in [Hosts -> Places] /\ pc'[h] = "reprobe"
          /\ UNCHANGED <<report, permits, binds, timeouts, answered, run, exit>>
      BY <1>5, <2>2 DEF Unanswered, Kinds, Places
    <3>2. Kinds'
      BY <2>1, <3>1 DEF Kinds
    <3> QED BY <2>2, <3>1, <3>2
  <2>3. CASE ~(pc[h] = "probe" /\ run.fallback /\ run.version = "v2c")
    <3>1. /\ pc[h] \in {"probe", "reprobe"} /\ "timeout" \in Errors
          /\ Finish(h, [r EXCEPT !.error = "timeout"])
          /\ UNCHANGED <<binds, timeouts, answered, run, exit>>
      BY <1>5, <2>3 DEF Unanswered, Errors
    <3> QED BY <1>4, <2>1, <3>1
  <2> QED BY <2>2, <2>3
<1>6. CASE Raises(h)
  <2>1. /\ pc[h] \in {"probe", "reprobe"} /\ "other" \in Errors
        /\ Finish(h, [r EXCEPT !.error = "other"])
        /\ UNCHANGED <<session, binds, timeouts, answered, run, exit>>
    BY <1>6 DEF Raises, Errors
  <2>2. session' \in [Hosts -> {"v1", "v2c"}]
    BY <2>1 DEF Kinds
  <2> QED BY <1>4, <2>1, <2>2
<1> QED BY <1>2, <1>3, <1>5, <1>6 DEF Opens

(* A step of a task opens the session, is at a root, keeps a binding or    *)
(* ends a subtree.                                                         *)
LEMMA StepCases ==
  ASSUME NEW h \in Hosts, Step(h)
  PROVE  \/ Opens(h) \/ NextRoot(h)
         \/ \E oid \in Oids : Takes(h, oid)
         \/ \E error, found, cut : Ends(h, error, found, cut)
BY RowsCases DEF Step, Opens

(* A binding that is kept is the last of the subtree, and nothing else     *)
(* changes.                                                                *)
LEMMA TakesEffect ==
  ASSUME Kinds, NEW h \in Hosts, NEW oid \in Oids, Takes(h, oid)
  PROVE  Kinds' /\ binds'[h] = Append(binds[h], oid)
<1>1. binds \in [Hosts -> Seq(Oids)] /\ Append(binds[h], oid) \in Seq(Oids)
  <2>1. binds[h] \in Seq(Oids)
    BY DEF Kinds
  <2> QED BY <2>1 DEF Kinds
<1>2. binds' \in [Hosts -> Seq(Oids)] /\ binds'[h] = Append(binds[h], oid)
  <2> DEFINE f == Append(binds[h], oid)
  <2>1. binds' = [binds EXCEPT ![h] = f]
    BY DEF Takes
  <2> HIDE DEF f
  <2>2. binds' \in [Hosts -> Seq(Oids)] /\ binds'[h] = f
    BY <1>1, <2>1 DEF f
  <2> QED BY <2>2 DEF f
<1>3. UNCHANGED <<pc, report, timeouts, permits, session, answered, run, exit>>
  BY DEF Takes
<1>4. Kinds'
  BY <1>2, <1>3 DEF Kinds
<1> QED BY <1>2, <1>4

(* The loop over the roots but for a skip: the report stays as it is.      *)
LEMMA RootEffect ==
  ASSUME Kinds, NEW h \in Hosts, NextRoot(h)
  PROVE  /\ Kinds' /\ pc[h] = "root" /\ binds'[h] = <<>>
         /\ UNCHANGED <<session, timeouts, answered, run, exit>>
         /\ \/ Skips(h)
            \/ /\ Len(report[h].subtrees) < Len(Roots) /\ timeouts[h] < 2
               /\ pc' = [pc EXCEPT ![h] = "rows"] /\ UNCHANGED <<report, permits>>
            \/ /\ Len(report[h].subtrees) = Len(Roots)
               /\ pc' = [pc EXCEPT ![h] = "done"] /\ report' = report
               /\ permits' = permits + 1
<1>1. pc[h] = "root" /\ UNCHANGED <<session, timeouts, answered, run, exit>>
  BY DEF NextRoot
<1>2. binds' \in [Hosts -> Seq(Oids)] /\ binds'[h] = <<>>
  BY DEF NextRoot, Kinds
<1>3. CASE Skips(h)
  BY <1>1, <1>2, <1>3, SkipsEffect
<1>4. CASE /\ Len(report[h].subtrees) < Len(Roots) /\ timeouts[h] < 2
           /\ pc' = [pc EXCEPT ![h] = "rows"] /\ UNCHANGED <<report, permits>>
  <2>1. pc' \in [Hosts -> Places]
    BY <1>4 DEF Kinds, Places
  <2>2. Kinds'
    BY <1>1, <1>2, <1>4, <2>1 DEF Kinds
  <2> QED BY <1>1, <1>2, <1>4, <2>2
<1>5. CASE Len(report[h].subtrees) = Len(Roots) /\ Finish(h, report[h])
  <2>1. pc' = [pc EXCEPT ![h] = "done"] /\ permits' = permits + 1
    BY <1>5 DEF Finish
  <2>2. report' = report
    BY <1>5 DEF Finish, Kinds
  <2>3. pc' \in [Hosts -> Places] /\ permits' \in Nat
    BY <2>1 DEF Kinds, Places
  <2>4. Kinds'
    BY <1>1, <1>2, <2>2, <2>3 DEF Kinds
  <2> QED BY <1>1, <1>2, <1>5, <2>1, <2>2, <2>4
<1> QED BY <1>3, <1>4, <1>5, RootCases

(* A subtree is walked only while there is one left and at most one        *)
(* timeout was just counted.                                               *)
LEMMA KindsStep ==
  ASSUME Kinds, TimeoutsInv, NEW h \in Hosts, Step(h)
  PROVE  Kinds'
<1>1. CASE Opens(h)
  BY <1>1, OpensEffect
<1>2. CASE NextRoot(h)
  BY <1>2, RootEffect
<1>3. CASE \E oid \in Oids : Takes(h, oid)
  BY <1>3, TakesEffect
<1>4. CASE \E error, found, cut : Ends(h, error, found, cut)
  <2>1. PICK error, found, cut : Ends(h, error, found, cut)
    BY <1>4
  <2>2. timeouts[h] < 2 /\ Len(report[h].subtrees) < Len(Roots)
    BY <2>1 DEF Ends, TimeoutsInv
  <2> QED BY <2>1, <2>2, EndsEffect
<1> QED BY <1>1, <1>2, <1>3, <1>4, StepCases

(* Every step keeps the type of the variables.                             *)
LEMMA TypedStep == IInv /\ [Next]_vars => Typed'
<1> SUFFICES ASSUME IInv, [Next]_vars  PROVE Kinds'
  <2>1. Kinds' => Typed'
    BY TypedKinds, PTL
  <2> QED BY <2>1
<1>1. Kinds /\ TimeoutsInv
  BY TypedKinds DEF IInv
<1>2. ASSUME NEW h \in Hosts, Step(h)  PROVE Kinds'
  BY <1>1, <1>2, KindsStep
<1>3. CASE Exit
  BY <1>1, <1>3 DEF Exit, Kinds
<1>4. CASE UNCHANGED vars
  BY <1>1, <1>4 DEF vars, Kinds
<1> QED BY <1>2, <1>3, <1>4 DEF Next

(* Permits.                                                                *)
LEMMA PermitsStep ==
  IInv /\ [Next]_vars => IsFiniteSet(Inside)' /\ PermitsKept'
<1> SUFFICES ASSUME IInv, [Next]_vars  PROVE IsFiniteSet(Inside)' /\ PermitsKept'
  OBVIOUS
<1> DEFINE N == Max({1, Concurrency})
           Free == {"idle", "waiting", "done"}
<1>1. /\ Kinds /\ IsFiniteSet(Inside) /\ Cardinality(Inside) \in Nat
      /\ permits + Cardinality(Inside) = N /\ N \in Nat
  BY TypedKinds, FS_CardinalityType, SomePermit DEF IInv, PermitsKept
<1> HIDE DEF N
<1>2. permits \in Nat /\ pc \in [Hosts -> Places]
  BY <1>1 DEF Kinds
<1>3. SUFFICES IsFiniteSet(Inside') /\ permits' + Cardinality(Inside') = N
  BY DEF PermitsKept, N
<1>4. CASE Inside' = Inside /\ permits' = permits
  BY <1>1, <1>4
<1>5. ASSUME NEW h \in Hosts, NEW to \in Places, pc' = [pc EXCEPT ![h] = to]
      PROVE  Inside' = IF to \in Free THEN Inside \ {h} ELSE Inside \cup {h}
  <2>1. \A g \in Hosts : pc'[g] = IF g = h THEN to ELSE pc[g]
    BY <1>2, <1>5
  <2> QED BY <2>1 DEF Inside
<1>6. ASSUME NEW h \in Hosts, pc[h] \notin Free, pc' = [pc EXCEPT ![h] = "done"],
             permits' = permits + 1
      PROVE  IsFiniteSet(Inside') /\ permits' + Cardinality(Inside') = N
  <2>1. Inside' = Inside \ {h} /\ h \in Inside
    BY <1>5, <1>6 DEF Inside, Places
  <2>2. IsFiniteSet(Inside') /\ Cardinality(Inside') = Cardinality(Inside) - 1
    BY <1>1, <2>1, FS_RemoveElement
  <2> QED BY <1>1, <1>2, <1>6, <2>2
<1>7. ASSUME NEW h \in Hosts, NEW to \in Places \ Free, pc[h] \notin Free,
             pc' = [pc EXCEPT ![h] = to]
      PROVE  Inside' = Inside
  <2>1. Inside' = Inside \cup {h} /\ h \in Inside
    BY <1>5, <1>7 DEF Inside, Places
  <2> QED BY <2>1
<1>8. ASSUME NEW h \in Hosts, Step(h)
      PROVE  IsFiniteSet(Inside') /\ permits' + Cardinality(Inside') = N
  <2>1. CASE Enter(h)
    <3>1. h \notin Inside
      BY <2>1 DEF Enter, Inside
    <3>2. CASE pc' = [pc EXCEPT ![h] = "done"] /\ permits' = permits
      <4>1. Inside' = Inside
        <5>1. Inside' = Inside \ {h}
          BY <1>5, <3>2 DEF Places
        <5> QED BY <3>1, <5>1
      <4> QED BY <1>4, <3>2, <4>1
    <3>3. CASE /\ \/ pc' = [pc EXCEPT ![h] = "probe"] \/ pc' = [pc EXCEPT ![h] = "root"]
               /\ permits' = permits - 1
      <4>1. Inside' = Inside \cup {h}
        BY <1>5, <3>3 DEF Places
      <4>2. IsFiniteSet(Inside') /\ Cardinality(Inside') = Cardinality(Inside) + 1
        BY <1>1, <3>1, <4>1, FS_AddElement
      <4> QED BY <1>1, <1>2, <3>3, <4>2
    <3> QED BY <2>1, <3>2, <3>3 DEF Enter
  <2>2. CASE Answered(h)
    <3>1. Inside' = Inside /\ permits' = permits
      BY <1>7, <2>2 DEF Answered, Places
    <3> QED BY <1>4, <3>1
  <2>3. CASE Unanswered(h)
    <3>1. CASE pc' = [pc EXCEPT ![h] = "reprobe"] /\ pc[h] = "probe" /\ permits' = permits
      <4>1. Inside' = Inside
        BY <1>7, <3>1 DEF Places
      <4> QED BY <1>4, <3>1, <4>1
    <3>2. CASE /\ pc[h] \in {"probe", "reprobe"} /\ pc' = [pc EXCEPT ![h] = "done"]
               /\ permits' = permits + 1
      BY <1>6, <3>2
    <3> QED BY <2>3, <3>1, <3>2 DEF Unanswered, Finish
  <2>4. CASE Raises(h)
    BY <1>6, <2>4 DEF Raises, Finish
  <2>5. CASE NextRoot(h)
    <3>1. pc[h] = "root"
      BY <2>5 DEF NextRoot
    <3>2. CASE Skips(h)
      BY <1>4, <3>2 DEF Skips, Inside
    <3>3. CASE pc' = [pc EXCEPT ![h] = "rows"] /\ permits' = permits
      <4>1. Inside' = Inside
        BY <1>7, <3>1, <3>3 DEF Places
      <4> QED BY <1>4, <3>3, <4>1
    <3>4. CASE pc' = [pc EXCEPT ![h] = "done"] /\ permits' = permits + 1
      BY <1>6, <3>1, <3>4
    <3> QED BY <1>1, <2>5, <3>2, <3>3, <3>4, RootEffect
  <2>6. CASE \E oid \in Oids : Takes(h, oid)
    BY <1>4, <2>6 DEF Takes, Inside
  <2>7. CASE \E error, found, cut : Ends(h, error, found, cut)
    <3>1. pc[h] = "rows" /\ pc' = [pc EXCEPT ![h] = "root"] /\ permits' = permits
      BY <2>7 DEF Ends, EndSubtree
    <3>2. Inside' = Inside
      BY <1>7, <3>1 DEF Places
    <3> QED BY <1>4, <3>1, <3>2
  <2> QED BY <1>8, <2>1, <2>2, <2>3, <2>4, <2>5, <2>6, <2>7, StepCases DEF Opens
<1>9. CASE Exit
  BY <1>4, <1>9 DEF Exit, Inside
<1>10. CASE UNCHANGED vars
  BY <1>4, <1>10 DEF vars, Inside
<1> QED BY <1>8, <1>9, <1>10 DEF Next
(* The header, for one host.                                               *)
HeaderAt(h) ==
  /\ pc[h] \in {"idle", "waiting", "probe"} => session[h] = run.version
  /\ pc[h] = "reprobe" => session[h] = "v1"
  /\ pc[h] \in {"idle", "waiting", "probe", "reprobe"} =>
       ~report[h].reachable /\ report[h].subtrees = <<>>
  /\ pc[h] \in {"root", "rows"} => report[h].reachable
  /\ pc[h] \in {"root", "rows"} => session[h] = report[h].version
  /\ report[h].reachable /\ run.probe => report[h].version \in answered[h]
  /\ ~report[h].reachable => report[h].version = run.version

(* What opens the session keeps the header honest.                         *)
LEMMA HeaderOpens ==
  ASSUME Kinds, NEW h \in Hosts, Opens(h), HeaderAt(h)
  PROVE  HeaderAt(h)'
<1> DEFINE r == report[h]
           s == report'[h]
<1>1. r \in Reports /\ pc \in [Hosts -> Places] /\ session \in [Hosts -> {"v1", "v2c"}]
      /\ answered \in [Hosts -> SUBSET {"v1", "v2c"}] /\ report \in [Hosts -> Reports]
  BY DEF Kinds
<1>2. s.subtrees = r.subtrees /\ run' = run
  BY OpensEffect DEF Opens, Enter, Answered, Unanswered, Raises
<1>3. ASSUME NEW x \in Reports, report' = [report EXCEPT ![h] = x]  PROVE s = x
  BY <1>1, <1>3
<1>4. ASSUME NEW e \in Errors, report' = [report EXCEPT ![h] = [r EXCEPT !.error = e]]
      PROVE  s.version = r.version /\ s.reachable = r.reachable
  <2> DEFINE x == [r EXCEPT !.error = e]
  <2>1. x \in Reports /\ x.version = r.version /\ x.reachable = r.reachable
    BY <1>1, ErrorSet
  <2>2. report' = [report EXCEPT ![h] = x]
    BY <1>4
  <2> HIDE DEF x, s
  <2> QED BY <1>3, <2>1, <2>2
<1>5. CASE Enter(h)
  <2>1. pc[h] = "waiting" /\ UNCHANGED <<session, answered, run>>
    BY <1>5 DEF Enter
  <2>2. CASE /\ pc' = [pc EXCEPT ![h] = "done"]
             /\ report' = [report EXCEPT ![h].error = "other"]
    <3>1. s.version = r.version /\ s.reachable = r.reachable
      BY <1>4, <2>2 DEF Errors
    <3>2. pc'[h] = "done"
      BY <1>1, <2>2
    <3> QED BY <1>2, <2>1, <3>1, <3>2 DEF HeaderAt
  <2>3. CASE pc' = [pc EXCEPT ![h] = "probe"] /\ report' = report
    <3>1. pc'[h] = "probe"
      BY <1>1, <2>3
    <3> QED BY <2>1, <2>3, <3>1 DEF HeaderAt
  <2>4. CASE /\ ~run.probe /\ pc' = [pc EXCEPT ![h] = "root"]
             /\ report' = [report EXCEPT ![h].reachable = TRUE]
    <3> DEFINE x == [r EXCEPT !.reachable = TRUE]
    <3>1. x \in Reports /\ x.version = r.version /\ x.reachable
      BY <1>1, ReachableSet
    <3>2. report' = [report EXCEPT ![h] = x]
      BY <2>4
    <3>3. s = x
      <4> HIDE DEF x
      <4> QED BY <1>3, <3>1, <3>2
    <3>4. pc'[h] = "root"
      BY <1>1, <2>4
    <3> HIDE DEF x
    <3> QED BY <1>2, <2>1, <2>4, <3>1, <3>3, <3>4 DEF HeaderAt
  <2> QED BY <1>5, <2>2, <2>3, <2>4 DEF Enter
<1>6. CASE Answered(h)
  <2> DEFINE v == IF pc[h] = "reprobe" THEN "v1" ELSE r.version
             x == [r EXCEPT !.reachable = TRUE, !.version = v]
  <2>1. report' = [report EXCEPT ![h] = x]
    BY <1>6 DEF Answered
  <2>2. v \in {"v1", "v2c"}
    BY <1>1 DEF Reports
  <2>3. x \in Reports /\ x.version = v /\ x.reachable
    <3> HIDE DEF v, r
    <3> QED BY <1>1, <2>2, VersionSet
  <2>4. s = x
    <3> HIDE DEF x
    <3> QED BY <1>3, <2>1, <2>3
  <2>5. /\ pc[h] \in {"probe", "reprobe"} /\ pc'[h] = "root"
        /\ answered'[h] = answered[h] \cup {session[h]} /\ session' = session
    BY <1>1, <1>6 DEF Answered
  <2>6. session[h] = v
    BY <2>5 DEF HeaderAt
  <2> HIDE DEF x, v
  <2> QED BY <1>2, <2>3, <2>4, <2>5, <2>6 DEF HeaderAt
<1>7. CASE Unanswered(h)
  <2>1. CASE pc[h] = "probe" /\ run.fallback /\ run.version = "v2c"
    <3>1. /\ pc'[h] = "reprobe" /\ session'[h] = "v1"
          /\ report' = report /\ answered' = answered
      BY <1>1, <1>7, <2>1 DEF Unanswered
    <3> QED BY <1>2, <2>1, <3>1 DEF HeaderAt
  <2>2. CASE ~(pc[h] = "probe" /\ run.fallback /\ run.version = "v2c")
    <3>1. /\ pc[h] \in {"probe", "reprobe"} /\ pc'[h] = "done" /\ answered' = answered
          /\ report' = [report EXCEPT ![h] = [r EXCEPT !.error = "timeout"]]
      BY <1>1, <1>7, <2>2 DEF Unanswered, Finish
    <3>2. s.version = r.version /\ s.reachable = r.reachable
      BY <1>4, <3>1 DEF Errors
    <3> QED BY <1>2, <3>1, <3>2 DEF HeaderAt
  <2> QED BY <2>1, <2>2
<1>8. CASE Raises(h)
  <2>1. /\ pc[h] \in {"probe", "reprobe"} /\ pc'[h] = "done" /\ answered' = answered
        /\ report' = [report EXCEPT ![h] = [r EXCEPT !.error = "other"]]
    BY <1>1, <1>8 DEF Raises, Finish
  <2>2. s.version = r.version /\ s.reachable = r.reachable
    BY <1>4, <2>1 DEF Errors
  <2> QED BY <1>2, <2>1, <2>2 DEF HeaderAt
<1> QED BY <1>5, <1>6, <1>7, <1>8 DEF Opens

(* Every step keeps the headers honest.                                    *)
LEMMA HeaderStep ==
  IInv /\ [Next]_vars => HeaderInv' /\ HeaderHonest'
<1> SUFFICES ASSUME IInv, [Next]_vars  PROVE \A h \in Hosts : HeaderAt(h)'
  BY DEF HeaderInv, HeaderHonest, HeaderAt
<1>1. Kinds /\ TimeoutsInv /\ \A h \in Hosts : HeaderAt(h)
  BY TypedKinds DEF IInv, HeaderInv, HeaderHonest, HeaderAt
<1>2. ASSUME NEW h \in Hosts, Step(h)  PROVE \A g \in Hosts : HeaderAt(g)'
  <2>1. ASSUME NEW g \in Hosts, g # h  PROVE HeaderAt(g)'
    BY <1>1, <1>2, <2>1, OthersKeep DEF HeaderAt
  <2>2. CASE Opens(h)
    BY <1>1, <2>1, <2>2, HeaderOpens
  <2>3. CASE NextRoot(h)
    <3>1. /\ pc[h] = "root" /\ UNCHANGED <<session, answered, run>>
          /\ report'[h].version = report[h].version
          /\ report'[h].reachable = report[h].reachable
          /\ pc'[h] \in {"root", "rows", "done"}
      <4>1. pc \in [Hosts -> Places]
        BY <1>1 DEF Kinds
      <4>2. CASE Skips(h)
        BY <1>1, <2>3, <4>2, RootEffect, SkipsEffect DEF Skips
      <4>3. CASE report' = report /\ (pc' = [pc EXCEPT ![h] = "rows"]
                                     \/ pc' = [pc EXCEPT ![h] = "done"])
        BY <1>1, <2>3, <4>1, <4>3, RootEffect
      <4> QED BY <1>1, <2>3, <4>2, <4>3, RootEffect
    <3>2. HeaderAt(h)'
      BY <1>1, <3>1 DEF HeaderAt
    <3> QED BY <2>1, <3>2
  <2>4. CASE \E oid \in Oids : Takes(h, oid)
    <3>1. HeaderAt(h)'
      BY <1>1, <2>4 DEF HeaderAt, Takes
    <3> QED BY <2>1, <3>1
  <2>5. CASE \E error, found, cut : Ends(h, error, found, cut)
    <3>1. PICK error, found, cut : Ends(h, error, found, cut)
      BY <2>5
    <3>2. timeouts[h] < 2 /\ Len(report[h].subtrees) < Len(Roots) /\ pc[h] = "rows"
          /\ run' = run
      BY <1>1, <3>1 DEF Ends, TimeoutsInv
    <3>3. /\ pc'[h] = "root" /\ session'[h] = session[h] /\ answered'[h] = answered[h]
          /\ report'[h].version = report[h].version
          /\ report'[h].reachable = report[h].reachable
      BY <1>1, <3>1, <3>2, EndsEffect
    <3>4. HeaderAt(h)'
      BY <1>1, <3>2, <3>3 DEF HeaderAt
    <3> QED BY <2>1, <3>4
  <2> QED BY <1>2, <2>2, <2>3, <2>4, <2>5, StepCases
<1>3. CASE Exit
  BY <1>1, <1>3 DEF Exit, HeaderAt
<1>4. CASE UNCHANGED vars
  BY <1>1, <1>4 DEF vars, HeaderAt
<1> QED BY <1>2, <1>3, <1>4 DEF Next
(* The subtrees of a report and the count of timeouts after them.          *)
Dead(s) == s.error \in {"timeout", "skipped"}

Counted(subs, count) ==
  LET n == Len(subs)
  IN  /\ n <= Len(Roots)
      /\ count >= 1 <=> n >= 1 /\ Dead(subs[n])
      /\ count >= 2 <=> n >= 2 /\ Dead(subs[n]) /\ Dead(subs[n - 1])
      /\ \A i \in DOMAIN subs : subs[i].root = Roots[i]
      /\ \A i \in DOMAIN subs :
           subs[i].error = "skipped" <=> i > 2 /\ Dead(subs[i - 1]) /\ Dead(subs[i - 2])

TimeoutsAt(h) ==
  /\ Counted(report[h].subtrees, timeouts[h])
  /\ pc[h] = "rows" => Len(report[h].subtrees) < Len(Roots) /\ timeouts[h] < 2
  /\ pc[h] = "done" /\ report[h].reachable => Len(report[h].subtrees) = Len(Roots)

(* What is said of the roots and the timeouts is said host by host.        *)
LEMMA TimeoutsHosts ==
  TimeoutsInv /\ RootsReported <=> \A h \in Hosts : TimeoutsAt(h)
BY DEF TimeoutsInv, RootsReported, TimeoutsAt, Counted, Dead

(* One subtree more, skipped or not, and the count of the timeouts is      *)
(* again that of the last ones reported.                                   *)
LEMMA CountGrows ==
  ASSUME NEW subs \in Seq(Entries), NEW s \in Entries, NEW t \in 0..2, NEW u,
         Counted(subs, t), Len(subs) < Len(Roots), Roots \in Seq(Oid),
         s.root = Roots[Len(subs) + 1],
         \/ t >= 2 /\ s.error = "skipped" /\ u = t
         \/ /\ t < 2 /\ s.error \in {"none", "timeout", "other"}
            /\ u = IF s.error = "timeout" THEN t + 1 ELSE 0
  PROVE  Counted(Append(subs, s), u)
<1> DEFINE n == Len(subs)
           m == n + 1
           l == Append(subs, s)
<1>1. /\ n \in Nat /\ Len(Roots) \in Nat /\ l \in Seq(Entries) /\ Len(l) = m
      /\ l[m] = s /\ DOMAIN l = 1..m /\ \A i \in 1..n : l[i] = subs[i]
      /\ DOMAIN subs = 1..n
  <2> HIDE DEF Roots
  <2> QED OBVIOUS
<1>2. /\ t >= 1 <=> n >= 1 /\ Dead(subs[n])
      /\ t >= 2 <=> n >= 2 /\ Dead(subs[n]) /\ Dead(subs[n - 1])
      /\ \A i \in 1..n : subs[i].root = Roots[i]
      /\ \A i \in 1..n :
           subs[i].error = "skipped" <=> i > 2 /\ Dead(subs[i - 1]) /\ Dead(subs[i - 2])
  BY <1>1 DEF Counted
<1> HIDE DEF l
<1>3. n >= 1 => l[n] = subs[n]
  BY <1>1
<1>4. u >= 1 <=> Dead(l[m])
  BY <1>1 DEF Dead
<1>5. u >= 2 <=> m >= 2 /\ Dead(l[m]) /\ Dead(l[m - 1])
  <2>1. (m - 1) = n /\ (m >= 2 <=> n >= 1)
    BY <1>1
  <2>2. u >= 2 <=> (t >= 1 /\ Dead(s))
    BY DEF Dead
  <2> HIDE DEF m
  <2> QED BY <1>1, <1>2, <1>3, <2>1, <2>2
<1>6. ASSUME NEW i \in 1..m  PROVE l[i].root = Roots[i]
  <2>1. CASE i = m
    BY <1>1, <2>1
  <2>2. CASE i # m
    <3>1. i \in 1..n
      BY <1>1, <2>2
    <3> QED BY <1>1, <1>2, <3>1
  <2> QED BY <2>1, <2>2
<1>7. ASSUME NEW i \in 1..m
      PROVE  l[i].error = "skipped" <=> i > 2 /\ Dead(l[i - 1]) /\ Dead(l[i - 2])
  <2>1. CASE i = m
    <3>1. m > 2 <=> n >= 2
      BY <1>1
    <3>2. n >= 2 => l[m - 1] = subs[n] /\ l[m - 2] = subs[n - 1]
      <4> SUFFICES ASSUME n >= 2  PROVE l[m - 1] = subs[n] /\ l[m - 2] = subs[n - 1]
        OBVIOUS
      <4>1. m - 1 = n /\ m - 2 = n - 1 /\ n \in 1..n /\ n - 1 \in 1..n
        BY <1>1
      <4> QED BY <1>1, <4>1
    <3>3. s.error = "skipped" <=> t >= 2
      OBVIOUS
    <3> HIDE DEF m, n
    <3> QED BY <1>1, <1>2, <2>1, <3>1, <3>2, <3>3
  <2>2. CASE i # m
    <3>1. i \in 1..n
      BY <1>1, <2>2
    <3>2. i > 2 => i - 1 \in 1..n /\ i - 2 \in 1..n
      BY <1>1, <3>1
    <3> HIDE DEF n, m
    <3> QED BY <1>1, <1>2, <3>1, <3>2
  <2> QED BY <2>1, <2>2
<1>8. m <= Len(Roots) /\ m >= 1
  <2> HIDE DEF Roots
  <2> QED BY <1>1
<1>9. Counted(l, u)
  <2>1. Len(l) = m /\ DOMAIN l = 1..m
    BY <1>1
  <2> HIDE DEF m
  <2> QED BY <1>4, <1>5, <1>6, <1>7, <1>8, <2>1 DEF Counted
<1> QED BY <1>9 DEF l

(* Every step keeps the roots in the order of the plan, and the count of   *)
(* timeouts.                                                               *)
LEMMA TimeoutsStep ==
  IInv /\ [Next]_vars => TimeoutsInv' /\ RootsReported'
<1> SUFFICES ASSUME IInv, [Next]_vars  PROVE \A h \in Hosts : TimeoutsAt(h)'
  <2>1. (\A h \in Hosts : TimeoutsAt(h))' => TimeoutsInv' /\ RootsReported'
    BY TimeoutsHosts, PTL
  <2> QED BY <2>1
<1>1. Kinds /\ TimeoutsInv /\ HeaderInv /\ \A h \in Hosts : TimeoutsAt(h)
  BY TypedKinds, TimeoutsHosts DEF IInv
<1>2. Roots \in Seq(Oid)
  BY <1>1, RootsPlanned DEF Kinds
<1>3. ASSUME run' = run  PROVE Roots' = Roots
  BY <1>3 DEF Roots
<1>4. ASSUME NEW h \in Hosts, pc'[h] = pc[h], report'[h] = report[h],
             timeouts'[h] = timeouts[h], Roots' = Roots
      PROVE  TimeoutsAt(h)'
  BY <1>1, <1>4 DEF TimeoutsAt, Counted
<1>5. ASSUME NEW h \in Hosts, Step(h)  PROVE \A g \in Hosts : TimeoutsAt(g)'
  <2> DEFINE subs == report[h].subtrees
             n == Len(subs)
  <2>1. Roots' = Roots /\ run' = run
    <3>1. run' = run
      BY <1>5 DEF Step, Enter, Answered, Unanswered, Raises, NextRoot, Row, RowsEnd
    <3> QED BY <1>3, <3>1
  <2>2. ASSUME NEW g \in Hosts, g # h  PROVE TimeoutsAt(g)'
    BY <1>1, <1>4, <1>5, <2>1, <2>2, OthersKeep
  <2>3. subs \in Seq(Entries) /\ timeouts[h] \in 0..2 /\ report[h] \in Reports
        /\ Counted(subs, timeouts[h]) /\ pc \in [Hosts -> Places] /\ n \in Nat
    <3>1. subs \in Seq(Entries)
      BY <1>1 DEF Kinds, Reports
    <3>2. n \in Nat
      BY <3>1
    <3> QED BY <1>1, <3>1, <3>2 DEF Kinds, TimeoutsAt
  <2>4. CASE Opens(h)
    <3>1. /\ pc'[h] \in {"probe", "reprobe", "root", "done"} /\ report'[h].subtrees = subs
          /\ timeouts' = timeouts /\ pc[h] \in {"waiting", "probe", "reprobe"}
      BY <1>1, <2>4, OpensEffect
    <3>2. ~(pc'[h] = "done" /\ report'[h].reachable)
      <4>1. ~report[h].reachable
        BY <1>1, <3>1 DEF HeaderInv
      <4>2. ASSUME NEW e \in Errors, report' = [report EXCEPT ![h] = [report[h] EXCEPT !.error = e]]
            PROVE  ~report'[h].reachable
        <5> DEFINE x == [report[h] EXCEPT !.error = e]
        <5>1. x \in Reports /\ x.reachable = report[h].reachable
          BY <2>3, ErrorSet
        <5> HIDE DEF x
        <5>2. report' = [report EXCEPT ![h] = x]
          BY <4>2 DEF x
        <5>3. report'[h] = x
          BY <1>1, <5>1, <5>2, ReportSet DEF Kinds
        <5> QED BY <4>1, <5>1, <5>3
      <4>3. CASE Enter(h)
        <5>1. CASE report' = [report EXCEPT ![h].error = "other"]
          BY <4>2, <5>1 DEF Errors
        <5>2. CASE report' = report
          BY <4>1, <5>2
        <5>3. CASE pc' = [pc EXCEPT ![h] = "root"]
          BY <2>3, <5>3
        <5> QED BY <4>3, <5>1, <5>2, <5>3 DEF Enter
      <4>4. CASE Answered(h)
        BY <2>3, <4>4 DEF Answered
      <4>5. CASE Unanswered(h)
        <5>1. CASE report' = report
          BY <4>1, <5>1
        <5>2. CASE report' = [report EXCEPT ![h] = [report[h] EXCEPT !.error = "timeout"]]
          BY <4>2, <5>2 DEF Errors
        <5> QED BY <4>5, <5>1, <5>2 DEF Unanswered, Finish
      <4>6. CASE Raises(h)
        BY <4>2, <4>6 DEF Raises, Finish, Errors
      <4> QED BY <2>4, <4>3, <4>4, <4>5, <4>6 DEF Opens
    <3>3. TimeoutsAt(h)'
      <4> HIDE DEF subs
      <4> QED BY <2>1, <2>3, <3>1, <3>2 DEF TimeoutsAt, Counted
    <3> QED BY <2>2, <3>3
  <2>5. CASE NextRoot(h)
    <3>1. UNCHANGED timeouts
      BY <2>5 DEF NextRoot
    <3>2. CASE Skips(h)
      <4> DEFINE s == Subtree(h, "skipped", <<>>, FALSE)
      <4>1. /\ report'[h].subtrees = Append(subs, s)
            /\ pc[h] = "root" /\ pc' = pc /\ n < Len(Roots) /\ timeouts[h] >= 2
        BY <1>1, <3>2, SkipsEffect DEF Skips
      <4>2. s \in Entries
        <5>1. "skipped" \in Errors /\ <<>> \in Seq(Oids) /\ FALSE \in BOOLEAN
          BY DEF Errors
        <5> QED BY <1>1, <4>1, <5>1, SubtreeTyped
      <4>3. s.root = Roots[n + 1] /\ s.error = "skipped"
        BY DEF Subtree
      <4> HIDE DEF s, subs
      <4>4. Counted(Append(subs, s), timeouts[h])
        BY <1>2, <2>3, <4>1, <4>2, <4>3, CountGrows
      <4>5. Counted(report[h].subtrees, timeouts[h])'
        BY <2>1, <3>1, <4>1, <4>4 DEF Counted
      <4>6. TimeoutsAt(h)'
        BY <4>1, <4>5 DEF TimeoutsAt
      <4> QED BY <2>2, <4>6
    <3>3. CASE /\ n < Len(Roots) /\ timeouts[h] < 2
               /\ pc' = [pc EXCEPT ![h] = "rows"] /\ report' = report
      <4>1. pc'[h] = "rows"
        BY <2>3, <3>3
      <4>2. TimeoutsAt(h)'
        BY <2>1, <2>3, <3>1, <3>3, <4>1 DEF TimeoutsAt, Counted
      <4> QED BY <2>2, <4>2
    <3>4. CASE n = Len(Roots) /\ pc' = [pc EXCEPT ![h] = "done"] /\ report' = report
      <4>1. pc'[h] = "done"
        BY <2>3, <3>4
      <4>2. TimeoutsAt(h)'
        BY <2>1, <2>3, <3>1, <3>4, <4>1 DEF TimeoutsAt, Counted
      <4> QED BY <2>2, <4>2
    <3> QED BY <1>1, <2>5, <3>2, <3>3, <3>4, RootEffect
  <2>6. CASE \E oid \in Oids : Takes(h, oid)
    <3>1. TimeoutsAt(h)'
      BY <1>4, <2>1, <2>6 DEF Takes
    <3> QED BY <2>2, <3>1
  <2>7. CASE \E error, found, cut : Ends(h, error, found, cut)
    <3>1. PICK error, found, cut : Ends(h, error, found, cut)
      BY <2>7
    <3>2. /\ timeouts[h] < 2 /\ n < Len(Roots) /\ error \in {"none", "timeout", "other"}
      BY <1>1, <3>1 DEF Ends, TimeoutsInv
    <3> DEFINE s == Subtree(h, error, found, cut)
    <3>3. /\ Kinds' /\ pc'[h] = "root" /\ report'[h].subtrees = Append(subs, s)
          /\ timeouts'[h] = IF error = "timeout" THEN timeouts[h] + 1 ELSE 0
      BY <1>1, <3>1, <3>2, EndsEffect
    <3>4. s \in Entries
      <4>1. binds[h] \in Seq(Oids)
        BY <1>1 DEF Kinds
      <4>2. \A oid \in Oids : Append(binds[h], oid) \in Seq(Oids)
        BY <4>1
      <4>3. found \in Seq(Oids) /\ cut \in BOOLEAN /\ error \in Errors
        BY <3>1, <4>1, <4>2 DEF Ends, Errors
      <4> QED BY <1>1, <3>2, <4>3, SubtreeTyped
    <3>5. s.root = Roots[n + 1] /\ s.error = error
      BY DEF Subtree
    <3> HIDE DEF s, subs
    <3>6. Counted(Append(subs, s), timeouts'[h])
      BY <1>2, <2>3, <3>2, <3>3, <3>4, <3>5, CountGrows
    <3>7. Counted(report[h].subtrees, timeouts[h])'
      BY <2>1, <3>3, <3>6 DEF Counted
    <3>8. TimeoutsAt(h)'
      BY <3>3, <3>7 DEF TimeoutsAt
    <3> QED BY <2>2, <3>8
  <2> QED BY <1>5, <2>4, <2>5, <2>6, <2>7, StepCases
<1>6. CASE Exit
  BY <1>1, <1>3, <1>4, <1>6 DEF Exit
<1>7. CASE UNCHANGED vars
  BY <1>1, <1>3, <1>4, <1>7 DEF vars
<1> QED BY <1>5, <1>6, <1>7 DEF Next
(* The bindings of a subtree, walked or being walked.                      *)
Ordered(root, b) ==
  /\ Increasing(b) /\ \A j \in DOMAIN b : IsWithin(b[j], root)

RowsAt(h) ==
  /\ Increasing(binds[h]) /\ Len(binds[h]) < MaxOids
  /\ pc[h] = "rows" => Ordered(Roots[Len(report[h].subtrees) + 1], binds[h])
  /\ \A i \in DOMAIN report[h].subtrees :
       LET s == report[h].subtrees[i]
       IN  Ordered(s.root, s.binds) /\ (s.truncated <=> Len(s.binds) = MaxOids)

(* What is said of the bindings is said host by host.                      *)
LEMMA RowsHosts ==
  RowsInv /\ SubtreesInOrder <=> \A h \in Hosts : RowsAt(h)
BY DEF RowsInv, SubtreesInOrder, RowsAt, Ordered

(* A subtree without bindings is in order.                                 *)
LEMMA NothingOrdered ==
  ASSUME NEW root
  PROVE  Ordered(root, <<>>) /\ Increasing(<<>>)
BY DEF Ordered, Increasing

(* A binding within the root, after the last one, keeps them in order.     *)
LEMMA FollowsOrdered ==
  ASSUME NEW root, NEW b \in Seq(Oids), NEW oid \in Oids, Ordered(root, b),
         IsWithin(oid, root), Before(IF b = <<>> THEN root ELSE Last(b), oid)
  PROVE  Ordered(root, Append(b, oid))
<1> DEFINE n == Len(b)
           l == Append(b, oid)
<1>1. /\ n \in Nat /\ Len(l) = n + 1 /\ l[n + 1] = oid /\ DOMAIN l = 1..n + 1
      /\ DOMAIN b = 1..n /\ \A i \in 1..n : l[i] = b[i]
  OBVIOUS
<1>2. n # 0 => Before(b[n], oid)
  BY DEF Last
<1> HIDE DEF l
<1>3. ASSUME NEW i \in 1..Len(l) - 1  PROVE Before(l[i], l[i + 1])
  <2>0. i \in 1..n
    <3> HIDE DEF n
    <3> QED BY <1>1
  <2>1. CASE i = n
    <3> HIDE DEF n
    <3> QED BY <1>1, <1>2, <2>1
  <2>2. CASE i # n
    <3>1. i \in 1..n - 1 /\ i + 1 \in 1..n
      <4> HIDE DEF n
      <4> QED BY <1>1, <2>0, <2>2
    <3>2. Before(b[i], b[i + 1])
      BY <3>1 DEF Ordered, Increasing
    <3> HIDE DEF n
    <3> QED BY <1>1, <2>0, <3>1, <3>2
  <2> QED BY <2>1, <2>2
<1>4. ASSUME NEW j \in DOMAIN l  PROVE IsWithin(l[j], root)
  <2>1. CASE j = n + 1
    BY <1>1, <2>1
  <2>2. CASE j # n + 1
    <3>1. j \in 1..n
      <4> HIDE DEF n
      <4> QED BY <1>1, <2>2
    <3>2. IsWithin(b[j], root)
      BY <1>1, <3>1 DEF Ordered
    <3> QED BY <1>1, <3>1, <3>2
  <2> QED BY <2>1, <2>2
<1>5. Ordered(root, l)
  BY <1>3, <1>4 DEF Ordered, Increasing
<1> QED BY <1>5 DEF l

(* Every step keeps the bindings in order and in their subtree.            *)
LEMMA RowsStep ==
  IInv /\ [Next]_vars => RowsInv' /\ SubtreesInOrder'
<1> SUFFICES ASSUME IInv, [Next]_vars  PROVE \A h \in Hosts : RowsAt(h)'
  <2>1. (\A h \in Hosts : RowsAt(h))' => RowsInv' /\ SubtreesInOrder'
    BY RowsHosts, PTL
  <2> QED BY <2>1
<1>1. Kinds /\ TimeoutsInv /\ \A h \in Hosts : RowsAt(h)
  BY TypedKinds, RowsHosts DEF IInv
<1>2. ASSUME run' = run  PROVE Roots' = Roots
  BY <1>2 DEF Roots
<1>3. ASSUME NEW h \in Hosts, pc'[h] = pc[h], report'[h].subtrees = report[h].subtrees,
             binds'[h] = binds[h], Roots' = Roots
      PROVE  RowsAt(h)'
  BY <1>1, <1>3 DEF RowsAt
<1>4. MaxOids \in Nat \ {0} /\ Len(<<>>) = 0
  BY WalkAssumption
<1>5. ASSUME NEW h \in Hosts, Step(h)  PROVE \A g \in Hosts : RowsAt(g)'
  <2> DEFINE subs == report[h].subtrees
             root == Roots[Len(subs) + 1]
  <2>1. Roots' = Roots
    <3>1. run' = run
      BY <1>5 DEF Step, Enter, Answered, Unanswered, Raises, NextRoot, Row, RowsEnd
    <3> QED BY <1>2, <3>1
  <2>2. ASSUME NEW g \in Hosts, g # h  PROVE RowsAt(g)'
    BY <1>1, <1>3, <1>5, <2>1, <2>2, OthersKeep
  <2>3. subs \in Seq(Entries) /\ binds[h] \in Seq(Oids) /\ pc \in [Hosts -> Places]
    BY <1>1 DEF Kinds, Reports
  <2>4. CASE Opens(h)
    <3>1. /\ pc'[h] \in {"probe", "reprobe", "root", "done"} /\ report'[h].subtrees = subs
          /\ binds' = binds
      BY <1>1, <2>4, OpensEffect
    <3>2. RowsAt(h)'
      BY <1>1, <2>1, <3>1 DEF RowsAt
    <3> QED BY <2>2, <3>2
  <2>5. ASSUME NEW s \in Entries, report'[h].subtrees = Append(subs, s),
               Ordered(s.root, s.binds), s.truncated <=> Len(s.binds) = MaxOids,
               binds'[h] = <<>>, pc'[h] # "rows"
        PROVE  RowsAt(h)'
    <3> DEFINE l == Append(subs, s)
    <3>1. \A i \in DOMAIN l : (i \in DOMAIN subs /\ l[i] = subs[i]) \/ l[i] = s
      BY <2>3
    <3>2. ASSUME NEW i \in DOMAIN l
          PROVE  Ordered(l[i].root, l[i].binds) /\ (l[i].truncated <=> Len(l[i].binds) = MaxOids)
      <4> HIDE DEF l
      <4>1. CASE l[i] = s
        BY <2>5, <4>1
      <4>2. CASE i \in DOMAIN subs /\ l[i] = subs[i]
        BY <1>1, <4>2 DEF RowsAt
      <4> QED BY <3>1, <4>1, <4>2
    <3> HIDE DEF l
    <3>3. report'[h].subtrees = l
      BY <2>5 DEF l
    <3> QED BY <1>4, <2>5, <3>2, <3>3, NothingOrdered DEF RowsAt
  <2>6. CASE NextRoot(h)
    <3>1. CASE Skips(h)
      <4> DEFINE s == Subtree(h, "skipped", <<>>, FALSE)
      <4>1. /\ report'[h].subtrees = Append(subs, s) /\ binds'[h] = <<>>
            /\ pc'[h] # "rows" /\ Len(subs) < Len(Roots)
        BY <1>1, <3>1, SkipsEffect DEF Skips
      <4>2. "skipped" \in Errors /\ <<>> \in Seq(Oids) /\ FALSE \in BOOLEAN
        BY DEF Errors
      <4>3. s \in Entries
        BY <1>1, <4>1, <4>2, SubtreeTyped
      <4>4. s.binds = <<>> /\ s.truncated = FALSE
        BY DEF Subtree
      <4> HIDE DEF s
      <4>5. Ordered(s.root, s.binds) /\ (s.truncated <=> Len(s.binds) = MaxOids)
        BY <1>4, <4>4, NothingOrdered
      <4> HIDE DEF subs
      <4>6. RowsAt(h)'
        BY <2>5, <4>1, <4>3, <4>5
      <4> QED BY <2>2, <4>6
    <3>2. CASE report' = report
      <4>1. binds'[h] = <<>>
        BY <1>1, <2>6, RootEffect
      <4>2. RowsAt(h)'
        BY <1>1, <1>4, <2>1, <3>2, <4>1, NothingOrdered DEF RowsAt
      <4> QED BY <2>2, <4>2
    <3> QED BY <1>1, <2>6, <3>1, <3>2, RootEffect
  <2>7. ASSUME NEW oid \in Oids, Follows(h, oid), pc[h] = "rows"
        PROVE  Ordered(root, Append(binds[h], oid))
    <3>1. Ordered(root, binds[h])
      BY <1>1, <2>7 DEF RowsAt
    <3>2. /\ IsWithin(oid, root)
          /\ Before(IF binds[h] = <<>> THEN root ELSE Last(binds[h]), oid)
      BY <2>7 DEF Follows
    <3> HIDE DEF root
    <3> QED BY <2>3, <3>1, <3>2, FollowsOrdered
  <2>8. CASE \E oid \in Oids : Takes(h, oid)
    <3>1. PICK oid \in Oids : Takes(h, oid)
      BY <2>8
    <3> DEFINE l == Append(binds[h], oid)
    <3>2. /\ binds'[h] = l /\ Len(l) < MaxOids /\ Ordered(root, l)
          /\ UNCHANGED <<pc, report>>
      BY <1>1, <2>7, <3>1, TakesEffect DEF Takes
    <3> HIDE DEF l
    <3>3. RowsAt(h)'
      BY <1>1, <2>1, <3>2 DEF RowsAt, Ordered
    <3> QED BY <2>2, <3>3
  <2>9. CASE \E error, found, cut : Ends(h, error, found, cut)
    <3>1. PICK error, found, cut : Ends(h, error, found, cut)
      BY <2>9
    <3>2. /\ timeouts[h] < 2 /\ Len(subs) < Len(Roots)
          /\ error \in {"none", "timeout", "other"} /\ pc[h] = "rows"
      BY <1>1, <3>1 DEF Ends, TimeoutsInv
    <3> DEFINE s == Subtree(h, error, found, cut)
    <3>3. /\ pc'[h] = "root" /\ report'[h].subtrees = Append(subs, s) /\ binds'[h] = <<>>
      BY <1>1, <3>1, <3>2, EndsEffect
    <3>4. /\ found \in Seq(Oids) /\ Ordered(root, found) /\ cut \in BOOLEAN
          /\ cut <=> Len(found) = MaxOids
      <4>1. CASE found = binds[h] /\ cut = FALSE
        <5>1. Ordered(root, found) /\ Len(found) < MaxOids
          BY <1>1, <3>2, <4>1 DEF RowsAt
        <5>2. found \in Seq(Oids) /\ Len(found) \in Nat
          BY <2>3, <4>1
        <5>3. Len(found) # MaxOids
          <6> DEFINE a == Len(found)
          <6>1. a \in Nat /\ a < MaxOids
            BY <5>1, <5>2
          <6> HIDE DEF a
          <6>2. a # MaxOids
            BY <1>4, <6>1
          <6> QED BY <6>2 DEF a
        <5> QED BY <4>1, <5>1, <5>2, <5>3
      <4>2. CASE \E oid \in Oids : /\ found = Append(binds[h], oid) /\ cut = TRUE
                                   /\ Follows(h, oid) /\ Len(found) >= MaxOids
        <5>1. PICK oid \in Oids : /\ found = Append(binds[h], oid) /\ cut = TRUE
                                  /\ Follows(h, oid) /\ Len(found) >= MaxOids
          BY <4>2
        <5>2. Ordered(root, found)
          BY <2>7, <3>2, <5>1
        <5>3. found \in Seq(Oids) /\ Len(found) = Len(binds[h]) + 1 /\ Len(binds[h]) \in Nat
          BY <2>3, <5>1
        <5>4. Len(binds[h]) < MaxOids
          BY <1>1 DEF RowsAt
        <5>5. Len(found) = MaxOids
          <6> DEFINE a == Len(found)
                     b == Len(binds[h])
          <6>1. a = b + 1 /\ b \in Nat /\ b < MaxOids /\ a >= MaxOids
            BY <5>1, <5>3, <5>4
          <6> HIDE DEF a, b
          <6>2. a = MaxOids
            BY <1>4, <6>1
          <6> QED BY <6>2 DEF a
        <5> QED BY <5>1, <5>2, <5>3, <5>5
      <4> QED BY <3>1, <4>1, <4>2 DEF Ends
    <3>5. s \in Entries
      <4>1. error \in Errors
        BY <3>2 DEF Errors
      <4> QED BY <1>1, <3>2, <3>4, <4>1, SubtreeTyped
    <3>6. s.root = root /\ s.binds = found /\ s.truncated = cut
      BY DEF Subtree
    <3> HIDE DEF s, subs, root
    <3>7. Ordered(s.root, s.binds) /\ (s.truncated <=> Len(s.binds) = MaxOids)
      BY <3>4, <3>6
    <3>8. RowsAt(h)'
      BY <2>5, <3>3, <3>5, <3>7
    <3> QED BY <2>2, <3>8
  <2> QED BY <1>5, <2>4, <2>6, <2>8, <2>9, StepCases
<1>6. CASE Exit
  BY <1>1, <1>2, <1>3, <1>6 DEF Exit
<1>7. CASE UNCHANGED vars
  BY <1>1, <1>2, <1>3, <1>7 DEF vars
<1> QED BY <1>5, <1>6, <1>7 DEF Next
-----------------------------------------------------------------------------
(* The theorems.                                                           *)

(* The invariant holds when the walk begins: no task has a permit, no host *)
(* was asked, and no report has a subtree.                                 *)
LEMMA InitHolds == Init => IInv
<1> SUFFICES ASSUME Init  PROVE IInv
  OBVIOUS
<1>1. run \in Runs /\ run.version \in {"v1", "v2c"}
  BY WalkAssumption DEF Init, RunSet
<1>2. Max({1, Concurrency}) \in Nat
  BY SomePermit
<1> DEFINE new == [version |-> run.version, reachable |-> FALSE,
                   error |-> "none", subtrees |-> <<>>]
<1>3. /\ new \in Reports /\ new.version = run.version /\ ~new.reachable
      /\ new.subtrees = <<>>
  BY <1>1 DEF Reports, Errors
<1>4. \A h \in Hosts : report[h] = new
  BY DEF Init
<1>5. report \in [Hosts -> Reports]
  BY <1>3 DEF Init
<1> HIDE DEF new
<1>6. Kinds
  <2>1. /\ pc \in [Hosts -> Places] /\ session \in [Hosts -> {"v1", "v2c"}]
        /\ binds \in [Hosts -> Seq(Oids)] /\ timeouts \in [Hosts -> 0..2]
        /\ answered \in [Hosts -> SUBSET {"v1", "v2c"}]
    BY <1>1 DEF Init, Places
  <2>2. permits \in Nat /\ exit \in {-1, 0, 1}
    <3>1. permits = Max({1, Concurrency}) /\ exit = -1
      BY DEF Init
    <3> QED BY <1>2, <3>1
  <2> QED BY <1>1, <1>5, <2>1, <2>2 DEF Kinds
<1>7. \A h \in Hosts : /\ pc[h] \in {"idle", "waiting"} /\ session[h] = run.version
                       /\ binds[h] = <<>> /\ timeouts[h] = 0
  BY DEF Init
<1>8. Inside = {}
  BY <1>7 DEF Inside
<1>9. IsFiniteSet(Inside) /\ PermitsKept
  <2>1. IsFiniteSet({}) /\ Cardinality({}) = 0
    BY FS_EmptySet
  <2>2. permits = Max({1, Concurrency})
    BY DEF Init
  <2> DEFINE m == Max({1, Concurrency})
  <2> HIDE DEF m
  <2>3. m + 0 = m
    BY <1>2 DEF m
  <2>4. permits + Cardinality(Inside) = m
    BY <1>8, <2>1, <2>2, <2>3 DEF m
  <2> QED BY <1>8, <2>1, <2>4 DEF PermitsKept, m
<1>10. HeaderInv /\ HeaderHonest
  BY <1>3, <1>4, <1>7 DEF HeaderInv, HeaderHonest
<1>11. TimeoutsInv /\ RootsReported
  <2>1. ASSUME NEW h \in Hosts  PROVE TimeoutsAt(h)
    <3>1. Len(<<>>) = 0 /\ Len(Roots) \in Nat
      BY <1>1, RootsPlanned
    <3>2. report[h].subtrees = <<>> /\ timeouts[h] = 0 /\ pc[h] \in {"idle", "waiting"}
      BY <1>3, <1>4, <1>7
    <3> QED BY <3>1, <3>2 DEF TimeoutsAt, Counted
  <2> QED BY <2>1, TimeoutsHosts
<1>12. RowsInv /\ SubtreesInOrder
  <2>1. ASSUME NEW h \in Hosts  PROVE RowsAt(h)
    <3>1. MaxOids \in Nat \ {0} /\ Len(<<>>) = 0
      BY WalkAssumption
    <3>2. report[h].subtrees = <<>> /\ binds[h] = <<>> /\ pc[h] \in {"idle", "waiting"}
      BY <1>3, <1>4, <1>7
    <3> QED BY <3>1, <3>2 DEF RowsAt, Increasing
  <2> QED BY <2>1, RowsHosts
<1> QED BY <1>6, <1>9, <1>10, <1>11, <1>12, TypedKinds DEF IInv

(* The invariant holds in every state a walk reaches, whatever the command *)
(* line and whatever the printers answer.                                  *)
THEOREM Invariance == Spec => []IInv
<1>1. IInv /\ [Next]_vars => IInv'
  BY TypedStep, PermitsStep, HeaderStep, TimeoutsStep, RowsStep DEF IInv
<1> QED BY InitHolds, <1>1, PTL DEF Spec

(* Every variable keeps its type, and the permits that are free and the    *)
(* hosts that hold one are --concurrency together (walk_host, run).        *)
THEOREM TypeCorrect == Spec => []TypeOK
<1>1. IInv => TypeOK
  BY DEF IInv, TypeOK
<1> QED BY Invariance, <1>1, PTL

(* A host that was reached is reported with every subtree of the plan, in  *)
(* its order, skipped only after two dead ones in a row (walk_host).       *)
THEOREM RootsAreReported == Spec => []RootsReported
<1>1. IInv => RootsReported
  BY DEF IInv
<1> QED BY Invariance, <1>1, PTL

(* The version in the header of a host is the one its subtrees are walked  *)
(* with and one that it answered (open_session, walk_host).                *)
THEOREM HeadersAreHonest == Spec => []HeaderHonest
<1>1. IInv => HeaderHonest
  BY DEF IInv
<1> QED BY Invariance, <1>1, PTL

(* The plan is exactly the broadest of the subtrees selected, in order;    *)
(* with --per-branch it loses a selected subtree exactly where no          *)
(* registered branch of a selected root covers it (select_roots).          *)
THEOREM PlanFollows == Spec => []PlanIsBroadest
<1>1. IInv => PlanIsBroadest
  <2> SUFFICES ASSUME run \in Runs  PROVE PlanIsBroadest
    BY DEF IInv, Typed
  <2>1. Roots = SelectRoots(run)
    BY DEF Roots, Plan
  <2> QED BY <2>1, PlanFollowsSpecs DEF PlanIsBroadest, Covered
<1> QED BY Invariance, <1>1, PTL

(* No OID is reported twice for a host, and each lies in the subtree it is *)
(* reported under, in order, whatever a printer sends and whatever groups  *)
(* overlap (walk_subtree, select_roots).                                   *)
THEOREM OidsAreOnceInOrder == Spec => []OidsOnceInOrder
<1>1. IInv => OidsOnceInOrder
  <2> SUFFICES ASSUME IInv, NEW h \in Hosts, NEW i \in DOMAIN report[h].subtrees,
                      NEW j \in DOMAIN report[h].subtrees, i # j
               PROVE  ToSet(report[h].subtrees[i].binds)
                        \cap ToSet(report[h].subtrees[j].binds) = {}
    BY DEF OidsOnceInOrder, NoOidTwice, IInv
  <2> DEFINE subs == report[h].subtrees
  <2>1. Kinds /\ TimeoutsInv /\ RootsReported /\ RowsAt(h)
    BY TypedKinds, RowsHosts DEF IInv
  <2>2. Roots \in Seq(Oid) /\ Disjoint(Roots)
    BY <2>1, RootsPlanned DEF Kinds
  <2>3. subs \in Seq(Entries)
    BY <2>1 DEF Kinds, Reports
  <2>4. Len(subs) <= Len(Roots) /\ subs[i].root = Roots[i] /\ subs[j].root = Roots[j]
    BY <2>1 DEF TimeoutsInv, RootsReported
  <2>5. /\ \A m \in DOMAIN subs[i].binds : IsWithin(subs[i].binds[m], subs[i].root)
        /\ \A m \in DOMAIN subs[j].binds : IsWithin(subs[j].binds[m], subs[j].root)
    BY <2>1 DEF RowsAt, Ordered
  <2> HIDE DEF subs
  <2>6. i \in 1..Len(Roots) /\ j \in 1..Len(Roots) /\ (i < j \/ j < i)
    <3>1. i \in 1..Len(subs) /\ j \in 1..Len(subs)
      BY <2>3 DEF subs
    <3> QED BY <2>2, <2>3, <2>4, <3>1
  <2>7. Roots[i] \in Oid /\ Roots[j] \in Oid
    BY <2>2, <2>6
  <2>8. ~IsWithin(Roots[i], Roots[j]) /\ ~IsWithin(Roots[j], Roots[i])
    BY <2>2, <2>6 DEF Disjoint, Apart
  <2>9. ASSUME NEW oid \in ToSet(subs[i].binds), oid \in ToSet(subs[j].binds)
        PROVE  FALSE
    <3>1. subs[i].binds \in Seq(Oids)
      <4>1. subs[i] \in Entries
        BY <2>3 DEF subs
      <4> QED BY <4>1 DEF Entries
    <3>2. IsWithin(oid, Roots[i]) /\ IsWithin(oid, Roots[j])
      BY <2>4, <2>5, <2>9 DEF ToSet
    <3>3. oid \in Oid
      BY <2>9, <3>1, WalkAssumption DEF ToSet, Oid
    <3> QED BY <2>7, <2>8, <3>2, <3>3, WithinBoth
  <2> QED BY <2>9 DEF subs
<1> QED BY Invariance, <1>1, PTL
=============================================================================
