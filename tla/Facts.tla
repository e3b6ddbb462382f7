-------------------------------- MODULE Facts --------------------------------
(***************************************************************************)
(* What the proofs need of the natural numbers and of finite sets and the  *)
(* library does not state without an operator as a parameter: the least    *)
(* element, induction, for a set in the place of a predicate, and folds.   *)
(***************************************************************************)
EXTENDS Integers, FiniteSets, FiniteSetsExt, FiniteSetTheorems, WellFoundedInduction, TLAPS

(* A non-empty set of natural numbers has a least element.                 *)
LEMMA LeastOf ==
  ASSUME NEW T, T \subseteq Nat, T # {}
  PROVE  \E x \in T : \A y \in T : x <= y
<1> DEFINE R == {ss \in Nat \X Nat : ss[1] < ss[2]}
<1>1. IsWellFoundedOn(R, Nat)
  BY NatLessThanWellFounded DEF OpToRel
<1> HIDE DEF R
<1>2. PICK x \in T : \A y \in T : ~ (<<y, x>> \in R)
  BY <1>1, WFMin
<1>3. \A y \in T : ~ (y < x)
  BY <1>2 DEF R
<1> QED BY <1>3

(* A set with 0 and, with each of its numbers, the next has them all.      *)
LEMMA FromZeroOn ==
  ASSUME NEW T, T \subseteq Nat, 0 \in T, \A n \in T : n + 1 \in T
  PROVE  T = Nat
<1> SUFFICES ASSUME Nat \ T # {}  PROVE FALSE
  OBVIOUS
<1>1. PICK x \in Nat \ T : \A y \in Nat \ T : x <= y
  <2> DEFINE Rest == Nat \ T
  <2>1. Rest \subseteq Nat /\ Rest # {}
    OBVIOUS
  <2> HIDE DEF Rest
  <2>2. \E x \in Rest : \A y \in Rest : x <= y
    BY <2>1, LeastOf
  <2> QED BY <2>2 DEF Rest
<1>2. x # 0 /\ x - 1 \in Nat /\ ~ (x <= x - 1)
  BY <1>1
<1>3. x - 1 \in T
  BY <1>1, <1>2
<1>4. (x - 1) + 1 \in T
  BY <1>3
<1> QED BY <1>1, <1>2, <1>4
(* The largest number of a beginning of the natural numbers.               *)
LEMMA MaxUpto ==
  ASSUME NEW n \in Nat \ {0}
  PROVE  Max(1..n) = n
<1>1. n \in 1..n /\ \A y \in 1..n : n >= y
  OBVIOUS
<1>2. ASSUME NEW x \in 1..n, \A y \in 1..n : x >= y  PROVE x = n
  BY <1>1, <1>2
<1> QED BY <1>1, <1>2 DEF Max

(* The greatest of some positions is one of them.                          *)
LEMMA MaxIn ==
  ASSUME NEW m \in Nat, NEW s, s \subseteq 1..m, s # {}
  PROVE  Max(s) \in s
<1> DEFINE T == {m - x : x \in s}
<1>1. T \subseteq Nat /\ T # {}
  <2>1. \A x \in s : m - x \in Nat
    OBVIOUS
  <2> QED BY <2>1
<1>2. PICK d \in T : \A e \in T : d <= e
  <2> HIDE DEF T
  <2> QED BY <1>1, LeastOf
<1>3. PICK x \in s : d = m - x
  BY <1>2
<1>4. \A y \in s : x >= y
  <2> TAKE y \in s
  <2>1. m - x <= m - y /\ x \in Int /\ y \in Int
    BY <1>2, <1>3
  <2> QED BY <2>1
<1> QED BY <1>3, <1>4 DEF Max

(* A first value c and a rule H for the next one give a function on Nat.   *)
Recurs(f, S, c, H) ==
  f \in [Nat -> S] /\ f[0] = c /\ \A n \in Nat : f[n + 1] = H[n][f[n]]

LEMMA Recursion ==
  ASSUME NEW S, NEW c \in S, NEW H \in [Nat -> [S -> S]]
  PROVE  \E f : Recurs(f, S, c, H)
<1> DEFINE Upto(n, g) == /\ g \in [0..n -> S] /\ g[0] = c
                         /\ \A i \in 0..(n - 1) : g[i + 1] = H[i][g[i]]
<1>1. \A n \in Nat : \E g : Upto(n, g)
  <2> DEFINE T == {n \in Nat : \E g : Upto(n, g)}
  <2>1. 0 \in T
    <3>1. Upto(0, [i \in 0..0 |-> c])
      OBVIOUS
    <3> QED BY <3>1
  <2>2. ASSUME NEW n \in T  PROVE n + 1 \in T
    <3>1. PICK g : Upto(n, g)
      OBVIOUS
    <3> DEFINE h == [i \in 0..(n + 1) |-> IF i <= n THEN g[i] ELSE H[n][g[n]]]
    <3>2. n \in Nat /\ n + 1 \in Nat /\ 0 \in 0..n /\ n \in 0..n /\ 0 \in 0..(n + 1)
      OBVIOUS
    <3>3. H[n][g[n]] \in S
      BY <3>1, <3>2
    <3>4. h \in [0..(n + 1) -> S] /\ h[0] = c
      BY <3>1, <3>2, <3>3
    <3>5. ASSUME NEW i \in 0..n  PROVE h[i + 1] = H[i][h[i]]
      <4>1. i \in 0..(n + 1) /\ i + 1 \in 0..(n + 1) /\ i <= n /\ h[i] = g[i]
        BY <3>2
      <4>2. CASE i = n
        <5>1. h[n + 1] = H[n][g[n]]
          BY <3>2
        <5> QED BY <4>1, <4>2, <5>1
      <4>3. CASE i # n
        <5>1. i \in 0..(n - 1) /\ i + 1 <= n
          BY <3>2, <4>1, <4>3
        <5>2. h[i + 1] = g[i + 1]
          BY <4>1, <5>1
        <5> QED BY <3>1, <4>1, <5>1, <5>2
      <4> QED BY <4>2, <4>3
    <3>6. \A i \in 0..((n + 1) - 1) : h[i + 1] = H[i][h[i]]
      <4>1. (n + 1) - 1 = n
        BY <3>2
      <4> HIDE DEF h
      <4> QED BY <3>5, <4>1
    <3> HIDE DEF h
    <3>7. Upto(n + 1, h)
      BY <3>4, <3>6
    <3> QED BY <3>2, <3>7
  <2> HIDE DEF T
  <2>3. T = Nat
    <3>1. T \subseteq Nat
      BY DEF T
    <3> QED BY <2>1, <2>2, <3>1, FromZeroOn
  <2> QED BY <2>3 DEF T
<1>2. ASSUME NEW n \in Nat, NEW m \in Nat, NEW g, NEW h, Upto(n, g), Upto(m, h)
      PROVE  \A i \in Nat : i <= n /\ i <= m => g[i] = h[i]
  <2> DEFINE T == {i \in Nat : i <= n /\ i <= m => g[i] = h[i]}
  <2>1. 0 \in T
    BY <1>2
  <2>2. ASSUME NEW i \in T  PROVE i + 1 \in T
    <3> SUFFICES ASSUME i + 1 <= n, i + 1 <= m  PROVE g[i + 1] = h[i + 1]
      OBVIOUS
    <3>1. i \in 0..(n - 1) /\ i \in 0..(m - 1) /\ i <= n /\ i <= m
      OBVIOUS
    <3>2. g[i] = h[i]
      BY <3>1
    <3> QED BY <1>2, <3>1, <3>2
  <2> HIDE DEF T
  <2>3. T = Nat
    <3>1. T \subseteq Nat
      BY DEF T
    <3> QED BY <2>1, <2>2, <3>1, FromZeroOn
  <2> QED BY <2>3 DEF T
<1> DEFINE Part(n) == CHOOSE g : Upto(n, g)
           f == [n \in Nat |-> Part(n)[n]]
<1>3. \A n \in Nat : Upto(n, Part(n))
  <2> HIDE DEF Upto
  <2> QED BY <1>1
<1> HIDE DEF Part
<1>4. f \in [Nat -> S] /\ f[0] = c
  BY <1>3
<1>5. ASSUME NEW n \in Nat  PROVE f[n + 1] = H[n][f[n]]
  <2>1. n + 1 \in Nat /\ n \in 0..((n + 1) - 1) /\ n <= n /\ n <= n + 1
    OBVIOUS
  <2>2. Part(n + 1)[n + 1] = H[n][Part(n + 1)[n]]
    BY <1>3, <2>1
  <2>3. Part(n + 1)[n] = Part(n)[n]
    <3> HIDE DEF Upto
    <3> QED BY <1>2, <1>3, <2>1
  <2> QED BY <2>1, <2>2, <2>3
<1> HIDE DEF f
<1>6. Recurs(f, S, c, H)
  BY <1>4, <1>5 DEF Recurs
<1> QED BY <1>6

(* The function that a fold over the finite set D is defined by: it takes   *)
(* ch[s] out of s, starts with c and applies H[ch[s]] to what the rest gave.*)
FoldsBy(it, D, ch, V, c, H) ==
  /\ it \in [SUBSET D -> V]
  /\ it[{}] = c
  /\ \A s \in SUBSET D : s # {} => it[s] = H[ch[s]][it[s \ {ch[s]}]]

LEMMA FoldExists ==
  ASSUME NEW D, IsFiniteSet(D), NEW ch, \A s \in SUBSET D : s # {} => ch[s] \in s,
         NEW V, NEW c \in V, NEW H \in [D -> [V -> V]]
  PROVE  \E it : FoldsBy(it, D, ch, V, c, H)
<1> DEFINE W == [SUBSET D -> V]
           Next(w) == [s \in SUBSET D |-> IF s = {} THEN c ELSE H[ch[s]][w[s \ {ch[s]}]]]
           G == [n \in Nat |-> [w \in W |-> Next(w)]]
           base == [s \in SUBSET D |-> c]
<1>1. base \in W
  OBVIOUS
<1>2. ASSUME NEW w \in W  PROVE Next(w) \in W
  <2>1. ASSUME NEW s \in SUBSET D, s # {}  PROVE H[ch[s]][w[s \ {ch[s]}]] \in V
    <3>1. ch[s] \in D /\ s \ {ch[s]} \in SUBSET D
      BY <2>1
    <3>2. w[s \ {ch[s]}] \in V
      BY <3>1
    <3>3. H[ch[s]] \in [V -> V]
      BY <3>1
    <3> QED BY <3>2, <3>3
  <2> QED BY <2>1
<1>3. G \in [Nat -> [W -> W]]
  <2> HIDE DEF W, Next
  <2> QED BY <1>2
<1>4. PICK f : Recurs(f, W, base, G)
  <2> HIDE DEF W, base, G
  <2> QED BY <1>1, <1>3, Recursion
<1>5. f \in [Nat -> W] /\ f[0] = base /\ \A n \in Nat : f[n + 1] = Next(f[n])
  <2> HIDE DEF Next, base, W
  <2>1. f \in [Nat -> W] /\ f[0] = base /\ \A n \in Nat : f[n + 1] = G[n][f[n]]
    <3> HIDE DEF G
    <3> QED BY <1>4 DEF Recurs
  <2>2. ASSUME NEW n \in Nat  PROVE f[n + 1] = Next(f[n])
    <3>1. f[n] \in W /\ G[n][f[n]] = Next(f[n])
      BY <2>1
    <3> QED BY <2>1, <3>1
  <2> QED BY <2>1, <2>2
<1> DEFINE it == [s \in SUBSET D |-> f[Cardinality(s)][s]]
<1>6. ASSUME NEW s \in SUBSET D  PROVE Cardinality(s) \in Nat
  BY FS_Subset, FS_CardinalityType
<1> HIDE DEF G
<1>7. it \in [SUBSET D -> V]
  BY <1>5, <1>6
<1>8. it[{}] = c
  BY <1>5, FS_EmptySet
<1>9. ASSUME NEW s \in SUBSET D, s # {}  PROVE it[s] = H[ch[s]][it[s \ {ch[s]}]]
  <2> DEFINE r == s \ {ch[s]}
             k == Cardinality(r)
  <2>1. ch[s] \in s /\ r \in SUBSET D
    BY <1>9
  <2>2. k \in Nat /\ Cardinality(s) = k + 1
    <3>1. IsFiniteSet(s) /\ Cardinality(s) \in Nat
      BY FS_Subset, FS_CardinalityType
    <3>2. k = Cardinality(s) - 1
      BY <2>1, <3>1, FS_RemoveElement
    <3>3. k \in Nat
      BY <1>6, <2>1
    <3> HIDE DEF k
    <3> QED BY <3>1, <3>2, <3>3
  <2>3. f[k + 1][s] = Next(f[k])[s]
    <3> HIDE DEF Next, k
    <3> QED BY <1>5, <2>2
  <2>4. Next(f[k])[s] = H[ch[s]][f[k][r]]
    BY <1>9
  <2>5. it[s] = f[k + 1][s] /\ it[r] = f[k][r]
    <3> HIDE DEF r
    <3> QED BY <2>1, <2>2
  <2> HIDE DEF k, it, Next
  <2> QED BY <2>3, <2>4, <2>5
<1> HIDE DEF it
<1>10. FoldsBy(it, D, ch, V, c, H)
  BY <1>7, <1>8, <1>9 DEF FoldsBy
<1> QED BY <1>10

(* A finite set in a strict total order R: what lies below an element, and *)
(* a sequence of all elements in that order.                               *)
Below(S, R, x) == {y \in S : <<y, x>> \in R}

StrictOrder(S, R) ==
  /\ \A x \in S : <<x, x>> \notin R
  /\ \A x, y \in S : x # y => <<x, y>> \in R \/ <<y, x>> \in R
  /\ \A x, y, z \in S : <<x, y>> \in R /\ <<y, z>> \in R => <<x, z>> \in R

InOrder(q, S, R) ==
  /\ q \in [1..Cardinality(S) -> S]
  /\ \A x \in S : \E i \in 1..Cardinality(S) : q[i] = x
  /\ \A i, j \in 1..Cardinality(S) : i < j => <<q[i], q[j]>> \in R

(* More lies below the greater of two elements.                            *)
LEMMA RankGrows ==
  ASSUME NEW S, IsFiniteSet(S), NEW R, StrictOrder(S, R), NEW x \in S
  PROVE  /\ Cardinality(Below(S, R, x)) \in 0..Cardinality(S) - 1
         /\ \A y \in S : <<x, y>> \in R =>
              Cardinality(Below(S, R, x)) < Cardinality(Below(S, R, y))
<1>1. ASSUME NEW T \in SUBSET S, NEW U \in SUBSET T, T # U
      PROVE  /\ Cardinality(U) \in Nat /\ Cardinality(T) \in Nat
             /\ Cardinality(U) < Cardinality(T)
  <2>1. IsFiniteSet(T) /\ Cardinality(T) \in Nat
    BY FS_Subset, FS_CardinalityType
  <2>2. IsFiniteSet(U) /\ Cardinality(U) \in Nat /\ Cardinality(U) <= Cardinality(T)
    BY <2>1, FS_Subset, FS_CardinalityType
  <2>3. Cardinality(U) # Cardinality(T)
    BY <1>1, <2>1, FS_Subset
  <2> QED BY <2>1, <2>2, <2>3
<1>2. Below(S, R, x) \in SUBSET S /\ S # Below(S, R, x)
  BY DEF Below, StrictOrder
<1>3. Cardinality(Below(S, R, x)) \in 0..Cardinality(S) - 1
  <2> DEFINE a == Cardinality(Below(S, R, x))
             b == Cardinality(S)
  <2>1. a \in Nat /\ b \in Nat /\ a < b
    BY <1>1, <1>2
  <2>2. a \in 0..b - 1
    <3> HIDE DEF a, b
    <3> QED BY <2>1
  <2> QED BY <2>2
<1>4. ASSUME NEW y \in S, <<x, y>> \in R
      PROVE  Cardinality(Below(S, R, x)) < Cardinality(Below(S, R, y))
  <2>1. Below(S, R, y) \in SUBSET S
    BY DEF Below
  <2>2. Below(S, R, x) \in SUBSET Below(S, R, y)
    BY <1>4 DEF Below, StrictOrder
  <2>3. x \in Below(S, R, y) /\ x \notin Below(S, R, x)
    BY <1>4 DEF Below, StrictOrder
  <2> QED BY <1>1, <2>1, <2>2, <2>3
<1> QED BY <1>3, <1>4

(* Every rank is that of an element.                                       *)
LEMMA RankOnto ==
  ASSUME NEW S, IsFiniteSet(S), NEW R, StrictOrder(S, R),
         NEW i \in 1..Cardinality(S)
  PROVE  \E x \in S : Cardinality(Below(S, R, x)) = i - 1
<1> DEFINE n == Cardinality(S)
           rank == [x \in S |-> Cardinality(Below(S, R, x))]
<1>1. n \in Nat
  BY FS_CardinalityType
<1>2. rank \in [S -> 0..n - 1]
  BY RankGrows
<1>3. ASSUME NEW x \in S, NEW y \in S, rank[x] = rank[y]  PROVE x = y
  <2>1. rank[x] \in Nat /\ rank[y] \in Nat
    <3> HIDE DEF rank
    <3> QED BY <1>1, <1>2
  <2>2. ~(rank[x] < rank[y]) /\ ~(rank[y] < rank[x])
    <3> HIDE DEF rank
    <3> QED BY <1>3, <2>1
  <2>3. <<x, y>> \notin R /\ <<y, x>> \notin R
    BY <2>2, RankGrows
  <2> QED BY <2>3 DEF StrictOrder
<1>4. rank \in Injection(S, 0..n - 1)
  <2> HIDE DEF rank, n
  <2> QED BY <1>2, <1>3 DEF Injection, IsInjective
<1>5. IsFiniteSet(0..n - 1) /\ Cardinality(0..n - 1) = n
  <2> HIDE DEF n
  <2> QED BY <1>1, FS_Interval
<1>6. rank \in Surjection(S, 0..n - 1)
  <2> DEFINE T == 0..n - 1
  <2>1. Cardinality(S) = Cardinality(T) /\ IsFiniteSet(T) /\ rank \in Injection(S, T)
    BY <1>4, <1>5
  <2>2. rank \in Surjection(S, T)
    <3> HIDE DEF T, rank
    <3> QED BY <2>1, FS_Injection
  <2> QED BY <2>2
<1>7. i - 1 \in 0..n - 1
  <2> HIDE DEF n
  <2> QED BY <1>1 DEF n
<1>8. \E x \in S : rank[x] = i - 1
  <2> HIDE DEF rank, n
  <2> QED BY <1>6, <1>7 DEF Surjection
<1> QED BY <1>8

(* The elements by their rank are in order.                                *)
LEMMA RankSorts ==
  ASSUME NEW S, IsFiniteSet(S), NEW R, StrictOrder(S, R),
         NEW q \in [1..Cardinality(S) -> S],
         \A i \in 1..Cardinality(S) : Cardinality(Below(S, R, q[i])) = i - 1
  PROVE  InOrder(q, S, R)
<1> DEFINE n == Cardinality(S)
           rank(x) == Cardinality(Below(S, R, x))
<1>1. n \in Nat
  BY FS_CardinalityType
<1>2. \A x \in S : rank(x) \in 0..n - 1
  BY RankGrows
<1>3. \A x, y \in S : <<x, y>> \in R => rank(x) < rank(y)
  BY RankGrows
<1>4. \A i \in 1..n : rank(q[i]) = i - 1 /\ q[i] \in S
  OBVIOUS
<1> HIDE DEF rank, n
<1>5. ASSUME NEW x \in S  PROVE \E i \in 1..n : q[i] = x
  <2>1. rank(x) + 1 \in 1..n /\ rank(x) \in Nat
    BY <1>1, <1>2
  <2>2. rank(q[rank(x) + 1]) = rank(x) /\ q[rank(x) + 1] \in S
    <3>1. (rank(x) + 1) - 1 = rank(x)
      BY <2>1
    <3> QED BY <1>4, <2>1, <3>1
  <2>3. <<x, q[rank(x) + 1]>> \notin R /\ <<q[rank(x) + 1], x>> \notin R
    BY <1>3, <2>1, <2>2
  <2>4. q[rank(x) + 1] = x
    BY <2>2, <2>3 DEF StrictOrder
  <2> QED BY <2>1, <2>4
<1>6. ASSUME NEW i \in 1..n, NEW j \in 1..n, i < j  PROVE <<q[i], q[j]>> \in R
  <2>1. rank(q[i]) < rank(q[j]) /\ rank(q[i]) \in Int /\ rank(q[j]) \in Int
    BY <1>1, <1>4, <1>6
  <2>2. q[i] # q[j] /\ <<q[j], q[i]>> \notin R
    BY <1>3, <1>4, <2>1
  <2> QED BY <1>4, <2>2 DEF StrictOrder
<1> QED BY <1>5, <1>6 DEF InOrder, n
-----------------------------------------------------------------------------
(* Sums over a finite set.                                                 *)

(* A family of subsets with {} and, with each of its sets, every set of one *)
(* element more has them all.                                              *)
LEMMA FromEmptyOn ==
  ASSUME NEW D, IsFiniteSet(D), NEW P, P \subseteq SUBSET D, {} \in P,
         \A s \in P, x \in D : x \notin s => s \cup {x} \in P
  PROVE  P = SUBSET D
<1> DEFINE T == {n \in Nat : \A s \in SUBSET D : Cardinality(s) = n => s \in P}
<1>1. \A s \in SUBSET D : IsFiniteSet(s) /\ Cardinality(s) \in Nat
  BY FS_Subset, FS_CardinalityType
<1>2. 0 \in T
  BY <1>1, FS_EmptySet
<1>3. ASSUME NEW n \in T  PROVE n + 1 \in T
  <2> SUFFICES ASSUME NEW s \in SUBSET D, Cardinality(s) = n + 1  PROVE s \in P
    OBVIOUS
  <2>1. s # {}
    BY <1>1, FS_EmptySet
  <2>2. PICK x \in s : TRUE
    BY <2>1
  <2>3. Cardinality(s \ {x}) = Cardinality(s) - 1
    BY <1>1, <2>2, FS_RemoveElement
  <2>4. s \ {x} \in P
    BY <2>3
  <2> HIDE DEF T
  <2>5. (s \ {x}) \cup {x} = s /\ x \in D /\ x \notin s \ {x}
    BY <2>2
  <2> QED BY <2>4, <2>5
<1> HIDE DEF T
<1>4. T = Nat
  <2>1. T \subseteq Nat
    BY DEF T
  <2> QED BY <1>2, <1>3, <2>1, FromZeroOn
<1> QED BY <1>1, <1>4 DEF T

\* The function by which MapThenSumSet sums up f: it takes any element first.
SumsUp(it, D, f) ==
  /\ it \in [SUBSET D -> Int] /\ it[{}] = 0
  /\ \A s \in SUBSET D : s # {} =>
       it[s] = f[CHOOSE x \in s : TRUE] + it[s \ {CHOOSE x \in s : TRUE}]

(* There is one.                                                           *)
LEMMA SumExists ==
  ASSUME NEW D, IsFiniteSet(D), NEW f \in [D -> Int]
  PROVE  \E it : SumsUp(it, D, f)
<1> DEFINE ch == [s \in SUBSET D |-> CHOOSE x \in s : TRUE]
           H == [x \in D |-> [v \in Int |-> f[x] + v]]
<1>1. \A s \in SUBSET D : s # {} => ch[s] \in s
  OBVIOUS
<1>2. H \in [D -> [Int -> Int]]
  OBVIOUS
<1>3. PICK it : FoldsBy(it, D, ch, Int, 0, H)
  <2>1. 0 \in Int
    OBVIOUS
  <2> HIDE DEF ch, H
  <2> QED BY <1>1, <1>2, <2>1, FoldExists
<1>4. it \in [SUBSET D -> Int] /\ it[{}] = 0
  BY <1>3 DEF FoldsBy
<1>5. ASSUME NEW s \in SUBSET D, s # {}
      PROVE  it[s] = f[CHOOSE x \in s : TRUE] + it[s \ {CHOOSE x \in s : TRUE}]
  <2> DEFINE c == ch[s]
  <2>1. c \in D /\ c = CHOOSE x \in s : TRUE
    BY <1>1, <1>5
  <2>2. it[s] = H[c][it[s \ {c}]]
    BY <1>3, <1>5 DEF FoldsBy
  <2> HIDE DEF c
  <2>3. it[s \ {c}] \in Int
    BY <1>4
  <2> QED BY <2>1, <2>2, <2>3
<1> QED BY <1>4, <1>5 DEF SumsUp

\* It satisfies the definition by which the fold chooses its function, ...
SumBody(it, D, f) ==
  it = [s \in SUBSET D |-> IF s = {} THEN 0
          ELSE f[CHOOSE x \in s : TRUE] + it[s \ {CHOOSE x \in s : TRUE}]]

(* ... which therefore has a solution, ...                                 *)
LEMMA SumBodyExists ==
  ASSUME NEW D, IsFiniteSet(D), NEW f \in [D -> Int]
  PROVE  \E it : SumBody(it, D, f)
<1>1. PICK it : SumsUp(it, D, f)
  BY SumExists
<1>2. it \in [SUBSET D -> Int] /\ it[{}] = 0
  BY <1>1 DEF SumsUp
<1>3. \A s \in SUBSET D : s # {} =>
        it[s] = f[CHOOSE x \in s : TRUE] + it[s \ {CHOOSE x \in s : TRUE}]
  BY <1>1 DEF SumsUp
<1>4. SumBody(it, D, f)
  BY <1>2, <1>3 DEF SumBody
<1> QED BY <1>4

(* ... and each solution is such a function.                               *)
LEMMA SumBodySums ==
  ASSUME NEW D, IsFiniteSet(D), NEW f \in [D -> Int], NEW it, SumBody(it, D, f)
  PROVE  SumsUp(it, D, f)
<1>1. \A s \in SUBSET D : s # {} =>
        it[s] = f[CHOOSE x \in s : TRUE] + it[s \ {CHOOSE x \in s : TRUE}]
  BY DEF SumBody
<1>2. it[{}] = 0 /\ it = [s \in SUBSET D |-> it[s]]
  BY DEF SumBody
<1> DEFINE T == {n \in Nat : \A s \in SUBSET D : Cardinality(s) = n => it[s] \in Int}
<1>3. \A s \in SUBSET D : IsFiniteSet(s) /\ Cardinality(s) \in Nat
  BY FS_Subset, FS_CardinalityType
<1>4. 0 \in T
  <2> SUFFICES ASSUME NEW s \in SUBSET D, Cardinality(s) = 0  PROVE it[s] \in Int
    OBVIOUS
  <2>1. s = {}
    BY <1>3, FS_EmptySet
  <2> QED BY <1>2, <2>1
<1>5. ASSUME NEW n \in T  PROVE n + 1 \in T
  <2> SUFFICES ASSUME NEW s \in SUBSET D, Cardinality(s) = n + 1  PROVE it[s] \in Int
    OBVIOUS
  <2> DEFINE c == CHOOSE x \in s : TRUE
  <2>1. s # {}
    BY <1>3, FS_EmptySet
  <2>2. c \in s /\ it[s] = f[c] + it[s \ {c}]
    BY <1>1, <2>1
  <2> HIDE DEF c
  <2>3. Cardinality(s \ {c}) = n
    <3>1. Cardinality(s \ {c}) = Cardinality(s) - 1
      BY <1>3, <2>2, FS_RemoveElement
    <3> QED BY <3>1
  <2>4. it[s \ {c}] \in Int /\ f[c] \in Int
    BY <2>2, <2>3
  <2> QED BY <2>2, <2>4
<1> HIDE DEF T
<1>6. T = Nat
  <2>1. T \subseteq Nat
    BY DEF T
  <2> QED BY <1>4, <1>5, <2>1, FromZeroOn
<1>7. \A s \in SUBSET D : it[s] \in Int
  BY <1>3, <1>6 DEF T
<1>8. it \in [SUBSET D -> Int]
  BY <1>2, <1>7
<1> QED BY <1>1, <1>2, <1>8 DEF SumsUp

(* The sum of all is any one and the sum of the others.                    *)
LEMMA SumTakes ==
  ASSUME NEW D, IsFiniteSet(D), NEW f \in [D -> Int], NEW it, SumsUp(it, D, f),
         NEW s \in SUBSET D, NEW x \in s
  PROVE  it[s] = f[x] + it[s \ {x}]
<1> DEFINE T == {n \in Nat : \A r \in SUBSET D : Cardinality(r) = n =>
                              \A y \in r : it[r] = f[y] + it[r \ {y}]}
<1>1. \A r \in SUBSET D : IsFiniteSet(r) /\ Cardinality(r) \in Nat
  BY FS_Subset, FS_CardinalityType
<1>2. 0 \in T
  BY <1>1, FS_EmptySet
<1>3. ASSUME NEW n \in T  PROVE n + 1 \in T
  <2> SUFFICES ASSUME NEW r \in SUBSET D, Cardinality(r) = n + 1, NEW y \in r
               PROVE  it[r] = f[y] + it[r \ {y}]
    OBVIOUS
  <2> DEFINE c == CHOOSE z \in r : TRUE
  <2>1. c \in r /\ it[r] = f[c] + it[r \ {c}]
    BY DEF SumsUp
  <2> HIDE DEF c
  <2>2. CASE y = c
    BY <2>1, <2>2
  <2>3. CASE y # c
    <3>1. Cardinality(r \ {y}) = n /\ Cardinality(r \ {c}) = n
      <4>1. /\ Cardinality(r \ {y}) = Cardinality(r) - 1
            /\ Cardinality(r \ {c}) = Cardinality(r) - 1
        BY <1>1, <2>1, FS_RemoveElement
      <4> QED BY <4>1
    <3>2. /\ it[r \ {c}] = f[y] + it[(r \ {c}) \ {y}]
          /\ it[r \ {y}] = f[c] + it[(r \ {y}) \ {c}]
      <4>1. /\ r \ {c} \in SUBSET D /\ y \in r \ {c}
            /\ r \ {y} \in SUBSET D /\ c \in r \ {y}
        BY <2>1, <2>3
      <4> QED BY <3>1, <4>1
    <3> DEFINE rest == r \ {c, y}
    <3>3. (r \ {c}) \ {y} = rest /\ (r \ {y}) \ {c} = rest /\ rest \in SUBSET D
      OBVIOUS
    <3> HIDE DEF rest
    <3>4. f[c] \in Int /\ f[y] \in Int /\ it[rest] \in Int
      BY <2>1, <3>3 DEF SumsUp
    <3>5. it[r \ {c}] = f[y] + it[rest] /\ it[r \ {y}] = f[c] + it[rest]
      BY <3>2, <3>3
    <3> DEFINE a == f[c]
               b == f[y]
               v == it[rest]
    <3>6. it[r] = a + (b + v) /\ it[r \ {y}] = a + v
      BY <2>1, <3>5
    <3> HIDE DEF a, b, v
    <3>7. a \in Int /\ b \in Int /\ v \in Int
      BY <3>4 DEF a, b, v
    <3>8. it[r] = b + it[r \ {y}]
      BY <3>6, <3>7
    <3> QED BY <3>8 DEF b
  <2> QED BY <2>2, <2>3
<1> HIDE DEF T
<1>4. T = Nat
  <2>1. T \subseteq Nat
    BY DEF T
  <2> QED BY <1>2, <1>3, <2>1, FromZeroOn
<1> QED BY <1>1, <1>4 DEF T

(* The sum of two sets apart is the sum of theirs.                         *)
LEMMA SumJoins ==
  ASSUME NEW D, IsFiniteSet(D), NEW f \in [D -> Int], NEW it, SumsUp(it, D, f),
         NEW s \in SUBSET D, NEW t \in SUBSET D, s \cap t = {}
  PROVE  it[s \cup t] = it[s] + it[t]
<1> DEFINE P == {r \in SUBSET D : s \cap r = {} => it[s \cup r] = it[s] + it[r]}
<1>1. {} \in P
  BY DEF SumsUp
<1>2. ASSUME NEW r \in P, NEW x \in D, x \notin r  PROVE r \cup {x} \in P
  <2> SUFFICES ASSUME s \cap (r \cup {x}) = {}
               PROVE  it[s \cup (r \cup {x})] = it[s] + it[r \cup {x}]
    OBVIOUS
  <2>1. it[s \cup r] = it[s] + it[r]
    OBVIOUS
  <2> DEFINE a == s \cup (r \cup {x})
             b == r \cup {x}
  <2>2. /\ a \in SUBSET D /\ x \in a /\ a \ {x} = s \cup r
        /\ b \in SUBSET D /\ x \in b /\ b \ {x} = r
    BY <1>2
  <2> HIDE DEF a, b
  <2>3. it[a] = f[x] + it[s \cup r] /\ it[b] = f[x] + it[r]
    BY <2>2, SumTakes
  <2>4. f[x] \in Int /\ it[s] \in Int /\ it[r] \in Int
    BY DEF SumsUp
  <2> QED BY <2>1, <2>3, <2>4 DEF a, b
<1> HIDE DEF P
<1>3. P = SUBSET D
  <2>1. P \subseteq SUBSET D
    BY DEF P
  <2> QED BY <1>1, <1>2, <2>1, FromEmptyOn
<1> QED BY <1>3 DEF P
=============================================================================
