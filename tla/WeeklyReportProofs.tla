------------------------- MODULE WeeklyReportProofs -------------------------
(***************************************************************************)
(* Proofs about WeeklyReport: what a report says of the rows it is         *)
(* computed from, and which rows these are, for any table, any clock       *)
(* change and whatever is inserted while it reads.                         *)
(***************************************************************************)
EXTENDS WeeklyReport, Facts

Counts == (0..MaxCount) \cup {None}
Rows == [ip : Ips, ts : 0..MaxNow, val : Counts]
Firsts == [first : Counts, last : Counts]
Lines == [week : Nat, ip : Ips, delta : (-MaxCount..MaxCount) \cup {None}]

\* The rows of one printer.
OnePrinter(S) == /\ S \subseteq Rows /\ IsFiniteSet(S)
                 /\ \A r, q \in S : r.ts = q.ts => r = q

-----------------------------------------------------------------------------
(* The order of the rows.                                                  *)

\* The rows of S one after the other.
ByTime(q, S) ==
  /\ q \in [1..Cardinality(S) -> S]
  /\ \A r \in S : \E i \in 1..Cardinality(S) : q[i] = r
  /\ \A i, j \in 1..Cardinality(S) : i < j => q[i].ts < q[j].ts

(* ORDER BY timestamp.                                                     *)
LEMMA SortedRows ==
  ASSUME NEW S, OnePrinter(S)
  PROVE  ByTime(Sorted(S), S)
<1> DEFINE R == {rq \in S \X S : rq[1].ts < rq[2].ts}
           n == Cardinality(S)
           q == Sorted(S)
<1>1. n \in Nat /\ IsFiniteSet(S)
  BY FS_CardinalityType DEF OnePrinter
<1>2. \A r \in S : r.ts \in Int
  BY DEF OnePrinter, Rows
<1>3. StrictOrder(S, R)
  <2>1. \A r, s \in S : <<r, s>> \in R <=> r.ts < s.ts
    OBVIOUS
  <2> HIDE DEF R
  <2>2. \A r \in S : <<r, r>> \notin R
    BY <1>2, <2>1
  <2>3. \A r, s \in S : r # s => <<r, s>> \in R \/ <<s, r>> \in R
    <3> SUFFICES ASSUME NEW r \in S, NEW s \in S, r # s
                 PROVE  <<r, s>> \in R \/ <<s, r>> \in R
      OBVIOUS
    <3>1. r.ts # s.ts
      BY DEF OnePrinter
    <3> QED BY <1>2, <2>1, <3>1
  <2>4. \A r, s, t \in S : <<r, s>> \in R /\ <<s, t>> \in R => <<r, t>> \in R
    BY <1>2, <2>1
  <2> QED BY <2>2, <2>3, <2>4 DEF StrictOrder
<1>4. ASSUME NEW r \in S
      PROVE  {s \in S : s.ts < r.ts} = Below(S, R, r)
  BY DEF Below
<1>5. ASSUME NEW i \in 1..n
      PROVE  q[i] \in S /\ Cardinality(Below(S, R, q[i])) = i - 1
  <2> DEFINE Has(x) == Cardinality({s \in S : s.ts < x.ts}) = i - 1
  <2>1. \E x \in S : Cardinality(Below(S, R, x)) = i - 1
    <3> HIDE DEF R
    <3> QED BY <1>1, <1>3, RankOnto
  <2>2. \E x \in S : Has(x)
    <3> HIDE DEF R
    <3> QED BY <1>4, <2>1
  <2>3. q[i] = CHOOSE x \in S : Has(x)
    BY DEF Sorted
  <2>4. q[i] \in S /\ Has(q[i])
    <3> HIDE DEF Has, q
    <3> QED BY <2>2, <2>3
  <2> HIDE DEF R, q
  <2> QED BY <1>4, <2>4
<1>7. q \in [1..n -> S]
  BY <1>5 DEF Sorted
<1>8. InOrder(q, S, R)
  <2> HIDE DEF q, R
  <2> QED BY <1>1, <1>3, <1>5, <1>7, RankSorts
<1>9. \A i, j \in 1..n : i < j => q[i].ts < q[j].ts
  <2> HIDE DEF q
  <2> QED BY <1>8 DEF InOrder
<1> HIDE DEF q, n, R
<1> QED BY <1>7, <1>8, <1>9 DEF ByTime, InOrder, q, n
-----------------------------------------------------------------------------
(* The loop that groups them.                                              *)

\* What is grouped so far: a first and a last for some of the weeks.
Groups == UNION {[W -> Firsts] : W \in SUBSET Nat}

LEMMA GroupsShape ==
  ASSUME NEW f
  PROVE  f \in Groups <=> /\ f = [w \in DOMAIN f |-> f[w]] /\ DOMAIN f \subseteq Nat
                          /\ \A w \in DOMAIN f : f[w] \in Firsts
<1>1. ASSUME f \in Groups
      PROVE  /\ f = [w \in DOMAIN f |-> f[w]] /\ DOMAIN f \subseteq Nat
             /\ \A w \in DOMAIN f : f[w] \in Firsts
  <2>1. PICK W \in SUBSET Nat : f \in [W -> Firsts]
    BY <1>1 DEF Groups
  <2> QED BY <2>1
<1>2. ASSUME f = [w \in DOMAIN f |-> f[w]], DOMAIN f \subseteq Nat,
             \A w \in DOMAIN f : f[w] \in Firsts
      PROVE  f \in Groups
  <2> DEFINE W == DOMAIN f
  <2>1. W \in SUBSET Nat /\ f \in [W -> Firsts]
    BY <1>2
  <2> HIDE DEF W
  <2> QED BY <2>1 DEF Groups
<1> QED BY <1>1, <1>2

(* Nothing is grouped yet.                                                 *)
LEMMA NoGroups == <<>> \in Groups /\ DOMAIN <<>> = {}
<1>1. <<>> \in [{} -> Firsts]
  OBVIOUS
<1> QED BY <1>1 DEF Groups

(* The week of an hour.                                                    *)
LEMMA WeekType ==
  ASSUME NEW ts \in Nat
  PROVE  Week(ts) \in Nat
<1>1. ASSUME NEW a \in Nat, NEW b \in Nat \ {0}  PROVE a \div b \in Nat
  OBVIOUS
<1> QED BY <1>1, ReportAssumption DEF Week

(* One row more.                                                           *)
LEMMA RowAdded ==
  ASSUME NEW f \in Groups, NEW r \in Rows
  PROVE  LET w == Week(r.ts)
             g == AddRow(f, r)
         IN  /\ g \in Groups /\ DOMAIN g = DOMAIN f \cup {w}
             /\ \A v \in DOMAIN f : v # w => g[v] = f[v]
             /\ w \in DOMAIN f => g[w] = [first |-> f[w].first, last |-> r.val]
             /\ w \notin DOMAIN f => g[w] = [first |-> r.val, last |-> r.val]
<1> DEFINE w == Week(r.ts)
           g == AddRow(f, r)
           new == [first |-> r.val, last |-> r.val]
<1>1. r.val \in Counts /\ r.ts \in Nat /\ new \in Firsts
  BY DEF Rows, Firsts
<1>2. w \in Nat
  BY <1>1, WeekType
<1>3. f = [v \in DOMAIN f |-> f[v]] /\ DOMAIN f \subseteq Nat /\ \A v \in DOMAIN f : f[v] \in Firsts
  BY GroupsShape
<1> DEFINE x == [first |-> IF w \in DOMAIN f THEN f[w].first ELSE r.val, last |-> r.val]
<1>4. x \in Firsts
  BY <1>1, <1>3 DEF Firsts
<1>5. g = [v \in DOMAIN f \cup {w} |->
             IF v # w THEN f[v]
             ELSE [first |-> IF v \in DOMAIN f THEN f[v].first ELSE r.val, last |-> r.val]]
  BY DEF AddRow
<1> HIDE DEF w, g
<1>6. /\ DOMAIN g = DOMAIN f \cup {w} /\ g = [v \in DOMAIN g |-> g[v]] /\ g[w] = x
      /\ \A v \in DOMAIN f : v # w => g[v] = f[v]
  BY <1>5
<1>7. g \in Groups
  <2> HIDE DEF x
  <2> QED BY <1>2, <1>3, <1>4, <1>6, GroupsShape
<1> QED BY <1>6, <1>7 DEF w, g

\* The groups after each row of q.
AddsEach(acc, q) ==
  /\ acc \in [0..Len(q) -> Groups] /\ acc[0] = <<>>
  /\ \A n \in 1..Len(q) : acc[n] = AddRow(acc[n - 1], q[n])
  /\ acc[Len(q)] = FoldLeft(AddRow, <<>>, q)

(* The loop takes one row after the other.                                 *)
LEMMA LoopSteps ==
  ASSUME NEW q \in Seq(Rows)
  PROVE  \E acc : AddsEach(acc, q)
<1> DEFINE D == DOMAIN q
           V == Groups
           H == [i \in D |-> [v \in V |-> AddRow(v, q[i])]]
           ch == [s \in SUBSET D |-> Max(s)]
           Fold(it) == it = [s \in SUBSET D |-> IF s = {} THEN <<>>
                              ELSE AddRow(it[s \ {Max(s)}], q[Max(s)])]
<1>1. D = 1..Len(q) /\ Len(q) \in Nat /\ IsFiniteSet(D)
  BY FS_Interval
<1>2. \A s \in SUBSET D : s # {} => Max(s) \in s
  BY <1>1, MaxIn
<1>3. ASSUME NEW i \in D, NEW v \in V  PROVE AddRow(v, q[i]) \in V
  <2>1. q[i] \in Rows /\ v \in Groups
    OBVIOUS
  <2> QED BY <2>1, RowAdded
<1>4. PICK jt : FoldsBy(jt, D, ch, V, <<>>, H)
  <2>1. <<>> \in V
    BY NoGroups
  <2>2. H \in [D -> [V -> V]]
    <3> HIDE DEF V, D
    <3> QED BY <1>3
  <2>3. \A s \in SUBSET D : s # {} => ch[s] \in s
    BY <1>2
  <2> HIDE DEF V, D, H, ch
  <2> QED BY <1>1, <2>1, <2>2, <2>3, FoldExists
<1>5. Fold(jt)
  <2> HIDE DEF D, V
  <2>1. jt \in [SUBSET D -> V] /\ jt[{}] = <<>>
    BY <1>4 DEF FoldsBy
  <2>2. ASSUME NEW s \in SUBSET D, s # {}
        PROVE  jt[s] = AddRow(jt[s \ {Max(s)}], q[Max(s)])
    <3>1. Max(s) \in D /\ jt[s \ {Max(s)}] \in V
      BY <1>2, <2>1, <2>2
    <3>2. jt[s] = H[Max(s)][jt[s \ {Max(s)}]]
      <4> HIDE DEF H
      <4>1. jt[s] = H[ch[s]][jt[s \ {ch[s]}]]
        BY <1>4, <2>2 DEF FoldsBy
      <4> QED BY <4>1
    <3> QED BY <3>1, <3>2
  <2> QED BY <2>1, <2>2
<1> DEFINE it == CHOOSE it : Fold(it)
<1>6. Fold(it)
  <2> HIDE DEF Fold
  <2> QED BY <1>5
<1>7. FoldLeft(AddRow, <<>>, q) = it[D]
  BY DEF FoldLeft, MapThenFoldSet
<1> HIDE DEF it
<1> DEFINE acc == [n \in 0..Len(q) |-> it[1..n]]
<1>8. acc[0] = <<>> /\ acc[Len(q)] = FoldLeft(AddRow, <<>>, q)
  <2>1. 1..0 = {} /\ 0 \in 0..Len(q) /\ Len(q) \in 0..Len(q)
    BY <1>1
  <2>2. it[{}] = <<>>
    BY <1>6
  <2> HIDE DEF D
  <2> QED BY <1>1, <1>7, <2>1, <2>2
<1>9. ASSUME NEW n \in 1..Len(q)  PROVE acc[n] = AddRow(acc[n - 1], q[n])
  <2>1. Max(1..n) = n /\ (1..n) \ {n} = 1..n - 1 /\ 1..n \in SUBSET D /\ 1..n # {}
    <3>1. Max(1..n) = n
      BY <1>1, MaxUpto
    <3>2. (1..n) \ {n} = 1..n - 1
      BY <1>1
    <3>3. n \in 1..n /\ 1..n \subseteq 1..Len(q)
      BY <1>1
    <3> HIDE DEF D
    <3> QED BY <1>1, <3>1, <3>2, <3>3
  <2>2. it[1..n] = AddRow(it[1..n - 1], q[n])
    <3> HIDE DEF D
    <3> QED BY <1>6, <2>1
  <2>3. n \in 0..Len(q) /\ n - 1 \in 0..Len(q)
    BY <1>1
  <2> QED BY <2>2, <2>3
<1> HIDE DEF acc
<1>10. ASSUME NEW n \in 0..Len(q)  PROVE acc[n] \in V
  <2> DEFINE T == {k \in Nat : k <= Len(q) => acc[k] \in V}
  <2>1. 0 \in T
    <3>1. <<>> \in V
      BY NoGroups
    <3> HIDE DEF V
    <3> QED BY <1>8, <3>1
  <2>2. ASSUME NEW k \in T  PROVE k + 1 \in T
    <3> SUFFICES ASSUME k + 1 <= Len(q)  PROVE acc[k + 1] \in V
      OBVIOUS
    <3>1. k + 1 \in 1..Len(q) /\ k + 1 \in D /\ (k + 1) - 1 = k /\ acc[k] \in V
      BY <1>1
    <3>2. acc[k + 1] = AddRow(acc[k], q[k + 1])
      BY <1>9, <3>1
    <3> HIDE DEF V, D
    <3> QED BY <1>3, <3>1, <3>2
  <2> HIDE DEF T
  <2>3. T = Nat
    <3>1. T \subseteq Nat
      BY DEF T
    <3> QED BY <2>1, <2>2, <3>1, FromZeroOn
  <2> QED BY <1>1, <2>3 DEF T
<1>11. acc \in [0..Len(q) -> V]
  BY <1>10 DEF acc
<1>12. AddsEach(acc, q)
  BY <1>8, <1>9, <1>11 DEF AddsEach
<1> QED BY <1>12


\* The i-th row and the j-th of q are the first and the last, up to the n-th,
\* of the week w.
Bounds(q, n, w, i, j) ==
  /\ i \in 1..n /\ j \in 1..n /\ Week(q[i].ts) = w /\ Week(q[j].ts) = w
  /\ \A m \in 1..n : Week(q[m].ts) = w => i <= m /\ m <= j

Grouped(f, q, n) ==
  /\ DOMAIN f = {Week(q[i].ts) : i \in 1..n}
  /\ \A w \in DOMAIN f : \E i, j \in 1..n :
       Bounds(q, n, w, i, j) /\ f[w] = [first |-> q[i].val, last |-> q[j].val]

(* One row more keeps the first and the last of each week.                 *)
LEMMA GroupedNext ==
  ASSUME NEW q \in Seq(Rows), NEW n \in 1..Len(q), NEW f \in Groups, Grouped(f, q, n - 1)
  PROVE  Grouped(AddRow(f, q[n]), q, n)
<1> DEFINE r == q[n]
           u == Week(r.ts)
           g == AddRow(f, r)
<1>1. r \in Rows /\ n \in Nat /\ n - 1 \in Nat /\ 1..n = 1..n - 1 \cup {n} /\ n \in 1..n
      /\ n \notin 1..n - 1
  OBVIOUS
<1>2. /\ DOMAIN g = DOMAIN f \cup {u}
      /\ \A w \in DOMAIN f : w # u => g[w] = f[w]
      /\ u \in DOMAIN f => g[u] = [first |-> f[u].first, last |-> r.val]
      /\ u \notin DOMAIN f => g[u] = [first |-> r.val, last |-> r.val]
  BY <1>1, RowAdded
<1> HIDE DEF g
<1>3. DOMAIN g = {Week(q[i].ts) : i \in 1..n}
  <2>1. DOMAIN f = {Week(q[i].ts) : i \in 1..n - 1}
    BY DEF Grouped
  <2>2. {Week(q[i].ts) : i \in 1..n} = {Week(q[i].ts) : i \in 1..n - 1} \cup {u}
    BY <1>1
  <2> QED BY <1>2, <2>1, <2>2
<1> DEFINE Means(w) == \E i, j \in 1..n :
             Bounds(q, n, w, i, j) /\ g[w] = [first |-> q[i].val, last |-> q[j].val]
<1>4. ASSUME NEW w \in DOMAIN f, w # u  PROVE Means(w)
  <2>1. PICK i \in 1..n - 1, j \in 1..n - 1 :
          Bounds(q, n - 1, w, i, j) /\ f[w] = [first |-> q[i].val, last |-> q[j].val]
    BY DEF Grouped
  <2>2. Bounds(q, n, w, i, j)
    BY <1>1, <1>4, <2>1 DEF Bounds
  <2> QED BY <1>1, <1>2, <1>4, <2>1, <2>2
<1>5. CASE u \in DOMAIN f
  <2>1. PICK i \in 1..n - 1, j \in 1..n - 1 :
          Bounds(q, n - 1, u, i, j) /\ f[u] = [first |-> q[i].val, last |-> q[j].val]
    BY <1>5 DEF Grouped
  <2>2. Bounds(q, n, u, i, n)
    <3>1. i \in Int /\ i <= n /\ \A m \in 1..n - 1 : m <= n
      BY <1>1
    <3> QED BY <1>1, <2>1, <3>1 DEF Bounds
  <2>3. g[u] = [first |-> q[i].val, last |-> q[n].val]
    BY <1>2, <1>5, <2>1
  <2>4. Means(u)
    BY <1>1, <2>2, <2>3
  <2> HIDE DEF Means, u
  <2>5. \A w \in DOMAIN g : Means(w)
    BY <1>2, <1>4, <2>4
  <2>6. Grouped(g, q, n)
    BY <1>3, <2>5 DEF Grouped, Means
  <2> QED BY <2>6 DEF g
<1>6. CASE u \notin DOMAIN f
  <2>1. \A m \in 1..n - 1 : Week(q[m].ts) # u
    BY <1>6 DEF Grouped
  <2>2. Bounds(q, n, u, n, n)
    BY <1>1, <2>1 DEF Bounds
  <2>3. Means(u)
    BY <1>1, <1>2, <1>6, <2>2
  <2> HIDE DEF Means, u
  <2>4. \A w \in DOMAIN g : Means(w)
    BY <1>2, <1>4, <2>3
  <2>5. Grouped(g, q, n)
    BY <1>3, <2>4 DEF Grouped, Means
  <2> QED BY <2>5 DEF g
<1> QED BY <1>5, <1>6 DEF g

\* f and l are the first row and the last of S in the week w.
Ends(S, w, f, l) ==
  /\ f \in S /\ l \in S /\ Week(f.ts) = w /\ Week(l.ts) = w
  /\ \A r \in S : Week(r.ts) = w => f.ts <= r.ts /\ r.ts <= l.ts

(* What compute_weekly has in by_week, of the rows S of a printer.         *)
LEMMA ByWeekMeans ==
  ASSUME NEW S, OnePrinter(S)
  PROVE  /\ DOMAIN ByWeek(S) = {Week(r.ts) : r \in S}
         /\ \A w \in DOMAIN ByWeek(S) : \E f, l \in S :
              Ends(S, w, f, l) /\ ByWeek(S)[w] = [first |-> f.val, last |-> l.val]
<1> DEFINE q == Sorted(S)
           n == Cardinality(S)
           g == ByWeek(S)
<1>1. n \in Nat /\ S \subseteq Rows /\ \A r \in S : r.ts \in Int
  BY FS_CardinalityType DEF OnePrinter, Rows
<1>2. ByTime(q, S)
  BY SortedRows
<1> HIDE DEF q, n
<1>3. q \in Seq(Rows) /\ Len(q) = n /\ q \in [1..n -> S]
  BY <1>1, <1>2 DEF ByTime, n
<1>4. PICK acc : AddsEach(acc, q)
  BY <1>3, LoopSteps
<1>5. acc \in [0..n -> Groups] /\ acc[n] = g
  BY <1>3, <1>4 DEF AddsEach, ByWeek, q
<1>6. Grouped(acc[n], q, n)
  <2> DEFINE T == {k \in Nat : k <= n => Grouped(acc[k], q, k)}
  <2>1. 0 \in T
    <3>1. acc[0] = <<>> /\ DOMAIN <<>> = {} /\ 1..0 = {}
      BY <1>4, NoGroups DEF AddsEach
    <3>2. Grouped(acc[0], q, 0)
      BY <3>1 DEF Grouped
    <3> QED BY <3>2
  <2>2. ASSUME NEW k \in T  PROVE k + 1 \in T
    <3> SUFFICES ASSUME k + 1 <= n  PROVE Grouped(acc[k + 1], q, k + 1)
      OBVIOUS
    <3>1. k \in Nat /\ k \in 0..n /\ k + 1 \in 1..n /\ (k + 1) - 1 = k /\ k <= n
      BY <1>1
    <3>2. acc[k] \in Groups /\ Grouped(acc[k], q, k)
      BY <1>5, <3>1
    <3>3. acc[k + 1] = AddRow(acc[k], q[k + 1])
      BY <1>3, <1>4, <3>1 DEF AddsEach
    <3> HIDE DEF T
    <3> DEFINE m == k + 1
    <3>4. m \in 1..Len(q) /\ Grouped(acc[k], q, m - 1)
      BY <1>3, <3>1, <3>2
    <3> HIDE DEF m
    <3>5. Grouped(AddRow(acc[k], q[m]), q, m)
      BY <1>3, <3>2, <3>4, GroupedNext
    <3> QED BY <3>3, <3>5 DEF m
  <2> HIDE DEF T
  <2>3. T = Nat
    <3>1. T \subseteq Nat
      BY DEF T
    <3> QED BY <2>1, <2>2, <3>1, FromZeroOn
  <2> QED BY <1>1, <2>3 DEF T
<1> HIDE DEF g
<1>7. DOMAIN g = {Week(r.ts) : r \in S}
  BY <1>2, <1>3, <1>5, <1>6 DEF Grouped, ByTime, n
<1>8. ASSUME NEW w \in DOMAIN g
      PROVE  \E f, l \in S : Ends(S, w, f, l) /\ g[w] = [first |-> f.val, last |-> l.val]
  <2>1. PICK i \in 1..n, j \in 1..n :
          Bounds(q, n, w, i, j) /\ g[w] = [first |-> q[i].val, last |-> q[j].val]
    BY <1>5, <1>6 DEF Grouped
  <2>2. ASSUME NEW r \in S, Week(r.ts) = w  PROVE q[i].ts <= r.ts /\ r.ts <= q[j].ts
    <3>1. PICK m \in 1..n : q[m] = r
      BY <1>2 DEF ByTime, n
    <3>2. i <= m /\ m <= j
      BY <2>1, <2>2, <3>1 DEF Bounds
    <3>3. \A a, b \in 1..n : a < b => q[a].ts < q[b].ts
      BY <1>2 DEF ByTime, n
    <3>4. \A a, b \in 1..n : a <= b => q[a].ts <= q[b].ts
      <4> SUFFICES ASSUME NEW a \in 1..n, NEW b \in 1..n, a <= b  PROVE q[a].ts <= q[b].ts
        OBVIOUS
      <4>1. q[a].ts \in Int /\ q[b].ts \in Int
        BY <1>1, <1>3
      <4>2. a = b \/ a < b
        OBVIOUS
      <4> QED BY <3>3, <4>1, <4>2
    <3> QED BY <3>1, <3>2, <3>4
  <2>3. Ends(S, w, q[i], q[j])
    BY <1>3, <2>1, <2>2 DEF Ends, Bounds
  <2> QED BY <1>3, <2>1, <2>3
<1> QED BY <1>7, <1>8 DEF g
-----------------------------------------------------------------------------
(* The lines of a report.                                                  *)

\* What the last of two rows differs from the first by.
Diff(f, l) == IF f.val = None \/ l.val = None THEN None ELSE l.val - f.val

\* The lines that a printer gets for its rows S.
LinesFor(S, ip) ==
  {[week |-> w, ip |-> ip, delta |-> Delta(ByWeek(S)[w])] : w \in DOMAIN ByWeek(S)}

\* The lines L say of each week that S has rows in by how much the last of
\* these differs from the first, and of no other week anything.
Tells(L, S, ip) ==
  /\ \A row \in L : \E r \in S : Week(r.ts) = row.week
  /\ \A r \in S : \E f, l \in S :
       /\ Ends(S, Week(r.ts), f, l)
       /\ {row \in L : row.week = Week(r.ts)} =
            {[week |-> Week(r.ts), ip |-> ip, delta |-> Diff(f, l)]}

(* Two counts that were read differ by at most the bound of the counters.  *)
LEMMA DiffType ==
  ASSUME NEW f \in Rows, NEW l \in Rows
  PROVE  Diff(f, l) \in (-MaxCount..MaxCount) \cup {None}
<1>1. f.val \in Counts /\ l.val \in Counts
  BY DEF Rows
<1>2. CASE f.val # None /\ l.val # None
  <2>1. f.val \in 0..MaxCount /\ l.val \in 0..MaxCount /\ MaxCount \in Nat
    BY <1>1, <1>2, ReportAssumption DEF Counts
  <2>2. l.val - f.val \in -MaxCount..MaxCount
    BY <2>1
  <2> QED BY <1>2, <2>2 DEF Diff
<1> QED BY <1>2 DEF Diff

(* The lines of a printer are right.                                       *)
LEMMA LinesTell ==
  ASSUME NEW ip \in Ips, NEW S, OnePrinter(S)
  PROVE  /\ LinesFor(S, ip) \subseteq Lines /\ IsFiniteSet(LinesFor(S, ip))
         /\ \A row \in LinesFor(S, ip) : row.ip = ip
         /\ Tells(LinesFor(S, ip), S, ip)
<1> DEFINE g == ByWeek(S)
           L == LinesFor(S, ip)
           Line(w) == [week |-> w, ip |-> ip, delta |-> Delta(g[w])]
<1>1. S \subseteq Rows /\ IsFiniteSet(S) /\ \A r \in S : Week(r.ts) \in Nat
  <2>1. S \subseteq Rows /\ IsFiniteSet(S)
    BY DEF OnePrinter
  <2>2. \A r \in S : r.ts \in Nat
    BY <2>1 DEF Rows
  <2> QED BY <2>1, <2>2, WeekType
<1>2. /\ DOMAIN g = {Week(r.ts) : r \in S}
      /\ \A w \in DOMAIN g : \E f, l \in S :
           Ends(S, w, f, l) /\ g[w] = [first |-> f.val, last |-> l.val]
  BY ByWeekMeans
<1>3. L = {Line(w) : w \in DOMAIN g}
  BY DEF LinesFor
<1> HIDE DEF g, L
<1>4. \A w \in DOMAIN g : \E f, l \in S :
        Ends(S, w, f, l) /\ Line(w) = [week |-> w, ip |-> ip, delta |-> Diff(f, l)]
  <2> TAKE w \in DOMAIN g
  <2>1. PICK f \in S, l \in S : Ends(S, w, f, l) /\ g[w] = [first |-> f.val, last |-> l.val]
    BY <1>2
  <2>2. Delta(g[w]) = Diff(f, l)
    BY <2>1 DEF Delta, Diff
  <2> QED BY <2>1, <2>2
<1>5. L \subseteq Lines
  <2> SUFFICES ASSUME NEW w \in DOMAIN g  PROVE Line(w) \in Lines
    BY <1>3
  <2>1. PICK f \in S, l \in S : Line(w) = [week |-> w, ip |-> ip, delta |-> Diff(f, l)]
    BY <1>4
  <2>2. w \in Nat /\ f \in Rows /\ l \in Rows
    BY <1>1, <1>2
  <2>3. Diff(f, l) \in (-MaxCount..MaxCount) \cup {None}
    BY <2>2, DiffType
  <2> HIDE DEF Line
  <2> QED BY <2>1, <2>2, <2>3 DEF Lines
<1>6. IsFiniteSet(L)
  <2> DEFINE W == {Week(r.ts) : r \in S}
             h == [r \in S |-> Line(Week(r.ts))]
  <2>1. L = {h[r] : r \in S}
    BY <1>2, <1>3
  <2>2. h \in Surjection(S, L)
    BY <2>1 DEF Surjection
  <2> HIDE DEF h
  <2> QED BY <1>1, <2>2, FS_Surjection
<1>7. \A row \in L : row.ip = ip /\ row.week \in DOMAIN g
  BY <1>3
<1>8. \A row \in L : \E r \in S : Week(r.ts) = row.week
  BY <1>2, <1>7
<1>9. ASSUME NEW r \in S
      PROVE  \E f, l \in S :
               /\ Ends(S, Week(r.ts), f, l)
               /\ {row \in L : row.week = Week(r.ts)} =
                    {[week |-> Week(r.ts), ip |-> ip, delta |-> Diff(f, l)]}
  <2> DEFINE w == Week(r.ts)
  <2>1. w \in DOMAIN g
    BY <1>2
  <2>2. {row \in L : row.week = w} = {Line(w)}
    <3> HIDE DEF w
    <3> QED BY <1>3, <2>1
  <2> HIDE DEF w, Line
  <2>3. PICK f \in S, l \in S :
          Ends(S, w, f, l) /\ Line(w) = [week |-> w, ip |-> ip, delta |-> Diff(f, l)]
    BY <1>4, <2>1
  <2> QED BY <2>2, <2>3 DEF w
<1>10. Tells(L, S, ip)
  BY <1>8, <1>9 DEF Tells
<1> QED BY <1>5, <1>6, <1>7, <1>10 DEF L

\* What was read of a printer, and what the report says of it.
SeenOf(ip) == {r \in seen : r.ip = ip}
LinesOf(ip) == {row \in weeks : row.ip = ip}

(* The lines are exact when they are so printer by printer.                *)
LEMMA TellsExact ==
  ASSUME \A row \in weeks : row.ip \in Ips
  PROVE  (/\ LinesExact
          /\ \A row \in weeks : \E r \in seen : r.ip = row.ip /\ Week(r.ts) = row.week)
         <=> \A ip \in Ips : Tells(LinesOf(ip), SeenOf(ip), ip)
<1> DEFINE Covers == \A row \in weeks : \E r \in seen : r.ip = row.ip /\ Week(r.ts) = row.week
           Found(w, ip) == {r \in seen : r.ip = ip /\ Week(r.ts) = w}
           At(w, ip) == {row \in weeks : row.week = w /\ row.ip = ip}
           Shown(w, ip) == \E f, l \in Found(w, ip) :
               /\ \A r \in Found(w, ip) : f.ts <= r.ts /\ r.ts <= l.ts
               /\ At(w, ip) = {[week |-> w, ip |-> ip, delta |-> Diff(f, l)]}
<1>1. LinesExact <=> \A ip \in Ips : \A w \in {Week(r.ts) : r \in seen} :
                       IF Found(w, ip) = {} THEN At(w, ip) = {} ELSE Shown(w, ip)
  BY DEF LinesExact, Diff
<1>2. Covers <=> \A ip \in Ips : \A row \in LinesOf(ip) :
                   \E r \in SeenOf(ip) : Week(r.ts) = row.week
  BY DEF LinesOf, SeenOf
<1>3. ASSUME NEW ip \in Ips, NEW w
      PROVE  (\E f, l \in SeenOf(ip) :
                /\ Ends(SeenOf(ip), w, f, l)
                /\ {row \in LinesOf(ip) : row.week = w} =
                     {[week |-> w, ip |-> ip, delta |-> Diff(f, l)]})
             <=> Shown(w, ip)
  <2>1. {row \in LinesOf(ip) : row.week = w} = At(w, ip)
    BY DEF LinesOf
  <2> DEFINE K == At(w, ip)
  <2> HIDE DEF K
  <2>2. ASSUME NEW f, NEW l
        PROVE  f \in SeenOf(ip) /\ l \in SeenOf(ip) /\ Ends(SeenOf(ip), w, f, l) <=>
                 /\ f \in Found(w, ip) /\ l \in Found(w, ip)
                 /\ \A r \in Found(w, ip) : f.ts <= r.ts /\ r.ts <= l.ts
    BY DEF Ends, SeenOf
  <2> HIDE DEF Found
  <2> QED BY <2>1, <2>2
<1>4. ASSUME Covers, NEW ip \in Ips, NEW w, Found(w, ip) = {}  PROVE At(w, ip) = {}
  BY <1>4
<1> HIDE DEF Shown, At, Covers
<1>5. (\A ip \in Ips : Tells(LinesOf(ip), SeenOf(ip), ip)) <=>
        /\ Covers
        /\ \A ip \in Ips : \A r \in SeenOf(ip) : Shown(Week(r.ts), ip)
  BY <1>2, <1>3 DEF Tells
<1>6. (\A ip \in Ips : \A r \in SeenOf(ip) : Shown(Week(r.ts), ip)) <=>
        \A ip \in Ips : \A w \in {Week(r.ts) : r \in seen} : Found(w, ip) # {} => Shown(w, ip)
  BY DEF SeenOf
<1> HIDE DEF Found
<1> QED BY <1>1, <1>4, <1>5, <1>6 DEF Covers
-----------------------------------------------------------------------------
(* The invariant.                                                          *)

Told == /\ IsFiniteSet(weeks)
        /\ \A ip \in Ips : Tells(LinesOf(ip), SeenOf(ip), ip)

(* The invariant, printer by printer.                                      *)
LEMMA Printerwise == TypeOK => (LineInv <=> Told)
<1> SUFFICES ASSUME TypeOK  PROVE LineInv <=> Told
  OBVIOUS
<1>1. \A row \in weeks : row.ip \in Ips
  BY DEF TypeOK
<1> QED BY <1>1, TellsExact DEF LineInv, Told

(* ... and so it is after a step.                                          *)
LEMMA PrinterwiseNext == TypeOK' /\ Told' => LineInv'
BY Printerwise, PTL

(* What was read of a printer and said of it, after a step.                *)
LEMMA TellsNext ==
  ASSUME NEW ip, NEW L, NEW S, Tells(L, S, ip), LinesOf(ip)' = L, SeenOf(ip)' = S
  PROVE  Tells(LinesOf(ip), SeenOf(ip), ip)'
<1> DEFINE M == LinesOf(ip)
           N == SeenOf(ip)
<1>1. M' = L /\ N' = S
  OBVIOUS
<1> HIDE DEF M, N
<1>2. Tells(M', N', ip)
  BY <1>1
<1>3. Tells(M, N, ip)'
  BY <1>2 DEF Tells
<1> QED BY <1>3 DEF M, N

(* What is in the range of a table is in that of a larger one.             *)
LEMMA RangeGrows ==
  ASSUME NEW S, NEW T, S \subseteq T
  PROVE  InRange(S) \subseteq InRange(T) /\ InRange(S) \subseteq S
BY DEF InRange

(* What is read of a printer.                                              *)
LEMMA ReadsRows ==
  ASSUME TypeOK, TableInv, NEW ip \in Ips
  PROVE  OnePrinter({r \in InRange(table) : r.ip = ip})
<1>1. InRange(table) \subseteq table /\ table \subseteq Rows /\ IsFiniteSet(table)
  BY DEF InRange, TypeOK, TableInv, Rows, Counts
<1>2. IsFiniteSet({r \in InRange(table) : r.ip = ip})
  BY <1>1, FS_Subset
<1> QED BY <1>1, <1>2 DEF OnePrinter, TableInv

(* The variables of the report stay.                                       *)
LEMMA ReportKept ==
  ASSUME TypeOK, ReadInv, LineInv, UNCHANGED report, table \subseteq table'
  PROVE  ReadInv' /\ Told'
<1>1. UNCHANGED <<pc, range, todo, weeks, before, seen>>
  BY DEF report
<1>2. /\ InRange(table) \subseteq InRange(table)' /\ InRange(before)' = InRange(before)
  BY <1>1 DEF InRange
<1>3. ReadInv'
  BY <1>1, <1>2 DEF ReadInv
<1>4. Told'
  <2>1. Told
    BY Printerwise
  <2> QED BY <1>1, <2>1 DEF Told, LinesOf, SeenOf
<1> QED BY <1>3, <1>4

(* Time passes.                                                            *)
LEMMA TickInv ==
  ASSUME IInv, Tick
  PROVE  TypeOK' /\ TableInv' /\ AnswersInv' /\ ReadInv' /\ Told'
<1>1. /\ now \in 0..MaxNow /\ now < MaxNow /\ now' = now + 1
      /\ UNCHANGED <<odometer, answers, disturbed, table, pc, range, todo, weeks, before, seen>>
  BY DEF IInv, TypeOK, Tick, report, collect
<1>2. now' \in 0..MaxNow
  BY <1>1, ReportAssumption
<1>3. TypeOK'
  BY <1>1, <1>2 DEF IInv, TypeOK
<1>4. \A r \in table : r.ts <= now'
  <2>1. \A r \in table : r.ts \in Int /\ r.ts <= now
    BY DEF IInv, TypeOK, TableInv
  <2> QED BY <1>1, <2>1
<1>5. TableInv'
  BY <1>1, <1>4 DEF IInv, TableInv
<1>6. ReadInv' /\ Told'
  BY <1>1, ReportKept DEF IInv, report
<1>7. AnswersInv'
  <2>1. \A a \in answers : a.at <= now'
    <3>1. \A a \in answers : a.at \in Int /\ a.at <= now
      BY DEF IInv, TypeOK, AnswersInv
    <3> QED BY <1>1, <3>1
  <2> QED BY <1>1, <2>1 DEF IInv, AnswersInv
<1> QED BY <1>3, <1>5, <1>6, <1>7

Read == [ip : Ips, at : 0..MaxNow, val : Counts]

(* An odometer is read: of that printer nothing else is in flight, and no  *)
(* count is above this one, unless it is disturbed.                        *)
LEMMA AnswerInv ==
  ASSUME IInv, NEW ip \in Ips, Answer(ip)
  PROVE  TypeOK' /\ TableInv' /\ AnswersInv' /\ ReadInv' /\ Told'
<1>1. PICK count \in 0..MaxCount :
        /\ odometer' = [odometer EXCEPT ![ip] = count]
        /\ disturbed' = (disturbed \/ count < odometer[ip] \/ \E a \in answers : a.ip = ip)
        /\ \E val \in {count, None} :
             answers' = answers \cup {[ip |-> ip, at |-> now, val |-> val]}
  BY DEF Answer
<1>2. PICK val \in {count, None} :
        answers' = answers \cup {[ip |-> ip, at |-> now, val |-> val]}
  BY <1>1
<1> DEFINE new == [ip |-> ip, at |-> now, val |-> val]
<1>3. /\ new.ip = ip /\ new.at = now /\ new.val = val /\ answers' = answers \cup {new}
      /\ val \in Counts /\ new \in Read
  <2>1. now \in 0..MaxNow
    BY DEF IInv, TypeOK
  <2> QED BY <1>2, <2>1 DEF Counts, Read
<1> HIDE DEF new
<1>4. UNCHANGED <<now, table, pc, range, todo, weeks, before, seen>>
  BY DEF Answer, report
<1>5. /\ odometer \in [Ips -> 0..MaxCount] /\ odometer' \in [Ips -> 0..MaxCount]
      /\ odometer'[ip] = count /\ \A q \in Ips \ {ip} : odometer'[q] = odometer[q]
  BY <1>1 DEF IInv, TypeOK
<1>6. /\ table \subseteq Rows /\ answers \subseteq Read /\ now \in Int
      /\ \A r \in table : r.ip \in Ips /\ r.ts \in Int /\ r.val \in Counts
      /\ \A a \in answers : a.ip \in Ips /\ a.at \in Int /\ a.val \in Counts
  BY DEF IInv, TypeOK, Rows, Read, Counts
<1>7. TypeOK'
  <2>1. answers' \subseteq Read
    BY <1>3, <1>6
  <2>2. disturbed' \in BOOLEAN
    BY <1>1 DEF IInv, TypeOK
  <2> QED BY <1>4, <1>5, <2>1, <2>2 DEF IInv, TypeOK, Read, Counts
<1>8. ASSUME ~disturbed'
      PROVE  /\ ~disturbed /\ odometer[ip] <= count /\ \A a \in answers : a.ip # ip
             /\ odometer[ip] \in Int /\ count \in Int
             /\ \A r \in table : r.val # None => r.val \in Int /\ r.val <= odometer[r.ip]
  <2>1. ~disturbed /\ ~(count < odometer[ip]) /\ ~\E a \in answers : a.ip = ip
    BY <1>1, <1>8, Zenon
  <2>2. \A r \in table : r.val # None => r.val \in Int /\ r.val <= odometer[r.ip]
    BY <1>6, <2>1 DEF IInv, TableInv, Counts
  <2> QED BY <1>5, <2>1, <2>2
<1>9. TableInv'
  <2>1. ASSUME ~disturbed', NEW r \in table, r.val # None
        PROVE  /\ r.val <= odometer'[r.ip]
               /\ \A q \in table : q.ip = r.ip /\ q.ts <= r.ts /\ q.val # None =>
                                   q.val <= r.val
    <3>1. r.val \in Int /\ r.val <= odometer[r.ip] /\ r.ip \in Ips
      BY <1>6, <1>8, <2>1
    <3>2. r.val <= odometer'[r.ip]
      <4>1. CASE r.ip = ip
        BY <1>5, <1>8, <2>1, <3>1, <4>1
      <4>2. CASE r.ip # ip
        BY <1>5, <3>1, <4>2
      <4> QED BY <4>1, <4>2
    <3> QED BY <1>8, <2>1, <3>2 DEF IInv, TableInv
  <2> QED BY <1>4, <2>1 DEF IInv, TableInv
<1>10. AnswersInv'
  <2>1. IsFiniteSet(answers') /\ \A a \in answers' : a.at <= now'
    BY <1>3, <1>4, <1>6, FS_AddElement DEF IInv, AnswersInv
  <2>2. ASSUME ~disturbed', NEW a \in answers'
        PROVE  /\ a.val # None => a.val <= odometer'[a.ip]
               /\ \A b \in answers' : a.ip = b.ip => a = b
               /\ \A r \in table' : r.ip = a.ip =>
                    r.ts <= a.at /\ (r.val # None /\ a.val # None => r.val <= a.val)
    <3>1. CASE a \in answers
      <4>1. a.ip # ip /\ a.ip \in Ips
        BY <1>6, <1>8, <2>2, <3>1
      <4>2. /\ a.val # None => a.val <= odometer[a.ip]
            /\ \A b \in answers : a.ip = b.ip => a = b
            /\ \A r \in table : r.ip = a.ip =>
                 r.ts <= a.at /\ (r.val # None /\ a.val # None => r.val <= a.val)
        BY <1>8, <2>2, <3>1 DEF IInv, AnswersInv
      <4> QED BY <1>3, <1>4, <1>5, <4>1, <4>2
    <3>2. CASE a = new
      <4>1. a.ip = ip /\ a.at = now /\ (a.val # None => a.val = count)
        BY <1>2, <1>3, <3>2
      <4>2. \A b \in answers' : a.ip = b.ip => a = b
        BY <1>3, <1>8, <2>2, <3>2
      <4>3. \A r \in table : r.ip = ip => r.ts <= now /\ (r.val # None => r.val <= count)
        <5>1. \A r \in table : r.ts <= now
          BY DEF IInv, TableInv
        <5> QED BY <1>8, <2>2, <5>1
      <4> QED BY <1>4, <1>5, <1>8, <2>2, <4>1, <4>2, <4>3
    <3> QED BY <1>3, <2>2, <3>1, <3>2
  <2> QED BY <2>1, <2>2 DEF AnswersInv
<1>11. ReadInv' /\ Told'
  <2>1. table \subseteq table' /\ UNCHANGED report
    BY <1>4 DEF report
  <2> QED BY <2>1, ReportKept DEF IInv
<1> QED BY <1>7, <1>9, <1>10, <1>11

(* An answer is saved, or lost: its stamp is the latest of its printer, and *)
(* so is its count, unless it is disturbed.                                *)
LEMMA SaveInv ==
  ASSUME IInv, NEW a \in answers, Save(a)
  PROVE  TypeOK' /\ TableInv' /\ AnswersInv' /\ ReadInv' /\ Told'
<1>1. /\ answers' = answers \ {a}
      /\ UNCHANGED <<now, odometer, disturbed, pc, range, todo, weeks, before, seen>>
  BY DEF Save, report
<1>2. /\ table \subseteq Rows /\ answers \subseteq Read /\ now \in 0..MaxNow
      /\ \A r \in table : r.ip \in Ips /\ r.ts \in Int /\ r.val \in Counts
      /\ \A b \in answers : b.ip \in Ips /\ b.at \in 0..MaxNow /\ b.val \in Counts
      /\ a.at <= now /\ a.at \in 0..MaxNow
  BY DEF IInv, TypeOK, Rows, Read, Counts, AnswersInv
<1>3. IsFiniteSet(answers') /\ \A b \in answers' : b.at <= now'
  BY <1>1, FS_Subset DEF IInv, AnswersInv
<1>4. ASSUME table \subseteq table', table' \subseteq Rows, TableInv', AnswersInv'
      PROVE  TypeOK' /\ TableInv' /\ AnswersInv' /\ ReadInv' /\ Told'
  <2>1. TypeOK'
    <3>1. answers' \subseteq Read /\ before \subseteq table' /\ seen \subseteq table'
      BY <1>1, <1>2, <1>4 DEF IInv, TypeOK
    <3> QED BY <1>1, <1>4, <3>1 DEF IInv, TypeOK, Rows, Read, Counts
  <2>2. ReadInv' /\ Told'
    <3>1. UNCHANGED report
      BY <1>1 DEF report
    <3> QED BY <1>4, <3>1, ReportKept DEF IInv
  <2> QED BY <1>4, <2>1, <2>2
<1>5. CASE table' = table
  <2>1. TableInv'
    BY <1>1, <1>5 DEF IInv, TableInv
  <2>2. AnswersInv'
    BY <1>1, <1>3, <1>5 DEF IInv, AnswersInv
  <2> QED BY <1>2, <1>4, <1>5, <2>1, <2>2
<1>6. ASSUME NEW ts \in a.at..now, \A r \in table : ~(r.ip = a.ip /\ r.ts = ts),
             table' = table \cup {[ip |-> a.ip, ts |-> ts, val |-> a.val]}
      PROVE  TypeOK' /\ TableInv' /\ AnswersInv' /\ ReadInv' /\ Told'
  <2> DEFINE new == [ip |-> a.ip, ts |-> ts, val |-> a.val]
  <2>1. /\ new.ip = a.ip /\ new.ts = ts /\ new.val = a.val /\ table' = table \cup {new}
        /\ new \in Rows /\ ts \in Int /\ a.at <= ts /\ ts <= now
    <3>1. ts \in 0..MaxNow
      <4>1. a.at \in 0..MaxNow /\ now \in 0..MaxNow /\ MaxNow \in Nat
        BY <1>2, ReportAssumption
      <4> QED BY <4>1
    <3> QED BY <1>2, <1>6, <3>1 DEF Rows, Counts
  <2> HIDE DEF new
  <2>2. ASSUME ~disturbed
        PROVE  /\ a.val # None => a.val <= odometer[a.ip]
               /\ \A b \in answers : a.ip = b.ip => a = b
               /\ \A r \in table : r.ip = a.ip =>
                    r.ts <= a.at /\ (r.val # None /\ a.val # None => r.val <= a.val)
    BY <2>2 DEF IInv, AnswersInv
  <2>3. TableInv'
    <3>1. IsFiniteSet(table')
      BY <2>1, FS_AddElement DEF IInv, TableInv
    <3>2. \A r \in table' : r.ts <= now'
      BY <1>1, <2>1 DEF IInv, TableInv
    <3>3. \A r, q \in table' : r.ip = q.ip /\ r.ts = q.ts => r = q
      <4>1. \A r, q \in table : r.ip = q.ip /\ r.ts = q.ts => r = q
        BY DEF IInv, TableInv
      <4> QED BY <1>6, <2>1, <4>1
    <3>4. ASSUME ~disturbed', NEW r \in table', r.val # None
          PROVE  /\ r.val <= odometer'[r.ip]
                 /\ \A q \in table' : q.ip = r.ip /\ q.ts <= r.ts /\ q.val # None =>
                                     q.val <= r.val
      <4>1. ~disturbed /\ odometer' = odometer
        BY <1>1, <3>4
      <4>2. CASE r \in table
        <5>1. /\ r.val <= odometer[r.ip]
              /\ \A q \in table : q.ip = r.ip /\ q.ts <= r.ts /\ q.val # None => q.val <= r.val
          BY <3>4, <4>1, <4>2 DEF IInv, TableInv
        <5>2. new.ip = r.ip => ~(new.ts <= r.ts)
          <6>1. SUFFICES ASSUME new.ip = r.ip, new.ts <= r.ts  PROVE FALSE
            OBVIOUS
          <6>2. r.ts <= a.at /\ r.ts \in Int /\ a.at \in Int
            BY <1>2, <2>1, <2>2, <4>1, <4>2, <6>1
          <6>3. r.ts = ts /\ r.ip = a.ip
            BY <2>1, <6>1, <6>2
          <6> QED BY <1>6, <4>2, <6>3
        <5> QED BY <2>1, <4>1, <5>1, <5>2
      <4>3. CASE r = new
        <5>1. r.ip = a.ip /\ r.val = a.val /\ a.val # None
          BY <2>1, <3>4, <4>3
        <5>2. a.val \in Int
          BY <1>2, <5>1 DEF Counts
        <5> QED BY <2>1, <2>2, <4>1, <4>3, <5>1, <5>2
      <4> QED BY <2>1, <4>2, <4>3
    <3> QED BY <3>1, <3>2, <3>3, <3>4 DEF TableInv
  <2>4. AnswersInv'
    <3>1. ASSUME ~disturbed', NEW b \in answers'
          PROVE  /\ b.val # None => b.val <= odometer'[b.ip]
                 /\ \A c \in answers' : b.ip = c.ip => b = c
                 /\ \A r \in table' : r.ip = b.ip =>
                      r.ts <= b.at /\ (r.val # None /\ b.val # None => r.val <= b.val)
      <4>1. ~disturbed /\ odometer' = odometer /\ b \in answers /\ b # a
        BY <1>1, <3>1
      <4>2. new.ip # b.ip
        BY <2>1, <2>2, <4>1
      <4>3. /\ b.val # None => b.val <= odometer[b.ip]
            /\ \A c \in answers : b.ip = c.ip => b = c
            /\ \A r \in table : r.ip = b.ip =>
                 r.ts <= b.at /\ (r.val # None /\ b.val # None => r.val <= b.val)
        BY <4>1 DEF IInv, AnswersInv
      <4> QED BY <1>1, <2>1, <4>1, <4>2, <4>3
    <3> QED BY <1>3, <3>1 DEF AnswersInv
  <2> QED BY <1>2, <1>4, <2>1, <2>3, <2>4
<1> QED BY <1>5, <1>6 DEF Save

(* The printers are asked for.                                             *)
LEMMA BeginInv ==
  ASSUME IInv, Begin
  PROVE  TypeOK' /\ TableInv' /\ AnswersInv' /\ ReadInv' /\ Told'
<1>1. /\ pc = "idle" /\ pc' = "reading" /\ before' = table
      /\ todo' = {r.ip : r \in InRange(table)}
      /\ UNCHANGED <<now, odometer, answers, disturbed, table, range, weeks, seen>>
  BY DEF Begin, collect
<1>2. InRange(table) \subseteq table
  BY DEF InRange
<1>3. before = {} /\ seen = {} /\ InRange(before)' = InRange(table) /\ InRange({}) = {}
  BY <1>1 DEF IInv, ReadInv, InRange
<1>4. TypeOK'
  BY <1>1, <1>2 DEF IInv, TypeOK
<1>5. TableInv' /\ AnswersInv'
  BY <1>1 DEF IInv, TableInv, AnswersInv
<1>6. ReadInv'
  <2>1. InRange(table)' = InRange(table)
    BY <1>1 DEF InRange
  <2> QED BY <1>1, <1>3, <2>1 DEF IInv, ReadInv
<1>7. Told'
  <2>1. Told
    BY Printerwise DEF IInv
  <2> QED BY <1>1, <2>1 DEF Told, LinesOf, SeenOf
<1> QED BY <1>4, <1>5, <1>6, <1>7

(* The rows of a printer are read.                                         *)
LEMMA ReadPrinterInv ==
  ASSUME IInv, NEW ip \in Ips, ReadPrinter(ip)
  PROVE  TypeOK' /\ TableInv' /\ AnswersInv' /\ ReadInv' /\ Told'
<1> DEFINE rows == {r \in InRange(table) : r.ip = ip}
           new == LinesFor(rows, ip)
<1>1. /\ pc = "reading" /\ ip \in todo /\ todo' = todo \ {ip}
      /\ UNCHANGED <<now, odometer, answers, disturbed, table, pc, range, before>>
  BY DEF ReadPrinter, collect
<1>2. weeks' = weeks \cup new /\ seen' = seen \cup rows
  BY DEF ReadPrinter, LinesFor
<1>3. /\ new \subseteq Lines /\ IsFiniteSet(new) /\ \A row \in new : row.ip = ip
      /\ Tells(new, rows, ip)
  <2>1. OnePrinter(rows)
    BY ReadsRows DEF IInv
  <2> HIDE DEF rows
  <2> QED BY <2>1, LinesTell
<1> HIDE DEF new
<1>4. rows \subseteq InRange(table) /\ \A r \in rows : r.ip = ip
  OBVIOUS
<1>5. InRange(table) \subseteq table /\ UNCHANGED <<InRange(table), InRange(before)>>
  BY <1>1 DEF InRange
<1>6. TypeOK'
  <2>1. weeks' \subseteq Lines
    BY <1>2, <1>3 DEF IInv, TypeOK, Lines
  <2>2. seen' \subseteq table'
    BY <1>1, <1>2, <1>4, <1>5 DEF IInv, TypeOK
  <2> HIDE DEF rows
  <2> QED BY <1>1, <2>1, <2>2 DEF IInv, TypeOK, Lines
<1>7. TableInv' /\ AnswersInv'
  BY <1>1 DEF IInv, TableInv, AnswersInv
<1>8. \E r \in InRange(before) : r.ip = ip
  BY <1>1 DEF IInv, ReadInv
<1>9. InRange(before) \subseteq InRange(table)
  BY RangeGrows DEF IInv, TypeOK
<1>10. ReadInv'
  <2>1. {r.ip : r \in seen'} = {r.ip : r \in InRange(before)} \ todo'
    <3>1. {r.ip : r \in seen} = {r.ip : r \in InRange(before)} \ todo
      BY DEF IInv, ReadInv
    <3>2. {r.ip : r \in rows} = {ip}
      BY <1>8, <1>9
    <3>3. {r.ip : r \in seen'} = {r.ip : r \in seen} \cup {ip}
      <4> HIDE DEF rows
      <4> QED BY <1>2, <3>2
    <3> QED BY <1>1, <1>8, <3>1, <3>3
  <2>2. {r \in InRange(before) : r.ip \notin todo'} \subseteq seen'
    <3>1. {r \in InRange(before) : r.ip \notin todo} \subseteq seen
      BY DEF IInv, ReadInv
    <3>2. \A r \in InRange(before) : r.ip = ip => r \in rows
      BY <1>9
    <3> HIDE DEF rows
    <3> QED BY <1>1, <1>2, <3>1, <3>2
  <2>3. seen' \subseteq InRange(table)
    BY <1>2, <1>4 DEF IInv, ReadInv
  <2> HIDE DEF rows
  <2> QED BY <1>1, <1>5, <2>1, <2>2, <2>3 DEF IInv, ReadInv
<1>11. Told'
  <2>1. Told
    BY Printerwise DEF IInv
  <2>2. SeenOf(ip) = {}
    BY <1>1 DEF IInv, ReadInv, SeenOf
  <2>3. LinesOf(ip) = {}
    BY <2>2 DEF IInv, LineInv, LinesOf, SeenOf
  <2>4. SeenOf(ip)' = rows /\ LinesOf(ip)' = new
    <3>1. {r \in rows : r.ip = ip} = rows /\ {row \in new : row.ip = ip} = new
      BY <1>3, <1>4
    <3> HIDE DEF rows
    <3> QED BY <1>2, <2>2, <2>3, <3>1 DEF SeenOf, LinesOf
  <2>5. ASSUME NEW q \in Ips, q # ip
        PROVE  SeenOf(q)' = SeenOf(q) /\ LinesOf(q)' = LinesOf(q)
    <3> HIDE DEF rows
    <3> QED BY <1>2, <1>3, <1>4, <2>5 DEF SeenOf, LinesOf
  <2>6. IsFiniteSet(weeks')
    BY <1>2, <1>3, <2>1, FS_Union DEF Told
  <2> HIDE DEF rows
  <2>7. ASSUME NEW q \in Ips  PROVE Tells(LinesOf(q), SeenOf(q), q)'
    <3>1. CASE q = ip
      BY <1>3, <2>4, <3>1, TellsNext
    <3>2. CASE q # ip
      BY <2>1, <2>5, <3>2, TellsNext DEF Told
    <3> QED BY <3>1, <3>2
  <2> QED BY <2>6, <2>7 DEF Told
<1> QED BY <1>6, <1>7, <1>10, <1>11

(* The report is over.                                                     *)
LEMMA FinishInv ==
  ASSUME IInv, Finish
  PROVE  TypeOK' /\ TableInv' /\ AnswersInv' /\ ReadInv' /\ Told'
<1>1. /\ pc = "reading" /\ todo = {} /\ pc' = "done"
      /\ UNCHANGED <<now, odometer, answers, disturbed, table, range, todo, weeks, before, seen>>
  BY DEF Finish, collect
<1>2. UNCHANGED <<InRange(table), InRange(before)>>
  BY <1>1 DEF InRange
<1>3. TypeOK'
  BY <1>1 DEF IInv, TypeOK
<1>4. TableInv' /\ AnswersInv'
  BY <1>1 DEF IInv, TableInv, AnswersInv
<1>5. ReadInv'
  BY <1>1, <1>2 DEF IInv, ReadInv
<1>6. Told'
  <2>1. Told
    BY Printerwise DEF IInv
  <2> QED BY <1>1, <2>1 DEF Told, LinesOf, SeenOf
<1> QED BY <1>3, <1>4, <1>5, <1>6

(* Nothing is asked yet.                                                   *)
LEMMA InitHolds == Init => IInv
<1> SUFFICES ASSUME Init  PROVE IInv
  OBVIOUS
<1>1. TypeOK
  <2>1. 0 \in 0..MaxNow /\ 0 \in 0..MaxCount
    BY ReportAssumption
  <2> QED BY <2>1 DEF Init, TypeOK
<1>2. TableInv /\ AnswersInv
  BY FS_EmptySet DEF Init, TableInv, AnswersInv
<1>3. ReadInv
  BY DEF Init, ReadInv, InRange
<1>4. Told
  BY FS_EmptySet DEF Init, Told, Tells, LinesOf, SeenOf
<1>5. LineInv
  BY <1>1, <1>4, Printerwise
<1> QED BY <1>1, <1>2, <1>3, <1>5 DEF IInv

(* The invariant, of every state.                                          *)
THEOREM Invariance == Spec => []IInv
<1>1. ASSUME IInv, [Next]_vars  PROVE TypeOK' /\ TableInv' /\ AnswersInv' /\ ReadInv' /\ Told'
  <2>1. CASE Tick
    BY <1>1, <2>1, TickInv
  <2>2. ASSUME NEW ip \in Ips, Answer(ip)
        PROVE  TypeOK' /\ TableInv' /\ AnswersInv' /\ ReadInv' /\ Told'
    BY <1>1, <2>2, AnswerInv
  <2>7. ASSUME NEW a \in answers, Save(a)
        PROVE  TypeOK' /\ TableInv' /\ AnswersInv' /\ ReadInv' /\ Told'
    BY <1>1, <2>7, SaveInv
  <2>3. CASE Begin
    BY <1>1, <2>3, BeginInv
  <2>4. ASSUME NEW ip \in Ips, ReadPrinter(ip)
        PROVE  TypeOK' /\ TableInv' /\ AnswersInv' /\ ReadInv' /\ Told'
    BY <1>1, <2>4, ReadPrinterInv
  <2>5. CASE Finish
    BY <1>1, <2>5, FinishInv
  <2>6. CASE UNCHANGED vars
    <3>1. UNCHANGED <<now, odometer, answers, disturbed, table, report>>
      BY <2>6 DEF vars, report, collect
    <3>2. TypeOK' /\ TableInv' /\ AnswersInv'
      BY <1>1, <3>1 DEF IInv, TypeOK, TableInv, AnswersInv, report
    <3> QED BY <1>1, <3>1, <3>2, ReportKept DEF IInv
  <2> QED BY <1>1, <2>1, <2>2, <2>3, <2>4, <2>5, <2>6, <2>7 DEF Next, Report
<1>2. IInv /\ [Next]_vars => IInv'
  BY <1>1, PrinterwiseNext DEF IInv
<1> QED BY <1>2, InitHolds, PTL DEF Spec

(* Type correctness.                                                       *)
THEOREM TypeCorrect == Spec => []TypeOK
<1>1. IInv => TypeOK
  BY DEF IInv
<1> QED BY <1>1, Invariance, PTL

(* The report against its definition: for each week and printer the last   *)
(* row it read less the first, whatever is inserted while it reads.        *)
THEOREM LinesAreExact == Spec => []LinesExact
<1>1. IInv => LinesExact
  BY DEF IInv, LineInv
<1> QED BY <1>1, Invariance, PTL
-----------------------------------------------------------------------------
(* Days and weeks.                                                         *)

(* The midnights are a sequence of hours, a day apart.                     *)
LEMMA MidnightsShape ==
  /\ Len(Midnights) \in Nat /\ DOMAIN Midnights = 1..Len(Midnights)
  /\ \A i \in 1..Len(Midnights) : Midnights[i] \in Int
  /\ \A d \in 1..Len(Midnights) - 1 :
       Midnights[d + 1] - Midnights[d] \in {DayHours - 1, DayHours, DayHours + 1}
  /\ DayHours \in Nat \ {0} /\ WeekDays \in Nat \ {0}
<1>1. Midnights \in Seq(Int)
  BY ReportAssumption
<1>2. /\ Len(Midnights) \in Nat /\ DOMAIN Midnights = 1..Len(Midnights)
      /\ \A i \in 1..Len(Midnights) : Midnights[i] \in Int
  BY <1>1
<1> QED BY <1>2, ReportAssumption

(* Midnights follow one another.                                           *)
LEMMA MidnightsGrow ==
  ASSUME NEW d \in DOMAIN Midnights, NEW e \in DOMAIN Midnights, d <= e
  PROVE  Midnights[d] <= Midnights[e]
<1> DEFINE n == Len(Midnights)
           T == {k \in Nat : d + k <= n => Midnights[d] <= Midnights[d + k]}
<1>1. /\ n \in Nat /\ DOMAIN Midnights = 1..n /\ d \in 1..n /\ e \in 1..n
      /\ \A i \in 1..n : Midnights[i] \in Int
  BY MidnightsShape
<1>2. 0 \in T
  BY <1>1
<1>3. ASSUME NEW k \in T  PROVE k + 1 \in T
  <2> SUFFICES ASSUME d + (k + 1) <= n  PROVE Midnights[d] <= Midnights[d + (k + 1)]
    OBVIOUS
  <2> DEFINE m == d + k
  <2>1. k \in Nat /\ m \in 1..n - 1 /\ m \in 1..n /\ m + 1 \in 1..n /\ m + 1 = d + (k + 1)
    BY <1>1
  <2>2. Midnights[d] <= Midnights[m]
    BY <2>1
  <2> HIDE DEF m
  <2>3. Midnights[m + 1] - Midnights[m] \in {DayHours - 1, DayHours, DayHours + 1}
    BY <2>1, MidnightsShape DEF n
  <2>4. DayHours \in Nat \ {0} /\ Midnights[m + 1] \in Int /\ Midnights[m] \in Int
    BY <1>1, <2>1, MidnightsShape
  <2>5. Midnights[m] <= Midnights[m + 1]
    <3> DEFINE x == Midnights[m]
               y == Midnights[m + 1]
    <3>1. y - x \in {DayHours - 1, DayHours, DayHours + 1} /\ x \in Int /\ y \in Int
      BY <2>3, <2>4
    <3> HIDE DEF x, y
    <3>2. x <= y
      BY <2>4, <3>1
    <3> QED BY <3>2 DEF x, y
  <2> QED BY <1>1, <2>1, <2>2, <2>4, <2>5
<1> HIDE DEF T
<1>4. T = Nat
  <2>1. T \subseteq Nat
    BY DEF T
  <2> QED BY <1>2, <1>3, <2>1, FromZeroOn
<1>5. e - d \in T /\ d + (e - d) = e
  BY <1>1, <1>4
<1> QED BY <1>1, <1>5 DEF T

(* The days from one to another are all the hours from its midnight on.    *)
LEMMA DaysAreHours ==
  ASSUME NEW from \in Days, NEW to \in Days, from <= to, NEW ts \in Int
  PROVE  ts \in UNION {Local(d) : d \in from..to} <=>
           Midnights[from] <= ts /\ ts < Midnights[to + 1]
<1> DEFINE n == Len(Midnights)
<1>1. /\ n \in Nat /\ DOMAIN Midnights = 1..n /\ \A i \in 1..n : Midnights[i] \in Int
      /\ from \in 1..n /\ to + 1 \in 1..n /\ from \in Int /\ to \in Int
  BY MidnightsShape DEF Days
<1>2. \A d \in from..to : d \in 1..n /\ d + 1 \in 1..n
  BY <1>1 DEF Days
<1>3. \A d \in from..to : ts \in Local(d) <=> Midnights[d] <= ts /\ ts < Midnights[d + 1]
  BY <1>1, <1>2 DEF Local
<1>4. ASSUME NEW d \in from..to, ts \in Local(d)
      PROVE  Midnights[from] <= ts /\ ts < Midnights[to + 1]
  <2>1. Midnights[from] <= Midnights[d] /\ Midnights[d + 1] <= Midnights[to + 1]
    <3>1. from <= d /\ d + 1 <= to + 1 /\ d \in 1..n /\ d + 1 \in 1..n
      BY <1>1, <1>2
    <3> DEFINE f == d + 1
               g == to + 1
    <3>2. f \in DOMAIN Midnights /\ g \in DOMAIN Midnights /\ f <= g
      BY <1>1, <3>1
    <3> HIDE DEF f, g, n
    <3>3. Midnights[f] <= Midnights[g]
      BY <3>2, MidnightsGrow
    <3>4. Midnights[from] <= Midnights[d]
      BY <1>1, <3>1, MidnightsGrow
    <3> QED BY <3>3, <3>4 DEF f, g
  <2>2. /\ Midnights[d] \in Int /\ Midnights[d + 1] \in Int
        /\ Midnights[from] \in Int /\ Midnights[to + 1] \in Int
    BY <1>1, <1>2
  <2>3. Midnights[d] <= ts /\ ts < Midnights[d + 1]
    BY <1>3, <1>4
  <2> QED BY <2>1, <2>2, <2>3
<1>5. ASSUME Midnights[from] <= ts, ts < Midnights[to + 1]
      PROVE  \E d \in from..to : ts \in Local(d)
  <2> DEFINE T == {d \in from..to : ts < Midnights[d + 1]}
  <2>1. T \subseteq Nat /\ to \in T
    BY <1>1, <1>5
  <2>2. PICK d \in T : \A e \in T : d <= e
    <3> HIDE DEF T
    <3> QED BY <2>1, LeastOf
  <2>3. Midnights[d] <= ts
    <3>1. CASE d = from
      BY <1>5, <3>1
    <3>2. CASE d # from
      <4>1. d - 1 \in from..to /\ d - 1 \notin T /\ (d - 1) + 1 = d
        BY <1>1, <2>2, <3>2
      <4>2. ~(ts < Midnights[d])
        BY <4>1
      <4> QED BY <1>1, <1>2, <4>2
    <3> QED BY <3>1, <3>2
  <2> QED BY <1>3, <2>3
<1> QED BY <1>4, <1>5

(* Which rows a report is computed from: what the local days asked for     *)
(* held when it began, but for the hour by which _to_epoch(to) + 86399     *)
(* misses the end of a day on which the clocks change; of the printers     *)
(* that had a row then, and of no others.                                  *)
THEOREM TheRowsOfTheRange == Spec => []RowsOfTheRange
<1> DEFINE end == Midnights[range.to + 1]
           last == Midnights[range.to]
           asked == UNION {Local(d) : d \in range.from..range.to}
           H == DayHours
<1>1. ASSUME IInv, pc = "done"
      PROVE  /\ \A r \in before : r.ts \in asked => r \in seen \/ (end - last > H /\ r.ts = end - 1)
             /\ \A r \in seen : r.ts \in asked \/ (end - last < H /\ r.ts = end)
  <2>1. /\ range.from \in Days /\ range.to \in Days /\ range.from <= range.to
        /\ before \subseteq table /\ seen \subseteq InRange(table)
        /\ \A r \in table : r.ts \in Int
    BY <1>1 DEF IInv, TypeOK, ReadInv
  <2>2. /\ Midnights[range.from] \in Int /\ last \in Int /\ end \in Int /\ H \in Int
        /\ end - last \in {H - 1, H, H + 1}
    <3>1. /\ Len(Midnights) \in Nat /\ DOMAIN Midnights = 1..Len(Midnights)
          /\ range.from \in 1..Len(Midnights) /\ range.to \in 1..Len(Midnights) - 1
          /\ range.to \in 1..Len(Midnights) /\ range.to + 1 \in 1..Len(Midnights)
      BY <2>1, MidnightsShape DEF Days
    <3>2. Midnights[range.from] \in Int /\ last \in Int /\ end \in Int
      BY <3>1, MidnightsShape
    <3>3. end - last \in {H - 1, H, H + 1} /\ H \in Int
      <4> DEFINE d == range.to
      <4>1. d \in 1..Len(Midnights) - 1
        BY <3>1
      <4> HIDE DEF d
      <4>2. Midnights[d + 1] - Midnights[d] \in {DayHours - 1, DayHours, DayHours + 1}
        BY <4>1, MidnightsShape
      <4>3. DayHours \in Int
        BY MidnightsShape
      <4> QED BY <4>2, <4>3 DEF d
    <3> QED BY <3>2, <3>3
  <2>3. ASSUME NEW r \in table
        PROVE  r.ts \in asked <=> Midnights[range.from] <= r.ts /\ r.ts < end
    BY <2>1, DaysAreHours
  <2>4. \A S : \A r \in S : r \in InRange(S) <=>
          Midnights[range.from] <= r.ts /\ r.ts <= last + H - 1
    BY DEF InRange
  <2>5. \A r \in InRange(before) : r \in seen
    BY <1>1 DEF IInv, ReadInv
  <2> HIDE DEF asked, last, end, H
  <2>6. ASSUME NEW r \in before, r.ts \in asked, r \notin seen
        PROVE  end - last > H /\ r.ts = end - 1
    <3>1. r \in table /\ r.ts \in Int
      BY <2>1
    <3>2. Midnights[range.from] <= r.ts /\ r.ts < end
      BY <2>3, <2>6, <3>1
    <3>3. ~(r.ts <= last + H - 1)
      BY <2>4, <2>5, <2>6, <3>2
    <3> QED BY <2>2, <3>1, <3>2, <3>3
  <2>7. ASSUME NEW r \in seen, r.ts \notin asked
        PROVE  end - last < H /\ r.ts = end
    <3>1. r \in InRange(table) /\ r \in table /\ r.ts \in Int
      BY <2>1 DEF InRange
    <3>2. Midnights[range.from] <= r.ts /\ r.ts <= last + H - 1
      BY <2>4, <3>1
    <3>3. ~(r.ts < end)
      BY <2>3, <2>7, <3>1, <3>2
    <3> QED BY <2>2, <3>1, <3>2, <3>3
  <2> QED BY <2>6, <2>7
<1>2. IInv => RangeCovered
  BY <1>1 DEF RangeCovered
<1>3. IInv => PrintersKept
  BY DEF IInv, ReadInv, PrintersKept
<1>4. IInv => RowsOfTheRange
  BY <1>2, <1>3 DEF RowsOfTheRange
<1> QED BY <1>4, Invariance, PTL

(* Division with remainder.                                                *)
LEMMA Quotient ==
  ASSUME NEW a \in Nat, NEW b \in Nat \ {0}
  PROVE  a \div b \in Nat /\ (a \div b) * b <= a /\ a < (a \div b + 1) * b
OBVIOUS

(* Multiples keep the order.                                               *)
LEMMA Multiples ==
  ASSUME NEW a \in Int, NEW b \in Int, NEW c \in Nat \ {0}
  PROVE  /\ a <= b => a * c <= b * c
         /\ a * c < b * c => a < b
         /\ (a * c) % c = 0
OBVIOUS

(* An hour of a day: in its week, or next to the Monday in between.        *)
LEMMA HourDated ==
  ASSUME NEW d \in Days, NEW ts \in Nat, ts \in Local(d)
  PROVE  \/ Week(ts) = (d - 1) \div WeekDays
         \/ \E monday \in {k \in DOMAIN Midnights : (k - 1) % WeekDays = 0} :
              LET utc == (monday - 1) * DayHours
              IN  \/ utc <= ts /\ ts < Midnights[monday]
                  \/ Midnights[monday] <= ts /\ ts < utc
<1> DEFINE H == DayHours
           W == WeekDays
           n == Len(Midnights)
           u == ts \div H
           w == u \div W
           k == (d - 1) \div W
           Between(m) ==
             /\ m \in 1..n /\ (m - 1) % W = 0
             /\ \/ (m - 1) * H <= ts /\ ts < Midnights[m]
                \/ Midnights[m] <= ts /\ ts < (m - 1) * H
<1>1. /\ H \in Nat \ {0} /\ W \in Nat \ {0} /\ n \in Nat /\ DOMAIN Midnights = 1..n
      /\ d \in 1..n - 1 /\ d \in 1..n /\ d + 1 \in 1..n /\ d - 1 \in Nat
      /\ \A i \in 1..n : Midnights[i] \in Int
  BY MidnightsShape DEF Days
<1>2. Midnights[d] <= ts /\ ts < Midnights[d + 1]
  BY <1>1 DEF Local
<1>3. /\ u \in Nat /\ u * H <= ts /\ ts < (u + 1) * H
      /\ w \in Nat /\ w * W <= u /\ u < (w + 1) * W
      /\ k \in Nat /\ k * W <= d - 1 /\ d - 1 < (k + 1) * W
  <2>1. u \in Nat /\ u * H <= ts /\ ts < (u + 1) * H
    BY <1>1, Quotient
  <2> HIDE DEF u
  <2>2. w \in Nat /\ w * W <= u /\ u < (w + 1) * W
    BY <1>1, <2>1, Quotient
  <2>3. k \in Nat /\ k * W <= d - 1 /\ d - 1 < (k + 1) * W
    BY <1>1, Quotient
  <2> QED BY <2>1, <2>2, <2>3
<1>4. Week(ts) = w
  BY DEF Week
<1>5. SUFFICES w = k \/ \E m \in 1..n : Between(m)
  BY <1>1, <1>4
<1> HIDE DEF H, W, n, u, w, k
<1>6. CASE k < w
  <2> DEFINE m == (k + 1) * W
  <2>1. m \in Int /\ m % W = 0
    BY <1>1, <1>3, Multiples
  <2>2. m <= u
    <3>1. (k + 1) * W <= w * W
      <4>1. k + 1 <= w /\ k + 1 \in Int /\ w \in Int
        BY <1>3, <1>6
      <4> QED BY <1>1, <4>1, Multiples
    <3>2. w * W \in Int /\ u \in Int
      BY <1>1, <1>3
    <3> HIDE DEF m
    <3> QED BY <1>3, <2>1, <3>1, <3>2 DEF m
  <2>3. d <= m
    <3>1. d - 1 < m
      BY <1>3
    <3> HIDE DEF m
    <3> QED BY <1>1, <2>1, <3>1
  <2> HIDE DEF m
  <2>4. u < d + 1
    <3>1. Midnights[d + 1] - d * H \in 1 - H..H - 1
      <4> DEFINE e == d + 1
      <4>1. e \in DOMAIN Midnights /\ e - 1 = d
        BY <1>1
      <4> HIDE DEF e
      <4>2. Midnights[e] - (e - 1) * DayHours \in 1 - DayHours..DayHours - 1
        BY <4>1, ReportAssumption
      <4> QED BY <4>1, <4>2 DEF e, H
    <3>2. d * H \in Int /\ u * H \in Int /\ (d + 1) * H = d * H + H /\ Midnights[d + 1] \in Int
      BY <1>1, <1>3
    <3>3. u * H < (d + 1) * H
      <4> DEFINE x == d * H
                 y == u * H
                 z == Midnights[d + 1]
      <4>1. x \in Int /\ y \in Int /\ z \in Int /\ y <= ts /\ ts < z /\ z - x \in 1 - H..H - 1
        BY <1>2, <1>3, <3>1, <3>2
      <4> HIDE DEF x, y, z
      <4>2. y < x + H
        BY <1>1, <4>1
      <4> QED BY <3>2, <4>2 DEF x, y
    <3> QED BY <1>1, <1>3, <3>3, Multiples
  <2>5. m = d /\ d <= u
    BY <1>1, <1>3, <2>1, <2>2, <2>3, <2>4
  <2>6. d * H <= ts
    <3>1. d * H <= u * H
      BY <1>1, <1>3, <2>5, Multiples
    <3>2. d * H \in Int /\ u * H \in Int
      BY <1>1, <1>3
    <3> QED BY <1>3, <3>1, <3>2
  <2>7. Between(d + 1)
    <3>1. (d + 1) - 1 = d
      BY <1>1
    <3> QED BY <1>1, <1>2, <2>1, <2>5, <2>6, <3>1
  <2> HIDE DEF Between
  <2> QED BY <1>1, <2>7
<1>7. CASE w < k
  <2> DEFINE m == k * W
  <2>1. m \in Nat /\ m % W = 0 /\ m <= d - 1
    <3>1. m \in Nat
      BY <1>1, <1>3
    <3>2. m % W = 0
      BY <1>1, <1>3, Multiples
    <3> QED BY <1>3, <3>1, <3>2
  <2>2. u + 1 <= m
    <3>1. (w + 1) * W <= k * W
      <4>1. w + 1 <= k /\ w + 1 \in Int /\ k \in Int
        BY <1>3, <1>7
      <4> QED BY <1>1, <4>1, Multiples
    <3>2. (w + 1) * W \in Int
      BY <1>1, <1>3
    <3> QED BY <1>3, <2>1, <3>1, <3>2
  <2> HIDE DEF m
  <2>3. ts < m * H
    <3>1. (u + 1) * H <= m * H
      BY <1>1, <1>3, <2>1, <2>2, Multiples
    <3>2. (u + 1) * H \in Int /\ m * H \in Int
      BY <1>1, <1>3, <2>1
    <3> QED BY <1>3, <3>1, <3>2
  <2>4. m + 1 \in 1..n /\ m + 1 <= d /\ (m + 1) - 1 = m
    BY <1>1, <2>1
  <2>5. Midnights[m + 1] <= ts
    <3>1. Midnights[m + 1] <= Midnights[d]
      <4> DEFINE e == m + 1
      <4>1. e \in DOMAIN Midnights /\ d \in DOMAIN Midnights /\ e <= d
        BY <1>1, <2>4
      <4> HIDE DEF e
      <4>2. Midnights[e] <= Midnights[d]
        BY <4>1, MidnightsGrow
      <4> QED BY <4>2 DEF e
    <3>2. Midnights[m + 1] \in Int /\ Midnights[d] \in Int
      BY <1>1, <2>4
    <3> QED BY <1>2, <3>1, <3>2
  <2>6. Between(m + 1)
    BY <2>1, <2>3, <2>4, <2>5
  <2> HIDE DEF Between
  <2> QED BY <2>4, <2>6
<1>8. w < k \/ k < w \/ w = k
  BY <1>3
<1> QED BY <1>6, <1>7, <1>8

(* A week is printed with the dates of the days of its snapshots, but for  *)
(* the hours between the Monday of UTC and the local one.                  *)
THEOREM WeeksAreDated == Spec => []WeekDated
<1>1. ASSUME IInv  PROVE WeekDated
  <2>1. \A r \in seen : r.ts \in Nat
    BY <1>1 DEF IInv, TypeOK
  <2> QED BY <2>1, HourDated DEF WeekDated
<1> QED BY <1>1, Invariance, PTL
-----------------------------------------------------------------------------
(* The totals.                                                             *)

(* The amount of a line is a number.                                       *)
LEMMA AmountType ==
  ASSUME NEW row \in Lines
  PROVE  Amount(row) \in Int
<1>1. row.delta \in (-MaxCount..MaxCount) \cup {None} /\ MaxCount \in Nat
  BY ReportAssumption DEF Lines
<1>2. CASE row.delta = None
  BY <1>2 DEF Amount
<1>3. CASE row.delta # None
  <2>1. row.delta \in -MaxCount..MaxCount
    BY <1>1, <1>3
  <2>2. row.delta \in Int
    BY <1>1, <2>1
  <2> QED BY <1>3, <2>2 DEF Amount
<1> QED BY <1>2, <1>3

(* The total of some lines is their sum, in any order.                     *)
LEMMA AmountsAddUp ==
  ASSUME NEW L, L \subseteq Lines, IsFiniteSet(L)
  PROVE  \E it : /\ SumsUp(it, L, [x \in L |-> Amount(x)])
                 /\ MapThenSumSet(Amount, L) = it[L]
<1> DEFINE f == [x \in L |-> Amount(x)]
           Def(it) == it = [s \in SUBSET L |-> IF s = {} THEN 0
                        ELSE Amount(CHOOSE x \in s : TRUE) + it[s \ {CHOOSE x \in s : TRUE}]]
           it == CHOOSE it : Def(it)
<1>1. f \in [L -> Int] /\ IsFiniteSet(L)
  BY AmountType
<1>2. \A s \in SUBSET L : s # {} =>
        f[CHOOSE x \in s : TRUE] = Amount(CHOOSE x \in s : TRUE)
  OBVIOUS
<1>3. \A jt : Def(jt) <=> SumBody(jt, L, f)
  <2> HIDE DEF f
  <2> QED BY <1>2 DEF SumBody
<1>4. Def(it)
  <2>1. \E jt : SumBody(jt, L, f)
    <3> HIDE DEF f
    <3> QED BY <1>1, SumBodyExists
  <2> HIDE DEF Def, f
  <2> QED BY <1>3, <2>1
<1>5. MapThenSumSet(Amount, L) = it[L]
  BY DEF MapThenSumSet, MapThenFoldSet
<1> HIDE DEF it
<1>6. SumsUp(it, L, f)
  <2> HIDE DEF Def, f
  <2> QED BY <1>1, <1>3, <1>4, SumBodySums
<1> QED BY <1>5, <1>6

(* So is that of the odometers.                                            *)
LEMMA OdometersAddUp ==
  ASSUME odometer \in [Ips -> 0..MaxCount]
  PROVE  \E it : /\ SumsUp(it, Ips, [x \in Ips |-> odometer[x]])
                 /\ MapThenSumSet(LAMBDA ip : odometer[ip], Ips) = it[Ips]
<1> DEFINE f == [x \in Ips |-> odometer[x]]
           Def(it) == it = [s \in SUBSET Ips |-> IF s = {} THEN 0
                        ELSE odometer[CHOOSE x \in s : TRUE] + it[s \ {CHOOSE x \in s : TRUE}]]
           it == CHOOSE it : Def(it)
<1>1. f \in [Ips -> Int] /\ IsFiniteSet(Ips)
  BY ReportAssumption
<1>2. \A s \in SUBSET Ips : s # {} =>
        f[CHOOSE x \in s : TRUE] = odometer[CHOOSE x \in s : TRUE]
  OBVIOUS
<1>3. \A jt : Def(jt) <=> SumBody(jt, Ips, f)
  <2> HIDE DEF f
  <2> QED BY <1>2 DEF SumBody
<1>4. Def(it)
  <2>1. \E jt : SumBody(jt, Ips, f)
    <3> HIDE DEF f
    <3> QED BY <1>1, SumBodyExists
  <2> HIDE DEF Def, f
  <2> QED BY <1>3, <2>1
<1>5. MapThenSumSet(LAMBDA ip : odometer[ip], Ips) = it[Ips]
  BY DEF MapThenSumSet, MapThenFoldSet
<1> HIDE DEF it
<1>6. SumsUp(it, Ips, f)
  <2> HIDE DEF Def, f
  <2> QED BY <1>1, <1>3, <1>4, SumBodySums
<1> QED BY <1>5, <1>6

(* Weeks do not go back.                                                   *)
LEMMA WeekGrows ==
  ASSUME NEW a \in Nat, NEW b \in Nat, a <= b
  PROVE  Week(a) <= Week(b)
<1>1. ASSUME NEW x \in Nat, NEW y \in Nat, x <= y, NEW c \in Nat \ {0}
      PROVE  x \div c <= y \div c
  <2> DEFINE u == x \div c
             v == y \div c
  <2>1. u \in Nat /\ v \in Nat /\ u * c <= x /\ y < (v + 1) * c
    BY Quotient
  <2> HIDE DEF u, v
  <2>2. u * c \in Int /\ (v + 1) * c \in Int
    BY <2>1
  <2>3. u * c < (v + 1) * c
    BY <1>1, <2>1, <2>2
  <2>4. u < v + 1
    BY <2>1, <2>3, Multiples
  <2>5. u <= v
    BY <2>1, <2>4
  <2> QED BY <2>5 DEF u, v
<1> DEFINE x == a \div DayHours
           y == b \div DayHours
<1>2. x \in Nat /\ y \in Nat /\ x <= y
  BY <1>1, Quotient, ReportAssumption
<1> HIDE DEF x, y
<1>3. x \div WeekDays <= y \div WeekDays
  BY <1>1, <1>2, ReportAssumption
<1> QED BY <1>3 DEF Week, x, y

\* No count is less than one of a printer's rows that is not later.
Rising(S) == \A q, r \in S : q.ts <= r.ts /\ q.val # None /\ r.val # None => q.val <= r.val

(* A line says by how much two counts of its week differ, or it is empty.  *)
LEMMA AmountOf ==
  ASSUME NEW ip \in Ips, TypeOK, Told, Rising(SeenOf(ip)), NEW row \in LinesOf(ip)
  PROVE  /\ Amount(row) >= 0
         /\ \/ Amount(row) = 0
            \/ \E f, l \in SeenOf(ip) :
                 /\ f.val # None /\ l.val # None /\ Amount(row) = l.val - f.val
                 /\ Week(f.ts) = row.week /\ Week(l.ts) = row.week
<1> DEFINE S == SeenOf(ip)
           L == LinesOf(ip)
           w == row.week
<1>1. Tells(L, S, ip) /\ row \in L
  BY DEF Told
<1>2. \A r \in S : r.val # None => r.val \in Int
  BY DEF TypeOK, SeenOf
<1>3. \A q, r \in S : q.ts <= r.ts /\ q.val # None /\ r.val # None => q.val <= r.val
  BY DEF Rising
<1> HIDE DEF S, L
<1>4. \E f, l \in S :
        /\ Ends(S, w, f, l)
        /\ {x \in L : x.week = w} = {[week |-> w, ip |-> ip, delta |-> Diff(f, l)]}
  <2>1. PICK r \in S : Week(r.ts) = w
    BY <1>1 DEF Tells
  <2>2. \E f, l \in S :
          /\ Ends(S, Week(r.ts), f, l)
          /\ {x \in L : x.week = Week(r.ts)} = {[week |-> Week(r.ts), ip |-> ip, delta |-> Diff(f, l)]}
    BY <1>1 DEF Tells
  <2> HIDE DEF w
  <2> QED BY <2>1, <2>2
<1>5. PICK f \in S, l \in S :
        /\ Ends(S, w, f, l)
        /\ {x \in L : x.week = w} = {[week |-> w, ip |-> ip, delta |-> Diff(f, l)]}
  BY <1>4
<1>6. row.delta = Diff(f, l)
  <2>1. row \in {x \in L : x.week = w}
    BY <1>1
  <2>2. row = [week |-> w, ip |-> ip, delta |-> Diff(f, l)]
    BY <1>5, <2>1
  <2> QED BY <2>2
<1>7. Week(f.ts) = w /\ Week(l.ts) = w /\ f.ts <= l.ts
  BY <1>5 DEF Ends
<1>8. CASE row.delta = None
  <2>1. Amount(row) = 0
    BY <1>8 DEF Amount
  <2> QED BY <2>1
<1>9. CASE row.delta # None
  <2>1. f.val # None /\ l.val # None /\ Amount(row) = l.val - f.val
    BY <1>6, <1>9 DEF Amount, Diff
  <2>2. f.val <= l.val /\ f.val \in Int /\ l.val \in Int
    BY <1>2, <1>3, <1>7, <2>1
  <2>3. Amount(row) >= 0
    BY <2>1, <2>2
  <2> QED BY <1>7, <2>1, <2>3 DEF S, w
<1> QED BY <1>8, <1>9

(* Spans of a count that does not fall, in weeks of their own, add up to   *)
(* no more than it: each begins where an earlier one, at most, has ended.  *)
LEMMA SpansBounded ==
  ASSUME NEW D, IsFiniteSet(D), NEW f \in [D -> Int], NEW it, SumsUp(it, D, f),
         NEW L, L \subseteq D, NEW wk \in [L -> Nat],
         \A x, y \in L : wk[x] = wk[y] => x = y,
         NEW S, NEW at \in [S -> Nat], NEW val \in [S -> Nat],
         \A q, r \in S : at[q] < at[r] => val[q] <= val[r],
         \A x \in L : \/ f[x] = 0
                      \/ \E g, l \in S : /\ f[x] = val[l] - val[g]
                                        /\ at[g] = wk[x] /\ at[l] = wk[x],
         NEW m \in Nat, \A x \in L : wk[x] < m,
         NEW b \in Nat, \A r \in S : val[r] <= b
  PROVE  it[L] <= b
<1> DEFINE Upto(n) == {x \in L : wk[x] < n}
           Bound(n, c) == \A r \in S : at[r] < n => val[r] <= c
           T == {n \in Nat : \A c \in Nat : Bound(n, c) => it[Upto(n)] <= c}
<1>1. \A s \in SUBSET D : it[s] \in Int
  BY DEF SumsUp
<1>2. \A n \in Nat : Upto(n) \in SUBSET D
  OBVIOUS
<1>3. 0 \in T
  <2>1. Upto(0) = {}
    OBVIOUS
  <2>2. it[Upto(0)] = 0
    BY <2>1 DEF SumsUp
  <2>3. \A c \in Nat : it[Upto(0)] <= c
    <3> HIDE DEF Upto
    <3> QED BY <2>2
  <2> QED BY <2>3
<1>4. ASSUME NEW n \in T  PROVE n + 1 \in T
  <2> SUFFICES ASSUME NEW c \in Nat, Bound(n + 1, c)  PROVE it[Upto(n + 1)] <= c
    OBVIOUS
  <2>1. n \in Nat /\ n + 1 \in Nat
    OBVIOUS
  <2>2. Bound(n, c)
    BY <2>1
  <2>3. it[Upto(n)] <= c /\ it[Upto(n)] \in Int
    <3>1. it[Upto(n)] <= c
      BY <2>2
    <3> HIDE DEF Upto
    <3> QED BY <1>1, <1>2, <2>1, <3>1
  <2>4. CASE \A x \in L : wk[x] # n
    <3>1. Upto(n + 1) = Upto(n)
      BY <2>1, <2>4
    <3> QED BY <2>3, <3>1
  <2>5. ASSUME NEW x \in L, wk[x] = n  PROVE it[Upto(n + 1)] <= c
    <3>1. Upto(n + 1) \ {x} = Upto(n) /\ x \in Upto(n + 1)
      <4>1. \A y \in L : wk[y] < n + 1 <=> wk[y] < n \/ y = x
        BY <2>1, <2>5
      <4>2. ~(wk[x] < n)
        BY <2>1, <2>5
      <4> QED BY <4>1, <4>2
    <3>2. it[Upto(n + 1)] = f[x] + it[Upto(n)]
      <4> DEFINE s == Upto(n + 1)
      <4>1. s \in SUBSET D /\ x \in s
        BY <1>2, <2>1, <3>1
      <4> HIDE DEF s
      <4>2. it[s] = f[x] + it[s \ {x}]
        BY <4>1, SumTakes
      <4> QED BY <3>1, <4>2 DEF s
    <3> HIDE DEF Upto
    <3>3. CASE f[x] = 0
      BY <2>3, <3>2, <3>3
    <3>4. CASE f[x] # 0
      <4>1. PICK g \in S, l \in S : f[x] = val[l] - val[g] /\ at[g] = n /\ at[l] = n
        BY <2>5, <3>4
      <4>2. val[g] \in Nat /\ val[l] \in Nat /\ val[l] <= c
        BY <2>1, <4>1
      <4>3. Bound(n, val[g])
        BY <4>1
      <4>4. it[Upto(n)] <= val[g]
        <5> HIDE DEF Bound
        <5> QED BY <4>2, <4>3
      <4> DEFINE u == val[g]
                 v == val[l]
                 z == it[Upto(n)]
      <4>5. /\ u \in Nat /\ v \in Nat /\ z \in Int /\ z <= u /\ v <= c
            /\ it[Upto(n + 1)] = (v - u) + z
        BY <2>3, <3>2, <4>1, <4>2, <4>4
      <4> HIDE DEF u, v, z
      <4> QED BY <4>5
    <3> QED BY <3>3, <3>4
  <2> QED BY <2>4, <2>5
<1>5. m \in T
  <2>1. T \subseteq Nat
    OBVIOUS
  <2> HIDE DEF T
  <2>2. T = Nat
    BY <1>3, <1>4, <2>1, FromZeroOn
  <2> QED BY <2>2
<1>6. Upto(m) = L
  OBVIOUS
<1>7. it[Upto(m)] <= b
  BY <1>5
<1> QED BY <1>6, <1>7

(* So a printer's lines add up to no more than its last count.             *)
LEMMA LinesBounded ==
  ASSUME NEW ip \in Ips, TypeOK, Told, Rising(SeenOf(ip)),
         NEW b \in Nat, \A r \in SeenOf(ip) : r.val # None => r.val <= b,
         NEW D, LinesOf(ip) \subseteq D, D \subseteq Lines, IsFiniteSet(D),
         NEW it, SumsUp(it, D, [row \in D |-> Amount(row)])
  PROVE  it[LinesOf(ip)] <= b
<1> DEFINE S == {r \in SeenOf(ip) : r.val # None}
           L == LinesOf(ip)
           f == [row \in D |-> Amount(row)]
           wk == [row \in L |-> row.week]
           at == [r \in S |-> Week(r.ts)]
           val == [r \in S |-> r.val]
           m == Week(MaxNow) + 1
<1>1. f \in [D -> Int] /\ wk \in [L -> Nat] /\ L \subseteq D
  <2>1. f \in [D -> Int]
    BY AmountType
  <2>2. \A row \in L : row.week \in Nat
    BY DEF Lines
  <2> HIDE DEF f, L
  <2>3. wk \in [L -> Nat]
    BY <2>2
  <2> QED BY <2>1, <2>3 DEF L
<1>2. \A r \in SeenOf(ip) : /\ r.ts \in Nat /\ r.ts <= MaxNow
                            /\ Week(r.ts) \in Nat /\ Week(r.ts) < m
  <2>1. \A r \in SeenOf(ip) : r.ts \in 0..MaxNow
    BY DEF TypeOK, SeenOf
  <2>2. \A r \in SeenOf(ip) : r.ts \in Nat /\ r.ts <= MaxNow
    BY <2>1, ReportAssumption
  <2>3. ASSUME NEW t \in Nat, t <= MaxNow  PROVE Week(t) \in Nat /\ Week(t) < m
    <3>1. MaxNow \in Nat
      BY ReportAssumption
    <3>2. Week(t) <= Week(MaxNow)
      BY <2>3, <3>1, WeekGrows
    <3>3. Week(t) \in Nat /\ Week(MaxNow) \in Nat
      BY <3>1, WeekType
    <3> QED BY <3>2, <3>3
  <2> HIDE DEF m
  <2> QED BY <2>2, <2>3
<1>3. m \in Nat
  <2>1. Week(MaxNow) \in Nat
    BY WeekType, ReportAssumption
  <2> QED BY <2>1
<1>4. at \in [S -> Nat] /\ val \in [S -> Nat]
  <2>1. \A r \in S : r.val \in Nat
    BY DEF TypeOK, SeenOf
  <2>2. \A r \in S : Week(r.ts) \in Nat
    BY <1>2
  <2> HIDE DEF S
  <2> QED BY <2>1, <2>2
<1>5. \A q, r \in S : at[q] < at[r] => val[q] <= val[r]
  <2> SUFFICES ASSUME NEW q \in S, NEW r \in S, Week(q.ts) < Week(r.ts)
               PROVE  q.val <= r.val
    OBVIOUS
  <2>1. q.ts \in Nat /\ r.ts \in Nat /\ Week(q.ts) \in Nat /\ Week(r.ts) \in Nat
    BY <1>2
  <2>2. ~(Week(r.ts) <= Week(q.ts))
    BY <2>1
  <2>3. ~(r.ts <= q.ts)
    BY <2>1, <2>2, WeekGrows
  <2>4. q.ts <= r.ts
    BY <2>1, <2>3
  <2> QED BY <2>4 DEF Rising
<1>6. \A x, y \in L : wk[x] = wk[y] => x = y
  <2> SUFFICES ASSUME NEW x \in L, NEW y \in L, x.week = y.week  PROVE x = y
    OBVIOUS
  <2> DEFINE A == SeenOf(ip)
             w == x.week
  <2>1. Tells(L, A, ip)
    BY DEF Told
  <2> HIDE DEF L, A
  <2>2. PICK r \in A : Week(r.ts) = w
    BY <2>1 DEF Tells
  <2>3. \E z : {row \in L : row.week = Week(r.ts)} = {z}
    BY <2>1 DEF Tells
  <2>4. x \in {row \in L : row.week = Week(r.ts)} /\ y \in {row \in L : row.week = Week(r.ts)}
    BY <2>2
  <2> QED BY <2>3, <2>4
<1>7. \A x \in L : wk[x] < m
  <2> SUFFICES ASSUME NEW x \in L  PROVE x.week < m
    OBVIOUS
  <2> DEFINE A == SeenOf(ip)
  <2>1. Tells(L, A, ip)
    BY DEF Told
  <2>2. \A r \in A : Week(r.ts) < m
    BY <1>2
  <2> HIDE DEF L, A, m
  <2>3. PICK r \in A : Week(r.ts) = x.week
    BY <2>1 DEF Tells
  <2> QED BY <2>2, <2>3
<1>8. \A x \in L : \/ f[x] = 0
                  \/ \E g, l \in S : f[x] = val[l] - val[g] /\ at[g] = wk[x] /\ at[l] = wk[x]
  <2> SUFFICES ASSUME NEW x \in L, Amount(x) # 0
               PROVE  \E g, l \in S : /\ Amount(x) = l.val - g.val
                                     /\ Week(g.ts) = x.week /\ Week(l.ts) = x.week
    <3>1. \A x \in L : f[x] = Amount(x) /\ wk[x] = x.week
      BY <1>1
    <3>2. \A r \in S : val[r] = r.val /\ at[r] = Week(r.ts)
      OBVIOUS
    <3> HIDE DEF f, wk, at, val, S, L
    <3> QED BY <3>1, <3>2
  <2>1. \E g, l \in SeenOf(ip) :
          /\ g.val # None /\ l.val # None /\ Amount(x) = l.val - g.val
          /\ Week(g.ts) = x.week /\ Week(l.ts) = x.week
    BY AmountOf
  <2> QED BY <2>1
<1>9. \A r \in S : val[r] <= b
  OBVIOUS
<1>10. SumsUp(it, D, f)
  OBVIOUS
<1> HIDE DEF S, L, f, wk, at, val, m
<1>11. it[L] <= b
  BY <1>1, <1>3, <1>4, <1>5, <1>6, <1>7, <1>8, <1>9, <1>10, SpansBounded
<1> QED BY <1>11 DEF L

(* While nothing disturbs them, a printer's rows do not fall with time and *)
(* none is above what it shows.                                            *)
LEMMA CountsRise ==
  ASSUME IInv, ~disturbed, NEW ip \in Ips
  PROVE  /\ Rising(SeenOf(ip)) /\ odometer[ip] \in Nat
         /\ \A r \in SeenOf(ip) : r.val # None => r.val <= odometer[ip]
<1>1. \A r \in SeenOf(ip) : r \in table /\ r.ip = ip
  BY DEF IInv, TypeOK, SeenOf
<1>2. \A r \in table : r.val # None =>
        /\ r.val <= odometer[r.ip]
        /\ \A q \in table : q.ip = r.ip /\ q.ts <= r.ts /\ q.val # None => q.val <= r.val
  BY DEF IInv, TableInv
<1>3. odometer[ip] \in Nat
  BY ReportAssumption DEF IInv, TypeOK
<1>4. \A r \in SeenOf(ip) : r.val # None => r.val <= odometer[ip]
  BY <1>1, <1>2
<1>5. Rising(SeenOf(ip))
  BY <1>1, <1>2 DEF Rising
<1> QED BY <1>3, <1>4, <1>5

(* What the lines of all printers add up to is no more than what their     *)
(* odometers do, printer by printer.                                       *)
LEMMA TotalBounded ==
  ASSUME IInv, ~disturbed
  PROVE  GrandTotal <= MapThenSumSet(LAMBDA ip : odometer[ip], Ips)
<1> DEFINE f == [row \in weeks |-> Amount(row)]
           g == [ip \in Ips |-> odometer[ip]]
           Of(A) == {row \in weeks : row.ip \in A}
<1>1. /\ IsFiniteSet(weeks) /\ weeks \subseteq Lines /\ IsFiniteSet(Ips)
      /\ \A row \in weeks : row.ip \in Ips
  BY ReportAssumption DEF IInv, LineInv, TypeOK, Lines
<1>2. odometer \in [Ips -> 0..MaxCount] /\ f \in [weeks -> Int] /\ g \in [Ips -> Int]
  BY <1>1, AmountType, ReportAssumption DEF IInv, TypeOK
<1>3. Told /\ TypeOK
  BY Printerwise DEF IInv
<1>4. PICK it : SumsUp(it, weeks, f) /\ MapThenSumSet(Amount, weeks) = it[weeks]
  <2> HIDE DEF Told
  <2> QED BY <1>1, AmountsAddUp
<1>5. PICK jt : SumsUp(jt, Ips, g) /\ MapThenSumSet(LAMBDA ip : odometer[ip], Ips) = jt[Ips]
  BY <1>2, OdometersAddUp
<1> DEFINE P == {A \in SUBSET Ips : it[Of(A)] <= jt[A]}
<1>6. \A A : Of(A) \in SUBSET weeks
  OBVIOUS
<1>7. {} \in P
  <2>1. Of({}) = {}
    OBVIOUS
  <2>2. it[Of({})] = 0 /\ jt[{}] = 0
    BY <1>4, <1>5, <2>1 DEF SumsUp
  <2> HIDE DEF Of
  <2> QED BY <2>2
<1>8. ASSUME NEW A \in P, NEW ip \in Ips, ip \notin A  PROVE A \cup {ip} \in P
  <2> DEFINE B == A \cup {ip}
             s == Of(A)
             t == LinesOf(ip)
  <2>1. Of(B) = s \cup t /\ s \cap t = {} /\ s \in SUBSET weeks /\ t \in SUBSET weeks
    <3> HIDE DEF P, f, g
    <3>1. t = {row \in weeks : row.ip = ip}
      BY DEF LinesOf
    <3>2. Of(B) = {row \in weeks : row.ip \in A \cup {ip}}
      OBVIOUS
    <3>3. s = {row \in weeks : row.ip \in A}
      OBVIOUS
    <3>4. ip \notin A
      BY <1>8
    <3> HIDE DEF s, t, B, Of
    <3> QED BY <3>1, <3>2, <3>3, <3>4
  <2>2. A \in SUBSET Ips /\ B \in SUBSET Ips /\ ip \in B /\ B \ {ip} = A /\ it[s] <= jt[A]
    <3>1. A \in SUBSET Ips /\ it[s] <= jt[A]
      <4> HIDE DEF f, g, Of
      <4> QED OBVIOUS
    <3>2. B \in SUBSET Ips /\ ip \in B /\ B \ {ip} = A
      BY <1>8, <3>1
    <3> QED BY <3>1, <3>2
  <2>3. it[t] <= odometer[ip]
    <3>1. it[LinesOf(ip)] <= odometer[ip]
      <4>1. LinesOf(ip) \subseteq weeks
        BY DEF LinesOf
      <4> DEFINE b == odometer[ip]
      <4>2. b \in Nat /\ \A r \in SeenOf(ip) : r.val # None => r.val <= b
        BY CountsRise
      <4>3. Rising(SeenOf(ip))
        BY CountsRise
      <4> HIDE DEF b
      <4>4. it[LinesOf(ip)] <= b
        BY <1>1, <1>3, <1>4, <4>1, <4>2, <4>3, LinesBounded
      <4> QED BY <4>4 DEF b
    <3> QED BY <3>1
  <2> HIDE DEF s, t, B, f, g, Of, P
  <2>4. it[s \cup t] = it[s] + it[t]
    BY <1>1, <1>2, <1>4, <2>1, SumJoins
  <2>5. jt[B] = g[ip] + jt[B \ {ip}]
    BY <1>1, <1>2, <1>5, <2>2, SumTakes
  <2>6. it[s] \in Int /\ it[t] \in Int /\ jt[A] \in Int /\ odometer[ip] \in Int
    BY <1>2, <1>4, <1>5, <2>1, <2>2, ReportAssumption DEF SumsUp
  <2>7. g[ip] = odometer[ip]
    BY DEF g
  <2>8. it[Of(B)] = it[s] + it[t] /\ jt[B] = odometer[ip] + jt[A]
    BY <2>1, <2>2, <2>4, <2>5, <2>7
  <2>9. it[Of(B)] <= jt[B]
    <3> DEFINE u == it[s]
               v == it[t]
               w == jt[A]
               o == odometer[ip]
    <3>1. u \in Int /\ v \in Int /\ w \in Int /\ o \in Int /\ u <= w /\ v <= o
      BY <2>2, <2>3, <2>6
    <3>2. it[Of(B)] = u + v /\ jt[B] = o + w
      BY <2>8
    <3> HIDE DEF u, v, w, o
    <3> QED BY <3>1, <3>2
  <2> QED BY <2>2, <2>9 DEF P, B
<1>9. Ips \in P
  <2>1. P \subseteq SUBSET Ips
    OBVIOUS
  <2> HIDE DEF P
  <2>2. P = SUBSET Ips
    BY <1>1, <1>7, <1>8, <2>1, FromEmptyOn
  <2> QED BY <2>2
<1>10. Of(Ips) = weeks
  BY <1>1
<1>11. it[weeks] <= jt[Ips]
  BY <1>9, <1>10
<1> QED BY <1>4, <1>5, <1>11 DEF GrandTotal

(* While no odometer goes back and no two runs poll a printer at the same  *)
(* time, no line is negative, and neither the total of a printer nor that  *)
(* of the report is above what was printed.                                *)
THEOREM NothingIsOvercounted == Spec => []NothingOvercounted
<1>1. ASSUME IInv  PROVE NothingOvercounted
  <2> SUFFICES ASSUME ~disturbed
      PROVE /\ \A row \in weeks : Amount(row) >= 0
            /\ GrandTotal <= MapThenSumSet(LAMBDA ip : odometer[ip], Ips)
            /\ \A ip \in Ips :
                 MapThenSumSet(Amount, {row \in weeks : row.ip = ip}) <= odometer[ip]
    BY DEF NothingOvercounted
  <2>1. Told /\ TypeOK /\ weeks \subseteq Lines /\ IsFiniteSet(weeks)
    BY <1>1, Printerwise DEF IInv, LineInv, TypeOK, Lines
  <2>2. ASSUME NEW row \in weeks  PROVE Amount(row) >= 0
    <3>1. row.ip \in Ips /\ row \in LinesOf(row.ip)
      BY <2>1 DEF Lines, LinesOf
    <3> DEFINE ip == row.ip
    <3>2. ip \in Ips /\ row \in LinesOf(ip)
      BY <3>1
    <3> HIDE DEF ip
    <3>3. Rising(SeenOf(ip))
      BY <1>1, <3>2, CountsRise
    <3> QED BY <2>1, <3>2, <3>3, AmountOf
  <2>3. GrandTotal <= MapThenSumSet(LAMBDA ip : odometer[ip], Ips)
    BY <1>1, TotalBounded
  <2>4. ASSUME NEW ip \in Ips
        PROVE  MapThenSumSet(Amount, {row \in weeks : row.ip = ip}) <= odometer[ip]
    <3> DEFINE L == LinesOf(ip)
               b == odometer[ip]
    <3>1. L \subseteq Lines /\ IsFiniteSet(L) /\ LinesOf(ip) \subseteq L
      <4>1. L \subseteq weeks
        BY DEF LinesOf
      <4> QED BY <2>1, <4>1, FS_Subset
    <3>2. /\ Rising(SeenOf(ip)) /\ b \in Nat
          /\ \A r \in SeenOf(ip) : r.val # None => r.val <= b
      BY <1>1, CountsRise
    <3> HIDE DEF L, b
    <3>3. PICK it : /\ SumsUp(it, L, [x \in L |-> Amount(x)])
                    /\ MapThenSumSet(Amount, L) = it[L]
      BY <3>1, AmountsAddUp
    <3>4. it[LinesOf(ip)] <= b
      BY <2>1, <3>1, <3>2, <3>3, LinesBounded
    <3> QED BY <3>3, <3>4 DEF L, b, LinesOf
  <2> QED BY <2>2, <2>3, <2>4
<1> QED BY <1>1, Invariance, PTL
=============================================================================
