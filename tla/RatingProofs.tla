------------------------------ MODULE RatingProofs ------------------------------
(***************************************************************************)
(* The tables of the rating stay well formed however requests meet         *)
(* (Typed, with what the lists of statements look like: Listed), and as    *)
(* long as no two requests overlap (OneServed), the cache is the history   *)
(* and each match counts for what it ended with.  The invariant (Sound)    *)
(* follows the one request that is served: what is still on its list says  *)
(* which rows and which entries of the cache are not yet as they will be   *)
(* (Course), and what the next statement relies on of what was read        *)
(* (Heads, Statuses).                                                      *)
(***************************************************************************)
EXTENDS Rating, SumTheorems, SequenceTheorems

-------------------------------------------------------------------------------
(* Sums of rows, enumerations of sets and concatenations of lists.         *)

Deltas(S) == [x \in S |-> x.delta]

LEMMA TotalIs ==
  ASSUME NEW S
  PROVE  Total(S) = LET sum[s \in SUBSET S] ==
                        IF s = {} THEN 0 ELSE Taken(s).delta + sum[s \ {Taken(s)}]
                    IN sum[S]
  BY DEF Total, MapThenSumSet, MapThenFoldSet, Taken

LEMMA TotalSum ==
  ASSUME NEW S, IsFiniteSet(S)
  PROVE  Total(S) = SumFunctionOnSet(Deltas(S), S)
<1> DEFINE G == CHOOSE g : g = [s \in SUBSET S |->
                  IF s = {} THEN 0 ELSE Taken(s).delta + g[s \ {Taken(s)}]]
           H == Table(Deltas(S), S)
<1>1. Total(S) = G[S]
  BY TotalIs
<1>2. SumsUp(H, Deltas(S), S)
  BY TableExists
<1>3. \A s \in SUBSET S : s # {} => Deltas(S)[Taken(s)] = Taken(s).delta
  BY TakenIn DEF Deltas
<1>4. H = [s \in SUBSET S |-> IF s = {} THEN 0 ELSE Taken(s).delta + H[s \ {Taken(s)}]]
  BY <1>2, <1>3 DEF SumsUp
<1>5. G = [s \in SUBSET S |-> IF s = {} THEN 0 ELSE Taken(s).delta + G[s \ {Taken(s)}]]
  <2> HIDE DEF H
  <2> QED BY <1>4
<1>6. SumsUp(G, Deltas(S), S)
  <2> HIDE DEF G
  <2> QED BY <1>5, <1>3 DEF SumsUp
<1>7. G[S] = H[S]
  <2> HIDE DEF G, H
  <2> QED BY <1>2, <1>6, TablesAgree
<1> QED BY <1>1, <1>7, SumIs

LEMMA TotalInt ==
  ASSUME NEW S, IsFiniteSet(S), \A x \in S : x.delta \in Int
  PROVE  Total(S) \in Int
<1>1. \A x \in S : Deltas(S)[x] \in Int
  BY DEF Deltas
<1> QED BY <1>1, TotalSum, SumInt

LEMMA SeqOfSet ==
  ASSUME NEW S, IsFiniteSet(S)
  PROVE  /\ SetToSeq(S) \in Seq(S) /\ Len(SetToSeq(S)) = Cardinality(S)
         /\ \A x \in S : \E i \in 1..Len(SetToSeq(S)) : SetToSeq(S)[i] = x
<1> DEFINE n == Cardinality(S)  f == SetToSeq(S)
<1>1. n \in Nat /\ ExistsBijection(1..n, S)
  BY FS_CardinalityType
<1>2. PICK b \in [1..n -> S] : IsInjective(b)
  BY <1>1 DEF ExistsBijection, Bijection, Injection
<1>3. f \in [1..n -> S] /\ IsInjective(f)
  BY <1>2 DEF SetToSeq
<1>4. f \in Seq(S) /\ Len(f) = n
  BY <1>1, <1>3
<1>5. IsFiniteSet(1..n) /\ Cardinality(1..n) = n
  BY <1>1, FS_Interval
<1>6. f \in Injection(1..n, S)
  BY <1>3 DEF Injection
<1>7. f \in Surjection(1..n, S)
  <2> HIDE DEF f
  <2> QED BY <1>5, <1>6, FS_Injection
<1>8. \A x \in S : \E i \in 1..n : f[i] = x
  <2> HIDE DEF f
  <2> QED BY <1>7 DEF Surjection
<1> QED BY <1>4, <1>8

\* Things that happened at different times have an order of time, and it names
\* every one of them.
LEMMA TimeOrders ==
  ASSUME NEW S, IsFiniteSet(S), \A x \in S : x.at \in Nat, \A x, y \in S : x.at = y.at => x = y
  PROVE  \E list \in [1..Cardinality(S) -> S] :
           \A i, j \in 1..Cardinality(S) : i < j => list[i].at < list[j].at
<1> DEFINE n == Cardinality(S)
           Until(x) == {y \in S : y.at <= x.at}
           R == [x \in S |-> Cardinality(Until(x))]
<1>1. n \in Nat /\ IsFiniteSet(1..n) /\ Cardinality(1..n) = n
  BY FS_CardinalityType, FS_Interval
<1>2. \A x \in S : IsFiniteSet(Until(x)) /\ Cardinality(Until(x)) \in 1..n
  <2>1. TAKE x \in S
  <2>2. Until(x) \subseteq S /\ x \in Until(x)
    OBVIOUS
  <2> HIDE DEF Until
  <2>3. IsFiniteSet(Until(x)) /\ Cardinality(Until(x)) <= n
    BY <2>2, FS_Subset
  <2>4. Cardinality(Until(x)) \in Nat /\ Cardinality(Until(x)) # 0
    BY <2>2, <2>3, FS_CardinalityType, FS_EmptySet
  <2> QED BY <2>3, <2>4, <1>1
<1>3. \A x, y \in S : x.at < y.at => Cardinality(Until(x)) < Cardinality(Until(y))
  <2>1. SUFFICES ASSUME NEW x \in S, NEW y \in S, x.at < y.at
                 PROVE  Cardinality(Until(x)) < Cardinality(Until(y))
    OBVIOUS
  <2>2. Until(x) \subseteq Until(y) /\ y \in Until(y) /\ y \notin Until(x)
    BY <2>1
  <2>3. Cardinality(Until(x)) <= Cardinality(Until(y)) /\ Cardinality(Until(x)) # Cardinality(Until(y))
    <3>1. PICK A, B : A = Until(x) /\ B = Until(y)
      OBVIOUS
    <3>2. IsFiniteSet(B) /\ A \subseteq B /\ A # B
      BY <1>2, <2>2, <3>1
    <3> HIDE DEF Until
    <3> QED BY <3>1, <3>2, FS_Subset
  <2> QED BY <1>2, <2>3
<1>4. R \in [S -> 1..n] /\ \A x \in S : R[x] = Cardinality(Until(x))
  BY <1>2
<1>5. \A x, y \in S : R[x] < R[y] => x.at < y.at
  <2>1. SUFFICES ASSUME NEW x \in S, NEW y \in S, R[x] < R[y] PROVE x.at < y.at
    OBVIOUS
  <2>2. x.at \in Nat /\ y.at \in Nat /\ R[x] \in Nat /\ R[y] \in Nat
    BY <1>4
  <2>3. y.at < x.at => R[y] < R[x]
    BY <1>3, <1>4
  <2>4. y.at = x.at => R[y] = R[x]
    OBVIOUS
  <2> HIDE DEF R
  <2> QED BY <2>1, <2>2, <2>3, <2>4
<1>6. R \in Injection(S, 1..n)
  <2>1. \A x, y \in S : x.at < y.at => R[x] < R[y]
    BY <1>3, <1>4
  <2>2. DOMAIN R = S
    OBVIOUS
  <2> HIDE DEF R
  <2>3. ASSUME NEW x \in S, NEW y \in S, R[x] = R[y] PROVE x = y
    <3>1. R[x] \in Nat
      BY <1>4
    <3>2. ~(x.at < y.at) /\ ~(y.at < x.at)
      BY <2>1, <2>3, <3>1
    <3>3. x.at \in Nat /\ y.at \in Nat
      OBVIOUS
    <3> QED BY <3>2, <3>3
  <2> QED BY <1>4, <2>2, <2>3 DEF Injection, IsInjective
<1>7. R \in Surjection(S, 1..n)
  <2> HIDE DEF R
  <2> QED BY <1>1, <1>6, FS_Injection
<1> DEFINE list == [k \in 1..n |-> CHOOSE x \in S : R[x] = k]
<1>8. \A k \in 1..n : list[k] \in S /\ R[list[k]] = k
  <2> HIDE DEF R
  <2> QED BY <1>7 DEF Surjection
<1>9. list \in [1..n -> S]
  BY <1>8
<1>10. \A i, j \in 1..n : i < j => list[i].at < list[j].at
  <2> HIDE DEF R, list
  <2> QED BY <1>5, <1>8
<1> HIDE DEF list
<1> QED BY <1>9, <1>10

LEMMA OrderNamesAll ==
  ASSUME NEW S, IsFiniteSet(S), \A x \in S : x.at \in Nat, NEW list \in [1..Cardinality(S) -> S],
         \A i, j \in 1..Cardinality(S) : i < j => list[i].at < list[j].at
  PROVE  \A x \in S : \E i \in 1..Cardinality(S) : list[i] = x
<1> DEFINE n == Cardinality(S)
<1>1. n \in Nat /\ IsFiniteSet(1..n) /\ Cardinality(1..n) = n
  BY FS_CardinalityType, FS_Interval
<1>2. list \in Injection(1..n, S)
  <2>1. ASSUME NEW i \in 1..n, NEW j \in 1..n, list[i] = list[j] PROVE i = j
    <3>1. list[i].at \in Nat /\ list[j].at \in Nat /\ ~(list[i].at < list[j].at) /\ ~(list[j].at < list[i].at)
      BY <2>1
    <3> QED BY <1>1, <3>1
  <2> QED BY <2>1 DEF Injection, IsInjective
<1>3. list \in Surjection(1..n, S)
  BY <1>1, <1>2, FS_Injection
<1> QED BY <1>3 DEF Surjection

\* The part b of a list g that begins after o.
Slice(g, b, o) == o + Len(b) <= Len(g) /\ \A j \in 1..Len(b) : g[o + j] = b[j]
Slices(g, q, m) ==
  /\ \A k \in 1..Len(g) : \E i \in 1..m, o \in 0..Len(g) : Slice(g, q[i], o) /\ o < k /\ k <= o + Len(q[i])
  /\ \A i \in 1..m : \E o \in 0..Len(g) : Slice(g, q[i], o)
Flats(f, q, m) == f = [i \in 1..m |-> IF i = 1 THEN q[i] ELSE f[i-1] \o q[i]]

LEMMA LeastNumber ==
  ASSUME NEW n \in Nat, NEW B \in SUBSET (1..n), B # {}
  PROVE  \E k \in B : \A j \in B : k <= j
<1> DEFINE T == {1..k : k \in B}
<1>1. \A A \in T : A \subseteq 1..n
  OBVIOUS
<1>5. PICK i \in B : TRUE
  OBVIOUS
<1>6. 1..i \in T
  OBVIOUS
<1>2. PICK A \in T : \A C \in T : C \subseteq A => C = A
  <2>1. IsFiniteSet(1..n)
    BY FS_Interval
  <2>2. PICK U, W : U = 1..n /\ W = T
    OBVIOUS
  <2> HIDE DEF T
  <2>3. IsFiniteSet(U) /\ W \in SUBSET (SUBSET U) /\ W # {}
    BY <1>1, <1>6, <2>1, <2>2
  <2>4. \E x \in W : \A y \in W : y \subseteq x => y = x
    BY <2>3, Least
  <2> QED BY <2>2, <2>4
<1>3. PICK k \in B : A = 1..k
  OBVIOUS
<1>4. ASSUME NEW j \in B PROVE k <= j
  <2>1. j \in Nat /\ k \in Nat /\ 1..j \in T
    OBVIOUS
  <2>2. j < k => 1..j \subseteq 1..k /\ k \in 1..k /\ k \notin 1..j
    BY <2>1
  <2>3. ~(j < k)
    BY <1>2, <1>3, <2>1, <2>2
  <2> QED BY <2>1, <2>3
<1> QED BY <1>4

LEMMA FlatExists ==
  ASSUME NEW q, NEW n \in Nat, NEW m \in 1..n
  PROVE  \E f : Flats(f, q, m)
<1> DEFINE B == {k \in 1..n : ~(\E f : Flats(f, q, k))}
<1>1. SUFFICES ASSUME B # {} PROVE FALSE
  OBVIOUS
<1>2. B \in SUBSET (1..n)
  OBVIOUS
<1>3. PICK k \in B : \A j \in B : k <= j
  <2> HIDE DEF B
  <2> QED BY <1>1, <1>2, LeastNumber
<1>4. k \in 1..n /\ ~(\E f : Flats(f, q, k))
  OBVIOUS
<1>5. CASE k = 1
  <2>1. Flats([i \in 1..1 |-> q[i]], q, 1)
    BY DEF Flats
  <2> QED BY <1>4, <1>5, <2>1
<1>6. CASE k # 1
  <2>1. k - 1 \in 1..n /\ k - 1 \notin B
    BY <1>3, <1>4, <1>6
  <2>2. PICK f : Flats(f, q, k - 1)
    BY <2>1
  <2> DEFINE h == [i \in 1..k |-> IF i = k THEN f[k-1] \o q[k] ELSE f[i]]
  <2>3. ASSUME NEW i \in 1..k PROVE h[i] = IF i = 1 THEN q[i] ELSE h[i-1] \o q[i]
    <3>1. k \in Nat /\ i \in Nat /\ i <= k /\ 1 <= i
      BY <1>4
    <3>2. CASE i = k
      <4>1. h[i] = f[k-1] \o q[k]
        BY <3>2
      <4>2. k - 1 \in 1..k /\ k - 1 # k
        BY <1>4, <1>6
      <4>3. h[k-1] = f[k-1]
        BY <4>2
      <4> QED BY <1>6, <3>2, <4>1, <4>3
    <3>3. CASE i # k
      <4>1. i \in 1..k-1 /\ h[i] = f[i] /\ (i # 1 => h[i-1] = f[i-1])
        BY <3>1, <3>3
      <4>2. f[i] = IF i = 1 THEN q[i] ELSE f[i-1] \o q[i]
        BY <2>2, <4>1 DEF Flats
      <4> QED BY <4>1, <4>2
    <3> QED BY <3>2, <3>3
  <2>4. Flats(h, q, k)
    BY <2>3 DEF Flats
  <2> HIDE DEF h
  <2> QED BY <1>4, <2>4
<1> QED BY <1>5, <1>6

LEMMA SlicesGrow ==
  ASSUME NEW S, NEW g \in Seq(S), NEW q, NEW m \in Nat,
         \A i \in 1..m+1 : q[i] \in Seq(S), Slices(g, q, m)
  PROVE  Slices(g \o q[m+1], q, m + 1)
<1> DEFINE b == q[m+1]  h == g \o b
<1>1. /\ h \in Seq(S) /\ Len(h) = Len(g) + Len(b) /\ Len(g) \in Nat /\ Len(b) \in Nat
      /\ \A i \in 1..Len(g) + Len(b) : h[i] = IF i <= Len(g) THEN g[i] ELSE b[i - Len(g)]
  BY ConcatProperties
<1>2. ASSUME NEW i \in 1..m, NEW o \in 0..Len(g), Slice(g, q[i], o), Len(q[i]) \in Nat
      PROVE  Slice(h, q[i], o) /\ o \in 0..Len(h)
  <2> HIDE DEF h, b
  <2>1. PICK c : c = q[i]
    OBVIOUS
  <2>2. Len(c) \in Nat /\ o + Len(c) <= Len(g) /\ \A j \in 1..Len(c) : g[o + j] = c[j]
    BY <1>2, <2>1 DEF Slice
  <2>3. \A j \in 1..Len(c) : o + j \in 1..Len(g) + Len(b) /\ o + j <= Len(g)
    BY <1>1, <2>2
  <2>4. \A j \in 1..Len(c) : h[o + j] = c[j]
    BY <1>1, <2>2, <2>3
  <2> QED BY <1>1, <2>1, <2>2, <2>4 DEF Slice
<1>3. Slice(h, b, Len(g)) /\ Len(g) \in 0..Len(h)
  <2> HIDE DEF h, b
  <2> QED BY <1>1 DEF Slice
<1>4. ASSUME NEW k \in 1..Len(h)
      PROVE  \E i \in 1..m+1, o \in 0..Len(h) : Slice(h, q[i], o) /\ o < k /\ k <= o + Len(q[i])
  <2>1. CASE k <= Len(g)
    <3>1. PICK i \in 1..m, o \in 0..Len(g) : Slice(g, q[i], o) /\ o < k /\ k <= o + Len(q[i])
      BY <1>1, <2>1 DEF Slices
    <3>2. Len(q[i]) \in Nat
      BY LenProperties
    <3> QED BY <1>2, <3>1, <3>2
  <2>2. CASE k > Len(g)
    <3> HIDE DEF h
    <3> QED BY <1>1, <1>3, <1>4, <2>2
  <2> QED BY <1>1, <2>1, <2>2
<1>5. ASSUME NEW i \in 1..m+1 PROVE \E o \in 0..Len(h) : Slice(h, q[i], o)
  <2>1. CASE i = m + 1
    BY <1>3, <2>1
  <2>2. CASE i # m + 1
    <3>1. i \in 1..m /\ Len(q[i]) \in Nat
      BY <2>2, LenProperties
    <3>2. PICK o \in 0..Len(g) : Slice(g, q[i], o)
      BY <3>1 DEF Slices
    <3> QED BY <1>2, <3>1, <3>2
  <2> QED BY <2>1, <2>2
<1> HIDE DEF h, b
<1>6. Slices(h, q, m + 1)
  BY <1>4, <1>5 DEF Slices
<1> QED BY <1>6 DEF h, b

LEMMA FlatSlices ==
  ASSUME NEW S, NEW q, NEW n \in Nat, NEW f, Flats(f, q, n), \A i \in 1..n : q[i] \in Seq(S),
         NEW m \in 1..n
  PROVE  f[m] \in Seq(S) /\ Slices(f[m], q, m)
<1> DEFINE B == {k \in 1..n : ~(f[k] \in Seq(S) /\ Slices(f[k], q, k))}
<1>1. SUFFICES ASSUME B # {} PROVE FALSE
  OBVIOUS
<1>2. B \in SUBSET (1..n)
  OBVIOUS
<1>3. PICK k \in B : \A j \in B : k <= j
  <2> HIDE DEF B
  <2> QED BY <1>1, <1>2, LeastNumber
<1>4. k \in 1..n /\ ~(f[k] \in Seq(S) /\ Slices(f[k], q, k))
  OBVIOUS
<1>5. CASE k = 1
  <2>1. f[1] = q[1]
    BY <1>4, <1>5 DEF Flats
  <2>2. q[1] \in Seq(S) /\ Len(q[1]) \in Nat
    BY <1>4, <1>5, LenProperties
  <2>3. Slice(q[1], q[1], 0) /\ 0 \in 0..Len(q[1])
    BY <2>2 DEF Slice
  <2>4. Slices(q[1], q, 1)
    BY <2>2, <2>3 DEF Slices
  <2> QED BY <1>4, <1>5, <2>1, <2>2, <2>4
<1>6. CASE k # 1
  <2>1. k - 1 \in 1..n /\ k - 1 \in Nat /\ k - 1 \notin B
    BY <1>3, <1>4, <1>6
  <2>2. f[k-1] \in Seq(S) /\ Slices(f[k-1], q, k - 1)
    BY <2>1
  <2>3. f[k] = f[k-1] \o q[k]
    BY <1>6 DEF Flats
  <2>4. PICK j \in Nat : j = k - 1 /\ k = j + 1
    BY <2>1
  <2>5. \A i \in 1..j+1 : q[i] \in Seq(S)
    BY <2>4
  <2>6. Slices(f[j] \o q[j+1], q, j + 1)
    BY <2>2, <2>4, <2>5, SlicesGrow
  <2>7. f[k] \in Seq(S)
    BY <2>2, <2>3, ConcatProperties
  <2> QED BY <1>4, <2>3, <2>4, <2>6, <2>7
<1> QED BY <1>5, <1>6

\* A list of lists, one after the other, is made of them.
LEMMA Flattened ==
  ASSUME NEW S, NEW q \in Seq(Seq(S))
  PROVE  FlattenSeq(q) \in Seq(S) /\ Slices(FlattenSeq(q), q, Len(q))
<1> DEFINE n == Len(q)
           F == CHOOSE f : Flats(f, q, n)
<1>1. n \in Nat /\ \A i \in 1..n : q[i] \in Seq(S)
  BY LenProperties, ElementOfSeq
<1>2. CASE n = 0
  <2>1. FlattenSeq(q) = q /\ q = <<>>
    BY <1>2, EmptySeq DEF FlattenSeq
  <2> QED BY <2>1 DEF Slices
<1>3. CASE n # 0
  <2>1. FlattenSeq(q) = F[n]
    BY <1>3 DEF FlattenSeq, Flats
  <2>3. n \in 1..n
    BY <1>1, <1>3
  <2>4. \E f : Flats(f, q, n)
    <3> HIDE DEF n
    <3> QED BY <1>1, <2>3, FlatExists
  <2>2. Flats(F, q, n)
    BY <2>4
  <2> HIDE DEF F, n
  <2> QED BY <1>1, <2>1, <2>2, <2>3, FlatSlices DEF n
<1> QED BY <1>2, <1>3

-------------------------------------------------------------------------------
(* What the tables and the requests hold, however requests meet.           *)

Early == {"guard", "close", "ended", "rescore", "void", "delete", "old", "finished", "upcoming",
          "named", "begin", "rules", "rule", "reset"}
AboutMatch == {"guard", "close", "ended", "rescore", "void", "old", "finished", "upcoming",
               "load", "rows", "wipe", "top", "award", "unwin", "unpin"}
AboutAll == {"truncate", "list", "clear", "fill", "teams", "patches", "begin", "rules"}
Pays == {"rate", "insert"}

Seasons == Season \cup {0}
Event == [at : Nat, t : {NoTour}, s : Player, season : Seasons]
Statement ==
  [op : AboutMatch, t : Tour, s : {NoSide}]
  \cup {x \in [op : {"delete"}, t : Tour, s : {NoSide}] : "delete" \in load.kinds}
  \cup {x \in [op : {"named"}, t : Tour, s : Side] : x.s \in SidesOf(x.t)}
  \cup [op : Pays, t : Tour, s : Side]
  \cup [op : AboutAll, t : {NoTour}, s : {NoSide}]
  \cup [op : {"sum", "write"}, t : {NoTour}, s : Side]
  \cup [op : {"rule", "reset"}, t : {NoTour}, s : Player]
  \cup [op : {"again"}, t : {NoTour}, s : Event]

HistoryRow == [side : Side, tour : Tour \cup {NoTour}, delta : Int, before : Int,
               season : Seasons, at : Nat]
Match == [status : {"none", "live", "upcoming", "finished", "gone"},
          winner : Side \cup {NoSide}, voided : BOOLEAN, season : Seasons, at : Nat,
          doubled : SUBSET Side, pinned : BOOLEAN]

ToursOK ==
  /\ load \in Loads /\ whole \in BOOLEAN /\ clock \in Nat
  /\ tour \in [Tour -> Match]
  /\ \A t \in Tour : /\ tour[t].winner \in SidesOf(t) \cup {NoSide}
                     /\ tour[t].status # "none" => t \in load.tours
SeasonsOK ==
  /\ resets \in SUBSET [side : Player, season : Seasons, at : Nat] /\ IsFiniteSet(resets)
  /\ seasons \subseteq Season /\ active \in seasons \cup {0}
  /\ start \in [Season -> Int]
HistoryOK ==
  /\ history \in SUBSET HistoryRow /\ IsFiniteSet(history)
  /\ \A x, y \in history : x.tour = y.tour /\ x.side = y.side /\ x.tour # NoTour => x = y
CacheOK == cache \in [Side -> Int \cup {NoRow}]
TablesOK == ToursOK /\ SeasonsOK /\ HistoryOK /\ CacheOK

\* No two of the events have the same time, nor is one of them what happens next.
Begun(t) == tour[t].status # "none"
Past(at) == \A k \in Nat : k >= clock => at # 2 * k
OneAtATime ==
  /\ \A t \in Tour : Begun(t) => Past(tour[t].at)
  /\ \A t, u \in Tour : Begun(t) /\ Begun(u) /\ tour[t].at = tour[u].at => t = u
  /\ \A x \in resets : (\E k \in Nat : k < clock /\ x.at = 2 * k) /\ \A t \in Tour : Begun(t) => tour[t].at # x.at
  /\ \A x, y \in resets : x.at = y.at => x = y

-------------------------------------------------------------------------------
(* The lists of statements that there can be.                              *)

\* A statement and the one right after it, about the same.
Joined(x, y) ==
  \/ x.op = "load" /\ y.op = "rows" /\ y.t = x.t
  \/ x.op = "rows" /\ y.op = "wipe" /\ y.t = x.t
  \/ x.op = "top" /\ y.op = "load" /\ y.t = x.t
  \/ x.op = "sum" /\ y.op = "write" /\ y.s = x.s
  \/ x.op = "clear" /\ y.op = "fill"
  \/ x.op = "fill" /\ y.op = "teams"
  \/ x.op = "truncate" /\ y.op = "list"
  \/ x.op = "begin" /\ y.op = "clear"
  \/ x.op = "rules" /\ y.op = "truncate"
  \/ x.op = "unpin" /\ y.op = "truncate"
  \/ x.op = "rule" /\ y.op = "reset"
  \/ x.op = "reset" /\ y.op = "sum" /\ y.s = x.s
  \/ x.op = "guard" /\ y.op = "close"
  \/ x.op = "ended" /\ y.op \in {"rescore", "void"} /\ y.t = x.t
  \/ x.op = "old" /\ y.op \in {"finished", "upcoming"} /\ y.t = x.t
Leaders == {"load", "rows", "top", "sum", "clear", "fill", "truncate", "begin", "rules", "rule",
            "reset", "guard", "ended", "old", "unpin"}
Followers == {"wipe", "write", "fill", "teams", "list", "rescore", "void", "finished", "upcoming"}

Linked(q) == \A i \in 1..Len(q) :
  /\ q[i].op \in Leaders => i < Len(q) /\ Joined(q[i], q[i+1])
  /\ i > 1 /\ q[i].op \in Followers => Joined(q[i-1], q[i])

\* The statements about one match come in the order of its course.
Rank == [load |-> 1, rows |-> 2, wipe |-> 3, award |-> 4, unwin |-> 4]
InCourse(x) == x.op \in {"load", "rows", "wipe", "award", "unwin"}
Loading(q, i, j) == \E k \in i..j : q[k].op = "load"
Ordered(q) == \A i, j \in 1..Len(q) :
  i < j /\ InCourse(q[i]) /\ InCourse(q[j]) /\ ~Loading(q, i + 1, j)
    => q[i].t = q[j].t /\ Rank[q[i].op] < Rank[q[j].op]

\* What a match brings is written by eight statements, at the head of the list.
Loser(w, t) == CHOOSE s \in SidesOf(t) : s # w
Payment(w, t) ==
  LET l == Loser(w, t) IN
  <<St("rate", t, w), St("rate", t, l), St("insert", t, w), St("insert", t, l),
    St("sum", NoTour, w), St("write", NoTour, w), St("sum", NoTour, l), St("write", NoTour, l)>>
PaidFrom(q, w, n) ==
  /\ Len(q) >= 8 - n /\ \A i \in 1..8-n : q[i] = Payment(w, q[1].t)[i+n]
  /\ \A i \in 1..Len(q) : q[i].op \in Pays => i <= 4 - n
  /\ \A i \in 1..Len(q) : InCourse(q[i]) => Loading(q, 1, i)
Paying(q, w) ==
  q # <<>> => IF q[1].op \in Pays THEN \E n \in 0..3 : PaidFrom(q, w, n)
              ELSE \A i \in 1..Len(q) : q[i].op \notin Pays

\* What is counted again is followed by a new cache.
Recounted(q) == \A i \in 1..Len(q) : q[i].op = "again" => \E j \in i..Len(q) : q[j].op = "clear"
\* Before a request has changed anything nothing of what it will do is on its list.
Prepared(q) == (\E i \in 1..Len(q) : q[i].op \in Early) =>
  \A i \in 1..Len(q) : ~InCourse(q[i]) /\ q[i].op \notin Pays \cup {"again"}

EarlyFirst(q) == \A i \in 1..Len(q) : q[i].op \in Early => \A j \in 1..i : q[j].op \in Early
\* What is taken away of a match is followed by what the match brings.
Completed(q) == \A i \in 1..Len(q) : q[i].op \in {"load", "rows", "wipe"} =>
  \E j \in i..Len(q) : q[j].op \in {"award", "unwin"} /\ q[j].t = q[i].t

Listed(q, w) ==
  /\ q \in Seq(Statement) /\ Linked(q) /\ Ordered(q) /\ Paying(q, w) /\ Recounted(q)
  /\ Prepared(q) /\ EarlyFirst(q) /\ Completed(q)

Req == [todo : Seq(Statement), winner : Side \cup {NoSide}, voided : BOOLEAN,
        rates : [1..2 -> Int], sum : Int \cup {NoRow}, season : Seasons,
        doubled : SUBSET Side, pinned : BOOLEAN]
RequestsOK == req \in [Request -> Req] /\ \A p \in Request : Listed(req[p].todo, req[p].winner)

Typed == TablesOK /\ OneAtATime /\ RequestsOK

LEMMA TypedIsTypeOK == Typed => TypeOK
  BY DEF Typed, TablesOK, ToursOK, SeasonsOK, HistoryOK, TypeOK, Match, HistoryRow, Seasons

LEMMA TwoSides ==
  ASSUME NEW t \in Tour
  PROVE  /\ Sides[t][1] \in Side /\ Sides[t][2] \in Side /\ SidesOf(t) \subseteq Side
         /\ \A w : Loser(w, t) \in SidesOf(t) /\ Loser(w, t) # w
         /\ \A w \in SidesOf(t) : SidesOf(t) = {w, Loser(w, t)}
<1>1. /\ Sides[t][1] \in Side /\ Sides[t][2] \in Side /\ Sides[t][1] # Sides[t][2]
      /\ SidesOf(t) = {Sides[t][1], Sides[t][2]}
  BY RatingAssumption DEF SidesOf
<1>2. \A w : \E s \in SidesOf(t) : s # w
  BY <1>1
<1>3. \A w : Loser(w, t) \in SidesOf(t) /\ Loser(w, t) # w
  BY <1>2 DEF Loser
<1> QED BY <1>1, <1>3

\* The lists that handlers and statements put in a request.
LEMMA Start ==
  ASSUME NEW t \in Tour, NEW w
  PROVE  /\ Listed(<<>>, w)
         /\ Listed(<<St("guard", t, NoSide), St("close", t, NoSide)>>, w)
         /\ Listed(<<St("ended", t, NoSide), St("rescore", t, NoSide)>>, w)
         /\ Listed(<<St("ended", t, NoSide), St("void", t, NoSide)>>, w)
         /\ "delete" \in load.kinds => Listed(<<St("delete", t, NoSide)>>, w)
         /\ \A to \in {"finished", "upcoming"} : Listed(<<St("old", t, NoSide), St(to, t, NoSide)>>, w)
         /\ \A s \in SidesOf(t) : Listed(<<St("named", t, s)>>, w)
<1> USE DEF Listed, Linked, Ordered, Paying, Recounted, Prepared, EarlyFirst, Completed, St, Statement, AboutMatch, Early,
            Joined, Leaders, Followers, InCourse, Pays
<1>1. Listed(<<>>, w)
  OBVIOUS
<1>2. Listed(<<St("guard", t, NoSide), St("close", t, NoSide)>>, w)
  OBVIOUS
<1>3. Listed(<<St("ended", t, NoSide), St("rescore", t, NoSide)>>, w)
  OBVIOUS
<1>4. Listed(<<St("ended", t, NoSide), St("void", t, NoSide)>>, w)
  OBVIOUS
<1>5. "delete" \in load.kinds => Listed(<<St("delete", t, NoSide)>>, w)
  OBVIOUS
<1>6. ASSUME NEW to \in {"finished", "upcoming"}
      PROVE  Listed(<<St("old", t, NoSide), St(to, t, NoSide)>>, w)
  BY <1>6
<1>7. ASSUME NEW s \in SidesOf(t) PROVE Listed(<<St("named", t, s)>>, w)
  BY <1>7, TwoSides
<1> HIDE DEF Listed, Linked, Ordered, Paying, Recounted, Prepared, EarlyFirst, Completed, St, Statement, AboutMatch, Early,
             Joined, Leaders, Followers, InCourse, Pays
<1> QED BY <1>1, <1>2, <1>3, <1>4, <1>5, <1>6, <1>7

LEMMA StartAll ==
  ASSUME NEW w
  PROVE  /\ Listed(All, w)
         /\ Listed(<<St("begin", NoTour, NoSide)>> \o Refresh, w)
         /\ Listed(<<St("rules", NoTour, NoSide)>> \o All, w)
         /\ \A s \in Player : Listed(<<St("rule", NoTour, s), St("reset", NoTour, s)>> \o Cached(s), w)
         /\ \A t \in Tour : Listed(<<St("unpin", t, NoSide)>> \o All, w)
<1> USE DEF Listed, Linked, Ordered, Paying, Recounted, Prepared, EarlyFirst, Completed, St, Statement, AboutAll, AboutMatch, Early,
            Joined, Leaders, Followers, InCourse, Pays, All, Refresh, Cached
<1>1. Listed(All, w)
  OBVIOUS
<1>2. Listed(<<St("begin", NoTour, NoSide)>> \o Refresh, w)
  OBVIOUS
<1>3. Listed(<<St("rules", NoTour, NoSide)>> \o All, w)
  OBVIOUS
<1>4. ASSUME NEW s \in Player PROVE Listed(<<St("rule", NoTour, s), St("reset", NoTour, s)>> \o Cached(s), w)
  BY <1>4 DEF Side
<1>5. ASSUME NEW t \in Tour PROVE Listed(<<St("unpin", t, NoSide)>> \o All, w)
  BY <1>5
<1> HIDE DEF Listed, Linked, Ordered, Paying, Recounted, Prepared, EarlyFirst, Completed, St, Statement, AboutAll, AboutMatch, Early,
             Joined, Leaders, Followers, InCourse, Pays, All, Refresh, Cached
<1> QED BY <1>1, <1>2, <1>3, <1>4, <1>5

LEMMA SameLists ==
  ASSUME NEW S, NEW p \in Seq(S), NEW q \in Seq(S), NEW r \in Seq(S), Len(r) = Len(p) + Len(q),
         \A i \in 1..Len(r) : r[i] = IF i <= Len(p) THEN p[i] ELSE q[i - Len(p)]
  PROVE  p \o q = r
<1>1. PICK x : x = p \o q
  OBVIOUS
<1>2. x \in Seq(S) /\ Len(x) = Len(r) /\ \A i \in 1..Len(r) : x[i] = r[i]
  BY <1>1, ConcatProperties
<1>3. x = r
  BY <1>2, SeqEqual
<1> QED BY <1>1, <1>3

LEMMA StartMatch ==
  ASSUME NEW t \in Tour, NEW w
  PROVE  /\ Listed(Apply(t), w)
         /\ Listed(<<St("top", t, NoSide)>> \o Apply(t), w)
         /\ Listed(Revert(t) \o <<St("unwin", t, NoSide)>>, w)
<1> DEFINE L == St("load", t, NoSide)  R == St("rows", t, NoSide)  W == St("wipe", t, NoSide)
           A == St("award", t, NoSide)  T == St("top", t, NoSide)
<1>1. /\ {L, R, W, A, T} \subseteq Statement
      /\ L.op = "load" /\ R.op = "rows" /\ W.op = "wipe" /\ A.op = "award" /\ T.op = "top"
      /\ L.t = t /\ R.t = t /\ W.t = t /\ A.t = t /\ T.t = t
  BY DEF St, Statement, AboutMatch
<1>2. PICK l, r, u, a, o : l = L /\ r = R /\ u = W /\ a = A /\ o = T
  OBVIOUS
<1>3. Apply(t) = <<l, r, u, a>> /\ <<T>> \o Apply(t) = <<o, l, r, u, a>>
  <2>1. Apply(t) = (<<l>> \o <<r, u>>) \o <<a>>
    BY <1>2 DEF Apply, Revert
  <2> HIDE DEF L, R, W, A, T
  <2>2. l \in Statement /\ r \in Statement /\ u \in Statement /\ a \in Statement /\ o \in Statement
    BY <1>1, <1>2
  <2>3. <<l>> \o <<r, u>> = <<l, r, u>>
    <3>1. PICK p, q, v : p = <<l>> /\ q = <<r, u>> /\ v = <<l, r, u>>
      OBVIOUS
    <3>2. p \in Seq(Statement) /\ q \in Seq(Statement) /\ v \in Seq(Statement)
      BY <2>2, <3>1
    <3>3. Len(p) = 1 /\ Len(q) = 2 /\ Len(v) = 3 /\ \A i \in 1..3 : v[i] = IF i <= 1 THEN p[i] ELSE q[i - 1]
      BY <3>1
    <3>5. Len(v) = Len(p) + Len(q) /\ \A i \in 1..Len(v) : v[i] = IF i <= Len(p) THEN p[i] ELSE q[i - Len(p)]
      BY <3>3
    <3>4. p \o q = v
      BY <3>2, <3>5, SameLists
    <3> QED BY <3>1, <3>4
  <2>4. <<l, r, u>> \o <<a>> = <<l, r, u, a>>
    <3>1. PICK p, q, v : p = <<l, r, u>> /\ q = <<a>> /\ v = <<l, r, u, a>>
      OBVIOUS
    <3>2. p \in Seq(Statement) /\ q \in Seq(Statement) /\ v \in Seq(Statement)
      BY <2>2, <3>1
    <3>3. Len(p) = 3 /\ Len(q) = 1 /\ Len(v) = 4 /\ \A i \in 1..4 : v[i] = IF i <= 3 THEN p[i] ELSE q[i - 3]
      BY <3>1
    <3>5. Len(v) = Len(p) + Len(q) /\ \A i \in 1..Len(v) : v[i] = IF i <= Len(p) THEN p[i] ELSE q[i - Len(p)]
      BY <3>3
    <3>4. p \o q = v
      BY <3>2, <3>5, SameLists
    <3> QED BY <3>1, <3>4
  <2>5. <<o>> \o <<l, r, u, a>> = <<o, l, r, u, a>>
    <3>1. PICK p, q, v : p = <<o>> /\ q = <<l, r, u, a>> /\ v = <<o, l, r, u, a>>
      OBVIOUS
    <3>2. p \in Seq(Statement) /\ q \in Seq(Statement) /\ v \in Seq(Statement)
      BY <2>2, <3>1
    <3>3. Len(p) = 1 /\ Len(q) = 4 /\ Len(v) = 5 /\ \A i \in 1..5 : v[i] = IF i <= 1 THEN p[i] ELSE q[i - 1]
      BY <3>1
    <3>5. Len(v) = Len(p) + Len(q) /\ \A i \in 1..Len(v) : v[i] = IF i <= Len(p) THEN p[i] ELSE q[i - Len(p)]
      BY <3>3
    <3>4. p \o q = v
      BY <3>2, <3>5, SameLists
    <3> QED BY <3>1, <3>4
  <2> QED BY <1>2, <2>1, <2>3, <2>4, <2>5
<1>4. /\ l \in Statement /\ r \in Statement /\ u \in Statement /\ a \in Statement /\ o \in Statement
      /\ l.op = "load" /\ r.op = "rows" /\ u.op = "wipe" /\ a.op = "award" /\ o.op = "top"
      /\ l.t = t /\ r.t = t /\ u.t = t /\ a.t = t /\ o.t = t
  BY <1>1, <1>2
<1> HIDE DEF L, R, W, A, T
<1> DEFINE q4 == <<l, r, u, a>>  q5 == <<o, l, r, u, a>>
<1>5. /\ q4 \in Seq(Statement) /\ Len(q4) = 4 /\ q4[1] = l /\ q4[2] = r /\ q4[3] = u /\ q4[4] = a
      /\ q5 \in Seq(Statement) /\ Len(q5) = 5 /\ q5[1] = o /\ q5[2] = l /\ q5[3] = r /\ q5[4] = u /\ q5[5] = a
  BY <1>4
<1>6. PICK f, g : f = q4 /\ g = q5
  OBVIOUS
<1>7. Listed(f, w)
  <2>1. f \in Seq(Statement) /\ Len(f) = 4 /\ f[1] = l /\ f[2] = r /\ f[3] = u /\ f[4] = a
    BY <1>5, <1>6
  <2> HIDE DEF q4, q5
  <2>2. Linked(f)
    BY <1>4, <2>1 DEF Linked, Joined, Leaders, Followers
  <2>3. Ordered(f)
    BY <1>4, <2>1 DEF Ordered, InCourse, Rank
  <2>4. Paying(f, w) /\ Recounted(f) /\ Prepared(f) /\ EarlyFirst(f) /\ Completed(f)
    BY <1>4, <2>1 DEF Paying, Pays, Recounted, Prepared, EarlyFirst, Completed, Early
  <2> QED BY <2>1, <2>2, <2>3, <2>4 DEF Listed
<1>8. Listed(g, w)
  <2>1. g \in Seq(Statement) /\ Len(g) = 5 /\ g[1] = o /\ g[2] = l /\ g[3] = r /\ g[4] = u /\ g[5] = a
    BY <1>5, <1>6
  <2> HIDE DEF q4, q5
  <2>2. Linked(g)
    BY <1>4, <2>1 DEF Linked, Joined, Leaders, Followers
  <2>3. Ordered(g)
    <3>1. ASSUME NEW i \in 1..5, NEW j \in 1..5, i < j, InCourse(g[i]), InCourse(g[j])
          PROVE  g[i].t = g[j].t /\ Rank[g[i].op] < Rank[g[j].op]
      BY <1>4, <2>1, <3>1 DEF InCourse, Rank
    <3> QED BY <2>1, <3>1 DEF Ordered
  <2>4. Paying(g, w) /\ Recounted(g) /\ Prepared(g) /\ EarlyFirst(g) /\ Completed(g)
    BY <1>4, <2>1 DEF Paying, Pays, Recounted, Prepared, EarlyFirst, Completed, Early
  <2> QED BY <2>1, <2>2, <2>3, <2>4 DEF Listed
<1>9. Listed(Revert(t) \o <<St("unwin", t, NoSide)>>, w)
  BY DEF Listed, Linked, Ordered, Paying, Recounted, Prepared, EarlyFirst, Completed, St, Statement, AboutMatch, Early,
         Joined, Leaders, Followers, InCourse, Pays, Revert, Rank, Loading
<1> HIDE DEF q4, q5
<1>10. Listed(Apply(t), w)
  BY <1>3, <1>6, <1>7 DEF q4
<1>11. Listed(<<T>> \o Apply(t), w)
  BY <1>3, <1>6, <1>8 DEF q5
<1> QED BY <1>9, <1>10, <1>11 DEF T

\* What is left of a list when its first statement is done.
LEMMA ListedTail ==
  ASSUME NEW q, NEW w, NEW v, Listed(q, w), q # <<>>, q[1].op \in Pays => v = w
  PROVE  Listed(Tail(q), v)
<1>1. PICK x : x = Tail(q)
  OBVIOUS
<1>2. PICK n \in Nat : Len(q) = n /\ n > 0
  BY EmptySeq DEF Listed
<1>3. x \in Seq(Statement) /\ Len(x) = n - 1 /\ \A i \in 1..n-1 : x[i] = q[i+1]
  BY <1>1, <1>2, HeadTailProperties DEF Listed
<1>4. Linked(x)
  <2>1. ASSUME NEW i \in 1..n-1, x[i].op \in Leaders PROVE i < n - 1 /\ Joined(x[i], x[i+1])
    <3>1. i + 1 \in 1..n /\ x[i] = q[i+1]
      BY <1>3
    <3>2. i + 1 < n /\ Joined(q[i+1], q[i+1+1])
      BY <1>2, <2>1, <3>1 DEF Listed, Linked
    <3> QED BY <1>3, <3>1, <3>2
  <2>2. ASSUME NEW i \in 1..n-1, i > 1, x[i].op \in Followers PROVE Joined(x[i-1], x[i])
    <3>1. PICK j \in Nat : j = i + 1 /\ j \in 1..n /\ x[i] = q[j] /\ x[i-1] = q[j-1] /\ j > 1
      BY <1>3, <2>2
    <3> QED BY <1>2, <2>2, <3>1 DEF Listed, Linked
  <2> QED BY <1>3, <2>1, <2>2 DEF Linked
<1>5. Ordered(x)
  <2>1. SUFFICES ASSUME NEW i \in 1..n-1, NEW j \in 1..n-1, i < j, InCourse(x[i]), InCourse(x[j]),
                        ~Loading(x, i + 1, j)
                 PROVE  x[i].t = x[j].t /\ Rank[x[i].op] < Rank[x[j].op]
    BY <1>3 DEF Ordered
  <2>2. PICK a, b \in Nat : a = i + 1 /\ b = j + 1 /\ a \in 1..n /\ b \in 1..n /\ x[i] = q[a] /\ x[j] = q[b] /\ a < b
    BY <1>3, <2>1
  <2>3. ~Loading(q, a + 1, b)
    <3>1. ASSUME NEW k \in a+1..b, q[k].op = "load" PROVE FALSE
      <4>1. k - 1 \in i+1..j /\ x[k-1] = q[k]
        BY <1>3, <2>2
      <4> QED BY <2>1, <3>1, <4>1 DEF Loading
    <3> QED BY <3>1 DEF Loading
  <2> QED BY <1>2, <2>1, <2>2, <2>3 DEF Listed, Ordered
<1>6. Paying(x, v)
  <2>1. CASE q[1].op \notin Pays
    <3>1. \A i \in 1..n : q[i].op \notin Pays
      BY <1>2, <2>1 DEF Listed, Paying
    <3>2. \A i \in 1..n-1 : x[i].op \notin Pays
      BY <1>3, <3>1
    <3> QED BY <1>3, <3>2, EmptySeq DEF Paying
  <2>2. CASE q[1].op \in Pays
    <3>1. PICK k \in 0..3 : PaidFrom(q, w, k)
      BY <2>2 DEF Listed, Paying
    <3>2. CASE k = 3
      <4>1. \A i \in 1..n : q[i].op \in Pays => i <= 1
        BY <1>2, <3>1, <3>2 DEF PaidFrom
      <4>2. \A i \in 1..n-1 : x[i].op \notin Pays
        BY <1>3, <4>1
      <4> QED BY <1>3, <4>2, EmptySeq DEF Paying
    <3>3. CASE k # 3
      <4>1. n >= 8 - k /\ \A i \in 1..8-k : q[i] = Payment(w, q[1].t)[i+k]
        BY <1>2, <3>1 DEF PaidFrom
      <4>2. k + 1 \in 0..3 /\ n - 1 >= 8 - (k + 1) /\ 2 \in 1..8-k /\ 1 \in 1..n-1
        BY <1>2, <3>3, <4>1
      <4>3. x[1] = q[2] /\ q[2] = Payment(w, q[1].t)[k+2]
        BY <1>3, <4>1, <4>2
      <4>4. x[1].t = q[1].t /\ x[1].op \in Pays
        BY <3>3, <4>3 DEF Payment, St, Pays
      <4>5. \A i \in 1..8-(k+1) : x[i] = Payment(w, x[1].t)[i+(k+1)]
        <5>1. TAKE i \in 1..8-(k+1)
        <5>2. PICK j \in Nat : j = i + 1 /\ j \in 1..8-k /\ x[i] = q[j] /\ j + k = i + (k + 1)
          BY <1>3, <4>2
        <5> QED BY <4>1, <4>4, <5>2
      <4>6. \A i \in 1..n-1 : x[i].op \in Pays => i <= 4 - (k + 1)
        <5>1. TAKE i \in 1..n-1
        <5>2. i + 1 \in 1..n /\ x[i] = q[i+1]
          BY <1>3
        <5>3. q[i+1].op \in Pays => i + 1 <= 4 - k
          BY <1>2, <3>1, <5>2 DEF PaidFrom
        <5> QED BY <5>2, <5>3
      <4>7. \A i \in 1..n-1 : InCourse(x[i]) => Loading(x, 1, i)
        <5>1. SUFFICES ASSUME NEW i \in 1..n-1, InCourse(x[i]) PROVE Loading(x, 1, i)
          OBVIOUS
        <5>2. i + 1 \in 1..n /\ x[i] = q[i+1]
          BY <1>3
        <5>3. PICK h \in 1..i+1 : q[h].op = "load"
          BY <1>2, <3>1, <5>1, <5>2 DEF PaidFrom, Loading
        <5>4. h # 1
          BY <2>2, <5>3 DEF Pays
        <5>5. h - 1 \in 1..i /\ x[h-1] = q[h]
          BY <1>3, <5>4
        <5> QED BY <5>3, <5>5 DEF Loading
      <4>8. PaidFrom(x, w, k + 1)
        BY <1>3, <4>2, <4>5, <4>6, <4>7 DEF PaidFrom
      <4> QED BY <2>2, <4>2, <4>4, <4>8 DEF Paying
    <3> QED BY <3>2, <3>3
  <2> QED BY <2>1, <2>2
<1>7. Recounted(x)
  <2>1. SUFFICES ASSUME NEW i \in 1..n-1, x[i].op = "again" PROVE \E j \in i..n-1 : x[j].op = "clear"
    BY <1>3 DEF Recounted
  <2>2. i + 1 \in 1..n /\ x[i] = q[i+1]
    BY <1>3
  <2>3. PICK j \in i+1..n : q[j].op = "clear"
    BY <1>2, <2>1, <2>2 DEF Listed, Recounted
  <2>4. j - 1 \in i..n-1 /\ x[j-1] = q[j]
    BY <1>3
  <2> QED BY <2>3, <2>4
<1>8. Prepared(x)
  <2>1. SUFFICES ASSUME NEW i \in 1..n-1, x[i].op \in Early, NEW j \in 1..n-1
                 PROVE  ~InCourse(x[j]) /\ x[j].op \notin Pays \cup {"again"}
    BY <1>3 DEF Prepared
  <2>2. i + 1 \in 1..n /\ x[i] = q[i+1] /\ j + 1 \in 1..n /\ x[j] = q[j+1]
    BY <1>3
  <2> QED BY <1>2, <2>1, <2>2 DEF Listed, Prepared
<1>9. EarlyFirst(x)
  <2>1. SUFFICES ASSUME NEW i \in 1..n-1, x[i].op \in Early, NEW j \in 1..i
                 PROVE  x[j].op \in Early
    BY <1>3 DEF EarlyFirst
  <2>2. i + 1 \in 1..n /\ x[i] = q[i+1] /\ j + 1 \in 1..i+1 /\ x[j] = q[j+1]
    BY <1>3
  <2> QED BY <1>2, <2>1, <2>2 DEF Listed, EarlyFirst
<1>10. Completed(x)
  <2>1. SUFFICES ASSUME NEW i \in 1..n-1, x[i].op \in {"load", "rows", "wipe"}
                 PROVE  \E j \in i..n-1 : x[j].op \in {"award", "unwin"} /\ x[j].t = x[i].t
    BY <1>3 DEF Completed
  <2>2. i + 1 \in 1..n /\ x[i] = q[i+1]
    BY <1>3
  <2>3. PICK j \in i+1..n : q[j].op \in {"award", "unwin"} /\ q[j].t = q[i+1].t
    BY <1>2, <2>1, <2>2 DEF Listed, Completed
  <2>4. j - 1 \in i..n-1 /\ x[j-1] = q[j]
    BY <1>3
  <2> QED BY <2>2, <2>3, <2>4
<1> QED BY <1>1, <1>3, <1>4, <1>5, <1>6, <1>7, <1>8, <1>9, <1>10 DEF Listed

\* Statements that bring caches up to date.
Caching(c) ==
  /\ c \in Seq(Statement) /\ Linked(c)
  /\ c # <<>> => c[1].op = "sum"
  /\ \A i \in 1..Len(c) : c[i].op \in {"sum", "write"}

\* The list x is q with c after its second statement and without its first.
Spreads(x, q, c, n, m) ==
  /\ Len(q) = n /\ Len(c) = m /\ n >= 2 /\ q[2].op = "wipe" /\ q[2].t = q[1].t
  /\ x \in Seq(Statement) /\ Len(x) = n + m - 1 /\ x[1] = q[2]
  /\ \A i \in 2..m+1 : x[i] = c[i-1]
  /\ \A i \in m+2..n+m-1 : x[i] = q[i-m+1]

LEMMA SpreadIs ==
  ASSUME NEW q, NEW w, Listed(q, w), q # <<>>, q[1].op = "rows", NEW c, Caching(c),
         NEW x, x = (<<q[2]>> \o c) \o Tail(Tail(q))
  PROVE  \E n \in Nat, m \in Nat : Spreads(x, q, c, n, m)
<1>1. PICK n \in Nat, m \in Nat : Len(q) = n /\ Len(c) = m /\ n >= 1
  BY EmptySeq, LenProperties DEF Listed, Caching
<1>2. n >= 2 /\ q[2].op = "wipe" /\ q[2].t = q[1].t /\ q[2] \in Statement
  <2>1. 1 < n /\ Joined(q[1], q[1+1])
    BY <1>1 DEF Listed, Linked, Leaders
  <2> QED BY <1>1, <2>1, ElementOfSeq DEF Joined, Listed
<1>3. PICK y : y = Tail(Tail(q))
  OBVIOUS
<1>4. y \in Seq(Statement) /\ Len(y) = n - 2 /\ \A i \in 1..n-2 : y[i] = q[i+2]
  <2>1. PICK z : z = Tail(q)
    OBVIOUS
  <2>2. z \in Seq(Statement) /\ Len(z) = n - 1 /\ \A i \in 1..n-1 : z[i] = q[i+1]
    BY <1>1, <2>1, HeadTailProperties DEF Listed
  <2>3. z # <<>>
    BY <1>2, <2>2, EmptySeq
  <2>4. y = Tail(z)
    BY <1>3, <2>1
  <2>5. y \in Seq(Statement) /\ Len(y) = Len(z) - 1 /\ \A i \in 1..Len(y) : y[i] = z[i+1]
    BY <2>2, <2>3, <2>4, HeadTailProperties
  <2>6. ASSUME NEW i \in 1..n-2 PROVE y[i] = q[i+2]
    <3>1. i + 1 \in 1..n-1 /\ (i + 1) + 1 = i + 2 /\ i \in 1..Len(y)
      BY <2>2, <2>5
    <3> QED BY <2>2, <2>5, <3>1
  <2> QED BY <2>2, <2>5, <2>6
<1>5. PICK u : u = <<q[2]>> \o c
  OBVIOUS
<1>6. /\ u \in Seq(Statement) /\ Len(u) = m + 1 /\ u[1] = q[2]
      /\ \A i \in 2..m+1 : u[i] = c[i-1]
  <2>1. PICK z : z = <<q[2]>>
    OBVIOUS
  <2>2. z \in Seq(Statement) /\ Len(z) = 1 /\ z[1] = q[2]
    BY <1>2, <2>1
  <2>3. u = z \o c /\ c \in Seq(Statement)
    BY <1>5, <2>1 DEF Caching
  <2>4. u \in Seq(Statement) /\ Len(u) = Len(z) + Len(c)
        /\ \A i \in 1..Len(z) + Len(c) : u[i] = IF i <= Len(z) THEN z[i] ELSE c[i - Len(z)]
    BY <2>2, <2>3, ConcatProperties
  <2> QED BY <1>1, <2>2, <2>4
<1>7. PICK z : z = u \o y
  OBVIOUS
<1>8. /\ z \in Seq(Statement) /\ Len(z) = n + m - 1 /\ z[1] = q[2]
      /\ \A i \in 2..m+1 : z[i] = c[i-1]
      /\ \A i \in m+2..n+m-1 : z[i] = q[i-m+1]
  <2>1. z \in Seq(Statement) /\ Len(z) = Len(u) + Len(y)
        /\ \A i \in 1..Len(u) + Len(y) : z[i] = IF i <= Len(u) THEN u[i] ELSE y[i - Len(u)]
    BY <1>4, <1>6, <1>7, ConcatProperties
  <2>2. ASSUME NEW i \in m+2..n+m-1 PROVE z[i] = q[i-m+1]
    <3>1. i - (m + 1) \in 1..n-2 /\ (i - (m + 1)) + 2 = i - m + 1
      BY <1>1
    <3>3. i \in 1..Len(u) + Len(y) /\ ~(i <= Len(u)) /\ Len(u) = m + 1
      BY <1>1, <1>4, <1>6
    <3>2. z[i] = y[i - (m+1)]
      BY <2>1, <3>3
    <3> QED BY <1>4, <3>1, <3>2
  <2> QED BY <1>1, <1>2, <1>4, <1>6, <2>1, <2>2
<1>9. x = z
  BY <1>3, <1>5, <1>7
<1>10. /\ x \in Seq(Statement) /\ Len(x) = n + m - 1 /\ x[1] = q[2]
       /\ \A i \in 2..m+1 : x[i] = c[i-1]
       /\ \A i \in m+2..n+m-1 : x[i] = q[i-m+1]
  BY <1>8, <1>9
<1>11. Spreads(x, q, c, n, m)
  BY <1>1, <1>2, <1>10 DEF Spreads
<1> QED BY <1>11

LEMMA ListedRows ==
  ASSUME NEW q, NEW w, NEW v, Listed(q, w), q # <<>>, q[1].op = "rows", NEW c, Caching(c)
  PROVE  Listed((<<q[2]>> \o c) \o Tail(Tail(q)), v)
<1>7. PICK x : x = (<<q[2]>> \o c) \o Tail(Tail(q))
  OBVIOUS
<1>6. PICK n \in Nat, m \in Nat : Spreads(x, q, c, n, m)
  BY <1>7, SpreadIs
<1>8. /\ Len(q) = n /\ Len(c) = m /\ n >= 2 /\ q[2].op = "wipe" /\ q[2].t = q[1].t
      /\ x \in Seq(Statement) /\ Len(x) = n + m - 1 /\ x[1] = q[2]
      /\ \A i \in 2..m+1 : x[i] = c[i-1]
      /\ \A i \in m+2..n+m-1 : x[i] = q[i-m+1]
  BY <1>6 DEF Spreads
<1>1. n \in Nat /\ m \in Nat /\ Len(q) = n /\ Len(c) = m /\ n >= 1
  BY <1>6, <1>8
<1>2. n >= 2 /\ q[2].op = "wipe"
  BY <1>8
<1>9. Linked(x)
  <2>1. ASSUME NEW i \in 1..n+m-1, x[i].op \in Leaders PROVE i < n + m - 1 /\ Joined(x[i], x[i+1])
    <3>1. i # 1
      BY <1>2, <1>8, <2>1 DEF Leaders
    <3>2. CASE i \in 2..m+1
      <4>1. PICK j \in 1..m : j = i - 1 /\ x[i] = c[j]
        BY <1>8, <3>2
      <4>2. j < m /\ Joined(c[j], c[j+1])
        BY <1>1, <2>1, <4>1 DEF Caching, Linked
      <4>3. x[i+1] = c[j+1]
        BY <1>8, <4>1, <4>2
      <4> QED BY <1>1, <1>2, <4>1, <4>2, <4>3
    <3>3. CASE i \in m+2..n+m-1
      <4>1. PICK j \in 3..n : j = i - m + 1 /\ x[i] = q[j]
        BY <1>1, <1>8, <3>3
      <4>2. j < n /\ Joined(q[j], q[j+1])
        BY <1>1, <2>1, <4>1 DEF Listed, Linked
      <4>3. i + 1 \in m+2..n+m-1 /\ (i + 1) - m + 1 = j + 1
        BY <1>1, <3>3, <4>1, <4>2
      <4>4. x[i+1] = q[j+1]
        BY <1>8, <4>3
      <4> QED BY <4>1, <4>2, <4>3, <4>4
    <3> QED BY <1>1, <3>1, <3>2, <3>3
  <2>2. ASSUME NEW i \in 1..n+m-1, i > 1, x[i].op \in Followers PROVE Joined(x[i-1], x[i])
    <3>1. CASE i \in 2..m+1
      <4>1. PICK j \in 1..m : j = i - 1 /\ x[i] = c[j]
        BY <1>8, <3>1
      <4>2. j # 1
        BY <1>1, <2>2, <4>1, EmptySeq DEF Caching, Followers
      <4>3. x[i-1] = c[j-1]
        BY <1>8, <3>1, <4>1, <4>2
      <4> QED BY <1>1, <2>2, <4>1, <4>2, <4>3 DEF Caching, Linked
    <3>2. CASE i \in m+2..n+m-1
      <4>1. PICK j \in 3..n : j = i - m + 1 /\ x[i] = q[j]
        BY <1>1, <1>8, <3>2
      <4>2. Joined(q[j-1], q[j])
        BY <1>1, <2>2, <4>1 DEF Listed, Linked
      <4>3. j # 3
        BY <1>2, <4>2 DEF Joined
      <4>4. i - 1 \in m+2..n+m-1 /\ (i - 1) - m + 1 = j - 1
        BY <1>1, <3>2, <4>1, <4>3
      <4>5. x[i-1] = q[j-1]
        BY <1>8, <4>4
      <4> QED BY <4>1, <4>2, <4>5
    <3> QED BY <1>1, <2>2, <3>1, <3>2
  <2> QED BY <1>8, <2>1, <2>2 DEF Linked
<1>10. Ordered(x)
  <2>1. SUFFICES ASSUME NEW i \in 1..n+m-1, NEW j \in 1..n+m-1, i < j, InCourse(x[i]), InCourse(x[j]),
                        ~Loading(x, i + 1, j)
                 PROVE  x[i].t = x[j].t /\ Rank[x[i].op] < Rank[x[j].op]
    BY <1>8 DEF Ordered
  <2>2. \A k \in 2..m+1 : ~InCourse(x[k])
    <3>1. \A k \in 2..m+1 : k - 1 \in 1..m /\ x[k] = c[k-1]
      BY <1>8
    <3>2. \A k \in 1..m : ~InCourse(c[k])
      BY <1>1 DEF Caching, InCourse
    <3> QED BY <3>1, <3>2
  <2>3. j \in m+2..n+m-1 /\ (i = 1 \/ i \in m+2..n+m-1)
    BY <1>1, <2>1, <2>2
  <2>4. PICK b \in 3..n : b = j - m + 1 /\ x[j] = q[b]
    BY <1>1, <1>8, <2>3
  <2>5. PICK a \in 2..n : a < b /\ x[i] = q[a] /\ (i = 1 => a = 2) /\ (i # 1 => a = i - m + 1)
    BY <1>1, <1>2, <1>8, <2>1, <2>3, <2>4
  <2>6. ~Loading(q, a + 1, b)
    <3>1. ASSUME NEW k \in a+1..b, q[k].op = "load" PROVE FALSE
      <4>3. k \in Nat /\ k > a /\ k <= b /\ k >= 3 /\ i \in Nat /\ j \in Nat /\ a \in Nat /\ b \in Nat
        BY <1>1, <2>3, <2>4, <2>5
      <4>4. k + m - 1 \in m+2..n+m-1 /\ (k + m - 1) - m + 1 = k /\ k + m - 1 \in i+1..j
        BY <1>1, <2>3, <2>4, <2>5, <4>3
      <4>1. PICK h \in m+2..n+m-1 : h = k + m - 1 /\ h - m + 1 = k /\ h \in i+1..j
        BY <4>4
      <4>2. x[h] = q[k]
        BY <1>8, <4>1
      <4> QED BY <2>1, <3>1, <4>1, <4>2 DEF Loading
    <3> QED BY <3>1 DEF Loading
  <2> QED BY <1>1, <2>1, <2>4, <2>5, <2>6 DEF Listed, Ordered
<1>11. \A i \in 1..n+m-1 : \/ \E j \in 1..m : x[i] = c[j]
                           \/ \E j \in 2..n : x[i] = q[j]
  <2>1. TAKE i \in 1..n+m-1
  <2>2. CASE i = 1
    <3>1. 2 \in 2..n
      BY <1>1, <1>2
    <3>2. x[i] = q[2]
      BY <1>8, <2>2
    <3> QED BY <3>1, <3>2
  <2>3. CASE i \in 2..m+1
    BY <1>8, <2>3
  <2>4. CASE i \in m+2..n+m-1
    <3>1. i - m + 1 \in 2..n
      BY <1>1, <2>4
    <3> QED BY <1>8, <2>4, <3>1
  <2> QED BY <1>1, <2>2, <2>3, <2>4
<1>12. Paying(x, v)
  <2>1. \A j \in 1..n : q[j].op \notin Pays
    BY <1>1 DEF Listed, Paying, Pays
  <2>2. \A j \in 1..m : c[j].op \notin Pays
    BY <1>1 DEF Caching, Pays
  <2>3. ASSUME NEW i \in 1..n+m-1 PROVE x[i].op \notin Pays
    <3>1. CASE \E j \in 1..m : x[i] = c[j]
      BY <2>2, <3>1
    <3>2. CASE \E j \in 2..n : x[i] = q[j]
      <4>1. PICK j \in 2..n : x[i] = q[j]
        BY <3>2
      <4>2. j \in 1..n
        BY <1>1
      <4> QED BY <2>1, <4>1, <4>2
    <3> QED BY <1>11, <3>1, <3>2
  <2>4. 1 \in 1..n+m-1
    BY <1>1, <1>2
  <2> QED BY <1>8, <2>3, <2>4 DEF Paying
<1>13. Recounted(x)
  <2>1. SUFFICES ASSUME NEW i \in 1..n+m-1, x[i].op = "again" PROVE \E j \in i..n+m-1 : x[j].op = "clear"
    BY <1>8 DEF Recounted
  <2>2. i \in m+2..n+m-1
    <3>1. i # 1
      BY <1>2, <1>8, <2>1
    <3>2. i \in 2..m+1 => i - 1 \in 1..m /\ x[i] = c[i-1]
      BY <1>8
    <3>3. i \notin 2..m+1
      BY <1>1, <2>1, <3>2 DEF Caching
    <3> QED BY <1>1, <3>1, <3>3
  <2>3. PICK a \in 3..n : a = i - m + 1 /\ x[i] = q[a]
    BY <1>1, <1>8, <2>2
  <2>4. PICK b \in a..n : q[b].op = "clear"
    BY <1>1, <2>1, <2>3 DEF Listed, Recounted
  <2>5. PICK j \in m+2..n+m-1 : j = b + m - 1 /\ j - m + 1 = b /\ j \in i..n+m-1
    BY <1>1, <2>2, <2>3, <2>4
  <2>6. x[j] = q[b]
    BY <1>8, <2>5
  <2> QED BY <2>4, <2>5, <2>6
<1>14. Prepared(x)
  <2>1. \A j \in 1..n : q[j].op \notin Early
    BY <1>1 DEF Listed, Prepared, InCourse
  <2>2. \A j \in 1..m : c[j].op \notin Early
    BY <1>1 DEF Caching, Early
  <2>3. ASSUME NEW i \in 1..n+m-1 PROVE x[i].op \notin Early
    <3>1. CASE \E j \in 1..m : x[i] = c[j]
      BY <2>2, <3>1
    <3>2. CASE \E j \in 2..n : x[i] = q[j]
      <4>1. PICK j \in 2..n : x[i] = q[j]
        BY <3>2
      <4>2. j \in 1..n
        BY <1>1
      <4> QED BY <2>1, <4>1, <4>2
    <3> QED BY <1>11, <3>1, <3>2
  <2> QED BY <1>8, <2>3 DEF Prepared
<1>16. EarlyFirst(x)
  <2>1. \A j \in 1..n : q[j].op \notin Early
    BY <1>1 DEF Listed, Prepared, InCourse
  <2>2. \A j \in 1..m : c[j].op \notin Early
    BY <1>1 DEF Caching, Early
  <2>3. ASSUME NEW i \in 1..n+m-1 PROVE x[i].op \notin Early
    <3>1. CASE \E j \in 1..m : x[i] = c[j]
      BY <2>2, <3>1
    <3>2. CASE \E j \in 2..n : x[i] = q[j]
      <4>1. PICK j \in 2..n : x[i] = q[j]
        BY <3>2
      <4>2. j \in 1..n
        BY <1>1
      <4> QED BY <2>1, <4>1, <4>2
    <3> QED BY <1>11, <3>1, <3>2
  <2> QED BY <1>8, <2>3 DEF EarlyFirst
<1>17. Completed(x)
  <2>1. SUFFICES ASSUME NEW i \in 1..n+m-1, x[i].op \in {"load", "rows", "wipe"}
                 PROVE  \E j \in i..n+m-1 : x[j].op \in {"award", "unwin"} /\ x[j].t = x[i].t
    BY <1>8 DEF Completed
  <2>2. i = 1 \/ i \in m+2..n+m-1
    <3>2. i \in 2..m+1 => i - 1 \in 1..m /\ x[i] = c[i-1]
      BY <1>8
    <3>3. i \notin 2..m+1
      BY <1>1, <2>1, <3>2 DEF Caching
    <3> QED BY <1>1, <3>3
  <2>3. PICK a \in 2..n : x[i] = q[a] /\ (i = 1 => a = 2) /\ (i # 1 => a = i - m + 1)
    BY <1>1, <1>2, <1>8, <2>2
  <2>4. PICK b \in a..n : q[b].op \in {"award", "unwin"} /\ q[b].t = q[a].t
    BY <1>1, <2>1, <2>3 DEF Listed, Completed
  <2>7. b # 2
    BY <1>2, <2>4
  <2>5. PICK j \in m+2..n+m-1 : j = b + m - 1 /\ j - m + 1 = b /\ j \in i..n+m-1
    BY <1>1, <2>2, <2>3, <2>4, <2>7
  <2>6. x[j] = q[b]
    BY <1>8, <2>5
  <2> QED BY <2>3, <2>4, <2>5, <2>6
<1>15. Listed(x, v)
  BY <1>8, <1>9, <1>10, <1>12, <1>13, <1>14, <1>16, <1>17 DEF Listed
<1> QED BY <1>7, <1>15

LEMMA PaymentIs ==
  ASSUME NEW t \in Tour, NEW w \in Side
  PROVE  /\ Payment(w, t) \in Seq(Statement) /\ Len(Payment(w, t)) = 8
         /\ Payment(w, t)[1] = St("rate", t, w) /\ Payment(w, t)[2] = St("rate", t, Loser(w, t))
         /\ Payment(w, t)[3] = St("insert", t, w) /\ Payment(w, t)[4] = St("insert", t, Loser(w, t))
         /\ Payment(w, t)[5] = St("sum", NoTour, w) /\ Payment(w, t)[6] = St("write", NoTour, w)
         /\ Payment(w, t)[7] = St("sum", NoTour, Loser(w, t))
         /\ Payment(w, t)[8] = St("write", NoTour, Loser(w, t))
<1>1. Loser(w, t) \in Side
  BY TwoSides
<1>2. PICK l : l = Loser(w, t)
  OBVIOUS
<1>3. /\ St("rate", t, w) \in Statement /\ St("rate", t, l) \in Statement
      /\ St("insert", t, w) \in Statement /\ St("insert", t, l) \in Statement
      /\ St("sum", NoTour, w) \in Statement /\ St("write", NoTour, w) \in Statement
      /\ St("sum", NoTour, l) \in Statement /\ St("write", NoTour, l) \in Statement
  BY <1>1, <1>2 DEF St, Statement, Pays
<1>4. Payment(w, t) = <<St("rate", t, w), St("rate", t, l), St("insert", t, w), St("insert", t, l),
        St("sum", NoTour, w), St("write", NoTour, w), St("sum", NoTour, l), St("write", NoTour, l)>>
  BY <1>2 DEF Payment
<1> QED BY <1>2, <1>3, <1>4

LEMMA PaymentOf ==
  ASSUME NEW t \in Tour, NEW w \in Side, NEW r \in Seq(Statement)
  PROVE  <<St("rate", t, w), St("rate", t, Loser(w, t)), St("insert", t, w), St("insert", t, Loser(w, t))>>
           \o Cached(w) \o Cached(Loser(w, t)) \o r = Payment(w, t) \o r
<1>1. PICK l \in Side : l = Loser(w, t)
  BY TwoSides
<1>2. PICK a, b, c, d, e, f, g, h \in Statement :
        /\ a = St("rate", t, w) /\ b = St("rate", t, l) /\ c = St("insert", t, w)
        /\ d = St("insert", t, l) /\ e = St("sum", NoTour, w) /\ f = St("write", NoTour, w)
        /\ g = St("sum", NoTour, l) /\ h = St("write", NoTour, l)
  BY <1>1 DEF St, Statement, Pays
<1>3. PICK p, q, u, v, z : /\ p = <<a, b, c, d>> /\ q = <<e, f>> /\ u = <<g, h>>
                           /\ v = <<a, b, c, d, e, f>> /\ z = <<a, b, c, d, e, f, g, h>>
  OBVIOUS
<1>4. p \in Seq(Statement) /\ q \in Seq(Statement) /\ u \in Seq(Statement)
      /\ v \in Seq(Statement) /\ z \in Seq(Statement)
  BY <1>3
<1>5. Len(p) = 4 /\ Len(q) = 2 /\ Len(u) = 2 /\ Len(v) = 6 /\ Len(z) = 8
  BY <1>3
<1>6. p \o q = v
  <2>1. \A i \in 1..6 : v[i] = IF i <= 4 THEN p[i] ELSE q[i - 4]
    BY <1>3
  <2>2. Len(v) = Len(p) + Len(q) /\ \A i \in 1..Len(v) : v[i] = IF i <= Len(p) THEN p[i] ELSE q[i - Len(p)]
    BY <1>5, <2>1
  <2> QED BY <1>4, <2>2, SameLists
<1>7. v \o u = z
  <2>1. \A i \in 1..8 : z[i] = IF i <= 6 THEN v[i] ELSE u[i - 6]
    BY <1>3
  <2>2. Len(z) = Len(v) + Len(u) /\ \A i \in 1..Len(z) : z[i] = IF i <= Len(v) THEN v[i] ELSE u[i - Len(v)]
    BY <1>5, <2>1
  <2> QED BY <1>4, <2>2, SameLists
<1>8. Payment(w, t) = z
  BY <1>1, <1>2, <1>3 DEF Payment
<1>9. Cached(w) = q /\ Cached(l) = u
  BY <1>2, <1>3 DEF Cached
<1> QED BY <1>1, <1>2, <1>3, <1>6, <1>7, <1>8, <1>9

LEMMA ListedAward ==
  ASSUME NEW q, NEW v, Listed(q, v), q # <<>>, q[1].op = "award", NEW w \in Side
  PROVE  Listed(Payment(w, q[1].t) \o Tail(q), w)
<1>1. PICK n \in Nat : Len(q) = n /\ n >= 1
  BY EmptySeq, LenProperties DEF Listed
<1>2. PICK t \in Tour : t = q[1].t
  <2>1. q[1] \in Statement
    BY <1>1, ElementOfSeq DEF Listed
  <2> QED BY <2>1 DEF Statement, Pays, AboutAll
<1>3. PICK y : y = Tail(q)
  OBVIOUS
<1>4. y \in Seq(Statement) /\ Len(y) = n - 1 /\ \A i \in 1..n-1 : y[i] = q[i+1]
  BY <1>1, <1>3, HeadTailProperties DEF Listed
<1>5. PICK P, l : P = Payment(w, t) /\ l = Loser(w, t)
  OBVIOUS
<1>6. /\ P \in Seq(Statement) /\ Len(P) = 8 /\ P[1] = St("rate", t, w) /\ P[2] = St("rate", t, l)
      /\ P[3] = St("insert", t, w) /\ P[4] = St("insert", t, l)
      /\ P[5] = St("sum", NoTour, w) /\ P[6] = St("write", NoTour, w)
      /\ P[7] = St("sum", NoTour, l) /\ P[8] = St("write", NoTour, l)
  BY <1>5, PaymentIs
<1>7. /\ P[1].op = "rate" /\ P[2].op = "rate" /\ P[3].op = "insert" /\ P[4].op = "insert"
      /\ P[5].op = "sum" /\ P[6].op = "write" /\ P[7].op = "sum" /\ P[8].op = "write"
      /\ P[6].s = P[5].s /\ P[8].s = P[7].s /\ P[1].t = t
  BY <1>6 DEF St
<1>8. PICK x : x = P \o y
  OBVIOUS
<1>9. /\ x \in Seq(Statement) /\ Len(x) = n + 7 /\ \A i \in 1..8 : x[i] = P[i]
      /\ \A i \in 9..n+7 : x[i] = q[i-7]
  <2>1. x \in Seq(Statement) /\ Len(x) = Len(P) + Len(y)
        /\ \A i \in 1..Len(P) + Len(y) : x[i] = IF i <= Len(P) THEN P[i] ELSE y[i - Len(P)]
    BY <1>4, <1>6, <1>8, ConcatProperties
  <2>2. ASSUME NEW i \in 9..n+7 PROVE x[i] = q[i-7]
    <3>1. i \in 1..Len(P) + Len(y) /\ ~(i <= Len(P)) /\ Len(P) = 8
      BY <1>4, <1>6
    <3>2. x[i] = y[i-8] /\ i - 8 \in 1..n-1 /\ (i - 8) + 1 = i - 7
      BY <2>1, <3>1
    <3> QED BY <1>4, <3>2
  <2> QED BY <1>4, <1>6, <2>1, <2>2
<1>10. \A i \in 9..n+7 : i - 7 \in 2..n /\ x[i] = q[i-7]
  BY <1>9
<1>11. Linked(x)
  <2>1. ASSUME NEW i \in 1..n+7, x[i].op \in Leaders PROVE i < n + 7 /\ Joined(x[i], x[i+1])
    <3>1. CASE i \in 9..n+7
      <4>1. PICK j \in 2..n : j = i - 7 /\ x[i] = q[j]
        BY <1>10, <3>1
      <4>2. j < n /\ Joined(q[j], q[j+1])
        BY <1>1, <2>1, <4>1 DEF Listed, Linked
      <4>3. i + 1 \in 9..n+7 /\ (i + 1) - 7 = j + 1
        BY <3>1, <4>1, <4>2
      <4>4. x[i+1] = q[j+1]
        BY <1>10, <4>3
      <4> QED BY <4>1, <4>2, <4>3, <4>4
    <3>2. CASE i \in 1..8
      <4>1. i = 5 \/ i = 7
        BY <1>7, <1>9, <2>1, <3>2 DEF Leaders
      <4>2. x[i] = P[i] /\ x[i+1] = P[i+1]
        BY <1>9, <4>1
      <4>3. Joined(P[i], P[i+1])
        BY <1>7, <4>1 DEF Joined
      <4> QED BY <1>1, <4>1, <4>2, <4>3
    <3> QED BY <1>1, <3>1, <3>2
  <2>2. ASSUME NEW i \in 1..n+7, i > 1, x[i].op \in Followers PROVE Joined(x[i-1], x[i])
    <3>1. CASE i \in 9..n+7
      <4>1. PICK j \in 2..n : j = i - 7 /\ x[i] = q[j]
        BY <1>10, <3>1
      <4>2. Joined(q[j-1], q[j])
        BY <1>1, <2>2, <4>1 DEF Listed, Linked
      <4>3. j # 2
        BY <4>2 DEF Joined
      <4>4. i - 1 \in 9..n+7 /\ (i - 1) - 7 = j - 1
        BY <3>1, <4>1, <4>3
      <4>5. x[i-1] = q[j-1]
        BY <1>10, <4>4
      <4> QED BY <4>1, <4>2, <4>5
    <3>2. CASE i \in 1..8
      <4>1. i = 6 \/ i = 8
        BY <1>7, <1>9, <2>2, <3>2 DEF Followers
      <4>2. x[i] = P[i] /\ x[i-1] = P[i-1]
        BY <1>9, <4>1
      <4>3. Joined(P[i-1], P[i])
        BY <1>7, <4>1 DEF Joined
      <4> QED BY <4>2, <4>3
    <3> QED BY <1>1, <3>1, <3>2
  <2> QED BY <1>9, <2>1, <2>2 DEF Linked
<1>12. \A i \in 1..8 : ~InCourse(x[i]) /\ x[i].op \notin Early \cup {"again"}
  <2>1. \A i \in 1..8 : P[i].op \in {"rate", "insert", "sum", "write"}
    BY <1>7
  <2>2. \A i \in 1..8 : x[i].op \in {"rate", "insert", "sum", "write"}
    BY <1>9, <2>1
  <2> QED BY <2>2 DEF InCourse, Early
<1>13. Ordered(x)
  <2>1. SUFFICES ASSUME NEW i \in 1..n+7, NEW j \in 1..n+7, i < j, InCourse(x[i]), InCourse(x[j]),
                        ~Loading(x, i + 1, j)
                 PROVE  x[i].t = x[j].t /\ Rank[x[i].op] < Rank[x[j].op]
    BY <1>9 DEF Ordered
  <2>2. i \in 9..n+7 /\ j \in 9..n+7
    BY <1>12, <2>1
  <2>3. PICK a \in 2..n, b \in 2..n : a = i - 7 /\ b = j - 7 /\ x[i] = q[a] /\ x[j] = q[b]
    BY <1>10, <2>2
  <2>4. ~Loading(q, a + 1, b)
    <3>1. ASSUME NEW k \in a+1..b, q[k].op = "load" PROVE FALSE
      <4>1. k + 7 \in i+1..j /\ k + 7 \in 9..n+7 /\ (k + 7) - 7 = k
        BY <1>1, <2>2, <2>3
      <4>2. x[k+7] = q[k]
        BY <1>10, <4>1
      <4> QED BY <2>1, <3>1, <4>1, <4>2 DEF Loading
    <3> QED BY <3>1 DEF Loading
  <2> QED BY <1>1, <2>1, <2>3, <2>4 DEF Listed, Ordered
<1>14. PaidFrom(x, w, 0)
  <2>1. x[1].t = t
    BY <1>7, <1>9
  <2>2. \A i \in 1..8-0 : x[i] = Payment(w, x[1].t)[i+0]
    BY <1>5, <1>9, <2>1
  <2>3. \A i \in 1..n : q[i].op \notin Pays
    BY <1>1 DEF Listed, Paying, Pays
  <2>4. \A i \in 1..n+7 : x[i].op \in Pays => i <= 4
    <3>1. SUFFICES ASSUME NEW i \in 1..n+7, x[i].op \in Pays PROVE i <= 4
      OBVIOUS
    <3>2. i \notin 9..n+7
      BY <1>10, <2>3, <3>1
    <3> QED BY <1>1, <1>7, <1>9, <3>1, <3>2 DEF Pays
  <2>5. ASSUME NEW i \in 1..n+7, InCourse(x[i]) PROVE Loading(x, 1, i)
    <3>1. i \in 9..n+7
      BY <1>12, <2>5
    <3>2. PICK b \in 2..n : b = i - 7 /\ x[i] = q[b]
      BY <1>10, <3>1
    <3>3. InCourse(q[1]) /\ InCourse(q[b]) /\ 1 \in 1..n
      BY <1>1, <2>5, <3>2 DEF InCourse
    <3>4. ~(Rank[q[1].op] < Rank[q[b].op])
      BY <3>3 DEF InCourse, Rank
    <3>5. Loading(q, 1 + 1, b)
      BY <1>1, <3>2, <3>3, <3>4 DEF Listed, Ordered
    <3>6. PICK k \in 2..b : q[k].op = "load"
      BY <3>5 DEF Loading
    <3>7. k + 7 \in 9..n+7 /\ k + 7 \in 1..i /\ (k + 7) - 7 = k
      BY <3>1, <3>2
    <3>8. x[k+7] = q[k]
      BY <1>10, <3>7
    <3> QED BY <3>6, <3>7, <3>8 DEF Loading
  <2> QED BY <1>1, <1>9, <2>2, <2>4, <2>5 DEF PaidFrom
<1>15. Paying(x, w)
  <2>1. x[1].op \in Pays
    BY <1>7, <1>9 DEF Pays
  <2> QED BY <1>14, <2>1 DEF Paying
<1>16. Recounted(x)
  <2>1. SUFFICES ASSUME NEW i \in 1..n+7, x[i].op = "again" PROVE \E j \in i..n+7 : x[j].op = "clear"
    BY <1>9 DEF Recounted
  <2>2. i \in 9..n+7
    BY <1>12, <2>1
  <2>3. PICK a \in 2..n : a = i - 7 /\ x[i] = q[a]
    BY <1>10, <2>2
  <2>4. PICK b \in a..n : q[b].op = "clear"
    BY <1>1, <2>1, <2>3 DEF Listed, Recounted
  <2>5. b + 7 \in 9..n+7 /\ b + 7 \in i..n+7 /\ (b + 7) - 7 = b
    BY <2>2, <2>3
  <2>6. x[b+7] = q[b]
    BY <1>10, <2>5
  <2> QED BY <2>4, <2>5, <2>6
<1>17. Prepared(x)
  <2>1. \A j \in 1..n : q[j].op \notin Early
    BY <1>1 DEF Listed, Prepared, InCourse
  <2>2. \A i \in 1..n+7 : x[i].op \notin Early
    <3>1. TAKE i \in 1..n+7
    <3>2. CASE i \in 9..n+7
      BY <1>1, <1>10, <2>1, <3>2
    <3>3. CASE i \in 1..8
      BY <1>12, <3>3
    <3> QED BY <1>1, <3>2, <3>3
  <2> QED BY <1>9, <2>2 DEF Prepared
<1>19. EarlyFirst(x)
  <2>1. \A j \in 1..n : q[j].op \notin Early
    BY <1>1 DEF Listed, Prepared, InCourse
  <2>2. \A i \in 1..n+7 : x[i].op \notin Early
    <3>1. TAKE i \in 1..n+7
    <3>2. CASE i \in 9..n+7
      BY <1>1, <1>10, <2>1, <3>2
    <3>3. CASE i \in 1..8
      BY <1>12, <3>3
    <3> QED BY <1>1, <3>2, <3>3
  <2> QED BY <1>9, <2>2 DEF EarlyFirst
<1>20. Completed(x)
  <2>1. SUFFICES ASSUME NEW i \in 1..n+7, x[i].op \in {"load", "rows", "wipe"}
                 PROVE  \E j \in i..n+7 : x[j].op \in {"award", "unwin"} /\ x[j].t = x[i].t
    BY <1>9 DEF Completed
  <2>2. i \in 9..n+7
    BY <1>12, <2>1 DEF InCourse
  <2>3. PICK a \in 2..n : a = i - 7 /\ x[i] = q[a]
    BY <1>10, <2>2
  <2>4. PICK b \in a..n : q[b].op \in {"award", "unwin"} /\ q[b].t = q[a].t
    BY <1>1, <2>1, <2>3 DEF Listed, Completed
  <2>5. b + 7 \in 9..n+7 /\ b + 7 \in i..n+7 /\ (b + 7) - 7 = b
    BY <2>2, <2>3
  <2>6. x[b+7] = q[b]
    BY <1>10, <2>5
  <2> QED BY <2>3, <2>4, <2>5, <2>6
<1>18. Listed(x, w)
  BY <1>9, <1>11, <1>13, <1>15, <1>16, <1>17, <1>19, <1>20 DEF Listed
<1> QED BY <1>2, <1>3, <1>5, <1>8, <1>18

Written(q, s) == \E i \in 1..Len(q) : q[i].op = "write" /\ q[i].s = s

\* The cache of those who had a row of a match.
LEMMA CachingAll ==
  ASSUME NEW had \in Seq(Side)
  PROVE  /\ Caching(FlattenSeq([i \in 1..Len(had) |-> Cached(had[i])]))
         /\ \A i \in 1..Len(had) : Written(FlattenSeq([k \in 1..Len(had) |-> Cached(had[k])]), had[i])
<1>1. PICK n \in Nat : Len(had) = n
  BY LenProperties
<1>2. PICK b : b = [i \in 1..Len(had) |-> Cached(had[i])]
  OBVIOUS
<1>3. \A i \in 1..n : had[i] \in Side
  BY <1>1, ElementOfSeq
<1>4. ASSUME NEW i \in 1..n
      PROVE  /\ b[i] \in Seq(Statement) /\ Len(b[i]) = 2 /\ b[i][1] \in Statement /\ b[i][2] \in Statement
             /\ b[i][1].op = "sum" /\ b[i][1].s = had[i] /\ b[i][2].op = "write" /\ b[i][2].s = had[i]
  <2>1. b[i] = <<St("sum", NoTour, had[i]), St("write", NoTour, had[i])>>
    BY <1>1, <1>2 DEF Cached
  <2>2. St("sum", NoTour, had[i]) \in Statement /\ St("write", NoTour, had[i]) \in Statement
    BY <1>3 DEF St, Statement
  <2>3. PICK x \in Statement, y \in Statement : x = St("sum", NoTour, had[i]) /\ y = St("write", NoTour, had[i])
    BY <2>2
  <2>4. x.op = "sum" /\ x.s = had[i] /\ y.op = "write" /\ y.s = had[i]
    BY <2>3 DEF St
  <2>5. b[i] = <<x, y>>
    BY <2>1, <2>3
  <2> QED BY <2>4, <2>5
<1>5. b \in Seq(Seq(Statement)) /\ Len(b) = n
  <2>1. b \in [1..n -> Seq(Statement)]
    BY <1>1, <1>2, <1>4
  <2> QED BY <2>1
<1>6. PICK c : c = FlattenSeq(b)
  OBVIOUS
<1>7. c \in Seq(Statement) /\ Slices(c, b, n)
  BY <1>5, <1>6, Flattened
<1>8. PICK m \in Nat : Len(c) = m
  BY <1>7, LenProperties
<1>9. ASSUME NEW k \in 1..m
      PROVE  \E o \in Nat : /\ o < k /\ k <= o + 2 /\ o + 2 <= m
                            /\ c[o+1].op = "sum" /\ c[o+2].op = "write" /\ c[o+2].s = c[o+1].s
  <2>1. PICK i \in 1..n, o \in 0..m : Slice(c, b[i], o) /\ o < k /\ k <= o + Len(b[i])
    BY <1>7, <1>8 DEF Slices
  <2>2. o + 2 <= m /\ \A j \in 1..2 : c[o + j] = b[i][j]
    BY <1>4, <1>8, <2>1 DEF Slice
  <2>3. c[o+1] = b[i][1] /\ c[o+2] = b[i][2]
    BY <2>2
  <2>4. o \in Nat /\ o < k /\ k <= o + 2 /\ o + 2 <= m
    <3>1. Len(b[i]) = 2
      BY <1>4
    <3>2. o < k /\ k <= o + Len(b[i])
      BY <2>1
    <3>3. o + 2 <= m
      BY <2>2
    <3> QED BY <3>1, <3>2, <3>3
  <2>5. c[o+1].op = "sum" /\ c[o+2].op = "write" /\ c[o+2].s = c[o+1].s
    BY <1>4, <2>3
  <2> QED BY <2>4, <2>5
<1>10. Linked(c)
  <2>1. ASSUME NEW k \in 1..m, c[k].op \in Leaders PROVE k < m /\ Joined(c[k], c[k+1])
    <3>1. PICK o \in Nat : /\ o < k /\ k <= o + 2 /\ o + 2 <= m
                           /\ c[o+1].op = "sum" /\ c[o+2].op = "write" /\ c[o+2].s = c[o+1].s
      BY <1>9
    <3>2. k # o + 2
      BY <2>1, <3>1 DEF Leaders
    <3>3. k = o + 1 /\ k + 1 = o + 2
      BY <3>1, <3>2
    <3> QED BY <3>1, <3>3 DEF Joined
  <2>2. ASSUME NEW k \in 1..m, k > 1, c[k].op \in Followers PROVE Joined(c[k-1], c[k])
    <3>1. PICK o \in Nat : /\ o < k /\ k <= o + 2 /\ o + 2 <= m
                           /\ c[o+1].op = "sum" /\ c[o+2].op = "write" /\ c[o+2].s = c[o+1].s
      BY <1>9
    <3>2. k # o + 1
      BY <2>2, <3>1 DEF Followers
    <3>3. k = o + 2 /\ k - 1 = o + 1
      BY <3>1, <3>2
    <3> QED BY <3>1, <3>3 DEF Joined
  <2> QED BY <1>8, <2>1, <2>2 DEF Linked
<1>11. c # <<>> => c[1].op = "sum"
  <2>1. SUFFICES ASSUME c # <<>> PROVE c[1].op = "sum"
    OBVIOUS
  <2>2. 1 \in 1..m
    BY <1>7, <1>8, <2>1, EmptySeq
  <2>3. PICK o \in Nat : o < 1 /\ c[o+1].op = "sum"
    BY <1>9, <2>2
  <2> QED BY <2>3
<1>12. \A k \in 1..m : c[k].op \in {"sum", "write"}
  <2>1. TAKE k \in 1..m
  <2>2. PICK o \in Nat : o < k /\ k <= o + 2 /\ c[o+1].op = "sum" /\ c[o+2].op = "write"
    BY <1>9
  <2>3. k = o + 1 \/ k = o + 2
    BY <2>2
  <2> QED BY <2>2, <2>3
<1>13. ASSUME NEW i \in 1..n PROVE Written(c, had[i])
  <2>1. PICK o \in 0..m : Slice(c, b[i], o)
    BY <1>7, <1>8 DEF Slices
  <2>2. o + 2 <= m /\ \A j \in 1..2 : c[o + j] = b[i][j]
    BY <1>4, <1>8, <2>1 DEF Slice
  <2>3. o + 2 \in 1..m /\ c[o+2] = b[i][2]
    BY <2>2
  <2> QED BY <1>4, <1>8, <2>3 DEF Written
<1>14. Caching(c)
  BY <1>7, <1>8, <1>10, <1>11, <1>12 DEF Caching
<1> QED BY <1>1, <1>2, <1>6, <1>13, <1>14

-------------------------------------------------------------------------------
(* The list of a recomputation.                                            *)

Blocks(list) ==
  [i \in 1..Len(list) |->
    IF list[i].t # NoTour THEN Apply(list[i].t)
    ELSE <<[op |-> "again", t |-> NoTour, s |-> list[i]]>>]

LEMMA ApplyIs ==
  ASSUME NEW t \in Tour
  PROVE  /\ Apply(t) \in Seq(Statement) /\ Len(Apply(t)) = 4
         /\ Apply(t)[1] = St("load", t, NoSide) /\ Apply(t)[2] = St("rows", t, NoSide)
         /\ Apply(t)[3] = St("wipe", t, NoSide) /\ Apply(t)[4] = St("award", t, NoSide)
<1>1. PICK l \in Statement, r \in Statement, u \in Statement, a \in Statement :
        /\ l = St("load", t, NoSide) /\ r = St("rows", t, NoSide)
        /\ u = St("wipe", t, NoSide) /\ a = St("award", t, NoSide)
  BY DEF St, Statement, AboutMatch
<1>2. PICK p, q, v, x, z : p = <<l>> /\ q = <<r, u>> /\ v = <<a>> /\ x = <<l, r, u>> /\ z = <<l, r, u, a>>
  OBVIOUS
<1>3. Apply(t) = (p \o q) \o v
  BY <1>1, <1>2 DEF Apply, Revert
<1>4. p \in Seq(Statement) /\ q \in Seq(Statement) /\ v \in Seq(Statement) /\ x \in Seq(Statement) /\ z \in Seq(Statement)
  BY <1>2
<1>5. Len(p) = 1 /\ Len(q) = 2 /\ Len(v) = 1 /\ Len(x) = 3 /\ Len(z) = 4
  BY <1>2
<1>6. p \o q = x
  <2>1. \A i \in 1..3 : x[i] = IF i <= 1 THEN p[i] ELSE q[i - 1]
    BY <1>2
  <2>2. Len(x) = Len(p) + Len(q) /\ \A i \in 1..Len(x) : x[i] = IF i <= Len(p) THEN p[i] ELSE q[i - Len(p)]
    BY <1>5, <2>1
  <2> QED BY <1>4, <2>2, SameLists
<1>7. x \o v = z
  <2>1. \A i \in 1..4 : z[i] = IF i <= 3 THEN x[i] ELSE v[i - 3]
    BY <1>2
  <2>2. Len(z) = Len(x) + Len(v) /\ \A i \in 1..Len(z) : z[i] = IF i <= Len(x) THEN x[i] ELSE v[i - Len(x)]
    BY <1>5, <2>1
  <2> QED BY <1>4, <2>2, SameLists
<1>8. Apply(t) = z
  BY <1>3, <1>6, <1>7
<1> QED BY <1>1, <1>2, <1>4, <1>5, <1>8

\* A recomputation: what is counted again, then the cache, then the patches.
Counts4(c, n) == /\ c[n+1].op = "clear" /\ c[n+2].op = "fill" /\ c[n+3].op = "teams" /\ c[n+4].op = "patches"
InBlock(c, k, n, T) ==
  \/ c[k].op = "again"
  \/ \E o \in Nat, t \in T : /\ o < k /\ k <= o + 4 /\ o + 4 <= n
                             /\ c[o+1] = St("load", t, NoSide) /\ c[o+2] = St("rows", t, NoSide)
                             /\ c[o+3] = St("wipe", t, NoSide) /\ c[o+4] = St("award", t, NoSide)

LEMMA CountingIs ==
  ASSUME NEW list \in Seq(UNION {[at : Nat, t : Tour, s : {NoSide}, season : Seasons], Event})
  PROVE  \E n \in Nat :
           /\ Counting(list) \in Seq(Statement) /\ Len(Counting(list)) = n + 4
           /\ Counts4(Counting(list), n)
           /\ \A k \in 1..n : InBlock(Counting(list), k, n, {list[i].t : i \in 1..Len(list)} \cap Tour)
           /\ \A i \in 1..Len(list) : list[i].t \in Tour =>
                \E k \in 1..n : Counting(list)[k].op = "load" /\ Counting(list)[k].t = list[i].t
<1>1. PICK m \in Nat : Len(list) = m
  BY LenProperties
<1>2. \A i \in 1..m : \/ list[i] \in [at : Nat, t : Tour, s : {NoSide}, season : Seasons]
                      \/ list[i] \in Event
  BY <1>1, ElementOfSeq
<1>3. PICK b : b = Blocks(list)
  OBVIOUS
<1>4. ASSUME NEW i \in 1..m
      PROVE  b[i] \in Seq(Statement)
             /\ \/ /\ list[i].t \in Tour /\ b[i] = Apply(list[i].t)
                \/ /\ list[i].t \notin Tour /\ Len(b[i]) = 1 /\ b[i][1].op = "again"
  <2>1. CASE list[i] \in [at : Nat, t : Tour, s : {NoSide}, season : Seasons]
    <3>1. list[i].t \in Tour /\ list[i].t # NoTour
      BY <2>1, RatingAssumption
    <3>2. b[i] = Apply(list[i].t)
      BY <1>1, <1>3, <3>1 DEF Blocks
    <3> QED BY <3>1, <3>2, ApplyIs
  <2>2. CASE list[i] \in Event
    <3>1. list[i].t = NoTour /\ list[i].t \notin Tour
      BY <2>2, RatingAssumption DEF Event
    <3>2. PICK e : e = [op |-> "again", t |-> NoTour, s |-> list[i]]
      OBVIOUS
    <3>3. b[i] = <<e>>
      BY <1>1, <1>3, <3>1, <3>2 DEF Blocks
    <3>4. e \in Statement /\ e.op = "again"
      BY <2>2, <3>2 DEF Statement
    <3> QED BY <3>1, <3>3, <3>4
  <2> QED BY <1>2, <2>1, <2>2
<1>5. b \in Seq(Seq(Statement)) /\ Len(b) = m
  <2>1. b \in [1..m -> Seq(Statement)]
    BY <1>1, <1>3, <1>4 DEF Blocks
  <2> QED BY <2>1
<1>6. PICK f : f = FlattenSeq(b)
  OBVIOUS
<1>7. f \in Seq(Statement) /\ Slices(f, b, m)
  BY <1>5, <1>6, Flattened
<1>8. PICK n \in Nat : Len(f) = n
  BY <1>7, LenProperties
<1>9. PICK c1, c2, c3, c4 \in Statement :
        /\ c1 = St("clear", NoTour, NoSide) /\ c2 = St("fill", NoTour, NoSide)
        /\ c3 = St("teams", NoTour, NoSide) /\ c4 = St("patches", NoTour, NoSide)
  BY DEF St, Statement, AboutAll
<1>10. PICK r, v : r = <<c1, c2, c3>> /\ v = <<c4>>
  OBVIOUS
<1>11. /\ r \in Seq(Statement) /\ Len(r) = 3 /\ r[1] = c1 /\ r[2] = c2 /\ r[3] = c3
       /\ v \in Seq(Statement) /\ Len(v) = 1 /\ v[1] = c4
  BY <1>10
<1>12. PICK g : g = f \o r
  OBVIOUS
<1>13. /\ g \in Seq(Statement) /\ Len(g) = n + 3
       /\ \A i \in 1..n+3 : g[i] = IF i <= n THEN f[i] ELSE r[i - n]
  <2>1. g \in Seq(Statement) /\ Len(g) = Len(f) + Len(r)
        /\ \A i \in 1..Len(f) + Len(r) : g[i] = IF i <= Len(f) THEN f[i] ELSE r[i - Len(f)]
    BY <1>7, <1>11, <1>12, ConcatProperties
  <2>2. Len(f) = n /\ Len(r) = 3
    BY <1>8, <1>11
  <2> QED BY <2>1, <2>2
<1>14. PICK c : c = g \o v
  OBVIOUS
<1>15. /\ c \in Seq(Statement) /\ Len(c) = n + 4
       /\ \A i \in 1..n+4 : c[i] = IF i <= n + 3 THEN g[i] ELSE v[i - (n + 3)]
  <2>1. c \in Seq(Statement) /\ Len(c) = Len(g) + Len(v)
        /\ \A i \in 1..Len(g) + Len(v) : c[i] = IF i <= Len(g) THEN g[i] ELSE v[i - Len(g)]
    BY <1>11, <1>13, <1>14, ConcatProperties
  <2>2. Len(g) = n + 3 /\ Len(v) = 1
    BY <1>11, <1>13
  <2> QED BY <2>1, <2>2
<1>16. c = Counting(list)
  <2>1. Refresh = r /\ <<St("patches", NoTour, NoSide)>> = v
    BY <1>9, <1>10 DEF Refresh
  <2>2. f = FlattenSeq(Blocks(list))
    BY <1>3, <1>6
  <2> QED BY <1>12, <1>14, <2>1, <2>2 DEF Counting, Blocks
<1>17. \A i \in 1..n : c[i] = f[i]
  BY <1>13, <1>15
<1>18. Counts4(c, n)
  <2>1. c[n+1] = r[1] /\ c[n+2] = r[2] /\ c[n+3] = r[3] /\ c[n+4] = v[1]
    <3>1. n+1 \in 1..n+3 /\ n+2 \in 1..n+3 /\ n+3 \in 1..n+3 /\ n+4 \in 1..n+4
      OBVIOUS
    <3>3. ~(n+1 <= n) /\ ~(n+2 <= n) /\ ~(n+3 <= n) /\ (n+1) - n = 1 /\ (n+2) - n = 2 /\ (n+3) - n = 3
      OBVIOUS
    <3>2. g[n+1] = r[1] /\ g[n+2] = r[2] /\ g[n+3] = r[3]
      BY <1>13, <3>1, <3>3
    <3> QED BY <1>15, <3>1, <3>2
  <2>2. c1.op = "clear" /\ c2.op = "fill" /\ c3.op = "teams" /\ c4.op = "patches"
    BY <1>9 DEF St
  <2> QED BY <1>11, <2>1, <2>2 DEF Counts4
<1>19. ASSUME NEW i \in 1..m, NEW o \in 0..n, Slice(f, b[i], o), list[i].t \in Tour
       PROVE  /\ o + 4 <= n /\ Len(b[i]) = 4
              /\ c[o+1] = St("load", list[i].t, NoSide) /\ c[o+2] = St("rows", list[i].t, NoSide)
              /\ c[o+3] = St("wipe", list[i].t, NoSide) /\ c[o+4] = St("award", list[i].t, NoSide)
  <2>1. b[i] = Apply(list[i].t)
    BY <1>4, <1>19
  <2>2. PICK a : a = b[i]
    OBVIOUS
  <2>3. /\ Len(a) = 4
        /\ a[1] = St("load", list[i].t, NoSide) /\ a[2] = St("rows", list[i].t, NoSide)
        /\ a[3] = St("wipe", list[i].t, NoSide) /\ a[4] = St("award", list[i].t, NoSide)
    BY <1>19, <2>1, <2>2, ApplyIs
  <2>4. o + 4 <= n /\ \A j \in 1..4 : f[o + j] = a[j]
    BY <1>8, <1>19, <2>2, <2>3 DEF Slice
  <2>5. o + 1 \in 1..n /\ o + 2 \in 1..n /\ o + 3 \in 1..n /\ o + 4 \in 1..n
    BY <2>4
  <2>6. f[o+1] = a[1] /\ f[o+2] = a[2] /\ f[o+3] = a[3] /\ f[o+4] = a[4]
    BY <2>4
  <2> QED BY <1>17, <2>2, <2>3, <2>4, <2>5, <2>6
<1>20. ASSUME NEW k \in 1..n PROVE InBlock(c, k, n, {list[i].t : i \in 1..Len(list)} \cap Tour)
  <2>1. PICK i \in 1..m, o \in 0..n : Slice(f, b[i], o) /\ o < k /\ k <= o + Len(b[i])
    BY <1>7, <1>8 DEF Slices
  <2>2. CASE list[i].t \in Tour
    <3>1. list[i].t \in {list[j].t : j \in 1..Len(list)} \cap Tour
      BY <1>1, <2>2
    <3>2. PICK T : T = {list[j].t : j \in 1..Len(list)} \cap Tour
      OBVIOUS
    <3>3. PICK t \in T : t = list[i].t
      BY <3>1, <3>2
    <3>4. /\ o \in Nat /\ o < k /\ k <= o + 4 /\ o + 4 <= n
          /\ c[o+1] = St("load", t, NoSide) /\ c[o+2] = St("rows", t, NoSide)
          /\ c[o+3] = St("wipe", t, NoSide) /\ c[o+4] = St("award", t, NoSide)
      <4>1. Slice(f, b[i], o) /\ list[i].t \in Tour
        BY <2>1, <2>2
      <4>2. /\ o + 4 <= n /\ Len(b[i]) = 4
            /\ c[o+1] = St("load", t, NoSide) /\ c[o+2] = St("rows", t, NoSide)
            /\ c[o+3] = St("wipe", t, NoSide) /\ c[o+4] = St("award", t, NoSide)
        BY <1>19, <3>3, <4>1
      <4>3. o < k /\ k <= o + Len(b[i])
        BY <2>1
      <4> QED BY <4>2, <4>3
    <3> QED BY <3>2, <3>4 DEF InBlock
  <2>3. CASE list[i].t \notin Tour
    <3>1. Len(b[i]) = 1 /\ b[i][1].op = "again"
      BY <1>4, <2>3
    <3>2. k = o + 1 /\ f[o + 1] = b[i][1]
      BY <2>1, <3>1 DEF Slice
    <3> QED BY <1>17, <3>1, <3>2 DEF InBlock
  <2> QED BY <2>2, <2>3
<1>21. ASSUME NEW i \in 1..m, list[i].t \in Tour
       PROVE  \E k \in 1..n : c[k].op = "load" /\ c[k].t = list[i].t
  <2>1. PICK o \in 0..n : Slice(f, b[i], o)
    BY <1>7, <1>8 DEF Slices
  <2>2. o + 1 \in 1..n /\ c[o+1] = St("load", list[i].t, NoSide)
    BY <1>19, <1>21, <2>1
  <2> QED BY <2>2 DEF St
<1> QED BY <1>1, <1>15, <1>16, <1>18, <1>20, <1>21

Countable == UNION {[at : Nat, t : Tour, s : {NoSide}, season : Seasons], Event}
ToursOf(list) == {list[i].t : i \in 1..Len(list)} \cap Tour

LEMMA ListedCounting ==
  ASSUME NEW list \in Seq(Countable), NEW w
  PROVE  Listed(Counting(list), w)
<1>1. PICK T : T = ToursOf(list)
  OBVIOUS
<1>2. PICK c : c = Counting(list)
  OBVIOUS
<1>3. PICK n \in Nat : /\ c \in Seq(Statement) /\ Len(c) = n + 4 /\ Counts4(c, n)
                       /\ \A k \in 1..n : InBlock(c, k, n, T)
  BY <1>1, <1>2, CountingIs DEF ToursOf, Countable
<1>4. ASSUME NEW k \in 1..n
      PROVE  \/ c[k].op = "again"
             \/ \E o \in Nat, t \in T : /\ o < k /\ k <= o + 4 /\ o + 4 <= n
                  /\ c[o+1].op = "load" /\ c[o+2].op = "rows" /\ c[o+3].op = "wipe" /\ c[o+4].op = "award"
                  /\ c[o+1].t = t /\ c[o+2].t = t /\ c[o+3].t = t /\ c[o+4].t = t
  <2>1. CASE c[k].op = "again"
    BY <2>1
  <2>2. CASE c[k].op # "again"
    <3>1. PICK o \in Nat, t \in T : /\ o < k /\ k <= o + 4 /\ o + 4 <= n
                 /\ c[o+1] = St("load", t, NoSide) /\ c[o+2] = St("rows", t, NoSide)
                 /\ c[o+3] = St("wipe", t, NoSide) /\ c[o+4] = St("award", t, NoSide)
      BY <1>3, <2>2 DEF InBlock
    <3>2. /\ c[o+1].op = "load" /\ c[o+2].op = "rows" /\ c[o+3].op = "wipe" /\ c[o+4].op = "award"
          /\ c[o+1].t = t /\ c[o+2].t = t /\ c[o+3].t = t /\ c[o+4].t = t
      BY <3>1 DEF St
    <3> QED BY <3>1, <3>2
  <2> QED BY <2>1, <2>2
<1>5. \A k \in 1..n+4 : k \in 1..n \/ k = n + 1 \/ k = n + 2 \/ k = n + 3 \/ k = n + 4
  OBVIOUS
<1>6. c[n+1].op = "clear" /\ c[n+2].op = "fill" /\ c[n+3].op = "teams" /\ c[n+4].op = "patches"
  BY <1>3 DEF Counts4
<1>7. \A k \in 1..n : c[k].op \in {"again", "load", "rows", "wipe", "award"}
  <2>1. TAKE k \in 1..n
  <2>2. CASE c[k].op = "again"
    BY <2>2
  <2>3. CASE c[k].op # "again"
    <3>1. PICK o \in Nat : /\ o < k /\ k <= o + 4
                  /\ c[o+1].op = "load" /\ c[o+2].op = "rows" /\ c[o+3].op = "wipe" /\ c[o+4].op = "award"
      BY <1>4, <2>3
    <3>2. k = o + 1 \/ k = o + 2 \/ k = o + 3 \/ k = o + 4
      BY <3>1
    <3> QED BY <3>1, <3>2
  <2> QED BY <2>2, <2>3
<1>8. Linked(c)
  <2>1. ASSUME NEW k \in 1..n+4, c[k].op \in Leaders PROVE k < n + 4 /\ Joined(c[k], c[k+1])
    <3>1. CASE k \in 1..n
      <4>1. c[k].op # "again"
        BY <2>1 DEF Leaders
      <4>2. PICK o \in Nat, t \in T : /\ o < k /\ k <= o + 4 /\ o + 4 <= n
                  /\ c[o+1].op = "load" /\ c[o+2].op = "rows" /\ c[o+3].op = "wipe" /\ c[o+4].op = "award"
                  /\ c[o+1].t = t /\ c[o+2].t = t /\ c[o+3].t = t
        BY <1>4, <3>1, <4>1
      <4>3. k = o + 1 \/ k = o + 2
        <5>1. k # o + 3 /\ k # o + 4
          BY <2>1, <4>2 DEF Leaders
        <5> QED BY <4>2, <5>1
      <4>4. (k = o + 1 => k + 1 = o + 2) /\ (k = o + 2 => k + 1 = o + 3)
        OBVIOUS
      <4> QED BY <3>1, <4>2, <4>3, <4>4 DEF Joined
    <3>2. CASE k \notin 1..n
      <4>1. k = n + 1 \/ k = n + 2
        BY <1>5, <1>6, <2>1, <3>2 DEF Leaders
      <4>2. (k = n + 1 => k + 1 = n + 2) /\ (k = n + 2 => k + 1 = n + 3)
        OBVIOUS
      <4> QED BY <1>6, <4>1, <4>2 DEF Joined
    <3> QED BY <3>1, <3>2
  <2>2. ASSUME NEW k \in 1..n+4, k > 1, c[k].op \in Followers PROVE Joined(c[k-1], c[k])
    <3>1. CASE k \in 1..n
      <4>1. c[k].op # "again"
        BY <2>2 DEF Followers
      <4>2. PICK o \in Nat, t \in T : /\ o < k /\ k <= o + 4 /\ o + 4 <= n
                  /\ c[o+1].op = "load" /\ c[o+2].op = "rows" /\ c[o+3].op = "wipe" /\ c[o+4].op = "award"
                  /\ c[o+1].t = t /\ c[o+2].t = t /\ c[o+3].t = t
        BY <1>4, <3>1, <4>1
      <4>3. k = o + 3
        <5>1. k # o + 1 /\ k # o + 2 /\ k # o + 4
          BY <2>2, <4>2 DEF Followers
        <5> QED BY <4>2, <5>1
      <4>4. k - 1 = o + 2
        BY <4>3
      <4> QED BY <4>2, <4>3, <4>4 DEF Joined
    <3>2. CASE k \notin 1..n
      <4>1. k = n + 2 \/ k = n + 3
        BY <1>5, <1>6, <2>2, <3>2 DEF Followers
      <4>2. (k = n + 2 => k - 1 = n + 1) /\ (k = n + 3 => k - 1 = n + 2)
        OBVIOUS
      <4> QED BY <1>6, <4>1, <4>2 DEF Joined
    <3> QED BY <3>1, <3>2
  <2> QED BY <1>3, <2>1, <2>2 DEF Linked
<1>9. \A k \in 1..n+4 : InCourse(c[k]) => k \in 1..n /\ c[k].op # "again"
  BY <1>5, <1>6 DEF InCourse
<1>10. Ordered(c)
  <2>1. SUFFICES ASSUME NEW i \in 1..n+4, NEW j \in 1..n+4, i < j, InCourse(c[i]), InCourse(c[j]),
                        ~Loading(c, i + 1, j)
                 PROVE  c[i].t = c[j].t /\ Rank[c[i].op] < Rank[c[j].op]
    BY <1>3 DEF Ordered
  <2>2. j \in 1..n /\ c[j].op # "again"
    BY <1>9, <2>1
  <2>3. PICK o \in Nat, t \in T : /\ o < j /\ j <= o + 4 /\ o + 4 <= n
                  /\ c[o+1].op = "load" /\ c[o+2].op = "rows" /\ c[o+3].op = "wipe" /\ c[o+4].op = "award"
                  /\ c[o+1].t = t /\ c[o+2].t = t /\ c[o+3].t = t /\ c[o+4].t = t
    BY <1>4, <2>2
  <2>4. o < i
    <3>1. SUFFICES ASSUME i <= o PROVE FALSE
      OBVIOUS
    <3>2. o + 1 \in i+1..j
      BY <2>3, <3>1
    <3> QED BY <2>1, <2>3, <3>2 DEF Loading
  <2>5. \/ i = o + 1 /\ j \in {o + 2, o + 3, o + 4}
        \/ i = o + 2 /\ j \in {o + 3, o + 4}
        \/ i = o + 3 /\ j = o + 4
    BY <2>1, <2>3, <2>4
  <2> QED BY <2>3, <2>5 DEF Rank
<1>11. Paying(c, w)
  <2>1. \A k \in 1..n+4 : c[k].op \notin Pays
    BY <1>5, <1>6, <1>7 DEF Pays
  <2> QED BY <1>3, <2>1 DEF Paying
<1>12. Recounted(c)
  <2>1. \A k \in 1..n+4 : c[k].op = "again" => k \in 1..n
    BY <1>5, <1>6
  <2>2. \A k \in 1..n : n + 1 \in k..n+4
    OBVIOUS
  <2> QED BY <1>3, <1>6, <2>1, <2>2 DEF Recounted
<1>13. Prepared(c)
  <2>1. \A k \in 1..n+4 : c[k].op \notin Early
    BY <1>5, <1>6, <1>7 DEF Early
  <2> QED BY <1>3, <2>1 DEF Prepared
<1>14. EarlyFirst(c)
  <2>1. \A k \in 1..n+4 : c[k].op \notin Early
    BY <1>5, <1>6, <1>7 DEF Early
  <2> QED BY <1>3, <2>1 DEF EarlyFirst
<1>15. Completed(c)
  <2>1. SUFFICES ASSUME NEW i \in 1..n+4, c[i].op \in {"load", "rows", "wipe"}
                 PROVE  \E j \in i..n+4 : c[j].op \in {"award", "unwin"} /\ c[j].t = c[i].t
    BY <1>3 DEF Completed
  <2>2. i \in 1..n /\ c[i].op # "again"
    BY <1>9, <2>1 DEF InCourse
  <2>3. PICK o \in Nat, t \in T : /\ o < i /\ i <= o + 4 /\ o + 4 <= n
                  /\ c[o+1].op = "load" /\ c[o+2].op = "rows" /\ c[o+3].op = "wipe" /\ c[o+4].op = "award"
                  /\ c[o+1].t = t /\ c[o+2].t = t /\ c[o+3].t = t /\ c[o+4].t = t
    BY <1>4, <2>2
  <2>4. i = o + 1 \/ i = o + 2 \/ i = o + 3 \/ i = o + 4
    BY <2>3
  <2>5. o + 4 \in i..n+4 /\ c[i].t = t
    BY <2>3, <2>4
  <2> QED BY <2>3, <2>5
<1> QED BY <1>2, <1>3, <1>8, <1>10, <1>11, <1>12, <1>13, <1>14, <1>15 DEF Listed

LEMMA EventsAre ==
  ASSUME Typed
  PROVE  /\ IsFiniteSet(Events) /\ Events \subseteq Countable
         /\ (\A x \in Events : x.at \in Nat) /\ (\A x, y \in Events : x.at = y.at => x = y)
         /\ \A t \in Tour : (\E x \in Events : x.t = t) <=> tour[t].status = "finished"
<1> DEFINE Done == {x \in Tour : tour[x].status = "finished"}
           M(t) == [at |-> tour[t].at, t |-> t, s |-> NoSide, season |-> tour[t].season]
           R(x) == [at |-> x.at, t |-> NoTour, s |-> x.side, season |-> x.season]
<1>1. Events = {M(t) : t \in Done} \cup {R(x) : x \in resets}
  BY DEF Events
<1>2. /\ tour \in [Tour -> Match] /\ resets \in SUBSET [side : Player, season : Seasons, at : Nat]
      /\ IsFiniteSet(resets) /\ load \in Loads
      /\ \A t \in Tour : tour[t].status # "none" => t \in load.tours
  BY DEF Typed, TablesOK, ToursOK, SeasonsOK
<1>3. \A t \in Done : M(t) \in [at : Nat, t : Tour, s : {NoSide}, season : Seasons]
  BY <1>2 DEF Match
<1>4. \A x \in resets : R(x) \in Event
  BY <1>2 DEF Event
<1>5. IsFiniteSet(Done)
  <2>1. IsFiniteSet(load.tours)
    BY <1>2, RatingAssumption
  <2>2. Done \subseteq load.tours
    BY <1>2
  <2> QED BY <2>1, <2>2, FS_Subset
<1>6. IsFiniteSet({M(t) : t \in Done}) /\ IsFiniteSet({R(x) : x \in resets})
  <2>1. PICK f : f = [t \in Done |-> M(t)]
    OBVIOUS
  <2>2. f \in Surjection(Done, {M(t) : t \in Done})
    BY <2>1 DEF Surjection
  <2>3. IsFiniteSet({M(t) : t \in Done})
    <3>1. PICK U, V : U = Done /\ V = {M(t) : t \in Done}
      OBVIOUS
    <3>2. IsFiniteSet(U) /\ f \in Surjection(U, V)
      BY <1>5, <2>2, <3>1
    <3>3. IsFiniteSet(V)
      BY <3>2, FS_Surjection
    <3> QED BY <3>1, <3>3
  <2>4. PICK g : g = [x \in resets |-> R(x)]
    OBVIOUS
  <2>5. g \in Surjection(resets, {R(x) : x \in resets})
    BY <2>4 DEF Surjection
  <2>6. IsFiniteSet({R(x) : x \in resets})
    <3>1. PICK U, V : U = resets /\ V = {R(x) : x \in resets}
      OBVIOUS
    <3>2. IsFiniteSet(U) /\ g \in Surjection(U, V)
      BY <1>2, <2>5, <3>1
    <3>3. IsFiniteSet(V)
      BY <3>2, FS_Surjection
    <3> QED BY <3>1, <3>3
  <2> QED BY <2>3, <2>6
<1>7. IsFiniteSet(Events)
  BY <1>1, <1>6, FS_Union
<1>8. Events \subseteq Countable
  BY <1>1, <1>3, <1>4 DEF Countable
<1>9. \A x \in Events : x.at \in Nat
  BY <1>1, <1>3, <1>4 DEF Event
<1>10. ASSUME NEW x \in Events, NEW y \in Events, x.at = y.at PROVE x = y
  <2>1. /\ \A t, u \in Done : tour[t].at = tour[u].at => t = u
        /\ \A e \in resets : \A t \in Done : tour[t].at # e.at
        /\ \A e, f \in resets : e.at = f.at => e = f
    BY DEF Typed, OneAtATime, Begun
  <2>2. CASE \E t \in Done : x = M(t)
    <3>1. PICK t \in Done : x = M(t)
      BY <2>2
    <3>2. ~(\E e \in resets : y = R(e))
      BY <1>10, <2>1, <3>1
    <3>3. PICK u \in Done : y = M(u)
      BY <1>1, <3>2
    <3> QED BY <1>10, <2>1, <3>1, <3>3
  <2>3. CASE \E e \in resets : x = R(e)
    <3>1. PICK e \in resets : x = R(e)
      BY <2>3
    <3>2. ~(\E t \in Done : y = M(t))
      BY <1>10, <2>1, <3>1
    <3>3. PICK f \in resets : y = R(f)
      BY <1>1, <3>2
    <3> QED BY <1>10, <2>1, <3>1, <3>3
  <2> QED BY <1>1, <2>2, <2>3
<1>11. \A t \in Tour : (\E x \in Events : x.t = t) <=> tour[t].status = "finished"
  <2>1. TAKE t \in Tour
  <2>2. ASSUME NEW x \in Events, x.t = t PROVE tour[t].status = "finished"
    <3>1. ~(\E e \in resets : x = R(e))
      BY <2>2, RatingAssumption
    <3>2. PICK u \in Done : x = M(u)
      BY <1>1, <3>1
    <3> QED BY <2>2, <3>2
  <2>3. tour[t].status = "finished" => M(t) \in Events /\ M(t).t = t
    BY <1>1
  <2> QED BY <2>2, <2>3
<1> HIDE DEF M, R, Done
<1> QED BY <1>7, <1>8, <1>9, <1>10, <1>11

\* What a recomputation goes through: every match that ended, and no other.
LEMMA InOrderIs ==
  ASSUME Typed
  PROVE  /\ InOrder \in Seq(Countable)
         /\ ToursOf(InOrder) = {t \in Tour : tour[t].status = "finished"}
<1>1. PICK S : S = Events
  OBVIOUS
<1>2. /\ IsFiniteSet(S) /\ S \subseteq Countable
      /\ (\A x \in S : x.at \in Nat) /\ (\A x, y \in S : x.at = y.at => x = y)
      /\ \A t \in Tour : (\E x \in S : x.t = t) <=> tour[t].status = "finished"
  BY <1>1, EventsAre
<1>3. PICK n \in Nat : n = Cardinality(S)
  BY <1>2, FS_CardinalityType
<1>4. \E list \in [1..n -> S] : \A i, j \in 1..n : i < j => list[i].at < list[j].at
  <2>1. \A x \in S : x.at \in Nat
    BY <1>2
  <2>2. \A x, y \in S : x.at = y.at => x = y
    BY <1>2
  <2> QED BY <1>2, <1>3, <2>1, <2>2, TimeOrders
<1>5. InOrder = CHOOSE list \in [1..n -> S] : \A i, j \in 1..n : i < j => list[i].at < list[j].at
  BY <1>1, <1>3 DEF InOrder
<1>6. PICK q : q = InOrder
  OBVIOUS
<1>7. q \in [1..n -> S] /\ \A i, j \in 1..n : i < j => q[i].at < q[j].at
  BY <1>4, <1>5, <1>6
<1>8. \A x \in S : \E i \in 1..n : q[i] = x
  <2>1. \A x \in S : x.at \in Nat
    BY <1>2
  <2> QED BY <1>2, <1>3, <1>7, <2>1, OrderNamesAll
<1>9. q \in Seq(Countable) /\ Len(q) = n
  BY <1>2, <1>7
<1>10. ToursOf(q) = {t \in Tour : tour[t].status = "finished"}
  <2>1. \A t \in Tour : t \in ToursOf(q) <=> \E i \in 1..n : q[i].t = t
    BY <1>9 DEF ToursOf
  <2>2. \A t \in Tour : (\E i \in 1..n : q[i].t = t) <=> \E x \in S : x.t = t
    BY <1>7, <1>8
  <2> QED BY <1>2, <2>1, <2>2 DEF ToursOf
<1> QED BY <1>6, <1>9, <1>10

-------------------------------------------------------------------------------
(* Every step keeps the tables and the requests well formed.               *)

LEMMA Fields ==
  ASSUME NEW x \in Statement
  PROVE  /\ x.op \in AboutMatch \cup Pays \cup {"delete", "named"} => x.t \in Tour
         /\ x.op = "delete" => "delete" \in load.kinds
         /\ x.op = "named" => x.s \in SidesOf(x.t) /\ x.s \in Side
         /\ x.op \in Pays \cup {"sum", "write"} => x.s \in Side
         /\ x.op \in {"rule", "reset"} => x.s \in Player
         /\ x.op = "again" => x.s \in Event
  BY DEF Statement, AboutMatch, AboutAll, Pays

LEMMA HeadIs ==
  ASSUME RequestsOK, NEW p \in Request, ~Idle(p), NEW q, q = req[p].todo
  PROVE  /\ req[p] \in Req /\ Listed(q, req[p].winner) /\ q \in Seq(Statement) /\ q # <<>>
         /\ It(p) = q[1] /\ q[1] \in Statement /\ Rest(p) = Tail(q)
<1>1. req[p] \in Req /\ Listed(q, req[p].winner) /\ q \in Seq(Statement) /\ q # <<>>
  BY DEF RequestsOK, Idle, Listed
<1>2. Len(q) \in Nat \ {0}
  BY <1>1, EmptySeq
<1>3. Head(q) = q[1] /\ q[1] \in Statement
  BY <1>1, <1>2, ElementOfSeq
<1> QED BY <1>1, <1>3 DEF It, Rest

LEMMA ReqKeeps ==
  ASSUME RequestsOK, NEW p \in Request, NEW s \in Req, req' = [req EXCEPT ![p] = s],
         Listed(s.todo, s.winner), load' = load
  PROVE  RequestsOK'
<1>1. Statement' = Statement
  BY DEF Statement, SidesOf
<1>2. \A q, w : Listed(q, w)' <=> Listed(q, w)
  BY <1>1 DEF Listed
<1>3. req' \in [Request -> Req] /\ Req' = Req
  BY <1>1 DEF RequestsOK, Req
<1>4. ASSUME NEW o \in Request PROVE Listed(req'[o].todo, req'[o].winner)
  <2>1. CASE o = p
    BY <2>1 DEF RequestsOK
  <2>2. CASE o # p
    BY <2>2 DEF RequestsOK
  <2> QED BY <2>1, <2>2
<1> QED BY <1>2, <1>3, <1>4 DEF RequestsOK

LEMMA NilListed == ASSUME NEW w PROVE Listed(<<>>, w)
  BY DEF Listed, Linked, Ordered, Paying, Recounted, Prepared, EarlyFirst, Completed

LEMMA BlankIs == Blank \in Req
  BY DEF Blank, Req, Seasons

LEMMA StopKeeps ==
  ASSUME RequestsOK, NEW p \in Request, Stop(p), load' = load
  PROVE  RequestsOK'
  BY NilListed, BlankIs, ReqKeeps DEF Stop, Blank

LEMMA GoKeeps ==
  ASSUME RequestsOK, NEW p \in Request, NEW todo, NEW r \in Req, GoOn(p, todo, r),
         Listed(todo, r.winner), load' = load
  PROVE  RequestsOK'
<1>1. PICK s : s = [r EXCEPT !.todo = todo]
  OBVIOUS
<1>2. s \in Req /\ s.todo = todo /\ s.winner = r.winner
  BY <1>1 DEF Req, Listed
<1> QED BY <1>1, <1>2, ReqKeeps DEF GoOn

LEMMA NextKeeps ==
  ASSUME RequestsOK, NEW p \in Request, ~Idle(p), Next1(p), load' = load
  PROVE  RequestsOK'
<1>1. PICK q, r : q = req[p].todo /\ r = req[p]
  OBVIOUS
<1>2. r \in Req /\ Listed(q, r.winner) /\ q # <<>> /\ Rest(p) = Tail(q)
  BY <1>1, HeadIs
<1>3. Listed(Tail(q), r.winner)
  BY <1>2, ListedTail
<1>4. GoOn(p, Tail(q), r)
  BY <1>1, <1>2 DEF Next1
<1> QED BY <1>2, <1>3, <1>4, GoKeeps

\* A request that goes on with the rest of its list, having read something.
LEMMA RestKeeps ==
  ASSUME RequestsOK, NEW p \in Request, ~Idle(p), NEW r \in Req, GoOn(p, Rest(p), r), load' = load,
         r.winner = req[p].winner \/ req[p].todo[1].op \notin Pays
  PROVE  RequestsOK'
<1>1. PICK q : q = req[p].todo
  OBVIOUS
<1>2. Listed(q, req[p].winner) /\ q # <<>> /\ Rest(p) = Tail(q)
  BY <1>1, HeadIs
<1>3. PICK w : w = req[p].winner
  OBVIOUS
<1>4. q[1].op \in Pays => r.winner = w
  BY <1>1, <1>3
<1>5. Listed(Tail(q), r.winner)
  BY <1>2, <1>3, <1>4, ListedTail
<1> QED BY <1>2, <1>5, GoKeeps

Stay == UNCHANGED <<tour, resets, seasons, active, start, history, cache, clock, whole, load>>

LEMMA StayKeeps ==
  ASSUME TablesOK, OneAtATime, Stay
  PROVE  TablesOK' /\ OneAtATime'
  BY DEF TablesOK, ToursOK, SeasonsOK, HistoryOK, CacheOK, OneAtATime, Past, Stay, Begun

\* The tables with other matches, other rows of history, another cache.
LEMMA ToursKeep ==
  ASSUME TablesOK, OneAtATime, NEW t \in Tour, NEW m \in Match,
         m.winner \in SidesOf(t) \cup {NoSide}, m.status = "none" <=> tour[t].status = "none",
         m.at = tour[t].at, tour' = [tour EXCEPT ![t] = m],
         UNCHANGED <<resets, seasons, active, start, history, cache, clock, whole, load>>
  PROVE  TablesOK' /\ OneAtATime'
<1>1. tour \in [Tour -> Match]
  BY DEF TablesOK, ToursOK
<1>2. \A x \in Tour : tour'[x].at = tour[x].at /\ (tour'[x].status # "none" <=> tour[x].status # "none")
  BY <1>1
<1>3. ToursOK'
  BY <1>1, <1>2 DEF TablesOK, ToursOK
<1>4. SeasonsOK' /\ HistoryOK' /\ CacheOK'
  BY DEF TablesOK, SeasonsOK, HistoryOK, CacheOK
<1>5. OneAtATime'
  BY <1>2 DEF OneAtATime, Past, Begun
<1> QED BY <1>3, <1>4, <1>5 DEF TablesOK

LEMMA HistoryKeeps ==
  ASSUME TablesOK, OneAtATime, HistoryOK', CacheOK',
         UNCHANGED <<tour, resets, seasons, active, start, clock, load>>, whole' \in BOOLEAN
  PROVE  TablesOK' /\ OneAtATime'
<1>1. ToursOK' /\ SeasonsOK'
  BY DEF TablesOK, ToursOK, SeasonsOK
<1>2. OneAtATime'
  BY DEF OneAtATime, Past, Begun
<1> QED BY <1>1, <1>2 DEF TablesOK

\* The rating of a side is a number.
LEMMA SeasonMmrInt ==
  ASSUME TablesOK, NEW s, NEW n \in Seasons
  PROVE  SeasonMmr(history, s, n) \in Int /\ StartOf(n) \in Int
<1>1. PICK S : S = RowsOf(history, s, n)
  OBVIOUS
<1>2. S \subseteq history /\ IsFiniteSet(history) /\ \A x \in history : x.delta \in Int
  BY <1>1 DEF RowsOf, TablesOK, HistoryOK, HistoryRow
<1>3. IsFiniteSet(S) /\ \A x \in S : x.delta \in Int
  BY <1>2, FS_Subset
<1>4. Total(S) \in Int
  BY <1>3, TotalInt
<1>5. StartOf(n) \in Int
  BY DEF StartOf, Seasons, TablesOK, SeasonsOK
<1> QED BY <1>1, <1>4, <1>5 DEF SeasonMmr


LEMMA DoingIs ==
  ASSUME RequestsOK, NEW p \in Request, NEW op, Doing(p, op), NEW q, q = req[p].todo,
         NEW r, r = req[p], NEW h, h = It(p)
  PROVE  /\ ~Idle(p) /\ r \in Req /\ Listed(q, r.winner) /\ q \in Seq(Statement) /\ q # <<>>
         /\ r.todo = q /\ h = q[1] /\ h \in Statement /\ h.op = op /\ Rest(p) = Tail(q)
  BY HeadIs DEF Doing, It

LEMMA InitTyped == Init => Typed
<1> SUFFICES ASSUME Init PROVE Typed
  OBVIOUS
<1>1. /\ load \in Loads /\ load.dirty \in BOOLEAN /\ load.tours \in SUBSET Tour
      /\ IsFiniteSet(load.tours) /\ (load.dirty => 1 \in Season) /\ load.imported \in SUBSET Tour
  BY RatingAssumption DEF Init
<1>2. RequestsOK
  <2>1. req = [p \in Request |-> Blank]
    BY DEF Init
  <2> QED BY <2>1, BlankIs, NilListed DEF RequestsOK, Blank
<1>3. NoMatchYet \in Match /\ NoMatchYet.status = "none" /\ NoMatchYet.winner = NoSide
  BY DEF NoMatchYet, Match, Seasons
<1>4. resets = {} /\ whole \in BOOLEAN /\ start = [n \in Season |-> 0] /\ IsFiniteSet({})
  BY <1>1, FS_EmptySet DEF Init
<1>5. CASE ~load.dirty
  <2>1. /\ active = 0 /\ seasons = {} /\ clock = 0 /\ tour = [t \in Tour |-> NoMatchYet]
        /\ history = {} /\ cache = [s \in Side |-> NoRow]
    BY <1>5 DEF Init
  <2>2. ToursOK /\ OneAtATime
    BY <1>1, <1>3, <1>4, <2>1 DEF ToursOK, OneAtATime, Begun
  <2>3. SeasonsOK /\ HistoryOK /\ CacheOK
    BY <1>4, <2>1 DEF SeasonsOK, HistoryOK, CacheOK
  <2> QED BY <1>2, <2>2, <2>3 DEF Typed, TablesOK
<1>6. CASE load.dirty
  <2>1. PICK n \in Nat : n = Cardinality(load.tours)
    BY <1>1, FS_CardinalityType
  <2>2. active = 1 /\ seasons = {1} /\ clock = n
    BY <1>6, <2>1 DEF Init
  <2>3. PICK time \in [load.tours -> 0..clock-1], won \in [load.tours -> 1..2], void \in [load.tours -> BOOLEAN] :
          /\ \A t, u \in load.tours : time[t] = time[u] => t = u
          /\ tour = [t \in Tour |->
               IF t \notin load.tours THEN NoMatchYet
               ELSE [status |-> "finished", winner |-> Sides[t][won[t]],
                     voided |-> void[t], season |-> 1, at |-> 2 * time[t],
                     doubled |-> {}, pinned |-> t \in load.imported]]
    BY <1>6 DEF Init
  <2>4. ASSUME NEW t \in load.tours
        PROVE  /\ tour[t].status = "finished" /\ tour[t].at = 2 * time[t] /\ time[t] \in 0..n-1
               /\ tour[t] \in Match /\ tour[t].winner \in SidesOf(t)
    <3>1. time[t] \in 0..n-1 /\ won[t] \in 1..2 /\ void[t] \in BOOLEAN /\ t \in Tour
      BY <1>1, <2>2, <2>3
    <3>2. Sides[t][won[t]] \in SidesOf(t)
      BY <3>1 DEF SidesOf
    <3>3. tour[t] = [status |-> "finished", winner |-> Sides[t][won[t]],
                     voided |-> void[t], season |-> 1, at |-> 2 * time[t],
                     doubled |-> {}, pinned |-> t \in load.imported]
      BY <2>3, <3>1
    <3>4. Sides[t][won[t]] \in Side
      BY <3>1, <3>2, TwoSides
    <3> QED BY <1>1, <1>6, <3>1, <3>2, <3>3, <3>4 DEF Match, Seasons
  <2>5. ASSUME NEW t \in Tour, t \notin load.tours
        PROVE  tour[t] = NoMatchYet
    BY <2>3, <2>5
  <2>6. ToursOK
    <3>1. tour \in [Tour -> Match]
      <4>1. \A t \in Tour : tour[t] \in Match
        BY <1>3, <2>4, <2>5
      <4>2. tour = [t \in Tour |-> tour[t]]
        BY <2>3
      <4> QED BY <4>1, <4>2
    <3>2. ASSUME NEW t \in Tour PROVE tour[t].winner \in SidesOf(t) \cup {NoSide} /\ (tour[t].status # "none" => t \in load.tours)
      <4>1. CASE t \in load.tours
        BY <2>4, <4>1
      <4>2. CASE t \notin load.tours
        BY <1>3, <2>5, <4>2
      <4> QED BY <4>1, <4>2
    <3> QED BY <1>1, <1>4, <2>1, <2>2, <3>1, <3>2 DEF ToursOK
  <2>7. OneAtATime
    <3>1. \A t \in Tour : Begun(t) => t \in load.tours
      BY <1>3, <2>5 DEF Begun
    <3>2. \A t \in Tour : Begun(t) => tour[t].at = 2 * time[t] /\ time[t] \in Int /\ time[t] < clock
      BY <2>1, <2>2, <2>4, <3>1
    <3>3. clock \in Nat
      BY <2>1, <2>2
    <3>4. \A t \in Tour : Begun(t) => Past(tour[t].at)
      BY <3>2, <3>3 DEF Past
    <3>5. \A t, u \in Tour : Begun(t) /\ Begun(u) /\ tour[t].at = tour[u].at => t = u
      <4>1. SUFFICES ASSUME NEW t \in Tour, NEW u \in Tour, Begun(t), Begun(u), tour[t].at = tour[u].at PROVE t = u
        OBVIOUS
      <4>2. time[t] = time[u]
        <5>1. 2 * time[t] = 2 * time[u] /\ time[t] \in Int /\ time[u] \in Int
          BY <3>2, <4>1
        <5> QED BY <5>1
      <4> QED BY <2>3, <3>1, <4>1, <4>2
    <3> QED BY <1>4, <3>4, <3>5 DEF OneAtATime
  <2>8. SeasonsOK
    BY <1>1, <1>4, <1>6, <2>2 DEF SeasonsOK
  <2>9. HistoryOK
    <3>1. PICK t \in load.tours, d \in {-1, 2} : \E s \in SidesOf(t) :
               history \in {{}, {Row(s, t, d, 1, 1, tour[t].at)}}
      BY <1>6 DEF Init
    <3>2. PICK s \in SidesOf(t) : history \in {{}, {Row(s, t, d, 1, 1, tour[t].at)}}
      BY <3>1
    <3>3. s \in Side /\ t \in Tour /\ tour[t].at \in Nat
      BY <1>1, <2>1, <2>4, TwoSides
    <3>4. Row(s, t, d, 1, 1, tour[t].at) \in HistoryRow
      BY <1>1, <1>6, <3>3 DEF Row, HistoryRow, Seasons
    <3>5. PICK x : x = Row(s, t, d, 1, 1, tour[t].at)
      OBVIOUS
    <3>6. IsFiniteSet({x})
      BY FS_Singleton
    <3>7. history = {} \/ history = {x}
      BY <3>2, <3>5
    <3> QED BY <1>4, <3>4, <3>5, <3>6, <3>7 DEF HistoryOK
  <2>10. CacheOK
    BY <1>6 DEF Init, CacheOK
  <2> QED BY <1>2, <2>6, <2>7, <2>8, <2>9, <2>10 DEF Typed, TablesOK
<1> QED BY <1>1, <1>5, <1>6

LEMMA AcceptTyped ==
  ASSUME Typed, NEW p \in Request, NEW kind, NEW todo, Accept(p, kind, todo), Listed(todo, NoSide)
  PROVE  Typed'
<1>1. load' = load /\ RequestsOK /\ Stay
  BY DEF Typed, Accept, tables, Stay
<1>2. RequestsOK'
  BY <1>1, BlankIs, GoKeeps DEF Accept, Blank
<1> QED BY <1>1, <1>2, StayKeeps DEF Typed

LEMMA ArrivesTyped ==
  ASSUME Typed, NEW p \in Request, Arrives(p)
  PROVE  Typed'
<1>1. load.tours \subseteq Tour
  BY RatingAssumption DEF Typed, TablesOK, ToursOK
<1>2. ASSUME NEW t \in load.tours, HandleFinishMatch(p, t) \/ HandleRescore(p, t) \/ HandleVoidMatch(p, t)
             \/ HandleDeleteTournament(p, t)
             \/ (\E to \in {"finished", "upcoming"} : HandleUpdateTournament(p, t, to))
             \/ \E s \in SidesOf(t) : HandleSetWinner(p, t, s)
      PROVE  Typed'
  <2>1. t \in Tour
    BY <1>1
  <2>2. CASE HandleFinishMatch(p, t)
    BY <2>1, <2>2, Start, AcceptTyped DEF HandleFinishMatch
  <2>3. CASE HandleRescore(p, t)
    BY <2>1, <2>3, Start, AcceptTyped DEF HandleRescore
  <2>4. CASE HandleVoidMatch(p, t)
    BY <2>1, <2>4, Start, AcceptTyped DEF HandleVoidMatch
  <2>5. CASE HandleDeleteTournament(p, t)
    <3>1. "delete" \in load.kinds
      BY <2>5 DEF HandleDeleteTournament, Accept
    <3> QED BY <2>1, <2>5, <3>1, Start, AcceptTyped DEF HandleDeleteTournament
  <2>6. CASE \E to \in {"finished", "upcoming"} : HandleUpdateTournament(p, t, to)
    BY <2>1, <2>6, Start, AcceptTyped DEF HandleUpdateTournament
  <2>7. CASE \E s \in SidesOf(t) : HandleSetWinner(p, t, s)
    BY <2>1, <2>7, Start, AcceptTyped DEF HandleSetWinner
  <2> QED BY <1>2, <2>2, <2>3, <2>4, <2>5, <2>6, <2>7
<1>3. CASE HandleStartSeason(p)
  BY <1>3, StartAll, AcceptTyped DEF HandleStartSeason
<1>4. CASE HandleUpdateSeason(p)
  BY <1>4, StartAll, AcceptTyped DEF HandleUpdateSeason
<1>5. CASE RunPendingRecompute(p)
  BY <1>5, StartAll, AcceptTyped DEF RunPendingRecompute
<1>6. CASE \E s \in Player : HandleResetRating(p, s)
  BY <1>6, StartAll, AcceptTyped DEF HandleResetRating
<1> QED BY <1>2, <1>3, <1>4, <1>5, <1>6 DEF Arrives


LEMMA SameRequests ==
  ASSUME RequestsOK, UNCHANGED <<req, load>>
  PROVE  RequestsOK'
<1>1. Statement' = Statement /\ req' = req
  BY DEF Statement, SidesOf
<1>2. \A q, w : Listed(q, w)' <=> Listed(q, w)
  BY <1>1 DEF Listed
<1> QED BY <1>1, <1>2 DEF RequestsOK, Req

\* Another state of a match: one that begins, or goes on, at a time of its own.
LEMMA MatchKeeps ==
  ASSUME Typed, NEW t \in load.tours, NEW m \in Match, m.winner \in SidesOf(t) \cup {NoSide},
         m.status # "none", tour' = [tour EXCEPT ![t] = m], clock' \in Nat, clock <= clock',
         \A k \in Nat : k >= clock' => m.at # 2 * k,
         \A u \in Tour : u # t /\ Begun(u) => tour[u].at # m.at,
         \A x \in resets : x.at # m.at,
         UNCHANGED <<resets, seasons, active, start, history, cache, req, whole, load>>
  PROVE  Typed'
<1>1. t \in Tour /\ tour \in [Tour -> Match] /\ clock \in Nat
  BY RatingAssumption DEF Typed, TablesOK, ToursOK
<1>5. tour'[t] = m /\ \A u \in Tour : u # t => tour'[u] = tour[u]
  BY <1>1
<1>6. ToursOK'
  BY <1>1, <1>5 DEF Typed, TablesOK, ToursOK, SidesOf
<1>7. SeasonsOK' /\ HistoryOK' /\ CacheOK'
  BY DEF Typed, TablesOK, SeasonsOK, HistoryOK, CacheOK
<1>8. OneAtATime'
  <2>0. OneAtATime
    BY DEF Typed
  <2>1. \A u \in Tour : u # t => tour'[u] = tour[u] /\ (Begun(u)' <=> Begun(u))
    BY <1>5 DEF Begun
  <2>2. ASSUME NEW u \in Tour, Begun(u)', NEW k \in Nat, k >= clock' PROVE tour'[u].at # 2 * k
    <3>1. CASE u = t
      BY <1>5, <2>2, <3>1
    <3>2. CASE u # t
      <4>1. k >= clock /\ Begun(u) /\ tour'[u].at = tour[u].at
        BY <1>1, <2>1, <2>2, <3>2
      <4> QED BY <2>0, <4>1 DEF OneAtATime, Past
    <3> QED BY <3>1, <3>2
  <2>3. ASSUME NEW u \in Tour, NEW v \in Tour, Begun(u)', Begun(v)', tour'[u].at = tour'[v].at PROVE u = v
    <3>1. u # t /\ v # t => u = v
      BY <2>0, <2>1, <2>3 DEF OneAtATime
    <3>2. u # t => tour'[u].at # m.at
      BY <2>1, <2>3
    <3>3. v # t => tour'[v].at # m.at
      BY <2>1, <2>3
    <3> QED BY <1>5, <2>3, <3>1, <3>2, <3>3
  <2>4. ASSUME NEW x \in resets, NEW u \in Tour, Begun(u)' PROVE tour'[u].at # x.at
    <3>1. u # t => tour[u].at # x.at
      BY <2>0, <2>1, <2>4 DEF OneAtATime
    <3> QED BY <1>5, <3>1
  <2>5. \A x, y \in resets' : x.at = y.at => x = y
    BY <2>0 DEF OneAtATime
  <2>6. \A x \in resets' : \E k \in Nat : k < clock' /\ x.at = 2 * k
    BY <1>1, <2>0 DEF OneAtATime
  <2> QED BY <2>2, <2>3, <2>4, <2>5, <2>6 DEF OneAtATime, Past
<1>9. RequestsOK'
  BY SameRequests DEF Typed
<1> QED BY <1>6, <1>7, <1>8, <1>9 DEF Typed, TablesOK

\* A time that a show may be planned for is nothing else's, and is never now.
LEMMA PlansAre ==
  ASSUME Typed, NEW at \in Plans
  PROVE  /\ at \in Nat /\ \A k \in Nat : at # 2 * k
         /\ \A u \in Tour : tour[u].at # at
<1>1. load.plans \subseteq Nat
  BY RatingAssumption DEF Typed, TablesOK, ToursOK
<1>2. PICK n \in Nat : at = 2 * n + 1
  BY <1>1 DEF Plans
<1>3. \A k \in Nat : at # 2 * k
  BY <1>2
<1> QED BY <1>2, <1>3 DEF Plans

LEMMA PreparesTyped ==
  ASSUME Typed, NEW t \in load.tours, Prepares(t)
  PROVE  Typed'
<1>1. t \in Tour /\ tour \in [Tour -> Match] /\ clock \in Nat /\ active \in Seasons /\ tour[t] \in Match
      /\ tour[t].winner \in SidesOf(t) \cup {NoSide} /\ SidesOf(t) \subseteq Side
  <2>1. t \in Tour /\ tour \in [Tour -> Match] /\ clock \in Nat /\ active \in Seasons
        /\ \A u \in Tour : tour[u].winner \in SidesOf(u) \cup {NoSide}
    BY RatingAssumption DEF Typed, TablesOK, ToursOK, SeasonsOK, Seasons
  <2> QED BY <2>1, TwoSides
<1>2. /\ UNCHANGED <<resets, seasons, active, start, history, cache, req, whole, load>>
      /\ clock' = clock \/ clock' = clock + 1
  BY DEF Prepares, CreateMatch, RescheduleShowMatch, StartShowMatch, SetDoubleToken
<1>3. clock' \in Nat /\ clock <= clock'
  BY <1>1, <1>2
<1>4. /\ \A u \in Tour : Begun(u) => tour[u].at # Now
      /\ \A x \in resets : x.at # Now
  <2>1. \A u \in Tour : Begun(u) => tour[u].at # Now
    BY <1>1 DEF Typed, OneAtATime, Past, Now
  <2>2. ASSUME NEW x \in resets PROVE x.at # Now
    <3>1. PICK k \in Nat : k < clock /\ x.at = 2 * k
      BY DEF Typed, OneAtATime
    <3> QED BY <1>1, <3>1 DEF Now
  <2> QED BY <2>1, <2>2
<1>5. \A at \in Plans : \A x \in resets : x.at # at
  <2>1. ASSUME NEW at \in Plans, NEW x \in resets PROVE x.at # at
    <3>1. PICK k \in Nat : x.at = 2 * k
      BY DEF Typed, OneAtATime
    <3> QED BY <3>1, PlansAre
  <2> QED BY <2>1
<1>6. CASE CreateMatch(t)
  <2>1. PICK status \in {"live", "upcoming"}, at \in Plans \cup {Now} :
          tour' = [tour EXCEPT ![t] = [status |-> status, winner |-> NoSide, voided |-> FALSE, season |-> active,
                                       at |-> at, doubled |-> {}, pinned |-> FALSE]]
    BY <1>6 DEF CreateMatch
  <2>2. PICK m : m = [status |-> status, winner |-> NoSide, voided |-> FALSE, season |-> active,
                      at |-> at, doubled |-> {}, pinned |-> FALSE]
    OBVIOUS
  <2>3. clock' = clock + 1
    BY <1>6 DEF CreateMatch
  <2>4. CASE at \in Plans
    <3>1. at \in Nat /\ (\A k \in Nat : at # 2 * k) /\ \A u \in Tour : tour[u].at # at
      BY <2>4, PlansAre
    <3>2. m \in Match /\ m.winner = NoSide /\ m.status # "none" /\ m.at = at
      BY <1>1, <2>2, <3>1 DEF Match
    <3>3. tour' = [tour EXCEPT ![t] = m]
      BY <2>1, <2>2
    <3> QED BY <1>2, <1>3, <1>5, <2>4, <3>1, <3>2, <3>3, MatchKeeps
  <2>5. CASE at = Now
    <3>1. at \in Nat /\ \A k \in Nat : k >= clock' => at # 2 * k
      BY <1>1, <2>3, <2>5 DEF Now
    <3>2. m \in Match /\ m.winner = NoSide /\ m.status # "none" /\ m.at = at
      BY <1>1, <2>2, <3>1 DEF Match
    <3>3. tour' = [tour EXCEPT ![t] = m]
      BY <2>1, <2>2
    <3>4. (\A u \in Tour : u # t /\ Begun(u) => tour[u].at # m.at) /\ \A x \in resets : x.at # m.at
      BY <1>4, <2>5, <3>2
    <3> QED BY <1>2, <1>3, <3>1, <3>2, <3>3, <3>4, MatchKeeps
  <2> QED BY <2>1, <2>4, <2>5
<1>7. CASE RescheduleShowMatch(t)
  <2>1. PICK at \in Plans : tour' = [tour EXCEPT ![t].at = at]
    BY <1>7 DEF RescheduleShowMatch
  <2>2. PICK m : m = [tour[t] EXCEPT !.at = at]
    OBVIOUS
  <2>3. at \in Nat /\ (\A k \in Nat : at # 2 * k) /\ \A u \in Tour : tour[u].at # at
    BY PlansAre
  <2>4. m \in Match /\ m.winner = tour[t].winner /\ m.status = tour[t].status /\ m.at = at
    BY <1>1, <2>2, <2>3 DEF Match
  <2>5. tour' = [tour EXCEPT ![t] = m] /\ tour[t].status # "none"
    BY <1>1, <1>7, <2>1, <2>2 DEF Match, RescheduleShowMatch
  <2> QED BY <1>1, <1>2, <1>3, <1>5, <2>3, <2>4, <2>5, MatchKeeps
<1>8. CASE StartShowMatch(t)
  <2>1. tour' = [tour EXCEPT ![t].status = "live", ![t].season = active] /\ tour[t].status = "upcoming"
        /\ clock' = clock
    BY <1>8 DEF StartShowMatch
  <2>2. PICK m : m = [tour[t] EXCEPT !.status = "live", !.season = active]
    OBVIOUS
  <2>3. m \in Match /\ m.winner = tour[t].winner /\ m.status = "live" /\ m.at = tour[t].at
    BY <1>1, <2>2 DEF Match
  <2>4. tour' = [tour EXCEPT ![t] = m]
    BY <1>1, <2>1, <2>2 DEF Match
  <2>5. TablesOK' /\ OneAtATime'
    BY <1>1, <1>2, <2>1, <2>3, <2>4, ToursKeep DEF Typed
  <2> QED BY <1>2, <2>5, SameRequests DEF Typed
<1>9. CASE \E s \in SidesOf(t) : SetDoubleToken(t, s)
  <2>1. PICK s \in SidesOf(t) : SetDoubleToken(t, s)
    BY <1>9
  <2>2. PICK D \in SUBSET Side : D = IF s \in tour[t].doubled THEN tour[t].doubled \ {s} ELSE tour[t].doubled \cup {s}
    BY <1>1 DEF Match
  <2>3. tour' = [tour EXCEPT ![t].doubled = D] /\ clock' = clock
    BY <1>1, <2>1, <2>2 DEF SetDoubleToken
  <2>4. PICK m : m = [tour[t] EXCEPT !.doubled = D]
    OBVIOUS
  <2>5. m \in Match /\ m.winner = tour[t].winner /\ m.status = tour[t].status /\ m.at = tour[t].at
    BY <1>1, <2>4 DEF Match
  <2>6. tour' = [tour EXCEPT ![t] = m]
    BY <1>1, <2>3, <2>4 DEF Match
  <2>7. TablesOK' /\ OneAtATime'
    BY <1>1, <1>2, <2>3, <2>5, <2>6, ToursKeep DEF Typed
  <2> QED BY <1>2, <2>7, SameRequests DEF Typed
<1> QED BY <1>6, <1>7, <1>8, <1>9 DEF Prepares

LEMMA StayTyped ==
  ASSUME Typed, Stay, RequestsOK'
  PROVE  Typed'
  BY StayKeeps DEF Typed

LEMMA GuardTyped ==
  ASSUME Typed, NEW p \in Request, MatchGuard(p) \/ MatchFinished(p) \/ OldStatus(p)
  PROVE  Typed'
<1>1. Stay /\ load' = load /\ RequestsOK /\ ~Idle(p)
  BY DEF Typed, Stay, tables, MatchGuard, MatchFinished, OldStatus, Doing
<1>2. PICK q, r, h : q = req[p].todo /\ r = req[p] /\ h = It(p)
  OBVIOUS
<1>3. CASE MatchGuard(p)
  <2>1. Stop(p) \/ Next1(p)
    BY <1>3 DEF MatchGuard
  <2> QED BY <1>1, <2>1, StopKeeps, NextKeeps, StayTyped
<1>4. CASE MatchFinished(p)
  <2>1. Doing(p, "ended")
    BY <1>4 DEF MatchFinished
  <2>2. r \in Req /\ h \in Statement /\ h.op = "ended" /\ h = q[1]
    BY <1>1, <1>2, <2>1, DoingIs
  <2>3. h.t \in Tour
    BY <2>2, Fields DEF AboutMatch
  <2>4. tour[h.t] \in Match
    BY <2>3 DEF Typed, TablesOK, ToursOK
  <2>5. PICK v : v = [r EXCEPT !.winner = tour[h.t].winner, !.voided = tour[h.t].voided]
    OBVIOUS
  <2>6. v \in Req
    BY <2>2, <2>4, <2>5 DEF Req, Match
  <2>7. Stop(p) \/ GoOn(p, Rest(p), v)
    BY <1>2, <1>4, <2>5 DEF MatchFinished
  <2>8. req[p].todo[1].op \notin Pays
    BY <1>2, <2>2 DEF Pays
  <2> QED BY <1>1, <2>6, <2>7, <2>8, StopKeeps, RestKeeps, StayTyped
<1>5. CASE OldStatus(p)
  <2>1. Doing(p, "old")
    BY <1>5 DEF OldStatus
  <2>2. r \in Req /\ h \in Statement /\ h.op = "old" /\ h = q[1]
    BY <1>1, <1>2, <2>1, DoingIs
  <2>5. PICK v : v = [r EXCEPT !.voided = tour[h.t].status = "finished"]
    OBVIOUS
  <2>6. v \in Req
    BY <2>2, <2>5 DEF Req
  <2>7. Stop(p) \/ GoOn(p, Rest(p), v)
    BY <1>2, <1>5, <2>5 DEF OldStatus
  <2>8. req[p].todo[1].op \notin Pays
    BY <1>2, <2>2 DEF Pays
  <2> QED BY <1>1, <2>6, <2>7, <2>8, StopKeeps, RestKeeps, StayTyped
<1> QED BY <1>3, <1>4, <1>5

LEMMA ReadTyped ==
  ASSUME Typed, NEW p \in Request, LoadTournament(p) \/ ReadSum(p) \/ ReadRate(p) \/ ReadRule(p)
  PROVE  Typed'
<1>1. Stay /\ load' = load /\ RequestsOK /\ ~Idle(p) /\ TablesOK /\ active \in Seasons
  BY DEF Typed, Stay, tables, LoadTournament, ReadSum, ReadRate, ReadRule, Doing,
         TablesOK, SeasonsOK, Seasons
<1>2. PICK q, r, h : q = req[p].todo /\ r = req[p] /\ h = It(p)
  OBVIOUS
<1>3. CASE LoadTournament(p)
  <2>1. Doing(p, "load")
    BY <1>3 DEF LoadTournament
  <2>2. r \in Req /\ h \in Statement /\ h.op = "load" /\ h = q[1]
    BY <1>1, <1>2, <2>1, DoingIs
  <2>3. h.t \in Tour
    BY <2>2, Fields DEF AboutMatch
  <2>4. tour[h.t] \in Match
    BY <2>3 DEF Typed, TablesOK, ToursOK
  <2>5. PICK v : v = [r EXCEPT !.winner = tour[h.t].winner, !.voided = tour[h.t].voided]
    OBVIOUS
  <2>6. v \in Req
    BY <2>2, <2>4, <2>5 DEF Req, Match
  <2>7. Stop(p) \/ GoOn(p, Rest(p), v)
    BY <1>2, <1>3, <2>5 DEF LoadTournament
  <2>8. req[p].todo[1].op \notin Pays
    BY <1>2, <2>2 DEF Pays
  <2> QED BY <1>1, <2>6, <2>7, <2>8, StopKeeps, RestKeeps, StayTyped
<1>4. CASE ReadSum(p)
  <2>1. Doing(p, "sum")
    BY <1>4 DEF ReadSum
  <2>2. r \in Req /\ h \in Statement /\ h.op = "sum" /\ h = q[1]
    BY <1>1, <1>2, <2>1, DoingIs
  <2>4. SeasonMmr(history, h.s, active) \in Int
    BY <1>1, SeasonMmrInt
  <2>5. PICK n \in Int \cup {NoRow} :
          n = IF h.s \in Player /\ \A x \in RowsOf(history, h.s, active) : x.tour = NoTour
              THEN NoRow ELSE SeasonMmr(history, h.s, active)
    BY <2>4
  <2>6. PICK v : v = [r EXCEPT !.sum = n]
    OBVIOUS
  <2>7. v \in Req /\ v.winner = r.winner
    BY <2>2, <2>6 DEF Req
  <2>8. GoOn(p, Rest(p), v)
    BY <1>2, <1>4, <2>5, <2>6 DEF ReadSum
  <2>9. v.winner = req[p].winner
    BY <1>2, <2>7
  <2> QED BY <1>1, <2>7, <2>8, <2>9, RestKeeps, StayTyped
<1>5. CASE ReadRate(p)
  <2>1. Doing(p, "rate")
    BY <1>5 DEF ReadRate
  <2>2. r \in Req /\ h \in Statement /\ h.op = "rate" /\ h = q[1]
    BY <1>1, <1>2, <2>1, DoingIs
  <2>3. r.season \in Seasons
    BY <2>2 DEF Req
  <2>4. SeasonMmr(history, h.s, r.season) \in Int
    BY <1>1, <2>3, SeasonMmrInt
  <2>5. PICK i \in 1..2 : i = IF h.s = r.winner THEN 1 ELSE 2
    OBVIOUS
  <2>6. PICK v : v = [r EXCEPT !.rates[i] = SeasonMmr(history, h.s, r.season), !.pinned = tour[h.t].pinned]
    OBVIOUS
  <2>10. tour[h.t].pinned \in BOOLEAN
    <3>1. h.t \in Tour
      BY <2>2, Fields DEF Pays
    <3> QED BY <3>1 DEF Typed, TablesOK, ToursOK, Match
  <2>7. v \in Req /\ v.winner = r.winner
    BY <2>2, <2>4, <2>6, <2>10 DEF Req
  <2>8. GoOn(p, Rest(p), v)
    BY <1>2, <1>5, <2>5, <2>6 DEF ReadRate
  <2>9. v.winner = req[p].winner
    BY <1>2, <2>7
  <2> QED BY <1>1, <2>7, <2>8, <2>9, RestKeeps, StayTyped
<1>6. CASE ReadRule(p)
  <2>1. Doing(p, "rule")
    BY <1>6 DEF ReadRule
  <2>2. r \in Req
    BY <1>1, <1>2, <2>1, DoingIs
  <2>3. PICK v : v = [r EXCEPT !.season = active]
    OBVIOUS
  <2>4. v \in Req /\ v.winner = r.winner
    BY <1>1, <2>2, <2>3 DEF Req
  <2>5. Stop(p) \/ GoOn(p, Rest(p), v)
    BY <1>2, <1>6, <2>3 DEF ReadRule
  <2>6. v.winner = req[p].winner
    BY <1>2, <2>4
  <2> QED BY <1>1, <2>4, <2>5, <2>6, StopKeeps, RestKeeps, StayTyped
<1> QED BY <1>3, <1>4, <1>5, <1>6

LEMMA ToursAlone ==
  ASSUME TablesOK, OneAtATime, NEW t \in Tour, NEW m \in Match,
         m.winner \in SidesOf(t) \cup {NoSide}, m.status = "none" <=> tour[t].status = "none",
         m.at = tour[t].at, tour' = [tour EXCEPT ![t] = m],
         UNCHANGED <<resets, clock, whole, load>>
  PROVE  ToursOK' /\ OneAtATime'
<1>1. tour \in [Tour -> Match]
  BY DEF TablesOK, ToursOK
<1>2. \A x \in Tour : tour'[x].at = tour[x].at /\ (tour'[x].status # "none" <=> tour[x].status # "none")
  BY <1>1
<1>3. ToursOK'
  BY <1>1, <1>2 DEF TablesOK, ToursOK
<1>4. OneAtATime'
  BY <1>2 DEF OneAtATime, Past, Begun
<1> QED BY <1>3, <1>4

\* A statement that changes one match and goes on with a list that there can be.
LEMMA TourTyped ==
  ASSUME Typed, RequestsOK', NEW t \in Tour, NEW m \in Match,
         m.winner \in SidesOf(t) \cup {NoSide}, m.status = "none" <=> tour[t].status = "none",
         m.at = tour[t].at, tour' = [tour EXCEPT ![t] = m],
         UNCHANGED <<resets, seasons, active, start, history, cache, clock, whole, load>>
  PROVE  Typed'
  BY ToursKeep DEF Typed

LEMMA EndsTyped ==
  ASSUME Typed, NEW p \in Request, FinishMatch(p) \/ SetTournamentWinner(p) \/ RescoreFinishedMatch(p)
         \/ SetMatchVoided(p)
  PROVE  Typed'
<1>1. /\ load' = load /\ RequestsOK /\ ~Idle(p) /\ tour \in [Tour -> Match]
      /\ \A t \in Tour : tour[t].winner \in SidesOf(t) \cup {NoSide}
      /\ UNCHANGED <<resets, seasons, active, start, history, cache, clock, whole, load>>
  BY DEF Typed, FinishMatch, SetTournamentWinner, RescoreFinishedMatch, SetMatchVoided, Doing,
         TablesOK, ToursOK
<1>2. PICK q, r, h, t : q = req[p].todo /\ r = req[p] /\ h = It(p) /\ t = h.t
  OBVIOUS
<1>3. h.op \in {"close", "named", "rescore", "void"}
  BY <1>2 DEF FinishMatch, SetTournamentWinner, RescoreFinishedMatch, SetMatchVoided, Doing, It
<1>4. r \in Req /\ h \in Statement /\ h = q[1]
  BY <1>1, <1>2, HeadIs
<1>5. t \in Tour /\ (h.op = "named" => h.s \in SidesOf(t)) /\ SidesOf(t) \subseteq Side
  BY <1>2, <1>3, <1>4, Fields, TwoSides DEF AboutMatch
<1>6. tour[t] \in Match
  BY <1>1, <1>5
<1>7. /\ Listed(Apply(t), r.winner) /\ Listed(All, r.winner)
      /\ Listed(<<St("unpin", t, NoSide)>> \o All, r.winner)
  BY <1>5, StartMatch, StartAll
<1>8. GoOn(p, Apply(t), r) \/ GoOn(p, All, r) \/ GoOn(p, <<St("unpin", t, NoSide)>> \o All, r) \/ Stop(p)
        => RequestsOK'
  BY <1>1, <1>4, <1>7, GoKeeps, StopKeeps
<1>9. UNCHANGED tour /\ RequestsOK' => Typed'
  <2>1. UNCHANGED tour => Stay
    BY <1>1 DEF Stay
  <2> QED BY <2>1, StayTyped
<1>10. CASE FinishMatch(p)
  <2>1. CASE ~There(t)
    BY <1>2, <1>8, <1>9, <1>10, <2>1 DEF FinishMatch
  <2>2. CASE There(t)
    <3>1. PICK w \in SidesOf(t) \cup {NoSide} :
            tour' = [tour EXCEPT ![t].status = "finished", ![t].winner = w]
      BY <1>2, <1>10, <2>2 DEF FinishMatch
    <3>2. PICK m : m = [tour[t] EXCEPT !.status = "finished", !.winner = w]
      OBVIOUS
    <3>3. m \in Match /\ m.status = "finished" /\ m.winner = w /\ m.at = tour[t].at
      BY <1>5, <1>6, <3>2 DEF Match
    <3>4. tour' = [tour EXCEPT ![t] = m]
      BY <1>1, <1>5, <1>6, <3>1, <3>2 DEF Match
    <3>5. RequestsOK'
      BY <1>2, <1>8, <1>10, <2>2 DEF FinishMatch
    <3>6. tour[t].status # "none"
      BY <2>2 DEF There
    <3> QED BY <1>1, <1>5, <3>3, <3>4, <3>5, <3>6, TourTyped
  <2> QED BY <2>1, <2>2
<1>11. CASE SetTournamentWinner(p)
  <2>1. CASE ~There(t)
    BY <1>2, <1>8, <1>9, <1>11, <2>1 DEF SetTournamentWinner
  <2>2. CASE There(t)
    <3>1. tour' = [tour EXCEPT ![t].status = "finished", ![t].winner = h.s]
      BY <1>2, <1>11, <2>2 DEF SetTournamentWinner
    <3>2. PICK m : m = [tour[t] EXCEPT !.status = "finished", !.winner = h.s]
      OBVIOUS
    <3>7. h.s \in SidesOf(t)
      BY <1>2, <1>5, <1>11 DEF SetTournamentWinner, Doing, It
    <3>3. m \in Match /\ m.status = "finished" /\ m.winner = h.s /\ m.at = tour[t].at
      BY <1>5, <1>6, <3>2, <3>7 DEF Match
    <3>4. tour' = [tour EXCEPT ![t] = m]
      BY <1>1, <1>5, <1>6, <3>1, <3>2 DEF Match
    <3>5. RequestsOK'
      BY <1>2, <1>8, <1>11, <2>2 DEF SetTournamentWinner
    <3>6. tour[t].status # "none"
      BY <2>2 DEF There
    <3> QED BY <1>1, <1>5, <3>3, <3>4, <3>5, <3>6, <3>7, TourTyped
  <2> QED BY <2>1, <2>2
<1>12. CASE RescoreFinishedMatch(p)
  <2>1. PICK w \in SidesOf(t) \cup {NoSide} :
          tour' = [tour EXCEPT ![t].winner = IF There(t) THEN w ELSE NoSide]
    BY <1>2, <1>12 DEF RescoreFinishedMatch
  <2>2. PICK v \in SidesOf(t) \cup {NoSide} : v = IF There(t) THEN w ELSE NoSide
    OBVIOUS
  <2>3. PICK m : m = [tour[t] EXCEPT !.winner = v]
    OBVIOUS
  <2>4. m \in Match /\ m.status = tour[t].status /\ m.winner = v /\ m.at = tour[t].at
    BY <1>5, <1>6, <2>3 DEF Match
  <2>5. tour' = [tour EXCEPT ![t] = m]
    BY <1>1, <1>5, <1>6, <2>1, <2>2, <2>3 DEF Match
  <2>6. RequestsOK'
    BY <1>2, <1>8, <1>12 DEF RescoreFinishedMatch
  <2> QED BY <1>1, <1>5, <2>2, <2>4, <2>5, <2>6, TourTyped
<1>13. CASE SetMatchVoided(p)
  <2>1. CASE UNCHANGED tour /\ Stop(p)
    BY <1>8, <1>9, <2>1
  <2>2. CASE tour' = [tour EXCEPT ![t].voided = ~r.voided] /\ GoOn(p, All, r)
    <3>1. PICK m : m = [tour[t] EXCEPT !.voided = ~r.voided]
      OBVIOUS
    <3>2. m \in Match /\ m.status = tour[t].status /\ m.winner = tour[t].winner /\ m.at = tour[t].at
      BY <1>6, <3>1 DEF Match
    <3>3. tour' = [tour EXCEPT ![t] = m]
      BY <1>1, <1>5, <1>6, <2>2, <3>1 DEF Match
    <3>4. m.winner \in SidesOf(t) \cup {NoSide}
      BY <1>1, <1>5, <3>2
    <3> QED BY <1>1, <1>5, <1>8, <2>2, <3>2, <3>3, <3>4, TourTyped
  <2> QED BY <1>2, <1>13, <2>1, <2>2 DEF SetMatchVoided
<1> QED BY <1>10, <1>11, <1>12, <1>13

LEMMA StatusTyped ==
  ASSUME Typed, NEW p \in Request, UpdateStatus(p) \/ SetWinnerTop(p) \/ ClearWinner(p) \/ ClearPins(p)
  PROVE  Typed'
<1>1. /\ load' = load /\ RequestsOK /\ ~Idle(p) /\ tour \in [Tour -> Match]
      /\ \A t \in Tour : tour[t].winner \in SidesOf(t) \cup {NoSide}
      /\ UNCHANGED <<resets, seasons, active, start, history, cache, clock, whole, load>>
  BY DEF Typed, UpdateStatus, SetWinnerTop, ClearWinner, ClearPins, Doing, TablesOK, ToursOK
<1>2. PICK q, r, h, t : q = req[p].todo /\ r = req[p] /\ h = It(p) /\ t = h.t
  OBVIOUS
<1>3. h.op \in {"finished", "upcoming", "top", "unwin", "unpin"}
  BY <1>2 DEF UpdateStatus, SetWinnerTop, ClearWinner, ClearPins, Doing, It
<1>4. r \in Req /\ h \in Statement /\ h = q[1]
  BY <1>1, <1>2, HeadIs
<1>5. t \in Tour /\ SidesOf(t) \subseteq Side
  BY <1>2, <1>3, <1>4, Fields, TwoSides DEF AboutMatch
<1>6. tour[t] \in Match /\ tour[t].winner \in SidesOf(t) \cup {NoSide}
  BY <1>1, <1>5
<1>9. UNCHANGED tour /\ RequestsOK' => Typed'
  <2>1. UNCHANGED tour => Stay
    BY <1>1 DEF Stay
  <2> QED BY <2>1, StayTyped
<1>10. CASE UpdateStatus(p)
  <2>1. PICK x, y : x = <<St("top", t, NoSide)>> \o Apply(t) /\ y = Revert(t) \o <<St("unwin", t, NoSide)>>
    OBVIOUS
  <2>2. Listed(x, r.winner) /\ Listed(y, r.winner)
    BY <1>5, <2>1, StartMatch
  <2>3. GoOn(p, x, r) \/ GoOn(p, y, r) \/ Stop(p)
    BY <1>2, <1>10, <2>1 DEF UpdateStatus
  <2>4. RequestsOK'
    BY <1>1, <1>4, <2>2, <2>3, GoKeeps, StopKeeps
  <2>5. CASE ~There(t)
    BY <1>2, <1>9, <1>10, <2>4, <2>5 DEF UpdateStatus
  <2>6. CASE There(t)
    <3>1. tour' = [tour EXCEPT ![t].status = h.op] /\ h.op \in {"finished", "upcoming"}
      BY <1>2, <1>10, <2>6 DEF UpdateStatus, Doing, It
    <3>2. PICK m : m = [tour[t] EXCEPT !.status = h.op]
      OBVIOUS
    <3>3. m \in Match /\ m.status = h.op /\ m.winner = tour[t].winner /\ m.at = tour[t].at
      BY <1>6, <3>1, <3>2 DEF Match
    <3>4. tour' = [tour EXCEPT ![t] = m]
      BY <1>1, <1>5, <1>6, <3>1, <3>2 DEF Match
    <3>6. tour[t].status # "none"
      BY <2>6 DEF There
    <3> QED BY <1>1, <1>5, <1>6, <2>4, <3>1, <3>3, <3>4, <3>6, TourTyped
  <2> QED BY <2>5, <2>6
<1>11. CASE SetWinnerTop(p)
  <2>1. RequestsOK'
    BY <1>1, <1>11, NextKeeps DEF SetWinnerTop
  <2>2. PICK w \in SidesOf(t) : tour' = IF There(t) THEN [tour EXCEPT ![t].winner = w] ELSE tour
    BY <1>2, <1>11 DEF SetWinnerTop
  <2>3. CASE ~There(t)
    BY <1>9, <2>1, <2>2, <2>3
  <2>4. CASE There(t)
    <3>2. PICK m : m = [tour[t] EXCEPT !.winner = w]
      OBVIOUS
    <3>3. m \in Match /\ m.status = tour[t].status /\ m.winner = w /\ m.at = tour[t].at
      BY <1>5, <1>6, <3>2 DEF Match
    <3>4. tour' = [tour EXCEPT ![t] = m]
      BY <1>1, <1>5, <1>6, <2>2, <2>4, <3>2 DEF Match
    <3> QED BY <1>1, <1>5, <1>6, <2>1, <3>3, <3>4, TourTyped
  <2> QED BY <2>3, <2>4
<1>12. CASE ClearWinner(p)
  <2>1. RequestsOK'
    BY <1>1, <1>12, NextKeeps DEF ClearWinner
  <2>2. PICK m : m = [tour[t] EXCEPT !.winner = NoSide]
    OBVIOUS
  <2>3. m \in Match /\ m.status = tour[t].status /\ m.winner = NoSide /\ m.at = tour[t].at
    BY <1>6, <2>2 DEF Match
  <2>4. tour' = [tour EXCEPT ![t] = m]
    BY <1>1, <1>2, <1>5, <1>6, <1>12, <2>2 DEF Match, ClearWinner
  <2> QED BY <1>1, <1>5, <1>6, <2>1, <2>3, <2>4, TourTyped
<1>13. CASE ClearPins(p)
  <2>1. RequestsOK'
    BY <1>1, <1>13, NextKeeps DEF ClearPins
  <2>2. PICK m : m = [tour[t] EXCEPT !.pinned = FALSE]
    OBVIOUS
  <2>3. m \in Match /\ m.status = tour[t].status /\ m.winner = tour[t].winner /\ m.at = tour[t].at
    BY <1>6, <2>2 DEF Match
  <2>4. tour' = [tour EXCEPT ![t] = m]
    BY <1>1, <1>2, <1>5, <1>6, <1>13, <2>2 DEF Match, ClearPins
  <2> QED BY <1>1, <1>5, <1>6, <2>1, <2>3, <2>4, TourTyped
<1> QED BY <1>10, <1>11, <1>12, <1>13

LEMMA RowsTyped ==
  ASSUME Typed, RequestsOK', HistoryOK', CacheOK',
         UNCHANGED <<tour, resets, seasons, active, start, clock, load>>, whole' \in BOOLEAN
  PROVE  Typed'
  BY HistoryKeeps DEF Typed

LEMMA FewerRows ==
  ASSUME HistoryOK, history' \subseteq history
  PROVE  HistoryOK'
<1>1. IsFiniteSet(history')
  BY FS_Subset DEF HistoryOK
<1>2. HistoryRow' = HistoryRow
  BY DEF HistoryRow
<1> QED BY <1>1, <1>2 DEF HistoryOK

LEMMA OneMoreRow ==
  ASSUME HistoryOK, NEW x \in HistoryRow, history' = history \cup {x},
         x.tour = NoTour \/ \A y \in history : ~(y.tour = x.tour /\ y.side = x.side)
  PROVE  HistoryOK'
<1>1. IsFiniteSet(history')
  BY FS_AddElement DEF HistoryOK
<1>2. HistoryRow' = HistoryRow
  BY DEF HistoryRow
<1> QED BY <1>1, <1>2 DEF HistoryOK

LEMMA DeleteTyped ==
  ASSUME Typed, NEW p \in Request, DeleteTournament(p)
  PROVE  Typed'
<1>1. /\ load' = load /\ RequestsOK /\ ~Idle(p) /\ tour \in [Tour -> Match] /\ TablesOK /\ OneAtATime
      /\ UNCHANGED <<resets, seasons, active, start, cache, clock, whole, load>>
  BY DEF Typed, DeleteTournament, Doing, TablesOK, ToursOK
<1>2. PICK q, r, h, t : q = req[p].todo /\ r = req[p] /\ h = It(p) /\ t = h.t
  OBVIOUS
<1>3. h.op = "delete"
  BY <1>2 DEF DeleteTournament, Doing, It
<1>4. r \in Req /\ h \in Statement /\ h = q[1]
  BY <1>1, <1>2, HeadIs
<1>5. t \in Tour
  BY <1>2, <1>3, <1>4, Fields
<1>6. RequestsOK'
  BY <1>1, StopKeeps DEF DeleteTournament
<1>7. HistoryOK'
  BY FewerRows DEF Typed, TablesOK, DeleteTournament
<1>8. SeasonsOK' /\ CacheOK'
  BY <1>1 DEF TablesOK, SeasonsOK, CacheOK
<1>9. ToursOK' /\ OneAtATime'
  <2>1. CASE ~There(t)
    <3>1. tour' = tour
      BY <1>2, <2>1 DEF DeleteTournament
    <3> QED BY <1>1, <3>1 DEF TablesOK, ToursOK, OneAtATime, Past, Begun
  <2>2. CASE There(t)
    <3>1. tour' = [tour EXCEPT ![t].status = "gone", ![t].winner = NoSide]
      BY <1>2, <2>2 DEF DeleteTournament
    <3>2. PICK m : m = [tour[t] EXCEPT !.status = "gone", !.winner = NoSide]
      OBVIOUS
    <3>3. m \in Match /\ m.status = "gone" /\ m.winner = NoSide /\ m.at = tour[t].at
      BY <1>1, <1>5, <3>2 DEF Match
    <3>4. tour' = [tour EXCEPT ![t] = m]
      BY <1>1, <1>5, <3>1, <3>2 DEF Match
    <3>5. tour[t].status # "none"
      BY <2>2 DEF There
    <3> QED BY <1>1, <1>5, <3>3, <3>4, <3>5, ToursAlone
  <2> QED BY <2>1, <2>2
<1> QED BY <1>6, <1>7, <1>8, <1>9 DEF Typed, TablesOK

LEMMA CacheTyped ==
  ASSUME Typed, NEW p \in Request,
         WriteCache(p) \/ ClearCache(p) \/ FillCache(p) \/ FillTeams(p) \/ SyncPatches(p)
  PROVE  Typed'
<1>1. /\ load' = load /\ RequestsOK /\ ~Idle(p) /\ Next1(p) /\ TablesOK
      /\ UNCHANGED <<tour, resets, seasons, active, start, history, clock, load>>
      /\ whole' \in BOOLEAN /\ cache \in [Side -> Int \cup {NoRow}] /\ active \in Seasons
  BY DEF Typed, WriteCache, ClearCache, FillCache, FillTeams, SyncPatches, Doing, tables, TablesOK,
         ToursOK, CacheOK, SeasonsOK, Seasons
<1>2. RequestsOK'
  BY <1>1, NextKeeps
<1>3. HistoryOK'
  BY <1>1 DEF TablesOK, HistoryOK
<1>4. \A s : SeasonMmr(history, s, active) \in Int
  BY <1>1, SeasonMmrInt
<1>5. CacheOK'
  <2>1. CASE WriteCache(p)
    <3>1. req[p].sum \in Int \cup {NoRow}
      BY <1>1 DEF RequestsOK, Req
    <3> QED BY <1>1, <2>1, <3>1 DEF WriteCache, CacheOK
  <2>2. CASE ClearCache(p)
    BY <1>1, <2>2 DEF ClearCache, CacheOK
  <2>3. CASE FillCache(p)
    BY <1>1, <1>4, <2>3 DEF FillCache, CacheOK
  <2>4. CASE FillTeams(p)
    BY <1>1, <1>4, <2>4 DEF FillTeams, CacheOK
  <2>5. CASE SyncPatches(p)
    BY <1>1, <2>5 DEF SyncPatches, CacheOK
  <2> QED BY <2>1, <2>2, <2>3, <2>4, <2>5
<1> QED BY <1>1, <1>2, <1>3, <1>5, RowsTyped

LEMMA WipeTyped ==
  ASSUME Typed, NEW p \in Request, WipeRows(p) \/ TruncateAll(p)
  PROVE  Typed'
<1>1. /\ load' = load /\ RequestsOK /\ ~Idle(p) /\ Next1(p)
      /\ UNCHANGED <<tour, resets, seasons, active, start, clock, load>>
      /\ whole' \in BOOLEAN /\ HistoryOK /\ CacheOK
  BY DEF Typed, WipeRows, TruncateAll, Doing, tables, TablesOK, ToursOK
<1>2. RequestsOK'
  BY <1>1, NextKeeps
<1>3. HistoryOK'
  <2>1. history' \subseteq history
    BY DEF WipeRows, TruncateAll
  <2> QED BY <1>1, <2>1, FewerRows
<1>4. CacheOK'
  BY <1>1 DEF WipeRows, TruncateAll, CacheOK
<1> QED BY <1>1, <1>2, <1>3, <1>4, RowsTyped

\* The rows a match and a reset leave.
LEMMA ResetRowIs ==
  ASSUME TablesOK, NEW e, e.s \in Side, e.season \in Seasons, e.at \in Nat
  PROVE  ResetRow(history, e) \in HistoryRow /\ ResetRow(history, e).tour = NoTour
         /\ ResetRow(history, e).side = e.s
<1>1. PICK a, b \in Int : a = StartOf(e.season) /\ b = SeasonMmr(history, e.s, e.season)
  BY SeasonMmrInt
<1>2. ResetRow(history, e) = [side |-> e.s, tour |-> NoTour, delta |-> a - b, before |-> b,
                              season |-> e.season, at |-> e.at]
  BY <1>1 DEF ResetRow, Row
<1> QED BY <1>1, <1>2 DEF HistoryRow

LEMMA ApplyResetTyped ==
  ASSUME Typed, NEW p \in Request, ApplyReset(p)
  PROVE  Typed'
<1>1. /\ load' = load /\ RequestsOK /\ ~Idle(p) /\ Next1(p) /\ TablesOK
      /\ UNCHANGED <<tour, resets, seasons, active, start, cache, clock, load>>
      /\ whole' \in BOOLEAN /\ HistoryOK
  BY DEF Typed, ApplyReset, Doing, tables, TablesOK, ToursOK
<1>2. RequestsOK'
  BY <1>1, NextKeeps
<1>3. PICK q, r, h : q = req[p].todo /\ r = req[p] /\ h = It(p)
  OBVIOUS
<1>4. h \in Statement /\ h.op = "again"
  BY <1>1, <1>3, HeadIs DEF ApplyReset, Doing, It
<1>5. PICK e : e = h.s
  OBVIOUS
<1>6. e \in Event
  BY <1>4, <1>5, Fields
<1>7. e.s \in Side /\ e.season \in Seasons /\ e.at \in Nat
  BY <1>6 DEF Event, Side
<1>8. PICK x : x = ResetRow(history, e)
  OBVIOUS
<1>9. x \in HistoryRow /\ x.tour = NoTour
  BY <1>1, <1>7, <1>8, ResetRowIs
<1>10. history' = history \cup {x}
  BY <1>3, <1>5, <1>8 DEF ApplyReset
<1>11. HistoryOK'
  BY <1>1, <1>9, <1>10, OneMoreRow
<1>12. CacheOK'
  BY <1>1 DEF TablesOK, CacheOK
<1> QED BY <1>1, <1>2, <1>11, <1>12, RowsTyped

LEMMA ChangeInt ==
  ASSUME NEW t \in Tour, NEW m, NEW s \in Side, NEW g \in Int
  PROVE  Change(t, m, s, g) \in Int
<1>1. Imported[t][s] \in Int
  BY RatingAssumption
<1>2. Doubled(m, s, g) \in Int /\ Doubled(m, s, -g) \in Int
  BY DEF Doubled
<1> QED BY <1>1, <1>2 DEF Change

LEMMA InsertTyped ==
  ASSUME Typed, NEW p \in Request, InsertHistory(p)
  PROVE  Typed'
<1>1. /\ load' = load /\ RequestsOK /\ ~Idle(p) /\ Doing(p, "insert")
      /\ UNCHANGED <<tour, resets, seasons, active, start, cache, clock, load>>
      /\ whole' \in BOOLEAN /\ HistoryOK /\ tour \in [Tour -> Match]
  BY DEF Typed, InsertHistory, Doing, tables, TablesOK, ToursOK
<1>2. PICK q, r, h, t : q = req[p].todo /\ r = req[p] /\ h = It(p) /\ t = h.t
  OBVIOUS
<1>3. r \in Req /\ h \in Statement /\ h.op = "insert" /\ h = q[1]
  BY <1>1, <1>2, DoingIs
<1>4. t \in Tour /\ h.s \in Side
  BY <1>2, <1>3, Fields DEF Pays
<1>5. RequestsOK'
  <2>1. Stop(p) \/ Next1(p)
    BY DEF InsertHistory
  <2> QED BY <1>1, <2>1, StopKeeps, NextKeeps
<1>6. PICK w, g, d, b : /\ w = (h.s = r.winner) /\ g = Gain(r.rates[1], r.rates[2])
                     /\ d = Change(t, r, h.s, g)
                     /\ b = r.rates[IF w THEN 1 ELSE 2]
  OBVIOUS
<1>7. g \in Int /\ d \in Int /\ b \in Int
  <2>1. g \in Int
    BY <1>6 DEF Gain
  <2>2. b \in Int
    BY <1>3, <1>6 DEF Req
  <2> QED BY <1>4, <1>6, <2>1, <2>2, ChangeInt
<1>8. PICK x : x = Row(h.s, t, d, b, r.season, tour[t].at)
  OBVIOUS
<1>9. x \in HistoryRow /\ x.tour = t /\ x.side = h.s
  BY <1>1, <1>3, <1>4, <1>7, <1>8 DEF Row, HistoryRow, Req, Match
<1>10. \/ history' = history
       \/ history' = history \cup {x} /\ ~\E y \in history : y.tour = t /\ y.side = h.s
  BY <1>2, <1>6, <1>8 DEF InsertHistory
<1>11. HistoryOK'
  <2>1. CASE history' = history
    BY <1>1, <2>1, FewerRows
  <2>2. CASE history' = history \cup {x} /\ ~\E y \in history : y.tour = t /\ y.side = h.s
    BY <1>1, <1>9, <2>2, OneMoreRow
  <2> QED BY <1>10, <2>1, <2>2
<1>12. CacheOK'
  BY <1>1 DEF Typed, TablesOK, CacheOK
<1> QED BY <1>1, <1>5, <1>11, <1>12, RowsTyped

-------------------------------------------------------------------------------
(* The statements that put other statements on the list.                   *)

HadRows(t) == {x.side : x \in {y \in history : y.tour = t}}

LEMMA HadRowsAre ==
  ASSUME HistoryOK, NEW t
  PROVE  /\ IsFiniteSet(HadRows(t)) /\ HadRows(t) \subseteq Side
         /\ SetToSeq(HadRows(t)) \in Seq(Side)
         /\ \A s \in HadRows(t) : \E i \in 1..Len(SetToSeq(HadRows(t))) : SetToSeq(HadRows(t))[i] = s
<1>1. PICK S : S = {y \in history : y.tour = t}
  OBVIOUS
<1>2. IsFiniteSet(S)
  BY <1>1, FS_Subset DEF HistoryOK
<1>3. PICK V : V = HadRows(t)
  OBVIOUS
<1>4. V = {x.side : x \in S} /\ V \subseteq Side
  BY <1>1, <1>3 DEF HadRows, HistoryOK, HistoryRow
<1>5. PICK f : f = [x \in S |-> x.side]
  OBVIOUS
<1>6. f \in Surjection(S, V)
  BY <1>4, <1>5 DEF Surjection
<1>7. IsFiniteSet(V)
  BY <1>2, <1>6, FS_Surjection
<1>8. SetToSeq(V) \in Seq(V) /\ \A s \in V : \E i \in 1..Len(SetToSeq(V)) : SetToSeq(V)[i] = s
  BY <1>7, SeqOfSet
<1>9. SetToSeq(V) \in Seq(Side)
  BY <1>4, <1>8
<1> QED BY <1>3, <1>4, <1>7, <1>8, <1>9

\* The list when the rows of a match are read.
Spread(q) ==
  LET had == SetToSeq(HadRows(q[1].t)) IN
  <<q[2]>> \o FlattenSeq([i \in 1..Len(had) |-> Cached(had[i])]) \o Tail(Tail(q))

LEMMA SelectIs ==
  ASSUME Typed, NEW p \in Request, SelectRows(p), NEW q, q = req[p].todo
  PROVE  /\ Listed(q, req[p].winner) /\ q # <<>> /\ q[1].op = "rows"
         /\ GoOn(p, Spread(q), req[p])
         /\ \E c : /\ Caching(c) /\ Spread(q) = (<<q[2]>> \o c) \o Tail(Tail(q))
                   /\ \A s \in HadRows(q[1].t) : Written(c, s)
<1>1. /\ RequestsOK /\ HistoryOK /\ Doing(p, "rows")
  BY DEF Typed, TablesOK, SelectRows
<1>2. PICK h, r : h = It(p) /\ r = req[p]
  OBVIOUS
<1>3. /\ Listed(q, r.winner) /\ q # <<>> /\ h = q[1] /\ h.op = "rows" /\ Rest(p) = Tail(q)
      /\ q \in Seq(Statement)
  BY <1>1, <1>2, DoingIs
<1>4. Len(q) \in Nat \ {0}
  BY <1>3, EmptySeq
<1>5. Len(q) > 1
  BY <1>3, <1>4 DEF Listed, Linked, Leaders
<1>6. Head(Tail(q)) = q[2]
  <2>1. Tail(q) \in Seq(Statement) /\ Len(Tail(q)) = Len(q) - 1 /\ \A i \in 1..Len(Tail(q)) : Tail(q)[i] = q[i+1]
    BY <1>3, HeadTailProperties
  <2>2. Tail(q)[1] = q[2]
    BY <1>4, <1>5, <2>1
  <2>3. Head(Tail(q)) = Tail(q)[1]
    BY <1>4, <1>5, <2>1
  <2> QED BY <2>2, <2>3
<1>7. PICK had : had = SetToSeq(HadRows(q[1].t))
  OBVIOUS
<1>8. had \in Seq(Side) /\ \A s \in HadRows(q[1].t) : \E i \in 1..Len(had) : had[i] = s
  BY <1>1, <1>7, HadRowsAre
<1>9. PICK c : c = FlattenSeq([i \in 1..Len(had) |-> Cached(had[i])])
  OBVIOUS
<1>10. Caching(c) /\ \A i \in 1..Len(had) : Written(c, had[i])
  BY <1>8, <1>9, CachingAll
<1>11. Spread(q) = (<<q[2]>> \o c) \o Tail(Tail(q))
  BY <1>7, <1>9 DEF Spread
<1>12. had = SetToSeq({x.side : x \in {y \in history : y.tour = It(p).t}})
  BY <1>2, <1>3, <1>7 DEF HadRows
<1>13. GoOn(p, <<Head(Rest(p))>> \o c \o Tail(Rest(p)), req[p])
  BY <1>9, <1>12 DEF SelectRows
<1>14. GoOn(p, Spread(q), req[p])
  BY <1>3, <1>6, <1>11, <1>13
<1>15. \A s \in HadRows(q[1].t) : Written(c, s)
  BY <1>8, <1>10
<1> QED BY <1>2, <1>3, <1>10, <1>11, <1>14, <1>15

LEMMA SelectTyped ==
  ASSUME Typed, NEW p \in Request, SelectRows(p)
  PROVE  Typed'
<1>1. load' = load /\ RequestsOK /\ Stay
  BY DEF Typed, SelectRows, tables, Stay
<1>2. PICK q, r : q = req[p].todo /\ r = req[p]
  OBVIOUS
<1>3. PICK c : /\ Listed(q, r.winner) /\ q # <<>> /\ q[1].op = "rows" /\ GoOn(p, Spread(q), r)
               /\ Caching(c) /\ Spread(q) = (<<q[2]>> \o c) \o Tail(Tail(q))
  BY <1>2, SelectIs
<1>4. Listed(Spread(q), r.winner)
  BY <1>3, ListedRows
<1>5. r \in Req
  BY <1>1, <1>2 DEF RequestsOK
<1> QED BY <1>1, <1>3, <1>4, <1>5, GoKeeps, StayTyped

LEMMA ListTyped ==
  ASSUME Typed, NEW p \in Request, ListEvents(p)
  PROVE  Typed'
<1>1. load' = load /\ RequestsOK /\ Stay
  BY DEF Typed, ListEvents, tables, Stay
<1>2. PICK r, list : r = req[p] /\ list = InOrder
  OBVIOUS
<1>3. r \in Req
  BY <1>1, <1>2 DEF RequestsOK
<1>4. list \in Seq(Countable)
  BY <1>2, InOrderIs
<1>5. Listed(Counting(list), r.winner)
  BY <1>4, ListedCounting
<1>6. GoOn(p, Counting(list), r)
  BY <1>2 DEF ListEvents
<1> QED BY <1>1, <1>3, <1>5, <1>6, GoKeeps, StayTyped

\* What a match that somebody won puts on the list.
Skips(w, t) == w = NoSide \/ SidesOf(t) \cap Guest # {}
Awarding(r, t) == [r EXCEPT !.season = tour[t].season, !.doubled = tour[t].doubled]

LEMMA AwardIs ==
  ASSUME Typed, NEW p \in Request, Award(p), NEW q, q = req[p].todo, NEW r, r = req[p],
         NEW w, w = r.winner, NEW v,
         v = Awarding(r, It(p).t)
  PROVE  /\ Listed(q, w) /\ q # <<>> /\ q[1].op = "award" /\ q[1].t \in Tour
         /\ w \in Side \cup {NoSide} /\ Rest(p) = Tail(q)
         /\ v \in Req /\ v.winner = w /\ v.voided = r.voided /\ v.rates = r.rates
         /\ v.doubled = tour[q[1].t].doubled
         /\ Skips(w, q[1].t) => Next1(p) /\ UNCHANGED cache
         /\ ~Skips(w, q[1].t) => GoOn(p, Payment(w, q[1].t) \o Tail(q), v)
<1>1. RequestsOK /\ Doing(p, "award")
  BY DEF Typed, Award
<1>2. PICK h, t : h = It(p) /\ t = h.t
  OBVIOUS
<1>3. /\ Listed(q, w) /\ q # <<>> /\ h = q[1] /\ h.op = "award" /\ Rest(p) = Tail(q)
      /\ q \in Seq(Statement) /\ r \in Req /\ h \in Statement
  BY <1>1, <1>2, DoingIs
<1>4. t \in Tour /\ w \in Side \cup {NoSide}
  BY <1>2, <1>3, Fields DEF AboutMatch, Req
<1>7. /\ v \in Req /\ v.winner = w /\ v.voided = r.voided /\ v.rates = r.rates /\ v.doubled = tour[t].doubled
  <2>1. tour[t] \in Match
    BY <1>4 DEF Typed, TablesOK, ToursOK
  <2> QED BY <1>2, <1>3, <2>1 DEF Req, Match, Awarding
<1>5. ASSUME ~Skips(w, t) PROVE GoOn(p, Payment(w, t) \o Tail(q), v)
  <2>1. GoOn(p, <<St("rate", t, w), St("rate", t, Loser(w, t)), St("insert", t, w),
                  St("insert", t, Loser(w, t))>> \o Cached(w) \o Cached(Loser(w, t)) \o Rest(p), v)
    BY <1>2, <1>5 DEF Award, Loser, Skips, Awarding
  <2>2. PICK z : z = Tail(q)
    OBVIOUS
  <2>3. z \in Seq(Statement) /\ Rest(p) = z
    BY <1>3, <2>2
  <2>4. w \in Side
    BY <1>4, <1>5 DEF Skips
  <2>5. <<St("rate", t, w), St("rate", t, Loser(w, t)), St("insert", t, w), St("insert", t, Loser(w, t))>>
          \o Cached(w) \o Cached(Loser(w, t)) \o z = Payment(w, t) \o z
    BY <1>4, <2>3, <2>4, PaymentOf
  <2> HIDE DEF Payment
  <2>6. GoOn(p, Payment(w, t) \o z, v)
    BY <2>1, <2>3, <2>5
  <2> QED BY <2>2, <2>6
<1>6. Skips(w, t) => Next1(p) /\ UNCHANGED cache
  BY <1>2 DEF Award, Skips
<1> QED BY <1>2, <1>3, <1>4, <1>5, <1>6, <1>7

LEMMA AwardTyped ==
  ASSUME Typed, NEW p \in Request, Award(p)
  PROVE  Typed'
<1>1. /\ load' = load /\ RequestsOK /\ ~Idle(p)
      /\ UNCHANGED <<tour, resets, seasons, active, start, history, clock, load>>
      /\ whole' \in BOOLEAN /\ cache \in [Side -> Int \cup {NoRow}]
  BY DEF Typed, Award, tables, TablesOK, ToursOK, CacheOK, Doing
<1>2. PICK q, r, w, v : /\ q = req[p].todo /\ r = req[p] /\ w = r.winner
                        /\ v = Awarding(r, It(p).t)
  OBVIOUS
<1>3. /\ Listed(q, w) /\ q # <<>> /\ q[1].op = "award" /\ q[1].t \in Tour
      /\ w \in Side \cup {NoSide} /\ v \in Req /\ v.winner = w
      /\ Skips(w, q[1].t) => Next1(p) /\ UNCHANGED cache
      /\ ~Skips(w, q[1].t) => GoOn(p, Payment(w, q[1].t) \o Tail(q), v)
  BY <1>2, AwardIs
<1>5. RequestsOK'
  <2>1. CASE Skips(w, q[1].t)
    BY <1>1, <1>3, <2>1, NextKeeps
  <2>2. CASE ~Skips(w, q[1].t)
    <3>1. Listed(Payment(w, q[1].t) \o Tail(q), w)
      BY <1>3, <2>2, ListedAward DEF Skips
    <3>2. Listed(Payment(w, q[1].t) \o Tail(q), v.winner)
      BY <1>3, <3>1
    <3> QED BY <1>1, <1>3, <2>2, <3>2, GoKeeps
  <2> QED BY <2>1, <2>2
<1>6. CacheOK'
  BY <1>1 DEF Award, CacheOK
<1>7. HistoryOK'
  BY <1>1 DEF Typed, TablesOK, HistoryOK
<1> QED BY <1>1, <1>5, <1>6, <1>7, RowsTyped

-------------------------------------------------------------------------------
(* Seasons and resets.                                                     *)

LEMMA SeasonTyped ==
  ASSUME Typed, NEW p \in Request, StartNewSeason(p) \/ UpdateSeason(p)
  PROVE  Typed'
<1>1. /\ load' = load /\ RequestsOK /\ ~Idle(p) /\ TablesOK /\ OneAtATime
      /\ UNCHANGED <<tour, resets, history, cache, clock, whole, load>>
      /\ load.seasons \subseteq Season
  BY RatingAssumption DEF Typed, StartNewSeason, UpdateSeason, Doing, TablesOK, ToursOK
<1>2. RequestsOK'
  <2>1. Stop(p) \/ Next1(p)
    BY DEF StartNewSeason, UpdateSeason
  <2> QED BY <1>1, <2>1, StopKeeps, NextKeeps
<1>3. SeasonsOK'
  <2>1. CASE StartNewSeason(p)
    BY <1>1, <2>1 DEF StartNewSeason, TablesOK, SeasonsOK
  <2>2. CASE UpdateSeason(p)
    BY <1>1, <2>2 DEF UpdateSeason, TablesOK, SeasonsOK
  <2> QED BY <2>1, <2>2
<1>4. ToursOK' /\ HistoryOK' /\ CacheOK' /\ OneAtATime'
  BY <1>1 DEF TablesOK, ToursOK, HistoryOK, CacheOK, OneAtATime, Past, Begun
<1> QED BY <1>2, <1>3, <1>4 DEF Typed, TablesOK

LEMMA ResetTyped ==
  ASSUME Typed, NEW p \in Request, ResetRating(p)
  PROVE  Typed'
<1>1. /\ load' = load /\ RequestsOK /\ ~Idle(p) /\ Doing(p, "reset") /\ TablesOK
      /\ UNCHANGED <<tour, seasons, active, start, cache, whole, load>> /\ clock \in Nat
  BY DEF Typed, ResetRating, Doing, TablesOK, ToursOK
<1>2. PICK q, r, h, s, n : q = req[p].todo /\ r = req[p] /\ h = It(p) /\ s = h.s /\ n = r.season
  OBVIOUS
<1>3. h \in Statement /\ h.op = "reset" /\ r \in Req
  BY <1>1, <1>2, DoingIs
<1>4. s \in Player /\ n \in Seasons
  BY <1>2, <1>3, Fields DEF Req
<1>5. RequestsOK'
  <2>1. Stop(p) \/ Next1(p)
    BY DEF ResetRating
  <2> QED BY <1>1, <2>1, StopKeeps, NextKeeps
<1>6. PICK e : e = [at |-> Now, t |-> NoTour, s |-> s, season |-> n]
  OBVIOUS
<1>7. PICK x, y : x = ResetRow(history, e) /\ y = [side |-> s, season |-> n, at |-> Now]
  OBVIOUS
<1>8. e.s \in Side /\ e.season \in Seasons /\ e.at \in Nat /\ Now \in Nat
  BY <1>1, <1>4, <1>6 DEF Side, Now
<1>9. x \in HistoryRow /\ x.tour = NoTour
  BY <1>1, <1>7, <1>8, ResetRowIs
<1>10. y \in [side : Player, season : Seasons, at : Nat] /\ y.at = Now
  BY <1>4, <1>7, <1>8
<1>11. \/ UNCHANGED <<resets, history, clock>>
       \/ resets' = resets \cup {y} /\ history' = history \cup {x} /\ clock' = clock + 1
  BY <1>2, <1>6, <1>7 DEF ResetRating
<1>12. CASE UNCHANGED <<resets, history, clock>>
  <2>1. Stay
    BY <1>1, <1>12 DEF Stay
  <2> QED BY <1>5, <2>1, StayTyped
<1>13. CASE resets' = resets \cup {y} /\ history' = history \cup {x} /\ clock' = clock + 1
  <2>1. HistoryOK'
    BY <1>1, <1>9, <1>13, OneMoreRow DEF TablesOK
  <2>2. SeasonsOK'
    <3>1. IsFiniteSet(resets')
      BY <1>1, <1>13, FS_AddElement DEF TablesOK, SeasonsOK
    <3> QED BY <1>1, <1>10, <1>13, <3>1 DEF TablesOK, SeasonsOK
  <2>3. ToursOK' /\ CacheOK'
    BY <1>1, <1>13 DEF TablesOK, ToursOK, CacheOK
  <2>4. OneAtATime'
    <3>0. OneAtATime /\ y.at = 2 * clock /\ clock' = clock + 1 /\ clock \in Nat
      BY <1>1, <1>10, <1>13 DEF Typed, Now
    <3>3. \A t \in Tour : Begun(t)' <=> Begun(t)
      BY <1>1 DEF Begun
    <3>4. \A t \in Tour : Begun(t)' => \A k \in Nat : k >= clock' => tour'[t].at # 2 * k
      BY <1>1, <3>0, <3>3 DEF OneAtATime, Past
    <3>5. \A t, u \in Tour : Begun(t)' /\ Begun(u)' /\ tour'[t].at = tour'[u].at => t = u
      BY <1>1, <3>0, <3>3 DEF OneAtATime
    <3>6. \A z \in resets' : \E k \in Nat : k < clock' /\ z.at = 2 * k
      <4>1. ASSUME NEW z \in resets PROVE \E k \in Nat : k < clock' /\ z.at = 2 * k
        BY <3>0 DEF OneAtATime
      <4>2. \E k \in Nat : k < clock' /\ y.at = 2 * k
        BY <3>0
      <4> QED BY <1>13, <4>1, <4>2
    <3>7. \A z \in resets' : \A t \in Tour : Begun(t)' => tour'[t].at # z.at
      <4>1. \A t \in Tour : Begun(t) => tour[t].at # y.at
        BY <3>0 DEF OneAtATime, Past
      <4> QED BY <1>1, <1>13, <3>0, <3>3, <4>1 DEF OneAtATime
    <3>8. \A z, u \in resets' : z.at = u.at => z = u
      <4>1. ASSUME NEW z \in resets PROVE z.at # y.at
        <5>1. PICK k \in Nat : k < clock /\ z.at = 2 * k
          BY <3>0 DEF OneAtATime
        <5> QED BY <3>0, <5>1
      <4> QED BY <1>13, <3>0, <4>1 DEF OneAtATime
    <3> QED BY <3>4, <3>5, <3>6, <3>7, <3>8 DEF OneAtATime, Past
  <2> QED BY <1>5, <2>1, <2>2, <2>3, <2>4 DEF Typed, TablesOK
<1> QED BY <1>11, <1>12, <1>13

LEMMA GoneTyped ==
  ASSUME Typed, NEW p \in Request, ClientGone(p)
  PROVE  Typed'
<1>1. /\ UNCHANGED <<tour, resets, seasons, active, start, history, cache, clock, load>>
      /\ Stop(p) /\ whole' \in BOOLEAN /\ RequestsOK /\ load' = load
  BY DEF Typed, ClientGone, tables
<1>2. RequestsOK'
  BY <1>1, StopKeeps
<1>3. HistoryOK' /\ CacheOK'
  BY <1>1 DEF Typed, TablesOK, HistoryOK, CacheOK
<1> QED BY <1>1, <1>2, <1>3, RowsTyped

LEMMA NextTyped == Typed /\ [Next]_vars => Typed'
<1> SUFFICES ASSUME Typed, [Next]_vars PROVE Typed'
  OBVIOUS
<1>1. CASE UNCHANGED vars
  <2>1. Stay /\ req' = req /\ load' = load
    BY <1>1 DEF vars, Stay
  <2>2. Statement' = Statement
    BY <2>1 DEF Statement, SidesOf
  <2>3. \A q, w : Listed(q, w)' <=> Listed(q, w)
    BY <2>2 DEF Listed
  <2>4. RequestsOK'
    BY <2>1, <2>2, <2>3 DEF Typed, RequestsOK, Req
  <2> QED BY <2>1, <2>4, StayTyped
<1>2. ASSUME NEW t \in load.tours, Prepares(t) PROVE Typed'
  BY <1>2, PreparesTyped
<1>3. ASSUME NEW p \in Request, Arrives(p) PROVE Typed'
  BY <1>3, ArrivesTyped
<1>4. ASSUME NEW p \in Request, ClientGone(p) PROVE Typed'
  BY <1>4, GoneTyped
<1>5. ASSUME NEW p \in Request, Proceeds(p) PROVE Typed'
  <2>1. CASE MatchGuard(p) \/ MatchFinished(p) \/ OldStatus(p)
    BY <2>1, GuardTyped
  <2>2. CASE LoadTournament(p) \/ ReadSum(p) \/ ReadRate(p) \/ ReadRule(p)
    BY <2>2, ReadTyped
  <2>3. CASE FinishMatch(p) \/ SetTournamentWinner(p) \/ RescoreFinishedMatch(p) \/ SetMatchVoided(p)
    BY <2>3, EndsTyped
  <2>4. CASE UpdateStatus(p) \/ SetWinnerTop(p) \/ ClearWinner(p) \/ ClearPins(p)
    BY <2>4, StatusTyped
  <2>5. CASE WriteCache(p) \/ ClearCache(p) \/ FillCache(p) \/ FillTeams(p) \/ SyncPatches(p)
    BY <2>5, CacheTyped
  <2>6. CASE WipeRows(p) \/ TruncateAll(p)
    BY <2>6, WipeTyped
  <2>7. CASE StartNewSeason(p) \/ UpdateSeason(p)
    BY <2>7, SeasonTyped
  <2> QED BY <1>5, <2>1, <2>2, <2>3, <2>4, <2>5, <2>6, <2>7, DeleteTyped, ApplyResetTyped, InsertTyped,
             SelectTyped, ListTyped, AwardTyped, ResetTyped DEF Proceeds
<1> QED BY <1>1, <1>2, <1>3, <1>4, <1>5 DEF Next

-------------------------------------------------------------------------------
(* A request that nobody interrupts: what is on its list says what is not  *)
(* yet as it will be.                                                      *)

Has(q, ops) == \E i \in 1..Len(q) : q[i].op \in ops
With(q, ops, t) == \E i \in 1..Len(q) : q[i].op \in ops /\ q[i].t = t

\* Nothing was changed yet, or a full count is under way.
Fresh(q) == q # <<>> /\ q[1].op \in Early
Honest(q) == whole \/ Has(q, {"patches"})

OfMatch(t) == {x \in history : x.tour = t}
Value(s) == IF s \in Player /\ ~Played(s, active) THEN NoRow ELSE SeasonMmr(history, s, active)
Good(s) == IF s \in Player THEN cache[s] = Value(s) ELSE cache[s] # NoRow => cache[s] = Value(s)

\* The rows of this match, this row of the cache are still to be made anew.
Due(q, t) == ~Fresh(q) /\ (Has(q, {"truncate", "list"}) \/ With(q, {"load", "rows", "wipe"}, t))
Renews(q) == ~Fresh(q) /\ Has(q, {"truncate", "list", "clear"})
Excused(q, s) == ~Fresh(q) /\ Written(q, s)

\* A match whose list is under way is as it was when the list was made.
Statuses(q, r) == \A i \in 1..Len(q) :
  /\ q[i].op \in {"load", "award", "top"} \cup Pays => tour[q[i].t].status = "finished"
  /\ q[i].op = "unwin" => tour[q[i].t].status # "finished"
  /\ q[i].op \in {"award"} \cup Pays /\ ~Loading(q, 1, i)
       => r.winner = tour[q[i].t].winner /\ (r.voided <=> tour[q[i].t].voided)
  /\ q[i].op \in Pays => r.doubled = tour[q[i].t].doubled /\ SidesOf(q[i].t) \cap Guest = {}

\* What the next statement relies on.
Heads(q, r) == q # <<>> =>
  LET h == q[1] IN
  /\ h.op \in {"rescore", "void"} => /\ tour[h.t].status = "finished"
                                     /\ r.winner = tour[h.t].winner /\ (r.voided <=> tour[h.t].voided)
  /\ h.op \in {"finished", "upcoming"} => There(h.t) /\ (r.voided <=> tour[h.t].status = "finished")
  /\ h.op = "insert" => (r.pinned <=> tour[h.t].pinned)
  /\ h.op = "list" => history = {}
  /\ h.op = "wipe" => \A s \in HadRows(h.t) : Written(q, s)
  /\ h.op = "write" => r.sum = Value(h.s)
  /\ h.op = "fill" => \A s \in Player : cache[s] = NoRow
  /\ h.op = "teams" => \A s \in Player : Good(s)

\* The rows of a match: none, the winner's alone, or what its result counts for.
Tally(q, r, t) ==
  IF With(q, {"rate"}, t) THEN OfMatch(t) = {}
  ELSE IF With(q, {"insert"}, t)
  THEN IF q[1].s = r.winner THEN OfMatch(t) = {}
       ELSE \E x : /\ OfMatch(t) = {x} /\ x.side = r.winner
                   /\ x.delta = Change(t, r, r.winner, Gain(r.rates[1], r.rates[2]))
                   /\ x.before = r.rates[1]
  ELSE IF With(q, {"award", "unwin"}, t) THEN OfMatch(t) = {}
  ELSE Counts(t)
Tallied(q, r) == Honest(q) => \A t \in Tour : ~Due(q, t) => Tally(q, r, t)

Filling(q) == q # <<>> /\ q[1].op \in {"fill", "teams"}
CacheKept(q) ==
  Honest(q) /\ "delete" \notin load.kinds /\ ~Renews(q) /\ ~Filling(q)
    => \A s \in Side : Good(s) \/ Excused(q, s)

Course(q, r) == Statuses(q, r) /\ Heads(q, r) /\ Tallied(q, r) /\ CacheKept(q)
Sound ==
  /\ (\A p \in Request : Idle(p)) => Course(<<>>, Blank)
  /\ \A p \in Request : (\A o \in Request : o # p => Idle(o)) => Course(req[p].todo, req[p])

OneServed == \A p, q \in Request : ~Idle(p) /\ ~Idle(q) => p = q

\* What a step leaves of a request: it stops or goes on, and keeps to its course.
Kept(p) == \/ Stop(p) /\ Course(<<>>, Blank)'
           \/ \E x \in Seq(Statement), v \in Req : GoOn(p, x, v) /\ Course(x, v)'

\* What the rows of a match in this state are to be.
Entitled(rows, m, t) ==
  IF m.status = "finished" /\ m.winner # NoSide /\ SidesOf(t) \cap Guest = {}
  THEN /\ {x.side : x \in rows} = SidesOf(t) /\ Cardinality(rows) = 2
       /\ \A x, y \in rows : x.side = m.winner /\ y.side # x.side
            => /\ x.delta = Change(t, m, x.side, Gain(x.before, y.before))
               /\ y.delta = Change(t, m, y.side, Gain(x.before, y.before))
  ELSE rows = {}

LEMMA CountsAre ==
  ASSUME NEW t
  PROVE  /\ Counts(t) <=> Entitled(OfMatch(t), tour[t], t)
         /\ Counts(t)' <=> Entitled(OfMatch(t)', tour'[t], t)
<1>1. Counts(t) <=> Entitled(OfMatch(t), tour[t], t)
  BY DEF Counts, Entitled, OfMatch, Change, Doubled
<1>2. Counts(t)' <=> Entitled(OfMatch(t)', tour'[t], t)
  BY DEF Counts, Entitled, OfMatch, Change, Doubled
<1> QED BY <1>1, <1>2

LEMMA NilFacts ==
  /\ (\A ops : ~Has(<<>>, ops)) /\ (\A ops, t : ~With(<<>>, ops, t))
  /\ \A s : ~Written(<<>>, s)
  /\ ~Fresh(<<>>) /\ ~Renews(<<>>) /\ ~Filling(<<>>) /\ (\A t : ~Due(<<>>, t))
  /\ \A s : ~Excused(<<>>, s)
  BY DEF Has, With, Written, Fresh, Renews, Filling, Due, Excused

LEMMA NilCourse ==
  ASSUME NEW r
  PROVE  Course(<<>>, r) <=> /\ whole => \A t \in Tour : Counts(t)
                             /\ whole /\ "delete" \notin load.kinds => \A s \in Side : Good(s)
<1>1. Statuses(<<>>, r) /\ Heads(<<>>, r)
  BY DEF Statuses, Heads
<1>2. Honest(<<>>) <=> whole
  BY NilFacts DEF Honest
<1>3. \A t : Tally(<<>>, r, t) <=> Counts(t)
  BY NilFacts DEF Tally
<1>4. Tallied(<<>>, r) <=> (whole => \A t \in Tour : Counts(t))
  BY <1>2, <1>3, NilFacts DEF Tallied
<1>5. CacheKept(<<>>) <=> (whole /\ "delete" \notin load.kinds => \A s \in Side : Good(s))
  BY <1>2, NilFacts DEF CacheKept
<1> QED BY <1>1, <1>4, <1>5 DEF Course

\* The same of the state that comes.
LEMMA NilCourseNext ==
  ASSUME NEW r
  PROVE  Course(<<>>, r)' <=> /\ whole' => \A t \in Tour : Counts(t)'
                              /\ whole' /\ "delete" \notin load'.kinds => \A s \in Side : Good(s)'
<1>1. Statuses(<<>>, r)' /\ Heads(<<>>, r)'
  BY DEF Statuses, Heads
<1>2. Honest(<<>>)' <=> whole'
  BY NilFacts DEF Honest
<1>3. \A t : Tally(<<>>, r, t)' <=> Counts(t)'
  BY NilFacts DEF Tally
<1>4. Tallied(<<>>, r)' <=> (whole' => \A t \in Tour : Counts(t)')
  BY <1>2, <1>3, NilFacts DEF Tallied
<1>5. CacheKept(<<>>)' <=> (whole' /\ "delete" \notin load'.kinds => \A s \in Side : Good(s)')
  BY <1>2, NilFacts DEF CacheKept
<1> QED BY <1>1, <1>4, <1>5 DEF Course

LEMMA TailFacts ==
  ASSUME NEW S, NEW q \in Seq(S), q # <<>>, NEW x, x = Tail(q)
  PROVE  /\ x \in Seq(S) /\ Len(q) \in Nat \ {0} /\ Len(x) = Len(q) - 1
         /\ \A i \in 1..Len(x) : x[i] = q[i+1]
         /\ \A ops : Has(x, ops) => Has(q, ops)
         /\ \A ops : Has(q, ops) => q[1].op \in ops \/ Has(x, ops)
         /\ \A ops, t : With(x, ops, t) => With(q, ops, t)
         /\ \A ops, t : With(q, ops, t) => (q[1].op \in ops /\ q[1].t = t) \/ With(x, ops, t)
         /\ \A s : Written(x, s) => Written(q, s)
         /\ \A s : Written(q, s) => (q[1].op = "write" /\ q[1].s = s) \/ Written(x, s)
<1>1. PICK n \in Nat : Len(q) = n /\ n > 0
  BY EmptySeq
<1>2. x \in Seq(S) /\ Len(x) = n - 1 /\ \A i \in 1..n-1 : x[i] = q[i+1]
  BY <1>1, HeadTailProperties
<1>3. \A i \in 1..n-1 : i + 1 \in 1..n /\ x[i] = q[i+1]
  BY <1>1, <1>2
<1>4. \A i \in 1..n : i = 1 \/ (i - 1 \in 1..n-1 /\ x[i-1] = q[i])
  <2>1. TAKE i \in 1..n
  <2>2. SUFFICES ASSUME i # 1 PROVE i - 1 \in 1..n-1 /\ x[i-1] = q[i]
    OBVIOUS
  <2>3. i - 1 \in 1..n-1 /\ (i - 1) + 1 = i
    BY <1>1, <2>2
  <2> QED BY <1>2, <2>3
<1>5. \A ops : Has(x, ops) => Has(q, ops)
  BY <1>1, <1>2, <1>3 DEF Has
<1>6. \A ops : Has(q, ops) => q[1].op \in ops \/ Has(x, ops)
  BY <1>1, <1>2, <1>4 DEF Has
<1>7. \A ops, t : With(x, ops, t) => With(q, ops, t)
  BY <1>1, <1>2, <1>3 DEF With
<1>8. \A ops, t : With(q, ops, t) => (q[1].op \in ops /\ q[1].t = t) \/ With(x, ops, t)
  BY <1>1, <1>2, <1>4 DEF With
<1>9. \A s : Written(x, s) => Written(q, s)
  BY <1>1, <1>2, <1>3 DEF Written
<1>10. \A s : Written(q, s) => (q[1].op = "write" /\ q[1].s = s) \/ Written(x, s)
  BY <1>1, <1>2, <1>4 DEF Written
<1> QED BY <1>1, <1>2, <1>5, <1>6, <1>7, <1>8, <1>9, <1>10

\* What the shape of the lists says of the first statements.
LEMMA HeadFacts ==
  ASSUME NEW q, NEW w, Listed(q, w), q # <<>>, NEW x, x = Tail(q)
  PROVE  /\ q[1].op \in Leaders => x # <<>> /\ x[1] = q[2] /\ Joined(q[1], x[1])
         /\ x # <<>> => x[1] = q[2] /\ (x[1].op \in Followers => Joined(q[1], x[1]))
         /\ Fresh(x) => Fresh(q)
         /\ Fresh(q) => /\ ~Has(q, {"award", "unwin", "load", "rows", "wipe", "again"} \cup Pays)
                        /\ \A t : ~With(q, {"award", "unwin"}, t) /\ ~With(q, {"rate"}, t)
                                  /\ ~With(q, {"insert"}, t) /\ ~With(q, {"load", "rows", "wipe"}, t)
         /\ q[1].op \notin Pays => /\ ~Has(q, Pays)
                                   /\ \A t : ~With(q, {"rate"}, t) /\ ~With(q, {"insert"}, t)
         /\ Has(q, {"again"}) => Has(q, {"clear"})
<1>1. q \in Seq(Statement)
  BY DEF Listed
<1>2. PICK n \in Nat : Len(q) = n /\ n > 0 /\ Len(x) = n - 1 /\ x \in Seq(Statement)
                      /\ \A i \in 1..n-1 : x[i] = q[i+1]
  BY <1>1, TailFacts
<1>3. x # <<>> <=> n > 1
  <2>1. x = <<>> => n - 1 = 0
    BY <1>2
  <2>2. n - 1 = 0 => x = <<>>
    BY <1>2, EmptySeq
  <2> QED BY <1>2, <2>1, <2>2
<1>4. n > 1 => x[1] = q[2]
  BY <1>2
<1>5. q[1].op \in Leaders => x # <<>> /\ x[1] = q[2] /\ Joined(q[1], x[1])
  <2>1. q[1].op \in Leaders => 1 < n /\ Joined(q[1], q[1+1])
    BY <1>2 DEF Listed, Linked
  <2> QED BY <1>3, <1>4, <2>1
<1>6. x # <<>> => x[1] = q[2] /\ (x[1].op \in Followers => Joined(q[1], x[1]))
  <2>1. SUFFICES ASSUME n > 1, q[2].op \in Followers PROVE Joined(q[1], q[2])
    BY <1>3, <1>4
  <2>2. 2 \in 1..n /\ 2 - 1 = 1
    BY <1>2, <2>1
  <2> QED BY <1>2, <2>1, <2>2 DEF Listed, Linked
<1>7. Fresh(x) => Fresh(q)
  <2>1. SUFFICES ASSUME n > 1, q[2].op \in Early PROVE q[1].op \in Early
    BY <1>3, <1>4 DEF Fresh
  <2>2. 2 \in 1..n /\ 1 \in 1..2
    BY <1>2, <2>1
  <2> QED BY <1>2, <2>1, <2>2 DEF Listed, EarlyFirst
<1>8. Fresh(q) => ~Has(q, {"award", "unwin", "load", "rows", "wipe", "again"} \cup Pays)
  BY <1>2 DEF Fresh, Listed, Prepared, Has, InCourse
<1>9. Fresh(q) => \A t : ~With(q, {"award", "unwin"}, t) /\ ~With(q, {"rate"}, t)
                            /\ ~With(q, {"insert"}, t) /\ ~With(q, {"load", "rows", "wipe"}, t)
  BY <1>8 DEF Has, With, Pays
<1>10. q[1].op \notin Pays => ~Has(q, Pays)
  BY DEF Listed, Paying, Has
<1>11. q[1].op \notin Pays => \A t : ~With(q, {"rate"}, t) /\ ~With(q, {"insert"}, t)
  BY <1>10 DEF Has, With, Pays
<1>12. Has(q, {"again"}) => Has(q, {"clear"})
  <2>1. SUFFICES ASSUME NEW i \in 1..n, q[i].op = "again" PROVE \E j \in 1..n : q[j].op = "clear"
    BY <1>2 DEF Has
  <2>2. PICK j \in i..n : q[j].op = "clear"
    BY <1>2, <2>1 DEF Listed, Recounted
  <2> QED BY <2>2
<1> QED BY <1>5, <1>6, <1>7, <1>8, <1>9, <1>10, <1>11, <1>12

-------------------------------------------------------------------------------
(* From a list to the rest of it.                                          *)

LEMMA TailHeads ==
  ASSUME NEW q, NEW w, Listed(q, w), q # <<>>, NEW x, x = Tail(q), NEW v,
         q[1].op \notin {"ended", "old", "truncate", "rows", "sum", "clear", "fill", "rate", "insert"}
  PROVE  Heads(x, v) /\ Heads(x, v)'
<1>1. x # <<>> => (x[1].op \in Followers => Joined(q[1], x[1]))
  BY HeadFacts
<1>2. x # <<>> => x[1].op \notin Followers /\ x[1].op # "insert"
  <2>1. x # <<>> => x[1].op \notin Followers
    BY <1>1 DEF Joined, Followers
  <2>2. ~Has(q, Pays)
    BY HeadFacts DEF Pays
  <2>3. q \in Seq(Statement)
    BY DEF Listed
  <2>4. ~Has(x, Pays) /\ x \in Seq(Statement)
    BY <2>2, <2>3, TailFacts
  <2>5. x # <<>> => 1 \in 1..Len(x)
    BY <2>4, EmptySeq
  <2> QED BY <2>1, <2>4, <2>5 DEF Has, Pays
<1>3. Heads(x, v)
  BY <1>2 DEF Heads, Followers
<1>4. Heads(x, v)'
  BY <1>2 DEF Heads, Followers
<1> QED BY <1>3, <1>4

LEMMA TailStatuses ==
  ASSUME NEW q, NEW w, Listed(q, w), q # <<>>, NEW x, x = Tail(q), NEW r, NEW v,
         Statuses(q, r), q[1].op # "load",
         q[1].op \in Early \/ (v.winner = r.winner /\ (v.voided <=> r.voided)),
         q[1].op \in {"rate", "insert"} => v.doubled = r.doubled /\ tour' = tour,
         \A t \in Tour : /\ tour'[t].status = tour[t].status
                         /\ tour[t].status = "finished" => tour'[t].winner = tour[t].winner
                                                        /\ (tour'[t].voided <=> tour[t].voided)
  PROVE  Statuses(x, v)'
<1>1. q \in Seq(Statement)
  BY DEF Listed
<1>2. PICK n \in Nat : Len(q) = n /\ n > 0 /\ Len(x) = n - 1 /\ x \in Seq(Statement)
                      /\ \A i \in 1..n-1 : x[i] = q[i+1]
  BY <1>1, TailFacts
<1>3. ASSUME NEW i \in 1..n-1
      PROVE  /\ x[i].op \in {"load", "award", "top"} \cup Pays => tour'[x[i].t].status = "finished"
             /\ x[i].op = "unwin" => tour'[x[i].t].status # "finished"
             /\ x[i].op \in {"award"} \cup Pays /\ ~Loading(x, 1, i)
                  => v.winner = tour'[x[i].t].winner /\ (v.voided <=> tour'[x[i].t].voided)
             /\ x[i].op \in Pays => v.doubled = tour'[x[i].t].doubled /\ SidesOf(x[i].t) \cap Guest = {}
  <2>1. PICK j \in 1..n : j = i + 1 /\ x[i] = q[j] /\ q[j] \in Statement
    BY <1>1, <1>2, <1>3
  <2>2. q[j].op \in {"load", "award", "top", "unwin"} \cup Pays => q[j].t \in Tour
    BY <2>1, Fields DEF AboutMatch, Pays
  <2>3. ~Loading(x, 1, i) => ~Loading(q, 1, j)
    <3>1. SUFFICES ASSUME NEW k \in 1..j, q[k].op = "load" PROVE \E l \in 1..i : x[l].op = "load"
      BY DEF Loading
    <3>2. k # 1
      BY <3>1
    <3>3. k - 1 \in 1..n-1 /\ k - 1 \in 1..i /\ (k - 1) + 1 = k
      BY <1>3, <2>1, <3>1, <3>2
    <3>4. x[k-1] = q[k]
      BY <1>2, <3>3
    <3> QED BY <3>1, <3>3, <3>4
  <2>4. x[i].op \in {"award"} \cup Pays => q[1].op \notin Early
    <3>1. q[j].op \in {"award"} \cup Pays => Has(q, {"award", "unwin", "load", "rows", "wipe", "again"} \cup Pays)
      BY <1>2, <2>1 DEF Has
    <3>2. Fresh(q) => ~Has(q, {"award", "unwin", "load", "rows", "wipe", "again"} \cup Pays)
      BY HeadFacts
    <3> QED BY <2>1, <3>1, <3>2 DEF Fresh
  <2>5. x[i].op \in Pays => q[1].op \in {"rate", "insert"}
    BY <1>2, <2>1, HeadFacts DEF Has, Pays
  <2>6. /\ x[i].op \in {"load", "award", "top"} \cup Pays => tour'[x[i].t].status = "finished"
        /\ x[i].op = "unwin" => tour'[x[i].t].status # "finished"
    BY <1>2, <2>1, <2>2 DEF Statuses
  <2>7. x[i].op \in {"award"} \cup Pays /\ ~Loading(x, 1, i)
          => v.winner = tour'[x[i].t].winner /\ (v.voided <=> tour'[x[i].t].voided)
    BY <1>2, <2>1, <2>2, <2>3, <2>4 DEF Statuses
  <2>8. x[i].op \in Pays => v.doubled = tour'[x[i].t].doubled /\ SidesOf(x[i].t) \cap Guest = {}
    BY <1>2, <2>1, <2>2, <2>5 DEF Statuses
  <2> QED BY <2>6, <2>7, <2>8
<1> QED BY <1>2, <1>3 DEF Statuses

LEMMA TailTallied ==
  ASSUME NEW q, NEW w, Listed(q, w), q # <<>>, NEW x, x = Tail(q), NEW r, NEW v,
         Tallied(q, r), whole' => Honest(q),
         q[1].op \notin Pays \cup {"truncate", "list", "rows", "wipe", "award", "unwin"},
         \A t \in Tour : ~Due(x, t) => OfMatch(t)' = OfMatch(t) /\ tour'[t] = tour[t]
  PROVE  Tallied(x, v)'
<1>1. q \in Seq(Statement)
  BY DEF Listed
<1>2. Honest(x)' => Honest(q)
  BY <1>1, TailFacts DEF Honest
<1>3. SUFFICES ASSUME Honest(q), NEW t \in Tour, ~Due(x, t) PROVE Tally(x, v, t)'
  BY <1>2 DEF Tallied, Due, Fresh, Has, With
<1>4. ~Due(q, t)
  <2>1. SUFFICES ASSUME ~Fresh(q), Has(q, {"truncate", "list"}) \/ With(q, {"load", "rows", "wipe"}, t)
                 PROVE  FALSE
    BY DEF Due
  <2>2. ~Fresh(x)
    BY <2>1, HeadFacts
  <2>3. ~Has(x, {"truncate", "list"}) /\ ~With(x, {"load", "rows", "wipe"}, t)
    BY <1>3, <2>2 DEF Due
  <2>4. q[1].op = "load" /\ q[1].t = t
    <3>1. Has(q, {"truncate", "list"}) => q[1].op \in {"truncate", "list"} \/ Has(x, {"truncate", "list"})
      BY <1>1, TailFacts
    <3>2. With(q, {"load", "rows", "wipe"}, t) =>
            (q[1].op \in {"load", "rows", "wipe"} /\ q[1].t = t) \/ With(x, {"load", "rows", "wipe"}, t)
      BY <1>1, TailFacts
    <3> QED BY <2>1, <2>3, <3>1, <3>2
  <2>5. x # <<>> /\ Joined(q[1], x[1])
    BY <2>4, HeadFacts DEF Leaders
  <2>6. x[1].op = "rows" /\ x[1].t = t
    BY <2>4, <2>5 DEF Joined
  <2>7. 1 \in 1..Len(x)
    <3>1. x \in Seq(Statement)
      BY <1>1, TailFacts
    <3> QED BY <2>5, <3>1, EmptySeq
  <2> QED BY <2>3, <2>6, <2>7 DEF With
<1>5. Tally(q, r, t)
  BY <1>3, <1>4 DEF Tallied
<1>6. ~With(q, {"rate"}, t) /\ ~With(q, {"insert"}, t) /\ ~With(x, {"rate"}, t) /\ ~With(x, {"insert"}, t)
  BY <1>1, HeadFacts, TailFacts
<1>7. With(x, {"award", "unwin"}, t) <=> With(q, {"award", "unwin"}, t)
  <2>1. With(q, {"award", "unwin"}, t) => (q[1].op \in {"award", "unwin"} /\ q[1].t = t) \/ With(x, {"award", "unwin"}, t)
    BY <1>1, TailFacts
  <2>2. With(x, {"award", "unwin"}, t) => With(q, {"award", "unwin"}, t)
    BY <1>1, TailFacts
  <2> QED BY <2>1, <2>2
<1>8. Tally(x, v, t)' <=> IF With(x, {"award", "unwin"}, t) THEN OfMatch(t)' = {} ELSE Counts(t)'
  BY <1>6 DEF Tally, With
<1>9. OfMatch(t)' = OfMatch(t) /\ (Counts(t)' <=> Counts(t))
  <2>1. OfMatch(t)' = OfMatch(t) /\ tour'[t] = tour[t]
    BY <1>3
  <2> QED BY <2>1, CountsAre
<1> QED BY <1>5, <1>6, <1>7, <1>8, <1>9 DEF Tally

LEMMA TailCache ==
  ASSUME NEW q, NEW w, Listed(q, w), q # <<>>, NEW x, x = Tail(q),
         CacheKept(q), whole' => Honest(q), load' = load,
         q[1].op \notin {"truncate", "list", "clear", "fill", "teams"},
         \A s \in Side : (Good(s) \/ (q[1].op = "write" /\ q[1].s = s)) /\ ~Excused(x, s) => Good(s)'
  PROVE  CacheKept(x)'
<1>1. q \in Seq(Statement)
  BY DEF Listed
<1>2. Honest(x)' => Honest(q)
  BY <1>1, TailFacts DEF Honest
<1>3. SUFFICES ASSUME Honest(q), "delete" \notin load.kinds, ~Renews(x), NEW s \in Side, ~Excused(x, s)
               PROVE  Good(s)'
  BY <1>2 DEF CacheKept, Renews, Filling, Excused, Fresh, Has, Written
<1>4. ~Renews(q)
  <2>1. SUFFICES ASSUME ~Fresh(q), Has(q, {"truncate", "list", "clear"}) PROVE FALSE
    BY DEF Renews
  <2>2. ~Fresh(x)
    BY <2>1, HeadFacts
  <2>3. Has(q, {"truncate", "list", "clear"}) =>
          q[1].op \in {"truncate", "list", "clear"} \/ Has(x, {"truncate", "list", "clear"})
    BY <1>1, TailFacts
  <2> QED BY <1>3, <2>1, <2>2, <2>3 DEF Renews
<1>5. Good(s) \/ Excused(q, s)
  BY <1>3, <1>4 DEF CacheKept, Filling
<1>6. Excused(q, s) => q[1].op = "write" /\ q[1].s = s
  <2>1. SUFFICES ASSUME ~Fresh(q), Written(q, s) PROVE q[1].op = "write" /\ q[1].s = s
    BY DEF Excused
  <2>2. ~Fresh(x)
    BY <2>1, HeadFacts
  <2>3. ~Written(x, s)
    BY <1>3, <2>2 DEF Excused
  <2> QED BY <1>1, <2>1, <2>3, TailFacts
<1> QED BY <1>3, <1>5, <1>6

\* A request that stops before it has changed anything.
LEMMA StopCourse ==
  ASSUME NEW q, NEW w, Listed(q, w), q # <<>>, q[1].op \in Early, NEW r, Course(q, r), NEW v,
         whole' = whole, load' = load, \A t \in Tour : Counts(t) => Counts(t)',
         "delete" \notin load.kinds => \A s \in Side : Good(s) => Good(s)'
  PROVE  Course(<<>>, v)'
<1>1. Fresh(q)
  BY DEF Fresh
<1>2. whole => \A t \in Tour : Counts(t)
  <2>1. \A t \in Tour : ~Due(q, t) /\ ~With(q, {"award", "unwin"}, t) /\ ~With(q, {"rate"}, t)
                        /\ ~With(q, {"insert"}, t)
    BY <1>1, HeadFacts DEF Due
  <2> QED BY <2>1 DEF Course, Tallied, Tally, Honest
<1>3. whole /\ "delete" \notin load.kinds => \A s \in Side : Good(s)
  <2>1. ~Renews(q) /\ ~Filling(q) /\ \A s : ~Excused(q, s)
    BY <1>1 DEF Renews, Filling, Excused, Early
  <2> QED BY <2>1 DEF Course, CacheKept, Honest
<1> QED BY <1>2, <1>3, NilCourseNext

-------------------------------------------------------------------------------
(* Every step keeps to the course.                                         *)

\* A side whose rows and whose cache are left alone.
LEMMA SideAlone ==
  ASSUME NEW s, UNCHANGED <<active, start>>, cache'[s] = cache[s],
         RowsOf(history', s, active) = RowsOf(history, s, active)
  PROVE  Value(s)' = Value(s) /\ (Good(s)' <=> Good(s))
<1>1. PICK R : R = RowsOf(history, s, active)
  OBVIOUS
<1>2. RowsOf(history', s, active') = R
  BY <1>1
<1>3. (Played(s, active)' <=> \E x \in R : x.tour # NoTour) /\ (Played(s, active) <=> \E x \in R : x.tour # NoTour)
  BY <1>1, <1>2 DEF Played
<1>4. SeasonMmr(history, s, active) = StartOf(active) + Total(R)
  BY <1>1 DEF SeasonMmr
<1>5. StartOf(active)' = StartOf(active)
  BY DEF StartOf
<1>6. SeasonMmr(history, s, active)' = StartOf(active)' + Total(R)
  BY <1>2 DEF SeasonMmr
<1>7. SeasonMmr(history, s, active)' = SeasonMmr(history, s, active)
  BY <1>4, <1>5, <1>6
<1>8. Value(s)' = Value(s)
  BY <1>3, <1>7 DEF Value
<1> QED BY <1>8 DEF Good

LEMMA AllAlone ==
  ASSUME UNCHANGED <<active, start, cache, history>>
  PROVE  \A s : Value(s)' = Value(s) /\ (Good(s)' <=> Good(s))
  BY SideAlone

LEMMA GoKept ==
  ASSUME NEW p, NEW x \in Seq(Statement), NEW v \in Req, GoOn(p, x, v), Course(x, v)'
  PROVE  Kept(p)
  BY DEF Kept

\* Nothing is changed but what the request has read.
LEMMA TailCourse ==
  ASSUME NEW q, NEW w, Listed(q, w), q # <<>>, NEW x, x = Tail(q), NEW r, NEW v, Course(q, r),
         UNCHANGED <<tour, history, active, start, cache, load>>, whole' => Honest(q),
         q[1].op \notin {"load", "truncate", "list", "rows", "wipe", "award", "unwin", "clear",
                         "fill", "teams", "write"} \cup Pays,
         q[1].op \in Early \/ (v.winner = r.winner /\ (v.voided <=> r.voided)), Heads(x, v)'
  PROVE  Course(x, v)'
<1>1. Statuses(q, r) /\ Tallied(q, r) /\ CacheKept(q)
  BY DEF Course
<1>2. Statuses(x, v)'
  <2>1. \A t \in Tour : /\ tour'[t].status = tour[t].status
                        /\ tour[t].status = "finished" => tour'[t].winner = tour[t].winner
                                                        /\ (tour'[t].voided <=> tour[t].voided)
    OBVIOUS
  <2>2. q[1].op # "load" /\ q[1].op \notin {"rate", "insert"}
    BY DEF Pays
  <2> QED BY <1>1, <2>1, <2>2, TailStatuses
<1>3. Tallied(x, v)'
  <2>1. \A t \in Tour : ~Due(x, t) => OfMatch(t)' = OfMatch(t) /\ tour'[t] = tour[t]
    BY DEF OfMatch
  <2>2. q[1].op \notin Pays \cup {"truncate", "list", "rows", "wipe", "award", "unwin"}
    OBVIOUS
  <2> QED BY <1>1, <2>1, <2>2, TailTallied
<1>4. CacheKept(x)'
  <2>1. \A s \in Side : (Good(s) \/ (q[1].op = "write" /\ q[1].s = s)) /\ ~Excused(x, s) => Good(s)'
    BY AllAlone
  <2>2. q[1].op \notin {"truncate", "list", "clear", "fill", "teams"}
    OBVIOUS
  <2> QED BY <1>1, <2>1, <2>2, TailCache
<1> QED BY <1>2, <1>3, <1>4 DEF Course

LEMMA StopKept ==
  ASSUME NEW q, NEW w, Listed(q, w), q # <<>>, q[1].op \in Early, NEW r, Course(q, r),
         Stay, NEW p, Stop(p)
  PROVE  Kept(p)
<1>1. whole' = whole /\ load' = load /\ UNCHANGED <<active, start, cache, history, tour>>
  BY DEF Stay
<1>2. \A t \in Tour : Counts(t) => Counts(t)'
  <2>1. \A t : OfMatch(t)' = OfMatch(t)
    BY <1>1 DEF OfMatch
  <2> QED BY <1>1, <2>1, CountsAre
<1>3. \A s \in Side : Good(s) => Good(s)'
  BY <1>1, AllAlone
<1>4. Course(<<>>, Blank)'
  BY <1>1, <1>2, <1>3, StopCourse
<1> QED BY <1>4 DEF Kept

LEMMA GuardKept ==
  ASSUME Typed, NEW p \in Request, NEW q, q = req[p].todo, NEW r, r = req[p], Course(q, r),
         MatchGuard(p) \/ MatchFinished(p) \/ OldStatus(p) \/ ReadRule(p)
  PROVE  Kept(p)
<1>1. Stay /\ RequestsOK /\ ~Idle(p)
  BY DEF Typed, Stay, tables, MatchGuard, MatchFinished, OldStatus, ReadRule, Doing
<1>2. PICK h, x : h = It(p) /\ x = Tail(q)
  OBVIOUS
<1>3. /\ r \in Req /\ Listed(q, r.winner) /\ q # <<>> /\ h = q[1] /\ h \in Statement
      /\ Rest(p) = x /\ x \in Seq(Statement) /\ q \in Seq(Statement)
  BY <1>1, <1>2, HeadIs
<1>4. h.op \in {"guard", "ended", "old", "rule"}
  BY <1>2 DEF MatchGuard, MatchFinished, OldStatus, ReadRule, Doing, It
<1>5. q[1].op \in Early
  BY <1>3, <1>4 DEF Early
<1>6. CASE Stop(p)
  BY <1>1, <1>3, <1>5, <1>6, StopKept
<1>7. UNCHANGED <<tour, history, active, start, cache, load>> /\ (whole' => Honest(q))
  BY <1>1 DEF Stay, Honest
<1>8. q[1].op \notin {"load", "truncate", "list", "rows", "wipe", "award", "unwin", "clear",
                      "fill", "teams", "write"} \cup Pays
  BY <1>3, <1>4 DEF Pays
<1>9. ASSUME NEW v \in Req, GoOn(p, x, v), Heads(x, v)' PROVE Kept(p)
  <2>1. Course(x, v)'
    BY <1>2, <1>3, <1>5, <1>7, <1>8, <1>9, TailCourse
  <2> QED BY <1>3, <1>9, <2>1, GoKept
<1>10. x # <<>> /\ Joined(q[1], x[1])
  BY <1>2, <1>3, <1>4, HeadFacts DEF Leaders
<1>11. CASE MatchGuard(p) /\ ~Stop(p)
  <2>1. GoOn(p, x, r)
    BY <1>3, <1>11 DEF MatchGuard, Next1
  <2>2. q[1].op = "guard"
    BY <1>2, <1>3, <1>11 DEF MatchGuard, Doing, It
  <2>3. Heads(x, r)'
    BY <1>2, <1>3, <2>2, TailHeads
  <2> QED BY <1>3, <1>9, <2>1, <2>3
<1>12. CASE ReadRule(p) /\ ~Stop(p)
  <2>1. PICK v : v = [r EXCEPT !.season = active]
    OBVIOUS
  <2>2. v \in Req
    BY <1>3, <2>1 DEF Typed, TablesOK, SeasonsOK, Req, Seasons
  <2>3. GoOn(p, x, v)
    BY <1>3, <1>12, <2>1 DEF ReadRule
  <2>4. q[1].op = "rule"
    BY <1>2, <1>3, <1>12 DEF ReadRule, Doing, It
  <2>5. Heads(x, v)'
    BY <1>2, <1>3, <2>4, TailHeads
  <2> QED BY <1>9, <2>2, <2>3, <2>5
<1>13. CASE MatchFinished(p) /\ ~Stop(p)
  <2>1. PICK t : t = h.t
    OBVIOUS
  <2>2. q[1].op = "ended" /\ t \in Tour
    BY <1>2, <1>3, <1>13, <2>1, Fields DEF MatchFinished, Doing, It, AboutMatch
  <2>3. tour[t].status = "finished" /\ tour[t] \in Match
    BY <1>2, <1>13, <2>1, <2>2 DEF MatchFinished, Typed, TablesOK, ToursOK
  <2>4. PICK v : v = [r EXCEPT !.winner = tour[t].winner, !.voided = tour[t].voided]
    OBVIOUS
  <2>5. v \in Req /\ v.winner = tour[t].winner /\ v.voided = tour[t].voided
    BY <1>3, <2>3, <2>4 DEF Req, Match
  <2>6. GoOn(p, x, v)
    BY <1>2, <1>3, <1>13, <2>1, <2>4 DEF MatchFinished
  <2>7. x[1].op \in {"rescore", "void"} /\ x[1].t = t
    BY <1>3, <1>10, <2>1, <2>2 DEF Joined
  <2>8. Heads(x, v)'
    BY <1>7, <1>10, <2>3, <2>5, <2>7 DEF Heads
  <2> QED BY <1>9, <2>5, <2>6, <2>8
<1>14. CASE OldStatus(p) /\ ~Stop(p)
  <2>1. PICK t : t = h.t
    OBVIOUS
  <2>2. q[1].op = "old" /\ t \in Tour
    BY <1>2, <1>3, <1>14, <2>1, Fields DEF OldStatus, Doing, It, AboutMatch
  <2>3. There(t)
    BY <1>2, <1>14, <2>1 DEF OldStatus
  <2>4. PICK v : v = [r EXCEPT !.voided = tour[t].status = "finished"]
    OBVIOUS
  <2>5. v \in Req /\ (v.voided <=> tour[t].status = "finished")
    BY <1>3, <2>4 DEF Req
  <2>6. GoOn(p, x, v)
    BY <1>2, <1>3, <1>14, <2>1, <2>4 DEF OldStatus
  <2>7. x[1].op \in {"finished", "upcoming"} /\ x[1].t = t
    BY <1>3, <1>10, <2>1, <2>2 DEF Joined
  <2>8. There(t)'
    BY <1>7, <2>3 DEF There
  <2>9. Heads(x, v)'
    BY <1>7, <1>10, <2>5, <2>7, <2>8 DEF Heads
  <2> QED BY <1>9, <2>5, <2>6, <2>9
<1> QED BY <1>6, <1>11, <1>12, <1>13, <1>14

LEMMA SumKept ==
  ASSUME Typed, NEW p \in Request, NEW q, q = req[p].todo, NEW r, r = req[p], Course(q, r),
         ReadSum(p) \/ SyncPatches(p)
  PROVE  Kept(p)
<1>1. RequestsOK /\ ~Idle(p) /\ UNCHANGED <<tour, history, active, start, cache, load>>
  BY DEF Typed, tables, ReadSum, SyncPatches, Doing
<1>2. PICK h, x : h = It(p) /\ x = Tail(q)
  OBVIOUS
<1>3. /\ r \in Req /\ Listed(q, r.winner) /\ q # <<>> /\ h = q[1] /\ h \in Statement
      /\ Rest(p) = x /\ x \in Seq(Statement) /\ q \in Seq(Statement)
  BY <1>1, <1>2, HeadIs
<1>4. h.op \in {"sum", "patches"}
  BY <1>2 DEF ReadSum, SyncPatches, Doing, It
<1>5. q[1].op \notin {"load", "truncate", "list", "rows", "wipe", "award", "unwin", "clear",
                      "fill", "teams", "write"} \cup Pays
  BY <1>3, <1>4 DEF Pays
<1>6. whole' => Honest(q)
  <2>1. CASE ReadSum(p)
    BY <2>1 DEF ReadSum, Honest
  <2>2. CASE SyncPatches(p)
    <3>1. q[1].op = "patches"
      BY <1>2, <1>3, <2>2 DEF SyncPatches, Doing, It
    <3>2. 1 \in 1..Len(q)
      BY <1>3, EmptySeq
    <3> QED BY <3>1, <3>2 DEF Honest, Has
  <2> QED BY <2>1, <2>2
<1>7. ASSUME NEW v \in Req, GoOn(p, x, v), v.winner = r.winner, v.voided = r.voided, Heads(x, v)' PROVE Kept(p)
  <2>1. Course(x, v)'
    BY <1>1, <1>2, <1>3, <1>5, <1>6, <1>7, TailCourse
  <2> QED BY <1>3, <1>7, <2>1, GoKept
<1>8. CASE SyncPatches(p)
  <2>1. GoOn(p, x, r)
    BY <1>3, <1>8 DEF SyncPatches, Next1
  <2>2. q[1].op = "patches"
    BY <1>2, <1>3, <1>8 DEF SyncPatches, Doing, It
  <2>3. Heads(x, r)'
    BY <1>2, <1>3, <2>2, TailHeads
  <2> QED BY <1>3, <1>7, <2>1, <2>3
<1>9. CASE ReadSum(p)
  <2>1. q[1].op = "sum" /\ h.s \in Side
    BY <1>2, <1>3, <1>9, Fields DEF ReadSum, Doing, It
  <2>2. PICK s : s = h.s
    OBVIOUS
  <2>3. active \in Seasons /\ TablesOK
    BY DEF Typed, TablesOK, SeasonsOK, Seasons
  <2>4. SeasonMmr(history, s, active) \in Int
    BY <2>3, SeasonMmrInt
  <2>5. Value(s) \in Int \cup {NoRow}
    BY <2>4 DEF Value
  <2>6. PICK v : v = [r EXCEPT !.sum = Value(s)]
    OBVIOUS
  <2>7. v \in Req /\ v.winner = r.winner /\ v.voided = r.voided /\ v.sum = Value(s)
    BY <1>3, <2>5, <2>6 DEF Req
  <2>8. Played(s, active) <=> ~\A y \in RowsOf(history, s, active) : y.tour = NoTour
    BY DEF Played
  <2>9. GoOn(p, x, v)
    <3>1. GoOn(p, x, [r EXCEPT !.sum =
             IF s \in Player /\ \A y \in RowsOf(history, s, active) : y.tour = NoTour
             THEN NoRow ELSE SeasonMmr(history, s, active)])
      BY <1>2, <1>3, <1>9, <2>2 DEF ReadSum
    <3>2. Value(s) = IF s \in Player /\ \A y \in RowsOf(history, s, active) : y.tour = NoTour
                     THEN NoRow ELSE SeasonMmr(history, s, active)
      BY <2>8 DEF Value
    <3> QED BY <2>6, <3>1, <3>2
  <2>10. x # <<>> /\ Joined(q[1], x[1])
    BY <1>2, <1>3, <2>1, HeadFacts DEF Leaders
  <2>11. x[1].op = "write" /\ x[1].s = s
    BY <1>3, <2>1, <2>2, <2>10 DEF Joined
  <2>12. Value(s)' = Value(s)
    BY <1>1, AllAlone
  <2>13. Heads(x, v)'
    BY <2>7, <2>10, <2>11, <2>12 DEF Heads
  <2> QED BY <1>7, <2>7, <2>9, <2>13
<1> QED BY <1>8, <1>9

\* As long as nothing was changed, everything is as it should be.
LEMMA FreshFacts ==
  ASSUME NEW q, NEW w, Listed(q, w), q # <<>>, q[1].op \in Early, NEW r, Course(q, r)
  PROVE  /\ whole => \A t \in Tour : Counts(t)
         /\ whole /\ "delete" \notin load.kinds => \A s \in Side : Good(s)
<1>1. Fresh(q)
  BY DEF Fresh
<1>2. whole => \A t \in Tour : Counts(t)
  <2>1. \A t \in Tour : ~Due(q, t) /\ ~With(q, {"award", "unwin"}, t) /\ ~With(q, {"rate"}, t)
                        /\ ~With(q, {"insert"}, t)
    BY <1>1, HeadFacts DEF Due
  <2> QED BY <2>1 DEF Course, Tallied, Tally, Honest
<1>3. whole /\ "delete" \notin load.kinds => \A s \in Side : Good(s)
  <2>1. ~Renews(q) /\ ~Filling(q) /\ \A s : ~Excused(q, s)
    BY <1>1 DEF Renews, Filling, Excused, Early
  <2> QED BY <2>1 DEF Course, CacheKept, Honest
<1> QED BY <1>2, <1>3

\* What is set out to do about one match.
About(x, t) ==
  /\ x \in Seq(Statement) /\ x # <<>> /\ x[1].op \in {"top", "load", "rows"}
  /\ \A i \in 1..Len(x) : x[i].t = t /\ x[i].op \in {"top", "load", "rows", "wipe", "award", "unwin"}
  /\ With(x, {"load", "rows", "wipe"}, t)

LEMMA AboutCourse ==
  ASSUME NEW t \in Tour, NEW x, About(x, t), NEW v, Statuses(x, v)',
         whole => \A u \in Tour : Counts(u),
         whole /\ "delete" \notin load.kinds => \A s \in Side : Good(s),
         \A u \in Tour : u # t => tour'[u] = tour[u],
         UNCHANGED <<history, cache, active, start, whole, load>>
  PROVE  Course(x, v)'
<1>1. Heads(x, v)'
  BY DEF Heads, About
<1>2. Honest(x)' => whole
  BY DEF Honest, Has, About
<1>3. ~Fresh(x) /\ Due(x, t)
  BY DEF Fresh, Early, About, Due
<1>4. Tallied(x, v)'
  <2>1. SUFFICES ASSUME whole, NEW u \in Tour, u # t PROVE Tally(x, v, u)'
    BY <1>2, <1>3 DEF Tallied, Due, Fresh, Has, With
  <2>2. ~With(x, {"rate"}, u) /\ ~With(x, {"insert"}, u) /\ ~With(x, {"award", "unwin"}, u)
    BY <2>1 DEF With, About
  <2>3. Tally(x, v, u)' <=> Counts(u)'
    BY <2>2 DEF Tally, With
  <2>4. OfMatch(u)' = OfMatch(u)
    BY DEF OfMatch
  <2> QED BY <2>1, <2>3, <2>4, CountsAre
<1>5. CacheKept(x)'
  <2>1. \A s : Good(s)' <=> Good(s)
    BY AllAlone
  <2> QED BY <1>2, <2>1 DEF CacheKept
<1> QED BY <1>1, <1>4, <1>5 DEF Course

\* A full recomputation makes everything anew.
LEMMA AllCourse ==
  ASSUME NEW v
  PROVE  Course(All, v)' /\ Course(All, v)
<1>1. PICK x : x = All
  OBVIOUS
<1>2. /\ Len(x) = 2 /\ x[1].op = "truncate" /\ x[2].op = "list" /\ x # <<>>
  BY <1>1 DEF All, St
<1>3. \A i \in 1..Len(x) : i = 1 \/ i = 2
  BY <1>2
<1>4. Has(x, {"truncate", "list"}) /\ Has(x, {"truncate", "list", "clear"}) /\ ~Fresh(x)
  BY <1>2 DEF Has, Fresh, Early
<1>5. Statuses(x, v) /\ Statuses(x, v)'
  BY <1>2, <1>3 DEF Statuses, Pays
<1>6. Heads(x, v) /\ Heads(x, v)'
  BY <1>2 DEF Heads
<1>7. (\A t : Due(x, t)) /\ Renews(x)
  BY <1>4 DEF Due, Renews
<1>8. Tallied(x, v) /\ CacheKept(x)
  BY <1>7 DEF Tallied, CacheKept
<1>9. Tallied(x, v)' /\ CacheKept(x)'
  BY <1>4 DEF Tallied, CacheKept, Due, Renews, Fresh, Has, With
<1> QED BY <1>1, <1>5, <1>6, <1>8, <1>9 DEF Course

LEMMA UnpinCourse ==
  ASSUME NEW t \in Tour, NEW v
  PROVE  Course(<<St("unpin", t, NoSide)>> \o All, v)'
<1>1. PICK x : x = <<St("unpin", t, NoSide)>> \o All
  OBVIOUS
<1>2. /\ Len(x) = 3 /\ x[1].op = "unpin" /\ x[2].op = "truncate" /\ x[3].op = "list" /\ x # <<>>
  BY <1>1 DEF All, St
<1>3. \A i \in 1..Len(x) : i = 1 \/ i = 2 \/ i = 3
  BY <1>2
<1>4. Has(x, {"truncate", "list"}) /\ Has(x, {"truncate", "list", "clear"}) /\ ~Fresh(x)
  BY <1>2 DEF Has, Fresh, Early
<1>5. Statuses(x, v)'
  BY <1>2, <1>3 DEF Statuses, Pays
<1>6. Heads(x, v)'
  BY <1>2 DEF Heads
<1>7. Tallied(x, v)' /\ CacheKept(x)'
  BY <1>4 DEF Tallied, CacheKept, Due, Renews, Fresh, Has, With
<1> QED BY <1>1, <1>5, <1>6, <1>7 DEF Course

LEMMA ApplyAbout ==
  ASSUME NEW t \in Tour
  PROVE  /\ About(Apply(t), t) /\ About(<<St("top", t, NoSide)>> \o Apply(t), t)
         /\ About(Revert(t) \o <<St("unwin", t, NoSide)>>, t)
         /\ \A v : /\ tour'[t].status = "finished" => Statuses(Apply(t), v)'
                   /\ tour'[t].status = "finished" => Statuses(<<St("top", t, NoSide)>> \o Apply(t), v)'
                   /\ tour'[t].status = "upcoming" => Statuses(Revert(t) \o <<St("unwin", t, NoSide)>>, v)'
<1>1. PICK a : a = Apply(t)
  OBVIOUS
<1>2. /\ a \in Seq(Statement) /\ Len(a) = 4 /\ a[1] = St("load", t, NoSide)
      /\ a[2] = St("rows", t, NoSide) /\ a[3] = St("wipe", t, NoSide) /\ a[4] = St("award", t, NoSide)
  BY <1>1, ApplyIs
<1>3. /\ a[1].op = "load" /\ a[2].op = "rows" /\ a[3].op = "wipe" /\ a[4].op = "award"
      /\ a[1].t = t /\ a[2].t = t /\ a[3].t = t /\ a[4].t = t
  BY <1>2 DEF St
<1>4. \A i \in 1..4 : i = 1 \/ i = 2 \/ i = 3 \/ i = 4
  OBVIOUS
<1>5. About(a, t)
  <2>1. a # <<>> /\ With(a, {"load", "rows", "wipe"}, t)
    BY <1>2, <1>3 DEF With
  <2> QED BY <1>2, <1>3, <1>4, <2>1 DEF About
<1>6. ASSUME NEW v, tour'[t].status = "finished" PROVE Statuses(a, v)'
  <2>1. Loading(a, 1, 4)
    BY <1>3 DEF Loading
  <2> QED BY <1>2, <1>3, <1>4, <1>6, <2>1 DEF Statuses, Pays
<1>7. PICK b, o : o = St("top", t, NoSide) /\ b = <<o>> \o a
  OBVIOUS
<1>8. o \in Statement /\ o.op = "top" /\ o.t = t
  BY <1>7 DEF St, Statement, AboutMatch
<1>9. /\ b \in Seq(Statement) /\ Len(b) = 5 /\ b[1] = o /\ b[2] = a[1] /\ b[3] = a[2] /\ b[4] = a[3] /\ b[5] = a[4]
  <2>1. PICK z : z = <<o>>
    OBVIOUS
  <2>2. z \in Seq(Statement) /\ Len(z) = 1 /\ z[1] = o /\ b = z \o a
    BY <1>7, <1>8, <2>1
  <2>3. b \in Seq(Statement) /\ Len(b) = Len(z) + Len(a)
        /\ \A i \in 1..Len(z) + Len(a) : b[i] = IF i <= Len(z) THEN z[i] ELSE a[i - Len(z)]
    BY <1>2, <2>2, ConcatProperties
  <2> QED BY <1>2, <2>2, <2>3
<1>10. \A i \in 1..5 : i = 1 \/ i = 2 \/ i = 3 \/ i = 4 \/ i = 5
  OBVIOUS
<1>11. About(b, t)
  <2>1. b # <<>> /\ With(b, {"load", "rows", "wipe"}, t)
    BY <1>3, <1>9 DEF With
  <2> QED BY <1>3, <1>8, <1>9, <1>10, <2>1 DEF About
<1>12. ASSUME NEW v, tour'[t].status = "finished" PROVE Statuses(b, v)'
  <2>1. Loading(b, 1, 5)
    BY <1>3, <1>9 DEF Loading
  <2> QED BY <1>3, <1>8, <1>9, <1>10, <1>12, <2>1 DEF Statuses, Pays
<1>13. PICK c : c = Revert(t) \o <<St("unwin", t, NoSide)>>
  OBVIOUS
<1>14. /\ c \in Seq(Statement) /\ Len(c) = 3 /\ c[1].op = "rows" /\ c[2].op = "wipe" /\ c[3].op = "unwin"
       /\ c[1].t = t /\ c[2].t = t /\ c[3].t = t
  BY <1>13 DEF Revert, St, Statement, AboutMatch
<1>15. \A i \in 1..3 : i = 1 \/ i = 2 \/ i = 3
  OBVIOUS
<1>16. About(c, t)
  <2>1. c # <<>> /\ With(c, {"load", "rows", "wipe"}, t)
    BY <1>14 DEF With
  <2> QED BY <1>14, <1>15, <2>1 DEF About
<1>17. ASSUME NEW v, tour'[t].status = "upcoming" PROVE Statuses(c, v)'
  BY <1>14, <1>15, <1>17 DEF Statuses, Pays
<1> QED BY <1>1, <1>5, <1>6, <1>7, <1>11, <1>12, <1>13, <1>16, <1>17

LEMMA EndsKept ==
  ASSUME Typed, NEW p \in Request, NEW q, q = req[p].todo, NEW r, r = req[p], Course(q, r),
         FinishMatch(p) \/ SetTournamentWinner(p) \/ RescoreFinishedMatch(p)
         \/ SetMatchVoided(p) \/ UpdateStatus(p) \/ DeleteTournament(p)
  PROVE  Kept(p)
<1>1. /\ RequestsOK /\ ~Idle(p) /\ tour \in [Tour -> Match]
      /\ UNCHANGED <<resets, seasons, active, start, cache, clock, whole, load>>
  BY DEF Typed, FinishMatch, SetTournamentWinner, RescoreFinishedMatch, SetMatchVoided,
         UpdateStatus, DeleteTournament, Doing, TablesOK, ToursOK
<1>2. PICK h, t : h = It(p) /\ t = h.t
  OBVIOUS
<1>3. /\ r \in Req /\ Listed(q, r.winner) /\ q # <<>> /\ h = q[1] /\ h \in Statement
  BY <1>1, <1>2, HeadIs
<1>4. h.op \in {"close", "named", "rescore", "void", "finished", "upcoming", "delete"}
  BY <1>2 DEF FinishMatch, SetTournamentWinner, RescoreFinishedMatch, SetMatchVoided,
              UpdateStatus, DeleteTournament, Doing, It
<1>5. q[1].op \in Early /\ t \in Tour
  BY <1>2, <1>3, <1>4, Fields DEF Early, AboutMatch
<1>6. /\ whole => \A u \in Tour : Counts(u)
      /\ whole /\ "delete" \notin load.kinds => \A s \in Side : Good(s)
  BY <1>3, <1>5, FreshFacts
<1>7. ASSUME NEW x, About(x, t), Statuses(x, r)', GoOn(p, x, r),
             \A u \in Tour : u # t => tour'[u] = tour[u], history' = history
      PROVE  Kept(p)
  <2>1. Course(x, r)'
    BY <1>1, <1>5, <1>6, <1>7, AboutCourse
  <2>2. x \in Seq(Statement)
    BY <1>7 DEF About
  <2> QED BY <1>3, <1>7, <2>1, <2>2, GoKept
<1>8. GoOn(p, All, r) => Kept(p)
  <2>1. Course(All, r)' /\ All \in Seq(Statement)
    BY AllCourse, StartAll DEF Listed
  <2> QED BY <1>3, <2>1, GoKept
<1>18. GoOn(p, <<St("unpin", t, NoSide)>> \o All, r) => Kept(p)
  <2>1. PICK x : x = <<St("unpin", t, NoSide)>> \o All
    OBVIOUS
  <2>2. Course(x, r)' /\ x \in Seq(Statement)
    BY <1>5, <2>1, UnpinCourse, StartAll DEF Listed
  <2> QED BY <1>3, <2>1, <2>2, GoKept
<1>9. history' = history /\ UNCHANGED tour /\ Stop(p) => Kept(p)
  BY <1>1, <1>3, <1>5, StopKept DEF Stay
<1>10. ASSUME NEW m, tour' = [tour EXCEPT ![t] = m]
       PROVE  tour'[t] = m /\ \A u \in Tour : u # t => tour'[u] = tour[u]
  BY <1>1, <1>5, <1>10
<1>11. tour[t] \in Match
  BY <1>1, <1>5
<1>12. CASE FinishMatch(p)
  <2>0. history' = history
    BY <1>12 DEF FinishMatch
  <2>1. CASE ~There(t)
    BY <1>2, <1>9, <1>12, <2>0, <2>1 DEF FinishMatch
  <2>2. CASE There(t)
    <3>1. PICK w : tour' = [tour EXCEPT ![t].status = "finished", ![t].winner = w]
      BY <1>2, <1>12, <2>2 DEF FinishMatch
    <3>2. tour'[t].status = "finished" /\ \A u \in Tour : u # t => tour'[u] = tour[u]
      BY <1>1, <1>5, <1>11, <3>1 DEF Match
    <3>3. GoOn(p, Apply(t), r)
      BY <1>2, <1>12, <2>2 DEF FinishMatch
    <3>4. About(Apply(t), t) /\ Statuses(Apply(t), r)'
      BY <1>5, <3>2, ApplyAbout
    <3> QED BY <1>7, <2>0, <3>2, <3>3, <3>4
  <2> QED BY <2>1, <2>2
<1>13. CASE SetTournamentWinner(p)
  <2>0. history' = history
    BY <1>13 DEF SetTournamentWinner
  <2>1. CASE ~There(t)
    BY <1>2, <1>9, <1>13, <2>0, <2>1 DEF SetTournamentWinner
  <2>2. CASE There(t)
    <3>1. tour' = [tour EXCEPT ![t].status = "finished", ![t].winner = h.s]
      BY <1>2, <1>13, <2>2 DEF SetTournamentWinner
    <3>2. tour'[t].status = "finished" /\ \A u \in Tour : u # t => tour'[u] = tour[u]
      BY <1>1, <1>5, <1>11, <3>1 DEF Match
    <3>3. GoOn(p, Apply(t), r)
      BY <1>2, <1>13, <2>2 DEF SetTournamentWinner
    <3>4. About(Apply(t), t) /\ Statuses(Apply(t), r)'
      BY <1>5, <3>2, ApplyAbout
    <3> QED BY <1>7, <2>0, <3>2, <3>3, <3>4
  <2> QED BY <2>1, <2>2
<1>14. CASE RescoreFinishedMatch(p)
  <2>1. history' = history /\ q[1].op = "rescore" /\ q[1].t = t
    BY <1>2, <1>3, <1>14 DEF RescoreFinishedMatch, Doing, It
  <2>2. tour[t].status = "finished" /\ r.winner = tour[t].winner
    BY <1>3, <2>1 DEF Course, Heads
  <2>3. There(t)
    BY <2>2 DEF There
  <2>4. PICK w : /\ tour' = [tour EXCEPT ![t].winner = w]
                 /\ IF w = r.winner THEN Stop(p) ELSE GoOn(p, <<St("unpin", t, NoSide)>> \o All, r)
    BY <1>2, <1>14, <2>3 DEF RescoreFinishedMatch
  <2>5. CASE w = r.winner
    <3>1. [tour[t] EXCEPT !.winner = w] = tour[t]
      BY <1>11, <2>2, <2>5 DEF Match
    <3>2. tour' = tour
      BY <1>1, <1>5, <2>4, <3>1
    <3> QED BY <1>9, <2>1, <2>4, <2>5, <3>2
  <2> QED BY <1>18, <2>4, <2>5
<1>15. CASE SetMatchVoided(p)
  BY <1>2, <1>8, <1>9, <1>15 DEF SetMatchVoided
<1>16. CASE DeleteTournament(p)
  <2>1. history' = {x \in history : x.tour # t} /\ Stop(p)
    BY <1>2, <1>16 DEF DeleteTournament
  <2>2. "delete" \in load.kinds
    BY <1>2, <1>3, <1>16, Fields DEF DeleteTournament, Doing, It
  <2>3. \A u \in Tour : Counts(u) => Counts(u)'
    <3>1. OfMatch(t)' = {} /\ \A u : u # t => OfMatch(u)' = OfMatch(u)
      BY <2>1 DEF OfMatch
    <3>2. tour'[t].status # "finished" /\ \A u \in Tour : u # t => tour'[u] = tour[u]
      BY <1>1, <1>2, <1>5, <1>11, <1>16 DEF DeleteTournament, There, Match
    <3>3. ASSUME NEW u \in Tour, Counts(u) PROVE Counts(u)'
      <4>1. CASE u = t
        <5>1. Entitled(OfMatch(t)', tour'[t], t)
          BY <3>1, <3>2 DEF Entitled
        <5> QED BY <4>1, <5>1, CountsAre
      <4>2. CASE u # t
        <5>1. OfMatch(u)' = OfMatch(u) /\ tour'[u] = tour[u]
          BY <3>1, <3>2, <4>2
        <5> QED BY <3>3, <5>1, CountsAre
      <4> QED BY <4>1, <4>2
    <3> QED BY <3>3
  <2>4. whole' = whole /\ load' = load
    BY <1>1
  <2>5. Course(<<>>, Blank)'
    BY <1>3, <1>5, <2>2, <2>3, <2>4, StopCourse
  <2> QED BY <2>1, <2>5 DEF Kept
<1>17. CASE UpdateStatus(p)
  <2>1. history' = history /\ q[1].op \in {"finished", "upcoming"} /\ q[1].t = t /\ h.op = q[1].op
    BY <1>2, <1>3, <1>17 DEF UpdateStatus, Doing, It
  <2>2. There(t) /\ (r.voided <=> tour[t].status = "finished")
    BY <1>3, <2>1 DEF Course, Heads
  <2>3. tour' = [tour EXCEPT ![t].status = h.op]
    BY <1>2, <1>17, <2>2 DEF UpdateStatus
  <2>4. /\ tour'[t].status = h.op /\ tour'[t].winner = tour[t].winner /\ (tour'[t].voided <=> tour[t].voided)
        /\ tour'[t].doubled = tour[t].doubled /\ (tour'[t].pinned <=> tour[t].pinned)
        /\ \A u \in Tour : u # t => tour'[u] = tour[u]
    BY <1>1, <1>5, <1>11, <2>1, <2>3 DEF Match
  <2>5. r.voided \in BOOLEAN
    BY <1>3 DEF Req
  <2>6. CASE h.op = "finished" /\ ~r.voided
    <3>1. GoOn(p, <<St("top", t, NoSide)>> \o Apply(t), r)
      BY <1>2, <1>17, <2>6 DEF UpdateStatus
    <3>2. PICK x : x = <<St("top", t, NoSide)>> \o Apply(t)
      OBVIOUS
    <3>3. About(x, t) /\ Statuses(x, r)'
      BY <1>5, <2>4, <2>6, <3>2, ApplyAbout
    <3> QED BY <1>7, <2>1, <2>4, <3>1, <3>2, <3>3
  <2>7. CASE h.op = "upcoming" /\ r.voided
    <3>1. GoOn(p, Revert(t) \o <<St("unwin", t, NoSide)>>, r)
      BY <1>2, <1>17, <2>7 DEF UpdateStatus
    <3>2. PICK x : x = Revert(t) \o <<St("unwin", t, NoSide)>>
      OBVIOUS
    <3>3. About(x, t) /\ Statuses(x, r)'
      BY <1>5, <2>4, <2>7, <3>2, ApplyAbout
    <3> QED BY <1>7, <2>1, <2>4, <3>1, <3>2, <3>3
  <2>8. CASE ~(h.op = "finished" /\ ~r.voided) /\ ~(h.op = "upcoming" /\ r.voided)
    <3>1. Stop(p)
      BY <1>2, <1>17, <2>8 DEF UpdateStatus
    <3>2. tour[t].status = "finished" <=> tour'[t].status = "finished"
      BY <2>1, <2>2, <2>4, <2>8
    <3>3. \A u \in Tour : Counts(u) => Counts(u)'
      <4>1. \A u : OfMatch(u)' = OfMatch(u)
        BY <2>1 DEF OfMatch
      <4>2. ASSUME NEW u \in Tour, u # t, Counts(u) PROVE Counts(u)'
        BY <2>4, <4>1, <4>2, CountsAre
      <4>3. ASSUME Counts(t) PROVE Counts(t)'
        <5>1. Entitled(OfMatch(t), tour[t], t)
          BY <4>3, CountsAre
        <5>2. PICK m, n, R : m = tour[t] /\ n = tour'[t] /\ R = OfMatch(t)
          OBVIOUS
        <5>3. Entitled(R, n, t)
          BY <2>4, <3>2, <5>1, <5>2 DEF Entitled, Change, Doubled
        <5> QED BY <4>1, <5>2, <5>3, CountsAre
      <4> QED BY <4>2, <4>3
    <3>4. \A s \in Side : Good(s) => Good(s)'
      BY <1>1, <2>1, AllAlone
    <3>5. Course(<<>>, Blank)'
      BY <1>1, <1>3, <1>5, <3>3, <3>4, StopCourse
    <3> QED BY <3>1, <3>5 DEF Kept
  <2> QED BY <2>6, <2>7, <2>8
<1> QED BY <1>12, <1>13, <1>14, <1>15, <1>16, <1>17

LEMMA ValueAlone ==
  ASSUME NEW s, UNCHANGED <<active, start>>,
         RowsOf(history', s, active) = RowsOf(history, s, active)
  PROVE  Value(s)' = Value(s)
<1>1. PICK R : R = RowsOf(history, s, active)
  OBVIOUS
<1>2. RowsOf(history', s, active') = R
  BY <1>1
<1>3. (Played(s, active)' <=> \E x \in R : x.tour # NoTour) /\ (Played(s, active) <=> \E x \in R : x.tour # NoTour)
  BY <1>1, <1>2 DEF Played
<1>4. SeasonMmr(history, s, active) = StartOf(active) + Total(R)
  BY <1>1 DEF SeasonMmr
<1>5. StartOf(active)' = StartOf(active)
  BY DEF StartOf
<1>6. SeasonMmr(history, s, active)' = StartOf(active)' + Total(R)
  BY <1>2 DEF SeasonMmr
<1>7. SeasonMmr(history, s, active)' = SeasonMmr(history, s, active)
  BY <1>4, <1>5, <1>6
<1> QED BY <1>3, <1>7 DEF Value

\* What the rest of a list leaves as it is the list does.
LEMMA DueTail ==
  ASSUME NEW q, NEW w, Listed(q, w), q # <<>>, NEW x, x = Tail(q), NEW t, ~Due(x, t),
         q[1].op \notin {"truncate", "list", "rows"}, ~(q[1].op = "wipe" /\ q[1].t = t)
  PROVE  ~Due(q, t)
<1>1. q \in Seq(Statement)
  BY DEF Listed
<1>2. SUFFICES ASSUME ~Fresh(q), Has(q, {"truncate", "list"}) \/ With(q, {"load", "rows", "wipe"}, t)
               PROVE  FALSE
  BY DEF Due
<1>3. ~Fresh(x)
  BY <1>2, HeadFacts
<1>4. ~Has(x, {"truncate", "list"}) /\ ~With(x, {"load", "rows", "wipe"}, t)
  BY <1>3 DEF Due
<1>5. q[1].op = "load" /\ q[1].t = t
  <2>1. Has(q, {"truncate", "list"}) => q[1].op \in {"truncate", "list"} \/ Has(x, {"truncate", "list"})
    BY <1>1, TailFacts
  <2>2. With(q, {"load", "rows", "wipe"}, t) =>
          (q[1].op \in {"load", "rows", "wipe"} /\ q[1].t = t) \/ With(x, {"load", "rows", "wipe"}, t)
    <3>1. \A ops, u : With(q, ops, u) => (q[1].op \in ops /\ q[1].t = u) \/ With(x, ops, u)
      BY <1>1, TailFacts
    <3> QED BY <3>1
  <2> QED BY <1>2, <1>4, <2>1, <2>2
<1>6. x # <<>> /\ Joined(q[1], x[1])
  BY <1>5, HeadFacts DEF Leaders
<1>7. x[1].op = "rows" /\ x[1].t = t
  BY <1>5, <1>6 DEF Joined
<1>8. 1 \in 1..Len(x)
  <2>1. x \in Seq(Statement)
    BY <1>1, TailFacts
  <2> QED BY <1>6, <2>1, EmptySeq
<1> QED BY <1>4, <1>7, <1>8 DEF With

\* The awards to come, when the first statement is not one of them.
LEMMA WithTail ==
  ASSUME NEW q, NEW w, Listed(q, w), q # <<>>, NEW x, x = Tail(q), NEW t
  PROVE  /\ With(x, {"award", "unwin"}, t) => With(q, {"award", "unwin"}, t)
         /\ With(q, {"award", "unwin"}, t) =>
              (q[1].op \in {"award", "unwin"} /\ q[1].t = t) \/ With(x, {"award", "unwin"}, t)
         /\ q[1].op \in {"award", "unwin"} => With(q, {"award", "unwin"}, q[1].t)
         /\ q[1].op \notin Pays => ~With(q, {"rate"}, t) /\ ~With(q, {"insert"}, t)
                                   /\ ~With(x, {"rate"}, t) /\ ~With(x, {"insert"}, t)
<1>1. q \in Seq(Statement)
  BY DEF Listed
<1>2. 1 \in 1..Len(q)
  BY <1>1, EmptySeq
<1>3. q[1].op \in {"award", "unwin"} => With(q, {"award", "unwin"}, q[1].t)
  BY <1>2 DEF With
<1>4. q[1].op \notin Pays => ~With(q, {"rate"}, t) /\ ~With(q, {"insert"}, t)
  BY HeadFacts
<1>5. /\ With(x, {"award", "unwin"}, t) => With(q, {"award", "unwin"}, t)
      /\ With(x, {"rate"}, t) => With(q, {"rate"}, t)
      /\ With(x, {"insert"}, t) => With(q, {"insert"}, t)
  BY <1>1, TailFacts
<1>6. With(q, {"award", "unwin"}, t) =>
              (q[1].op \in {"award", "unwin"} /\ q[1].t = t) \/ With(x, {"award", "unwin"}, t)
  BY <1>1, TailFacts
<1> QED BY <1>3, <1>4, <1>5, <1>6

\* The rest of a list, when what it needs of the matches is known.
LEMMA StatusesOf ==
  ASSUME NEW q, NEW w, Listed(q, w), q # <<>>, NEW x, x = Tail(q), NEW r, NEW v, Statuses(q, r),
         \A t \in Tour : tour'[t].status = tour[t].status,
         \A i \in 1..Len(x) : x[i].op \in {"award"} \cup Pays /\ ~Loading(x, 1, i)
           => v.winner = tour'[x[i].t].winner /\ (v.voided <=> tour'[x[i].t].voided),
         \A i \in 1..Len(x) : x[i].op \in Pays => v.doubled = tour'[x[i].t].doubled
  PROVE  Statuses(x, v)'
<1>1. q \in Seq(Statement)
  BY DEF Listed
<1>2. PICK n \in Nat : Len(q) = n /\ n > 0 /\ Len(x) = n - 1 /\ x \in Seq(Statement)
                      /\ \A i \in 1..n-1 : x[i] = q[i+1]
  BY <1>1, TailFacts
<1>3. ASSUME NEW i \in 1..n-1
      PROVE  /\ x[i].op \in {"load", "award", "top"} \cup Pays => tour'[x[i].t].status = "finished"
             /\ x[i].op = "unwin" => tour'[x[i].t].status # "finished"
             /\ x[i].op \in Pays => SidesOf(x[i].t) \cap Guest = {}
  <2>1. PICK j \in 1..n : j = i + 1 /\ x[i] = q[j] /\ q[j] \in Statement
    BY <1>1, <1>2, <1>3
  <2>2. q[j].op \in {"load", "award", "top", "unwin"} \cup Pays => q[j].t \in Tour
    BY <2>1, Fields DEF AboutMatch, Pays
  <2> QED BY <1>2, <2>1, <2>2 DEF Statuses
<1> QED BY <1>2, <1>3 DEF Statuses

LEMMA TopKept ==
  ASSUME Typed, NEW p \in Request, NEW q, q = req[p].todo, NEW r, r = req[p], Course(q, r),
         SetWinnerTop(p) \/ LoadTournament(p)
  PROVE  Kept(p)
<1>1. /\ RequestsOK /\ ~Idle(p) /\ tour \in [Tour -> Match]
      /\ UNCHANGED <<history, active, start, cache, whole, load>>
  BY DEF Typed, tables, SetWinnerTop, LoadTournament, Doing, TablesOK, ToursOK
<1>2. PICK h, t, x : h = It(p) /\ t = h.t /\ x = Tail(q)
  OBVIOUS
<1>3. /\ r \in Req /\ Listed(q, r.winner) /\ q # <<>> /\ h = q[1] /\ h \in Statement
      /\ Rest(p) = x /\ x \in Seq(Statement) /\ q \in Seq(Statement)
  BY <1>1, <1>2, HeadIs
<1>4. h.op \in {"top", "load"}
  BY <1>2 DEF SetWinnerTop, LoadTournament, Doing, It
<1>5. t \in Tour /\ tour[t] \in Match /\ 1 \in 1..Len(q)
  BY <1>1, <1>2, <1>3, <1>4, Fields, EmptySeq DEF AboutMatch
<1>6. tour[t].status = "finished"
  BY <1>2, <1>3, <1>4, <1>5 DEF Course, Statuses
<1>7. There(t)
  BY <1>6 DEF There
<1>8. x # <<>> /\ Joined(q[1], x[1]) /\ 1 \in 1..Len(x)
  <2>1. x # <<>> /\ Joined(q[1], x[1])
    BY <1>2, <1>3, <1>4, HeadFacts DEF Leaders
  <2> QED BY <1>3, <2>1, EmptySeq
<1>9. x[1].op \in {"load", "rows"} /\ x[1].t = t /\ (h.op = "top" => x[1].op = "load")
  BY <1>2, <1>3, <1>4, <1>8 DEF Joined
<1>10. Due(x, t)
  BY <1>8, <1>9 DEF Due, Fresh, Early, With
<1>11. /\ \A u \in Tour : u # t => tour'[u] = tour[u]
       /\ tour'[t].status = tour[t].status
       /\ h.op = "load" => tour' = tour
  <2>1. CASE SetWinnerTop(p)
    <3>1. PICK w : tour' = [tour EXCEPT ![t].winner = w]
      BY <1>2, <1>7, <2>1 DEF SetWinnerTop
    <3>2. h.op = "top"
      BY <1>2, <2>1 DEF SetWinnerTop, Doing, It
    <3> QED BY <1>1, <1>5, <3>1, <3>2 DEF Match
  <2>2. CASE LoadTournament(p)
    BY <2>2 DEF LoadTournament, tables
  <2> QED BY <2>1, <2>2
<1>12. \A u \in Tour : tour'[u].status = tour[u].status
  BY <1>11
<1>13. ASSUME NEW v \in Req, GoOn(p, x, v),
              \A i \in 1..Len(x) : x[i].op \in {"award"} \cup Pays /\ ~Loading(x, 1, i)
                => v.winner = tour'[x[i].t].winner /\ (v.voided <=> tour'[x[i].t].voided)
       PROVE  Kept(p)
  <2>1. Statuses(q, r) /\ Tallied(q, r) /\ CacheKept(q) /\ (whole' => Honest(q))
    BY <1>1 DEF Course, Honest
  <2>6. \A i \in 1..Len(x) : x[i].op \in Pays => v.doubled = tour'[x[i].t].doubled
    <3>1. ~Has(q, Pays)
      BY <1>3, <1>4, HeadFacts DEF Pays
    <3>2. ~Has(x, Pays)
      BY <1>2, <1>3, <3>1, TailFacts
    <3> QED BY <3>2 DEF Has
  <2>2. Statuses(x, v)'
    BY <1>2, <1>3, <1>12, <1>13, <2>1, <2>6, StatusesOf
  <2>3. Heads(x, v)'
    <3>1. q[1].op \notin {"ended", "old", "truncate", "rows", "sum", "clear", "fill", "rate", "insert"}
      BY <1>3, <1>4
    <3> QED BY <1>2, <1>3, <3>1, TailHeads
  <2>4. Tallied(x, v)'
    <3>1. \A u \in Tour : ~Due(x, u) => OfMatch(u)' = OfMatch(u) /\ tour'[u] = tour[u]
      BY <1>1, <1>10, <1>11 DEF OfMatch
    <3>2. q[1].op \notin Pays \cup {"truncate", "list", "rows", "wipe", "award", "unwin"}
      BY <1>3, <1>4 DEF Pays
    <3> QED BY <1>2, <1>3, <2>1, <3>1, <3>2, TailTallied
  <2>5. CacheKept(x)'
    <3>1. q[1].op \notin {"truncate", "list", "clear", "fill", "teams", "write"}
      BY <1>3, <1>4
    <3>2. \A s \in Side : (Good(s) \/ (q[1].op = "write" /\ q[1].s = s)) /\ ~Excused(x, s) => Good(s)'
      BY <1>1, <3>1, AllAlone
    <3>3. load' = load /\ q[1].op \notin {"truncate", "list", "clear", "fill", "teams"}
      BY <1>1, <3>1
    <3> QED BY <1>2, <1>3, <2>1, <3>2, <3>3, TailCache
  <2> QED BY <1>3, <1>13, <2>2, <2>3, <2>4, <2>5, GoKept DEF Course
<1>14. CASE SetWinnerTop(p)
  <2>1. GoOn(p, x, r)
    BY <1>3, <1>14 DEF SetWinnerTop, Next1
  <2>2. h.op = "top"
    BY <1>2, <1>14 DEF SetWinnerTop, Doing, It
  <2>3. \A i \in 1..Len(x) : Loading(x, 1, i)
    BY <1>8, <1>9, <2>2 DEF Loading
  <2> QED BY <1>3, <1>13, <2>1, <2>3
<1>15. CASE LoadTournament(p)
  <2>1. h.op = "load"
    BY <1>2, <1>15 DEF LoadTournament, Doing, It
  <2>2. PICK v : v = [r EXCEPT !.winner = tour[t].winner, !.voided = tour[t].voided]
    OBVIOUS
  <2>3. v \in Req /\ v.winner = tour[t].winner /\ v.voided = tour[t].voided
    BY <1>3, <1>5, <2>2 DEF Req, Match
  <2>4. GoOn(p, x, v)
    BY <1>2, <1>3, <1>7, <1>15, <2>2 DEF LoadTournament
  <2>5. ASSUME NEW i \in 1..Len(x), x[i].op \in {"award"} \cup Pays, ~Loading(x, 1, i)
        PROVE  x[i].t = t
    <3>1. PICK n \in Nat : Len(q) = n /\ n > 0 /\ Len(x) = n - 1 /\ \A k \in 1..n-1 : x[k] = q[k+1]
      BY <1>2, <1>3, TailFacts
    <3>2. PICK j \in 2..n : j = i + 1 /\ x[i] = q[j]
      BY <2>5, <3>1
    <3>3. ~Loading(q, 1 + 1, j)
      <4>1. SUFFICES ASSUME NEW k \in 2..j, q[k].op = "load" PROVE \E l \in 1..i : x[l].op = "load"
        BY <2>5 DEF Loading
      <4>2. k - 1 \in 1..i /\ k - 1 \in 1..n-1 /\ (k - 1) + 1 = k
        BY <3>1, <3>2, <4>1
      <4>3. x[k-1] = q[k]
        BY <3>1, <4>2
      <4> QED BY <4>1, <4>2, <4>3
    <3>4. q[j].op \notin Pays
      BY <1>3, <1>4, <3>1 DEF Listed, Paying, Pays
    <3>5. InCourse(q[1]) /\ InCourse(q[j])
      BY <1>3, <2>1, <2>5, <3>2, <3>4 DEF InCourse
    <3>6. q[1].t = q[j].t
      <4>1. Ordered(q)
        BY <1>3 DEF Listed
      <4>2. 1 \in 1..Len(q) /\ j \in 1..Len(q) /\ 1 < j
        BY <3>1, <3>2
      <4> QED BY <3>3, <3>5, <4>1, <4>2 DEF Ordered
    <3> QED BY <1>2, <1>3, <3>2, <3>6
  <2>6. \A i \in 1..Len(x) : x[i].op \in {"award"} \cup Pays /\ ~Loading(x, 1, i)
          => v.winner = tour'[x[i].t].winner /\ (v.voided <=> tour'[x[i].t].voided)
    BY <1>11, <2>1, <2>3, <2>5
  <2> QED BY <1>13, <2>3, <2>4, <2>6
<1> QED BY <1>14, <1>15

LEMMA UnwinKept ==
  ASSUME Typed, NEW p \in Request, NEW q, q = req[p].todo, NEW r, r = req[p], Course(q, r),
         ClearWinner(p)
  PROVE  Kept(p)
<1>1. /\ RequestsOK /\ ~Idle(p) /\ tour \in [Tour -> Match] /\ Next1(p)
      /\ UNCHANGED <<history, active, start, cache, whole, load>>
  BY DEF Typed, ClearWinner, Doing, TablesOK, ToursOK
<1>2. PICK h, t, x : h = It(p) /\ t = h.t /\ x = Tail(q)
  OBVIOUS
<1>3. /\ r \in Req /\ Listed(q, r.winner) /\ q # <<>> /\ h = q[1] /\ h \in Statement
      /\ Rest(p) = x /\ x \in Seq(Statement) /\ q \in Seq(Statement)
  BY <1>1, <1>2, HeadIs
<1>4. q[1].op = "unwin" /\ q[1].t = t
  BY <1>2, <1>3 DEF ClearWinner, Doing, It
<1>5. t \in Tour /\ tour[t] \in Match /\ 1 \in 1..Len(q)
  <2>1. t \in Tour
    BY <1>3, <1>4, Fields DEF AboutMatch
  <2>2. 1 \in 1..Len(q)
    BY <1>3, EmptySeq
  <2> QED BY <1>1, <2>1, <2>2
<1>6. tour[t].status # "finished"
  BY <1>4, <1>5 DEF Course, Statuses
<1>7. tour' = [tour EXCEPT ![t].winner = NoSide]
  BY <1>2 DEF ClearWinner
<1>8. (\A u \in Tour : u # t => tour'[u] = tour[u]) /\ tour'[t].status = tour[t].status
  BY <1>1, <1>5, <1>6, <1>7 DEF Match
<1>9. Statuses(q, r) /\ Tallied(q, r) /\ CacheKept(q) /\ (whole' => Honest(q))
  BY <1>1 DEF Course, Honest
<1>10. Statuses(x, r)'
  <2>1. \A u \in Tour : /\ tour'[u].status = tour[u].status
                        /\ tour[u].status = "finished" => tour'[u].winner = tour[u].winner
                                                        /\ (tour'[u].voided <=> tour[u].voided)
    BY <1>6, <1>8
  <2>2. q[1].op # "load" /\ q[1].op \notin {"rate", "insert"}
    BY <1>4
  <2> QED BY <1>2, <1>3, <1>9, <2>1, <2>2, TailStatuses
<1>11. Heads(x, r)'
  BY <1>2, <1>3, <1>4, TailHeads
<1>12. Tallied(x, r)'
  <2>1. Honest(x)' => Honest(q)
    BY <1>1, <1>2, <1>3, TailFacts DEF Honest
  <2>2. SUFFICES ASSUME Honest(q), NEW u \in Tour, ~Due(x, u) PROVE Tally(x, r, u)'
    BY <2>1 DEF Tallied, Due, Fresh, Has, With
  <2>3. ~Due(q, u)
    BY <1>2, <1>3, <1>4, <2>2, DueTail
  <2>4. Tally(q, r, u)
    BY <1>9, <2>2, <2>3 DEF Tallied
  <2>5. /\ ~With(q, {"rate"}, u) /\ ~With(q, {"insert"}, u)
        /\ ~With(x, {"rate"}, u) /\ ~With(x, {"insert"}, u)
    BY <1>2, <1>3, <1>4, WithTail DEF Pays
  <2>6. Tally(x, r, u)' <=> IF With(x, {"award", "unwin"}, u) THEN OfMatch(u)' = {} ELSE Counts(u)'
    BY <2>5 DEF Tally, With
  <2>7. OfMatch(u)' = OfMatch(u)
    BY <1>1 DEF OfMatch
  <2>8. CASE u = t
    <3>1. With(q, {"award", "unwin"}, t)
      BY <1>2, <1>3, <1>4, WithTail
    <3>2. OfMatch(u) = {}
      BY <2>4, <2>5, <2>8, <3>1 DEF Tally
    <3>3. Entitled(OfMatch(u)', tour'[u], u)
      BY <1>6, <1>8, <2>7, <2>8, <3>2 DEF Entitled
    <3>4. Counts(u)'
      BY <3>3, CountsAre
    <3> QED BY <2>6, <2>7, <3>2, <3>4
  <2>9. CASE u # t
    <3>1. With(x, {"award", "unwin"}, u) <=> With(q, {"award", "unwin"}, u)
      BY <1>2, <1>3, <1>4, <2>9, WithTail
    <3>2. tour'[u] = tour[u]
      BY <1>8, <2>9
    <3>3. Counts(u)' <=> Counts(u)
      BY <2>7, <3>2, CountsAre
    <3> QED BY <2>4, <2>5, <2>6, <2>7, <3>1, <3>3 DEF Tally
  <2> QED BY <2>8, <2>9
<1>13. CacheKept(x)'
  <2>1. q[1].op \notin {"truncate", "list", "clear", "fill", "teams", "write"}
    BY <1>4
  <2>2. \A s \in Side : (Good(s) \/ (q[1].op = "write" /\ q[1].s = s)) /\ ~Excused(x, s) => Good(s)'
    BY <1>1, <2>1, AllAlone
  <2>3. load' = load /\ q[1].op \notin {"truncate", "list", "clear", "fill", "teams"}
    BY <1>1, <2>1
  <2> QED BY <1>2, <1>3, <1>9, <2>2, <2>3, TailCache
<1>14. GoOn(p, x, r)
  BY <1>1, <1>3 DEF Next1
<1> QED BY <1>3, <1>10, <1>11, <1>12, <1>13, <1>14, GoKept DEF Course

\* The imported changes are given up; all of the rating is to be made anew.
LEMMA PinsKept ==
  ASSUME Typed, NEW p \in Request, NEW q, q = req[p].todo, NEW r, r = req[p], Course(q, r),
         ClearPins(p)
  PROVE  Kept(p)
<1>1. RequestsOK /\ ~Idle(p) /\ tour \in [Tour -> Match] /\ Next1(p)
  BY DEF Typed, ClearPins, Doing, TablesOK, ToursOK
<1>2. PICK h, t, x : h = It(p) /\ t = h.t /\ x = Tail(q)
  OBVIOUS
<1>3. /\ r \in Req /\ Listed(q, r.winner) /\ q # <<>> /\ h = q[1] /\ h \in Statement
      /\ Rest(p) = x /\ x \in Seq(Statement) /\ q \in Seq(Statement)
  BY <1>1, <1>2, HeadIs
<1>4. q[1].op = "unpin" /\ q[1].t = t
  BY <1>2, <1>3 DEF ClearPins, Doing, It
<1>5. t \in Tour /\ tour[t] \in Match
  <2>1. t \in Tour
    BY <1>3, <1>4, Fields DEF AboutMatch
  <2> QED BY <1>1, <2>1
<1>6. \A u \in Tour : /\ tour'[u].status = tour[u].status /\ tour'[u].winner = tour[u].winner
                      /\ (tour'[u].voided <=> tour[u].voided)
  <2>1. tour' = [tour EXCEPT ![t].pinned = FALSE]
    BY <1>2 DEF ClearPins
  <2> QED BY <1>1, <1>5, <2>1 DEF Match
<1>7. x # <<>> /\ x[1].op = "truncate"
  <2>1. x # <<>> /\ Joined(q[1], x[1])
    BY <1>2, <1>3, <1>4, HeadFacts DEF Leaders
  <2> QED BY <1>4, <2>1 DEF Joined
<1>8. 1 \in 1..Len(x)
  BY <1>3, <1>7, EmptySeq
<1>9. Has(x, {"truncate", "list"}) /\ Has(x, {"truncate", "list", "clear"}) /\ ~Fresh(x)
  BY <1>7, <1>8 DEF Has, Fresh, Early
<1>10. Statuses(x, r)'
  <2>1. Statuses(q, r) /\ q[1].op # "load" /\ q[1].op \notin {"rate", "insert"}
    BY <1>4 DEF Course
  <2> QED BY <1>2, <1>3, <1>6, <2>1, TailStatuses
<1>11. Heads(x, r)'
  BY <1>7 DEF Heads
<1>12. Tallied(x, r)' /\ CacheKept(x)'
  BY <1>9 DEF Tallied, CacheKept, Due, Renews, Fresh, Has, With
<1>13. GoOn(p, x, r)
  BY <1>1, <1>3 DEF Next1
<1> QED BY <1>3, <1>10, <1>11, <1>12, <1>13, GoKept DEF Course

\* A statement that leaves the matches and their rows alone goes on with the rest.
LEMMA RestCourse ==
  ASSUME NEW q, NEW w, Listed(q, w), q # <<>>, NEW x, x = Tail(q), NEW r, NEW v, Course(q, r),
         v.winner = r.winner, v.voided = r.voided, UNCHANGED <<tour, load>>, whole' => Honest(q),
         q[1].op \notin {"load", "rows", "list", "wipe", "award", "unwin"} \cup Pays,
         (\A t \in Tour : OfMatch(t)' = OfMatch(t)) \/ q[1].op = "truncate",
         Heads(x, v)', CacheKept(x)'
  PROVE  Course(x, v)'
<1>1. Statuses(q, r) /\ Tallied(q, r)
  BY DEF Course
<1>2. Statuses(x, v)'
  <2>1. \A t \in Tour : /\ tour'[t].status = tour[t].status
                        /\ tour[t].status = "finished" => tour'[t].winner = tour[t].winner
                                                        /\ (tour'[t].voided <=> tour[t].voided)
    OBVIOUS
  <2>2. q[1].op # "load" /\ q[1].op \notin {"rate", "insert"} /\ (v.winner = r.winner /\ (v.voided <=> r.voided))
    BY DEF Pays
  <2> QED BY <1>1, <2>1, <2>2, TailStatuses
<1>3. Tallied(x, v)'
  <2>1. CASE q[1].op = "truncate"
    <3>1. x # <<>> /\ Joined(q[1], x[1])
      BY <2>1, HeadFacts DEF Leaders
    <3>2. x[1].op = "list"
      BY <2>1, <3>1 DEF Joined
    <3>3. x \in Seq(Statement)
      BY TailFacts DEF Listed
    <3>4. 1 \in 1..Len(x)
      BY <3>1, <3>3, EmptySeq
    <3>5. Has(x, {"truncate", "list"}) /\ ~Fresh(x)
      BY <3>2, <3>4 DEF Has, Fresh, Early
    <3> QED BY <3>5 DEF Tallied, Due, Fresh, Has, With
  <2>2. CASE q[1].op # "truncate"
    <3>1. \A t \in Tour : ~Due(x, t) => OfMatch(t)' = OfMatch(t) /\ tour'[t] = tour[t]
      BY <2>2
    <3>2. q[1].op \notin Pays \cup {"truncate", "list", "rows", "wipe", "award", "unwin"}
      BY <2>2
    <3> QED BY <1>1, <3>1, <3>2, TailTallied
  <2> QED BY <2>1, <2>2
<1> QED BY <1>2, <1>3 DEF Course

LEMMA WriteKept ==
  ASSUME Typed, NEW p \in Request, NEW q, q = req[p].todo, NEW r, r = req[p], Course(q, r),
         WriteCache(p)
  PROVE  Kept(p)
<1>1. /\ RequestsOK /\ ~Idle(p) /\ Next1(p) /\ cache \in [Side -> Int \cup {NoRow}]
      /\ UNCHANGED <<tour, history, active, start, whole, load>>
  BY DEF Typed, tables, WriteCache, Doing, TablesOK, CacheOK
<1>2. PICK h, s, x : h = It(p) /\ s = h.s /\ x = Tail(q)
  OBVIOUS
<1>3. /\ r \in Req /\ Listed(q, r.winner) /\ q # <<>> /\ h = q[1] /\ h \in Statement
      /\ Rest(p) = x /\ x \in Seq(Statement) /\ q \in Seq(Statement)
  BY <1>1, <1>2, HeadIs
<1>4. q[1].op = "write" /\ q[1].s = s
  BY <1>2, <1>3 DEF WriteCache, Doing, It
<1>5. s \in Side
  BY <1>3, <1>4, Fields
<1>6. r.sum = Value(s)
  BY <1>3, <1>4 DEF Course, Heads
<1>7. cache' = IF s \in Team /\ cache[s] = NoRow THEN cache ELSE [cache EXCEPT ![s] = r.sum]
  BY <1>2 DEF WriteCache
<1>8. \A z : Value(z)' = Value(z)
  BY <1>1, ValueAlone
<1>9. Good(s)'
  <2>1. CASE s \in Team /\ cache[s] = NoRow
    <3>1. s \notin Player /\ cache'[s] = NoRow
      BY <1>7, <2>1, RatingAssumption
    <3> QED BY <3>1 DEF Good
  <2>2. CASE ~(s \in Team /\ cache[s] = NoRow)
    <3>1. cache'[s] = Value(s)
      BY <1>1, <1>5, <1>6, <1>7, <2>2
    <3> QED BY <1>8, <3>1 DEF Good
  <2> QED BY <2>1, <2>2
<1>10. ASSUME NEW z \in Side, z # s, Good(z) PROVE Good(z)'
  <2>1. cache'[z] = cache[z]
    BY <1>1, <1>5, <1>7, <1>10
  <2> QED BY <1>1, <1>10, <2>1, SideAlone
<1>11. CacheKept(x)'
  <2>1. \A z \in Side : (Good(z) \/ (q[1].op = "write" /\ q[1].s = z)) /\ ~Excused(x, z) => Good(z)'
    BY <1>4, <1>9, <1>10
  <2>2. q[1].op \notin {"truncate", "list", "clear", "fill", "teams"}
    BY <1>4
  <2>3. CacheKept(q) /\ (whole' => Honest(q)) /\ load' = load
    BY <1>1 DEF Course, Honest
  <2> QED BY <1>2, <1>3, <2>1, <2>2, <2>3, TailCache
<1>12. Heads(x, r)'
  BY <1>2, <1>3, <1>4, TailHeads
<1>13. Course(x, r)'
  <2>1. q[1].op \notin {"load", "rows", "list", "wipe", "award", "unwin"} \cup Pays
    BY <1>4 DEF Pays
  <2>2. \A t \in Tour : OfMatch(t)' = OfMatch(t)
    BY <1>1 DEF OfMatch
  <2>3. whole' => Honest(q)
    BY <1>1 DEF Honest
  <2> QED BY <1>1, <1>2, <1>3, <1>11, <1>12, <2>1, <2>2, <2>3, RestCourse
<1>14. GoOn(p, x, r)
  BY <1>1, <1>3 DEF Next1
<1> QED BY <1>3, <1>13, <1>14, GoKept

LEMMA FillKept ==
  ASSUME Typed, NEW p \in Request, NEW q, q = req[p].todo, NEW r, r = req[p], Course(q, r),
         ClearCache(p) \/ FillCache(p) \/ FillTeams(p) \/ TruncateAll(p)
  PROVE  Kept(p)
<1>1. /\ RequestsOK /\ ~Idle(p) /\ Next1(p) /\ cache \in [Side -> Int \cup {NoRow}]
      /\ UNCHANGED <<tour, active, start, whole, load>>
  BY DEF Typed, tables, ClearCache, FillCache, FillTeams, TruncateAll, Doing, TablesOK, CacheOK
<1>2. PICK h, x : h = It(p) /\ x = Tail(q)
  OBVIOUS
<1>3. /\ r \in Req /\ Listed(q, r.winner) /\ q # <<>> /\ h = q[1] /\ h \in Statement
      /\ Rest(p) = x /\ x \in Seq(Statement) /\ q \in Seq(Statement)
  BY <1>1, <1>2, HeadIs
<1>4. q[1].op \in {"clear", "fill", "teams", "truncate"}
  BY <1>2, <1>3 DEF ClearCache, FillCache, FillTeams, TruncateAll, Doing, It
<1>5. GoOn(p, x, r) /\ (whole' => Honest(q))
  BY <1>1, <1>3 DEF Next1, Honest
<1>6. q[1].op \notin {"load", "rows", "list", "wipe", "award", "unwin"} \cup Pays
  BY <1>4 DEF Pays
<1>7. ASSUME Heads(x, r)', CacheKept(x)', (\A t \in Tour : OfMatch(t)' = OfMatch(t)) \/ q[1].op = "truncate"
      PROVE  Kept(p)
  <2>1. Course(x, r)'
    BY <1>1, <1>2, <1>3, <1>5, <1>6, <1>7, RestCourse
  <2> QED BY <1>3, <1>5, <2>1, GoKept
<1>8. history' = history => \A t \in Tour : OfMatch(t)' = OfMatch(t)
  BY DEF OfMatch
<1>9. q[1].op # "teams" => x # <<>> /\ Joined(q[1], x[1]) /\ 1 \in 1..Len(x)
  <2>1. q[1].op # "teams" => x # <<>> /\ Joined(q[1], x[1])
    BY <1>2, <1>3, <1>4, HeadFacts DEF Leaders
  <2> QED BY <1>3, <2>1, EmptySeq
<1>10. CASE TruncateAll(p)
  <2>1. q[1].op = "truncate" /\ history' = {}
    BY <1>2, <1>3, <1>10 DEF TruncateAll, Doing, It
  <2>2. x[1].op = "list"
    BY <1>9, <2>1 DEF Joined
  <2>3. Heads(x, r)'
    BY <2>1, <2>2 DEF Heads
  <2>4. Renews(x)
    BY <1>9, <2>1, <2>2 DEF Renews, Fresh, Early, Has
  <2>5. CacheKept(x)'
    BY <2>4 DEF CacheKept, Renews, Fresh, Has
  <2> QED BY <1>7, <2>1, <2>3, <2>5
<1>11. CASE ClearCache(p)
  <2>1. q[1].op = "clear" /\ history' = history
        /\ cache' = [s \in Side |-> IF s \in Player THEN NoRow ELSE cache[s]]
    BY <1>2, <1>3, <1>11 DEF ClearCache, Doing, It
  <2>2. x[1].op = "fill"
    BY <1>9, <2>1 DEF Joined
  <2>3. \A s \in Player : cache'[s] = NoRow
    BY <2>1 DEF Side
  <2>4. Heads(x, r)'
    BY <2>2, <2>3 DEF Heads
  <2>5. CacheKept(x)'
    BY <1>9, <2>1, <2>2 DEF CacheKept, Filling
  <2> QED BY <1>7, <1>8, <2>1, <2>4, <2>5
<1>12. CASE FillCache(p)
  <2>1. q[1].op = "fill" /\ history' = history
        /\ cache' = [s \in Side |-> IF s \in Player /\ cache[s] = NoRow /\ Played(s, active)
                              THEN SeasonMmr(history, s, active) ELSE cache[s]]
    BY <1>2, <1>3, <1>12 DEF FillCache, Doing, It
  <2>2. x[1].op = "teams"
    BY <1>9, <2>1 DEF Joined
  <2>3. \A s \in Player : cache[s] = NoRow
    BY <1>3, <2>1 DEF Course, Heads
  <2>4. \A s \in Player : cache'[s] = Value(s)
    BY <2>1, <2>3 DEF Side, Value
  <2>5. \A s : Value(s)' = Value(s)
    BY <1>1, <2>1, ValueAlone
  <2>6. \A s \in Player : Good(s)'
    BY <2>4, <2>5 DEF Good
  <2>7. Heads(x, r)'
    BY <2>2, <2>6 DEF Heads
  <2>8. CacheKept(x)'
    BY <1>9, <2>1, <2>2 DEF CacheKept, Filling
  <2> QED BY <1>7, <1>8, <2>1, <2>7, <2>8
<1>13. CASE FillTeams(p)
  <2>1. q[1].op = "teams" /\ history' = history
        /\ cache' = [s \in Side |-> IF s \in Team /\ cache[s] # NoRow
                              THEN SeasonMmr(history, s, active) ELSE cache[s]]
    BY <1>2, <1>3, <1>13 DEF FillTeams, Doing, It
  <2>2. \A s \in Player : Good(s)
    BY <1>3, <2>1 DEF Course, Heads
  <2>3. \A s : Value(s)' = Value(s)
    BY <1>1, <2>1, ValueAlone
  <2>4. ASSUME NEW s \in Player PROVE Good(s)'
    <3>1. s \notin Team /\ s \in Side
      BY RatingAssumption DEF Side
    <3>2. cache'[s] = cache[s]
      BY <2>1, <3>1
    <3> QED BY <2>2, <2>3, <3>2 DEF Good
  <2>5. ASSUME NEW s \in Team PROVE Good(s)'
    <3>1. s \notin Player /\ s \in Side
      BY RatingAssumption DEF Side
    <3>2. cache'[s] # NoRow => cache'[s] = Value(s)
      BY <2>1, <3>1 DEF Value
    <3> QED BY <2>3, <3>1, <3>2 DEF Good
  <2>6. \A s \in Side : Good(s)'
    BY <2>4, <2>5 DEF Side
  <2>7. CacheKept(x)'
    BY <2>6 DEF CacheKept
  <2>8. Heads(x, r)'
    BY <1>2, <1>3, <2>1, TailHeads
  <2> QED BY <1>7, <1>8, <2>1, <2>7, <2>8
<1> QED BY <1>10, <1>11, <1>12, <1>13

LEMMA AgainKept ==
  ASSUME Typed, NEW p \in Request, NEW q, q = req[p].todo, NEW r, r = req[p], Course(q, r),
         ApplyReset(p)
  PROVE  Kept(p)
<1>1. /\ RequestsOK /\ ~Idle(p) /\ Next1(p) /\ TablesOK
      /\ UNCHANGED <<tour, active, start, cache, whole, load>>
  BY DEF Typed, tables, ApplyReset, Doing
<1>2. PICK h, e, x : h = It(p) /\ e = h.s /\ x = Tail(q)
  OBVIOUS
<1>3. /\ r \in Req /\ Listed(q, r.winner) /\ q # <<>> /\ h = q[1] /\ h \in Statement
      /\ Rest(p) = x /\ x \in Seq(Statement) /\ q \in Seq(Statement)
  BY <1>1, <1>2, HeadIs
<1>4. q[1].op = "again" /\ 1 \in 1..Len(q)
  <2>1. q[1].op = "again"
    BY <1>2, <1>3 DEF ApplyReset, Doing, It
  <2> QED BY <1>3, <2>1, EmptySeq
<1>5. e \in Event
  BY <1>2, <1>3, <1>4, Fields
<1>6. e.s \in Side /\ e.season \in Seasons /\ e.at \in Nat
  BY <1>5 DEF Event, Side
<1>7. PICK y : y = ResetRow(history, e)
  OBVIOUS
<1>8. y.tour = NoTour /\ history' = history \cup {y}
  <2>1. y.tour = NoTour
    BY <1>1, <1>6, <1>7, ResetRowIs
  <2> QED BY <1>2, <1>7, <2>1 DEF ApplyReset
<1>9. \A t \in Tour : OfMatch(t)' = OfMatch(t)
  BY <1>8, RatingAssumption DEF OfMatch
<1>10. Has(q, {"again"}) /\ ~Fresh(q)
  BY <1>4 DEF Has, Fresh, Early
<1>11. Has(q, {"clear"})
  BY <1>3, <1>10, HeadFacts
<1>12. Has(x, {"clear"})
  <2>1. \A ops : Has(q, ops) => q[1].op \in ops \/ Has(x, ops)
    BY <1>2, <1>3, TailFacts
  <2>2. q[1].op \notin {"clear"}
    BY <1>4
  <2> QED BY <1>11, <2>1, <2>2
<1>13. ~Fresh(x)
  BY <1>2, <1>3, <1>10, HeadFacts
<1>14. Renews(x)
  BY <1>12, <1>13 DEF Renews, Has
<1>15. CacheKept(x)'
  BY <1>14 DEF CacheKept, Renews, Fresh, Has
<1>16. Heads(x, r)'
  BY <1>2, <1>3, <1>4, TailHeads
<1>17. Course(x, r)'
  <2>1. q[1].op \notin {"load", "rows", "list", "wipe", "award", "unwin"} \cup Pays
    BY <1>4 DEF Pays
  <2>2. whole' => Honest(q)
    BY <1>1 DEF Honest
  <2> QED BY <1>1, <1>2, <1>3, <1>9, <1>15, <1>16, <2>1, <2>2, RestCourse
<1>18. GoOn(p, x, r)
  BY <1>1, <1>3 DEF Next1
<1> QED BY <1>3, <1>17, <1>18, GoKept

LEMMA SeasonKept ==
  ASSUME Typed, NEW p \in Request, NEW q, q = req[p].todo, NEW r, r = req[p], Course(q, r),
         StartNewSeason(p) \/ UpdateSeason(p)
  PROVE  Kept(p)
<1>1. /\ RequestsOK /\ ~Idle(p)
      /\ UNCHANGED <<tour, resets, history, cache, clock, whole, load>>
  BY DEF Typed, StartNewSeason, UpdateSeason, Doing
<1>2. PICK h, x : h = It(p) /\ x = Tail(q)
  OBVIOUS
<1>3. /\ r \in Req /\ Listed(q, r.winner) /\ q # <<>> /\ h = q[1] /\ h \in Statement
      /\ Rest(p) = x /\ x \in Seq(Statement) /\ q \in Seq(Statement)
  BY <1>1, <1>2, HeadIs
<1>4. q[1].op \in {"begin", "rules"}
  BY <1>2, <1>3 DEF StartNewSeason, UpdateSeason, Doing, It
<1>5. q[1].op \in Early
  BY <1>4 DEF Early
<1>6. (Stay /\ Stop(p)) \/ Next1(p)
  BY <1>1 DEF StartNewSeason, UpdateSeason, Stay
<1>7. CASE Stay /\ Stop(p)
  BY <1>3, <1>5, <1>7, StopKept
<1>8. CASE Next1(p)
  <2>1. x # <<>> /\ Joined(q[1], x[1]) /\ 1 \in 1..Len(x)
    <3>1. x # <<>> /\ Joined(q[1], x[1])
      BY <1>2, <1>3, <1>4, HeadFacts DEF Leaders
    <3> QED BY <1>3, <3>1, EmptySeq
  <2>2. x[1].op \in {"clear", "truncate"}
    BY <1>4, <2>1 DEF Joined
  <2>3. Renews(x)
    BY <2>1, <2>2 DEF Renews, Fresh, Early, Has
  <2>4. CacheKept(x)'
    BY <2>3 DEF CacheKept, Renews, Fresh, Has
  <2>5. Heads(x, r)'
    <3>1. q[1].op \notin {"ended", "old", "truncate", "rows", "sum", "clear", "fill", "rate", "insert"}
      BY <1>4
    <3> QED BY <1>2, <1>3, <3>1, TailHeads
  <2>6. Course(x, r)'
    <3>1. q[1].op \notin {"load", "rows", "list", "wipe", "award", "unwin"} \cup Pays
      BY <1>4 DEF Pays
    <3>2. whole' => Honest(q)
      BY <1>1 DEF Honest
    <3>3. \A t \in Tour : OfMatch(t)' = OfMatch(t)
      BY <1>1 DEF OfMatch
    <3> QED BY <1>1, <1>2, <1>3, <2>4, <2>5, <3>1, <3>2, <3>3, RestCourse
  <2>7. GoOn(p, x, r)
    BY <1>3, <1>8 DEF Next1
  <2> QED BY <1>3, <2>6, <2>7, GoKept
<1> QED BY <1>6, <1>7, <1>8

LEMMA ResetKept ==
  ASSUME Typed, NEW p \in Request, NEW q, q = req[p].todo, NEW r, r = req[p], Course(q, r),
         ResetRating(p)
  PROVE  Kept(p)
<1>1. /\ RequestsOK /\ ~Idle(p) /\ TablesOK /\ clock \in Nat
      /\ UNCHANGED <<tour, seasons, active, start, cache, whole, load>>
  BY DEF Typed, ResetRating, Doing, TablesOK, ToursOK
<1>2. PICK h, s, n, x : h = It(p) /\ s = h.s /\ n = r.season /\ x = Tail(q)
  OBVIOUS
<1>3. /\ r \in Req /\ Listed(q, r.winner) /\ q # <<>> /\ h = q[1] /\ h \in Statement
      /\ Rest(p) = x /\ x \in Seq(Statement) /\ q \in Seq(Statement)
  BY <1>1, <1>2, HeadIs
<1>4. q[1].op = "reset" /\ q[1].s = s
  BY <1>2, <1>3 DEF ResetRating, Doing, It
<1>5. q[1].op \in Early /\ s \in Player /\ n \in Seasons
  BY <1>2, <1>3, <1>4, Fields DEF Early, Req
<1>6. PICK e, y : e = [at |-> Now, t |-> NoTour, s |-> s, season |-> n] /\ y = ResetRow(history, e)
  OBVIOUS
<1>7. y.tour = NoTour /\ y.side = s
  <2>1. e.s \in Side /\ e.season \in Seasons /\ e.at \in Nat /\ e.s = s
    BY <1>1, <1>5, <1>6 DEF Side, Now
  <2> QED BY <1>1, <1>6, <2>1, ResetRowIs
<1>8. \/ UNCHANGED <<resets, history, clock>> /\ Stop(p)
      \/ history' = history \cup {y} /\ Next1(p)
  BY <1>2, <1>6 DEF ResetRating
<1>9. CASE UNCHANGED <<resets, history, clock>> /\ Stop(p)
  BY <1>1, <1>3, <1>5, <1>9, StopKept DEF Stay
<1>10. CASE history' = history \cup {y} /\ Next1(p)
  <2>1. x # <<>> /\ Joined(q[1], x[1])
    BY <1>2, <1>3, <1>4, HeadFacts DEF Leaders
  <2>2. x[1].op = "sum" /\ x[1].s = s
    BY <1>4, <2>1 DEF Joined
  <2>3. Written(x, s)
    <3>1. q[1].op \notin Pays
      BY <1>4 DEF Pays
    <3>2. Listed(x, r.winner)
      BY <1>2, <1>3, <3>1, ListedTail
    <3>3. PICK z : z = Tail(x)
      OBVIOUS
    <3>4. z # <<>> /\ Joined(x[1], z[1])
      BY <2>1, <2>2, <3>2, <3>3, HeadFacts DEF Leaders
    <3>5. z[1].op = "write" /\ z[1].s = s
      BY <2>2, <3>4 DEF Joined
    <3>6. z \in Seq(Statement)
      BY <1>3, <2>1, <3>3, TailFacts
    <3>7. 1 \in 1..Len(z)
      BY <3>4, <3>6, EmptySeq
    <3>8. Written(z, s)
      BY <3>5, <3>7 DEF Written
    <3> QED BY <1>3, <2>1, <3>3, <3>8, TailFacts
  <2>4. Excused(x, s)
    BY <2>2, <2>3 DEF Excused, Fresh, Early
  <2>5. ASSUME NEW z \in Side, z # s, Good(z) PROVE Good(z)'
    <3>1. RowsOf(history', z, active) = RowsOf(history, z, active)
      BY <1>7, <1>10, <2>5 DEF RowsOf
    <3> QED BY <1>1, <2>5, <3>1, SideAlone
  <2>6. CacheKept(x)'
    <3>1. \A z \in Side : (Good(z) \/ (q[1].op = "write" /\ q[1].s = z)) /\ ~Excused(x, z) => Good(z)'
      BY <1>4, <2>4, <2>5
    <3>2. q[1].op \notin {"truncate", "list", "clear", "fill", "teams"}
      BY <1>4
    <3>3. CacheKept(q) /\ (whole' => Honest(q)) /\ load' = load
      BY <1>1 DEF Course, Honest
    <3> QED BY <1>2, <1>3, <3>1, <3>2, <3>3, TailCache
  <2>7. Heads(x, r)'
    BY <1>2, <1>3, <1>4, TailHeads
  <2>8. Course(x, r)'
    <3>1. q[1].op \notin {"load", "rows", "list", "wipe", "award", "unwin"} \cup Pays
      BY <1>4 DEF Pays
    <3>2. whole' => Honest(q)
      BY <1>1 DEF Honest
    <3>3. \A t \in Tour : OfMatch(t)' = OfMatch(t)
      BY <1>7, <1>10, RatingAssumption DEF OfMatch
    <3> QED BY <1>1, <1>2, <1>3, <2>6, <2>7, <3>1, <3>2, <3>3, RestCourse
  <2>9. GoOn(p, x, r)
    BY <1>3, <1>10 DEF Next1
  <2> QED BY <1>3, <2>8, <2>9, GoKept
<1> QED BY <1>8, <1>9, <1>10

LEMMA TailWritten ==
  ASSUME NEW q \in Seq(Statement), q # <<>>, NEW x, x = Tail(q), NEW s
  PROVE  Written(q, s) => (q[1].op = "write" /\ q[1].s = s) \/ Written(x, s)
  BY TailFacts

LEMMA WipeKept ==
  ASSUME Typed, NEW p \in Request, NEW q, q = req[p].todo, NEW r, r = req[p], Course(q, r),
         WipeRows(p)
  PROVE  Kept(p)
<1>1. /\ RequestsOK /\ ~Idle(p) /\ Next1(p)
      /\ UNCHANGED <<tour, active, start, cache, whole, load>>
  BY DEF Typed, tables, WipeRows, Doing
<1>2. PICK h, t, x : h = It(p) /\ t = h.t /\ x = Tail(q)
  OBVIOUS
<1>3. /\ r \in Req /\ Listed(q, r.winner) /\ q # <<>> /\ h = q[1] /\ h \in Statement
      /\ Rest(p) = x /\ x \in Seq(Statement) /\ q \in Seq(Statement)
  BY <1>1, <1>2, HeadIs
<1>4. q[1].op = "wipe" /\ q[1].t = t
  BY <1>2, <1>3 DEF WipeRows, Doing, It
<1>5. t \in Tour /\ 1 \in 1..Len(q)
  <2>1. t \in Tour
    BY <1>3, <1>4, Fields DEF AboutMatch
  <2>2. 1 \in 1..Len(q)
    BY <1>3, EmptySeq
  <2> QED BY <2>1, <2>2
<1>6. history' = {y \in history : y.tour # t}
  BY <1>2 DEF WipeRows
<1>7. OfMatch(t)' = {} /\ \A u \in Tour : u # t => OfMatch(u)' = OfMatch(u)
  BY <1>6 DEF OfMatch
<1>8. Statuses(q, r) /\ Tallied(q, r) /\ CacheKept(q) /\ (whole' => Honest(q))
  BY <1>1 DEF Course, Honest
<1>9. Statuses(x, r)'
  <2>1. \A u \in Tour : /\ tour'[u].status = tour[u].status
                        /\ tour[u].status = "finished" => tour'[u].winner = tour[u].winner
                                                        /\ (tour'[u].voided <=> tour[u].voided)
    BY <1>1
  <2>2. q[1].op # "load" /\ q[1].op \notin {"rate", "insert"}
    BY <1>4
  <2> QED BY <1>2, <1>3, <1>8, <2>1, <2>2, TailStatuses
<1>10. Heads(x, r)'
  BY <1>2, <1>3, <1>4, TailHeads
<1>11. Tallied(x, r)'
  <2>1. Honest(x)' => Honest(q)
    BY <1>1, <1>2, <1>3, TailFacts DEF Honest
  <2>2. SUFFICES ASSUME Honest(q), NEW u \in Tour, ~Due(x, u) PROVE Tally(x, r, u)'
    BY <2>1 DEF Tallied, Due, Fresh, Has, With
  <2>3. /\ ~With(q, {"rate"}, u) /\ ~With(q, {"insert"}, u)
        /\ ~With(x, {"rate"}, u) /\ ~With(x, {"insert"}, u)
    BY <1>2, <1>3, <1>4, WithTail DEF Pays
  <2>4. Tally(x, r, u)' <=> IF With(x, {"award", "unwin"}, u) THEN OfMatch(u)' = {} ELSE Counts(u)'
    BY <2>3 DEF Tally, With
  <2>5. With(x, {"award", "unwin"}, u) <=> With(q, {"award", "unwin"}, u)
    BY <1>2, <1>3, <1>4, WithTail
  <2>6. CASE u = t
    <3>1. PICK j \in 1..Len(q) : q[j].op \in {"award", "unwin"} /\ q[j].t = q[1].t
      BY <1>3, <1>4, <1>5 DEF Listed, Completed
    <3>2. With(q, {"award", "unwin"}, u)
      BY <1>4, <2>6, <3>1 DEF With
    <3> QED BY <1>7, <2>4, <2>5, <2>6, <3>2
  <2>7. CASE u # t
    <3>1. ~Due(q, u)
      BY <1>2, <1>3, <1>4, <2>2, <2>7, DueTail
    <3>2. Tally(q, r, u)
      BY <1>8, <2>2, <3>1 DEF Tallied
    <3>3. OfMatch(u)' = OfMatch(u) /\ tour'[u] = tour[u]
      BY <1>1, <1>7, <2>7
    <3>4. Counts(u)' <=> Counts(u)
      BY <3>3, CountsAre
    <3> QED BY <2>3, <2>4, <2>5, <3>2, <3>3, <3>4 DEF Tally
  <2> QED BY <2>6, <2>7
<1>12. CacheKept(x)'
  <2>1. q[1].op \notin {"truncate", "list", "clear", "fill", "teams", "write"}
    BY <1>4
  <2>2. ASSUME NEW s \in Side, Good(s), ~Excused(x, s) PROVE Good(s)'
    <3>1. s \notin HadRows(t)
      <4>1. SUFFICES ASSUME s \in HadRows(t) PROVE FALSE
        OBVIOUS
      <4>2. Written(q, s)
        BY <1>3, <1>4, <4>1 DEF Course, Heads
      <4>3. Written(q, s) => (q[1].op = "write" /\ q[1].s = s) \/ Written(x, s)
        BY <1>2, <1>3, TailWritten
      <4>4. Written(x, s)
        BY <2>1, <4>2, <4>3
      <4>5. ~Fresh(q)
        BY <1>4 DEF Fresh, Early
      <4>6. ~Fresh(x)
        BY <1>2, <1>3, <4>5, HeadFacts
      <4> QED BY <2>2, <4>4, <4>6 DEF Excused
    <3>2. RowsOf(history', s, active) = RowsOf(history, s, active)
      BY <1>6, <3>1 DEF RowsOf, HadRows
    <3> QED BY <1>1, <2>2, <3>2, SideAlone
  <2>3. load' = load /\ q[1].op \notin {"truncate", "list", "clear", "fill", "teams"}
    BY <1>1, <2>1
  <2>4. \A s \in Side : (Good(s) \/ (q[1].op = "write" /\ q[1].s = s)) /\ ~Excused(x, s) => Good(s)'
    BY <2>1, <2>2
  <2> QED BY <1>2, <1>3, <1>8, <2>3, <2>4, TailCache
<1>13. GoOn(p, x, r)
  BY <1>1, <1>3 DEF Next1
<1> QED BY <1>3, <1>9, <1>10, <1>11, <1>12, <1>13, GoKept DEF Course

\* What the list x is to the one before, q, when the rows of a match are read.
SpreadOf(x, q, c) ==
  /\ x \in Seq(Statement) /\ x # <<>> /\ x[1].op = "wipe" /\ x[1].t = q[1].t /\ 1 \in 1..Len(x)
  /\ \A ops, t : With(q, ops, t) => (q[1].op \in ops /\ q[1].t = t) \/ With(x, ops, t)
  /\ \A ops : Has(q, ops) => q[1].op \in ops \/ Has(x, ops)
  /\ \A ops, t : "sum" \notin ops /\ "write" \notin ops /\ With(x, ops, t) => With(q, ops, t)
  /\ \A ops : "sum" \notin ops /\ "write" \notin ops /\ Has(x, ops) => Has(q, ops)
  /\ \A s : Written(q, s) => Written(x, s)
  /\ \A s : Written(c, s) => Written(x, s)
  /\ \A i \in 1..Len(x) : x[i].op \notin {"sum", "write"} =>
       \E j \in 1..Len(q) : x[i] = q[j] /\ (~Loading(x, 1, i) => ~Loading(q, 1, j))

LEMMA SpreadFacts ==
  ASSUME NEW q, NEW w, Listed(q, w), q # <<>>, q[1].op = "rows", NEW c, Caching(c),
         NEW x, x = (<<q[2]>> \o c) \o Tail(Tail(q))
  PROVE  SpreadOf(x, q, c)
<1>13. PICK n \in Nat, m \in Nat : Spreads(x, q, c, n, m)
  BY SpreadIs
<1>14. /\ Len(q) = n /\ Len(c) = m /\ n >= 2 /\ q[2].op = "wipe" /\ q[2].t = q[1].t
       /\ x \in Seq(Statement) /\ Len(x) = n + m - 1 /\ x[1] = q[2]
       /\ \A i \in 2..m+1 : x[i] = c[i-1]
       /\ \A i \in m+2..n+m-1 : x[i] = q[i-m+1]
  BY <1>13 DEF Spreads
<1>1. /\ n \in Nat /\ m \in Nat /\ n >= 2 /\ Len(q) = n /\ Len(c) = m /\ Len(x) = n + m - 1
  BY <1>13, <1>14
<1>15. \A i \in m+2..n+m-1 : x[i] = q[i-m+1]
  BY <1>13 DEF Spreads
<1>16. ASSUME NEW j \in 3..n, NEW k, k = j + m - 1 PROVE k \in m+2..n+m-1 /\ k - m + 1 = j /\ x[k] = q[j]
  <2>1. k \in m+2..n+m-1 /\ k - m + 1 = j
    BY <1>1, <1>16
  <2>2. x[k] = q[k-m+1]
    BY <1>15, <2>1
  <2> QED BY <2>1, <2>2
<1>2. x \in Seq(Statement) /\ x # <<>> /\ 1 \in 1..n+m-1 /\ x[1].op = "wipe" /\ x[1].t = q[1].t
  <2>1. 1 \in 1..n+m-1
    BY <1>1
  <2>2. x # <<>>
    BY <1>1
  <2>3. x[1] = q[2] /\ x \in Seq(Statement) /\ q[2].op = "wipe" /\ q[2].t = q[1].t
    BY <1>14
  <2> QED BY <2>1, <2>2, <2>3
<1>3. ASSUME NEW j \in 2..n PROVE \E i \in 1..n+m-1 : x[i] = q[j]
  <2>2. CASE j = 2
    BY <1>2, <1>14, <2>2
  <2>3. CASE j # 2
    <3>1. j \in 3..n /\ j + m - 1 \in 1..n+m-1
      BY <1>1, <2>3
    <3>2. x[j+m-1] = q[j]
      BY <1>16, <3>1
    <3> QED BY <3>1, <3>2
  <2> QED BY <2>2, <2>3
<1>4. \A j \in 1..n : j = 1 \/ \E i \in 1..n+m-1 : x[i] = q[j]
  <2>1. \A j \in 1..n : j = 1 \/ j \in 2..n
    BY <1>1
  <2> QED BY <1>3, <2>1
<1>5. \A j \in 1..m : \E i \in 1..n+m-1 : x[i] = c[j]
  <2>1. TAKE j \in 1..m
  <2>2. j + 1 \in 2..m+1 /\ (j + 1) - 1 = j /\ j + 1 \in 1..n+m-1
    BY <1>1
  <2>3. x[j+1] = c[j]
    BY <1>14, <2>2
  <2> QED BY <2>2, <2>3
<1>6. ASSUME NEW i \in 1..n+m-1, x[i].op \notin {"sum", "write"}
      PROVE  \E j \in 1..n : x[i] = q[j] /\ (~Loading(x, 1, i) => ~Loading(q, 1, j))
  <2>1. CASE i = 1
    <3>4. q[2].op # "load" /\ x[1] = q[2]
      BY <1>14
    <3>5. 2 \in 1..n
      BY <1>1
    <3>6. x[i] = q[2]
      BY <2>1, <3>4
    <3>1. q[1].op # "load" /\ q[2].op # "load" /\ 2 \in 1..n /\ x[i] = q[2]
      BY <3>4, <3>5, <3>6
    <3>2. ~Loading(q, 1, 2)
      <4>1. \A k \in 1..2 : k = 1 \/ k = 2
        OBVIOUS
      <4> QED BY <3>1, <4>1 DEF Loading
    <3> QED BY <3>1, <3>2
  <2>2. CASE i \in 2..m+1
    <3>1. i - 1 \in 1..m
      BY <1>1, <2>2
    <3>2. x[i] = c[i-1]
      BY <1>14, <2>2
    <3>3. c[i-1].op \in {"sum", "write"}
      BY <1>1, <3>1 DEF Caching
    <3> QED BY <1>6, <3>2, <3>3
  <2>3. CASE i \in m+2..n+m-1
    <3>4. i - m + 1 \in 3..n
      BY <1>1, <2>3
    <3>1. PICK j \in 3..n : j = i - m + 1 /\ x[i] = q[j]
      BY <1>15, <2>3, <3>4
    <3>2. ASSUME NEW k \in 1..j, q[k].op = "load" PROVE \E l \in 1..i : x[l].op = "load"
      <4>1. k # 1 /\ k # 2
        BY <1>14, <3>2
      <4>2. k \in 3..n /\ k + m - 1 \in 1..i
        BY <1>1, <2>3, <3>1, <4>1
      <4>3. x[k+m-1] = q[k]
        BY <1>16, <4>2
      <4> QED BY <3>2, <4>2, <4>3
    <3>3. ~Loading(x, 1, i) => ~Loading(q, 1, j)
      BY <3>2 DEF Loading
    <3>5. j \in 1..n
      BY <3>1
    <3> QED BY <3>1, <3>3, <3>5
  <2>4. i = 1 \/ i \in 2..m+1 \/ i \in m+2..n+m-1
    BY <1>1
  <2> QED BY <2>1, <2>2, <2>3, <2>4
<1>7. \A ops, t : With(q, ops, t) => (q[1].op \in ops /\ q[1].t = t) \/ With(x, ops, t)
  <2>1. SUFFICES ASSUME NEW ops, NEW t, With(q, ops, t), ~(q[1].op \in ops /\ q[1].t = t) PROVE With(x, ops, t)
    OBVIOUS
  <2>2. PICK j \in 1..n : q[j].op \in ops /\ q[j].t = t
    BY <1>1, <2>1 DEF With
  <2>3. PICK i \in 1..n+m-1 : x[i] = q[j]
    BY <1>4, <2>1, <2>2
  <2> QED BY <1>1, <2>2, <2>3 DEF With
<1>8. \A ops : Has(q, ops) => q[1].op \in ops \/ Has(x, ops)
  <2>1. SUFFICES ASSUME NEW ops, Has(q, ops), q[1].op \notin ops PROVE Has(x, ops)
    OBVIOUS
  <2>2. PICK j \in 1..n : q[j].op \in ops
    BY <1>1, <2>1 DEF Has
  <2>3. PICK i \in 1..n+m-1 : x[i] = q[j]
    BY <1>4, <2>1, <2>2
  <2> QED BY <1>1, <2>2, <2>3 DEF Has
<1>9. \A ops, t : "sum" \notin ops /\ "write" \notin ops /\ With(x, ops, t) => With(q, ops, t)
  <2>1. SUFFICES ASSUME NEW ops, NEW t, "sum" \notin ops, "write" \notin ops, With(x, ops, t) PROVE With(q, ops, t)
    OBVIOUS
  <2>2. PICK i \in 1..n+m-1 : x[i].op \in ops /\ x[i].t = t
    BY <1>1, <2>1 DEF With
  <2>3. PICK j \in 1..n : x[i] = q[j]
    BY <1>6, <2>1, <2>2
  <2> QED BY <1>1, <2>2, <2>3 DEF With
<1>10. \A ops : "sum" \notin ops /\ "write" \notin ops /\ Has(x, ops) => Has(q, ops)
  <2>1. SUFFICES ASSUME NEW ops, "sum" \notin ops, "write" \notin ops, Has(x, ops) PROVE Has(q, ops)
    OBVIOUS
  <2>2. PICK i \in 1..n+m-1 : x[i].op \in ops
    BY <1>1, <2>1 DEF Has
  <2>3. PICK j \in 1..n : x[i] = q[j]
    BY <1>6, <2>1, <2>2
  <2> QED BY <1>1, <2>2, <2>3 DEF Has
<1>11. \A s : Written(q, s) => Written(x, s)
  <2>1. SUFFICES ASSUME NEW s, Written(q, s) PROVE Written(x, s)
    OBVIOUS
  <2>2. PICK j \in 1..n : q[j].op = "write" /\ q[j].s = s
    BY <1>1, <2>1 DEF Written
  <2>3. PICK i \in 1..n+m-1 : x[i] = q[j]
    BY <1>4, <2>2
  <2> QED BY <1>1, <2>2, <2>3 DEF Written
<1>12. \A s : Written(c, s) => Written(x, s)
  <2>1. SUFFICES ASSUME NEW s, Written(c, s) PROVE Written(x, s)
    OBVIOUS
  <2>2. PICK j \in 1..m : c[j].op = "write" /\ c[j].s = s
    BY <1>1, <2>1 DEF Written
  <2>3. PICK i \in 1..n+m-1 : x[i] = c[j]
    BY <1>5, <2>2
  <2> QED BY <1>1, <2>2, <2>3 DEF Written
<1> QED BY <1>1, <1>2, <1>6, <1>7, <1>8, <1>9, <1>10, <1>11, <1>12 DEF SpreadOf

LEMMA RowsKept ==
  ASSUME Typed, NEW p \in Request, NEW q, q = req[p].todo, NEW r, r = req[p], Course(q, r),
         SelectRows(p)
  PROVE  Kept(p)
<1>1. /\ RequestsOK /\ ~Idle(p)
      /\ UNCHANGED <<tour, history, active, start, cache, whole, load>>
  BY DEF Typed, tables, SelectRows, Doing
<1>2. Listed(q, r.winner) /\ q # <<>> /\ q[1].op = "rows" /\ GoOn(p, Spread(q), r) /\ r \in Req
  <2>1. r \in Req
    BY <1>1, HeadIs
  <2> QED BY <2>1, SelectIs
<1>3. PICK c : /\ Caching(c) /\ Spread(q) = (<<q[2]>> \o c) \o Tail(Tail(q))
               /\ \A s \in HadRows(q[1].t) : Written(c, s)
  BY SelectIs
<1>4. PICK x : x = (<<q[2]>> \o c) \o Tail(Tail(q)) /\ x = Spread(q)
  BY <1>3
<1>5. /\ x \in Seq(Statement) /\ x # <<>> /\ x[1].op = "wipe" /\ x[1].t = q[1].t /\ 1 \in 1..Len(x)
      /\ \A ops, t : With(q, ops, t) => (q[1].op \in ops /\ q[1].t = t) \/ With(x, ops, t)
      /\ \A ops : Has(q, ops) => q[1].op \in ops \/ Has(x, ops)
      /\ \A ops, t : "sum" \notin ops /\ "write" \notin ops /\ With(x, ops, t) => With(q, ops, t)
      /\ \A ops : "sum" \notin ops /\ "write" \notin ops /\ Has(x, ops) => Has(q, ops)
      /\ \A s : Written(q, s) => Written(x, s)
      /\ \A s : Written(c, s) => Written(x, s)
      /\ \A i \in 1..Len(x) : x[i].op \notin {"sum", "write"} =>
           \E j \in 1..Len(q) : x[i] = q[j] /\ (~Loading(x, 1, i) => ~Loading(q, 1, j))
  <2>1. SpreadOf(x, q, c)
    BY <1>2, <1>3, <1>4, SpreadFacts
  <2> QED BY <2>1 DEF SpreadOf
<1>6. ~Fresh(x) /\ ~Fresh(q)
  BY <1>2, <1>5 DEF Fresh, Early
<1>7. Statuses(x, r)'
  <2>1. ASSUME NEW i \in 1..Len(x), x[i].op \in {"load", "award", "top", "unwin"} \cup Pays
        PROVE  /\ x[i].op \in {"load", "award", "top"} \cup Pays => tour[x[i].t].status = "finished"
               /\ x[i].op = "unwin" => tour[x[i].t].status # "finished"
               /\ x[i].op \in {"award"} \cup Pays /\ ~Loading(x, 1, i)
                    => r.winner = tour[x[i].t].winner /\ (r.voided <=> tour[x[i].t].voided)
               /\ x[i].op \in Pays => r.doubled = tour[x[i].t].doubled /\ SidesOf(x[i].t) \cap Guest = {}
    <3>1. PICK j \in 1..Len(q) : x[i] = q[j] /\ (~Loading(x, 1, i) => ~Loading(q, 1, j))
      BY <1>5, <2>1 DEF Pays
    <3> QED BY <3>1 DEF Course, Statuses
  <2> QED BY <1>1, <2>1 DEF Statuses
<1>8. Heads(x, r)'
  <2>1. HadRows(x[1].t)' = HadRows(x[1].t)
    BY <1>1 DEF HadRows
  <2> QED BY <1>3, <1>5, <2>1 DEF Heads
<1>9. Honest(x)' => Honest(q)
  BY <1>1, <1>5 DEF Honest
<1>10. Tallied(x, r)'
  <2>1. SUFFICES ASSUME Honest(q), NEW u \in Tour, ~Due(x, u) PROVE Tally(x, r, u)'
    BY <1>9 DEF Tallied, Due, Fresh, Has, With
  <2>2. ~Due(q, u)
    <3>1. SUFFICES ASSUME Has(q, {"truncate", "list"}) \/ With(q, {"load", "rows", "wipe"}, u) PROVE FALSE
      BY DEF Due
    <3>2. ~Has(x, {"truncate", "list"}) /\ ~With(x, {"load", "rows", "wipe"}, u)
      BY <1>6, <2>1 DEF Due
    <3>3. Has(q, {"truncate", "list"}) => Has(x, {"truncate", "list"})
      BY <1>2, <1>5
    <3>4. q[1].t # u
      BY <1>5, <3>2 DEF With
    <3>5. With(q, {"load", "rows", "wipe"}, u) => With(x, {"load", "rows", "wipe"}, u)
      BY <1>5, <3>4
    <3> QED BY <3>1, <3>2, <3>3, <3>5
  <2>3. Tally(q, r, u)
    BY <2>1, <2>2 DEF Tallied, Course
  <2>4. ~With(q, {"rate"}, u) /\ ~With(q, {"insert"}, u)
    <3>1. PICK z : z = Tail(q)
      OBVIOUS
    <3> QED BY <1>2, <3>1, HeadFacts DEF Pays
  <2>5. ~With(x, {"rate"}, u) /\ ~With(x, {"insert"}, u)
    BY <1>5, <2>4
  <2>6. With(x, {"award", "unwin"}, u) <=> With(q, {"award", "unwin"}, u)
    BY <1>2, <1>5
  <2>7. Tally(x, r, u)' <=> IF With(x, {"award", "unwin"}, u) THEN OfMatch(u)' = {} ELSE Counts(u)'
    BY <2>5 DEF Tally, With
  <2>8. OfMatch(u)' = OfMatch(u) /\ (Counts(u)' <=> Counts(u))
    <3>1. OfMatch(u)' = OfMatch(u) /\ tour'[u] = tour[u]
      BY <1>1 DEF OfMatch
    <3> QED BY <3>1, CountsAre
  <2> QED BY <2>3, <2>4, <2>6, <2>7, <2>8 DEF Tally
<1>11. CacheKept(x)'
  <2>1. SUFFICES ASSUME Honest(q), "delete" \notin load.kinds, ~Renews(x), NEW s \in Side, ~Excused(x, s)
                 PROVE  Good(s)'
    BY <1>1, <1>9 DEF CacheKept, Renews, Filling, Excused, Fresh, Has, Written
  <2>2. ~Renews(q)
    BY <1>2, <1>5, <1>6, <2>1 DEF Renews
  <2>3. ~Filling(q)
    BY <1>2 DEF Filling
  <2>4. Good(s) \/ Excused(q, s)
    BY <2>1, <2>2, <2>3 DEF CacheKept, Course
  <2>5. ~Excused(q, s)
    BY <1>5, <1>6, <2>1 DEF Excused
  <2> QED BY <1>1, <2>4, <2>5, AllAlone
<1>12. GoOn(p, x, r)
  BY <1>2, <1>4
<1> QED BY <1>2, <1>5, <1>7, <1>8, <1>10, <1>11, <1>12, GoKept DEF Course

\* What a match that somebody won puts on the list, and what it leaves there.
AwardOf(x, q, w, t) ==
  /\ x \in Seq(Statement) /\ x # <<>> /\ x[1].op = "rate" /\ x[1].t = t /\ 1 \in 1..Len(x)
  /\ \A ops, u : With(q, ops, u) => (q[1].op \in ops /\ q[1].t = u) \/ With(x, ops, u)
  /\ \A ops : Has(q, ops) => q[1].op \in ops \/ Has(x, ops)
  /\ \A s : Written(q, s) => Written(x, s)
  /\ Written(x, w) /\ Written(x, Loser(w, t))
  /\ \A i \in 1..Len(x) :
       \/ x[i].op \in Pays /\ x[i].t = t
       \/ x[i].op \in {"sum", "write"}
       \/ \E j \in 1..Len(q) : /\ x[i] = q[j] /\ x[i].op \notin Pays
                               /\ ~Loading(x, 1, i) => ~Loading(q, 1, j)

LEMMA AwardFacts ==
  ASSUME NEW q, NEW v, Listed(q, v), q # <<>>, q[1].op = "award", NEW t \in Tour, NEW w \in Side,
         NEW x, x = Payment(w, t) \o Tail(q)
  PROVE  AwardOf(x, q, w, t)
<1>1. PICK y, f : y = Tail(q) /\ f = Payment(w, t)
  OBVIOUS
<1>2. q \in Seq(Statement)
  BY DEF Listed
<1>3. PICK n \in Nat : n = Len(q) /\ n > 0 /\ y \in Seq(Statement) /\ Len(y) = n - 1
                      /\ \A i \in 1..n-1 : y[i] = q[i+1]
  BY <1>1, <1>2, TailFacts
<1>4. /\ f \in Seq(Statement) /\ Len(f) = 8
      /\ f[1] = St("rate", t, w) /\ f[2] = St("rate", t, Loser(w, t))
      /\ f[3] = St("insert", t, w) /\ f[4] = St("insert", t, Loser(w, t))
      /\ f[5] = St("sum", NoTour, w) /\ f[6] = St("write", NoTour, w)
      /\ f[7] = St("sum", NoTour, Loser(w, t)) /\ f[8] = St("write", NoTour, Loser(w, t))
  BY <1>1, PaymentIs
<1>5. PICK z : z = f \o y
  OBVIOUS
<1>6. z \in Seq(Statement) /\ Len(z) = Len(f) + Len(y)
      /\ \A i \in 1..Len(f) + Len(y) : z[i] = IF i <= Len(f) THEN f[i] ELSE y[i - Len(f)]
  BY <1>3, <1>4, <1>5, ConcatProperties
<1>7. x = z
  BY <1>1, <1>5
<1>8. x \in Seq(Statement) /\ Len(x) = n + 7 /\ \A i \in 1..n+7 : x[i] = IF i <= 8 THEN f[i] ELSE y[i-8]
  <2>1. Len(f) + Len(y) = n + 7
    BY <1>3, <1>4
  <2> QED BY <1>4, <1>6, <1>7, <2>1
<1>9. \A i \in 1..8 : i \in 1..n+7 /\ x[i] = f[i]
  <2>1. \A i \in 1..8 : i \in 1..n+7 /\ i <= 8
    BY <1>3
  <2> QED BY <1>8, <2>1
<1>10. ASSUME NEW j \in 2..n, NEW k, k = j + 7 PROVE k \in 9..n+7 /\ x[k] = q[j]
  <2>1. k \in 1..n+7 /\ ~(k <= 8) /\ k - 8 \in 1..n-1 /\ (k - 8) + 1 = j /\ k \in 9..n+7
    BY <1>3, <1>10
  <2>2. x[k] = y[k-8]
    BY <1>8, <2>1
  <2>3. y[k-8] = q[(k-8)+1]
    BY <1>3, <2>1
  <2> QED BY <2>1, <2>2, <2>3
<1>11. \A j \in 1..n : j = 1 \/ \E i \in 1..n+7 : x[i] = q[j]
  <2>1. TAKE j \in 1..n
  <2>2. SUFFICES ASSUME j # 1 PROVE \E i \in 1..n+7 : x[i] = q[j]
    OBVIOUS
  <2>3. j \in 2..n /\ j + 7 \in 1..n+7
    BY <1>3, <2>2
  <2>4. x[j+7] = q[j]
    BY <1>10, <2>3
  <2> QED BY <2>3, <2>4
<1>18. /\ \A i \in 1..4 : f[i].op \in Pays /\ f[i].t = t
       /\ \A i \in 5..8 : f[i].op \in {"sum", "write"}
       /\ f[6].op = "write" /\ f[6].s = w /\ f[8].op = "write" /\ f[8].s = Loser(w, t)
  <2>1. /\ f[1].op = "rate" /\ f[1].t = t /\ f[2].op = "rate" /\ f[2].t = t
        /\ f[3].op = "insert" /\ f[3].t = t /\ f[4].op = "insert" /\ f[4].t = t
        /\ f[5].op = "sum" /\ f[6].op = "write" /\ f[7].op = "sum" /\ f[8].op = "write"
        /\ f[6].s = w /\ f[8].s = Loser(w, t)
    BY <1>4 DEF St
  <2>2. \A i \in 1..4 : i = 1 \/ i = 2 \/ i = 3 \/ i = 4
    OBVIOUS
  <2>3. \A i \in 5..8 : i = 5 \/ i = 6 \/ i = 7 \/ i = 8
    OBVIOUS
  <2> QED BY <2>1, <2>2, <2>3 DEF Pays
<1>12. ASSUME NEW i \in 1..n+7
       PROVE  \/ x[i].op \in Pays /\ x[i].t = t
              \/ x[i].op \in {"sum", "write"}
              \/ \E j \in 1..n : /\ x[i] = q[j] /\ x[i].op \notin Pays
                                 /\ ~Loading(x, 1, i) => ~Loading(q, 1, j)
  <2>1. CASE i <= 8
    <3>1. i \in 1..8 /\ (i \in 1..4 \/ i \in 5..8)
      BY <2>1
    <3>2. x[i] = f[i]
      BY <1>9, <3>1
    <3> QED BY <1>18, <3>1, <3>2
  <2>2. CASE i > 8
    <3>1. PICK j \in 2..n : i = j + 7
      <4>1. i - 7 \in 2..n /\ i = (i - 7) + 7
        BY <1>3, <2>2
      <4> QED BY <4>1
    <3>2. x[i] = q[j]
      BY <1>10, <3>1
    <3>3. ASSUME NEW k \in 1..j, q[k].op = "load" PROVE \E l \in 1..i : x[l].op = "load"
      <4>1. k # 1
        BY <3>3
      <4>2. k \in 2..n /\ k + 7 \in 1..i
        BY <1>3, <3>1, <4>1
      <4>3. x[k+7] = q[k]
        BY <1>10, <4>2
      <4> QED BY <3>3, <4>2, <4>3
    <3>4. ~Loading(x, 1, i) => ~Loading(q, 1, j)
      BY <3>3 DEF Loading
    <3>5. j \in 1..n /\ j \in 1..Len(q)
      BY <1>3, <3>1
    <3>6. q[j].op \notin Pays
      BY <3>5 DEF Listed, Paying, Pays
    <3> QED BY <3>2, <3>4, <3>5, <3>6
  <2>3. i <= 8 \/ i > 8
    OBVIOUS
  <2> QED BY <2>1, <2>2, <2>3
<1>13. \A ops, u : With(q, ops, u) => (q[1].op \in ops /\ q[1].t = u) \/ With(x, ops, u)
  <2>1. SUFFICES ASSUME NEW ops, NEW u, With(q, ops, u), ~(q[1].op \in ops /\ q[1].t = u) PROVE With(x, ops, u)
    OBVIOUS
  <2>2. PICK j \in 1..n : q[j].op \in ops /\ q[j].t = u
    BY <1>3, <2>1 DEF With
  <2>3. PICK i \in 1..n+7 : x[i] = q[j]
    BY <1>11, <2>1, <2>2
  <2> QED BY <1>8, <2>2, <2>3 DEF With
<1>14. \A ops : Has(q, ops) => q[1].op \in ops \/ Has(x, ops)
  <2>1. SUFFICES ASSUME NEW ops, Has(q, ops), q[1].op \notin ops PROVE Has(x, ops)
    OBVIOUS
  <2>2. PICK j \in 1..n : q[j].op \in ops
    BY <1>3, <2>1 DEF Has
  <2>3. PICK i \in 1..n+7 : x[i] = q[j]
    BY <1>11, <2>1, <2>2
  <2> QED BY <1>8, <2>2, <2>3 DEF Has
<1>15. \A s : Written(q, s) => Written(x, s)
  <2>1. SUFFICES ASSUME NEW s, Written(q, s) PROVE Written(x, s)
    OBVIOUS
  <2>2. PICK j \in 1..n : q[j].op = "write" /\ q[j].s = s
    BY <1>3, <2>1 DEF Written
  <2>3. PICK i \in 1..n+7 : x[i] = q[j]
    BY <1>11, <2>2
  <2> QED BY <1>8, <2>2, <2>3 DEF Written
<1>16. Written(x, w) /\ Written(x, Loser(w, t))
  <2>1. 6 \in 1..8 /\ 8 \in 1..8
    OBVIOUS
  <2>2. x[6] = f[6] /\ x[8] = f[8] /\ 6 \in 1..n+7 /\ 8 \in 1..n+7
    BY <1>9, <2>1
  <2>3. x[6].op = "write" /\ x[6].s = w /\ x[8].op = "write" /\ x[8].s = Loser(w, t)
    BY <1>18, <2>2
  <2>4. 6 \in 1..Len(x) /\ 8 \in 1..Len(x)
    BY <1>8, <2>2
  <2> QED BY <2>3, <2>4 DEF Written
<1>17. x # <<>> /\ x[1].op = "rate" /\ x[1].t = t /\ 1 \in 1..n+7
  <2>1. 1 \in 1..8 /\ 1 \in 1..n+7
    BY <1>3
  <2>2. x[1] = f[1]
    BY <1>9, <2>1
  <2>3. x # <<>>
    BY <1>3, <1>8
  <2> QED BY <1>4, <2>1, <2>2, <2>3 DEF St
<1> QED BY <1>3, <1>8, <1>12, <1>13, <1>14, <1>15, <1>16, <1>17 DEF AwardOf

LEMMA AwardKept ==
  ASSUME Typed, NEW p \in Request, NEW q, q = req[p].todo, NEW r, r = req[p], Course(q, r),
         Award(p)
  PROVE  Kept(p)
<1>1. /\ RequestsOK /\ ~Idle(p) /\ ToursOK
      /\ UNCHANGED <<tour, history, active, start, whole, load>>
  BY DEF Typed, TablesOK, tables, Award, Doing
<1>2. PICK t, w, y, v : t = q[1].t /\ w = r.winner /\ y = Tail(q) /\ v = Awarding(r, It(p).t)
  OBVIOUS
<1>3. /\ r \in Req /\ Listed(q, w) /\ q # <<>> /\ y \in Seq(Statement) /\ q \in Seq(Statement) /\ Rest(p) = y
  BY <1>1, <1>2, HeadIs, TailFacts
<1>4. /\ q[1].op = "award" /\ q[1].t = t /\ t \in Tour /\ w \in Side \cup {NoSide}
      /\ v \in Req /\ v.winner = w /\ v.voided = r.voided /\ v.doubled = tour[t].doubled
      /\ Skips(w, t) => Next1(p) /\ UNCHANGED cache
      /\ ~Skips(w, t) => GoOn(p, Payment(w, t) \o Tail(q), v)
  BY <1>2, AwardIs
<1>5. 1 \in 1..Len(q)
  BY <1>3, EmptySeq
<1>6. Statuses(q, r) /\ Tallied(q, r) /\ CacheKept(q) /\ (whole' => Honest(q))
  BY <1>1 DEF Course, Honest
<1>7. ~Loading(q, 1, 1)
  <2>1. \A k \in 1..1 : k = 1
    OBVIOUS
  <2> QED BY <1>4, <2>1 DEF Loading
<1>8. tour[t].status = "finished" /\ w = tour[t].winner /\ (r.voided <=> tour[t].voided)
  BY <1>2, <1>4, <1>5, <1>6, <1>7 DEF Statuses
<1>9. \A u : OfMatch(u)' = OfMatch(u) /\ tour'[u] = tour[u] /\ (Counts(u)' <=> Counts(u))
  <2>1. \A u : OfMatch(u)' = OfMatch(u) /\ tour'[u] = tour[u]
    BY <1>1 DEF OfMatch
  <2> QED BY <2>1, CountsAre
<1>10. With(q, {"award", "unwin"}, t) /\ q[1].op \notin Pays
       /\ \A u : ~With(q, {"rate"}, u) /\ ~With(q, {"insert"}, u)
  <2>1. q[1].op \notin Pays
    BY <1>4 DEF Pays
  <2>2. \A u : ~With(q, {"rate"}, u) /\ ~With(q, {"insert"}, u)
    BY <1>2, <1>3, <2>1, WithTail
  <2> QED BY <1>4, <1>5, <2>1, <2>2 DEF With
<1>11. CASE Skips(w, t)
  <2>1. Statuses(y, r)'
    <3>1. \A u \in Tour : /\ tour'[u].status = tour[u].status
                          /\ tour[u].status = "finished" => tour'[u].winner = tour[u].winner
                                                          /\ (tour'[u].voided <=> tour[u].voided)
      BY <1>1
    <3>2. q[1].op # "load" /\ q[1].op \notin {"rate", "insert"}
      BY <1>4
    <3> QED BY <1>2, <1>3, <1>6, <3>1, <3>2, TailStatuses
  <2>2. Heads(y, r)'
    <3>1. q[1].op \notin {"ended", "old", "truncate", "rows", "sum", "clear", "fill", "rate", "insert"}
      BY <1>4
    <3> QED BY <1>2, <1>3, <3>1, TailHeads
  <2>3. CacheKept(y)'
    <3>1. \A s \in Side : (Good(s) \/ (q[1].op = "write" /\ q[1].s = s)) /\ ~Excused(y, s) => Good(s)'
      BY <1>1, <1>4, <1>11, AllAlone
    <3>2. q[1].op \notin {"truncate", "list", "clear", "fill", "teams"} /\ load' = load
      BY <1>1, <1>4
    <3> QED BY <1>2, <1>3, <1>6, <3>1, <3>2, TailCache
  <2>4. Tallied(y, r)'
    <3>1. Honest(y)' => Honest(q)
      BY <1>1, <1>2, <1>3, TailFacts DEF Honest
    <3>2. SUFFICES ASSUME Honest(q), NEW u \in Tour, ~Due(y, u) PROVE Tally(y, r, u)'
      BY <3>1 DEF Tallied, Due, Fresh, Has, With
    <3>3. ~Due(q, u)
      BY <1>2, <1>3, <1>4, <3>2, DueTail
    <3>4. Tally(q, r, u)
      BY <1>6, <3>2, <3>3 DEF Tallied
    <3>5. ~With(y, {"rate"}, u) /\ ~With(y, {"insert"}, u)
      BY <1>2, <1>3, <1>10, WithTail
    <3>6. Tally(y, r, u)' <=> IF With(y, {"award", "unwin"}, u) THEN OfMatch(u)' = {} ELSE Counts(u)'
      BY <3>5 DEF Tally, With
    <3>7. CASE u = t
      <4>1. OfMatch(u) = {}
        BY <1>10, <3>4, <3>7 DEF Tally
      <4>2. Entitled(OfMatch(u), tour[u], u)
        BY <1>8, <1>11, <3>7, <4>1 DEF Entitled, Skips
      <4>3. Counts(u)
        BY <4>2, CountsAre
      <4> QED BY <1>9, <3>6, <4>1, <4>3
    <3>8. CASE u # t
      <4>1. With(y, {"award", "unwin"}, u) <=> With(q, {"award", "unwin"}, u)
        BY <1>2, <1>3, <1>4, <3>8, WithTail
      <4> QED BY <1>9, <1>10, <3>4, <3>6, <4>1 DEF Tally
    <3> QED BY <3>7, <3>8
  <2>5. GoOn(p, y, r)
    BY <1>3, <1>4, <1>11 DEF Next1
  <2> QED BY <1>3, <2>1, <2>2, <2>3, <2>4, <2>5, GoKept DEF Course
<1>12. CASE ~Skips(w, t)
  <2>1. w \in Side /\ w \in SidesOf(t) /\ SidesOf(t) = {w, Loser(w, t)}
    <3>1. w \in Side /\ w \in SidesOf(t)
      BY <1>1, <1>4, <1>8, <1>12 DEF ToursOK, Skips
    <3> QED BY <1>4, <3>1, TwoSides
  <2>13. SidesOf(t) \cap Guest = {}
    BY <1>12 DEF Skips
  <2>2. PICK x : x = Payment(w, t) \o Tail(q)
    OBVIOUS
  <2>3. AwardOf(x, q, w, t)
    BY <1>3, <1>4, <2>1, <2>2, AwardFacts
  <2>4. ~Fresh(x) /\ ~Fresh(q)
    BY <1>4, <2>3 DEF Fresh, Early, AwardOf
  <2>5. Statuses(x, v)'
    <3>1. ASSUME NEW i \in 1..Len(x), x[i].op \in {"load", "award", "top", "unwin"} \cup Pays
          PROVE  /\ x[i].op \in {"load", "award", "top"} \cup Pays => tour[x[i].t].status = "finished"
                 /\ x[i].op = "unwin" => tour[x[i].t].status # "finished"
                 /\ x[i].op \in {"award"} \cup Pays /\ ~Loading(x, 1, i)
                      => v.winner = tour[x[i].t].winner /\ (v.voided <=> tour[x[i].t].voided)
                 /\ x[i].op \in Pays => v.doubled = tour[x[i].t].doubled /\ SidesOf(x[i].t) \cap Guest = {}
      <4>1. CASE x[i].op \in Pays /\ x[i].t = t
        BY <1>2, <1>4, <1>8, <2>13, <4>1 DEF Pays
      <4>2. CASE \E j \in 1..Len(q) : /\ x[i] = q[j] /\ x[i].op \notin Pays
                                      /\ ~Loading(x, 1, i) => ~Loading(q, 1, j)
        <5>1. PICK j \in 1..Len(q) : /\ x[i] = q[j] /\ x[i].op \notin Pays
                                     /\ ~Loading(x, 1, i) => ~Loading(q, 1, j)
          BY <4>2
        <5>2. /\ q[j].op \in {"load", "award", "top"} \cup Pays => tour[q[j].t].status = "finished"
              /\ q[j].op = "unwin" => tour[q[j].t].status # "finished"
              /\ q[j].op \in {"award"} \cup Pays /\ ~Loading(q, 1, j)
                   => r.winner = tour[q[j].t].winner /\ (r.voided <=> tour[q[j].t].voided)
          BY <1>6 DEF Statuses
        <5>3. v.winner = r.winner /\ v.voided = r.voided
          BY <1>2, <1>4
        <5> QED BY <5>1, <5>2, <5>3
      <4>3. x[i].op \notin {"sum", "write"}
        BY <3>1 DEF Pays
      <4> QED BY <2>3, <4>1, <4>2, <4>3 DEF AwardOf
    <3> QED BY <1>1, <3>1 DEF Statuses
  <2>6. Heads(x, v)'
    BY <2>3 DEF Heads, AwardOf
  <2>7. ASSUME NEW i \in 1..Len(x), x[i].op \in {"award", "unwin", "patches"}
        PROVE  \E j \in 1..Len(q) : x[i] = q[j]
    BY <2>3, <2>7 DEF AwardOf, Pays
  <2>8. Honest(x)' => Honest(q)
    BY <1>1, <2>7 DEF Honest, Has
  <2>9. Tallied(x, v)'
    <3>1. SUFFICES ASSUME Honest(q), NEW u \in Tour, ~Due(x, u) PROVE Tally(x, v, u)'
      BY <2>8 DEF Tallied, Due, Fresh, Has, With
    <3>2. ~Due(q, u)
      <4>1. ~Has(x, {"truncate", "list"}) /\ ~With(x, {"load", "rows", "wipe"}, u)
        BY <2>4, <3>1 DEF Due
      <4>2. Has(q, {"truncate", "list"}) => Has(x, {"truncate", "list"})
        BY <1>4, <2>3 DEF AwardOf
      <4>3. With(q, {"load", "rows", "wipe"}, u) => With(x, {"load", "rows", "wipe"}, u)
        BY <1>4, <2>3 DEF AwardOf
      <4> QED BY <4>1, <4>2, <4>3 DEF Due
    <3>3. Tally(q, r, u)
      BY <1>6, <3>1, <3>2 DEF Tallied
    <3>4. CASE u = t
      <4>1. OfMatch(u) = {}
        BY <1>10, <3>3, <3>4 DEF Tally
      <4>2. With(x, {"rate"}, u)
        BY <2>3, <3>4 DEF AwardOf, With
      <4> QED BY <1>9, <4>1, <4>2 DEF Tally, With
    <3>5. CASE u # t
      <4>1. ASSUME NEW i \in 1..Len(x), x[i].op \in Pays PROVE x[i].t = t
        BY <2>3, <4>1 DEF AwardOf, Pays
      <4>2. ~With(x, {"rate"}, u) /\ ~With(x, {"insert"}, u)
        BY <3>5, <4>1 DEF With, Pays
      <4>3. With(x, {"award", "unwin"}, u) => With(q, {"award", "unwin"}, u)
        BY <2>7 DEF With
      <4>4. With(q, {"award", "unwin"}, u) => With(x, {"award", "unwin"}, u)
        BY <1>4, <2>3, <3>5 DEF AwardOf
      <4>5. Tally(x, v, u)' <=> IF With(x, {"award", "unwin"}, u) THEN OfMatch(u)' = {} ELSE Counts(u)'
        BY <4>2 DEF Tally, With
      <4> QED BY <1>9, <1>10, <3>3, <4>3, <4>4, <4>5 DEF Tally
    <3> QED BY <3>4, <3>5
  <2>10. CacheKept(x)'
    <3>1. SUFFICES ASSUME Honest(q), "delete" \notin load.kinds, ~Renews(x), NEW s \in Side, ~Excused(x, s)
                   PROVE  Good(s)'
      BY <1>1, <2>8 DEF CacheKept, Renews, Filling, Excused, Fresh, Has, Written
    <3>2. Has(q, {"truncate", "list", "clear"}) => Has(x, {"truncate", "list", "clear"})
      BY <1>4, <2>3 DEF AwardOf
    <3>3. ~Renews(q) /\ ~Filling(q)
      BY <1>4, <2>4, <3>1, <3>2 DEF Renews, Filling
    <3>4. ~Written(x, s)
      BY <2>4, <3>1 DEF Excused
    <3>5. ~Excused(q, s) /\ s # w /\ s # Loser(w, t)
      BY <2>3, <3>4 DEF Excused, AwardOf
    <3>6. Good(s)
      BY <1>6, <3>1, <3>3, <3>5 DEF CacheKept
    <3>7. cache'[s] = cache[s]
      <4>1. s \notin SidesOf(t)
        BY <2>1, <3>5
      <4>2. cache' = [z \in Side |-> IF z \in SidesOf(t) \cap Team /\ cache[z] = NoRow
                                      THEN 0 ELSE cache[z]]
        <5>1. It(p) = q[1]
          BY <1>1, HeadIs
        <5> QED BY <1>2, <1>12, <5>1 DEF Award, Skips
      <4> QED BY <4>1, <4>2
    <3>8. RowsOf(history', s, active) = RowsOf(history, s, active)
      BY <1>1
    <3> QED BY <1>1, <3>6, <3>7, <3>8, SideAlone
  <2>11. GoOn(p, x, v)
    BY <1>4, <1>12, <2>2
  <2>12. x \in Seq(Statement)
    BY <2>3 DEF AwardOf
  <2> QED BY <1>3, <1>4, <2>5, <2>6, <2>9, <2>10, <2>11, <2>12, GoKept DEF Course
<1> QED BY <1>11, <1>12

\* The head of a list that writes what a match brings.
PayOf(q, x, w, t) ==
  /\ w \in Side /\ t \in Tour /\ x # <<>> /\ Written(x, w) /\ Written(x, Loser(w, t))
  /\ \A i \in 1..Len(q) : q[i].op \in Pays => q[i].t = t
  /\ \A i \in 1..Len(q) : InCourse(q[i]) => Loading(q, 1, i)
  /\ \/ q[1] = St("rate", t, w) /\ x[1] = St("rate", t, Loser(w, t))
     \/ /\ q[1] = St("rate", t, Loser(w, t)) /\ x[1] = St("insert", t, w)
        /\ ~With(x, {"rate"}, t)
     \/ /\ q[1] = St("insert", t, w) /\ x[1] = St("insert", t, Loser(w, t))
        /\ ~With(q, {"rate"}, t)
     \/ /\ q[1] = St("insert", t, Loser(w, t)) /\ x[1] = St("sum", NoTour, w)
        /\ ~With(q, {"rate"}, t) /\ ~With(x, {"rate"}, t) /\ ~With(x, {"insert"}, t)

LEMMA PayFacts ==
  ASSUME NEW q, NEW w, Listed(q, w), q # <<>>, q[1].op \in Pays, NEW x, x = Tail(q),
         NEW t, t = q[1].t
  PROVE  PayOf(q, x, w, t)
<1>1. q \in Seq(Statement)
  BY DEF Listed
<1>2. PICK m \in Nat : m = Len(q) /\ m > 0 /\ Len(x) = m - 1 /\ \A i \in 1..m-1 : x[i] = q[i+1]
  BY <1>1, TailFacts
<1>3. PICK n \in 0..3 : PaidFrom(q, w, n)
  BY DEF Listed, Paying
<1>4. t \in Tour
  <2>1. q[1] \in Statement
    BY <1>1, <1>2, ElementOfSeq
  <2> QED BY <2>1, Fields
<1>5. PICK f, l : f = Payment(w, t) /\ l = Loser(w, t)
  OBVIOUS
<1>6. /\ m >= 8 - n /\ \A i \in 1..8-n : q[i] = f[i+n]
      /\ \A i \in 1..m : q[i].op \in Pays => i <= 4 - n
      /\ \A i \in 1..m : InCourse(q[i]) => Loading(q, 1, i)
  BY <1>2, <1>3, <1>5 DEF PaidFrom
<1>7. /\ f[1] = St("rate", t, w) /\ f[2] = St("rate", t, l) /\ f[3] = St("insert", t, w)
      /\ f[4] = St("insert", t, l) /\ f[5] = St("sum", NoTour, w) /\ f[6] = St("write", NoTour, w)
      /\ f[7] = St("sum", NoTour, l) /\ f[8] = St("write", NoTour, l)
  BY <1>5 DEF Payment
<1>8. /\ f[1].op = "rate" /\ f[2].op = "rate" /\ f[3].op = "insert" /\ f[4].op = "insert"
      /\ f[1].t = t /\ f[2].t = t /\ f[3].t = t /\ f[4].t = t
      /\ f[6].op = "write" /\ f[6].s = w /\ f[8].op = "write" /\ f[8].s = l
  BY <1>7 DEF St
<1>9. n = 0 \/ n = 1 \/ n = 2 \/ n = 3
  OBVIOUS
<1>10. \A i \in 1..m : q[i].op \in Pays => i \in 1..4-n /\ q[i] = f[i+n]
  <2>1. \A i \in 1..m : i <= 4 - n => i \in 1..4-n /\ i \in 1..8-n
    OBVIOUS
  <2> QED BY <1>6, <2>1
<1>11. \A i \in 1..m : q[i].op \in Pays => q[i].t = t
  <2>1. TAKE i \in 1..m
  <2>2. SUFFICES ASSUME q[i].op \in Pays PROVE q[i].t = t
    OBVIOUS
  <2>3. q[i] = f[i+n] /\ i \in 1..4-n
    BY <1>10, <2>2
  <2>4. i + n = 1 \/ i + n = 2 \/ i + n = 3 \/ i + n = 4
    BY <2>3
  <2> QED BY <1>8, <2>3, <2>4
<1>12. \A j \in 1..7-n : j \in 1..m-1 /\ x[j] = q[j+1] /\ q[j+1] = f[j+1+n] /\ j + 1 \in 1..m
  <2>1. TAKE j \in 1..7-n
  <2>2. j \in 1..m-1 /\ j + 1 \in 1..8-n /\ (j + 1) + n = j + 1 + n /\ j + 1 \in 1..m
    BY <1>2, <1>6
  <2> QED BY <1>2, <1>6, <2>2
<1>13. /\ 5 - n \in 1..m-1 /\ x[5-n] = f[6] /\ f[6] = q[6-n] /\ 6 - n \in 1..m
       /\ 7 - n \in 1..m-1 /\ x[7-n] = f[8]
  <2>1. 5 - n \in 1..7-n /\ (5 - n) + 1 + n = 6 /\ (5 - n) + 1 = 6 - n
        /\ 7 - n \in 1..7-n /\ (7 - n) + 1 + n = 8
    BY <1>9
  <2> QED BY <1>12, <2>1
<1>14. Written(x, w) /\ Written(x, l)
  BY <1>2, <1>8, <1>13 DEF Written
<1>15. w \in Side
  <2>1. q[6-n] \in Statement /\ q[6-n].op = "write" /\ q[6-n].s = w
    BY <1>1, <1>2, <1>8, <1>13, ElementOfSeq
  <2> QED BY <2>1, Fields
<1>16. x # <<>> /\ 1 \in 1..m /\ x[1] = f[2+n] /\ q[1] = f[1+n]
  <2>1. 1 \in 1..7-n /\ 1 \in 1..8-n /\ 1 + 1 + n = 2 + n
    BY <1>9
  <2>2. x[1] = f[2+n] /\ q[1] = f[1+n]
    BY <1>6, <1>12, <2>1
  <2>3. x # <<>>
    <3>1. m - 1 # 0
      <4>1. m >= 8 - n
        BY <1>6
      <4> QED BY <1>2, <1>9, <4>1
    <3> QED BY <1>2, <3>1
  <2> QED BY <1>2, <2>2, <2>3
<1>17. ASSUME NEW i \in 1..m-1, x[i].op \in Pays PROVE i + 1 <= 4 - n /\ x[i] = f[(i+1)+n] /\ i \in Nat /\ i > 0
  <2>1. i + 1 \in 1..m /\ x[i] = q[i+1]
    BY <1>2
  <2>2. i + 1 \in 1..4-n /\ q[i+1] = f[(i+1)+n]
    BY <1>10, <1>17, <2>1
  <2>3. i + 1 <= 4 - n /\ i \in Nat /\ i > 0
    BY <1>2, <1>9, <2>2
  <2> QED BY <2>1, <2>2, <2>3
<1>18. CASE n = 0
  <2>1. q[1] = St("rate", t, w) /\ x[1] = St("rate", t, l)
    BY <1>7, <1>16, <1>18
  <2> QED BY <1>2, <1>4, <1>5, <1>6, <1>11, <1>14, <1>15, <1>16, <2>1 DEF PayOf
<1>19. CASE n = 1
  <2>1. q[1] = St("rate", t, l) /\ x[1] = St("insert", t, w)
    BY <1>7, <1>16, <1>19
  <2>2. ASSUME NEW i \in 1..m-1, x[i].op = "rate" PROVE FALSE
    <3>1. i + 1 <= 4 - n /\ x[i] = f[(i+1)+n] /\ i \in Nat /\ i > 0
      <4>1. x[i].op \in Pays
        BY <2>2 DEF Pays
      <4> QED BY <1>17, <4>1
    <3>2. PICK k : k = (i + 1) + n
      OBVIOUS
    <3>3. k = 3 \/ k = 4
      BY <1>19, <3>1, <3>2
    <3>4. x[i] = f[k]
      BY <3>1, <3>2
    <3> QED BY <1>8, <2>2, <3>3, <3>4
  <2>3. ~With(x, {"rate"}, t)
    BY <1>2, <2>2 DEF With
  <2> QED BY <1>2, <1>4, <1>5, <1>6, <1>11, <1>14, <1>15, <1>16, <2>1, <2>3 DEF PayOf
<1>20. CASE n = 2
  <2>1. q[1] = St("insert", t, w) /\ x[1] = St("insert", t, l)
    BY <1>7, <1>16, <1>20
  <2>2. ASSUME NEW i \in 1..m, q[i].op = "rate" PROVE FALSE
    <3>1. i \in 1..2 /\ q[i] = f[i+2]
      BY <1>10, <1>20, <2>2 DEF Pays
    <3>2. i + 2 = 3 \/ i + 2 = 4
      BY <3>1
    <3> QED BY <1>8, <2>2, <3>1, <3>2
  <2>3. ~With(q, {"rate"}, t)
    BY <1>2, <2>2 DEF With
  <2> QED BY <1>2, <1>4, <1>5, <1>6, <1>11, <1>14, <1>15, <1>16, <2>1, <2>3 DEF PayOf
<1>21. CASE n = 3
  <2>1. q[1] = St("insert", t, l) /\ x[1] = St("sum", NoTour, w)
    BY <1>7, <1>16, <1>21
  <2>2. ASSUME NEW i \in 1..m, q[i].op = "rate" PROVE FALSE
    <3>1. i \in 1..1 /\ q[i] = f[i+3]
      BY <1>10, <1>21, <2>2 DEF Pays
    <3>2. i + 3 = 4
      BY <3>1
    <3> QED BY <1>8, <2>2, <3>1, <3>2
  <2>3. ~With(q, {"rate"}, t)
    BY <1>2, <2>2 DEF With
  <2>4. \A i \in 1..m-1 : x[i].op \notin Pays
    <3>1. ASSUME NEW i \in 1..m-1, x[i].op \in Pays PROVE FALSE
      <4>1. i + 1 <= 1 /\ i \in Nat /\ i > 0
        <5>1. i + 1 <= 4 - n /\ i \in Nat /\ i > 0
          BY <1>17, <3>1
        <5> QED BY <1>21, <5>1
      <4> QED BY <4>1
    <3> QED BY <3>1
  <2>5. ~With(x, {"rate"}, t) /\ ~With(x, {"insert"}, t)
    BY <1>2, <2>4 DEF With, Pays
  <2> QED BY <1>2, <1>4, <1>5, <1>6, <1>11, <1>14, <1>15, <1>16, <2>1, <2>3, <2>5 DEF PayOf
<1> QED BY <1>9, <1>18, <1>19, <1>20, <1>21

\* An award on a list that pays is that of a match that will be read first.
LEMMA LoadBefore ==
  ASSUME NEW q \in Seq(Statement), Ordered(q), NEW i \in 1..Len(q), InCourse(q[i]), Loading(q, 1, i)
  PROVE  With(q, {"load"}, q[i].t)
<1>1. PICK n \in Nat : n = Len(q)
  BY LenProperties
<1>2. i \in 1..n /\ i \in Nat
  BY <1>1
<1> DEFINE B == {m \in 1..i : q[i + 1 - m].op = "load"}
<1>3. B \in SUBSET (1..i)
  OBVIOUS
<1>4. B # {}
  <2>1. PICK k \in 1..i : q[k].op = "load"
    BY DEF Loading
  <2>2. i + 1 - k \in 1..i /\ i + 1 - (i + 1 - k) = k
    BY <1>2
  <2> QED BY <2>1, <2>2
<1>5. PICK m \in B : \A j \in B : m <= j
  <2> HIDE DEF B
  <2> QED BY <1>2, <1>3, <1>4, LeastNumber
<1>6. PICK k \in 1..i : k = i + 1 - m /\ q[k].op = "load"
  <2>1. m \in 1..i /\ q[i + 1 - m].op = "load" /\ i + 1 - m \in 1..i
    BY <1>2
  <2> QED BY <2>1
<1>7. ~Loading(q, k + 1, i)
  <2>1. SUFFICES ASSUME NEW h \in k+1..i, q[h].op = "load" PROVE FALSE
    BY DEF Loading
  <2>2. i + 1 - h \in 1..i /\ i + 1 - (i + 1 - h) = h /\ ~(m <= i + 1 - h)
    BY <1>2, <1>6
  <2>3. i + 1 - h \in B
    BY <2>1, <2>2
  <2> HIDE DEF B
  <2> QED BY <1>5, <2>2, <2>3
<1>8. InCourse(q[k]) /\ k \in 1..n
  BY <1>2, <1>6 DEF InCourse
<1>9. q[k].t = q[i].t
  <2>1. CASE k = i
    BY <2>1
  <2>2. CASE k # i
    <3>1. k < i /\ k \in 1..Len(q)
      BY <1>1, <1>2, <1>6, <2>2
    <3> QED BY <1>7, <1>8, <3>1 DEF Ordered
  <2> QED BY <2>1, <2>2
<1> QED BY <1>1, <1>6, <1>8, <1>9 DEF With

LEMMA RateKept ==
  ASSUME Typed, NEW p \in Request, NEW q, q = req[p].todo, NEW r, r = req[p], Course(q, r),
         ReadRate(p)
  PROVE  Kept(p)
<1>1. /\ RequestsOK /\ ~Idle(p) /\ TablesOK
      /\ UNCHANGED <<tour, history, active, start, cache, whole, load>>
  BY DEF Typed, tables, ReadRate, Doing
<1>2. PICK h, t, w, x : h = It(p) /\ t = q[1].t /\ w = r.winner /\ x = Tail(q)
  OBVIOUS
<1>3. /\ r \in Req /\ Listed(q, w) /\ q # <<>> /\ h = q[1] /\ h \in Statement
      /\ Rest(p) = x /\ x \in Seq(Statement) /\ q \in Seq(Statement)
  BY <1>1, <1>2, HeadIs
<1>4. q[1].op = "rate" /\ q[1].op \in Pays
  BY <1>2, <1>3 DEF ReadRate, Doing, It, Pays
<1>5. PayOf(q, x, w, t)
  BY <1>2, <1>3, <1>4, PayFacts
<1>15. PICK i \in 1..2 : i = IF h.s = r.winner THEN 1 ELSE 2
  OBVIOUS
<1>6. GoOn(p, x, [r EXCEPT !.rates[i] = SeasonMmr(history, h.s, r.season), !.pinned = tour[t].pinned])
  BY <1>2, <1>3, <1>15 DEF ReadRate
<1>7. PICK v : v = [r EXCEPT !.rates[i] = SeasonMmr(history, h.s, r.season), !.pinned = tour[t].pinned]
  OBVIOUS
<1>8. v \in Req /\ v.winner = w /\ v.voided = r.voided /\ v.doubled = r.doubled /\ v.pinned = tour[t].pinned
  <2>1. r.season \in Seasons
    BY <1>3 DEF Req
  <2>2. SeasonMmr(history, h.s, r.season) \in Int
    BY <1>1, <2>1, SeasonMmrInt
  <2>3. tour[t].pinned \in BOOLEAN
    <3>1. t \in Tour
      BY <1>5 DEF PayOf
    <3> QED BY <1>1, <3>1 DEF TablesOK, ToursOK, Match
  <2> QED BY <1>2, <1>3, <1>7, <2>2, <2>3 DEF Req
<1>9. Statuses(q, r) /\ Tallied(q, r) /\ CacheKept(q) /\ (whole' => Honest(q))
  BY <1>1 DEF Course, Honest
<1>10. Statuses(x, v)'
  <2>1. \A u \in Tour : /\ tour'[u].status = tour[u].status
                        /\ tour[u].status = "finished" => tour'[u].winner = tour[u].winner
                                                        /\ (tour'[u].voided <=> tour[u].voided)
    BY <1>1
  <2>2. q[1].op # "load" /\ v.winner = r.winner /\ (v.voided <=> r.voided) /\ v.doubled = r.doubled
        /\ tour' = tour
    BY <1>1, <1>2, <1>4, <1>8
  <2> QED BY <1>2, <1>3, <1>9, <2>1, <2>2, TailStatuses
<1>11. Heads(x, v)'
  <2>1. x[1] = St("rate", t, Loser(w, t)) \/ x[1] = St("insert", t, w)
    BY <1>4, <1>5 DEF PayOf, St
  <2>2. x[1].op \in {"rate", "insert"} /\ x[1].t = t
    BY <2>1 DEF St
  <2>3. v.pinned <=> tour'[t].pinned
    BY <1>1, <1>8
  <2> QED BY <2>2, <2>3 DEF Heads
<1>12. CacheKept(x)'
  <2>1. \A s \in Side : (Good(s) \/ (q[1].op = "write" /\ q[1].s = s)) /\ ~Excused(x, s) => Good(s)'
    BY <1>1, <1>4, AllAlone
  <2>2. q[1].op \notin {"truncate", "list", "clear", "fill", "teams"} /\ load' = load
    BY <1>1, <1>4
  <2> QED BY <1>2, <1>3, <1>9, <2>1, <2>2, TailCache
<1>13. Tallied(x, v)'
  <2>1. Honest(x)' => Honest(q)
    BY <1>1, <1>2, <1>3, TailFacts DEF Honest
  <2>2. SUFFICES ASSUME Honest(q), NEW u \in Tour, ~Due(x, u) PROVE Tally(x, v, u)'
    BY <2>1 DEF Tallied, Due, Fresh, Has, With
  <2>3. ~Due(q, u)
    BY <1>2, <1>3, <1>4, <2>2, DueTail
  <2>4. Tally(q, r, u)
    BY <1>9, <2>2, <2>3 DEF Tallied
  <2>5. OfMatch(u)' = OfMatch(u) /\ (Counts(u)' <=> Counts(u))
    <3>1. OfMatch(u)' = OfMatch(u) /\ tour'[u] = tour[u]
      BY <1>1 DEF OfMatch
    <3> QED BY <3>1, CountsAre
  <2>6. With(x, {"award", "unwin"}, u) <=> With(q, {"award", "unwin"}, u)
    BY <1>2, <1>3, <1>4, WithTail
  <2>7. CASE u # t
    <3>1. ~With(q, {"rate"}, u) /\ ~With(q, {"insert"}, u)
      BY <1>5, <2>7 DEF PayOf, With, Pays
    <3>2. \A ops : With(x, ops, u) => With(q, ops, u)
      BY <1>2, <1>3, TailFacts
    <3>3. ~With(x, {"rate"}, u) /\ ~With(x, {"insert"}, u)
      BY <3>1, <3>2
    <3>4. Tally(x, v, u)' <=> IF With(x, {"award", "unwin"}, u) THEN OfMatch(u)' = {} ELSE Counts(u)'
      BY <3>3 DEF Tally, With
    <3> QED BY <2>4, <2>5, <2>6, <3>1, <3>4 DEF Tally
  <2>8. CASE u = t
    <3>1. 1 \in 1..Len(q) /\ 1 \in 1..Len(x)
      BY <1>3, <1>5, EmptySeq DEF PayOf
    <3>2. OfMatch(t) = {}
      <4>1. With(q, {"rate"}, t)
        BY <1>2, <1>4, <3>1 DEF With
      <4> QED BY <2>4, <2>8, <4>1 DEF Tally
    <3>3. CASE x[1] = St("rate", t, Loser(w, t))
      <4>1. With(x, {"rate"}, t)
        BY <3>1, <3>3 DEF With, St
      <4> QED BY <2>5, <2>8, <3>2, <4>1 DEF Tally, With
    <3>4. CASE x[1] = St("insert", t, w)
      <4>1. x[1].op = "insert" /\ x[1].t = t /\ x[1].s = v.winner
        BY <1>8, <3>4 DEF St
      <4>2. With(x, {"insert"}, t)
        BY <3>1, <4>1 DEF With
      <4> QED BY <2>5, <2>8, <3>2, <4>1, <4>2 DEF Tally, With
    <3>5. x[1] = St("rate", t, Loser(w, t)) \/ x[1] = St("insert", t, w)
      BY <1>4, <1>5 DEF PayOf, St
    <3> QED BY <3>3, <3>4, <3>5
  <2> QED BY <2>7, <2>8
<1>14. GoOn(p, x, v)
  BY <1>6, <1>7
<1> QED BY <1>3, <1>8, <1>10, <1>11, <1>12, <1>13, <1>14, GoKept DEF Course

\* The rows of the two sides are what a match with a winner is to have.
LEMMA TwoRows ==
  ASSUME NEW t \in Tour, NEW m, m.status = "finished", NEW w \in SidesOf(t), m.winner = w, w # NoSide,
         SidesOf(t) \cap Guest = {},
         NEW a, a.side = w, NEW b, b.side = Loser(w, t),
         a.delta = Change(t, m, w, Gain(a.before, b.before)),
         b.delta = Change(t, m, Loser(w, t), Gain(a.before, b.before))
  PROVE  Entitled({a, b}, m, t)
<1>1. SidesOf(t) = {w, Loser(w, t)} /\ Loser(w, t) # w
  BY TwoSides
<1>2. a # b
  BY <1>1
<1>3. Cardinality({a, b}) = 2
  <2>1. IsFiniteSet({a}) /\ Cardinality({a}) = 1
    BY FS_Singleton
  <2>2. b \notin {a} /\ {a, b} = {a} \cup {b}
    BY <1>2
  <2>3. Cardinality({a} \cup {b}) = IF b \in {a} THEN Cardinality({a}) ELSE Cardinality({a}) + 1
    BY <2>1, FS_AddElement
  <2> QED BY <2>1, <2>2, <2>3
<1>4. {x.side : x \in {a, b}} = SidesOf(t)
  BY <1>1
<1>5. \A x, y \in {a, b} : x.side = m.winner /\ y.side # x.side
        => /\ x.delta = Change(t, m, x.side, Gain(x.before, y.before))
           /\ y.delta = Change(t, m, y.side, Gain(x.before, y.before))
  <2>1. SUFFICES ASSUME NEW x \in {a, b}, NEW y \in {a, b}, x.side = m.winner, y.side # x.side
                 PROVE  x = a /\ y = b
    BY <1>1
  <2> QED BY <1>1, <2>1
<1> QED BY <1>3, <1>4, <1>5 DEF Entitled

LEMMA SameChange ==
  ASSUME NEW t, NEW m, NEW n, m.winner = n.winner, m.voided <=> n.voided, m.pinned <=> n.pinned,
         m.doubled = n.doubled, NEW s, NEW g
  PROVE  Change(t, m, s, g) = Change(t, n, s, g)
<1>1. \A d : Doubled(m, s, d) = Doubled(n, s, d)
  BY DEF Doubled
<1> QED BY <1>1 DEF Change

LEMMA InsertKept ==
  ASSUME Typed, NEW p \in Request, NEW q, q = req[p].todo, NEW r, r = req[p], Course(q, r),
         InsertHistory(p)
  PROVE  Kept(p)
<1>1. /\ RequestsOK /\ ~Idle(p) /\ TablesOK /\ HistoryOK /\ ToursOK
      /\ UNCHANGED <<tour, active, start, cache, whole, load>>
  BY DEF Typed, TablesOK, tables, InsertHistory, Doing
<1>2. PICK h, t, w, x : h = It(p) /\ t = q[1].t /\ w = r.winner /\ x = Tail(q)
  OBVIOUS
<1>3. /\ r \in Req /\ Listed(q, w) /\ q # <<>> /\ h = q[1] /\ h \in Statement
      /\ Rest(p) = x /\ x \in Seq(Statement) /\ q \in Seq(Statement)
  BY <1>1, <1>2, HeadIs
<1>4. q[1].op = "insert" /\ q[1].op \in Pays
  BY <1>2, <1>3 DEF InsertHistory, Doing, It, Pays
<1>5. PayOf(q, x, w, t)
  BY <1>2, <1>3, <1>4, PayFacts
<1>6. 1 \in 1..Len(q) /\ 1 \in 1..Len(x) /\ ~Fresh(q) /\ ~Fresh(x) /\ w \in Side /\ t \in Tour
  <2>1. 1 \in 1..Len(q) /\ 1 \in 1..Len(x)
    BY <1>3, <1>5, EmptySeq DEF PayOf
  <2>2. ~Fresh(q)
    BY <1>4 DEF Fresh, Early
  <2>3. ~Fresh(x)
    BY <1>2, <1>3, <2>2, HeadFacts
  <2> QED BY <1>5, <2>1, <2>2, <2>3 DEF PayOf
<1>7. Statuses(q, r) /\ Tallied(q, r) /\ CacheKept(q) /\ (whole' => Honest(q))
  BY <1>1 DEF Course, Honest
<1>8. tour[t].status = "finished" /\ w = tour[t].winner /\ (r.voided <=> tour[t].voided) /\ There(t)
  <2>1. ~Loading(q, 1, 1)
    <3>1. \A k \in 1..1 : k = 1
      OBVIOUS
    <3> QED BY <1>4, <3>1 DEF Loading
  <2>2. tour[t].status = "finished" /\ w = tour[t].winner /\ (r.voided <=> tour[t].voided)
    BY <1>2, <1>4, <1>6, <1>7, <2>1 DEF Statuses
  <2> QED BY <2>2 DEF There
<1>9. w \in SidesOf(t) /\ w # NoSide /\ SidesOf(t) = {w, Loser(w, t)} /\ Loser(w, t) # w
  <2>1. w \in SidesOf(t) /\ w # NoSide
    BY <1>1, <1>6, <1>8, RatingAssumption DEF ToursOK
  <2> QED BY <1>6, <2>1, TwoSides
<1>10. PICK g, d, y :
         /\ g = Gain(r.rates[1], r.rates[2])
         /\ d = Change(t, r, h.s, g)
         /\ y = Row(h.s, t, d, r.rates[IF h.s = w THEN 1 ELSE 2], r.season, tour[t].at)
  OBVIOUS
<1>11. /\ history' = IF \E z \in history : z.tour = t /\ z.side = h.s THEN history ELSE history \cup {y}
       /\ Next1(p)
  BY <1>2, <1>3, <1>8, <1>10 DEF InsertHistory
<1>13. y.side = h.s /\ y.tour = t /\ y.delta = d /\ y.before = r.rates[IF h.s = w THEN 1 ELSE 2]
  BY <1>10 DEF Row
<1>21. r.doubled = tour[t].doubled /\ (r.pinned <=> tour[t].pinned) /\ SidesOf(t) \cap Guest = {}
  <2>1. r.doubled = tour[t].doubled /\ SidesOf(t) \cap Guest = {}
    BY <1>2, <1>4, <1>6, <1>7 DEF Statuses
  <2>2. r.pinned <=> tour[t].pinned
    BY <1>2, <1>3, <1>4 DEF Course, Heads
  <2> QED BY <2>1, <2>2
<1>22. \A s : Change(t, r, s, g) = Change(t, tour[t], s, g)
  <2>1. TAKE s
  <2>2. r.winner = tour[t].winner
    BY <1>2, <1>8
  <2> QED BY <1>8, <1>21, <2>2, SameChange
<1>14. h.s \in SidesOf(t) /\ (h.s = w \/ h.s = Loser(w, t))
  BY <1>3, <1>4, <1>5, <1>9 DEF PayOf, St
<1>15. OfMatch(t)' = (IF \E z \in OfMatch(t) : z.side = h.s THEN OfMatch(t) ELSE OfMatch(t) \cup {y})
       /\ \A u : u # t => OfMatch(u)' = OfMatch(u)
  BY <1>11, <1>13 DEF OfMatch
<1>16. Statuses(x, r)'
  <2>1. \A u \in Tour : /\ tour'[u].status = tour[u].status
                        /\ tour[u].status = "finished" => tour'[u].winner = tour[u].winner
                                                        /\ (tour'[u].voided <=> tour[u].voided)
    BY <1>1
  <2>2. q[1].op # "load" /\ tour' = tour
    BY <1>1, <1>4
  <2> QED BY <1>2, <1>3, <1>7, <2>1, <2>2, TailStatuses
<1>17. Heads(x, r)'
  <2>1. CASE h.s = w
    <3>1. x[1] = St("insert", t, Loser(w, t))
      BY <1>3, <1>4, <1>5, <1>9, <2>1 DEF PayOf, St
    <3>2. x[1].op = "insert" /\ x[1].t = t
      BY <3>1 DEF St
    <3>3. r.pinned <=> tour'[t].pinned
      BY <1>1, <1>21
    <3> QED BY <3>2, <3>3 DEF Heads
  <2>2. CASE h.s # w
    <3>1. x[1].op = "sum"
      BY <1>3, <1>4, <1>5, <1>9, <2>2 DEF PayOf, St
    <3> QED BY <3>1 DEF Heads
  <2> QED BY <2>1, <2>2
<1>18. CacheKept(x)'
  <2>1. ASSUME NEW s \in Side, Good(s), ~Excused(x, s) PROVE Good(s)'
    <3>1. s # h.s
      BY <1>5, <1>6, <1>14, <2>1 DEF Excused, PayOf
    <3>2. RowsOf(history', s, active) = RowsOf(history, s, active)
      BY <1>11, <1>13, <3>1 DEF RowsOf
    <3> QED BY <1>1, <2>1, <3>2, SideAlone
  <2>2. q[1].op \notin {"truncate", "list", "clear", "fill", "teams"} /\ load' = load
    BY <1>1, <1>4
  <2>3. \A s \in Side : (Good(s) \/ (q[1].op = "write" /\ q[1].s = s)) /\ ~Excused(x, s) => Good(s)'
    BY <1>4, <2>1
  <2> QED BY <1>2, <1>3, <1>7, <2>2, <2>3, TailCache
<1>19. Tallied(x, r)'
  <2>1. Honest(x)' => Honest(q)
    BY <1>1, <1>2, <1>3, TailFacts DEF Honest
  <2>2. SUFFICES ASSUME Honest(q), NEW u \in Tour, ~Due(x, u) PROVE Tally(x, r, u)'
    BY <2>1 DEF Tallied, Due, Fresh, Has, With
  <2>3. ~Due(q, u)
    BY <1>2, <1>3, <1>4, <2>2, DueTail
  <2>4. Tally(q, r, u)
    BY <1>7, <2>2, <2>3 DEF Tallied
  <2>5. With(x, {"award", "unwin"}, u) <=> With(q, {"award", "unwin"}, u)
    BY <1>2, <1>3, <1>4, WithTail
  <2>6. CASE u # t
    <3>1. ~With(q, {"rate"}, u) /\ ~With(q, {"insert"}, u)
      BY <1>5, <2>6 DEF PayOf, With, Pays
    <3>2. \A ops : With(x, ops, u) => With(q, ops, u)
      BY <1>2, <1>3, TailFacts
    <3>3. ~With(x, {"rate"}, u) /\ ~With(x, {"insert"}, u)
      BY <3>1, <3>2
    <3>4. Tally(x, r, u)' <=> IF With(x, {"award", "unwin"}, u) THEN OfMatch(u)' = {} ELSE Counts(u)'
      BY <3>3 DEF Tally, With
    <3>5. OfMatch(u)' = OfMatch(u) /\ (Counts(u)' <=> Counts(u))
      <4>1. OfMatch(u)' = OfMatch(u) /\ tour'[u] = tour[u]
        BY <1>1, <1>15, <2>6
      <4> QED BY <4>1, CountsAre
    <3> QED BY <2>4, <2>5, <3>1, <3>4, <3>5 DEF Tally
  <2>8. \A ops, z : With(x, ops, z) => With(q, ops, z)
    BY <1>2, <1>3, TailFacts
  <2>7. CASE u = t
    <3>1. With(q, {"insert"}, t)
      BY <1>2, <1>4, <1>6 DEF With
    <3>2. ~With(q, {"rate"}, t)
      BY <1>4, <1>5 DEF PayOf, St
    <3>3. Tally(q, r, t) <=> IF q[1].s = w THEN OfMatch(t) = {}
                             ELSE \E z : /\ OfMatch(t) = {z} /\ z.side = w
                                         /\ z.delta = Change(t, r, w, g) /\ z.before = r.rates[1]
      BY <1>2, <1>10, <3>1, <3>2 DEF Tally
    <3>4. CASE h.s = w
      <4>1. OfMatch(t) = {}
        BY <1>3, <2>4, <2>7, <3>3, <3>4
      <4>2. /\ OfMatch(t)' = {y} /\ y.side = w
            /\ y.delta = Change(t, r, w, g) /\ y.before = r.rates[1]
        BY <1>10, <1>13, <1>15, <3>4, <4>1
      <4>3. x[1] = St("insert", t, Loser(w, t))
        BY <1>3, <1>4, <1>5, <1>9, <3>4 DEF PayOf, St
      <4>4. x[1].op = "insert" /\ x[1].t = t /\ x[1].s # w
        BY <1>9, <4>3 DEF St
      <4>5. With(x, {"insert"}, t)
        BY <1>6, <4>4 DEF With
      <4>6. ~With(x, {"rate"}, t)
        BY <2>8, <3>2
      <4>7. \E z : /\ OfMatch(t)' = {z} /\ z.side = r.winner
                  /\ z.delta = Change(t, r, r.winner, Gain(r.rates[1], r.rates[2]))
                  /\ z.before = r.rates[1]
        BY <1>2, <1>10, <4>2
      <4> QED BY <1>2, <2>7, <4>4, <4>5, <4>6, <4>7 DEF Tally, With
    <3>5. CASE h.s # w
      <4>1. PICK z : /\ OfMatch(t) = {z} /\ z.side = w
                     /\ z.delta = Change(t, r, w, g) /\ z.before = r.rates[1]
        BY <1>3, <2>4, <2>7, <3>3, <3>5
      <4>2. OfMatch(t)' = {z, y}
        BY <1>15, <3>5, <4>1
      <4>3. /\ y.side = Loser(w, t) /\ y.delta = Change(t, r, Loser(w, t), g)
            /\ y.before = r.rates[2]
        BY <1>10, <1>13, <1>14, <3>5
      <4>9. g = Gain(z.before, y.before)
        BY <1>10, <4>1, <4>3
      <4>10. /\ z.delta = Change(t, tour[t], w, Gain(z.before, y.before))
             /\ y.delta = Change(t, tour[t], Loser(w, t), Gain(z.before, y.before))
        BY <1>22, <4>1, <4>3, <4>9
      <4>4. Entitled({z, y}, tour[t], t)
        BY <1>6, <1>8, <1>9, <1>21, <4>1, <4>3, <4>10, TwoRows
      <4>5. Counts(t)'
        BY <1>1, <4>2, <4>4, CountsAre
      <4>6. ~With(x, {"rate"}, t) /\ ~With(x, {"insert"}, t)
        BY <1>3, <1>4, <1>5, <1>9, <3>5 DEF PayOf, St
      <4>7. ~With(x, {"award", "unwin"}, t)
        <5>1. SUFFICES ASSUME With(q, {"award", "unwin"}, t) PROVE FALSE
          BY <2>5, <2>7
        <5>2. PICK i \in 1..Len(q) : q[i].op \in {"award", "unwin"} /\ q[i].t = t
          BY <5>1 DEF With
        <5>3. InCourse(q[i]) /\ Loading(q, 1, i)
          BY <1>5, <5>2 DEF PayOf, InCourse
        <5>4. With(q, {"load"}, t)
          BY <1>3, <5>2, <5>3, LoadBefore DEF Listed
        <5>5. With(q, {"load", "rows", "wipe"}, t)
          BY <5>4 DEF With
        <5> QED BY <1>6, <2>3, <2>7, <5>5 DEF Due
      <4>8. Tally(x, r, t)' <=> Counts(t)'
        BY <4>6, <4>7 DEF Tally, With
      <4> QED BY <2>7, <4>5, <4>8
    <3> QED BY <3>4, <3>5
  <2> QED BY <2>6, <2>7
<1>20. GoOn(p, x, r)
  BY <1>3, <1>11 DEF Next1
<1> QED BY <1>3, <1>16, <1>17, <1>18, <1>19, <1>20, GoKept DEF Course

\* A recomputation has every match before it and nothing of what came before.
LEMMA ListKept ==
  ASSUME Typed, NEW p \in Request, NEW q, q = req[p].todo, NEW r, r = req[p], Course(q, r),
         ListEvents(p)
  PROVE  Kept(p)
<1>1. /\ RequestsOK /\ ~Idle(p)
      /\ UNCHANGED <<tour, history, active, start, cache, whole, load>>
  BY DEF Typed, tables, ListEvents, Doing
<1>2. PICK x, T : x = Counting(InOrder) /\ T = ToursOf(InOrder)
  OBVIOUS
<1>3. r \in Req /\ q # <<>> /\ It(p) = q[1] /\ GoOn(p, x, r)
  BY <1>1, <1>2, HeadIs DEF ListEvents
<1>4. history = {}
  <2>1. q[1].op = "list"
    BY <1>3 DEF ListEvents, Doing
  <2> QED BY <1>3, <2>1 DEF Course, Heads
<1>5. T = {t \in Tour : tour[t].status = "finished"} /\ InOrder \in Seq(Countable)
  BY <1>2, InOrderIs
<1>6. PICK list : list = InOrder
  OBVIOUS
<1>7. PICK n \in Nat :
        /\ x \in Seq(Statement) /\ Len(x) = n + 4 /\ Counts4(x, n)
        /\ \A k \in 1..n : InBlock(x, k, n, T)
        /\ \A i \in 1..Len(list) : list[i].t \in Tour =>
             \E k \in 1..n : x[k].op = "load" /\ x[k].t = list[i].t
  <2>1. list \in Seq(UNION {[at : Nat, t : Tour, s : {NoSide}, season : Seasons], Event})
    BY <1>5, <1>6 DEF Countable
  <2>2. x = Counting(list) /\ T = {list[i].t : i \in 1..Len(list)} \cap Tour
    BY <1>2, <1>6 DEF ToursOf
  <2> QED BY <2>1, <2>2, CountingIs
<1>8. ASSUME NEW k \in 1..n
      PROVE  \/ x[k].op = "again"
             \/ /\ x[k].t \in T /\ x[k].op \in {"load", "rows", "wipe", "award"}
                /\ k = 1 => x[k].op = "load"
                /\ x[k].op = "award" => Loading(x, 1, k)
  <2>1. CASE x[k].op = "again"
    BY <2>1
  <2>2. CASE x[k].op # "again"
    <3>1. PICK o \in Nat, t \in T :
            /\ o < k /\ k <= o + 4 /\ o + 4 <= n
            /\ x[o+1] = St("load", t, NoSide) /\ x[o+2] = St("rows", t, NoSide)
            /\ x[o+3] = St("wipe", t, NoSide) /\ x[o+4] = St("award", t, NoSide)
      BY <1>7, <2>2 DEF InBlock
    <3>2. k = o + 1 \/ k = o + 2 \/ k = o + 3 \/ k = o + 4
      BY <3>1
    <3>3. x[k].t = t /\ x[k].op \in {"load", "rows", "wipe", "award"}
      BY <3>1, <3>2 DEF St
    <3>4. k = 1 => x[k].op = "load"
      <4>1. k = 1 => k = o + 1
        BY <3>1
      <4> QED BY <3>1, <4>1 DEF St
    <3>5. Loading(x, 1, k)
      <4>1. o + 1 \in 1..k /\ x[o+1].op = "load"
        BY <3>1 DEF St
      <4> QED BY <4>1 DEF Loading
    <3> QED BY <3>3, <3>4, <3>5
  <2> QED BY <2>1, <2>2
<1>9. ASSUME NEW k \in 1..n+4, k \notin 1..n PROVE x[k].op \in {"clear", "fill", "teams", "patches"}
  <2>1. k = n + 1 \/ k = n + 2 \/ k = n + 3 \/ k = n + 4
    BY <1>9
  <2> QED BY <1>7, <2>1 DEF Counts4
<1>10. ASSUME NEW k \in 1..n+4
       PROVE  /\ x[k].op \notin Pays \cup {"top", "unwin", "truncate", "list"}
              /\ x[k].op \in {"load", "award"} => x[k].t \in T
              /\ x[k].op = "award" => Loading(x, 1, k)
  <2>1. CASE k \in 1..n
    BY <1>8, <2>1 DEF Pays
  <2>2. CASE k \notin 1..n
    BY <1>9, <2>2 DEF Pays
  <2> QED BY <2>1, <2>2
<1>11. x # <<>> /\ x[1].op \in {"again", "load", "clear"}
  <2>1. CASE n = 0
    <3>1. n + 1 = 1
      BY <2>1
    <3>2. x[1].op = "clear"
      BY <1>7, <3>1 DEF Counts4
    <3> QED BY <1>7, <3>2
  <2>2. CASE n # 0
    <3>1. 1 \in 1..n
      BY <2>2
    <3>2. x[1].op \in {"again", "load"}
      BY <1>8, <3>1
    <3> QED BY <1>7, <3>2
  <2> QED BY <2>1, <2>2
<1>12. ~Fresh(x) /\ Has(x, {"clear"})
  <2>1. n + 1 \in 1..n+4
    OBVIOUS
  <2>2. x[n+1].op = "clear"
    BY <1>7 DEF Counts4
  <2> QED BY <1>7, <1>11, <2>1, <2>2 DEF Fresh, Early, Has
<1>13. Statuses(x, r)'
  <2>1. \A k \in 1..Len(x) :
          /\ x[k].op \in {"load", "award", "top"} \cup Pays => tour'[x[k].t].status = "finished"
          /\ x[k].op = "unwin" => tour'[x[k].t].status # "finished"
          /\ x[k].op \in {"award"} \cup Pays /\ ~Loading(x, 1, k)
               => r.winner = tour'[x[k].t].winner /\ (r.voided <=> tour'[x[k].t].voided)
          /\ x[k].op \in Pays => r.doubled = tour'[x[k].t].doubled /\ SidesOf(x[k].t) \cap Guest = {}
    BY <1>1, <1>5, <1>7, <1>10
  <2> QED BY <2>1 DEF Statuses
<1>14. Heads(x, r)'
  BY <1>11 DEF Heads
<1>15. CacheKept(x)'
  <2>1. Renews(x)
    BY <1>12 DEF Renews, Has
  <2> QED BY <2>1 DEF CacheKept, Renews, Fresh, Has
<1>16. Tallied(x, r)'
  <2>1. SUFFICES ASSUME NEW u \in Tour, ~Due(x, u) PROVE Tally(x, r, u)'
    BY DEF Tallied, Due, Fresh, Has, With
  <2>2. OfMatch(u)' = {}
    BY <1>1, <1>4 DEF OfMatch
  <2>3. u \notin T
    <3>1. SUFFICES ASSUME u \in T PROVE FALSE
      OBVIOUS
    <3>2. PICK i \in 1..Len(list) : list[i].t = u
      BY <1>2, <1>6, <3>1 DEF ToursOf
    <3>3. PICK k \in 1..n : x[k].op = "load" /\ x[k].t = u
      BY <1>7, <3>2
    <3>4. With(x, {"load", "rows", "wipe"}, u)
      BY <1>7, <3>3 DEF With
    <3> QED BY <1>12, <2>1, <3>4 DEF Due
  <2>4. tour'[u].status # "finished"
    BY <1>1, <1>5, <2>3
  <2>5. Counts(u)'
    <3>1. Entitled(OfMatch(u)', tour'[u], u)
      BY <2>2, <2>4 DEF Entitled
    <3> QED BY <3>1, CountsAre
  <2>6. ~With(x, {"insert"}, u)
    BY <1>7, <1>10 DEF With, Pays
  <2> QED BY <2>2, <2>5, <2>6 DEF Tally, With
<1> QED BY <1>3, <1>7, <1>13, <1>14, <1>15, <1>16, GoKept DEF Course

-------------------------------------------------------------------------------
(* What any request does while no other is served.                         *)

LEMMA ProceedsKept ==
  ASSUME Typed, NEW p \in Request, NEW q, q = req[p].todo, NEW r, r = req[p], Course(q, r),
         Proceeds(p)
  PROVE  Kept(p)
<1>1. CASE MatchGuard(p) \/ MatchFinished(p) \/ OldStatus(p) \/ ReadRule(p)
  BY <1>1, GuardKept
<1>2. CASE ReadSum(p) \/ SyncPatches(p)
  BY <1>2, SumKept
<1>3. CASE FinishMatch(p) \/ SetTournamentWinner(p) \/ RescoreFinishedMatch(p)
           \/ SetMatchVoided(p) \/ UpdateStatus(p) \/ DeleteTournament(p)
  BY <1>3, EndsKept
<1>4. CASE SetWinnerTop(p) \/ LoadTournament(p)
  BY <1>4, TopKept
<1>5. CASE ClearCache(p) \/ FillCache(p) \/ FillTeams(p) \/ TruncateAll(p)
  BY <1>5, FillKept
<1>6. CASE StartNewSeason(p) \/ UpdateSeason(p)
  BY <1>6, SeasonKept
<1>7. CASE ClearWinner(p) \/ WriteCache(p) \/ ApplyReset(p) \/ ResetRating(p)
  BY <1>7, UnwinKept, WriteKept, AgainKept, ResetKept
<1>8. CASE WipeRows(p) \/ SelectRows(p) \/ Award(p) \/ ReadRate(p)
  BY <1>8, WipeKept, RowsKept, AwardKept, RateKept
<1>9. CASE InsertHistory(p) \/ ListEvents(p) \/ ClearPins(p)
  BY <1>9, InsertKept, ListKept, PinsKept
<1> QED BY <1>1, <1>2, <1>3, <1>4, <1>5, <1>6, <1>7, <1>8, <1>9 DEF Proceeds

\* The lists a request begins with.
Opens(x) ==
  /\ Listed(x, NoSide) /\ x # <<>>
  /\ \/ x = All
     \/ /\ x[1].op \in Early \ {"rescore", "void", "finished", "upcoming"}
        /\ ~Has(x, {"top", "patches"})

LEMMA OpenCourse ==
  ASSUME NEW x, Opens(x), NEW v, UNCHANGED <<tour, history, cache, active, start, whole, load>>,
         whole => \A t \in Tour : Counts(t),
         whole /\ "delete" \notin load.kinds => \A s \in Side : Good(s)
  PROVE  Course(x, v)'
<1>1. CASE x = All
  BY <1>1, AllCourse
<1>2. CASE /\ x[1].op \in Early \ {"rescore", "void", "finished", "upcoming"}
           /\ ~Has(x, {"top", "patches"})
  <2>1. Fresh(x) /\ Listed(x, NoSide) /\ x # <<>>
    BY <1>2 DEF Opens, Fresh
  <2>2. PICK y : y = Tail(x)
    OBVIOUS
  <2>3. /\ ~Has(x, {"award", "unwin", "load", "rows", "wipe", "again"} \cup Pays)
        /\ \A t : ~With(x, {"award", "unwin"}, t) /\ ~With(x, {"rate"}, t) /\ ~With(x, {"insert"}, t)
    BY <2>1, <2>2, HeadFacts
  <2>4. Statuses(x, v)'
    BY <1>2, <2>3 DEF Statuses, Has
  <2>5. Heads(x, v)'
    BY <1>2 DEF Heads, Early
  <2>6. Honest(x)' => whole
    BY <1>2 DEF Honest, Has
  <2>7. \A t : Tally(x, v, t)' <=> Counts(t)'
    BY <2>3 DEF Tally, With
  <2>8. \A t \in Tour : Counts(t) => Counts(t)'
    <3>1. \A t : OfMatch(t)' = OfMatch(t)
      BY DEF OfMatch
    <3> QED BY <3>1, CountsAre
  <2>9. Tallied(x, v)'
    BY <2>6, <2>7, <2>8 DEF Tallied
  <2>10. CacheKept(x)'
    <3>1. \A s : Good(s)' <=> Good(s)
      BY AllAlone
    <3> QED BY <2>6, <3>1 DEF CacheKept
  <2> QED BY <2>4, <2>5, <2>9, <2>10 DEF Course
<1> QED BY <1>1, <1>2 DEF Opens

LEMMA StartOpens ==
  ASSUME NEW t \in Tour
  PROVE  /\ Opens(<<St("guard", t, NoSide), St("close", t, NoSide)>>)
         /\ Opens(<<St("ended", t, NoSide), St("rescore", t, NoSide)>>)
         /\ Opens(<<St("ended", t, NoSide), St("void", t, NoSide)>>)
         /\ "delete" \in load.kinds => Opens(<<St("delete", t, NoSide)>>)
         /\ \A to \in {"finished", "upcoming"} : Opens(<<St("old", t, NoSide), St(to, t, NoSide)>>)
         /\ \A s \in SidesOf(t) : Opens(<<St("named", t, s)>>)
<1>1. ASSUME NEW a, NEW b, NEW s, a \in {"guard", "ended", "old"}, b \in Early,
             Listed(<<St(a, t, NoSide), St(b, t, s)>>, NoSide)
      PROVE  Opens(<<St(a, t, NoSide), St(b, t, s)>>)
  <2>1. PICK x : x = <<St(a, t, NoSide), St(b, t, s)>>
    OBVIOUS
  <2>2. Len(x) = 2 /\ x[1].op = a /\ x[2].op = b /\ x # <<>>
    BY <2>1 DEF St
  <2>3. \A i \in 1..2 : i = 1 \/ i = 2
    OBVIOUS
  <2>4. x[1].op \in Early \ {"rescore", "void", "finished", "upcoming"} /\ ~Has(x, {"top", "patches"})
    BY <1>1, <2>2, <2>3 DEF Has, Early
  <2> QED BY <1>1, <2>1, <2>2, <2>4 DEF Opens
<1>2. ASSUME NEW a, NEW s, a \in {"delete", "named"}, Listed(<<St(a, t, s)>>, NoSide)
      PROVE  Opens(<<St(a, t, s)>>)
  <2>1. PICK x : x = <<St(a, t, s)>>
    OBVIOUS
  <2>2. Len(x) = 1 /\ x[1].op = a /\ x # <<>>
    BY <2>1 DEF St
  <2>3. x[1].op \in Early \ {"rescore", "void", "finished", "upcoming"} /\ ~Has(x, {"top", "patches"})
    BY <1>2, <2>2 DEF Has, Early
  <2> QED BY <1>2, <2>1, <2>2, <2>3 DEF Opens
<1>3. {"close", "rescore", "void", "finished", "upcoming"} \subseteq Early
  BY DEF Early
<1>4. Opens(<<St("guard", t, NoSide), St("close", t, NoSide)>>)
  <2>1. Listed(<<St("guard", t, NoSide), St("close", t, NoSide)>>, NoSide)
    BY Start
  <2> QED BY <1>1, <1>3, <2>1
<1>5. ASSUME NEW b \in {"rescore", "void"} PROVE Opens(<<St("ended", t, NoSide), St(b, t, NoSide)>>)
  <2>1. Listed(<<St("ended", t, NoSide), St(b, t, NoSide)>>, NoSide)
    BY Start
  <2> QED BY <1>1, <1>3, <2>1
<1>6. ASSUME "delete" \in load.kinds PROVE Opens(<<St("delete", t, NoSide)>>)
  <2>1. Listed(<<St("delete", t, NoSide)>>, NoSide)
    BY <1>6, Start
  <2> QED BY <1>2, <2>1
<1>7. ASSUME NEW to \in {"finished", "upcoming"}
      PROVE  Opens(<<St("old", t, NoSide), St(to, t, NoSide)>>)
  <2>1. Listed(<<St("old", t, NoSide), St(to, t, NoSide)>>, NoSide) /\ to \in Early
    BY <1>3, Start
  <2> QED BY <1>1, <2>1
<1>8. ASSUME NEW s \in SidesOf(t) PROVE Opens(<<St("named", t, s)>>)
  <2>1. Listed(<<St("named", t, s)>>, NoSide)
    BY Start
  <2> QED BY <1>2, <2>1
<1> QED BY <1>4, <1>5, <1>6, <1>7, <1>8

LEMMA StartAllOpens ==
  /\ Opens(All)
  /\ Opens(<<St("begin", NoTour, NoSide)>> \o Refresh)
  /\ Opens(<<St("rules", NoTour, NoSide)>> \o All)
  /\ \A s \in Player : Opens(<<St("rule", NoTour, s), St("reset", NoTour, s)>> \o Cached(s))
<1>1. Opens(All)
  <2>1. All # <<>>
    BY DEF All
  <2> QED BY <2>1, StartAll DEF Opens
<1>2. Opens(<<St("begin", NoTour, NoSide)>> \o Refresh)
  <2>1. PICK x : x = <<St("begin", NoTour, NoSide)>> \o Refresh
    OBVIOUS
  <2>2. Len(x) = 4 /\ x[1].op = "begin" /\ x[2].op = "clear" /\ x[3].op = "fill" /\ x[4].op = "teams" /\ x # <<>>
    BY <2>1 DEF St, Refresh
  <2>3. \A i \in 1..4 : i = 1 \/ i = 2 \/ i = 3 \/ i = 4
    OBVIOUS
  <2>4. x[1].op \in Early \ {"rescore", "void", "finished", "upcoming"} /\ ~Has(x, {"top", "patches"})
    BY <2>2, <2>3 DEF Has, Early
  <2> QED BY <2>1, <2>2, <2>4, StartAll DEF Opens
<1>3. Opens(<<St("rules", NoTour, NoSide)>> \o All)
  <2>1. PICK x : x = <<St("rules", NoTour, NoSide)>> \o All
    OBVIOUS
  <2>2. Len(x) = 3 /\ x[1].op = "rules" /\ x[2].op = "truncate" /\ x[3].op = "list" /\ x # <<>>
    BY <2>1 DEF St, All
  <2>3. \A i \in 1..3 : i = 1 \/ i = 2 \/ i = 3
    OBVIOUS
  <2>4. x[1].op \in Early \ {"rescore", "void", "finished", "upcoming"} /\ ~Has(x, {"top", "patches"})
    BY <2>2, <2>3 DEF Has, Early
  <2> QED BY <2>1, <2>2, <2>4, StartAll DEF Opens
<1>4. ASSUME NEW s \in Player
      PROVE  Opens(<<St("rule", NoTour, s), St("reset", NoTour, s)>> \o Cached(s))
  <2>1. PICK x : x = <<St("rule", NoTour, s), St("reset", NoTour, s)>> \o Cached(s)
    OBVIOUS
  <2>2. Len(x) = 4 /\ x[1].op = "rule" /\ x[2].op = "reset" /\ x[3].op = "sum" /\ x[4].op = "write" /\ x # <<>>
    BY <2>1 DEF St, Cached
  <2>3. \A i \in 1..4 : i = 1 \/ i = 2 \/ i = 3 \/ i = 4
    OBVIOUS
  <2>4. x[1].op \in Early \ {"rescore", "void", "finished", "upcoming"} /\ ~Has(x, {"top", "patches"})
    BY <2>2, <2>3 DEF Has, Early
  <2> QED BY <2>1, <2>2, <2>4, StartAll DEF Opens
<1> QED BY <1>1, <1>2, <1>3, <1>4

\* What comes is a request with one of these lists.
Comes(p) == \E x : Opens(x) /\ GoOn(p, x, Blank) /\ Idle(p) /\ Stay

LEMMA ArrivesComes ==
  ASSUME Typed, NEW p \in Request, Arrives(p)
  PROVE  Comes(p)
<1>1. load.tours \subseteq Tour
  BY RatingAssumption DEF Typed, TablesOK, ToursOK
<1>2. ASSUME NEW kind, NEW x, Accept(p, kind, x), Opens(x) PROVE Comes(p)
  BY <1>2 DEF Accept, Comes, Stay, tables
<1>3. ASSUME NEW t \in load.tours, HandleFinishMatch(p, t) \/ HandleRescore(p, t) \/ HandleVoidMatch(p, t)
             \/ HandleDeleteTournament(p, t)
             \/ (\E to \in {"finished", "upcoming"} : HandleUpdateTournament(p, t, to))
             \/ \E s \in SidesOf(t) : HandleSetWinner(p, t, s)
      PROVE  Comes(p)
  <2>1. t \in Tour
    BY <1>1
  <2>2. CASE HandleFinishMatch(p, t)
    BY <1>2, <2>1, <2>2, StartOpens DEF HandleFinishMatch
  <2>3. CASE HandleRescore(p, t)
    BY <1>2, <2>1, <2>3, StartOpens DEF HandleRescore
  <2>4. CASE HandleVoidMatch(p, t)
    BY <1>2, <2>1, <2>4, StartOpens DEF HandleVoidMatch
  <2>5. CASE HandleDeleteTournament(p, t)
    <3>1. "delete" \in load.kinds
      BY <2>5 DEF HandleDeleteTournament, Accept
    <3> QED BY <1>2, <2>1, <2>5, <3>1, StartOpens DEF HandleDeleteTournament
  <2>6. CASE \E to \in {"finished", "upcoming"} : HandleUpdateTournament(p, t, to)
    BY <1>2, <2>1, <2>6, StartOpens DEF HandleUpdateTournament
  <2>7. CASE \E s \in SidesOf(t) : HandleSetWinner(p, t, s)
    BY <1>2, <2>1, <2>7, StartOpens DEF HandleSetWinner
  <2> QED BY <1>3, <2>2, <2>3, <2>4, <2>5, <2>6, <2>7
<1>4. CASE HandleStartSeason(p)
  BY <1>2, <1>4, StartAllOpens DEF HandleStartSeason
<1>5. CASE HandleUpdateSeason(p)
  BY <1>2, <1>5, StartAllOpens DEF HandleUpdateSeason
<1>6. CASE RunPendingRecompute(p)
  BY <1>2, <1>6, StartAllOpens DEF RunPendingRecompute
<1>7. CASE \E s \in Player : HandleResetRating(p, s)
  BY <1>2, <1>7, StartAllOpens DEF HandleResetRating
<1> QED BY <1>3, <1>4, <1>5, <1>6, <1>7 DEF Arrives

\* A match that did not end yet has no rows, and no statement relies on what it is.
LEMMA PreparesCourse ==
  ASSUME Typed, NEW t \in load.tours, Prepares(t), NEW q, NEW w, Listed(q, w), NEW r, Course(q, r)
  PROVE  Course(q, r)'
<1>1. /\ t \in Tour /\ tour \in [Tour -> Match] /\ tour[t] \in Match
      /\ UNCHANGED <<active, start, history, cache, whole, load>>
  BY RatingAssumption DEF Typed, TablesOK, ToursOK, Prepares, CreateMatch, RescheduleShowMatch, StartShowMatch,
     SetDoubleToken
<1>2. /\ tour[t].status # "finished" /\ tour'[t].status # "finished" /\ There(t)'
      /\ \A u \in Tour : u # t => tour'[u] = tour[u]
  <2>1. CASE CreateMatch(t)
    <3>1. PICK status \in {"live", "upcoming"}, at \in Plans \cup {Now} :
            tour' = [tour EXCEPT ![t] = [status |-> status, winner |-> NoSide, voided |-> FALSE, season |-> active,
                                         at |-> at, doubled |-> {}, pinned |-> FALSE]]
      BY <2>1 DEF CreateMatch
    <3>2. tour[t].status = "none"
      BY <2>1 DEF CreateMatch
    <3>3. tour'[t].status = status
      BY <1>1, <3>1
    <3>4. \A u \in Tour : u # t => tour'[u] = tour[u]
      BY <1>1, <3>1
    <3> QED BY <3>2, <3>3, <3>4 DEF There
  <2>2. CASE RescheduleShowMatch(t)
    BY <1>1, <2>2 DEF RescheduleShowMatch, Match, There
  <2>3. CASE StartShowMatch(t)
    BY <1>1, <2>3 DEF StartShowMatch, Match, There
  <2>4. CASE \E s \in SidesOf(t) : SetDoubleToken(t, s)
    <3>1. PICK D : tour' = [tour EXCEPT ![t].doubled = D]
      BY <2>4 DEF SetDoubleToken
    <3>2. tour[t].status \in {"live", "upcoming"}
      BY <2>4 DEF SetDoubleToken
    <3> QED BY <1>1, <3>1, <3>2 DEF Match, There
  <2> QED BY <2>1, <2>2, <2>3, <2>4 DEF Prepares
<1>3. q \in Seq(Statement) /\ \A i \in 1..Len(q) : q[i] \in Statement
  BY ElementOfSeq DEF Listed
<1>4. \A i \in 1..Len(q) : q[i].op \in AboutMatch \cup Pays => q[i].t \in Tour
  BY <1>3, Fields
<1>5. Statuses(q, r) /\ Heads(q, r) /\ Tallied(q, r) /\ CacheKept(q)
  BY DEF Course
<1>6. \A s : Value(s)' = Value(s) /\ (Good(s)' <=> Good(s))
  BY <1>1, AllAlone
<1>7. \A u : OfMatch(u)' = OfMatch(u)
  BY <1>1 DEF OfMatch
<1>8. Statuses(q, r)'
  <2>1. SUFFICES ASSUME NEW i \in 1..Len(q)
        PROVE  /\ q[i].op \in {"load", "award", "top"} \cup Pays => tour'[q[i].t].status = "finished"
               /\ q[i].op = "unwin" => tour'[q[i].t].status # "finished"
               /\ q[i].op \in {"award"} \cup Pays /\ ~Loading(q, 1, i)
                    => r.winner = tour'[q[i].t].winner /\ (r.voided <=> tour'[q[i].t].voided)
               /\ q[i].op \in Pays => r.doubled = tour'[q[i].t].doubled /\ SidesOf(q[i].t) \cap Guest = {}
    BY DEF Statuses
  <2>2. /\ q[i].op \in {"load", "award", "top"} \cup Pays => tour[q[i].t].status = "finished"
        /\ q[i].op = "unwin" => tour[q[i].t].status # "finished"
        /\ q[i].op \in {"award"} \cup Pays /\ ~Loading(q, 1, i)
             => r.winner = tour[q[i].t].winner /\ (r.voided <=> tour[q[i].t].voided)
        /\ q[i].op \in Pays => r.doubled = tour[q[i].t].doubled /\ SidesOf(q[i].t) \cap Guest = {}
    BY <1>5 DEF Statuses
  <2>3. q[i].op \in {"load", "award", "top"} \cup Pays => q[i].t \in Tour /\ q[i].t # t
    BY <1>2, <1>4, <2>2 DEF AboutMatch
  <2>4. q[i].op \in {"load", "award", "top"} \cup Pays => tour'[q[i].t] = tour[q[i].t]
    BY <1>2, <2>3
  <2>5. q[i].op = "unwin" => tour'[q[i].t].status # "finished"
    <3>1. q[i].op = "unwin" => q[i].t \in Tour
      BY <1>4 DEF AboutMatch
    <3> QED BY <1>2, <2>2, <3>1
  <2> QED BY <2>2, <2>4, <2>5
<1>9. Heads(q, r)'
  <2>1. SUFFICES ASSUME q # <<>> PROVE Heads(q, r)'
    BY DEF Heads
  <2>2. PICK h : h = q[1]
    OBVIOUS
  <2>3. 1 \in 1..Len(q)
    BY <1>3, <2>1, EmptySeq
  <2>4. h.op \in {"rescore", "void", "finished", "upcoming", "insert"} => h.t \in Tour
    BY <1>4, <2>2, <2>3 DEF AboutMatch, Pays
  <2>5. h.op \in {"rescore", "void", "insert"} => tour[h.t].status = "finished"
    BY <1>5, <2>1, <2>2, <2>3 DEF Heads, Statuses, Pays
  <2>12. h.op \in {"rescore", "void", "insert"} => tour'[h.t] = tour[h.t]
    BY <1>2, <2>4, <2>5
  <2>6. h.op \in {"rescore", "void"} => /\ tour'[h.t].status = "finished"
                                        /\ r.winner = tour'[h.t].winner /\ (r.voided <=> tour'[h.t].voided)
    BY <1>5, <2>1, <2>2, <2>12 DEF Heads
  <2>11. h.op = "insert" => (r.pinned <=> tour'[h.t].pinned)
    BY <1>5, <2>1, <2>2, <2>12 DEF Heads
  <2>7. h.op \in {"finished", "upcoming"} => There(h.t)' /\ (r.voided <=> tour'[h.t].status = "finished")
    <3>1. SUFFICES ASSUME h.op \in {"finished", "upcoming"}
                   PROVE  There(h.t)' /\ (r.voided <=> tour'[h.t].status = "finished")
      OBVIOUS
    <3>2. There(h.t) /\ (r.voided <=> tour[h.t].status = "finished") /\ h.t \in Tour
      BY <1>5, <2>1, <2>2, <2>4, <3>1 DEF Heads
    <3>3. CASE h.t = t
      BY <1>2, <3>2, <3>3
    <3>4. CASE h.t # t
      <4>1. tour'[h.t] = tour[h.t]
        BY <1>2, <3>2, <3>4
      <4> QED BY <3>2, <4>1 DEF There
    <3> QED BY <3>3, <3>4
  <2>8. /\ h.op = "list" => history' = {}
        /\ h.op = "wipe" => \A s \in HadRows(h.t)' : Written(q, s)
    BY <1>1, <1>5, <2>1, <2>2 DEF Heads, HadRows
  <2>9. h.op = "write" => r.sum = Value(h.s)'
    BY <1>5, <1>6, <2>1, <2>2 DEF Heads
  <2>10. /\ h.op = "fill" => \A s \in Player : cache'[s] = NoRow
         /\ h.op = "teams" => \A s \in Player : Good(s)'
    BY <1>1, <1>5, <1>6, <2>1, <2>2 DEF Heads
  <2> QED BY <2>2, <2>6, <2>7, <2>8, <2>9, <2>10, <2>11 DEF Heads
<1>10. Tallied(q, r)'
  <2>1. SUFFICES ASSUME Honest(q), NEW u \in Tour, ~Due(q, u) PROVE Tally(q, r, u)'
    BY <1>1 DEF Tallied, Honest, Due, Fresh, Has, With
  <2>2. Tally(q, r, u)
    BY <1>5, <2>1 DEF Tallied
  <2>3. Counts(u) => Counts(u)'
    <3>1. u # t => tour'[u] = tour[u]
      BY <1>2
    <3>2. CASE u # t
      BY <1>7, <3>1, <3>2, CountsAre
    <3>3. CASE u = t
      BY <1>1, <1>2, <1>7, <3>3, CountsAre DEF Entitled
    <3> QED BY <3>2, <3>3
  <2> QED BY <1>7, <2>2, <2>3 DEF Tally, With
<1>11. CacheKept(q)'
  BY <1>1, <1>5, <1>6 DEF CacheKept, Honest, Renews, Filling, Excused, Fresh, Has, Written
<1> QED BY <1>8, <1>9, <1>10, <1>11 DEF Course

\* The course of a request depends on what it has read and not on the rest of it.
LEMMA SameCourse ==
  ASSUME NEW x, NEW v, NEW u, u.winner = v.winner, u.voided <=> v.voided, u.rates = v.rates,
         u.sum = v.sum, u.doubled = v.doubled, u.pinned = v.pinned, Course(x, v)'
  PROVE  Course(x, u)'
<1>1. Statuses(x, v)' /\ Heads(x, v)' /\ Tallied(x, v)' /\ CacheKept(x)'
  BY DEF Course
<1>2. Statuses(x, u)'
  BY <1>1 DEF Statuses
<1>3. Heads(x, u)'
  BY <1>1 DEF Heads
<1>4. Tallied(x, u)'
  <2>0. \A t, s, g : Change(t, u, s, g) = Change(t, v, s, g)
    BY SameChange
  <2>1. \A t : Tally(x, v, t)' => Tally(x, u, t)'
    BY <2>0 DEF Tally, With
  <2> QED BY <1>1, <2>1 DEF Tallied
<1> QED BY <1>1, <1>2, <1>3, <1>4 DEF Course

-------------------------------------------------------------------------------
(* The requests, one after the other.                                      *)

LEMMA InitSound == Init => Sound
<1> SUFFICES ASSUME Init PROVE Sound
  OBVIOUS
<1>1. \A p \in Request : req[p].todo = <<>>
  BY DEF Init, Blank
<1>2. load \in Loads /\ load.dirty \in BOOLEAN /\ (whole <=> ~load.dirty)
  BY RatingAssumption DEF Init
<1>3. ASSUME whole PROVE (\A t \in Tour : Counts(t)) /\ \A s \in Side : Good(s)
  <2>1. /\ tour = [t \in Tour |-> NoMatchYet] /\ history = {} /\ cache = [s \in Side |-> NoRow]
    BY <1>2, <1>3 DEF Init
  <2>2. \A t \in Tour : tour[t].status = "none" /\ OfMatch(t) = {}
    BY <2>1 DEF NoMatchYet, OfMatch
  <2>3. \A t \in Tour : Counts(t)
    BY <2>2, CountsAre DEF Entitled
  <2>4. \A s \in Side : cache[s] = NoRow /\ ~Played(s, active)
    BY <2>1 DEF Played, RowsOf
  <2> QED BY <2>3, <2>4 DEF Good, Value
<1>4. \A r : Course(<<>>, r)
  BY <1>3, NilCourse
<1> QED BY <1>1, <1>4 DEF Sound

\* When nothing is under way the rows and the cache are as they should be, whoever asks.
LEMMA IdleSound ==
  ASSUME \A p \in Request : Idle(p), NEW r, Course(<<>>, r)
  PROVE  Sound
<1>1. \A u : Course(<<>>, u)
  BY NilCourse
<1>2. \A p \in Request : req[p].todo = <<>>
  BY DEF Idle
<1> QED BY <1>1, <1>2 DEF Sound

LEMMA IdleSoundNext ==
  ASSUME \A p \in Request : Idle(p)', NEW r, Course(<<>>, r)'
  PROVE  Sound'
<1>1. \A u : Course(<<>>, u)'
  BY NilCourseNext
<1>2. \A p \in Request : req'[p].todo = <<>>
  BY DEF Idle
<1> QED BY <1>1, <1>2 DEF Sound

\* One request is served and goes on.
LEMMA GoSound ==
  ASSUME Typed, NEW p \in Request, \A o \in Request : o # p => Idle(o), NEW x, NEW v \in Req,
         GoOn(p, x, v), Course(x, v)'
  PROVE  Sound'
<1>1. PICK u : u = [v EXCEPT !.todo = x]
  OBVIOUS
<1>2. /\ u.todo = x /\ u.winner = v.winner /\ u.voided = v.voided /\ u.rates = v.rates /\ u.sum = v.sum
      /\ u.doubled = v.doubled /\ u.pinned = v.pinned
  BY <1>1 DEF Req
<1>3. req'[p] = u /\ \A o \in Request : o # p => req'[o] = req[o]
  BY <1>1 DEF GoOn, Typed, RequestsOK
<1>4. Course(x, u)'
  BY <1>2, SameCourse
<1>5. \A o \in Request : o # p => Idle(o)'
  BY <1>3 DEF Idle
<1>6. CASE x = <<>>
  <2>1. Idle(p)'
    BY <1>2, <1>3, <1>6 DEF Idle
  <2> QED BY <1>4, <1>5, <1>6, <2>1, IdleSoundNext
<1>7. CASE x # <<>>
  <2>1. ~Idle(p)'
    BY <1>2, <1>3, <1>7 DEF Idle
  <2> QED BY <1>2, <1>3, <1>4, <2>1 DEF Sound
<1> QED BY <1>6, <1>7

LEMMA StopSound ==
  ASSUME Typed, NEW p \in Request, \A o \in Request : o # p => Idle(o), Stop(p), NEW r, Course(<<>>, r)'
  PROVE  Sound'
<1>1. req'[p] = Blank /\ \A o \in Request : o # p => req'[o] = req[o]
  BY DEF Stop, Typed, RequestsOK
<1>2. \A o \in Request : Idle(o)'
  BY <1>1 DEF Idle, Blank
<1> QED BY <1>2, IdleSoundNext

LEMMA StayCourse ==
  ASSUME UNCHANGED <<tour, history, cache, active, start, whole, load>>, NEW q, NEW r, Course(q, r)
  PROVE  Course(q, r)'
<1>1. Statuses(q, r) /\ Heads(q, r) /\ Tallied(q, r) /\ CacheKept(q)
  BY DEF Course
<1>2. \A s : Value(s)' = Value(s) /\ (Good(s)' <=> Good(s))
  BY AllAlone
<1>3. \A t : OfMatch(t)' = OfMatch(t)
  BY DEF OfMatch
<1>4. Statuses(q, r)'
  BY <1>1 DEF Statuses
<1>5. Heads(q, r)'
  BY <1>1, <1>2 DEF Heads, There, HadRows
<1>6. Tallied(q, r)'
  <2>1. \A t : Tally(q, r, t) => Tally(q, r, t)'
    BY <1>3, CountsAre DEF Tally
  <2> QED BY <1>1, <2>1 DEF Tallied, Honest, Due
<1>7. CacheKept(q)'
  BY <1>1, <1>2 DEF CacheKept, Honest, Renews, Filling, Excused, Fresh, Has, Written
<1> QED BY <1>4, <1>5, <1>6, <1>7 DEF Course

LEMMA SoundStep == Typed /\ Sound /\ OneServed /\ OneServed' /\ [Next]_vars => Sound'
<1> SUFFICES ASSUME Typed, Sound, OneServed, OneServed', [Next]_vars PROVE Sound'
  OBVIOUS
<1>1. CASE UNCHANGED vars
  <2>1. UNCHANGED <<tour, history, cache, active, start, whole, load, req>>
    BY <1>1 DEF vars, tables
  <2>2. \A q, r : Course(q, r) => Course(q, r)'
    BY <2>1, StayCourse
  <2> QED BY <2>1, <2>2 DEF Sound, Idle
<1>2. ASSUME NEW t \in load.tours, Prepares(t) PROVE Sound'
  <2>1. req' = req /\ RequestsOK
    BY <1>2 DEF Prepares, CreateMatch, RescheduleShowMatch, StartShowMatch, SetDoubleToken, Typed
  <2>2. (\A p \in Request : Idle(p)) => Course(<<>>, Blank)'
    BY <1>2, NilListed, PreparesCourse DEF Sound
  <2>3. ASSUME NEW p \in Request, \A o \in Request : o # p => Idle(o)
        PROVE  Course(req[p].todo, req[p])'
    <3>1. PICK q, r : q = req[p].todo /\ r = req[p]
      OBVIOUS
    <3>2. Listed(q, r.winner) /\ Course(q, r)
      BY <2>1, <2>3, <3>1 DEF RequestsOK, Sound
    <3>3. Course(q, r)'
      BY <1>2, <3>2, PreparesCourse
    <3>4. q = req'[p].todo /\ r = req'[p]
      BY <2>1, <3>1
    <3> QED BY <3>3, <3>4
  <2> QED BY <2>1, <2>2, <2>3 DEF Sound, Idle
<1>3. ASSUME NEW p \in Request, Arrives(p) PROVE Sound'
  <2>1. PICK x : Opens(x) /\ GoOn(p, x, Blank) /\ Idle(p) /\ Stay
    BY <1>3, ArrivesComes DEF Comes
  <2>2. /\ \A o \in Request : o # p => req'[o] = req[o]
        /\ req'[p].todo = x
    BY <2>1 DEF GoOn, Typed, RequestsOK, Blank
  <2>3. ~Idle(p)'
    BY <2>1, <2>2 DEF Opens, Idle
  <2>4. \A o \in Request : o # p => Idle(o)'
    BY <2>3 DEF OneServed
  <2>5. \A o \in Request : Idle(o)
    BY <2>1, <2>2, <2>4 DEF Idle
  <2>6. Course(<<>>, Blank)
    BY <2>5 DEF Sound
  <2>7. /\ whole => \A t \in Tour : Counts(t)
        /\ whole /\ "delete" \notin load.kinds => \A s \in Side : Good(s)
    BY <2>6, NilCourse
  <2>8. UNCHANGED <<tour, history, cache, active, start, whole, load>>
    BY <2>1 DEF Stay
  <2>9. Course(x, Blank)'
    BY <2>1, <2>7, <2>8, OpenCourse
  <2> QED BY <2>1, <2>5, <2>9, BlankIs, GoSound
<1>4. ASSUME NEW p \in Request, Proceeds(p) PROVE Sound'
  <2>1. ~Idle(p)
    BY <1>4 DEF Proceeds, Doing, MatchGuard, FinishMatch, MatchFinished, RescoreFinishedMatch, SetMatchVoided,
           DeleteTournament, OldStatus, UpdateStatus, SetWinnerTop, SetTournamentWinner, ClearWinner,
           LoadTournament, SelectRows, WipeRows, ReadSum, WriteCache, Award, ReadRate, InsertHistory,
           TruncateAll, ListEvents, ApplyReset, ClearCache, FillCache, FillTeams, SyncPatches,
           StartNewSeason, UpdateSeason, ReadRule, ResetRating, ClearPins
  <2>2. \A o \in Request : o # p => Idle(o)
    BY <2>1 DEF OneServed
  <2>3. Course(req[p].todo, req[p])
    BY <2>2 DEF Sound
  <2>4. Kept(p)
    BY <1>4, <2>3, ProceedsKept
  <2>5. CASE Stop(p) /\ Course(<<>>, Blank)'
    BY <2>2, <2>5, StopSound
  <2>6. CASE \E x \in Seq(Statement), v \in Req : GoOn(p, x, v) /\ Course(x, v)'
    BY <2>2, <2>6, GoSound
  <2> QED BY <2>4, <2>5, <2>6 DEF Kept
<1>5. ASSUME NEW p \in Request, ClientGone(p) PROVE Sound'
  <2>1. ~Idle(p) /\ Stop(p) /\ ~whole'
    BY <1>5 DEF ClientGone
  <2>2. \A o \in Request : o # p => Idle(o)
    BY <2>1 DEF OneServed
  <2>3. Course(<<>>, Blank)'
    BY <2>1, NilCourseNext
  <2> QED BY <2>1, <2>2, <2>3, StopSound
<1> QED BY <1>1, <1>2, <1>3, <1>4, <1>5 DEF Next

LEMMA SoundAgrees == Typed /\ Sound => RatingsAgree /\ ResultsCount
<1> SUFFICES ASSUME Typed, Sound PROVE RatingsAgree /\ ResultsCount
  OBVIOUS
<1>1. ASSUME Quiet
      PROVE  /\ \A t \in Tour : Counts(t)
             /\ "delete" \notin load.kinds => \A s \in Side : Good(s)
  <2>1. Course(<<>>, Blank) /\ whole
    BY <1>1 DEF Quiet, AllIdle, Sound
  <2> QED BY <2>1, NilCourse
<1>2. CacheIsHistory
  <2>1. SUFFICES ASSUME Quiet, "delete" \notin load.kinds, NEW s \in Side
        PROVE  IF s \in Player THEN cache[s] = IF Played(s, active) THEN SeasonMmr(history, s, active)
                                               ELSE NoRow
               ELSE cache[s] # NoRow => cache[s] = SeasonMmr(history, s, active)
    BY DEF CacheIsHistory
  <2>2. Good(s)
    BY <1>1, <2>1
  <2>3. CASE s \in Player
    BY <2>2, <2>3 DEF Good, Value
  <2>4. CASE s \notin Player
    BY <2>2, <2>4 DEF Good, Value
  <2> QED BY <2>3, <2>4
<1>3. ResultsCount
  BY <1>1 DEF ResultsCount
<1> QED BY <1>2, <1>3, TypedIsTypeOK DEF RatingsAgree

-------------------------------------------------------------------------------
(* The theorems.                                                           *)

\* Whatever requests meet and wherever they are cut short, the tables stay well
\* formed: a side has one row of a match at most (insertUserMmrHistory: ON CONFLICT
\* DO NOTHING), a match has one of its two sides for its winner, and no statement is
\* about a match or a side there is not.
THEOREM TypeTheorem == Spec => []TypeOK
<1>1. Spec => []Typed
  BY InitTyped, NextTyped, PTL DEF Spec
<1> QED BY <1>1, TypedIsTypeOK, PTL

\* Requests that are served one after the other, any number of them, each of them
\* left by its client at any statement, keep the cache what the history of the season
\* adds up to: every list of statements ends with the cache it has put out of date
\* (ApplyTournamentMmr, RevertTournamentMmr, RecomputeAllMmr, RefreshMmrCaches).
THEOREM AgreeTheorem == Spec /\ []OneServed => []RatingsAgree
<1>1. Spec /\ []OneServed => [](Typed /\ Sound)
  BY InitTyped, NextTyped, InitSound, SoundStep, PTL DEF Spec
<1> QED BY <1>1, SoundAgrees, PTL

\* And every match that ended counts once, for its two sides, with what it ended with,
\* twice for a side with a token x2, as it was imported until its winner is corrected,
\* and not at all with a side that has no rating (ApplyTournamentMmr: "выдерживает
\* повторный finished и смену победителя"), whatever order matches are planned, begun,
\* finished, corrected, voided, opened again and deleted in.
THEOREM CountTheorem == Spec /\ []OneServed => []ResultsCount
<1>1. Spec /\ []OneServed => [](Typed /\ Sound)
  BY InitTyped, NextTyped, InitSound, SoundStep, PTL DEF Spec
<1> QED BY <1>1, SoundAgrees, PTL
===============================================================================
