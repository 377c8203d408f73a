-------------------------- MODULE QueueSessionProofs --------------------------
(***************************************************************************)
(* Whatever the players, the organizers and the console do, in whatever    *)
(* order, for every number of users, teams, entries and matches and every  *)
(* size of the queue. First the functions of queue_order.go: each of them  *)
(* turns a list without repetitions of a set of entries into a list        *)
(* without repetitions of the set it should be. Then the rows of a         *)
(* session: they keep their types, the order lists exactly who stands in   *)
(* the queue, nobody stands twice, the open match and the entries agree    *)
(* and confirmations belong to the call. Last what no step may do: bring a *)
(* closed entry back, take down a match that is on the air without being   *)
(* asked to, or miscount who has performed; the first two need one fact    *)
(* more, that a finished session has no open match.                        *)
(***************************************************************************)
EXTENDS QueueSession, FiniteSetTheorems, SequenceTheorems, TLAPS

\* items lists the elements of S, each of them once.
Lists(items, S) ==
  /\ items \in Seq(S)
  /\ IsInjective(items)
  /\ Range(items) = S

-------------------------------------------------------------------------------
(* Lists and their lengths. *)

\* The definition, place by place.
LEMMA ListsByPlace ==
  ASSUME NEW S, NEW items \in Seq(S)
  PROVE  Lists(items, S) <=>
           /\ \A a, b \in 1..Len(items) : items[a] = items[b] => a = b
           /\ \A x \in S : \E a \in 1..Len(items) : items[a] = x
  <1>1. DOMAIN items = 1..Len(items) /\ \A a \in 1..Len(items) : items[a] \in S
    BY LenProperties, ElementOfSeq
  <1>2. IsInjective(items) <=>
          \A a, b \in 1..Len(items) : items[a] = items[b] => a = b
    BY <1>1, Zenon DEF IsInjective
  <1>3. Range(items) = S <=> \A x \in S : \E a \in 1..Len(items) : items[a] = x
    BY <1>1 DEF Range
  <1> QED
    BY <1>2, <1>3 DEF Lists

\* A list is as long as its set is large.
LEMMA ListLength ==
  ASSUME NEW S, NEW items, Lists(items, S)
  PROVE  /\ Len(items) \in Nat
         /\ IsFiniteSet(S)
         /\ Cardinality(S) = Len(items)
  <1>1. /\ Len(items) \in Nat
        /\ items \in [1..Len(items) -> S]
    BY LenProperties DEF Lists
  <1>2. items \in Bijection(1..Len(items), S)
    <2>1. items \in Injection(1..Len(items), S)
      BY <1>1 DEF Lists, Injection
    <2>2. items \in Surjection(1..Len(items), S)
      BY <1>1, ListsByPlace DEF Lists, Surjection
    <2> QED
      BY <2>1, <2>2 DEF Bijection
  <1>3. IsFiniteSet(1..Len(items)) /\ Cardinality(1..Len(items)) = Len(items)
    BY <1>1, FS_Interval
  <1> QED
    BY <1>1, <1>2, <1>3, FS_Bijection DEF ExistsBijection

\* A list of S is a list over any larger set.
LEMMA ListsOver ==
  ASSUME NEW S, NEW T, S \subseteq T, NEW items, Lists(items, S)
  PROVE  items \in Seq(T)
  BY SeqMonotonic DEF Lists

\* A new element may go anywhere.
LEMMA InsertKeeps ==
  ASSUME NEW S, NEW items, Lists(items, S),
         NEW x, x \notin S, NEW i \in 1..(Len(items) + 1)
  PROVE  Lists(InsertAt(items, i, x), S \cup {x})
  <1> DEFINE T == S \cup {x}
             n == Len(items)
             front == SubSeq(items, 1, i - 1)
             back == SubSeq(items, i, n)
             new == InsertAt(items, i, x)
  <1>1. n \in Nat /\ items \in Seq(T)
    BY ListLength, ListsOver
  <1>2. \A a \in 1..n : items[a] \in S
    BY ElementOfSeq DEF Lists
  <1>3. /\ front \in Seq(T)
        /\ Len(front) = i - 1
        /\ \A a \in 1..(i - 1) : front[a] = items[a]
    <2>1. i - 1 \in Int /\ \A a \in 1..(i - 1) : items[a] \in T
      BY <1>1, <1>2
    <2> HIDE DEF T, n
    <2>2. /\ front \in Seq(T)
          /\ Len(front) = IF 1 <= i - 1 THEN i - 1 - 1 + 1 ELSE 0
          /\ \A a \in 1..(i - 1 - 1 + 1) : front[a] = items[1 + a - 1]
      BY <2>1, SubSeqProperties
    <2> QED
      BY <2>2, <1>1 DEF n
  <1>4. /\ back \in Seq(T)
        /\ Len(back) = n - i + 1
        /\ \A a \in 1..(n - i + 1) : back[a] = items[i + a - 1]
    <2>1. \A a \in i..n : items[a] \in T
      BY <1>1, <1>2
    <2>2. i \in Int /\ n \in Int
      BY <1>1
    <2> HIDE DEF T, n
    <2>3. /\ back \in Seq(T)
          /\ Len(back) = IF i <= n THEN n - i + 1 ELSE 0
          /\ \A a \in 1..(n - i + 1) : back[a] = items[i + a - 1]
      BY <2>1, <2>2, SubSeqProperties
    <2> QED
      BY <2>3, <1>1 DEF n
  <1>5. <<x>> \in Seq(T) /\ Len(<<x>>) = 1 /\ <<x>>[1] = x
    OBVIOUS
  <1> HIDE DEF T, n, front, back
  <1>6. /\ front \o <<x>> \in Seq(T)
        /\ Len(front \o <<x>>) = i
        /\ \A a \in 1..i : (front \o <<x>>)[a] = IF a < i THEN items[a] ELSE x
    BY <1>1, <1>3, <1>5, ConcatProperties
  <1>7. /\ new \in Seq(T)
        /\ Len(new) = n + 1
        /\ \A a \in 1..(n + 1) : new[a] = IF a < i THEN items[a]
                                          ELSE IF a = i THEN x ELSE items[a - 1]
    <2>1. new = (front \o <<x>>) \o back
      BY DEF InsertAt, front, back, n
    <2> HIDE DEF new
    <2> DEFINE head == front \o <<x>>
    <2> HIDE DEF head
    <2>2. /\ new = head \o back
          /\ head \in Seq(T)
          /\ Len(head) = i
          /\ \A a \in 1..i : head[a] = IF a < i THEN items[a] ELSE x
      BY <2>1, <1>6 DEF head
    <2>3. /\ i \in 1..(n + 1)
          /\ i + (n - i + 1) = n + 1
      BY <1>1 DEF n
    <2>4. /\ new \in Seq(T)
          /\ Len(new) = n + 1
          /\ \A a \in 1..(n + 1) :
               new[a] = IF a <= i THEN head[a] ELSE back[a - i]
      <3>1. /\ head \o back \in Seq(T)
            /\ Len(head \o back) = Len(head) + Len(back)
            /\ \A a \in 1..Len(head) + Len(back) :
                 (head \o back)[a] = IF a <= Len(head) THEN head[a]
                                     ELSE back[a - Len(head)]
        BY <2>2, <1>4, ConcatProperties
      <3>2. Len(head) + Len(back) = n + 1 /\ Len(head) = i
        BY <2>2, <2>3, <1>4
      <3> QED
        BY <3>1, <3>2, <2>2
    <2>5. ASSUME NEW a \in 1..(n + 1)
          PROVE  new[a] = IF a < i THEN items[a]
                          ELSE IF a = i THEN x ELSE items[a - 1]
      <3>1. CASE a <= i
        BY <3>1, <2>2, <2>3, <2>4, <1>1
      <3>2. CASE a > i
        <4>1. a - i \in 1..(n - i + 1) /\ i + (a - i) - 1 = a - 1
          BY <3>2, <2>3, <1>1
        <4>2. back[a - i] = items[a - 1]
          BY <4>1, <1>4
        <4> QED
          BY <4>2, <3>2, <2>3, <2>4, <1>1
      <3> QED
        BY <3>1, <3>2, <2>3, <1>1
    <2> QED
      BY <2>4, <2>5
  <1> HIDE DEF new
  <1>8. /\ \A a, b \in 1..n : items[a] = items[b] => a = b
        /\ \A y \in S : \E a \in 1..n : items[a] = y
    BY ListsByPlace DEF Lists, n
  <1>9. i \in 1..(n + 1)
    BY DEF n
  <1>10. ASSUME NEW a \in 1..(n + 1), NEW b \in 1..(n + 1), a < b
         PROVE  new[a] # new[b]
    <2>1. CASE b <= i
      <3>1. a \in 1..n /\ new[a] = items[a] /\ items[a] \in S
        BY <2>1, <1>1, <1>2, <1>7, <1>9, <1>10
      <3>2. CASE b = i
        BY <3>1, <3>2, <1>1, <1>7
      <3>3. CASE b < i
        <4>1. b \in 1..n /\ new[b] = items[b]
          BY <3>3, <1>1, <1>7, <1>9
        <4> QED
          BY <4>1, <3>1, <1>1, <1>8, <1>10
      <3> QED
        BY <2>1, <3>2, <3>3, <1>1, <1>9
    <2>2. CASE b > i
      <3>1. b - 1 \in 1..n /\ new[b] = items[b - 1] /\ items[b - 1] \in S
        BY <2>2, <1>1, <1>2, <1>7, <1>9
      <3>2. CASE a < i
        <4>1. a \in 1..n /\ new[a] = items[a] /\ a # b - 1
          BY <3>2, <2>2, <1>1, <1>7, <1>9
        <4> QED
          BY <4>1, <3>1, <1>8
      <3>3. CASE a = i
        BY <3>1, <3>3, <1>1, <1>7
      <3>4. CASE a > i
        <4>1. a - 1 \in 1..n /\ new[a] = items[a - 1] /\ a - 1 # b - 1
          BY <3>4, <1>1, <1>7, <1>9, <1>10
        <4> QED
          BY <4>1, <3>1, <1>8
      <3> QED
        BY <3>2, <3>3, <3>4, <1>1, <1>9
    <2> QED
      BY <2>1, <2>2, <1>1, <1>9
  <1>11. ASSUME NEW y \in T
         PROVE  \E a \in 1..(n + 1) : new[a] = y
    <2>1. CASE y = x
      BY <2>1, <1>1, <1>7, <1>9
    <2>2. CASE y \in S
      <3>1. PICK a \in 1..n : items[a] = y
        BY <2>2, <1>8
      <3>2. CASE a < i
        BY <3>1, <3>2, <1>1, <1>7, <1>9
      <3>3. CASE a >= i
        <4>1. a + 1 \in 1..(n + 1) /\ ~(a + 1 < i) /\ a + 1 # i /\ (a + 1) - 1 = a
          <5> HIDE DEF n
          <5> QED
            BY <3>3, <1>1
        <4>2. new[a + 1] = items[a]
          BY <4>1, <1>7
        <4> QED
          BY <4>1, <4>2, <3>1
      <3> QED
        BY <3>2, <3>3, <1>1, <1>9
    <2>3. y = x \/ y \in S
      BY DEF T
    <2> QED
      BY <2>1, <2>2, <2>3, Zenon
  <1>12. \A a, b \in 1..(n + 1) : new[a] = new[b] => a = b
    BY <1>10, <1>1
  <1>13. Lists(new, T)
    BY <1>7, <1>11, <1>12, ListsByPlace
  <1> QED
    BY <1>13 DEF new, T

\* One element is taken out at its place.
LEMMA RemoveKeeps ==
  ASSUME NEW S, NEW items, Lists(items, S), NEW i \in 1..Len(items)
  PROVE  Lists(RemoveAt(items, i), S \ {items[i]})
  <1> DEFINE T == S \ {items[i]}
             n == Len(items)
             front == SubSeq(items, 1, i - 1)
             back == SubSeq(items, i + 1, n)
             new == RemoveAt(items, i)
  <1>1. n \in Nat
    BY ListLength
  <1>2. /\ \A a \in 1..n : items[a] \in S
        /\ \A a, b \in 1..n : items[a] = items[b] => a = b
        /\ \A y \in S : \E a \in 1..n : items[a] = y
    BY ListsByPlace, ElementOfSeq DEF Lists
  <1>3. /\ front \in Seq(T)
        /\ Len(front) = i - 1
        /\ \A a \in 1..(i - 1) : front[a] = items[a]
    <2>1. i - 1 \in Int /\ \A a \in 1..(i - 1) : items[a] \in T
      BY <1>1, <1>2
    <2> HIDE DEF T, n
    <2>2. /\ front \in Seq(T)
          /\ Len(front) = IF 1 <= i - 1 THEN i - 1 - 1 + 1 ELSE 0
          /\ \A a \in 1..(i - 1 - 1 + 1) : front[a] = items[1 + a - 1]
      BY <2>1, SubSeqProperties
    <2> QED
      BY <2>2, <1>1 DEF n
  <1>4. /\ back \in Seq(T)
        /\ Len(back) = n - i
        /\ \A a \in 1..(n - i) : back[a] = items[i + a]
    <2>1. \A a \in (i + 1)..n : items[a] \in T
      BY <1>1, <1>2
    <2>2. i + 1 \in Int /\ n \in Int /\ n - (i + 1) + 1 = n - i /\ i \in Int /\ i <= n
      BY <1>1
    <2> HIDE DEF T, n
    <2>3. /\ back \in Seq(T)
          /\ Len(back) = IF i + 1 <= n THEN n - (i + 1) + 1 ELSE 0
          /\ \A a \in 1..(n - (i + 1) + 1) : back[a] = items[(i + 1) + a - 1]
      BY <2>1, <2>2, SubSeqProperties
    <2>4. \A a \in 1..(n - i) : (i + 1) + a - 1 = i + a
      BY <1>1 DEF n
    <2>5. \A a \in 1..(n - i) : back[a] = items[i + a]
      BY <2>2, <2>3, <2>4
    <2>6. Len(back) = n - i
      <3> HIDE DEF back
      <3> QED
        BY <2>2, <2>3
    <2> QED
      BY <2>3, <2>5, <2>6
  <1>5. new = front \o back
    BY DEF RemoveAt
  <1>6. i \in 1..n
    OBVIOUS
  <1> HIDE DEF T, n, front, back, new
  <1>7. /\ new \in Seq(T)
        /\ Len(new) = n - 1
        /\ \A a \in 1..(n - 1) : new[a] = IF a < i THEN items[a] ELSE items[a + 1]
    <2>1. /\ front \o back \in Seq(T)
          /\ Len(front \o back) = Len(front) + Len(back)
          /\ \A a \in 1..(Len(front) + Len(back)) : (front \o back)[a] =
               IF a <= Len(front) THEN front[a] ELSE back[a - Len(front)]
      BY <1>3, <1>4, ConcatProperties
    <2>2. Len(front) + Len(back) = n - 1
      BY <1>1, <1>3, <1>4, <1>6
    <2>3. ASSUME NEW a \in 1..(n - 1)
          PROVE  new[a] = IF a < i THEN items[a] ELSE items[a + 1]
      <3>1. CASE a < i
        BY <3>1, <2>1, <2>2, <1>1, <1>3, <1>5, <1>6
      <3>2. CASE a >= i
        <4>1. a - (i - 1) \in 1..(n - i) /\ i + (a - (i - 1)) = a + 1
          BY <3>2, <1>1, <1>6
        <4>2. new[a] = back[a - (i - 1)]
          BY <3>2, <2>1, <2>2, <1>1, <1>3, <1>5, <1>6
        <4> QED
          BY <4>1, <4>2, <3>2, <1>1, <1>4, <1>6
      <3> QED
        BY <3>1, <3>2, <1>1, <1>6
    <2> QED
      BY <2>1, <2>2, <2>3, <1>5
  <1>8. ASSUME NEW a \in 1..(n - 1), NEW b \in 1..(n - 1), new[a] = new[b]
        PROVE  a = b
    <2> DEFINE old(c) == IF c < i THEN c ELSE c + 1
    <2>1. \A c \in 1..(n - 1) : old(c) \in 1..n /\ new[c] = items[old(c)]
      BY <1>1, <1>6, <1>7
    <2>2. old(a) = old(b)
      BY <2>1, <1>2, <1>8
    <2> QED
      BY <2>2, <1>1, <1>6
  <1>9. ASSUME NEW y \in T
        PROVE  \E a \in 1..(n - 1) : new[a] = y
    <2>1. PICK a \in 1..n : items[a] = y /\ a # i
      BY <1>2 DEF T
    <2>2. CASE a < i
      <3>1. a \in 1..(n - 1) /\ new[a] = items[a]
        BY <2>2, <1>1, <1>6, <1>7
      <3> QED
        BY <3>1, <2>1
    <2>3. CASE a > i
      <3>1. a - 1 \in 1..(n - 1) /\ new[a - 1] = items[a]
        BY <2>3, <1>1, <1>6, <1>7
      <3> QED
        BY <3>1, <2>1
    <2> QED
      BY <2>1, <2>2, <2>3, <1>1, <1>6
  <1>10. Lists(new, T)
    BY <1>7, <1>8, <1>9, ListsByPlace
  <1> QED
    BY <1>10 DEF new, T

\* qWithout leaves out just the entry it is asked to leave out.
LEMMA WithoutKeeps ==
  ASSUME NEW S, NEW items, Lists(items, S), NEW x
  PROVE  Lists(qWithout(items, x), S \ {x})
  <1>1. CASE x \in S
    <2>1. \E i \in 1..Len(items) : items[i] = x
      BY <1>1, ListsByPlace DEF Lists
    <2>2. qIndex(items, x) \in 1..Len(items) /\ items[qIndex(items, x)] = x
      BY <2>1 DEF qIndex
    <2>3. qWithout(items, x) = RemoveAt(items, qIndex(items, x))
      BY <1>1 DEF qWithout, Lists
    <2> QED
      BY <2>2, <2>3, RemoveKeeps
  <1>2. CASE x \notin S
    <2>1. qWithout(items, x) = items /\ S \ {x} = S
      BY <1>2 DEF qWithout, Lists
    <2> QED
      BY <2>1
  <1> QED
    BY <1>1, <1>2

\* qAllBut leaves out just the entries it is asked to leave out. Its ranks map
\* the places it keeps one to one into 1..(their number), hence onto it.
LEMMA AllButKeeps ==
  ASSUME NEW S, NEW items, Lists(items, S), NEW gone
  PROVE  Lists(qAllBut(items, gone), S \ gone)
  <1> DEFINE n == Len(items)
             kept == {i \in 1..n : items[i] \notin gone}
             rank(i) == Cardinality({j \in kept : j <= i})
             at == [i \in kept |-> rank(i)]
             m == Cardinality(kept)
             new == qAllBut(items, gone)
             place(k) == CHOOSE i \in kept : rank(i) = k
  <1>1. n \in Nat
    BY ListLength
  <1>2. /\ \A a \in 1..n : items[a] \in S
        /\ \A a, b \in 1..n : items[a] = items[b] => a = b
        /\ \A y \in S : \E a \in 1..n : items[a] = y
    BY ListsByPlace, ElementOfSeq DEF Lists
  <1>3. IsFiniteSet(1..n)
    BY <1>1, FS_Interval
  <1>4. \A U \in SUBSET (1..n) : IsFiniteSet(U) /\ Cardinality(U) \in Nat
    BY <1>3, FS_Subset, FS_CardinalityType
  <1>5. kept \in SUBSET (1..n)
    OBVIOUS
  <1>6. ASSUME NEW i \in kept
        PROVE  rank(i) \in 1..m
    <2> DEFINE below == {j \in kept : j <= i}
    <2>1. below \in SUBSET kept /\ IsFiniteSet(kept) /\ m \in Nat
      BY <1>4, <1>5
    <2>2. IsFiniteSet(below) /\ Cardinality(below) <= m
      BY <2>1, FS_Subset
    <2>3. i \in below
      BY <1>1
    <2>4. Cardinality(below) \in Nat /\ Cardinality(below) # 0
      BY <2>2, <2>3, FS_CardinalityType, FS_EmptySet
    <2> QED
      BY <2>1, <2>2, <2>4
  <1>7. ASSUME NEW i \in kept, NEW j \in kept, i < j
        PROVE  rank(i) # rank(j)
    <2> DEFINE L(k) == {c \in kept : c <= k}
    <2>1. L(i) \in SUBSET L(j) /\ j \in L(j) /\ j \notin L(i)
      BY <1>1, <1>7
    <2>2. IsFiniteSet(L(j))
      BY <1>4
    <2> QED
      BY <2>1, <2>2, FS_Subset
  <1>8. at \in Injection(kept, 1..m)
    <2>1. at \in [kept -> 1..m]
      BY <1>6
    <2>2. \A i, j \in kept : at[i] = at[j] => i = j
      BY <1>1, <1>7
    <2>3. IsInjective(at)
      BY <2>2 DEF IsInjective
    <2> QED
      BY <2>1, <2>3 DEF Injection
  <1>9. m \in Nat /\ IsFiniteSet(kept) /\ IsFiniteSet(1..m) /\ Cardinality(1..m) = m
    <2>1. m \in Nat /\ IsFiniteSet(kept)
      BY <1>4, <1>5
    <2> HIDE DEF m, kept
    <2> QED
      BY <2>1, FS_Interval
  <1>10. at \in Surjection(kept, 1..m)
    <2> HIDE DEF at
    <2> QED
      BY <1>8, <1>9, FS_Injection
  <1>11. ASSUME NEW k \in 1..m
         PROVE  place(k) \in kept /\ rank(place(k)) = k
    <2>1. \E i \in kept : rank(i) = k
      BY <1>10 DEF Surjection
    <2> QED
      BY <2>1
  <1>12. new = [k \in 1..m |-> items[place(k)]]
    BY DEF qAllBut
  <1> HIDE DEF n, m, rank, place, new
  <1>13. ASSUME NEW k \in 1..m
         PROVE  items[place(k)] \in S \ gone
    BY <1>2, <1>11
  <1>14. new \in Seq(S \ gone) /\ Len(new) = m
    BY <1>9, <1>12, <1>13
  <1>15. ASSUME NEW k \in 1..m, NEW l \in 1..m, new[k] = new[l]
         PROVE  k = l
    <2>1. place(k) = place(l)
      BY <1>2, <1>11, <1>12, <1>15
    <2> QED
      BY <2>1, <1>11
  <1>16. ASSUME NEW y \in S \ gone
         PROVE  \E k \in 1..m : new[k] = y
    <2>1. PICK i \in kept : items[i] = y
      BY <1>2
    <2>2. rank(i) \in 1..m
      BY <1>6
    <2>3. place(rank(i)) = i
      BY <2>2, <1>1, <1>7, <1>11 DEF n
    <2> QED
      BY <2>1, <2>2, <2>3, <1>12
  <1>17. Lists(new, S \ gone)
    BY <1>14, <1>15, <1>16, ListsByPlace
  <1> QED
    BY <1>17 DEF new

-------------------------------------------------------------------------------
(* The places of the source. *)

\* A set of places has a natural number of members.
LEMMA PlacesCount ==
  ASSUME NEW S, NEW items, Lists(items, S), NEW U \in SUBSET (1..Len(items))
  PROVE  Cardinality(U) \in Nat
  <1>1. IsFiniteSet(1..Len(items))
    BY ListLength, FS_Interval
  <1>2. IsFiniteSet(U)
    BY <1>1, FS_Subset
  <1> QED
    BY <1>2, FS_CardinalityType

\* qFreshEnd, qInflight and qPrioIndex count places of the list.
LEMMA IndexTypes ==
  ASSUME NEW S, NEW items, Lists(items, S), NEW info, NEW prio
  PROVE  /\ qFreshEnd(info, items) \in Int
         /\ qInflight(info, items) \in Int
         /\ qPrioIndex(info, items, prio) \in Int
  <1>1. qFreshEnd(info, items) \in Int
    <2>1. {i \in 1..Len(items) :
             \E j \in i..Len(items) : info[items[j]].today = 0}
            \in SUBSET (1..Len(items))
      OBVIOUS
    <2> QED
      BY <2>1, PlacesCount DEF qFreshEnd
  <1>2. qInflight(info, items) \in Nat
    <2>1. {i \in 1..Len(items) :
             \A j \in 1..i : qInMatch(info[items[j]].status)}
            \in SUBSET (1..Len(items))
      OBVIOUS
    <2> QED
      BY <2>1, PlacesCount DEF qInflight
  <1>3. qPrioIndex(info, items, prio) \in Int
    <2> DEFINE head == qInflight(info, items)
               older == {i \in (head + 1)..Len(items) :
                           \A j \in (head + 1)..i :
                              /\ info[items[j]].prio # 0
                              /\ info[items[j]].prio <= prio}
    <2>1. older \in SUBSET (1..Len(items))
      BY <1>2, ListLength
    <2>2. Cardinality(older) \in Nat
      BY <2>1, PlacesCount
    <2>3. qPrioIndex(info, items, prio) = head + Cardinality(older)
      BY DEF qPrioIndex
    <2> HIDE DEF older, head
    <2>4. head \in Nat
      BY <1>2 DEF head
    <2> QED
      BY <2>2, <2>3, <2>4
  <1> QED
    BY <1>1, <1>2, <1>3

\* qInsertAt puts a new entry into the list, at whatever index it is told.
LEMMA InsertAtKeeps ==
  ASSUME NEW S, NEW items, Lists(items, S), NEW x, x \notin S, NEW at \in Int
  PROVE  Lists(qInsertAt(items, at, x), S \cup {x})
  <1> DEFINE place == IF at < 0 THEN 0
                      ELSE IF at > Len(items) THEN Len(items) ELSE at
  <1>1. place + 1 \in 1..(Len(items) + 1)
    BY ListLength
  <1>2. qInsertAt(items, at, x) = InsertAt(items, place + 1, x)
    BY DEF qInsertAt
  <1> HIDE DEF place
  <1> QED
    BY <1>1, <1>2, InsertKeeps

\* So does an append.
LEMMA AppendKeeps ==
  ASSUME NEW S, NEW items, Lists(items, S), NEW x, x \notin S
  PROVE  Lists(Append(items, x), S \cup {x})
  <1> DEFINE T == S \cup {x}
             n == Len(items)
             new == Append(items, x)
  <1>1. n \in Nat /\ items \in Seq(T) /\ x \in T
    BY ListLength, ListsOver
  <1>2. /\ \A a \in 1..n : items[a] \in S
        /\ \A a, b \in 1..n : items[a] = items[b] => a = b
        /\ \A y \in S : \E a \in 1..n : items[a] = y
    BY ListsByPlace, ElementOfSeq DEF Lists
  <1> HIDE DEF T
  <1>3. /\ new \in Seq(T)
        /\ Len(new) = n + 1
        /\ \A a \in 1..n : new[a] = items[a]
        /\ new[n + 1] = x
    BY <1>1, AppendProperties
  <1> HIDE DEF n, new
  <1>4. \A a, b \in 1..(n + 1) : new[a] = new[b] => a = b
    <2>1. \A a \in 1..(n + 1) : a \in 1..n \/ a = n + 1
      BY <1>1
    <2> QED
      BY <2>1, <1>2, <1>3
  <1>5. \A y \in T : \E a \in 1..(n + 1) : new[a] = y
    <2>1. \A a \in 1..n : a \in 1..(n + 1)
      BY <1>1
    <2>2. n + 1 \in 1..(n + 1)
      BY <1>1
    <2> QED
      BY <2>1, <2>2, <1>2, <1>3 DEF T
  <1>6. Lists(new, T)
    BY <1>3, <1>4, <1>5, ListsByPlace
  <1> QED
    BY <1>6 DEF new, T

\* A new entry joins the list.
LEMMA PlaceNewKeeps ==
  ASSUME NEW S, NEW items, Lists(items, S), NEW x, x \notin S, NEW info
  PROVE  Lists(qPlaceNew(info, items, x), S \cup {x})
  BY IndexTypes, InsertAtKeeps, AppendKeeps DEF qPlaceNew

\* The moves change the order and nothing else: a skipped entry, the owner of a
\* token, a called entry and one moved by hand all stay in the list.
LEMMA MovesKeep ==
  ASSUME NEW S, NEW items, Lists(items, S), NEW x \in S, NEW info
  PROVE  /\ Lists(qPlaceSkipped(info, items, x), S)
         /\ Lists(qPlacePriority(info, items, x), S)
         /\ Lists(qPlaceCalled(info, items, x), S)
         /\ \A pos \in Int : Lists(qMoveTo(info, items, x, pos), S)
  <1> DEFINE rest == qWithout(items, x)
             T == S \ {x}
  <1>1. Lists(rest, T) /\ x \notin T /\ T \cup {x} = S
    BY WithoutKeeps
  <1> HIDE DEF rest, T
  <1>2. \A prio : /\ qFreshEnd(info, rest) \in Int
                  /\ qInflight(info, rest) \in Int
                  /\ qPrioIndex(info, rest, prio) \in Int
    BY <1>1, IndexTypes
  <1>3. \A at \in Int : Lists(qInsertAt(rest, at, x), S)
    BY <1>1, InsertAtKeeps
  <1>4. Lists(Append(rest, x), S)
    BY <1>1, AppendKeeps
  <1>5. Lists(qPlaceSkipped(info, items, x), S)
    BY <1>2, <1>3, <1>4 DEF qPlaceSkipped, rest
  <1>6. Lists(qPlacePriority(info, items, x), S)
    BY <1>2, <1>3 DEF qPlacePriority, rest
  <1>7. Lists(qPlaceCalled(info, items, x), S)
    BY <1>2, <1>3 DEF qPlaceCalled, rest
  <1>8. ASSUME NEW pos \in Int
        PROVE  Lists(qMoveTo(info, items, x, pos), S)
    <2> DEFINE at == IF ~qInMatch(info[x].status) /\ pos - 1 < qInflight(info, rest)
                     THEN qInflight(info, rest) ELSE pos - 1
    <2>1. at \in Int
      BY <1>2
    <2>2. qMoveTo(info, items, x, pos) = qInsertAt(rest, at, x)
      BY DEF qMoveTo, rest
    <2> QED
      BY <2>1, <2>2, <1>3
  <1> QED
    BY <1>5, <1>6, <1>7, <1>8

-------------------------------------------------------------------------------
(* The rows of a session. *)

\* An entry id that was not handed out has no confirmations: the one thing the
\* checked invariants do not say and JoinQueue relies on.
Blank(s) == \A e \in Entry : s.status[e] = "none" => s.ready[e] = {}

\* The inductive invariant on the rows an operation reads and writes.
Good(s) ==
  /\ s \in QueueType
  /\ IsFiniteSet(s.finished)
  /\ Listed(s)
  /\ Single(s)
  /\ Matched(s)
  /\ Confirmed(s)
  /\ Blank(s)

IInv == TypeOK /\ Good(q)

-------------------------------------------------------------------------------
(* Orders. *)

\* For typed rows Listed is Lists with the bound on the length.
LEMMA ListedIsLists ==
  ASSUME NEW s, s \in QueueType
  PROVE  Listed(s) <=> /\ Lists(s.order, InQueue(s))
                       /\ Len(s.order) <= QueueMaxEntries
  <1>1. s.order \in Seq(Entry)
    BY DEF QueueType
  <1>2. ASSUME Range(s.order) = InQueue(s)
        PROVE  s.order \in Seq(InQueue(s))
    <2>1. /\ Len(s.order) \in Nat
          /\ DOMAIN s.order = 1..Len(s.order)
          /\ s.order \in [1..Len(s.order) -> Entry]
      BY <1>1, LenProperties
    <2>2. \A i \in 1..Len(s.order) : s.order[i] \in InQueue(s)
      BY <1>2, <2>1 DEF Range
    <2>3. s.order \in [1..Len(s.order) -> InQueue(s)]
      BY <2>1, <2>2
    <2> QED
      BY <2>1, <2>3, SeqDef
  <1> QED
    BY <1>2 DEF Listed, Lists

\* Rows that keep a part of the entries keep Listed and Single.
LEMMA FewerKeeps ==
  ASSUME NEW s, Good(s), NEW t, t \in QueueType,
         InQueue(t) \subseteq InQueue(s),
         Lists(t.order, InQueue(t)),
         \A e \in InQueue(t) : t.members[e] \subseteq s.members[e]
  PROVE  Listed(t) /\ Single(t)
  <1>1. Lists(s.order, InQueue(s)) /\ Len(s.order) <= QueueMaxEntries
    BY ListedIsLists DEF Good
  <1>2. /\ IsFiniteSet(InQueue(s))
        /\ Cardinality(InQueue(s)) = Len(s.order)
        /\ Cardinality(InQueue(t)) = Len(t.order)
        /\ Len(s.order) \in Nat
        /\ Len(t.order) \in Nat
    BY <1>1, ListLength
  <1>3. Len(t.order) <= Len(s.order)
    BY <1>2, FS_Subset
  <1>4. Len(t.order) <= QueueMaxEntries
    BY <1>1, <1>2, <1>3, ConstantsAssumption
  <1>5. Single(t)
    BY DEF Good, Single
  <1> QED
    BY <1>4, <1>5, ListedIsLists

-------------------------------------------------------------------------------
(* Leaving a match in preparation. *)

\* What DetachAll does to the match, and that it does nothing else.
LEMMA DetachAllEffect ==
  ASSUME NEW s, Good(s), NEW gone, gone \subseteq Entry
  PROVE  LET d == DetachAll(s, gone) IN
         /\ d \in QueueType
         /\ d.status = s.status
         /\ d.members = s.members
         /\ d.ready = s.ready
         /\ d.performed = s.performed
         /\ d.order = s.order
         /\ d.finished = s.finished
         /\ s.match = "preparing" => /\ d.match \in {"none", "preparing"}
                                     /\ Taken(d) = Taken(s) \ gone
         /\ s.match # "preparing" => d = s
         /\ d.match = "none" <=> Taken(d) = {}
         /\ d.match = "none" <=> d.matchId = NoMatch
         /\ d.match # "live" => d.site = "none"
         /\ d.side[1] = d.side[2] => d.side[1] = NoEntry
  <1> DEFINE d == DetachAll(s, gone)
             left == [i \in Side |-> IF s.side[i] \in gone THEN NoEntry
                                     ELSE s.side[i]]
             f == [s EXCEPT !.side = left]
  <1>1. s \in QueueType /\ Matched(s)
    BY DEF Good
  <1>2. CASE s.match # "preparing"
    <2>1. d = s
      BY <1>2 DEF DetachAll
    <2> QED
      BY <2>1, <1>1, <1>2 DEF Matched
  <1>3. CASE s.match = "preparing"
    <2>1. d = DropEmptyMatch(f)
      BY <1>3 DEF DetachAll
    <2>2. /\ f \in QueueType
          /\ f.side = left
          /\ f.match = s.match
          /\ f.matchId = s.matchId
          /\ f.site = s.site
          /\ f.status = s.status
          /\ f.members = s.members
          /\ f.ready = s.ready
          /\ f.performed = s.performed
          /\ f.order = s.order
          /\ f.finished = s.finished
      BY <1>1 DEF QueueType, Side
    <2>3. NoEntry \notin Entry /\ NoMatch \notin MatchId
      BY ConstantsAssumption
    <2>4. Taken(f) = Taken(s) \ gone
      BY <2>2, <2>3, <1>1 DEF Taken, Side
    <2>5. f.side[1] = f.side[2] => f.side[1] = NoEntry
      BY <2>2, <2>3, <1>1 DEF Matched, Side, QueueType
    <2> HIDE DEF d, f, left
    <2>6. CASE Taken(f) # {}
      <3>1. d = f
        BY <2>1, <2>6 DEF DropEmptyMatch
      <3> QED
        BY <3>1, <2>2, <2>4, <2>5, <2>6, <1>1, <1>3 DEF Matched, d
    <2>7. CASE Taken(f) = {}
      <3>1. d = ForgetMatch(f)
        BY <2>1, <2>2, <2>7, <1>3 DEF DropEmptyMatch
      <3>2. /\ d \in QueueType
            /\ d.side = NoSides
            /\ d.match = "none"
            /\ d.matchId = NoMatch
            /\ d.site = "none"
            /\ d.status = f.status
            /\ d.members = f.members
            /\ d.ready = f.ready
            /\ d.performed = f.performed
            /\ d.order = f.order
            /\ d.finished = f.finished
        BY <3>1, <2>2 DEF ForgetMatch, QueueType, NoSides, Side
      <3>3. Taken(d) = {} /\ d.side[1] = NoEntry
        BY <3>2 DEF Taken, NoSides, Side
      <3> QED
        BY <3>2, <3>3, <2>2, <2>4, <2>7, <1>3 DEF d
    <2> QED
      BY <2>6, <2>7
  <1> QED
    BY <1>2, <1>3

\* Entries that get another status must leave the match in preparation; then
\* the match and the entries agree again.
LEMMA DetachAllMatched ==
  ASSUME NEW s, Good(s), NEW gone, gone \subseteq InQueue(s),
         NEW t, t \in QueueType,
         t.side = DetachAll(s, gone).side,
         t.match = DetachAll(s, gone).match,
         t.matchId = DetachAll(s, gone).matchId,
         t.site = DetachAll(s, gone).site,
         t.members = s.members,
         \A e \in Entry \ gone : t.status[e] = s.status[e],
         \A e \in gone : /\ ~qInMatch(t.status[e])
                         /\ s.status[e] = "performing" =>
                              t.status[e] = "removed" /\ s.members[e] = {}
  PROVE  Matched(t)
  <1> DEFINE d == DetachAll(s, gone)
  <1>1. gone \subseteq Entry
    BY DEF InQueue
  <1>2. /\ d.match = "none" <=> Taken(d) = {}
        /\ d.match = "none" <=> d.matchId = NoMatch
        /\ d.match # "live" => d.site = "none"
        /\ d.side[1] = d.side[2] => d.side[1] = NoEntry
        /\ s.match = "preparing" => /\ d.match \in {"none", "preparing"}
                                    /\ Taken(d) = Taken(s) \ gone
        /\ s.match # "preparing" => d = s
    BY <1>1, DetachAllEffect
  <1> HIDE DEF d
  <1>3. t.side = d.side /\ t.match = d.match /\ t.matchId = d.matchId /\ t.site = d.site
    BY DEF d
  <1>4. Taken(t) = Taken(d)
    BY <1>3 DEF Taken
  <1>5. Matched(s) /\ s \in QueueType
    BY DEF Good
  <1>6. t.match = "live" => NoEntry \notin {t.side[i] : i \in Side}
    <2>1. t.match = "live" => s.match = "live" /\ t.side = s.side
      BY <1>2, <1>3
    <2>2. s.match = "live" => NoEntry \notin {s.side[i] : i \in Side}
      BY <1>5 DEF Matched
    <2> QED
      BY <2>1, <2>2
  <1>7. ASSUME NEW e \in Entry
        PROVE  /\ t.status[e] \in {"invited", "ready"} <=>
                    t.match = "preparing" /\ e \in Taken(t)
               /\ t.status[e] = "performing" => t.match = "live" /\ e \in Taken(t)
               /\ t.match = "live" /\ e \in Taken(t) =>
                    \/ t.status[e] = "performing"
                    \/ t.status[e] = "removed" /\ t.members[e] = {}
    <2>1. /\ s.status[e] \in {"invited", "ready"} <=>
               s.match = "preparing" /\ e \in Taken(s)
          /\ s.status[e] = "performing" => s.match = "live" /\ e \in Taken(s)
          /\ s.match = "live" /\ e \in Taken(s) =>
               \/ s.status[e] = "performing"
               \/ s.status[e] = "removed" /\ s.members[e] = {}
      BY <1>5 DEF Matched
    <2>2. CASE e \in gone
      <3>1. Queued(s.status[e])
        BY <2>2 DEF InQueue
      <3>2. /\ ~qInMatch(t.status[e])
            /\ s.status[e] = "performing" =>
                 t.status[e] = "removed" /\ s.members[e] = {}
        BY <2>2
      <3> QED
        BY <3>1, <3>2, <2>1, <2>2, <1>2, <1>3, <1>4 DEF Queued, qInMatch
    <2>3. CASE e \notin gone
      <3>1. t.status[e] = s.status[e]
        BY <2>3
      <3>2. CASE s.match = "preparing"
        <4>1. /\ t.match \in {"none", "preparing"}
              /\ Taken(t) = Taken(s) \ gone
              /\ t.match = "none" <=> Taken(t) = {}
          BY <3>2, <1>2, <1>3, <1>4
        <4> QED
          BY <4>1, <3>1, <3>2, <2>1, <2>3
      <3>3. CASE s.match # "preparing"
        BY <3>1, <3>3, <2>1, <1>2, <1>3, <1>4
      <3> QED
        BY <3>2, <3>3
    <2> QED
      BY <2>2, <2>3
  <1> QED
    BY <1>2, <1>3, <1>4, <1>6, <1>7 DEF Matched

-------------------------------------------------------------------------------
(* The helpers of qtx, one lemma each. *)

\* Entries of the queue that are closed or set back after they have left the
\* match in preparation.
LEMMA LeavingKeeps ==
  ASSUME NEW s, Good(s), NEW gone, gone \subseteq InQueue(s),
         NEW t, t \in QueueType,
         t.side = DetachAll(s, gone).side,
         t.match = DetachAll(s, gone).match,
         t.matchId = DetachAll(s, gone).matchId,
         t.site = DetachAll(s, gone).site,
         t.members = s.members,
         t.finished = s.finished,
         Lists(t.order, InQueue(t)),
         \A e \in Entry \ gone : /\ t.status[e] = s.status[e]
                                 /\ t.ready[e] = s.ready[e],
         \A e \in gone : /\ t.status[e] \in {"skipped", "left", "removed"}
                         /\ s.status[e] = "performing" =>
                              t.status[e] = "removed" /\ s.members[e] = {}
                         /\ t.status[e] = "skipped" => t.ready[e] = {}
  PROVE  Good(t)
  <1>1. gone \subseteq Entry
    BY DEF InQueue
  <1>2. Matched(t)
    BY DetachAllMatched DEF qInMatch
  <1>3. InQueue(t) \subseteq InQueue(s)
    <2> SUFFICES ASSUME NEW e \in InQueue(t), e \notin gone
                 PROVE  e \in InQueue(s)
      OBVIOUS
    <2> QED
      BY DEF InQueue
  <1>4. Listed(t) /\ Single(t)
    BY <1>3, FewerKeeps
  <1>5. Confirmed(t) /\ Blank(t)
    <2> SUFFICES ASSUME NEW e \in Entry
                 PROVE  /\ t.status[e] = "ready" => t.members[e] \subseteq t.ready[e]
                        /\ qEligible(t.status[e]) => t.ready[e] = {}
                        /\ t.status[e] = "none" => t.ready[e] = {}
      BY DEF Confirmed, Blank
    <2>1. CASE e \in gone
      BY <2>1 DEF qEligible
    <2>2. CASE e \notin gone
      BY <2>2 DEF Good, Confirmed, Blank
    <2> QED
      BY <2>1, <2>2
  <1> QED
    BY <1>2, <1>4, <1>5 DEF Good

\* SweepGhosts closes the entries without players.
LEMMA SweepGhostsKeeps ==
  ASSUME NEW s, Good(s)
  PROVE  Good(SweepGhosts(s))
  <1> DEFINE gone == Ghosts(s)
             d == DetachAll(s, gone)
             t == SweepGhosts(s)
  <1>1. gone \subseteq InQueue(s) /\ gone \subseteq Entry
    BY DEF Ghosts, InQueue
  <1>2. /\ d \in QueueType
        /\ d.status = s.status
        /\ d.members = s.members
        /\ d.ready = s.ready
        /\ d.finished = s.finished
    BY <1>1, DetachAllEffect
  <1>3. Lists(qAllBut(s.order, gone), InQueue(s) \ gone)
    BY AllButKeeps, ListedIsLists DEF Good
  <1>4. qAllBut(s.order, gone) \in Seq(Entry)
    BY <1>3, ListsOver DEF InQueue
  <1>5. s \in QueueType
    BY DEF Good
  <1> HIDE DEF d, gone
  <1>6. /\ t \in QueueType
        /\ t.status = [e \in Entry |-> IF e \in gone THEN "removed" ELSE s.status[e]]
        /\ t.order = qAllBut(s.order, gone)
        /\ t.side = d.side
        /\ t.match = d.match
        /\ t.matchId = d.matchId
        /\ t.site = d.site
        /\ t.members = s.members
        /\ t.ready = s.ready
        /\ t.finished = s.finished
    BY <1>2, <1>4, <1>5 DEF SweepGhosts, QueueType, EntryStatus, d, gone
  <1> HIDE DEF t
  <1>7. InQueue(t) = InQueue(s) \ gone
    BY <1>6 DEF InQueue, Queued
  <1>8. Lists(t.order, InQueue(t))
    BY <1>3, <1>6, <1>7
  <1>9. \A e \in gone : s.members[e] = {}
    BY DEF gone, Ghosts
  <1>10. \A e \in Entry \ gone : t.status[e] = s.status[e] /\ t.ready[e] = s.ready[e]
    BY <1>6
  <1>11. \A e \in gone : t.status[e] = "removed"
    BY <1>1, <1>6
  <1>12. Good(t)
    BY <1>1, <1>6, <1>8, <1>9, <1>10, <1>11, LeavingKeeps DEF d
  <1> QED
    BY <1>12 DEF t

\* closeEntry with the removal from the order.
LEMMA CloseEntryKeeps ==
  ASSUME NEW s, Good(s), NEW e \in InQueue(s), s.status[e] # "performing",
         NEW status \in {"left", "removed"}
  PROVE  Good(CloseEntry(s, e, status))
  <1> DEFINE d == DetachAll(s, {e})
             t == CloseEntry(s, e, status)
  <1>1. e \in Entry
    BY DEF InQueue
  <1>2. /\ d \in QueueType
        /\ d.status = s.status
        /\ d.members = s.members
        /\ d.ready = s.ready
        /\ d.order = s.order
        /\ d.finished = s.finished
    BY <1>1, DetachAllEffect
  <1>3. Lists(qWithout(s.order, e), InQueue(s) \ {e})
    BY WithoutKeeps, ListedIsLists DEF Good
  <1>4. qWithout(s.order, e) \in Seq(Entry)
    BY <1>3, ListsOver DEF InQueue
  <1> HIDE DEF d
  <1>5. /\ t \in QueueType
        /\ t.status = [s.status EXCEPT ![e] = status]
        /\ t.order = qWithout(s.order, e)
        /\ t.side = d.side
        /\ t.match = d.match
        /\ t.matchId = d.matchId
        /\ t.site = d.site
        /\ t.members = s.members
        /\ t.ready = s.ready
        /\ t.finished = s.finished
    BY <1>1, <1>2, <1>4 DEF CloseEntry, Detach, QueueType, EntryStatus, d
  <1> HIDE DEF t
  <1>6. s.status \in [Entry -> EntryStatus]
    BY DEF Good, QueueType
  <1>7. InQueue(t) = InQueue(s) \ {e}
    BY <1>1, <1>5, <1>6 DEF InQueue, Queued
  <1>8. Lists(t.order, InQueue(t))
    BY <1>3, <1>5, <1>7
  <1>9. Good(t)
    BY <1>1, <1>5, <1>6, <1>8, LeavingKeeps DEF d
  <1> QED
    BY <1>9 DEF t

\* SkipEntry "end": the entry leaves the match and goes behind the others.
LEMMA SkipKeeps ==
  ASSUME NEW s, Good(s), NEW e \in InQueue(s), s.status[e] # "performing"
  PROVE  LET t == ResetEntry(Detach(s, e), e, "skipped")
         IN  Good([t EXCEPT !.order = qPlaceSkipped(Load(t), t.order, e)])
  <1> DEFINE d == DetachAll(s, {e})
             r == ResetEntry(Detach(s, e), e, "skipped")
             t == [r EXCEPT !.order = qPlaceSkipped(Load(r), r.order, e)]
  <1>1. e \in Entry
    BY DEF InQueue
  <1>2. /\ d \in QueueType
        /\ d.status = s.status
        /\ d.members = s.members
        /\ d.ready = s.ready
        /\ d.order = s.order
        /\ d.finished = s.finished
    BY <1>1, DetachAllEffect
  <1> HIDE DEF d
  <1>3. /\ r \in QueueType
        /\ r.status = [s.status EXCEPT ![e] = "skipped"]
        /\ r.ready = [s.ready EXCEPT ![e] = {}]
        /\ r.order = s.order
        /\ r.side = d.side
        /\ r.match = d.match
        /\ r.matchId = d.matchId
        /\ r.site = d.site
        /\ r.members = s.members
        /\ r.finished = s.finished
    BY <1>1, <1>2 DEF ResetEntry, Detach, QueueType, EntryStatus, d
  <1> HIDE DEF r
  <1>4. Lists(qPlaceSkipped(Load(r), r.order, e), InQueue(s))
    BY <1>3, MovesKeep, ListedIsLists DEF Good
  <1>5. qPlaceSkipped(Load(r), r.order, e) \in Seq(Entry)
    BY <1>4, ListsOver DEF InQueue
  <1>6. /\ t \in QueueType
        /\ t.status = r.status
        /\ t.ready = r.ready
        /\ t.order = qPlaceSkipped(Load(r), r.order, e)
        /\ t.side = d.side
        /\ t.match = d.match
        /\ t.matchId = d.matchId
        /\ t.site = d.site
        /\ t.members = s.members
        /\ t.finished = s.finished
    BY <1>3, <1>5 DEF QueueType
  <1> HIDE DEF t
  <1>7. /\ s.status \in [Entry -> EntryStatus]
        /\ s.ready \in [Entry -> SUBSET User]
    BY DEF Good, QueueType
  <1>8. InQueue(t) = InQueue(s)
    BY <1>1, <1>3, <1>6, <1>7 DEF InQueue, Queued
  <1>9. Lists(t.order, InQueue(t))
    BY <1>4, <1>6, <1>8
  <1>10. Good(t)
    BY <1>1, <1>3, <1>6, <1>7, <1>9, LeavingKeeps DEF d
  <1> QED
    BY <1>10 DEF t, r

\* While the match row stays, only entries that are not called, or called ones
\* that become ready, may change.
LEMMA SameMatchMatched ==
  ASSUME NEW s, Good(s), NEW t,
         t.side = s.side, t.match = s.match, t.matchId = s.matchId, t.site = s.site,
         \A e \in Entry :
           \/ t.status[e] = s.status[e] /\ t.members[e] \subseteq s.members[e]
           \/ {s.status[e], t.status[e]} \subseteq {"invited", "ready"}
           \/ {s.status[e], t.status[e]} \subseteq {"none", "waiting", "skipped"}
  PROVE  Matched(t)
  <1>1. Taken(t) = Taken(s)
    BY DEF Taken
  <1>2. Matched(s)
    BY DEF Good
  <1>3. \A e \in Entry :
        /\ s.status[e] \in {"invited", "ready"} <=>
              s.match = "preparing" /\ e \in Taken(s)
        /\ s.status[e] = "performing" => s.match = "live" /\ e \in Taken(s)
        /\ s.match = "live" /\ e \in Taken(s) =>
              \/ s.status[e] = "performing"
              \/ s.status[e] = "removed" /\ s.members[e] = {}
    BY <1>2 DEF Matched
  <1>4. \A e \in Entry :
        /\ t.status[e] \in {"invited", "ready"} <=>
              t.match = "preparing" /\ e \in Taken(t)
        /\ t.status[e] = "performing" => t.match = "live" /\ e \in Taken(t)
        /\ t.match = "live" /\ e \in Taken(t) =>
              \/ t.status[e] = "performing"
              \/ t.status[e] = "removed" /\ t.members[e] = {}
    BY <1>1, <1>3
  <1>5. t.match = "live" => NoEntry \notin {t.side[i] : i \in Side}
    BY <1>2 DEF Matched
  <1> QED
    BY <1>1, <1>2, <1>4, <1>5 DEF Matched

\* Another order of the same entries.
LEMMA ReorderKeeps ==
  ASSUME NEW s, Good(s), NEW order, Lists(order, InQueue(s))
  PROVE  Good([s EXCEPT !.order = order])
  <1> DEFINE t == [s EXCEPT !.order = order]
  <1>1. order \in Seq(Entry)
    BY ListsOver DEF InQueue
  <1>2. /\ t \in QueueType
        /\ t.order = order
        /\ t.status = s.status
        /\ t.members = s.members
        /\ t.ready = s.ready
        /\ t.finished = s.finished
        /\ t.side = s.side
        /\ t.match = s.match
        /\ t.matchId = s.matchId
        /\ t.site = s.site
    BY <1>1 DEF Good, QueueType
  <1> HIDE DEF t
  <1>3. InQueue(t) = InQueue(s)
    BY <1>2 DEF InQueue
  <1>4. Listed(t) /\ Single(t)
    BY <1>2, <1>3, FewerKeeps
  <1>5. Matched(t)
    BY <1>2, SameMatchMatched
  <1>6. Confirmed(t) /\ Blank(t)
    BY <1>2 DEF Good, Confirmed, Blank
  <1>7. Good(t)
    BY <1>2, <1>4, <1>5, <1>6 DEF Good
  <1> QED
    BY <1>7 DEF t

\* PromotePriority only reorders.
LEMMA PromotedKeeps ==
  ASSUME NEW s, Good(s), NEW e \in InQueue(s)
  PROVE  Good(Promoted(s, e))
  BY MovesKeep, ListedIsLists, ReorderKeeps DEF Good, Promoted

\* MoveEntry only reorders.
LEMMA MoveKeeps ==
  ASSUME NEW s, Good(s), NEW e \in InQueue(s), NEW pos \in Int
  PROVE  Good([s EXCEPT !.order = qMoveTo(Load(s), s.order, e, pos)])
  BY MovesKeep, ListedIsLists, ReorderKeeps DEF Good

\* refreshReady: a called entry gets confirmations, and is ready when it has all.
LEMMA RefreshReadyKeeps ==
  ASSUME NEW s, Good(s), NEW e \in Entry, NEW confirmed \in SUBSET User,
         \/ s.status[e] = "invited"
         \/ s.status[e] = "ready" /\ s.members[e] \subseteq confirmed
  PROVE  Good(RefreshReady(s, e, confirmed))
  <1> DEFINE t == RefreshReady(s, e, confirmed)
  <1>1. /\ t \in QueueType
        /\ t.status = [s.status EXCEPT ![e] =
                         IF s.members[e] \subseteq confirmed THEN "ready"
                                                             ELSE s.status[e]]
        /\ t.ready = [s.ready EXCEPT ![e] = confirmed]
        /\ t.order = s.order
        /\ t.members = s.members
        /\ t.finished = s.finished
        /\ t.side = s.side
        /\ t.match = s.match
        /\ t.matchId = s.matchId
        /\ t.site = s.site
    BY DEF RefreshReady, Good, QueueType, EntryStatus
  <1> HIDE DEF t
  <1>2. /\ s.status \in [Entry -> EntryStatus]
        /\ s.ready \in [Entry -> SUBSET User]
    BY DEF Good, QueueType
  <1>3. InQueue(t) = InQueue(s)
    BY <1>1, <1>2 DEF InQueue, Queued
  <1>4. Listed(t) /\ Single(t)
    BY <1>1, <1>3, FewerKeeps, ListedIsLists DEF Good
  <1>5. Matched(t)
    BY <1>1, <1>2, SameMatchMatched
  <1>6. Confirmed(t) /\ Blank(t)
    BY <1>1, <1>2 DEF Good, Confirmed, Blank, qEligible
  <1>7. Good(t)
    BY <1>1, <1>4, <1>5, <1>6 DEF Good
  <1> QED
    BY <1>7 DEF t

\* ReturnEntry: a skipped entry waits again, at the place asked for.
LEMMA ReturnKeeps ==
  ASSUME NEW s, Good(s), NEW e \in Entry, s.status[e] = "skipped",
         NEW pos \in Int
  PROVE  LET t == ResetEntry(s, e, "waiting")
         IN  Good([t EXCEPT !.order = qMoveTo(Load(t), t.order, e, pos)])
  <1> DEFINE t == ResetEntry(s, e, "waiting")
  <1>1. /\ t \in QueueType
        /\ t.status = [s.status EXCEPT ![e] = "waiting"]
        /\ t.ready = [s.ready EXCEPT ![e] = {}]
        /\ t.order = s.order
        /\ t.members = s.members
        /\ t.finished = s.finished
        /\ t.side = s.side
        /\ t.match = s.match
        /\ t.matchId = s.matchId
        /\ t.site = s.site
    BY DEF ResetEntry, Good, QueueType, EntryStatus
  <1> HIDE DEF t
  <1>2. /\ s.status \in [Entry -> EntryStatus]
        /\ s.ready \in [Entry -> SUBSET User]
    BY DEF Good, QueueType
  <1>3. InQueue(t) = InQueue(s) /\ e \in InQueue(t)
    BY <1>1, <1>2 DEF InQueue, Queued
  <1>4. Listed(t) /\ Single(t)
    BY <1>1, <1>3, FewerKeeps, ListedIsLists DEF Good
  <1>5. Matched(t)
    BY <1>1, <1>2, SameMatchMatched
  <1>6. Confirmed(t) /\ Blank(t)
    BY <1>1, <1>2 DEF Good, Confirmed, Blank, qEligible
  <1>7. Good(t)
    BY <1>1, <1>4, <1>5, <1>6 DEF Good
  <1> QED
    BY <1>3, <1>7, MoveKeeps DEF t

\* Nobody is called when no match is open.
LEMMA NoMatchMatched ==
  ASSUME NEW t,
         t.match = "none", t.matchId = NoMatch, t.side = NoSides, t.site = "none",
         \A e \in Entry : ~qInMatch(t.status[e])
  PROVE  Matched(t)
  <1>1. Taken(t) = {} /\ t.side[1] = NoEntry /\ t.side[2] = NoEntry
    BY DEF Taken, NoSides, Side
  <1> QED
    BY <1>1 DEF Matched, qInMatch

\* Every entry that is called or performs is one of the entries cancelMatch and
\* finishMatch look at.
LEMMA CalledAreTaken ==
  ASSUME NEW s, Good(s), NEW e \in Entry, qInMatch(s.status[e])
  PROVE  e \in Taken(s) \cap InQueue(s)
  <1>1. e \in Taken(s)
    BY DEF Good, Matched, qInMatch
  <1>2. e \in InQueue(s)
    BY DEF InQueue, Queued, qInMatch
  <1> QED
    BY <1>1, <1>2

\* cancelMatch: the entries wait again where they stand.
LEMMA CancelMatchKeeps ==
  ASSUME NEW s, Good(s)
  PROVE  Good(CancelMatch(s))
  <1> DEFINE alive == Taken(s) \cap InQueue(s)
             t == CancelMatch(s)
  <1> HIDE DEF alive
  <1>1. /\ t \in QueueType
        /\ t.status = [e \in Entry |-> IF e \in alive THEN "waiting" ELSE s.status[e]]
        /\ t.ready = [e \in Entry |-> IF e \in alive THEN {} ELSE s.ready[e]]
        /\ t.order = s.order
        /\ t.members = s.members
        /\ t.finished = s.finished
        /\ t.side = NoSides
        /\ t.match = "none"
        /\ t.matchId = NoMatch
        /\ t.site = "none"
    BY DEF CancelMatch, ForgetMatch, Good, QueueType, EntryStatus, NoSides, Side, alive
  <1> HIDE DEF t
  <1>2. InQueue(t) = InQueue(s)
    BY <1>1 DEF InQueue, Queued, alive
  <1>3. Listed(t) /\ Single(t)
    BY <1>1, <1>2, FewerKeeps, ListedIsLists DEF Good
  <1>4. Matched(t)
    <2>1. \A e \in Entry : ~qInMatch(t.status[e])
      BY <1>1, CalledAreTaken DEF qInMatch, alive
    <2> QED
      BY <2>1, <1>1, NoMatchMatched
  <1>5. Confirmed(t) /\ Blank(t)
    BY <1>1 DEF Good, Confirmed, Blank, qEligible
  <1>6. Good(t)
    BY <1>1, <1>3, <1>4, <1>5 DEF Good
  <1> QED
    BY <1>6 DEF t

\* finishMatch: the entries leave the queue and the match is remembered.
LEMMA FinishMatchKeeps ==
  ASSUME NEW s, Good(s)
  PROVE  Good(FinishMatch(s))
  <1> DEFINE alive == Taken(s) \cap InQueue(s)
             order == qAllBut(s.order, alive)
             t == FinishMatch(s)
  <1>1. Lists(order, InQueue(s) \ alive)
    BY AllButKeeps, ListedIsLists DEF Good
  <1>2. order \in Seq(Entry)
    BY <1>1, ListsOver DEF InQueue
  <1>3. s \in QueueType /\ IsFiniteSet(s.finished)
    BY DEF Good
  <1>4. Taken(s) \in SUBSET Entry
    BY <1>3 DEF Taken, QueueType
  <1> HIDE DEF alive, order
  <1>5. \A e \in Entry : s.performed[e] + (IF e \in alive THEN 1 ELSE 0) \in Nat
    BY <1>3 DEF QueueType
  <1>6. /\ t \in QueueType
        /\ t.status = [e \in Entry |-> IF e \in alive THEN "left" ELSE s.status[e]]
        /\ t.ready = s.ready
        /\ t.order = order
        /\ t.members = s.members
        /\ t.finished = s.finished \cup {Taken(s)}
        /\ t.side = NoSides
        /\ t.match = "none"
        /\ t.matchId = NoMatch
        /\ t.site = "none"
    BY <1>2, <1>3, <1>4, <1>5
       DEF FinishMatch, ForgetMatch, QueueType, EntryStatus, NoSides, Side, alive, order
  <1> HIDE DEF t
  <1>7. InQueue(t) = InQueue(s) \ alive
    BY <1>6 DEF InQueue, Queued
  <1>8. Listed(t) /\ Single(t)
    BY <1>1, <1>6, <1>7, FewerKeeps
  <1>9. Matched(t)
    <2>1. \A e \in Entry : ~qInMatch(t.status[e])
      BY <1>6, CalledAreTaken DEF qInMatch, alive
    <2> QED
      BY <2>1, <1>6, NoMatchMatched
  <1>10. Confirmed(t) /\ Blank(t)
    BY <1>6 DEF Good, Confirmed, Blank, qEligible
  <1>11. IsFiniteSet(t.finished)
    BY <1>3, <1>6, FS_AddElement
  <1>12. Good(t)
    BY <1>6, <1>8, <1>9, <1>10, <1>11 DEF Good
  <1> QED
    BY <1>12 DEF t

\* goLive: both sides are taken and their entries perform.
LEMMA GoLiveKeeps ==
  ASSUME NEW s, Good(s), s.match = "preparing",
         \A i \in Side : s.side[i] # NoEntry, Taken(s) \subseteq InQueue(s),
         NEW siteStatus \in {"open", "finished"}
  PROVE  Good(GoLive(s, siteStatus))
  <1> DEFINE t == GoLive(s, siteStatus)
  <1>1. /\ t \in QueueType
        /\ t.status = [e \in Entry |-> IF e \in Taken(s) THEN "performing"
                                       ELSE s.status[e]]
        /\ t.ready = s.ready
        /\ t.order = s.order
        /\ t.members = s.members
        /\ t.finished = s.finished
        /\ t.side = s.side
        /\ t.match = "live"
        /\ t.matchId = s.matchId
    BY DEF GoLive, Good, QueueType, EntryStatus
  <1> HIDE DEF t
  <1>2. InQueue(t) = InQueue(s)
    BY <1>1 DEF InQueue, Queued
  <1>3. Listed(t) /\ Single(t)
    BY <1>1, <1>2, FewerKeeps, ListedIsLists DEF Good
  <1>4. Taken(t) = Taken(s)
    BY <1>1 DEF Taken
  <1>5. Matched(t)
    <2>1. Matched(s)
      BY DEF Good
    <2>2. /\ Taken(t) # {}
          /\ t.matchId # NoMatch
          /\ t.side[1] = t.side[2] => t.side[1] = NoEntry
      BY <2>1, <1>1, <1>4 DEF Matched
    <2>3. NoEntry \notin {t.side[i] : i \in Side}
      BY <1>1
    <2>4. \A e \in Entry :
             /\ s.status[e] \in {"invited", "ready"} => e \in Taken(s)
             /\ s.status[e] # "performing"
      BY <2>1 DEF Matched
    <2>5. \A e \in Entry :
             /\ t.status[e] \notin {"invited", "ready"}
             /\ t.status[e] = "performing" <=> e \in Taken(t)
      BY <2>4, <1>1, <1>4
    <2> QED
      BY <2>2, <2>3, <2>5, <1>1 DEF Matched
  <1>6. Confirmed(t) /\ Blank(t)
    BY <1>1 DEF Good, Confirmed, Blank, qEligible
  <1>7. Good(t)
    BY <1>1, <1>3, <1>5, <1>6 DEF Good
  <1> QED
    BY <1>7 DEF t

\* callEntry: the entry takes the free side and stands with the called ones.
LEMMA InviteKeeps ==
  ASSUME NEW s, Good(s), s.match # "live", \E i \in Side : s.side[i] = NoEntry,
         NEW e \in Entry, qEligible(s.status[e]), NEW id \in MatchId
  PROVE  Good(Invite(s, e, id))
  <1> DEFINE free == FreeSide(s)
             order == qPlaceCalled(Load(s), s.order, e)
             t == Invite(s, e, id)
  <1>1. e \in InQueue(s)
    BY DEF InQueue, Queued, qEligible
  <1>2. Lists(order, InQueue(s))
    BY <1>1, MovesKeep, ListedIsLists DEF Good
  <1>3. order \in Seq(Entry)
    BY <1>2, ListsOver DEF InQueue
  <1>4. /\ s.side \in [Side -> Entry \cup {NoEntry}]
        /\ s.status \in [Entry -> EntryStatus]
        /\ s.ready \in [Entry -> SUBSET User]
    BY DEF Good, QueueType
  <1>5. free \in Side /\ s.side[free] = NoEntry
    BY DEF FreeSide, Side
  <1> HIDE DEF free, order
  <1>6. /\ t \in QueueType
        /\ t.status = [s.status EXCEPT ![e] = "invited"]
        /\ t.ready = [s.ready EXCEPT ![e] = {}]
        /\ t.order = order
        /\ t.members = s.members
        /\ t.finished = s.finished
        /\ t.side = [s.side EXCEPT ![free] = e]
        /\ t.match = "preparing"
        /\ t.matchId = id
        /\ t.site = s.site
    BY <1>3, <1>5 DEF Invite, Good, QueueType, EntryStatus, free, order
  <1> HIDE DEF t
  <1>7. InQueue(t) = InQueue(s)
    BY <1>1, <1>4, <1>6 DEF InQueue, Queued
  <1>8. Listed(t) /\ Single(t)
    BY <1>2, <1>6, <1>7, FewerKeeps
  <1>9. Matched(t)
    <2>1. Matched(s)
      BY DEF Good
    <2>2. NoEntry \notin Entry /\ NoMatch \notin MatchId
      BY ConstantsAssumption
    <2>3. Taken(t) = Taken(s) \cup {e}
      BY <2>2, <1>4, <1>5, <1>6 DEF Taken, Side
    <2>4. (s.match = "none" /\ Taken(s) = {}) \/ s.match = "preparing"
      BY <2>1 DEF Good, QueueType, Matched
    <2>5. \A f \in Entry : /\ s.status[f] \in {"invited", "ready"} <=> f \in Taken(s)
                           /\ s.status[f] # "performing"
      BY <2>1, <2>4 DEF Matched
    <2>6. t.side[1] # t.side[2]
      <3>1. e \notin Taken(s)
        BY <2>5 DEF qEligible
      <3> QED
        BY <3>1, <2>2, <1>4, <1>5, <1>6 DEF Taken, Side
    <2>7. \A f \in Entry : /\ t.status[f] \in {"invited", "ready"} <=> f \in Taken(t)
                           /\ t.status[f] # "performing"
      BY <2>3, <2>5, <1>4, <1>6
    <2>8. /\ t.match = "preparing"
          /\ t.matchId # NoMatch
          /\ t.site = "none"
          /\ Taken(t) # {}
      BY <2>1, <2>2, <2>3, <1>6 DEF Matched
    <2> QED
      BY <2>6, <2>7, <2>8 DEF Matched
  <1>10. Confirmed(t) /\ Blank(t)
    BY <1>4, <1>6 DEF Good, Confirmed, Blank, qEligible
  <1>11. Good(t)
    BY <1>6, <1>8, <1>9, <1>10 DEF Good
  <1> QED
    BY <1>11 DEF t

\* JoinQueue: players who stand nowhere take one more place, if there is one.
LEMMA EnqueueKeeps ==
  ASSUME NEW s, Good(s), NEW e \in Entry, s.status[e] = "none",
         NEW party \in SUBSET User, ~Busy(s, party),
         Len(s.order) < QueueMaxEntries
  PROVE  Good(Enqueue(s, e, party))
  <1> DEFINE count == Performances(s, party)
             n == [s EXCEPT !.status[e] = "waiting", !.members[e] = party,
                            !.performed[e] = count]
             behind == qPlaceNew(Load(n), s.order, e)
             order == qPlacePriority(Load(n), behind, e)
             t == Enqueue(s, e, party)
  <1>1. t = [n EXCEPT !.order = order]
    BY DEF Enqueue
  <1>2. count \in Nat
    <2> DEFINE theirs == {f \in s.finished :
                            \E x \in f : s.members[x] \cap party # {}}
    <2>1. theirs \in SUBSET s.finished /\ IsFiniteSet(s.finished)
      BY DEF Good
    <2>2. Cardinality(theirs) \in Nat
      BY <2>1, FS_Subset, FS_CardinalityType
    <2> QED
      BY <2>2 DEF Performances
  <1>3. /\ s.status \in [Entry -> EntryStatus]
        /\ s.members \in [Entry -> SUBSET User]
        /\ s.ready \in [Entry -> SUBSET User]
    BY DEF Good, QueueType
  <1>4. e \notin InQueue(s)
    BY DEF InQueue, Queued
  <1> DEFINE T == InQueue(s) \cup {e}
  <1>5. /\ Lists(s.order, InQueue(s))
        /\ Len(s.order) <= QueueMaxEntries
        /\ Len(s.order) \in Nat
    BY ListedIsLists, ListLength DEF Good
  <1>6. Lists(behind, T)
    <2> HIDE DEF n
    <2> QED
      BY <1>4, <1>5, PlaceNewKeeps
  <1>7. Lists(order, T)
    <2> HIDE DEF n, behind
    <2>1. e \in T
      OBVIOUS
    <2> HIDE DEF T
    <2> QED
      BY <2>1, <1>6, MovesKeep
  <1>8. order \in Seq(Entry)
    <2> HIDE DEF order
    <2>1. T \subseteq Entry
      BY DEF InQueue
    <2> QED
      BY <2>1, <1>7, ListsOver
  <1> HIDE DEF count
  <1>9. /\ n \in QueueType
        /\ n.status = [s.status EXCEPT ![e] = "waiting"]
        /\ n.members = [s.members EXCEPT ![e] = party]
        /\ n.ready = s.ready
        /\ n.finished = s.finished
        /\ n.side = s.side
        /\ n.match = s.match
        /\ n.matchId = s.matchId
        /\ n.site = s.site
    BY <1>2 DEF Good, QueueType, EntryStatus
  <1> HIDE DEF n, behind, order
  <1>10. /\ t \in QueueType
         /\ t.status = [s.status EXCEPT ![e] = "waiting"]
         /\ t.members = [s.members EXCEPT ![e] = party]
         /\ t.ready = s.ready
         /\ t.order = order
         /\ t.finished = s.finished
         /\ t.side = s.side
         /\ t.match = s.match
         /\ t.matchId = s.matchId
         /\ t.site = s.site
    BY <1>1, <1>8, <1>9 DEF QueueType
  <1> HIDE DEF t
  <1>11. InQueue(t) = T
    BY <1>3, <1>10 DEF InQueue, Queued
  <1>12. Listed(t)
    <2>1. IsFiniteSet(InQueue(s)) /\ Cardinality(InQueue(s)) = Len(s.order)
      BY <1>5, ListLength
    <2>2. Cardinality(T) = Len(s.order) + 1
      BY <2>1, <1>4, FS_AddElement
    <2>3. Len(order) = Len(s.order) + 1
      BY <2>2, <1>7, ListLength
    <2>4. Len(order) <= QueueMaxEntries
      BY <2>3, <1>5, ConstantsAssumption
    <2> QED
      BY <2>4, <1>7, <1>10, <1>11, ListedIsLists
  <1>13. Single(t)
    <2> SUFFICES ASSUME NEW a \in T, NEW b \in T, a # b
                 PROVE  t.members[a] \cap t.members[b] = {}
      BY <1>11 DEF Single
    <2>1. \A f \in InQueue(s) : s.members[f] \cap party = {}
      BY DEF Busy
    <2>2. t.members[e] = party
      BY <1>3, <1>10
    <2>3. \A f \in InQueue(s) : t.members[f] = s.members[f]
      BY <1>3, <1>4, <1>10 DEF InQueue
    <2>4. a \in InQueue(s) /\ b \in InQueue(s) => t.members[a] \cap t.members[b] = {}
      BY <2>3 DEF Good, Single
    <2> QED
      BY <2>1, <2>2, <2>3, <2>4
  <1>14. Matched(t)
    BY <1>3, <1>10, SameMatchMatched
  <1>15. Confirmed(t) /\ Blank(t)
    BY <1>3, <1>10 DEF Good, Confirmed, Blank, qEligible
  <1>16. Good(t)
    BY <1>10, <1>12, <1>13, <1>14, <1>15 DEF Good
  <1> QED
    BY <1>16 DEF t

\* A new session starts empty.
LEMMA EmptyQueueGood ==
  Good(EmptyQueue)
  <1> DEFINE t == EmptyQueue
  <1>1. /\ t \in QueueType
        /\ t.status = [e \in Entry |-> "none"]
        /\ t.ready = [e \in Entry |-> {}]
        /\ t.order = <<>>
        /\ t.finished = {}
        /\ t.match = "none"
        /\ t.matchId = NoMatch
        /\ t.side = NoSides
        /\ t.site = "none"
    BY DEF EmptyQueue, QueueType, EntryStatus, NoSides, Side
  <1> HIDE DEF t
  <1>2. InQueue(t) = {}
    BY <1>1 DEF InQueue, Queued
  <1>3. Listed(t)
    <2>1. DOMAIN t.order = {} /\ Len(t.order) = 0
      BY <1>1
    <2>2. IsInjective(t.order) /\ Range(t.order) = {}
      BY <2>1 DEF IsInjective, Range
    <2> QED
      BY <2>1, <2>2, <1>2, ConstantsAssumption DEF Listed
  <1>4. Single(t)
    BY <1>2 DEF Single
  <1>5. Matched(t)
    BY <1>1, NoMatchMatched DEF qInMatch
  <1>6. Confirmed(t) /\ Blank(t)
    BY <1>1 DEF Confirmed, Blank
  <1>7. IsFiniteSet(t.finished)
    BY <1>1, FS_EmptySet
  <1>8. Good(t)
    BY <1>1, <1>3, <1>4, <1>5, <1>6, <1>7 DEF Good
  <1> QED
    BY <1>8 DEF t

-------------------------------------------------------------------------------
(* Steps. *)

\* What an operation leaves behind is good when the rows it writes are.
LEMMA CommitKeeps ==
  ASSUME IInv, NEW t, Good(t), Commit(t)
  PROVE  IInv'
  <1>1. q' = t /\ Good(q')
    BY DEF Commit
  <1>2. session' \in SessionType
    BY DEF IInv, TypeOK, Commit, SessionType
  <1>3. q' \in QueueType
    BY <1>1 DEF Good
  <1>4. TypeOK'
    BY <1>2, <1>3 DEF IInv, TypeOK, Commit, env
  <1> QED
    BY <1>1, <1>4 DEF IInv

\* A step that commits good rows and changes neither players nor requests.
LEMMA RowsKeep ==
  ASSUME IInv, Good(q'), session' \in SessionType,
         UNCHANGED <<users, prioAt, settling>>,
         played' \in SUBSET User, siteToday' \in BOOLEAN,
         promoting' \in [User -> {"no", "spent", "chosen"}]
  PROVE  IInv'
  <1>1. q' \in QueueType
    BY DEF Good
  <1>2. TypeOK'
    BY <1>1 DEF IInv, TypeOK
  <1> QED
    BY <1>2 DEF IInv

\* Every operation starts from swept rows.
LEMMA SweptGood ==
  ASSUME IInv
  PROVE  Good(Swept)
  BY SweepGhostsKeeps DEF IInv, Swept

\* What a player asks for.
LEMMA PlayerKeeps ==
  ASSUME IInv, PlayerNext
  PROVE  IInv'
  <1> DEFINE s == Swept
  <1>1. Good(s)
    BY SweptGood
  <1> HIDE DEF s
  <1>2. ASSUME NEW party \in Parties, NEW byOrganizer \in BOOLEAN,
               JoinQueue(party, byOrganizer)
        PROVE  IInv'
    <2>1. PICK e \in Entry : s.status[e] = "none" /\ Commit(Enqueue(s, e, party))
      BY <1>2 DEF JoinQueue, s
    <2>2. ~Busy(s, party) /\ Len(s.order) < QueueMaxEntries
      BY <1>2 DEF JoinQueue, s
    <2>3. party \in SUBSET User
      BY ConstantsAssumption DEF IInv, TypeOK, Parties
    <2>4. Good(Enqueue(s, e, party))
      BY <2>1, <2>2, <2>3, <1>1, EnqueueKeeps
    <2> QED
      BY <2>1, <2>4, CommitKeeps
  <1>3. ASSUME NEW u \in User, LeaveQueue(u)
        PROVE  IInv'
    <2>1. PICK e \in InQueue(s) : /\ s.status[e] # "performing"
                                  /\ Commit(CloseEntry(s, e, "left"))
      BY <1>3 DEF LeaveQueue, EntryOf, s
    <2>2. Good(CloseEntry(s, e, "left"))
      BY <2>1, <1>1, CloseEntryKeeps
    <2> QED
      BY <2>1, <2>2, CommitKeeps
  <1>4. ASSUME NEW u \in User, ConfirmReady(u)
        PROVE  IInv'
    <2>1. PICK e \in InQueue(s) :
            \/ s.status[e] = "invited" /\ Commit(RefreshReady(s, e, s.ready[e] \cup {u}))
            \/ Commit(s)
      BY <1>4 DEF ConfirmReady, EntryOf, s
    <2>2. e \in Entry /\ s.ready[e] \cup {u} \in SUBSET User
      BY <1>1 DEF InQueue, Good, QueueType
    <2>3. s.status[e] = "invited" => Good(RefreshReady(s, e, s.ready[e] \cup {u}))
      BY <2>2, <1>1, RefreshReadyKeeps
    <2> QED
      BY <2>1, <2>3, <1>1, CommitKeeps
  <1>5. ASSUME NEW u \in User, ActivatePriority(u)
        PROVE  IInv'
    <2> DEFINE active == {v \in User : prioAt[v] # 0}
    <2>1. Cardinality(active) \in Nat
      BY ConstantsAssumption, FS_Subset, FS_CardinalityType
    <2>2. prioAt' \in [User -> Nat] /\ promoting' \in [User -> {"no", "spent", "chosen"}]
      <3> HIDE DEF active
      <3>1. prioAt' = [prioAt EXCEPT ![u] = 1 + Cardinality(active)]
        BY <1>5 DEF ActivatePriority, active
      <3> QED
        BY <3>1, <2>1, <1>5 DEF ActivatePriority, IInv, TypeOK
    <2>3. q' = q /\ UNCHANGED <<session, users, played, siteToday, settling>>
      BY <1>5 DEF ActivatePriority
    <2>4. TypeOK'
      BY <2>2, <2>3 DEF IInv, TypeOK
    <2> QED
      BY <2>3, <2>4 DEF IInv
  <1> QED
    BY <1>2, <1>3, <1>4, <1>5 DEF PlayerNext

\* callEntry, by id or for the next in the queue.
LEMMA CallKeeps ==
  ASSUME IInv, NEW s, Good(s), NEW e \in Entry, Call(s, e)
  PROVE  IInv'
  <1>1. PICK id \in CalledMatchIds(s) : Commit(Invite(s, e, id))
    BY DEF Call
  <1>2. id \in MatchId
    BY ConstantsAssumption DEF CalledMatchIds, Good, QueueType, Matched
  <1>3. Good(Invite(s, e, id))
    BY <1>2, InviteKeeps DEF Call
  <1> QED
    BY <1>1, <1>3, CommitKeeps

\* What an organizer does to one entry.
LEMMA EntryKeeps ==
  ASSUME IInv, NEW e \in Entry, EntryNext(e)
  PROVE  IInv'
  <1> DEFINE s == Swept
  <1>1. Good(s)
    BY SweptGood
  <1> HIDE DEF s
  <1>2. /\ s.ready \in [Entry -> SUBSET User]
        /\ s.members \in [Entry -> SUBSET User]
    BY <1>1 DEF Good, QueueType
  <1>3. CASE ConfirmEntry(e)
    <2>1. /\ s.status[e] \in {"invited", "ready"}
          /\ Commit(RefreshReady(s, e, s.members[e]))
      BY <1>3 DEF ConfirmEntry, s
    <2>2. Good(RefreshReady(s, e, s.members[e]))
      BY <2>1, <1>1, <1>2, RefreshReadyKeeps
    <2> QED
      BY <2>1, <2>2, CommitKeeps
  <1>4. CASE CallEntry(e)
    BY <1>1, <1>4, CallKeeps DEF CallEntry, s
  <1>5. ASSUME NEW mode \in {"end", "remove"}, SkipEntry(e, mode)
        PROVE  IInv'
    <2> DEFINE t == ResetEntry(Detach(s, e), e, "skipped")
               r == [t EXCEPT !.order = qPlaceSkipped(Load(t), t.order, e)]
    <2>1. /\ e \in InQueue(s)
          /\ s.status[e] # "performing"
          /\ Commit(CloseEntry(s, e, "removed")) \/ Commit(r)
      BY <1>5 DEF SkipEntry, s
    <2>2. Good(CloseEntry(s, e, "removed")) /\ Good(r)
      BY <2>1, <1>1, CloseEntryKeeps, SkipKeeps
    <2> HIDE DEF r
    <2> QED
      BY <2>1, <2>2, CommitKeeps
  <1>6. ASSUME NEW position \in 0..QueueMaxEntries, ReturnEntry(e, position)
        PROVE  IInv'
    <2> DEFINE t == ResetEntry(s, e, "waiting")
               at == IF position <= 0 THEN qInflight(Load(t), t.order) + 1
                                      ELSE position
               r == [t EXCEPT !.order = qMoveTo(Load(t), t.order, e, at)]
    <2>1. s.status[e] = "skipped" /\ Commit(r)
      BY <1>6 DEF ReturnEntry, s
    <2>2. at \in Int
      <3>1. Lists(s.order, InQueue(s)) /\ t.order = s.order
        BY <1>1, ListedIsLists DEF ResetEntry, Good, QueueType
      <3>2. qInflight(Load(t), t.order) \in Int
        BY <3>1, IndexTypes
      <3> HIDE DEF t
      <3> QED
        BY <3>2, ConstantsAssumption
    <2> HIDE DEF at
    <2>3. Good(r)
      BY <2>1, <2>2, <1>1, ReturnKeeps
    <2> HIDE DEF r
    <2> QED
      BY <2>1, <2>3, CommitKeeps
  <1>7. ASSUME NEW toPosition \in 1..QueueMaxEntries, NEW rev,
               MoveEntry(e, toPosition, rev)
        PROVE  IInv'
    <2> DEFINE r == [s EXCEPT !.order = qMoveTo(Load(s), s.order, e, toPosition)]
    <2>1. e \in InQueue(s) /\ Commit(r)
      BY <1>7 DEF MoveEntry, s
    <2>2. Good(r)
      BY <2>1, <1>1, MoveKeeps, ConstantsAssumption
    <2> HIDE DEF r
    <2> QED
      BY <2>1, <2>2, CommitKeeps
  <1>8. CASE RemoveEntry(e)
    <2>1. /\ e \in InQueue(s)
          /\ s.status[e] # "performing"
          /\ Commit(CloseEntry(s, e, "removed"))
      BY <1>8 DEF RemoveEntry, s
    <2>2. Good(CloseEntry(s, e, "removed"))
      BY <2>1, <1>1, CloseEntryKeeps
    <2> QED
      BY <2>1, <2>2, CommitKeeps
  <1> QED
    BY <1>3, <1>4, <1>5, <1>6, <1>7, <1>8 DEF EntryNext

\* A session row with the next revision and other settings.
LEMMA SessionKeeps ==
  ASSUME NEW row \in SessionType
  PROVE  /\ \A open, paused \in BOOLEAN :
              [row EXCEPT !.rev = row.rev + 1, !.registrationOpen = open,
                          !.paused = paused] \in SessionType
         /\ \A format \in Formats :
              [row EXCEPT !.rev = row.rev + 1, !.format = format] \in SessionType
         /\ [row EXCEPT !.rev = row.rev + 1, !.status = "finished",
                        !.registrationOpen = FALSE, !.paused = FALSE]
              \in SessionType
  <1> DEFINE rev == row.rev + 1
  <1>1. rev \in Nat \ {0}
    BY DEF SessionType
  <1> HIDE DEF rev
  <1>2. /\ \A open, paused \in BOOLEAN :
             [row EXCEPT !.rev = rev, !.registrationOpen = open,
                         !.paused = paused] \in SessionType
        /\ \A format \in Formats :
             [row EXCEPT !.rev = rev, !.format = format] \in SessionType
        /\ [row EXCEPT !.rev = rev, !.status = "finished",
                       !.registrationOpen = FALSE, !.paused = FALSE] \in SessionType
    BY <1>1 DEF SessionType
  <1> QED
    BY <1>2 DEF rev

\* What an organizer does.
LEMMA OrganizerKeeps ==
  ASSUME IInv, OrganizerNext
  PROVE  IInv'
  <1> DEFINE s == Swept
  <1>1. Good(s)
    BY SweptGood
  <1> HIDE DEF s
  <1>2. ASSUME NEW party \in Parties, JoinQueue(party, TRUE)
        PROVE  IInv'
    <2>1. PICK e \in Entry : s.status[e] = "none" /\ Commit(Enqueue(s, e, party))
      BY <1>2 DEF JoinQueue, s
    <2>2. ~Busy(s, party) /\ Len(s.order) < QueueMaxEntries
      BY <1>2 DEF JoinQueue, s
    <2>3. party \in SUBSET User
      BY ConstantsAssumption DEF IInv, TypeOK, Parties
    <2>4. Good(Enqueue(s, e, party))
      BY <2>1, <2>2, <2>3, <1>1, EnqueueKeeps
    <2> QED
      BY <2>1, <2>4, CommitKeeps
  <1>3. CASE CallNext
    <2>1. PICK e \in InQueue(s) : Call(s, e)
      BY <1>3 DEF CallNext, s
    <2> QED
      BY <2>1, <1>1, CallKeeps DEF InQueue
  <1>4. ASSUME NEW force \in BOOLEAN, StartQueueMatch(force)
        PROVE  IInv'
    <2>1. /\ s.match = "preparing"
          /\ \A i \in Side : s.side[i] # NoEntry
          /\ Taken(s) \subseteq InQueue(s)
      BY <1>4 DEF StartQueueMatch, s
    <2>2. PICK siteStatus \in {"open", "finished"} : q' = GoLive(s, siteStatus)
      BY <1>4 DEF StartQueueMatch, s
    <2>3. Good(q')
      BY <2>1, <2>2, <1>1, GoLiveKeeps
    <2>4. /\ session' \in SessionType
          /\ siteToday' \in BOOLEAN
          /\ UNCHANGED <<users, played, prioAt, settling, promoting>>
      BY <1>4 DEF StartQueueMatch, IInv, TypeOK, SessionType
    <2> QED
      BY <2>3, <2>4, RowsKeep DEF IInv, TypeOK
  <1>5. CASE FinishQueueMatch
    BY <1>1, <1>5, FinishMatchKeeps, CommitKeeps DEF FinishQueueMatch, s
  <1>6. CASE CancelQueueMatch
    BY <1>1, <1>6, CancelMatchKeeps, CommitKeeps DEF CancelQueueMatch, s
  <1>7. ASSUME NEW e \in Entry, EntryNext(e)
        PROVE  IInv'
    BY <1>7, EntryKeeps
  <1>8. ASSUME NEW action \in Modes, SetQueueMode(action)
        PROVE  IInv'
    <2>1. /\ Good(q')
          /\ UNCHANGED <<env, settling, promoting>>
      BY <1>1, <1>8 DEF SetQueueMode, s
    <2>2. session' \in SessionType
      <3> DEFINE registrationOpen == IF action \in {"open", "close"}
                                     THEN action = "open"
                                     ELSE session.registrationOpen
                 paused == IF action \in {"pause", "resume"}
                           THEN action = "pause" ELSE session.paused
      <3>1. session' = [session EXCEPT !.rev = session.rev + 1,
                                       !.registrationOpen = registrationOpen,
                                       !.paused = paused]
        BY <1>8 DEF SetQueueMode
      <3>2. session \in SessionType
        BY DEF IInv, TypeOK
      <3>3. registrationOpen \in BOOLEAN /\ paused \in BOOLEAN
        BY <3>2 DEF SessionType
      <3> HIDE DEF registrationOpen, paused
      <3> QED
        BY <3>1, <3>2, <3>3, SessionKeeps
    <2> QED
      BY <2>1, <2>2, RowsKeep DEF IInv, TypeOK, env
  <1>9. ASSUME NEW format \in Formats, UpdateQueueSession(format)
        PROVE  IInv'
    <2>1. /\ Good(q')
          /\ UNCHANGED <<env, settling, promoting>>
      BY <1>1, <1>9 DEF UpdateQueueSession, s
    <2>2. session' \in SessionType
      <3>1. session' = [session EXCEPT !.rev = session.rev + 1, !.format = format]
        BY <1>9 DEF UpdateQueueSession
      <3>2. session \in SessionType
        BY DEF IInv, TypeOK
      <3> QED
        BY <3>1, <3>2, SessionKeeps
    <2> QED
      BY <2>1, <2>2, RowsKeep DEF IInv, TypeOK, env
  <1>10. CASE FinishQueueSession
    <2>1. /\ q' = CancelMatch(s) \/ q' = s
          /\ UNCHANGED <<env, settling, promoting>>
      BY <1>10 DEF FinishQueueSession, s
    <2>2. Good(q')
      BY <2>1, <1>1, CancelMatchKeeps
    <2>3. session' \in SessionType
      <3>1. session' = [session EXCEPT !.rev = session.rev + 1,
                                       !.status = "finished",
                                       !.registrationOpen = FALSE,
                                       !.paused = FALSE]
        BY <1>10 DEF FinishQueueSession
      <3>2. session \in SessionType
        BY DEF IInv, TypeOK
      <3> QED
        BY <3>1, <3>2, SessionKeeps
    <2> QED
      BY <2>1, <2>2, <2>3, RowsKeep DEF IInv, TypeOK, env
  <1>11. ASSUME NEW format \in Formats, CreateQueueSession(format)
         PROVE  IInv'
    <2>1. Good(q')
      BY <1>11, EmptyQueueGood DEF CreateQueueSession
    <2>2. /\ session' \in SessionType
          /\ promoting' \in [User -> {"no", "spent", "chosen"}]
          /\ UNCHANGED <<env, settling>>
      BY <1>11 DEF CreateQueueSession, FreshSession, IInv, TypeOK, SessionType
    <2> QED
      BY <2>1, <2>2, RowsKeep DEF IInv, TypeOK, env
  <1> QED
    BY <1>2, <1>3, <1>4, <1>5, <1>6, <1>7, <1>8, <1>9, <1>10, <1>11
       DEF OrganizerNext

\* The console changes the site match of a live queue match.
LEMMA SiteKeeps ==
  ASSUME NEW s, Good(s), s.match = "live", NEW site \in {"none", "open", "finished"}
  PROVE  Good([s EXCEPT !.site = site])
  <1> DEFINE t == [s EXCEPT !.site = site]
  <1>1. /\ t \in QueueType
        /\ t.status = s.status
        /\ t.members = s.members
        /\ t.ready = s.ready
        /\ t.order = s.order
        /\ t.finished = s.finished
        /\ t.side = s.side
        /\ t.match = s.match
        /\ t.matchId = s.matchId
    BY DEF Good, QueueType
  <1> HIDE DEF t
  <1>2. InQueue(t) = InQueue(s) /\ Taken(t) = Taken(s)
    BY <1>1 DEF InQueue, Taken
  <1>3. Listed(t) /\ Single(t)
    BY <1>1, <1>2, FewerKeeps, ListedIsLists DEF Good
  <1>4. Matched(t)
    BY <1>1, <1>2 DEF Good, Matched
  <1>5. Confirmed(t) /\ Blank(t)
    BY <1>1 DEF Good, Confirmed, Blank
  <1>6. Good(t)
    BY <1>1, <1>3, <1>4, <1>5 DEF Good
  <1> QED
    BY <1>6 DEF t

\* What the console does, now or when it settles.
LEMMA ConsoleKeeps ==
  ASSUME IInv, ConsoleNext
  PROVE  IInv'
  <1> DEFINE Requests == [match : MatchId, finished : BOOLEAN]
  <1>1. /\ Good(q)
        /\ TypeOK
        /\ settling \in SUBSET Requests
    BY DEF IInv, TypeOK
  <1>2. OnAir(q) \subseteq User
    BY <1>1 DEF OnAir, Taken, TypeOK, QueueType
  <1>3. ASSUME q.match = "live", NEW settles \in BOOLEAN, NEW finished \in BOOLEAN,
               NEW asked \in Asked(settles, finished)
        PROVE  asked \in SUBSET Requests
    <2>1. q.matchId \in MatchId
      BY <1>1, <1>3 DEF Good, Matched, QueueType
    <2>2. [match |-> q.matchId, finished |-> finished] \in Requests
      BY <2>1
    <2> HIDE DEF Requests
    <2> QED
      BY <2>2, <1>1, <1>3 DEF Asked
  <1>4. ASSUME q.match = "live", NEW site \in {"none", "open", "finished"},
               q' = [q EXCEPT !.site = site],
               played' \in SUBSET User,
               settling' \in SUBSET Requests,
               UNCHANGED <<session, users, prioAt, siteToday, promoting>>
        PROVE  IInv'
    <2>1. Good(q')
      BY <1>1, <1>4, SiteKeeps
    <2>2. q' \in QueueType
      BY <2>1 DEF Good
    <2>3. TypeOK'
      BY <2>2, <1>1, <1>4 DEF TypeOK
    <2> QED
      BY <2>1, <2>3 DEF IInv
  <1>5. ASSUME NEW settles \in BOOLEAN, ConsoleFinishes(settles)
        PROVE  IInv'
    <2>1. /\ q.match = "live"
          /\ q' = [q EXCEPT !.site = "finished"]
          /\ played' \in SUBSET User
          /\ settling' \in Asked(settles, TRUE)
          /\ UNCHANGED <<session, users, prioAt, siteToday, promoting>>
      BY <1>1, <1>2, <1>5 DEF ConsoleFinishes, TypeOK
    <2>2. settling' \in SUBSET Requests
      BY <2>1, <1>3
    <2> QED
      BY <2>1, <2>2, <1>4
  <1>6. ASSUME NEW settles \in BOOLEAN, ConsoleDeletes(settles)
        PROVE  IInv'
    <2>1. /\ q.match = "live"
          /\ q' = [q EXCEPT !.site = "none"]
          /\ played' \in SUBSET User
          /\ settling' \in Asked(settles, FALSE)
          /\ UNCHANGED <<session, users, prioAt, siteToday, promoting>>
      BY <1>1, <1>6 DEF ConsoleDeletes, Uncounted, TypeOK
    <2>2. settling' \in SUBSET Requests
      BY <2>1, <1>3
    <2> QED
      BY <2>1, <2>2, <1>4
  <1>7. CASE ConsoleReopens
    <2>1. /\ q.match = "live"
          /\ q' = [q EXCEPT !.site = "open"]
          /\ played' \in SUBSET User
          /\ settling' \in SUBSET Requests
          /\ UNCHANGED <<session, users, prioAt, siteToday, promoting>>
      BY <1>1, <1>7 DEF ConsoleReopens, Uncounted, TypeOK
    <2> QED
      BY <2>1, <1>4
  <1>8. ASSUME NEW r \in settling, SettleQueueMatch(r)
        PROVE  IInv'
    <2> DEFINE s == Swept
    <2>1. Good(s)
      BY SweptGood
    <2> HIDE DEF s
    <2>2. /\ \/ q' = FinishMatch(s)
             \/ q' = CancelMatch(s)
             \/ q' = q
          /\ settling' \in SUBSET Requests
          /\ UNCHANGED <<env, promoting>>
      BY <1>1, <1>8 DEF SettleQueueMatch, s
    <2>3. Good(q')
      BY <2>1, <2>2, <1>1, FinishMatchKeeps, CancelMatchKeeps
    <2>4. q' \in QueueType
      BY <2>3 DEF Good
    <2>5. session' \in SessionType
      BY <1>1, <1>8 DEF SettleQueueMatch, TypeOK, SessionType
    <2>6. TypeOK'
      BY <2>2, <2>4, <2>5, <1>1 DEF TypeOK, env
    <2> QED
      BY <2>3, <2>6 DEF IInv
  <1>9. ASSUME NEW r \in settling, SettleLost(r)
        PROVE  IInv'
    <2>1. /\ settling' \in SUBSET Requests
          /\ q' = q
          /\ UNCHANGED <<session, env, promoting>>
      BY <1>1, <1>9 DEF SettleLost
    <2>2. TypeOK'
      BY <2>1, <1>1 DEF TypeOK, env
    <2> QED
      BY <2>1, <2>2, <1>1 DEF IInv
  <1> QED
    BY <1>5, <1>6, <1>7, <1>8, <1>9 DEF ConsoleNext

\* An account that is dropped takes its member rows along.
LEMMA DropKeeps ==
  ASSUME NEW s, Good(s), NEW u
  PROVE  Good([s EXCEPT !.members = [e \in Entry |-> s.members[e] \ {u}],
                        !.ready   = [e \in Entry |-> s.ready[e] \ {u}]])
  <1> DEFINE t == [s EXCEPT !.members = [e \in Entry |-> s.members[e] \ {u}],
                            !.ready   = [e \in Entry |-> s.ready[e] \ {u}]]
  <1>1. /\ t \in QueueType
        /\ t.status = s.status
        /\ t.members = [e \in Entry |-> s.members[e] \ {u}]
        /\ t.ready = [e \in Entry |-> s.ready[e] \ {u}]
        /\ t.order = s.order
        /\ t.finished = s.finished
        /\ t.side = s.side
        /\ t.match = s.match
        /\ t.matchId = s.matchId
        /\ t.site = s.site
    BY DEF Good, QueueType
  <1> HIDE DEF t
  <1>2. InQueue(t) = InQueue(s)
    BY <1>1 DEF InQueue
  <1>3. \A e \in Entry : t.members[e] \subseteq s.members[e]
    BY <1>1
  <1>4. Listed(t) /\ Single(t)
    BY <1>1, <1>2, <1>3, FewerKeeps, ListedIsLists DEF Good, InQueue
  <1>5. Matched(t)
    BY <1>1, <1>3, SameMatchMatched
  <1>6. Confirmed(t) /\ Blank(t)
    BY <1>1 DEF Good, Confirmed, Blank
  <1>7. Good(t)
    BY <1>1, <1>4, <1>5, <1>6 DEF Good
  <1> QED
    BY <1>7 DEF t

\* What happens beside the queue, and the promotion of who spent a token.
LEMMA OutsideKeeps ==
  ASSUME IInv, OutsideNext
  PROVE  IInv'
  <1>1. Good(q) /\ TypeOK
    BY DEF IInv
  <1>2. \A u \in User : WithoutToken(u) \in [User -> Nat]
    BY <1>1 DEF WithoutToken, TypeOK
  <1>3. ASSUME q' = q, TypeOK'
        PROVE  IInv'
    BY <1>1, <1>3 DEF IInv
  <1>4. ASSUME NEW u \in User, PlaysElsewhere(u)
        PROVE  IInv'
    BY <1>1, <1>3, <1>4 DEF PlaysElsewhere, TypeOK
  <1>5. ASSUME NEW u \in User, CancelPriority(u)
        PROVE  IInv'
    BY <1>1, <1>2, <1>3, <1>5 DEF CancelPriority, TypeOK
  <1>6. ASSUME NEW u \in User, DropStub(u)
        PROVE  IInv'
    <2>1. q' = [q EXCEPT !.members = [e \in Entry |-> q.members[e] \ {u}],
                         !.ready   = [e \in Entry |-> q.ready[e] \ {u}]]
      BY <1>6 DEF DropStub
    <2>2. Good(q')
      BY <2>1, <1>1, DropKeeps
    <2>3. q' \in QueueType
      BY <2>2 DEF Good
    <2>4. TypeOK'
      BY <2>3, <1>1, <1>2, <1>6 DEF DropStub, TypeOK
    <2> QED
      BY <2>2, <2>4 DEF IInv
  <1>7. ASSUME NEW u \in User, ChooseSessions(u) \/ PromotionLost(u)
        PROVE  IInv'
    BY <1>1, <1>3, <1>7 DEF ChooseSessions, PromotionLost, TypeOK, env
  <1>8. ASSUME NEW u \in User, PromotePriority(u)
        PROVE  IInv'
    <2>1. PICK e \in InQueue(Swept) : q' = Promoted(Swept, e)
      BY <1>8 DEF PromotePriority, EntryOf
    <2>2. Good(q')
      BY <2>1, SweptGood, PromotedKeeps
    <2>3. /\ session' \in SessionType
          /\ promoting' \in [User -> {"no", "spent", "chosen"}]
          /\ UNCHANGED <<env, settling>>
      BY <1>1, <1>8 DEF PromotePriority, TypeOK, SessionType
    <2> QED
      BY <2>2, <2>3, <1>1, RowsKeep DEF TypeOK, env
  <1>9. CASE NewDay
    BY <1>1, <1>3, <1>9 DEF NewDay, TypeOK
  <1> QED
    BY <1>4, <1>5, <1>6, <1>7, <1>8, <1>9 DEF OutsideNext

-------------------------------------------------------------------------------
(* The theorems. *)

\* A session starts in order.
LEMMA InitGood ==
  Init => IInv
  <1> SUFFICES ASSUME Init
               PROVE  IInv
    OBVIOUS
  <1>1. Good(q) /\ q \in QueueType
    BY EmptyQueueGood DEF Init, Good
  <1>2. session \in SessionType
    <2>1. PICK format \in Formats : session = FreshSession(format)
      BY DEF Init
    <2> QED
      BY <2>1 DEF FreshSession, SessionType
  <1>3. TypeOK
    BY <1>1, <1>2 DEF Init, TypeOK
  <1> QED
    BY <1>1, <1>3 DEF IInv

\* Every step keeps it in order.
LEMMA NextGood ==
  IInv /\ [Next]_vars => IInv'
  <1> SUFFICES ASSUME IInv, [Next]_vars
               PROVE  IInv'
    OBVIOUS
  <1>1. CASE UNCHANGED vars
    <2>1. q' = q /\ TypeOK'
      BY <1>1 DEF vars, env, IInv, TypeOK
    <2> QED
      BY <2>1 DEF IInv
  <1> QED
    BY <1>1, PlayerKeeps, OrganizerKeeps, ConsoleKeeps, OutsideKeeps DEF Next

\* The inductive invariant holds in every state of a session.
THEOREM Invariance == Spec => []IInv
  <1> QED
    BY InitGood, NextGood, PTL DEF Spec

\* The rows keep the shape their tables give them.
THEOREM TypeCorrect == Spec => []TypeOK
  <1>1. IInv => TypeOK
    BY DEF IInv
  <1> QED
    BY <1>1, Invariance, PTL

\* The order lists exactly who stands in the queue, once each and never more
\* than the queue takes, whatever is called, moved, skipped, closed or settled.
THEOREM OrderTheorem == Spec => []OrderIsQueue
  <1>1. IInv => OrderIsQueue
    BY DEF IInv, Good, OrderIsQueue
  <1> QED
    BY <1>1, Invariance, PTL

\* Nobody stands in two entries, however many teams he is on.
THEOREM OnePlaceTheorem == Spec => []OnePlacePerPlayer
  <1>1. IInv => OnePlacePerPlayer
    BY DEF IInv, Good, OnePlacePerPlayer
  <1> QED
    BY <1>1, Invariance, PTL

\* The open match and the statuses of the entries agree after every operation,
\* every late settling and every dropped account.
THEOREM MatchTheorem == Spec => []MatchAgrees
  <1>1. IInv => MatchAgrees
    BY DEF IInv, Good, MatchAgrees
  <1> QED
    BY <1>1, Invariance, PTL

\* Who is ready has confirmed this call with the whole team, and no confirmation
\* outlives its call.
THEOREM ConfirmationTheorem == Spec => []ConfirmedForThisCall
  <1>1. IInv => ConfirmedForThisCall
    BY DEF IInv, Good, ConfirmedForThisCall
  <1> QED
    BY <1>1, Invariance, PTL

-------------------------------------------------------------------------------
(* What no step may do. *)

\* No entry comes back from s to t.
StaysClosed(s, t) ==
  \A e \in Entry : s.status[e] \in {"left", "removed"} => t.status[e] = s.status[e]

\* A live match goes on from s to t.
StaysOnAir(s, t) ==
  s.match = "live" => /\ t.match = "live" /\ t.matchId = s.matchId
                      /\ t.side = s.side /\ t.site = s.site

Stays(s, t) == StaysClosed(s, t) /\ StaysOnAir(s, t)

\* The match of a finished session is closed.
Over == session.status = "finished" => q.match = "none"

-------------------------------------------------------------------------------
(* The helpers of qtx. *)

\* An entry that is not closed may get another status.
LEMMA OneChanges ==
  ASSUME NEW s, NEW t, NEW e, s.status[e] \notin {"left", "removed"},
         \A f \in Entry \ {e} : t.status[f] = s.status[f],
         StaysOnAir(s, t)
  PROVE  Stays(s, t)
  BY DEF Stays, StaysClosed

\* SweepGhosts closes who stands, and a live match has nobody to detach.
LEMMA SweepStays ==
  ASSUME NEW s, Good(s)
  PROVE  Stays(s, SweepGhosts(s)) /\ (s.match = "none" => SweepGhosts(s).match = "none")
  <1> DEFINE gone == Ghosts(s)
             d == DetachAll(s, gone)
             t == SweepGhosts(s)
  <1>1. gone \subseteq InQueue(s) /\ gone \subseteq Entry
    BY DEF Ghosts, InQueue
  <1>2. /\ d \in QueueType
        /\ s.match # "preparing" => d = s
    BY <1>1, DetachAllEffect
  <1> HIDE DEF d, gone
  <1>3. /\ t.status = [e \in Entry |-> IF e \in gone THEN "removed" ELSE s.status[e]]
        /\ t.side = d.side /\ t.match = d.match /\ t.matchId = d.matchId /\ t.site = d.site
    BY <1>2 DEF SweepGhosts, QueueType, d, gone
  <1> HIDE DEF t
  <1>4. StaysClosed(s, t)
    BY <1>1, <1>3 DEF StaysClosed, InQueue, Queued
  <1>5. StaysOnAir(s, t) /\ (s.match = "none" => t.match = "none")
    BY <1>2, <1>3 DEF StaysOnAir
  <1> QED
    BY <1>4, <1>5 DEF Stays, t

\* A live match loses no side to an entry that leaves.
LEMMA DetachStays ==
  ASSUME NEW s, Good(s), NEW e \in Entry
  PROVE  /\ Detach(s, e) \in QueueType /\ Detach(s, e).status = s.status
         /\ Detach(s, e).order = s.order
         /\ StaysOnAir(s, Detach(s, e))
  <1>1. {e} \subseteq Entry
    OBVIOUS
  <1>2. /\ DetachAll(s, {e}) \in QueueType /\ DetachAll(s, {e}).status = s.status
        /\ DetachAll(s, {e}).order = s.order
        /\ s.match # "preparing" => DetachAll(s, {e}) = s
    BY <1>1, DetachAllEffect
  <1> QED
    BY <1>2 DEF Detach, StaysOnAir

\* The entries that are closed, called, confirmed, set back or moved.
LEMMA CloseStays ==
  ASSUME NEW s, Good(s), NEW e \in InQueue(s), NEW status
  PROVE  Stays(s, CloseEntry(s, e, status))
  <1> DEFINE d == Detach(s, e)
             t == CloseEntry(s, e, status)
  <1>1. e \in Entry /\ s.status[e] \notin {"left", "removed"} /\ s.status \in [Entry -> EntryStatus]
    BY DEF InQueue, Queued, Good, QueueType
  <1>2. d \in QueueType /\ d.status = s.status /\ StaysOnAir(s, d)
    BY <1>1, DetachStays
  <1> HIDE DEF d
  <1>3. /\ t.status = [s.status EXCEPT ![e] = status]
        /\ t.match = d.match /\ t.matchId = d.matchId /\ t.side = d.side /\ t.site = d.site
    BY <1>2 DEF CloseEntry, d, QueueType
  <1> HIDE DEF t
  <1>4. StaysOnAir(s, t)
    BY <1>2, <1>3 DEF StaysOnAir
  <1>5. Stays(s, t)
    BY <1>1, <1>3, <1>4, OneChanges
  <1> QED
    BY <1>5 DEF t

LEMMA SkipStays ==
  ASSUME NEW s, Good(s), NEW e \in InQueue(s), NEW order
  PROVE  Stays(s, [ResetEntry(Detach(s, e), e, "skipped") EXCEPT !.order = order])
  <1> DEFINE d == Detach(s, e)
             t == [ResetEntry(d, e, "skipped") EXCEPT !.order = order]
  <1>1. e \in Entry /\ s.status[e] \notin {"left", "removed"} /\ s.status \in [Entry -> EntryStatus]
    BY DEF InQueue, Queued, Good, QueueType
  <1>2. d \in QueueType /\ d.status = s.status /\ StaysOnAir(s, d)
    BY <1>1, DetachStays
  <1> HIDE DEF d
  <1>3. /\ t.status = [s.status EXCEPT ![e] = "skipped"]
        /\ t.match = d.match /\ t.matchId = d.matchId /\ t.side = d.side /\ t.site = d.site
    BY <1>2 DEF ResetEntry, QueueType
  <1> HIDE DEF t
  <1>4. StaysOnAir(s, t)
    BY <1>2, <1>3 DEF StaysOnAir
  <1>5. Stays(s, t)
    BY <1>1, <1>3, <1>4, OneChanges
  <1> QED
    BY <1>5 DEF t, d

LEMMA ReturnStays ==
  ASSUME NEW s, Good(s), NEW e \in Entry, s.status[e] = "skipped", NEW order
  PROVE  Stays(s, [ResetEntry(s, e, "waiting") EXCEPT !.order = order])
  <1> DEFINE t == [ResetEntry(s, e, "waiting") EXCEPT !.order = order]
  <1>1. s \in QueueType
    BY DEF Good
  <1>2. /\ t.status = [s.status EXCEPT ![e] = "waiting"]
        /\ t.match = s.match /\ t.matchId = s.matchId /\ t.side = s.side /\ t.site = s.site
    BY <1>1 DEF ResetEntry, QueueType
  <1> HIDE DEF t
  <1>3. Stays(s, t)
    BY <1>1, <1>2 DEF Stays, StaysClosed, StaysOnAir, QueueType
  <1> QED
    BY <1>3 DEF t

LEMMA MoveStays ==
  ASSUME NEW s, Good(s), NEW order
  PROVE  Stays(s, [s EXCEPT !.order = order])
  BY DEF Good, QueueType, Stays, StaysClosed, StaysOnAir

LEMMA RefreshStays ==
  ASSUME NEW s, Good(s), NEW e \in Entry, s.status[e] \in {"invited", "ready"}, NEW confirmed
  PROVE  Stays(s, RefreshReady(s, e, confirmed))
  <1> DEFINE t == RefreshReady(s, e, confirmed)
             status == IF s.members[e] \subseteq confirmed THEN "ready" ELSE s.status[e]
  <1>1. s \in QueueType
    BY DEF Good
  <1> HIDE DEF status
  <1>2. /\ t.status = [s.status EXCEPT ![e] = status]
        /\ t.match = s.match /\ t.matchId = s.matchId /\ t.side = s.side /\ t.site = s.site
    BY <1>1 DEF RefreshReady, QueueType, status
  <1> HIDE DEF t
  <1>3. Stays(s, t)
    BY <1>1, <1>2 DEF Stays, StaysClosed, StaysOnAir, QueueType
  <1> QED
    BY <1>3 DEF t

LEMMA InviteStays ==
  ASSUME NEW s, Good(s), NEW e \in Entry, qEligible(s.status[e]), s.match # "live", NEW id
  PROVE  Stays(s, Invite(s, e, id))
  <1> DEFINE t == Invite(s, e, id)
  <1>1. s \in QueueType
    BY DEF Good
  <1>2. t.status = [s.status EXCEPT ![e] = "invited"]
    BY <1>1 DEF Invite, QueueType
  <1> HIDE DEF t
  <1>3. Stays(s, t)
    BY <1>1, <1>2 DEF Stays, StaysClosed, StaysOnAir, QueueType, qEligible
  <1> QED
    BY <1>3 DEF t

LEMMA EnqueueStays ==
  ASSUME NEW s, Good(s), NEW e \in Entry, s.status[e] = "none", NEW party
  PROVE  Stays(s, Enqueue(s, e, party))
  <1> DEFINE n == [s EXCEPT !.status[e] = "waiting", !.members[e] = party,
                            !.performed[e] = Performances(s, party)]
             order == qPlacePriority(Load(n), qPlaceNew(Load(n), s.order, e), e)
             t == [n EXCEPT !.order = order]
  <1>1. s \in QueueType
    BY DEF Good
  <1>2. Enqueue(s, e, party) = t
    BY DEF Enqueue
  <1> HIDE DEF order
  <1>3. /\ t.status = [s.status EXCEPT ![e] = "waiting"]
        /\ t.match = s.match /\ t.matchId = s.matchId /\ t.side = s.side /\ t.site = s.site
    BY <1>1 DEF QueueType
  <1> HIDE DEF t
  <1>4. Stays(s, t)
    BY <1>1, <1>3 DEF Stays, StaysClosed, StaysOnAir, QueueType
  <1> QED
    BY <1>2, <1>4

LEMMA GoLiveStays ==
  ASSUME NEW s, Good(s), s.match = "preparing", Taken(s) \subseteq InQueue(s), NEW siteStatus
  PROVE  Stays(s, GoLive(s, siteStatus))
  <1> DEFINE t == GoLive(s, siteStatus)
  <1>1. s \in QueueType
    BY DEF Good
  <1>2. t.status = [e \in Entry |-> IF e \in Taken(s) THEN "performing" ELSE s.status[e]]
    BY <1>1 DEF GoLive, QueueType
  <1> HIDE DEF t
  <1>3. Stays(s, t)
    BY <1>2 DEF Stays, StaysClosed, StaysOnAir, InQueue, Queued
  <1> QED
    BY <1>3 DEF t

\* A match that ends, either way, changes only entries that still stand.
LEMMA EndStaysClosed ==
  ASSUME NEW s, Good(s)
  PROVE  /\ StaysClosed(s, FinishMatch(s)) /\ StaysClosed(s, CancelMatch(s))
         /\ FinishMatch(s).match = "none" /\ CancelMatch(s).match = "none"
  <1>1. s \in QueueType
    BY DEF Good
  <1> DEFINE alive == Taken(s) \cap InQueue(s)
             f == FinishMatch(s)
             c == CancelMatch(s)
  <1>2. /\ f.status = [e \in Entry |-> IF e \in alive THEN "left" ELSE s.status[e]]
        /\ f.match = "none"
    BY <1>1 DEF FinishMatch, ForgetMatch, QueueType
  <1>3. /\ c.status = [e \in Entry |-> IF e \in alive THEN "waiting" ELSE s.status[e]]
        /\ c.match = "none"
    BY <1>1 DEF CancelMatch, ForgetMatch, QueueType
  <1>4. \A e \in alive : s.status[e] \notin {"left", "removed"}
    BY DEF InQueue, Queued
  <1> HIDE DEF f, c, alive
  <1>5. StaysClosed(s, f) /\ StaysClosed(s, c)
    BY <1>2, <1>3, <1>4 DEF StaysClosed
  <1> QED
    BY <1>2, <1>3, <1>5 DEF f, c

\* One stay after another.
LEMMA StaysOn ==
  ASSUME NEW s, NEW t, NEW r
  PROVE  /\ StaysClosed(s, t) /\ StaysClosed(t, r) => StaysClosed(s, r)
         /\ Stays(s, t) /\ Stays(t, r) => Stays(s, r)
  BY DEF Stays, StaysClosed, StaysOnAir

-------------------------------------------------------------------------------
(* Steps. *)

\* What every step must be.
Safe ==
  /\ SameSession => StaysClosed(q, q')
  /\ q.match = "live" /\ q.site = "open" /\ (\A r \in settling : r.match # q.matchId)
     => q'.match = "live" /\ q'.matchId = q.matchId /\ q'.side = q.side
  /\ Over'

\* Most steps stay, and are no end of the session.
LEMMA StaysSafe ==
  ASSUME Over, Stays(q, q'), session'.status = "active" \/ q'.match = "none"
                             \/ UNCHANGED <<session, q.match>>
  PROVE  Safe
  BY DEF Safe, Stays, StaysOnAir, Over

\* An operation of an active session.
LEMMA CommitSafe ==
  ASSUME IInv, Over, NeedActive, NEW t, Commit(t), Stays(Swept, t)
  PROVE  Safe
  <1>1. Stays(q, Swept)
    BY SweepStays DEF IInv, Swept
  <1>2. Stays(q, q')
    BY <1>1, StaysOn DEF Commit
  <1>3. session'.status = "active"
    BY DEF Commit, NeedActive, IInv, TypeOK, SessionType
  <1> QED
    BY <1>2, <1>3, StaysSafe

\* A step that changes no rows of the queue but perhaps where the site match is.
LEMMA SiteSafe ==
  ASSUME IInv, Over, UNCHANGED session,
         q' = q \/ (\E site : q.match = "live" /\ q' = [q EXCEPT !.site = site])
  PROVE  Safe
  <1>1. /\ q'.status = q.status /\ q'.match = q.match /\ q'.matchId = q.matchId
        /\ q'.side = q.side
    BY DEF IInv, TypeOK, QueueType
  <1> QED
    BY <1>1 DEF Safe, StaysClosed, Over

LEMMA JoinSafe ==
  ASSUME IInv, Over, NEW party, NEW byOrganizer, JoinQueue(party, byOrganizer)
  PROVE  Safe
  <1>1. PICK e \in Entry : Swept.status[e] = "none" /\ Commit(Enqueue(Swept, e, party))
    BY DEF JoinQueue
  <1>2. NeedActive
    BY DEF JoinQueue
  <1>3. Stays(Swept, Enqueue(Swept, e, party))
    BY <1>1, SweptGood, EnqueueStays
  <1> QED
    BY <1>1, <1>2, <1>3, CommitSafe

\* What a player asks for.
LEMMA PlayerSafe ==
  ASSUME IInv, Over, PlayerNext
  PROVE  Safe
  <1> DEFINE s == Swept
  <1>1. Good(s)
    BY SweptGood
  <1> HIDE DEF s
  <1>2. ASSUME NEW u \in User, LeaveQueue(u)
        PROVE  Safe
    <2>1. PICK e \in InQueue(s) : Commit(CloseEntry(s, e, "left"))
      BY <1>2 DEF LeaveQueue, EntryOf, s
    <2>2. NeedActive /\ Stays(s, CloseEntry(s, e, "left"))
      BY <1>1, <1>2, CloseStays DEF LeaveQueue
    <2> QED
      BY <2>1, <2>2, CommitSafe DEF s
  <1>3. ASSUME NEW u \in User, ConfirmReady(u)
        PROVE  Safe
    <2>1. PICK e \in InQueue(s) :
            \/ s.status[e] = "invited" /\ Commit(RefreshReady(s, e, s.ready[e] \cup {u}))
            \/ Commit(s)
      BY <1>3 DEF ConfirmReady, EntryOf, s
    <2>2. NeedActive /\ e \in Entry
      BY <1>3 DEF ConfirmReady, InQueue
    <2>3. s.status[e] = "invited" => Stays(s, RefreshReady(s, e, s.ready[e] \cup {u}))
      BY <1>1, <2>2, RefreshStays
    <2>4. Stays(s, s)
      BY DEF Stays, StaysClosed, StaysOnAir
    <2> QED
      BY <2>1, <2>2, <2>3, <2>4, CommitSafe DEF s
  <1>4. ASSUME NEW u \in User, ActivatePriority(u)
        PROVE  Safe
    BY <1>4, SiteSafe DEF ActivatePriority
  <1> QED
    BY <1>2, <1>3, <1>4, JoinSafe DEF PlayerNext

LEMMA CallSafe ==
  ASSUME IInv, Over, NEW e \in Entry, Call(Swept, e)
  PROVE  Safe
  <1>1. PICK id \in CalledMatchIds(Swept) : Commit(Invite(Swept, e, id))
    BY DEF Call
  <1>2. NeedActive /\ Stays(Swept, Invite(Swept, e, id))
    BY SweptGood, InviteStays DEF Call
  <1> QED
    BY <1>1, <1>2, CommitSafe

\* What an organizer does to one entry.
LEMMA EntrySafe ==
  ASSUME IInv, Over, NEW e \in Entry, EntryNext(e)
  PROVE  Safe
  <1> DEFINE s == Swept
  <1>1. Good(s)
    BY SweptGood
  <1> HIDE DEF s
  <1>2. CASE ConfirmEntry(e)
    <2>1. NeedActive /\ s.status[e] \in {"invited", "ready"}
          /\ Commit(RefreshReady(s, e, s.members[e]))
      BY <1>2 DEF ConfirmEntry, s
    <2>2. Stays(s, RefreshReady(s, e, s.members[e]))
      BY <1>1, <2>1, RefreshStays
    <2> QED
      BY <2>1, <2>2, CommitSafe DEF s
  <1>3. CASE CallEntry(e)
    BY <1>3, CallSafe DEF CallEntry
  <1>4. ASSUME NEW mode \in {"end", "remove"}, SkipEntry(e, mode)
        PROVE  Safe
    <2> DEFINE t == ResetEntry(Detach(s, e), e, "skipped")
               r == [t EXCEPT !.order = qPlaceSkipped(Load(t), t.order, e)]
    <2>1. /\ NeedActive /\ e \in InQueue(s)
          /\ Commit(CloseEntry(s, e, "removed")) \/ Commit(r)
      BY <1>4 DEF SkipEntry, s
    <2>2. Stays(s, CloseEntry(s, e, "removed")) /\ Stays(s, r)
      BY <1>1, <2>1, CloseStays, SkipStays
    <2> HIDE DEF r
    <2> QED
      BY <2>1, <2>2, CommitSafe DEF s
  <1>5. ASSUME NEW position, ReturnEntry(e, position)
        PROVE  Safe
    <2> DEFINE t == ResetEntry(s, e, "waiting")
               at == IF position <= 0 THEN qInflight(Load(t), t.order) + 1
                                      ELSE position
               r == [t EXCEPT !.order = qMoveTo(Load(t), t.order, e, at)]
    <2>1. NeedActive /\ s.status[e] = "skipped" /\ Commit(r)
      BY <1>5 DEF ReturnEntry, s
    <2>2. Stays(s, r)
      BY <1>1, <2>1, ReturnStays
    <2> HIDE DEF r
    <2> QED
      BY <2>1, <2>2, CommitSafe DEF s
  <1>6. ASSUME NEW toPosition, NEW rev, MoveEntry(e, toPosition, rev)
        PROVE  Safe
    <2> DEFINE r == [s EXCEPT !.order = qMoveTo(Load(s), s.order, e, toPosition)]
    <2>1. NeedActive /\ Commit(r)
      BY <1>6 DEF MoveEntry, s
    <2>2. Stays(s, r)
      BY <1>1, MoveStays
    <2> HIDE DEF r
    <2> QED
      BY <2>1, <2>2, CommitSafe DEF s
  <1>7. CASE RemoveEntry(e)
    <2>1. NeedActive /\ e \in InQueue(s) /\ Commit(CloseEntry(s, e, "removed"))
      BY <1>7 DEF RemoveEntry, s
    <2>2. Stays(s, CloseEntry(s, e, "removed"))
      BY <1>1, <2>1, CloseStays
    <2> QED
      BY <2>1, <2>2, CommitSafe DEF s
  <1> QED
    BY <1>2, <1>3, <1>4, <1>5, <1>6, <1>7 DEF EntryNext

\* The rows stay as they were swept, or the match that is not open on the site ends.
LEMMA EndSafe ==
  ASSUME IInv, Over, NEW t, q' = t, t = FinishMatch(Swept) \/ t = CancelMatch(Swept),
         \/ Swept.match # "live" \/ Swept.site # "open"
         \/ \E r \in settling : r.match = Swept.matchId
  PROVE  Safe
  <1>1. Good(Swept) /\ Stays(q, Swept)
    BY SweptGood, SweepStays DEF IInv, Swept
  <1>2. StaysClosed(Swept, t) /\ t.match = "none"
    BY <1>1, EndStaysClosed
  <1>3. StaysClosed(q, t)
    BY <1>1, <1>2, StaysOn DEF Stays
  <1> QED
    BY <1>1, <1>2, <1>3 DEF Safe, Over, Stays, StaysOnAir

\* What an organizer does.
LEMMA OrganizerSafe ==
  ASSUME IInv, Over, OrganizerNext
  PROVE  Safe
  <1> DEFINE s == Swept
  <1>1. Good(s) /\ Stays(q, s)
    BY SweptGood, SweepStays DEF IInv, Swept
  <1>2. session \in SessionType
    BY DEF IInv, TypeOK
  <1> HIDE DEF s
  <1>3. CASE CallNext
    <2>1. PICK e \in InQueue(Swept) : Call(Swept, e)
      BY <1>3 DEF CallNext
    <2> QED
      BY <2>1, CallSafe DEF InQueue
  <1>4. ASSUME NEW force \in BOOLEAN, StartQueueMatch(force)
        PROVE  Safe
    <2>1. s.match = "preparing" /\ Taken(s) \subseteq InQueue(s)
      BY <1>4 DEF StartQueueMatch, s
    <2>2. PICK siteStatus : q' = GoLive(s, siteStatus)
      BY <1>4 DEF StartQueueMatch, s
    <2>3. Stays(q, q')
      BY <1>1, <2>1, <2>2, GoLiveStays, StaysOn
    <2>4. session'.status = "active"
      BY <1>2, <1>4 DEF StartQueueMatch, NeedActive, SessionType
    <2> QED
      BY <2>3, <2>4, StaysSafe
  <1>5. CASE FinishQueueMatch
    BY <1>5, EndSafe DEF FinishQueueMatch, Commit, LinkedSiteMatchOpen
  <1>6. CASE CancelQueueMatch
    BY <1>6, EndSafe DEF CancelQueueMatch, Commit, LinkedSiteMatchOpen
  <1>7. ASSUME NEW action, SetQueueMode(action)
        PROVE  Safe
    <2>1. q' = s /\ session'.status = "active"
      BY <1>2, <1>7 DEF SetQueueMode, NeedActive, SessionType, s
    <2> QED
      BY <1>1, <2>1, StaysSafe
  <1>8. ASSUME NEW format, UpdateQueueSession(format)
        PROVE  Safe
    <2>1. q' = s /\ session'.status = "active"
      BY <1>2, <1>8 DEF UpdateQueueSession, NeedActive, SessionType, s
    <2> QED
      BY <1>1, <2>1, StaysSafe
  <1>9. CASE FinishQueueSession
    <2>1. s.match # "live" /\ q' = IF s.match = "preparing" THEN CancelMatch(s) ELSE s
      BY <1>9 DEF FinishQueueSession, s
    <2>2. CASE s.match = "preparing"
      BY <2>1, <2>2, EndSafe DEF s
    <2>3. CASE s.match = "none"
      BY <1>1, <2>1, <2>3, StaysSafe
    <2>4. s.match \in {"none", "preparing", "live"}
      BY <1>1 DEF Good, QueueType
    <2> QED
      BY <2>1, <2>2, <2>3, <2>4
  <1>10. ASSUME NEW format \in Formats, CreateQueueSession(format)
         PROVE  Safe
    <2>1. session.status = "finished" /\ session'.status = "active" /\ q.match = "none"
      BY <1>10 DEF CreateQueueSession, FreshSession, Over
    <2> QED
      BY <2>1 DEF Safe, SameSession, Over
  <1> QED
    BY <1>3, <1>4, <1>5, <1>6, <1>7, <1>8, <1>9, <1>10, JoinSafe, EntrySafe DEF OrganizerNext

\* What the console does, now or when it settles: only the match it read.
LEMMA ConsoleSafe ==
  ASSUME IInv, Over, ConsoleNext
  PROVE  Safe
  <1>1. ASSUME NEW settles, ConsoleFinishes(settles) \/ ConsoleDeletes(settles)
        PROVE  Safe
    BY <1>1, SiteSafe DEF ConsoleFinishes, ConsoleDeletes
  <1>2. CASE ConsoleReopens
    BY <1>2, SiteSafe DEF ConsoleReopens
  <1>3. ASSUME NEW r \in settling, SettleQueueMatch(r)
        PROVE  Safe
    <2>1. CASE StillLive(Swept, r)
      BY <1>3, <2>1, EndSafe DEF SettleQueueMatch, StillLive
    <2>2. CASE ~StillLive(Swept, r)
      BY <1>3, <2>2, SiteSafe DEF SettleQueueMatch
    <2> QED
      BY <2>1, <2>2
  <1>4. ASSUME NEW r \in settling, SettleLost(r)
        PROVE  Safe
    BY <1>4, SiteSafe DEF SettleLost
  <1> QED
    BY <1>1, <1>2, <1>3, <1>4 DEF ConsoleNext

\* What happens beside the queue, and the promotion of who spent a token.
LEMMA OutsideSafe ==
  ASSUME IInv, Over, OutsideNext
  PROVE  Safe
  <1>1. ASSUME NEW u \in User, DropStub(u)
        PROVE  Safe
    <2>1. q'.status = q.status /\ q'.match = q.match /\ q'.matchId = q.matchId
          /\ q'.side = q.side /\ q'.site = q.site /\ UNCHANGED session
      BY <1>1 DEF DropStub, IInv, TypeOK, QueueType
    <2> QED
      BY <2>1 DEF Safe, StaysClosed, Over
  <1>2. ASSUME NEW u \in User, PromotePriority(u)
        PROVE  Safe
    <2>1. PICK e : q' = Promoted(Swept, e)
      BY <1>2 DEF PromotePriority
    <2>2. Good(Swept) /\ Stays(q, Swept) /\ (q.match = "none" => Swept.match = "none")
      BY SweptGood, SweepStays DEF IInv, Swept
    <2>3. Stays(Swept, q') /\ q'.match = Swept.match
      BY <2>1, <2>2, MoveStays DEF Promoted, Good, QueueType
    <2>4. Stays(q, q')
      BY <2>2, <2>3, StaysOn
    <2>5. session'.status = session.status /\ session.status \in {"active", "finished"}
      BY <1>2 DEF PromotePriority, IInv, TypeOK, SessionType
    <2> QED
      BY <2>2, <2>3, <2>4, <2>5, StaysSafe DEF Over
  <1>3. ASSUME q' = q, session' = session
        PROVE  Safe
    BY <1>3, SiteSafe
  <1>4. ASSUME NEW u \in User, PlaysElsewhere(u) \/ CancelPriority(u) \/ ChooseSessions(u)
                               \/ PromotionLost(u) \/ NewDay
        PROVE  Safe
    BY <1>3, <1>4 DEF PlaysElsewhere, CancelPriority, ChooseSessions, PromotionLost, NewDay
  <1>5. CASE NewDay
    BY <1>3, <1>5 DEF NewDay
  <1> QED
    BY <1>1, <1>2, <1>4, <1>5 DEF OutsideNext

\* Every step is safe, and a finished session keeps no open match.
LEMMA NextSafe ==
  IInv /\ Over /\ [Next]_vars => [Safe]_vars /\ Over'
  <1> SUFFICES ASSUME IInv, Over, [Next]_vars
               PROVE  [Safe]_vars /\ Over'
    OBVIOUS
  <1>1. CASE UNCHANGED vars
    BY <1>1 DEF vars, Over
  <1>2. CASE Next
    <2>1. Safe
      BY <1>2, PlayerSafe, OrganizerSafe, ConsoleSafe, OutsideSafe DEF Next
    <2> QED
      BY <2>1 DEF Safe
  <1> QED
    BY <1>1, <1>2

LEMMA StepsAreSafe == Spec => [][Safe]_vars
  <1>1. Init => Over
    BY DEF Init, Over, EmptyQueue
  <1> QED
    BY <1>1, Invariance, NextSafe, PTL DEF Spec

\* Who left or was removed never comes back under the same entry, whatever is settled
\* or cancelled later (cancelMatch, finishMatch).
THEOREM ClosedTheorem == Spec => ClosedStaysClosed
  <1>1. [Safe]_vars => [SameSession => \A e \in Entry :
          q.status[e] \in {"left", "removed"} => q'.status[e] = q.status[e]]_vars
    BY DEF Safe, StaysClosed
  <1> QED
    BY <1>1, StepsAreSafe, PTL DEF ClosedStaysClosed

\* A match on the air is taken down by nobody but the request that read this very match
\* (SettleQueueMatch), whatever the console and the organizer do at the same time.
THEOREM LiveTheorem == Spec => LiveMatchIsSafe
  <1>1. [Safe]_vars =>
          [/\ q.match = "live"
           /\ q.site = "open"
           /\ \A r \in settling : r.match # q.matchId
           => /\ q'.match = "live"
              /\ q'.matchId = q.matchId
              /\ q'.side = q.side]_vars
    BY DEF Safe
  <1> QED
    BY <1>1, StepsAreSafe, PTL DEF LiveMatchIsSafe

-------------------------------------------------------------------------------
(* How often an entry has performed, and that the revision tells of every  *)
(* change.  The count is inductive with two facts more: entries of matches *)
(* that are over are closed, and a standing entry has no player beside a   *)
(* party.                                                                  *)

\* Who may ever stand in one entry of this session.
AnyParty == IF session.format = "1x1" THEN {{u} : u \in User} ELSE Team

\* Who was on a match that is over stands no more under that entry.
Past(s) == \A f \in s.finished : \A e \in f : s.status[e] \in {"left", "removed"}

\* A standing entry has a party or a part of one.
Whole(s, ever) ==
  \A e \in InQueue(s), p \in ever : p \subseteq s.members[e] => p = s.members[e]

Counted(s, here) ==
  \A e \in InQueue(s) :
     s.members[e] \in here => s.performed[e] = Performances(s, s.members[e])

Sound(s, here, ever) == Past(s) /\ Whole(s, ever) /\ Counted(s, here)

CountInv == Sound(q, Parties, AnyParty)

\* From s to t nobody joins, comes back or performs.
NoneMore(s, t) ==
  /\ t.members = s.members /\ t.performed = s.performed /\ t.finished = s.finished
  /\ InQueue(t) \subseteq InQueue(s)
  /\ StaysClosed(s, t)

-------------------------------------------------------------------------------
(* The helpers of qtx. *)

LEMMA NoneMoreSound ==
  ASSUME NEW s, s \in QueueType, NEW t, NEW here, NEW ever,
         Sound(s, here, ever), NoneMore(s, t)
  PROVE  Sound(t, here, ever)
  <1>1. \A party : Performances(t, party) = Performances(s, party)
    BY DEF Performances, NoneMore
  <1>2. \A f \in s.finished : \A e \in f : e \in Entry
    BY DEF QueueType
  <1>3. Past(t)
    BY <1>2 DEF Past, Sound, NoneMore, StaysClosed
  <1>4. Whole(t, ever)
    BY DEF Whole, Sound, NoneMore
  <1>5. Counted(t, here)
    BY <1>1 DEF Counted, Sound, NoneMore
  <1> QED
    BY <1>3, <1>4, <1>5 DEF Sound

LEMMA NoneMoreOn ==
  ASSUME NEW s, NEW t, NEW r, NoneMore(s, t), NoneMore(t, r)
  PROVE  NoneMore(s, r)
  BY DEF NoneMore, StaysClosed

LEMMA SweepNoneMore ==
  ASSUME NEW s, Good(s)
  PROVE  NoneMore(s, SweepGhosts(s))
  <1> DEFINE gone == Ghosts(s)
             d == DetachAll(s, gone)
             t == SweepGhosts(s)
  <1>1. gone \subseteq InQueue(s) /\ gone \subseteq Entry
    BY DEF Ghosts, InQueue
  <1>2. /\ d \in QueueType /\ d.members = s.members /\ d.performed = s.performed
        /\ d.finished = s.finished
    BY <1>1, DetachAllEffect
  <1> HIDE DEF d, gone
  <1>3. /\ t.status = [e \in Entry |-> IF e \in gone THEN "removed" ELSE s.status[e]]
        /\ t.members = d.members /\ t.performed = d.performed /\ t.finished = d.finished
    BY <1>2 DEF SweepGhosts, QueueType, d, gone
  <1> HIDE DEF t
  <1>4. NoneMore(s, t)
    BY <1>1, <1>2, <1>3 DEF NoneMore, StaysClosed, InQueue, Queued
  <1> QED
    BY <1>4 DEF t

\* One standing entry gets another status.
LEMMA OneNoneMore ==
  ASSUME NEW s, s.status \in [Entry -> EntryStatus], NEW t, NEW e \in InQueue(s), NEW status,
         t.status = [s.status EXCEPT ![e] = status],
         t.members = s.members, t.performed = s.performed, t.finished = s.finished
  PROVE  NoneMore(s, t)
  <1>1. e \in Entry /\ s.status[e] \notin {"left", "removed"}
    BY DEF InQueue, Queued
  <1>2. InQueue(t) \subseteq InQueue(s)
    BY <1>1 DEF InQueue, Queued
  <1>3. StaysClosed(s, t)
    BY <1>1 DEF StaysClosed
  <1> QED
    BY <1>2, <1>3 DEF NoneMore

LEMMA LeavingNoneMore ==
  ASSUME NEW s, Good(s), NEW e \in InQueue(s), NEW status, NEW order
  PROVE  /\ NoneMore(s, CloseEntry(s, e, status))
         /\ NoneMore(s, [ResetEntry(Detach(s, e), e, "skipped") EXCEPT !.order = order])
  <1> DEFINE d == Detach(s, e)
             c == CloseEntry(s, e, status)
             k == [ResetEntry(d, e, "skipped") EXCEPT !.order = order]
  <1>1. s.status \in [Entry -> EntryStatus] /\ {e} \subseteq Entry
    BY DEF Good, QueueType, InQueue
  <1>2. /\ d \in QueueType /\ d.status = s.status /\ d.members = s.members
        /\ d.performed = s.performed /\ d.finished = s.finished
    BY <1>1, DetachAllEffect DEF Detach
  <1> HIDE DEF d
  <1>3. /\ c.status = [s.status EXCEPT ![e] = status] /\ c.members = s.members
        /\ c.performed = s.performed /\ c.finished = s.finished
    BY <1>2 DEF CloseEntry, d, QueueType
  <1>4. /\ k.status = [s.status EXCEPT ![e] = "skipped"] /\ k.members = s.members
        /\ k.performed = s.performed /\ k.finished = s.finished
    BY <1>2 DEF ResetEntry, QueueType
  <1> HIDE DEF c, k
  <1>5. NoneMore(s, c) /\ NoneMore(s, k)
    BY <1>1, <1>3, <1>4, OneNoneMore
  <1> QED
    BY <1>5 DEF c, k, d

LEMMA StandingNoneMore ==
  ASSUME NEW s, Good(s), NEW e \in InQueue(s), NEW confirmed, NEW id, NEW order
  PROVE  /\ NoneMore(s, RefreshReady(s, e, confirmed))
         /\ NoneMore(s, Invite(s, e, id))
         /\ NoneMore(s, [ResetEntry(s, e, "waiting") EXCEPT !.order = order])
         /\ NoneMore(s, [s EXCEPT !.order = order])
  <1>1. s \in QueueType /\ s.status \in [Entry -> EntryStatus]
    BY DEF Good, QueueType
  <1>2. NoneMore(s, RefreshReady(s, e, confirmed))
    <2> DEFINE t == RefreshReady(s, e, confirmed)
               status == IF s.members[e] \subseteq confirmed THEN "ready" ELSE s.status[e]
    <2> HIDE DEF status
    <2>1. /\ t.status = [s.status EXCEPT ![e] = status] /\ t.members = s.members
          /\ t.performed = s.performed /\ t.finished = s.finished
      BY <1>1 DEF RefreshReady, QueueType, status
    <2> HIDE DEF t
    <2>2. NoneMore(s, t)
      BY <1>1, <2>1, OneNoneMore
    <2> QED
      BY <2>2 DEF t
  <1>3. NoneMore(s, Invite(s, e, id))
    <2> DEFINE t == Invite(s, e, id)
    <2>1. /\ t.status = [s.status EXCEPT ![e] = "invited"] /\ t.members = s.members
          /\ t.performed = s.performed /\ t.finished = s.finished
      BY <1>1 DEF Invite, QueueType
    <2> HIDE DEF t
    <2>2. NoneMore(s, t)
      BY <1>1, <2>1, OneNoneMore
    <2> QED
      BY <2>2 DEF t
  <1>4. NoneMore(s, [ResetEntry(s, e, "waiting") EXCEPT !.order = order])
    <2> DEFINE t == [ResetEntry(s, e, "waiting") EXCEPT !.order = order]
    <2>1. /\ t.status = [s.status EXCEPT ![e] = "waiting"] /\ t.members = s.members
          /\ t.performed = s.performed /\ t.finished = s.finished
      BY <1>1 DEF ResetEntry, QueueType
    <2> HIDE DEF t
    <2>2. NoneMore(s, t)
      BY <1>1, <2>1, OneNoneMore
    <2> QED
      BY <2>2 DEF t
  <1>5. NoneMore(s, [s EXCEPT !.order = order])
    BY <1>1 DEF QueueType, NoneMore, StaysClosed, InQueue
  <1> QED
    BY <1>2, <1>3, <1>4, <1>5

LEMMA MatchNoneMore ==
  ASSUME NEW s, Good(s), NEW siteStatus
  PROVE  /\ NoneMore(s, CancelMatch(s))
         /\ Taken(s) \subseteq InQueue(s) => NoneMore(s, GoLive(s, siteStatus))
  <1>1. s \in QueueType
    BY DEF Good
  <1>2. NoneMore(s, CancelMatch(s))
    <2> DEFINE alive == Taken(s) \cap InQueue(s)
               t == CancelMatch(s)
    <2>1. /\ t.status = [e \in Entry |-> IF e \in alive THEN "waiting" ELSE s.status[e]]
          /\ t.members = s.members /\ t.performed = s.performed /\ t.finished = s.finished
      BY <1>1 DEF CancelMatch, ForgetMatch, QueueType
    <2>2. alive \subseteq InQueue(s)
      OBVIOUS
    <2> HIDE DEF t, alive
    <2>3. NoneMore(s, t)
      BY <2>1, <2>2 DEF NoneMore, StaysClosed, InQueue, Queued
    <2> QED
      BY <2>3 DEF t
  <1>3. ASSUME Taken(s) \subseteq InQueue(s)
        PROVE  NoneMore(s, GoLive(s, siteStatus))
    <2> DEFINE t == GoLive(s, siteStatus)
    <2>1. /\ t.status = [e \in Entry |-> IF e \in Taken(s) THEN "performing" ELSE s.status[e]]
          /\ t.members = s.members /\ t.performed = s.performed /\ t.finished = s.finished
      BY <1>1 DEF GoLive, QueueType
    <2> HIDE DEF t
    <2>2. NoneMore(s, t)
      BY <1>3, <2>1 DEF NoneMore, StaysClosed, InQueue, Queued
    <2> QED
      BY <2>2 DEF t
  <1> QED
    BY <1>2, <1>3

\* A match that ends counts for those who leave with it: who stands elsewhere has no
\* player on it.
LEMMA FinishSound ==
  ASSUME NEW s, Good(s), s.match = "live", NEW here, NEW ever, Sound(s, here, ever)
  PROVE  Sound(FinishMatch(s), here, ever)
  <1> DEFINE alive == Taken(s) \cap InQueue(s)
             t == FinishMatch(s)
  <1>1. s \in QueueType /\ Matched(s) /\ Single(s)
    BY DEF Good
  <1>2. /\ t.status = [e \in Entry |-> IF e \in alive THEN "left" ELSE s.status[e]]
        /\ t.members = s.members
        /\ t.performed = [e \in Entry |-> s.performed[e] + (IF e \in alive THEN 1 ELSE 0)]
        /\ t.finished = s.finished \cup {Taken(s)}
    BY <1>1 DEF FinishMatch, ForgetMatch, QueueType
  <1>3. /\ s.performed \in [Entry -> Nat] /\ Taken(s) \subseteq Entry
        /\ \A f \in s.finished : \A e \in f : e \in Entry
    BY <1>1 DEF QueueType, Taken
  <1>4. \A e \in Taken(s) : e \in alive \/ (s.status[e] = "removed" /\ s.members[e] = {})
    BY <1>1, <1>3 DEF Matched, InQueue, Queued
  <1> HIDE DEF t
  <1>5. InQueue(t) = InQueue(s) \ alive
    BY <1>2 DEF InQueue, Queued
  <1>6. Past(t)
    BY <1>2, <1>3, <1>4 DEF Past, Sound
  <1>7. Whole(t, ever)
    BY <1>2, <1>5 DEF Whole, Sound
  <1>8. ASSUME NEW e \in InQueue(t), t.members[e] \in here
        PROVE  t.performed[e] = Performances(t, t.members[e])
    <2>1. e \in InQueue(s) /\ e \notin alive /\ e \in Entry
      BY <1>5 DEF InQueue
    <2>2. \A x \in Taken(s) : s.members[x] \cap s.members[e] = {}
      BY <1>1, <1>4, <2>1 DEF Single
    <2>3. \A f : (\E x \in f : s.members[x] \cap s.members[e] # {}) => f # Taken(s)
      BY <2>2
    <2>4. {f \in t.finished : \E x \in f : t.members[x] \cap t.members[e] # {}}
          = {f \in s.finished : \E x \in f : s.members[x] \cap s.members[e] # {}}
      BY <1>2, <2>3
    <2>5. Performances(t, t.members[e]) = Performances(s, s.members[e])
      BY <2>4 DEF Performances
    <2>6. t.performed[e] = s.performed[e]
      BY <1>2, <1>3, <2>1
    <2> QED
      BY <1>2, <1>8, <2>1, <2>5, <2>6 DEF Sound, Counted
  <1>9. Counted(t, here)
    BY <1>8 DEF Counted
  <1>10. Sound(t, here, ever)
    BY <1>6, <1>7, <1>9 DEF Sound
  <1> QED
    BY <1>10 DEF t

\* JoinQueue counts anew; its entry is on no match that is over.
LEMMA EnqueueSound ==
  ASSUME NEW s, Good(s), NEW here, NEW ever, Sound(s, here, ever),
         NEW e \in Entry, s.status[e] = "none", NEW party, party \in SUBSET User,
         \A p \in ever : p \subseteq party => p = party
  PROVE  Sound(Enqueue(s, e, party), here, ever)
  <1> DEFINE count == Performances(s, party)
             n == [s EXCEPT !.status[e] = "waiting", !.members[e] = party,
                            !.performed[e] = count]
             order == qPlacePriority(Load(n), qPlaceNew(Load(n), s.order, e), e)
             t == [n EXCEPT !.order = order]
  <1>1. s \in QueueType
    BY DEF Good
  <1>2. Enqueue(s, e, party) = t
    BY DEF Enqueue
  <1> HIDE DEF order, count
  <1>3. /\ t.status = [s.status EXCEPT ![e] = "waiting"]
        /\ t.members = [s.members EXCEPT ![e] = party]
        /\ t.performed = [s.performed EXCEPT ![e] = count]
        /\ t.finished = s.finished
    BY <1>1 DEF QueueType
  <1> HIDE DEF t
  <1>4. /\ s.status \in [Entry -> EntryStatus] /\ s.members \in [Entry -> SUBSET User]
        /\ s.performed \in [Entry -> Nat]
        /\ \A f \in s.finished : \A x \in f : x \in Entry
    BY <1>1 DEF QueueType
  <1>5. \A f \in s.finished : e \notin f
    BY DEF Sound, Past
  <1>6. ASSUME NEW players
        PROVE  Performances(t, players) = Performances(s, players)
    <2>1. \A f \in s.finished : \A x \in f : t.members[x] = s.members[x]
      BY <1>3, <1>4, <1>5
    <2>2. {f \in t.finished : \E x \in f : t.members[x] \cap players # {}}
          = {f \in s.finished : \E x \in f : s.members[x] \cap players # {}}
      BY <1>3, <2>1
    <2> QED
      BY <2>2 DEF Performances
  <1>7. /\ InQueue(t) = InQueue(s) \cup {e}
        /\ \A x \in InQueue(t) : x \in Entry
    BY <1>3, <1>4 DEF InQueue, Queued
  <1>8. Past(t)
    BY <1>3, <1>4, <1>5 DEF Past, Sound
  <1>9. Whole(t, ever)
    BY <1>3, <1>4, <1>7 DEF Whole, Sound
  <1>10. t.performed[e] = Performances(t, t.members[e])
    BY <1>3, <1>4, <1>6 DEF count
  <1>11. \A x \in InQueue(s) : x # e => /\ t.members[x] = s.members[x]
                                       /\ t.performed[x] = s.performed[x]
    BY <1>3, <1>4, <1>7
  <1>12. Counted(t, here)
    BY <1>6, <1>7, <1>10, <1>11 DEF Counted, Sound
  <1>13. Sound(t, here, ever)
    BY <1>8, <1>9, <1>12 DEF Sound
  <1> QED
    BY <1>2, <1>13
-------------------------------------------------------------------------------
(* Steps. *)

\* The rows stay sound while the format and the accounts stay.
LEMMA SoundStays ==
  ASSUME Sound(q', Parties, AnyParty), users' = users, session'.format = session.format
  PROVE  CountInv'
  BY DEF CountInv, Parties, AnyParty

LEMMA SweptSound ==
  ASSUME IInv, CountInv
  PROVE  Sound(Swept, Parties, AnyParty)
  BY SweepNoneMore, NoneMoreSound DEF IInv, Good, CountInv, Swept

\* The session row after an operation.
LEMMA NextRevision ==
  ASSUME session \in SessionType, Commit(q')
  PROVE  session'.format = session.format /\ session'.rev > session.rev /\ users' = users
  BY DEF SessionType, Commit, env

\* An operation by which nobody joins.
LEMMA CommitSound ==
  ASSUME IInv, CountInv, NEW t, Commit(t), NoneMore(Swept, t)
  PROVE  CountInv'
  <1>1. Sound(t, Parties, AnyParty)
    BY SweptSound, SweptGood, NoneMoreSound DEF Good
  <1>2. q' = t /\ Commit(q') /\ session \in SessionType
    BY DEF Commit, IInv, TypeOK
  <1> QED
    BY <1>1, <1>2, NextRevision, SoundStays

LEMMA SameRowsSound ==
  ASSUME IInv, CountInv, session' = session, users' = users,
         q' = q \/ (\E site : q' = [q EXCEPT !.site = site])
  PROVE  CountInv'
  <1>1. NoneMore(q, q')
    BY DEF IInv, TypeOK, QueueType, NoneMore, StaysClosed, InQueue
  <1>2. Sound(q', Parties, AnyParty)
    BY <1>1, NoneMoreSound DEF IInv, TypeOK, CountInv
  <1> QED
    BY <1>2, SoundStays

LEMMA JoinSound ==
  ASSUME IInv, CountInv, NEW party \in Parties, NEW byOrganizer, JoinQueue(party, byOrganizer)
  PROVE  CountInv'
  <1>1. PICK e \in Entry : Swept.status[e] = "none" /\ Commit(Enqueue(Swept, e, party))
    BY DEF JoinQueue
  <1>2. party \in SUBSET User
    BY ConstantsAssumption DEF IInv, TypeOK, Parties
  <1>3. \A p \in AnyParty : p \subseteq party => p = party
    <2>1. CASE session.format = "1x1"
      <3>1. PICK u \in users : party = {u}
        BY <2>1 DEF Parties
      <3>2. \A v : {v} \subseteq {u} => {v} = {u}
        OBVIOUS
      <3> QED
        BY <2>1, <3>1, <3>2 DEF AnyParty
    <2>2. CASE session.format # "1x1"
      <3>1. party \in Team /\ AnyParty = Team
        BY <2>2 DEF Parties, AnyParty
      <3> QED
        BY <3>1, TeamsAreApart
    <2> QED
      BY <2>1, <2>2
  <1>4. Sound(Enqueue(Swept, e, party), Parties, AnyParty)
    BY <1>1, <1>2, <1>3, SweptSound, SweptGood, EnqueueSound
  <1>5. q' = Enqueue(Swept, e, party) /\ Commit(q') /\ session \in SessionType
    BY <1>1 DEF Commit, IInv, TypeOK
  <1> QED
    BY <1>4, <1>5, NextRevision, SoundStays

\* What a player asks for.
LEMMA PlayerSound ==
  ASSUME IInv, CountInv, PlayerNext
  PROVE  CountInv'
  <1>1. ASSUME NEW u \in User, LeaveQueue(u)
        PROVE  CountInv'
    <2>1. PICK e \in InQueue(Swept) : Commit(CloseEntry(Swept, e, "left"))
      BY <1>1 DEF LeaveQueue, EntryOf
    <2> QED
      BY <2>1, SweptGood, LeavingNoneMore, CommitSound
  <1>2. ASSUME NEW u \in User, ConfirmReady(u)
        PROVE  CountInv'
    <2>1. PICK e \in InQueue(Swept) :
            \/ Commit(RefreshReady(Swept, e, Swept.ready[e] \cup {u}))
            \/ Commit(Swept)
      BY <1>2 DEF ConfirmReady, EntryOf
    <2>2. NoneMore(Swept, Swept)
      BY DEF NoneMore, StaysClosed
    <2> QED
      BY <2>1, <2>2, SweptGood, StandingNoneMore, CommitSound
  <1>3. ASSUME NEW u \in User, ActivatePriority(u)
        PROVE  CountInv'
    BY <1>3, SameRowsSound DEF ActivatePriority
  <1> QED
    BY <1>1, <1>2, <1>3, JoinSound DEF PlayerNext

\* Who is called stands.
LEMMA CallSound ==
  ASSUME IInv, CountInv, NEW e \in Entry, Call(Swept, e)
  PROVE  CountInv'
  <1>1. PICK id : Commit(Invite(Swept, e, id))
    BY DEF Call
  <1>2. e \in InQueue(Swept)
    BY DEF Call, qEligible, InQueue, Queued
  <1> QED
    BY <1>1, <1>2, SweptGood, StandingNoneMore, CommitSound

\* What an organizer does to one entry.
LEMMA EntrySound ==
  ASSUME IInv, CountInv, NEW e \in Entry, EntryNext(e)
  PROVE  CountInv'
  <1> DEFINE s == Swept
  <1>1. Good(s)
    BY SweptGood
  <1> HIDE DEF s
  <1>2. CASE ConfirmEntry(e)
    <2>1. e \in InQueue(s) /\ Commit(RefreshReady(s, e, s.members[e]))
      BY <1>2 DEF ConfirmEntry, InQueue, Queued, s
    <2>2. NoneMore(s, RefreshReady(s, e, s.members[e]))
      BY <1>1, <2>1, StandingNoneMore
    <2> QED
      BY <2>1, <2>2, CommitSound DEF s
  <1>3. CASE CallEntry(e)
    BY <1>3, CallSound DEF CallEntry
  <1>4. ASSUME NEW mode, SkipEntry(e, mode)
        PROVE  CountInv'
    <2> DEFINE t == ResetEntry(Detach(s, e), e, "skipped")
               r == [t EXCEPT !.order = qPlaceSkipped(Load(t), t.order, e)]
    <2>1. e \in InQueue(s) /\ (Commit(CloseEntry(s, e, "removed")) \/ Commit(r))
      BY <1>4 DEF SkipEntry, s
    <2>2. NoneMore(s, CloseEntry(s, e, "removed")) /\ NoneMore(s, r)
      BY <1>1, <2>1, LeavingNoneMore
    <2> HIDE DEF r
    <2> QED
      BY <2>1, <2>2, CommitSound DEF s
  <1>5. ASSUME NEW position, ReturnEntry(e, position)
        PROVE  CountInv'
    <2> DEFINE t == ResetEntry(s, e, "waiting")
               at == IF position <= 0 THEN qInflight(Load(t), t.order) + 1
                                      ELSE position
               r == [t EXCEPT !.order = qMoveTo(Load(t), t.order, e, at)]
    <2>1. s.status[e] = "skipped" /\ Commit(r)
      BY <1>5 DEF ReturnEntry, s
    <2>2. e \in InQueue(s)
      BY <2>1 DEF InQueue, Queued
    <2>3. NoneMore(s, r)
      BY <1>1, <2>2, StandingNoneMore
    <2> HIDE DEF r
    <2> QED
      BY <2>1, <2>3, CommitSound DEF s
  <1>6. ASSUME NEW toPosition, NEW rev, MoveEntry(e, toPosition, rev)
        PROVE  CountInv'
    <2> DEFINE r == [s EXCEPT !.order = qMoveTo(Load(s), s.order, e, toPosition)]
    <2>1. e \in InQueue(s) /\ Commit(r)
      BY <1>6 DEF MoveEntry, s
    <2>2. NoneMore(s, r)
      BY <1>1, <2>1, StandingNoneMore
    <2> HIDE DEF r
    <2> QED
      BY <2>1, <2>2, CommitSound DEF s
  <1>7. CASE RemoveEntry(e)
    <2>1. e \in InQueue(s) /\ Commit(CloseEntry(s, e, "removed"))
      BY <1>7 DEF RemoveEntry, s
    <2>2. NoneMore(s, CloseEntry(s, e, "removed"))
      BY <1>1, <2>1, LeavingNoneMore
    <2> QED
      BY <2>1, <2>2, CommitSound DEF s
  <1> QED
    BY <1>2, <1>3, <1>4, <1>5, <1>6, <1>7 DEF EntryNext

\* The rows change as the operation says, the accounts do not, nor does the format.
LEMMA RowsSound ==
  ASSUME IInv, CountInv, NoneMore(Swept, q'), users' = users, session'.format = session.format
  PROVE  CountInv'
  <1>1. Sound(q', Parties, AnyParty)
    BY SweptSound, SweptGood, NoneMoreSound DEF Good
  <1> QED
    BY <1>1, SoundStays

LEMMA EndSound ==
  ASSUME IInv, CountInv, Swept.match = "live", q' = FinishMatch(Swept), users' = users,
         session'.format = session.format
  PROVE  CountInv'
  <1>1. Sound(q', Parties, AnyParty)
    BY SweptSound, SweptGood, FinishSound
  <1> QED
    BY <1>1, SoundStays

\* What an organizer does.
LEMMA OrganizerSound ==
  ASSUME IInv, CountInv, OrganizerNext
  PROVE  CountInv'
  <1> DEFINE s == Swept
  <1>1. Good(s) /\ session \in SessionType
    BY SweptGood DEF IInv, TypeOK
  <1>2. NoneMore(s, s)
    BY DEF NoneMore, StaysClosed
  <1> HIDE DEF s
  <1>3. CASE CallNext
    <2>1. PICK e \in InQueue(Swept) : Call(Swept, e)
      BY <1>3 DEF CallNext
    <2> QED
      BY <2>1, CallSound DEF InQueue
  <1>4. ASSUME NEW force, StartQueueMatch(force)
        PROVE  CountInv'
    <2>1. Taken(s) \subseteq InQueue(s) /\ (\E siteStatus : q' = GoLive(s, siteStatus))
      BY <1>4 DEF StartQueueMatch, s
    <2>2. NoneMore(s, q')
      BY <1>1, <2>1, MatchNoneMore
    <2>3. users' = users /\ session'.format = session.format
      BY <1>1, <1>4 DEF StartQueueMatch, SessionType
    <2> QED
      BY <2>2, <2>3, RowsSound DEF s
  <1>5. CASE FinishQueueMatch
    <2>1. s.match = "live" /\ q' = FinishMatch(s) /\ Commit(q')
      BY <1>5 DEF FinishQueueMatch, Commit, s
    <2> QED
      BY <1>1, <2>1, NextRevision, EndSound DEF s
  <1>6. CASE CancelQueueMatch
    BY <1>1, <1>6, MatchNoneMore, CommitSound DEF CancelQueueMatch, s
  <1>7. ASSUME NEW action, SetQueueMode(action)
        PROVE  CountInv'
    <2>1. q' = s /\ users' = users /\ session'.format = session.format
      BY <1>1, <1>7 DEF SetQueueMode, SessionType, env, s
    <2> QED
      BY <1>2, <2>1, RowsSound DEF s
  <1>8. ASSUME NEW format, UpdateQueueSession(format)
        PROVE  CountInv'
    <2>1. q' = s /\ users' = users /\ session'.format = format
      BY <1>1, <1>8 DEF UpdateQueueSession, SessionType, env, s
    <2>2. CASE format = session.format
      BY <1>2, <2>1, <2>2, RowsSound DEF s
    <2>3. CASE format # session.format
      <3>1. s.order = <<>>
        BY <1>8, <2>3 DEF UpdateQueueSession, s
      <3>2. InQueue(s) = {}
        BY <1>1, <3>1 DEF Good, Listed, Range
      <3>3. Past(s)
        BY SweptSound DEF Sound, s
      <3> QED
        BY <2>1, <3>2, <3>3 DEF CountInv, Sound, Whole, Counted
    <2> QED
      BY <2>2, <2>3
  <1>9. CASE FinishQueueSession
    <2>1. /\ q' = CancelMatch(s) \/ q' = s
          /\ users' = users /\ session'.format = session.format
      BY <1>1, <1>9 DEF FinishQueueSession, SessionType, env, s
    <2>2. NoneMore(s, q')
      BY <1>1, <1>2, <2>1, MatchNoneMore
    <2> QED
      BY <2>1, <2>2, RowsSound DEF s
  <1>10. ASSUME NEW format, CreateQueueSession(format)
         PROVE  CountInv'
    <2>1. q' = EmptyQueue
      BY <1>10 DEF CreateQueueSession
    <2> QED
      BY <2>1 DEF CountInv, Sound, Past, Whole, Counted, InQueue, Queued, EmptyQueue
  <1> QED
    BY <1>3, <1>4, <1>5, <1>6, <1>7, <1>8, <1>9, <1>10, JoinSound, EntrySound DEF OrganizerNext

\* What the console does, now or when it settles.
LEMMA ConsoleSound ==
  ASSUME IInv, CountInv, ConsoleNext
  PROVE  CountInv'
  <1>1. ASSUME NEW settles, ConsoleFinishes(settles) \/ ConsoleDeletes(settles)
        PROVE  CountInv'
    BY <1>1, SameRowsSound DEF ConsoleFinishes, ConsoleDeletes
  <1>2. CASE ConsoleReopens
    BY <1>2, SameRowsSound DEF ConsoleReopens
  <1>3. ASSUME NEW r \in settling, SettleQueueMatch(r)
        PROVE  CountInv'
    <2>1. users' = users /\ session \in SessionType
      BY <1>3 DEF SettleQueueMatch, env, IInv, TypeOK
    <2>2. CASE ~StillLive(Swept, r)
      BY <1>3, <2>1, <2>2, SameRowsSound DEF SettleQueueMatch
    <2>3. CASE StillLive(Swept, r)
      <3>1. /\ session'.format = session.format
            /\ q' = FinishMatch(Swept) \/ q' = CancelMatch(Swept)
        BY <1>3, <2>1, <2>3 DEF SettleQueueMatch, SessionType
      <3> QED
        BY <2>1, <2>3, <3>1, SweptGood, MatchNoneMore, RowsSound, EndSound DEF StillLive
    <2> QED
      BY <2>2, <2>3
  <1>4. ASSUME NEW r \in settling, SettleLost(r)
        PROVE  CountInv'
    BY <1>4, SameRowsSound DEF SettleLost, env
  <1> QED
    BY <1>1, <1>2, <1>3, <1>4 DEF ConsoleNext

\* An account that goes takes no player from an entry that is a party still.
LEMMA DropSound ==
  ASSUME IInv, CountInv, NEW u \in User, DropStub(u)
  PROVE  CountInv'
  <1>1. /\ q \in QueueType /\ session' = session /\ users' = users \ {u}
        /\ q' = [q EXCEPT !.members = [e \in Entry |-> q.members[e] \ {u}],
                          !.ready   = [e \in Entry |-> q.ready[e] \ {u}]]
    BY DEF DropStub, IInv, TypeOK
  <1>2. /\ q'.status = q.status /\ q'.performed = q.performed /\ q'.finished = q.finished
        /\ q'.members = [e \in Entry |-> q.members[e] \ {u}]
    BY <1>1 DEF QueueType
  <1>3. /\ InQueue(q') = InQueue(q) /\ \A e \in InQueue(q) : e \in Entry
        /\ \A f \in q.finished : \A e \in f : e \in Entry
    BY <1>1, <1>2 DEF InQueue, QueueType
  <1>4. AnyParty' = AnyParty /\ Parties' \subseteq Parties /\ Parties \subseteq AnyParty
    BY <1>1 DEF AnyParty, Parties, IInv, TypeOK
  <1>5. Past(q')
    BY <1>2, <1>3 DEF Past, CountInv, Sound
  <1>6. Whole(q', AnyParty)
    BY <1>2, <1>3 DEF Whole, CountInv, Sound
  <1>7. ASSUME NEW e \in InQueue(q), q'.members[e] \in Parties'
        PROVE  q'.performed[e] = Performances(q', q'.members[e])
    <2>1. q'.members[e] = q.members[e] \ {u} /\ q'.members[e] \in AnyParty /\ q'.members[e] \in Parties
      BY <1>2, <1>3, <1>4, <1>7
    <2>2. q'.members[e] = q.members[e]
      BY <2>1 DEF CountInv, Sound, Whole
    <2>3. u \notin q.members[e]
      BY <2>1, <2>2
    <2>4. \A f \in q.finished : \A x \in f :
            q'.members[x] \cap q.members[e] = q.members[x] \cap q.members[e]
      BY <1>2, <1>3, <2>3
    <2>5. {f \in q'.finished : \E x \in f : q'.members[x] \cap q.members[e] # {}}
          = {f \in q.finished : \E x \in f : q.members[x] \cap q.members[e] # {}}
      BY <1>2, <2>4
    <2>6. Performances(q', q'.members[e]) = Performances(q, q.members[e])
      BY <2>2, <2>5 DEF Performances
    <2> QED
      BY <1>2, <2>1, <2>2, <2>6 DEF CountInv, Sound, Counted
  <1>8. Counted(q', Parties')
    BY <1>3, <1>7 DEF Counted
  <1> QED
    BY <1>4, <1>5, <1>6, <1>8 DEF CountInv, Sound

\* What happens beside the queue, and the promotion of who spent a token.
LEMMA OutsideSound ==
  ASSUME IInv, CountInv, OutsideNext
  PROVE  CountInv'
  <1>1. ASSUME NEW u \in User, PromotePriority(u)
        PROVE  CountInv'
    <2>1. PICK e \in InQueue(Swept) : q' = Promoted(Swept, e)
      BY <1>1 DEF PromotePriority, EntryOf
    <2>2. NoneMore(Swept, q')
      BY <2>1, SweptGood, StandingNoneMore DEF Promoted
    <2>3. users' = users /\ session'.format = session.format
      BY <1>1 DEF PromotePriority, env, IInv, TypeOK, SessionType
    <2> QED
      BY <2>2, <2>3, RowsSound
  <1>2. ASSUME NEW u \in User, PlaysElsewhere(u) \/ CancelPriority(u) \/ ChooseSessions(u)
                               \/ PromotionLost(u)
        PROVE  CountInv'
    BY <1>2, SameRowsSound
       DEF PlaysElsewhere, CancelPriority, ChooseSessions, PromotionLost, env
  <1>3. CASE NewDay
    BY <1>3, SameRowsSound DEF NewDay
  <1> QED
    BY <1>1, <1>2, <1>3, DropSound DEF OutsideNext

LEMMA CountStep ==
  IInv /\ CountInv /\ [Next]_vars => CountInv'
  <1> SUFFICES ASSUME IInv, CountInv, [Next]_vars
               PROVE  CountInv'
    OBVIOUS
  <1>1. CASE UNCHANGED vars
    BY <1>1, SameRowsSound DEF vars, env
  <1>2. CASE Next
    BY <1>2, PlayerSound, OrganizerSound, ConsoleSound, OutsideSound DEF Next
  <1> QED
    BY <1>1, <1>2

\* A standing entry has as many performances as finished matches its players were on,
\* however often they left and joined again (finishMatch, JoinQueue).
THEOREM CountTheorem == Spec => []PerformedCounts
  <1>1. Init => CountInv
    BY DEF Init, CountInv, Sound, Past, Whole, Counted, InQueue, Queued, EmptyQueue
  <1>2. CountInv => PerformedCounts
    BY DEF CountInv, Sound, Counted, PerformedCounts
  <1> QED
    BY <1>1, <1>2, CountStep, Invariance, PTL DEF Spec
===============================================================================
