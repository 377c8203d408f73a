------------------------------ MODULE QueueOrder ------------------------------
(***************************************************************************)
(* The order of the performance queue, computed without the database       *)
(* (internal/store/queue_order.go).                                        *)
(*                                                                         *)
(* A list of queue items is a sequence of entry ids; what the code keeps   *)
(* in a queueItem beside the id is looked up in a function                 *)
(*     info[id] = [status |-> ..., today |-> ..., prio |-> ...]            *)
(* today counts the finished site matches of the entry's players this day  *)
(* and prio is the activation time of their token, 0 when there is none.   *)
(* Indexes named `at' are 0-based, as in the source. Every operator that    *)
(* moves an id is asked only for an id of the list (for another one the    *)
(* code returns the list as it is).                                        *)
(***************************************************************************)
EXTENDS Integers, FiniteSets, SequencesExt

qInMatch(status) == status \in {"invited", "ready", "performing"}

qEligible(status) == status \in {"waiting", "skipped"}

\* The 1-based place of id in items (only asked for an id that is there).
qIndex(items, id) == CHOOSE i \in 1..Len(items) : items[i] = id

qWithout(items, id) ==
  IF id \in Range(items) THEN RemoveAt(items, qIndex(items, id)) ELSE items

\* The items outside gone, in their order (SelectSeq by rank, for the proofs).
qAllBut(items, gone) ==
  LET kept    == {i \in 1..Len(items) : items[i] \notin gone}
      rank(i) == Cardinality({j \in kept : j <= i})
  IN  [k \in 1..Cardinality(kept) |-> items[CHOOSE i \in kept : rank(i) = k]]

qInsertAt(items, at, id) ==
  LET place == IF at < 0 THEN 0 ELSE IF at > Len(items) THEN Len(items) ELSE at
  IN  InsertAt(items, place + 1, id)

\* The place right behind the last item that has not played today.
qFreshEnd(info, items) ==
  Cardinality({i \in 1..Len(items) :
                 \E j \in i..Len(items) : info[items[j]].today = 0})

\* How many items at the head of the list are called already.
qInflight(info, items) ==
  Cardinality({i \in 1..Len(items) :
                 \A j \in 1..i : qInMatch(info[items[j]].status)})

\* Behind the called items and behind those whose token is not younger.
qPrioIndex(info, items, at) ==
  LET head == qInflight(info, items)
  IN  head + Cardinality({i \in (head + 1)..Len(items) :
                            \A j \in (head + 1)..i :
                               /\ info[items[j]].prio # 0
                               /\ info[items[j]].prio <= at})

\* Mutant: right behind the called ones.
qPlaceAhead(info, items, id) ==
  IF info[id].today > 0
  THEN Append(items, id)
  ELSE qInsertAt(items, qInflight(info, items), id)

qPlaceNew(info, items, id) ==
  IF info[id].today > 0
  THEN Append(items, id)
  ELSE qInsertAt(items, qFreshEnd(info, items), id)

\* Mutant: the place is sought in the list that still has the entry.
qPlaceSkippedAgain(info, items, id) ==
  IF info[id].today = 0
  THEN qInsertAt(items, qFreshEnd(info, items), id)
  ELSE Append(items, id)

qPlaceSkipped(info, items, id) ==
  LET rest == qWithout(items, id)
  IN  IF info[id].today = 0
      THEN qInsertAt(rest, qFreshEnd(info, rest), id)
      ELSE Append(rest, id)

qPlacePriority(info, items, id) ==
  LET rest == qWithout(items, id)
  IN  IF info[id].prio = 0 \/ ~qEligible(info[id].status) \/ info[id].today > 0
      THEN items
      ELSE qInsertAt(rest, qPrioIndex(info, rest, info[id].prio), id)

qPlaceCalled(info, items, id) ==
  LET rest == qWithout(items, id)
  IN  qInsertAt(rest, qInflight(info, rest), id)

qMoveTo(info, items, id, pos) ==
  LET rest  == qWithout(items, id)
      floor == qInflight(info, rest)
  IN  qInsertAt(rest,
                IF ~qInMatch(info[id].status) /\ pos - 1 < floor THEN floor
                                                                 ELSE pos - 1,
                id)

\* The first item that may be called; the code reports "nobody" otherwise.
qIsNext(info, items, id) ==
  \E i \in 1..Len(items) :
     /\ items[i] = id
     /\ qEligible(info[id].status)
     /\ \A j \in 1..(i - 1) : ~qEligible(info[items[j]].status)
===============================================================================
