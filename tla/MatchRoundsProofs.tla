--------------------------- MODULE MatchRoundsProofs ---------------------------
(***************************************************************************)
(* What a judge can rely on in the rounds of a match, for every number of  *)
(* rounds, maps, tasks and protocols.  Handlers look first and write in    *)
(* later statements, so the invariant says two things of a request: how    *)
(* far it can be in its course (Shape), whoever else is served, and, for   *)
(* the console of one judge, that what it saw is still so (Saw).  On it    *)
(* rest the route of the maps, what is not undone, the tasks, the          *)
(* protocols, the raids (Raids) and the deal (Dealt).                      *)
(***************************************************************************)
EXTENDS MatchRounds, FiniteSetTheorems, SequenceTheorems, WellFoundedInduction, TLAPS

Orders == {Seeds, <<Seeds[2], Seeds[1]>>}

Kinds == {"none", "veto", "undo", "maps", "first", "next", "reroll", "assign", "contracts",
          "protocol", "focus", "finish"}

Statements == {"idle", "started", "count", "move", "last", "undo", "save", "rounds", "begin",
               "dealt", "pick", "put", "aim", "raid", "assignment", "other", "swap", "dup",
               "assign", "draw", "taken", "clear", "enact", "prev", "close", "finish"}

Requests == [kind : Kinds, pc : Statements, side : Side \cup {NoSide},
             num : 0..TotalRounds, live : 0..TotalRounds, maps : Seq(Map),
             seen : SUBSET (Nat \cup Protocol), count : Nat, order : {<<>>} \cup Orders,
             slot : Nat, row : Nat, task : Task \cup {NoTask}, todo : Seq(Task),
             protocol : Protocol \cup {NoProtocol}, ticket : Nat]

\* What TypeOK leaves open of the tables: the moves are of the order and have the
\* tickets of requests, the sides stay the two that were drawn.
TablesOK ==
  /\ TypeOK
  /\ load \in Loads /\ made \in Nat /\ cancelled \in Nat
  /\ IsFiniteSet(veto) /\ \A v \in veto : v.seq \in 1..Len(VetoOrder) /\ v.id <= made
  /\ seeds \in Orders
  /\ raid \in [side : Side \cup {NoSide}, starts : Seq(Number \X Side)]

\* The statements of each kind of request.
Course(r) ==
  \/ r.pc = "idle"
  \/ r.kind = "veto"      /\ r.pc \in {"started", "count", "move"}
  \/ r.kind = "undo"      /\ r.pc \in {"started", "last", "undo"}
  \/ r.kind = "maps"      /\ r.pc \in {"started", "save"}
  \/ r.kind = "first"     /\ r.pc \in {"started", "save"}
  \/ r.kind = "next"      /\ r.pc \in {"rounds", "begin", "dealt", "pick", "put", "aim", "raid"}
  \/ r.kind = "reroll"    /\ r.pc \in {"assignment", "other", "swap"}
  \/ r.kind = "assign"    /\ r.pc \in {"dup", "assign"}
  \/ r.kind = "contracts" /\ r.pc \in {"draw", "dup", "assign"}
  \/ r.kind = "protocol"  /\ r.pc \in {"taken", "clear", "enact"}
  \/ r.kind = "focus"     /\ r.pc \in {"prev", "aim", "raid"}
  \/ r.kind = "finish"    /\ r.pc \in {"close", "finish"}

\* A round is being begun.
Begins(r) == r.kind = "next" /\ r.pc \in {"dealt", "pick", "put", "aim", "raid"}

\* What a request has with it at each statement.
Carries(r) ==
  /\ r.kind = "veto" => Len(r.maps) = 1
  /\ r.pc = "move" => r.count \in 1..Len(VetoOrder)
  /\ r.kind \in {"first", "focus"} => r.side \in Side
  /\ r.pc = "begin" => r.num \in Number /\ r.live # r.num
  /\ Begins(r) => r.num \in Number
  /\ r.kind = "next" => r.count = 0
  /\ r.pc \in {"pick", "put"} => r.order \in Orders /\ r.slot \in 1..LastSlot
  /\ r.pc = "put" => r.task \in Task
  /\ r.pc \in {"other", "swap"} => r.num \in Number /\ r.side \in Side /\ r.task \in Task
  /\ r.kind \in {"assign", "contracts", "protocol"} => r.num \in Number /\ r.side \in Side
  /\ r.pc \in {"dup", "assign"} => r.todo # <<>>
  /\ r.pc \in {"taken", "enact"} => r.protocol \in Protocol
  /\ r.pc = "raid" => r.side \in Side

Shape(p) ==
  /\ Course(req[p]) /\ Carries(req[p])
  /\ req[p].pc # "idle" => req[p].kind \in load.kinds /\ req[p].ticket <= made
  /\ req[p].kind = "reroll" => req[p].row \in 1..Len(dealt)

Base == TablesOK /\ req \in [Request -> Requests] /\ \A p \in Request : Shape(p)

\* The task is not dealt.
Fresh(t)   == \A i \in 1..Len(dealt) : dealt[i].task # t
LastMoves  == {v.id : v \in {w \in veto : \A x \in veto : x.seq <= w.seq}}
Mine(n, s) == {x.protocol : x \in {y \in penalty : y.round = n /\ y.side = s}}

\* What a request saw of the tables is still so when it writes.
SawBy(r) ==
  /\ r.pc # "idle" => r.ticket = made
  /\ r.pc # "idle" /\ r.kind # "focus" => match # "finished"
  /\ r.pc \in {"count", "move", "last", "undo", "save"} => ~Started
  /\ r.kind = "veto" /\ r.pc # "idle" => \A v \in veto : v.id # r.ticket
  /\ r.pc = "move" => r.count = Cardinality(veto) + 1
  /\ r.pc = "undo" => r.seen = LastMoves
  /\ r.pc = "begin" => r.num = NextRound /\ r.live = LiveRound /\ round[r.num].map # NoMap
  /\ Begins(r) => round[r.num].status = "live"
  /\ r.pc \in {"put", "swap"} => Fresh(r.task)
  /\ r.pc = "assign" => Fresh(r.todo[1])
  /\ r.pc \in {"other", "swap"} => dealt[r.row].by = NoSide
  /\ r.pc \in {"clear", "enact"} /\ r.protocol # NoProtocol =>
       \A x \in penalty : x.round = r.num /\ x.protocol = r.protocol => x.side = r.side
  /\ r.pc = "enact" => r.seen = Mine(r.num, r.side)

Saw(p) == SawBy(req[p])

OneServed == \A p, q \in Request : ~At(p, "idle") /\ ~At(q, "idle") => p = q

\* What one judge relies on.
Judged ==
  OneJudge => /\ OneServed /\ \A p \in Request : Saw(p)
              /\ \A v, w \in veto : v.id = w.id => v = w

Inv == Base /\ Judged

-------------------------------------------------------------------------------
\* A veto picks a map for a round once.
LEMMA VetoOrderFacts ==
  /\ Len(VetoOrder) \in Nat
  /\ \A i \in 1..Len(VetoOrder) : VetoOrder[i].round \in 0..TotalRounds
  /\ \A i, j \in 1..Len(VetoOrder) :
       VetoOrder[i].round = VetoOrder[j].round /\ VetoOrder[i].round # 0 => i = j
<1>1. TotalRounds \in {1, 2, 3}
  BY RoundsAssumption
<1>2. CASE TotalRounds = 1
  BY <1>2 DEF VetoOrder
<1>3. CASE TotalRounds = 2
  <2>1. /\ Len(VetoOrder) = 6
        /\ VetoOrder[1].round = 0 /\ VetoOrder[2].round = 0 /\ VetoOrder[3].round = 0
        /\ VetoOrder[4].round = 0 /\ VetoOrder[5].round = 1 /\ VetoOrder[6].round = 2
    BY <1>3 DEF VetoOrder
  <2>2. \A i \in 1..6 : i \in {1, 2, 3, 4, 5, 6}
    OBVIOUS
  <2> QED BY <1>3, <2>1, <2>2
<1>4. CASE TotalRounds = 3
  <2> DEFINE move(s, n) == [side |-> s, round |-> n]
             order == <<move("A", 0), move("B", 0), move("A", 1), move("B", 2), move("", 3)>>
  <2>0. VetoOrder = order
    <3>1. TotalRounds # 1
      BY <1>4
    <3> QED BY <3>1, <1>4, Zenon DEF VetoOrder
  <2>1. \A s, n : move(s, n).round = n
    OBVIOUS
  <2> HIDE DEF move
  <2>3. Len(order) = 5 /\ order[1] = move("A", 0) /\ order[2] = move("B", 0)
        /\ order[3] = move("A", 1) /\ order[4] = move("B", 2) /\ order[5] = move("", 3)
    OBVIOUS
  <2>2. \A i \in 1..5 : i \in {1, 2, 3, 4, 5}
    OBVIOUS
  <2> HIDE DEF order
  <2>4. /\ Len(VetoOrder) = 5
        /\ VetoOrder[1].round = 0 /\ VetoOrder[2].round = 0
        /\ VetoOrder[3].round = 1 /\ VetoOrder[4].round = 2 /\ VetoOrder[5].round = 3
    <3>1. /\ Len(VetoOrder) = 5 /\ VetoOrder[1] = move("A", 0)
          /\ VetoOrder[2] = move("B", 0) /\ VetoOrder[3] = move("A", 1)
          /\ VetoOrder[4] = move("B", 2) /\ VetoOrder[5] = move("", 3)
      BY <2>0, <2>3
    <3>2. /\ move("A", 0).round = 0 /\ move("B", 0).round = 0 /\ move("A", 1).round = 1
          /\ move("B", 2).round = 2 /\ move("", 3).round = 3
      BY <2>1
    <3> QED BY <3>1, <3>2
  <2> QED BY <1>4, <2>4, <2>2
<1> QED BY <1>1, <1>2, <1>3, <1>4

\* The constants.
LEMMA ConstantFacts ==
  /\ TotalRounds \in 1..3 /\ Number = 1..TotalRounds
  /\ Seeds[1] \in Side /\ Seeds[2] \in Side /\ Seeds[1] # Seeds[2] /\ NoSide \notin Side
  /\ Side = {Seeds[1], Seeds[2]}
  /\ \A o \in Orders : /\ o[1] \in Side /\ o[2] \in Side /\ o[1] # o[2]
                       /\ Side = {o[1], o[2]} /\ Len(o) = 2
  /\ NoTask \notin Task /\ NoProtocol \notin Protocol /\ NoMap \notin Map
<1>1. DOMAIN Seeds = {1, 2}
  BY RoundsAssumption DEF Side
<1> QED BY <1>1, RoundsAssumption DEF Number, Side, Orders, ToSet

\* A request that is not served.
LEMMA BlankFacts ==
  /\ Blank \in Requests
  /\ Blank.pc = "idle" /\ Blank.kind = "none" /\ Blank.side = NoSide /\ Blank.num = 0
  /\ Blank.live = 0 /\ Blank.maps = <<>> /\ Blank.seen = {} /\ Blank.count = 0
  /\ Blank.order = <<>> /\ Blank.slot = 0 /\ Blank.row = 0 /\ Blank.task = NoTask
  /\ Blank.todo = <<>> /\ Blank.protocol = NoProtocol /\ Blank.ticket = 0
<1>1. 0 \in 0..TotalRounds
  BY RoundsAssumption
<1>2. <<>> \in Seq(Map) /\ <<>> \in Seq(Task)
  OBVIOUS
<1>5. {} \in SUBSET (Nat \cup Protocol) /\ 0 \in Nat
  OBVIOUS
<1>6. "none" \in Kinds /\ "idle" \in Statements
  BY DEF Kinds, Statements
<1>4. /\ <<>> \in {<<>>} \cup Orders /\ NoSide \in Side \cup {NoSide}
      /\ NoTask \in Task \cup {NoTask} /\ NoProtocol \in Protocol \cup {NoProtocol}
  BY Zenon
<1>3. Blank \in Requests
  BY <1>1, <1>2, <1>4, <1>5, <1>6, Zenon DEF Blank, Requests
<1> QED BY <1>3 DEF Blank
\* Two sides change places.
LEMMA ReverseFacts ==
  ASSUME NEW o \in Orders
  PROVE  Reverse(o) \in Orders /\ Reverse(o)[1] = o[2]
<1>1. PICK a, b : o = <<a, b>>
  BY RoundsAssumption DEF Orders
<1>2. Reverse(o) = <<b, a>>
  BY <1>1 DEF Reverse
<1>3. o = Seeds \/ o = <<Seeds[2], Seeds[1]>>
  BY DEF Orders
<1>4. Seeds = <<Seeds[1], Seeds[2]>>
  BY RoundsAssumption
<1>5. CASE o = Seeds
  BY <1>1, <1>2, <1>4, <1>5 DEF Orders
<1>6. CASE o = <<Seeds[2], Seeds[1]>>
  <2>1. a = Seeds[2] /\ b = Seeds[1]
    BY <1>1, <1>6
  <2> QED BY <1>1, <1>2, <1>4, <2>1 DEF Orders
<1> QED BY <1>3, <1>5, <1>6

\* The last and the first of a few rounds.
LEMMA EndsOfShort ==
  ASSUME NEW S \in SUBSET (1..3), S # {}
  PROVE  /\ Max(S) \in S /\ \A x \in S : x <= Max(S)
         /\ Min(S) \in S /\ \A x \in S : Min(S) <= x
<1>0. \A x \in S : x = 1 \/ x = 2 \/ x = 3
  OBVIOUS
<1>1. /\ \A x \in S : x = 1 \/ x = 2 \/ x = 3
      /\ 1 \in S \/ 2 \in S \/ 3 \in S
  <2>1. PICK x : x \in S
    OBVIOUS
  <2> QED BY <1>0, <2>1
<1>2. \E x \in S : \A y \in S : x >= y
  <2>1. CASE 3 \in S
    <3>1. \A y \in S : 3 >= y
      BY <1>1
    <3> QED BY <2>1, <3>1
  <2>2. CASE 3 \notin S /\ 2 \in S
    <3>1. \A y \in S : 2 >= y
      BY <1>1, <2>2
    <3> QED BY <2>2, <3>1
  <2>3. CASE 3 \notin S /\ 2 \notin S
    <3>1. 1 \in S /\ \A y \in S : 1 >= y
      BY <1>1, <2>3
    <3> QED BY <3>1
  <2> QED BY <2>1, <2>2, <2>3
<1>3. \E x \in S : \A y \in S : x <= y
  <2>1. CASE 1 \in S
    <3>1. \A y \in S : 1 <= y
      BY <1>1
    <3> QED BY <2>1, <3>1
  <2>2. CASE 1 \notin S /\ 2 \in S
    <3>1. \A y \in S : 2 <= y
      BY <1>1, <2>2
    <3> QED BY <2>2, <3>1
  <2>3. CASE 1 \notin S /\ 2 \notin S
    <3>1. 3 \in S /\ \A y \in S : 3 <= y
      BY <1>1, <2>3
    <3> QED BY <3>1
  <2> QED BY <2>1, <2>2, <2>3
<1> QED BY <1>2, <1>3 DEF Max, Min

\* The load.
LEMMA LoadFacts ==
  ASSUME load \in Loads
  PROVE  /\ load.at \in Nat /\ load.made \in Nat /\ load.gone \in Nat
         /\ load.maps \subseteq Map /\ load.maps # {} /\ load.tasks \subseteq Task
  BY RoundsAssumption

-------------------------------------------------------------------------------
(* A request goes on. *)

\* The statements of a request that begins a round or a raid.
Playing == {"dealt", "pick", "put", "aim", "raid"}

\* The request is not at them, and the others are where they were.
Others(p) == \A q \in Request \ {p} : req'[q] = req[q]
Comes(p)  == req'[p].pc \notin Playing /\ Others(p)

LEMMA Goes ==
  ASSUME req \in [Request -> Requests], NEW p \in Request, NEW n \in Requests, Go(p, n)
  PROVE  /\ req' \in [Request -> Requests] /\ req'[p] = n
         /\ \A q \in Request \ {p} : req'[q] = req[q]
  BY DEF Go

LEMMA SameTables ==
  ASSUME UNCHANGED tables
  PROVE  /\ Started' = Started /\ LastMoves' = LastMoves
         /\ NextRound' = NextRound /\ LiveRound' = LiveRound
         /\ \A t : Fresh(t)' = Fresh(t)
         /\ \A n, s : Mine(n, s)' = Mine(n, s)
  BY DEF tables, Started, LastMoves, NextRound, LiveRound, Fresh, Mine

LEMMA SameTablesOK ==
  ASSUME TablesOK, UNCHANGED <<tables, load>>, made' \in Nat, made' >= made, cancelled' \in Nat
  PROVE  TablesOK'
<1>1. TypeOK'
  BY DEF TablesOK, TypeOK, tables
<1>2. \A v \in veto : v.id \in Nat
  BY DEF TablesOK, TypeOK, Moves
<1> QED
  BY <1>1, <1>2 DEF TablesOK, tables, VetoOrder

\* One judge asks when no request is served.
LEMMA NoneServed ==
  ASSUME Inv, OneJudge, NEW p \in Request, NEW kind, Takes(p, kind)
  PROVE  \A q \in Request : req[q].pc = "idle"
<1> DEFINE busy == {o \in Request : ~At(o, "idle")}
<1>1. IsFiniteSet(busy) /\ Cardinality(busy) < 1
  BY RoundsAssumption, FS_Subset DEF Takes, OneJudge
<1>2. busy = {}
  <2> HIDE DEF busy
  <2>1. Cardinality(busy) = 0
    BY <1>1, FS_CardinalityType
  <2> QED BY <1>1, <2>1, FS_EmptySet
<1> QED BY <1>2 DEF At

\* One request has made a statement: what it says of the others.
LEMMA Settles ==
  ASSUME Inv, NEW p \in Request, ~At(p, "idle"),
         req' \in [Request -> Requests], \A q \in Request \ {p} : req'[q] = req[q],
         TablesOK', UNCHANGED <<load, made>>, Len(dealt') >= Len(dealt), Shape(p)',
         OneJudge => Saw(p)' /\ (\A v, w \in veto' : v.id = w.id => v = w)
  PROVE  Inv'
<1>1. Len(dealt) \in Nat /\ Len(dealt') \in Nat
  BY DEF Inv, Base, TablesOK, TypeOK
<1>2. ASSUME NEW q \in Request PROVE Shape(q)'
  <2>1. Shape(q)
    BY DEF Inv, Base
  <2> QED BY <1>1, <2>1 DEF Shape
<1>3. ASSUME OneJudge PROVE OneServed' /\ \A q \in Request : Saw(q)'
  <2>1. \A q \in Request \ {p} : At(q, "idle")
    BY <1>3 DEF Inv, Judged, OneServed
  <2>2. \A q \in Request \ {p} : req'[q].pc = "idle"
    BY <2>1 DEF At
  <2>3. OneServed'
    BY <2>2 DEF OneServed, At
  <2>4. ASSUME NEW q \in Request \ {p} PROVE Saw(q)'
    <3>1. req'[q].pc = "idle"
      BY <2>2
    <3> QED BY <3>1 DEF Saw, SawBy, Begins
  <2> QED BY <1>3, <2>3, <2>4
<1>4. OneJudge' = OneJudge
  BY DEF OneJudge
<1> QED BY <1>2, <1>3, <1>4 DEF Inv, Base, Judged

\* A request has read.
LEMMA Reads ==
  ASSUME Inv, NEW p \in Request, ~At(p, "idle"), NEW n \in Requests, Go(p, n), OnlyReads(p),
         Course(n), Carries(n), n.kind = req[p].kind, n.ticket = req[p].ticket,
         n.row = req[p].row, OneJudge => SawBy(n)
  PROVE  /\ Inv' /\ req'[p] = n /\ Others(p)
         /\ n.pc \notin Playing => Comes(p)
<1>1. TablesOK'
  BY SameTablesOK DEF Inv, Base, TablesOK, OnlyReads, bounds
<1>2. UNCHANGED <<load, made, dealt, veto, tables, match, round, penalty>>
  BY DEF OnlyReads, bounds, tables
<1>3. OneJudge => \A v, w \in veto' : v.id = w.id => v = w
  BY <1>2 DEF Inv, Judged
<1>4. Len(dealt') >= Len(dealt)
  BY <1>2 DEF Inv, Base, TablesOK, TypeOK
<1>5. /\ req' \in [Request -> Requests] /\ req'[p] = n
      /\ \A q \in Request \ {p} : req'[q] = req[q]
  BY Goes DEF Inv, Base
<1>6. Shape(p)'
  BY <1>2, <1>5 DEF Shape, Inv, Base, At
<1>7. OneJudge => Saw(p)'
  BY <1>2, <1>5, SameTables DEF Saw, SawBy
<1>8. Inv'
  BY <1>1, <1>2, <1>3, <1>4, <1>5, <1>6, <1>7, Settles DEF Inv, Base
<1> QED BY <1>5, <1>8 DEF Comes, Others

\* A request has ended.
LEMMA Ends ==
  ASSUME Inv, NEW p \in Request, ~At(p, "idle"), Refuse(p), TablesOK', UNCHANGED <<load, made>>,
         Len(dealt') >= Len(dealt),
         OneJudge => \A v, w \in veto' : v.id = w.id => v = w
  PROVE  Inv' /\ Comes(p)
<1>1. Blank \in Requests /\ Blank.pc = "idle" /\ Blank.kind = "none"
  BY BlankFacts
<1>2. /\ req' \in [Request -> Requests] /\ req'[p] = Blank
      /\ \A q \in Request \ {p} : req'[q] = req[q]
  BY <1>1, Goes DEF Inv, Base, Refuse
<1>3. Shape(p)'
  BY <1>1, <1>2 DEF Shape, Course, Carries, Begins
<1>4. Saw(p)'
  BY <1>1, <1>2 DEF Saw, SawBy, Begins
<1>5. Comes(p)
  BY <1>1, <1>2 DEF Comes, Others, Playing
<1> QED BY <1>2, <1>3, <1>4, <1>5, Settles

\* A request has come.
LEMMA Accepted ==
  ASSUME Inv, NEW p \in Request, NEW r \in Requests, Accept(p, r), Course(r), Carries(r),
         r.pc \in {"started", "rounds", "assignment", "close", "clear", "taken", "dup", "draw",
                   "prev"},
         r.pc = "clear" => r.protocol = NoProtocol,
         r.kind = "reroll" => r.row \in 1..Len(dealt),
         r.kind # "focus" => match # "finished"
  PROVE  Inv' /\ Comes(p)
<1> DEFINE n == [r EXCEPT !.ticket = made + 1]
<1>0. made \in Nat /\ made + 1 \in Nat /\ load.at \in Nat
  BY LoadFacts DEF Inv, Base, TablesOK
<1>1. /\ n \in Requests /\ n.ticket = made + 1
      /\ n.kind = r.kind /\ n.pc = r.pc /\ n.maps = r.maps /\ n.count = r.count
      /\ n.side = r.side /\ n.num = r.num /\ n.live = r.live /\ n.order = r.order
      /\ n.slot = r.slot /\ n.task = r.task /\ n.todo = r.todo /\ n.protocol = r.protocol
      /\ n.row = r.row /\ n.seen = r.seen
  BY <1>0, Zenon DEF Requests
<1>2. Go(p, n)
  BY DEF Accept
<1> HIDE DEF n
<1>3. /\ req' \in [Request -> Requests] /\ req'[p] = n
      /\ \A q \in Request \ {p} : req'[q] = req[q]
  BY <1>1, <1>2, Goes DEF Inv, Base
<1>4. UNCHANGED <<tables, load, cancelled>> /\ made' = made + 1
  BY DEF Accept
<1>5. TablesOK'
  BY <1>0, <1>4, SameTablesOK DEF Inv, Base, TablesOK
<1>6. Course(n) /\ Carries(n)
  BY <1>1 DEF Course, Carries, Begins
<1>7. r.kind \in load.kinds
  BY DEF Accept, Takes
<1>8. Shape(p)'
  BY <1>0, <1>1, <1>3, <1>4, <1>6, <1>7 DEF Shape, tables
<1>9. ASSUME NEW q \in Request \ {p} PROVE Shape(q)'
  <2>1. Shape(q)
    BY DEF Inv, Base
  <2>2. req[q].ticket \in Nat
    BY DEF Inv, Base, Requests
  <2> QED BY <1>0, <1>3, <1>4, <2>1, <2>2 DEF Shape, tables
<1>10. ASSUME OneJudge PROVE OneServed' /\ \A q \in Request : Saw(q)'
  <2>3. \A q \in Request \ {p} : req'[q].pc = "idle"
    BY <1>3, <1>10, NoneServed DEF Accept
  <2>4. OneServed'
    BY <2>3 DEF OneServed, At
  <2>5. ASSUME NEW q \in Request \ {p} PROVE Saw(q)'
    <3>1. req'[q].pc = "idle"
      BY <2>3
    <3> QED BY <3>1 DEF Saw, SawBy, Begins
  <2>6. Saw(p)'
    <3>1. \A v \in veto : v.id <= made /\ v.id \in Nat
      BY DEF Inv, Base, TablesOK, TypeOK, Moves
    <3>2. \A v \in veto' : v.id # n.ticket
      BY <1>0, <1>1, <1>4, <3>1 DEF tables
    <3>3. n.kind # "focus" => match' # "finished"
      BY <1>1, <1>4 DEF tables
    <3>4. /\ n.pc \notin {"count", "move", "last", "undo", "save", "begin", "put", "swap",
                          "assign", "other", "enact"}
          /\ ~Begins(n) /\ (n.pc = "clear" => n.protocol = NoProtocol) /\ n.ticket = made'
      BY <1>1, <1>4 DEF Begins
    <3> QED BY <1>3, <3>2, <3>3, <3>4 DEF Saw, SawBy
  <2> QED BY <2>4, <2>5, <2>6
<1>11. OneJudge' = OneJudge /\ veto' = veto
  BY <1>4 DEF OneJudge, tables
<1>12. Comes(p)
  BY <1>1, <1>3 DEF Comes, Others, Playing
<1> QED BY <1>3, <1>5, <1>8, <1>9, <1>10, <1>11, <1>12 DEF Inv, Base, Judged
LEMMA Asked ==
  ASSUME Inv, NEW p \in Request, NEW b \in Requests, NEW kind \in Kinds, NEW pc \in Statements,
         Ask(p, kind, pc, b),
         \/ kind \in {"veto", "undo", "maps", "first"} /\ pc = "started"
         \/ kind = "next" /\ pc = "rounds" /\ b.count = 0
         \/ kind = "reroll" /\ pc = "assignment" /\ b.row \in 1..Len(dealt)
         \/ kind = "finish" /\ pc = "close"
         \/ kind = "protocol" /\ pc = "clear" /\ b.protocol = NoProtocol
         \/ kind = "protocol" /\ pc = "taken" /\ b.protocol \in Protocol
         \/ kind = "assign" /\ pc = "dup" /\ b.todo # <<>>
         \/ kind = "contracts" /\ pc = "draw",
         kind = "veto" => Len(b.maps) = 1,
         kind = "first" => b.side \in Side,
         kind \in {"assign", "contracts", "protocol"} => b.num \in Number /\ b.side \in Side
  PROVE  Inv' /\ Comes(p)
<1> DEFINE r == [b EXCEPT !.kind = kind, !.pc = pc]
<1>1. /\ r \in Requests /\ r.kind = kind /\ r.pc = pc
      /\ r.maps = b.maps /\ r.side = b.side /\ r.num = b.num /\ r.todo = b.todo
      /\ r.protocol = b.protocol /\ r.row = b.row /\ r.count = b.count
  BY Zenon DEF Requests
<1>2. match # "finished" /\ Accept(p, r)
  BY DEF Ask
<1> HIDE DEF r
<1>3. Course(r)
  BY <1>1 DEF Course
<1>4. Carries(r)
  BY <1>1 DEF Carries, Begins
<1>5. r.pc \in {"started", "rounds", "assignment", "close", "clear", "taken", "dup", "draw",
                "prev"}
  BY <1>1
<1>6. /\ r.pc = "clear" => r.protocol = NoProtocol
      /\ r.kind = "reroll" => r.row \in 1..Len(dealt)
  BY <1>1
<1> QED BY <1>1, <1>2, <1>3, <1>4, <1>5, <1>6, Accepted

\* The requests that are answered by statements of their own.
Asks(p) ==
  \/ \E m \in load.maps : HandleVeto(p, m)
  \/ HandleVetoUndo(p) \/ HandleNextRound(p) \/ HandleFinishMatch(p)
  \/ \E ms \in CodeLists : HandleSetMatchMaps(p, ms)
  \/ \E s \in Side : HandleFirstSide(p, s)
  \/ \E s \in Side : HandleMatchFocus(p, s)
  \/ \E i \in 1..Len(dealt) : HandleRerollTask(p, i)
  \/ \E n \in Number, s \in Side :
       \/ \E c \in Protocol \cup {NoProtocol} : HandleSetProtocol(p, n, s, c)
       \/ \E t \in load.tasks : HandleAssignBonusTask(p, n, s, t)
       \/ HandleDealContracts(p, n, s, 2)

LEMMA AsksInv == ASSUME Inv, NEW p \in Request, Asks(p) PROVE Inv' /\ Comes(p)
<1>1. /\ Blank \in Requests /\ Blank.count = 0 /\ Blank.maps = <<>> /\ Blank.todo = <<>>
      /\ load.maps \subseteq Map /\ load.tasks \subseteq Task
  BY BlankFacts, LoadFacts DEF Inv, Base, TablesOK
<1>2. \A n \in Number : n \in 0..TotalRounds
  BY RoundsAssumption DEF Number
<1>3. ASSUME NEW m \in load.maps, HandleVeto(p, m) PROVE Inv' /\ Comes(p)
  <2> DEFINE b == [Blank EXCEPT !.maps = <<m>>]
  <2>1. <<m>> \in Seq(Map) /\ Len(<<m>>) = 1
    BY <1>1
  <2>2. b \in Requests /\ b.maps = <<m>>
    BY <1>1, <2>1, Zenon DEF Requests
  <2>3. Ask(p, "veto", "started", b)
    BY <1>3 DEF HandleVeto
  <2> HIDE DEF b
  <2> QED BY <2>1, <2>2, <2>3, Asked DEF Kinds, Statements
<1>4. CASE HandleVetoUndo(p)
  BY <1>1, <1>4, Asked DEF HandleVetoUndo, Kinds, Statements
<1>5. CASE HandleNextRound(p)
  BY <1>1, <1>5, Asked DEF HandleNextRound, Kinds, Statements
<1>6. CASE HandleFinishMatch(p)
  BY <1>1, <1>6, Asked DEF HandleFinishMatch, Kinds, Statements
<1>7. ASSUME NEW ms \in CodeLists, HandleSetMatchMaps(p, ms) PROVE Inv' /\ Comes(p)
  <2> DEFINE b == [Blank EXCEPT !.maps = ms]
  <2>1. ms \in Seq(Map)
    <3>1. PICK k \in 1..3 : ms \in [1..k -> load.maps]
      BY DEF CodeLists
    <3>2. ms \in [1..k -> Map] /\ k \in Nat
      BY <1>1, <3>1
    <3> QED BY <3>2
  <2>2. b \in Requests
    BY <1>1, <2>1, Zenon DEF Requests
  <2>3. Ask(p, "maps", "started", b)
    BY <1>7 DEF HandleSetMatchMaps
  <2> HIDE DEF b
  <2> QED BY <2>2, <2>3, Asked DEF Kinds, Statements
<1>8. ASSUME NEW s \in Side, HandleFirstSide(p, s) PROVE Inv' /\ Comes(p)
  <2> DEFINE b == [Blank EXCEPT !.side = s]
  <2>1. b \in Requests /\ b.side = s
    BY <1>1, Zenon DEF Requests
  <2>2. Ask(p, "first", "started", b)
    BY <1>8 DEF HandleFirstSide
  <2> HIDE DEF b
  <2> QED BY <2>1, <2>2, Asked DEF Kinds, Statements
<1>9. ASSUME NEW s \in Side, HandleMatchFocus(p, s) PROVE Inv' /\ Comes(p)
  <2> DEFINE b == [Blank EXCEPT !.kind = "focus", !.pc = "prev", !.side = s]
  <2>0. "focus" \in Kinds /\ "prev" \in Statements
    BY DEF Kinds, Statements
  <2>1. b \in Requests /\ b.side = s /\ b.kind = "focus" /\ b.pc = "prev"
    BY <1>1, <2>0, Zenon DEF Requests
  <2>2. Accept(p, b)
    BY <1>9 DEF HandleMatchFocus
  <2> HIDE DEF b
  <2>3. Course(b) /\ Carries(b)
    BY <2>1 DEF Course, Carries, Begins
  <2> QED BY <2>1, <2>2, <2>3, Accepted
<1>10. ASSUME NEW i \in 1..Len(dealt), HandleRerollTask(p, i) PROVE Inv' /\ Comes(p)
  <2> DEFINE b == [Blank EXCEPT !.row = i]
  <2>0. i \in Nat
    OBVIOUS
  <2>1. b \in Requests /\ b.row = i
    BY <1>1, <2>0, Zenon DEF Requests
  <2>2. Ask(p, "reroll", "assignment", b)
    BY <1>10 DEF HandleRerollTask
  <2> HIDE DEF b
  <2> QED BY <2>1, <2>2, Asked DEF Kinds, Statements
<1>11. ASSUME NEW n \in Number, NEW s \in Side, NEW c \in Protocol \cup {NoProtocol},
              HandleSetProtocol(p, n, s, c)
       PROVE  Inv' /\ Comes(p)
  <2> DEFINE b  == [Blank EXCEPT !.num = n, !.side = s, !.protocol = c]
             pc == IF c = NoProtocol THEN "clear" ELSE "taken"
  <2>1. b \in Requests /\ b.num = n /\ b.side = s /\ b.protocol = c
    BY <1>1, <1>2, Zenon DEF Requests
  <2>2. Ask(p, "protocol", pc, b)
    BY <1>11 DEF HandleSetProtocol
  <2> HIDE DEF b
  <2>3. CASE c = NoProtocol
    BY <2>1, <2>2, <2>3, Asked DEF Kinds, Statements
  <2>4. CASE c # NoProtocol
    BY <2>1, <2>2, <2>4, Asked DEF Kinds, Statements
  <2> QED BY <2>3, <2>4
<1>12. ASSUME NEW n \in Number, NEW s \in Side, NEW t \in load.tasks,
              HandleAssignBonusTask(p, n, s, t)
       PROVE  Inv' /\ Comes(p)
  <2> DEFINE b == [Blank EXCEPT !.num = n, !.side = s, !.todo = <<t>>]
  <2>0. <<t>> \in Seq(Task) /\ <<t>> # <<>>
    BY <1>1
  <2>1. b \in Requests /\ b.num = n /\ b.side = s /\ b.todo = <<t>>
    BY <1>1, <1>2, <2>0, Zenon DEF Requests
  <2>2. Ask(p, "assign", "dup", b)
    BY <1>12 DEF HandleAssignBonusTask
  <2> HIDE DEF b
  <2> QED BY <2>0, <2>1, <2>2, Asked DEF Kinds, Statements
<1>13. ASSUME NEW n \in Number, NEW s \in Side, HandleDealContracts(p, n, s, 2) PROVE Inv' /\ Comes(p)
  <2> DEFINE b == [Blank EXCEPT !.num = n, !.side = s, !.count = 2]
  <2>0. 2 \in Nat
    OBVIOUS
  <2>1. b \in Requests /\ b.num = n /\ b.side = s
    BY <1>1, <1>2, <2>0, Zenon DEF Requests
  <2>2. Ask(p, "contracts", "draw", b)
    BY <1>13 DEF HandleDealContracts
  <2> HIDE DEF b
  <2> QED BY <2>1, <2>2, Asked DEF Kinds, Statements
<1> QED
  BY <1>3, <1>4, <1>5, <1>6, <1>7, <1>8, <1>9, <1>10, <1>11, <1>12, <1>13 DEF Asks

-------------------------------------------------------------------------------
(* The handlers of one statement. *)

\* No request is served meanwhile by one judge: the tables change, the rest stays.
LEMMA Consoles ==
  ASSUME Inv, NEW p \in Request, NEW kind, Console(p, kind),
         TypeOK', UNCHANGED <<veto, seeds, raid>>, Len(dealt') = Len(dealt)
  PROVE  Inv'
<1>0. made \in Nat /\ load.at \in Nat /\ made' = made + 1 /\ UNCHANGED <<req, load, cancelled>>
  BY LoadFacts DEF Inv, Base, TablesOK, Console
<1>1. \A v \in veto : v.id \in Nat
  BY DEF Inv, Base, TablesOK, TypeOK, Moves
<1>2. TablesOK'
  BY <1>0, <1>1 DEF Inv, Base, TablesOK, VetoOrder
<1>3. ASSUME NEW q \in Request PROVE Shape(q)'
  <2>1. Shape(q) /\ req[q].ticket \in Nat
    BY DEF Inv, Base, Requests
  <2> QED BY <1>0, <2>1 DEF Shape
<1>4. ASSUME OneJudge PROVE OneServed' /\ \A q \in Request : Saw(q)'
  <2>3. \A q \in Request : req'[q].pc = "idle"
    BY <1>0, <1>4, NoneServed DEF Console
  <2>4. OneServed'
    BY <2>3 DEF OneServed, At
  <2>5. ASSUME NEW q \in Request PROVE Saw(q)'
    <3>1. req'[q].pc = "idle"
      BY <2>3
    <3> QED BY <3>1 DEF Saw, SawBy, Begins
  <2> QED BY <2>4, <2>5
<1>5. OneJudge' = OneJudge
  BY <1>0 DEF OneJudge
<1> QED BY <1>0, <1>2, <1>3, <1>4, <1>5 DEF Inv, Base, Judged

LEMMA MarkTaskInv ==
  ASSUME Inv, NEW p \in Request, NEW i \in 1..Len(dealt), NEW s \in Side \cup {NoSide},
         HandleMarkTask(p, i, s)
  PROVE  Inv'
<1> DEFINE a == [dealt[i] EXCEPT !.by = s]
<1>0. dealt \in Seq(Assignments) /\ dealt[i] \in Assignments
  BY DEF Inv, Base, TablesOK, TypeOK
<1>a. a \in Assignments /\ dealt' = [dealt EXCEPT ![i] = a]
  BY <1>0, Zenon DEF HandleMarkTask, Assignments
<1> HIDE DEF a
<1>1. dealt' \in Seq(Assignments) /\ Len(dealt') = Len(dealt)
  BY <1>0, <1>a
<1>2. TypeOK'
  BY <1>1 DEF HandleMarkTask, Inv, Base, TablesOK, TypeOK
<1> QED BY <1>1, <1>2, Consoles DEF HandleMarkTask

LEMMA RemoveTaskInv ==
  ASSUME Inv, NEW p \in Request, NEW i \in 1..Len(dealt), HandleRemoveBonusTask(p, i)
  PROVE  Inv'
<1> DEFINE a == [dealt[i] EXCEPT !.task = NoTask, !.by = NoSide]
<1>0. dealt \in Seq(Assignments) /\ dealt[i] \in Assignments
  BY DEF Inv, Base, TablesOK, TypeOK
<1>a. a \in Assignments /\ dealt' = [dealt EXCEPT ![i] = a]
  BY <1>0, Zenon DEF HandleRemoveBonusTask, Assignments
<1> HIDE DEF a
<1>1. dealt' \in Seq(Assignments) /\ Len(dealt') = Len(dealt)
  BY <1>0, <1>a
<1>2. TypeOK'
  BY <1>1 DEF HandleRemoveBonusTask, Inv, Base, TablesOK, TypeOK
<1> QED BY <1>1, <1>2, Consoles DEF HandleRemoveBonusTask

LEMMA UpdateRoundInv ==
  ASSUME Inv, NEW p \in Request, NEW n \in Number, NEW st \in {"pending", "live", "finished"},
         NEW m \in load.maps, HandleUpdateRound(p, n, st, m)
  PROVE  Inv'
<1>1. [status |-> st, map |-> m] \in Rounds
  BY LoadFacts DEF Rounds, Inv, Base, TablesOK
<1>2. round' \in [Number -> Rounds] /\ UNCHANGED <<veto, seeds, dealt, penalty, match, raid>>
  BY <1>1 DEF HandleUpdateRound, Inv, Base, TablesOK, TypeOK
<1>3. TypeOK' /\ Console(p, "patch")
  BY <1>2 DEF HandleUpdateRound, Inv, Base, TablesOK, TypeOK
<1>4. Len(dealt') = Len(dealt)
  BY <1>2
<1> QED BY <1>2, <1>3, <1>4, Consoles

LEMMA ViolationInv ==
  ASSUME Inv, NEW p \in Request, NEW n \in Number, NEW s \in Side, NEW d \in {1, -1},
         HandleAdjustProtocolViolations(p, n, s, d)
  PROVE  Inv'
<1> DEFINE most(a) == IF a < 0 THEN 0 ELSE a
           new(x)  == IF x.round = n /\ x.side = s THEN [x EXCEPT !.times = most(@ + d)] ELSE x
<1>1. ASSUME NEW x \in penalty PROVE new(x) \in Penalties
  <2>1. x \in Penalties
    BY DEF Inv, Base, TablesOK, TypeOK
  <2>2. most(x.times + d) \in Nat
    BY <2>1 DEF Penalties
  <2> HIDE DEF most
  <2> QED BY <2>1, <2>2 DEF Penalties
<1>2. penalty' = {new(x) : x \in penalty} /\ Console(p, "violation")
      /\ UNCHANGED <<round, veto, seeds, dealt, match, raid>>
  BY DEF HandleAdjustProtocolViolations
<1> HIDE DEF new
<1>3. TypeOK'
  BY <1>1, <1>2 DEF Inv, Base, TablesOK, TypeOK
<1>4. Len(dealt') = Len(dealt)
  BY <1>2
<1> QED BY <1>2, <1>3, <1>4, Consoles

LEMMA ArrivesInv == ASSUME Inv, NEW p \in Request, Arrives(p) PROVE Inv'
  BY AsksInv, MarkTaskInv, RemoveTaskInv, UpdateRoundInv, ViolationInv DEF Arrives, Asks
-------------------------------------------------------------------------------
(* The statements. *)

\* What is known of a request that makes a statement.
LEMMA Serves ==
  ASSUME Inv, NEW p \in Request
  PROVE  /\ req[p] \in Requests /\ Course(req[p]) /\ Carries(req[p])
         /\ req[p].pc # "idle" => req[p].kind \in load.kinds /\ req[p].ticket <= made
         /\ req[p].kind = "reroll" => req[p].row \in 1..Len(dealt)
         /\ OneJudge => SawBy(req[p])
  BY DEF Inv, Base, Shape, Judged, Saw

\* A request gives up.
LEMMA GivesUp ==
  ASSUME Inv, NEW p \in Request, ~At(p, "idle"), Refuse(p), OnlyReads(p)
  PROVE  Inv' /\ Comes(p)
<1>1. TablesOK'
  BY SameTablesOK DEF Inv, Base, TablesOK, OnlyReads, bounds
<1>2. UNCHANGED <<load, made, dealt, veto>>
  BY DEF OnlyReads, bounds, tables
<1>3. OneJudge => \A v, w \in veto' : v.id = w.id => v = w
  BY <1>2 DEF Inv, Judged
<1>4. Len(dealt') >= Len(dealt)
  BY <1>2 DEF Inv, Base, TablesOK, TypeOK
<1> QED BY <1>1, <1>2, <1>3, <1>4, Ends

LEMMA RoundsStartedInv == ASSUME Inv, NEW p \in Request, RoundsStarted(p) PROVE Inv' /\ Comes(p)
<1>1. /\ req[p] \in Requests /\ Course(req[p]) /\ Carries(req[p]) /\ req[p].pc = "started"
      /\ OneJudge => SawBy(req[p])
  BY Serves DEF RoundsStarted, At
<1>2. /\ req[p].kind \in {"veto", "undo", "maps", "first"}
      /\ req[p].kind = "veto" => Changes[req[p].kind] = "count"
      /\ req[p].kind = "undo" => Changes[req[p].kind] = "last"
      /\ req[p].kind \in {"maps", "first"} => Changes[req[p].kind] = "save"
  BY <1>1 DEF Course, Changes
<1>3. CASE Started
  BY <1>1, <1>3, GivesUp DEF RoundsStarted, At
<1>4. CASE ~Started
  <2> DEFINE n == [req[p] EXCEPT !.pc = Changes[req[p].kind]]
  <2>1. Go(p, n) /\ OnlyReads(p)
    BY <1>4 DEF RoundsStarted
  <2>2. Changes[req[p].kind] \in Statements
    BY <1>2 DEF Statements
  <2>3. n \in Requests /\ n.kind = req[p].kind /\ n.ticket = req[p].ticket /\ n.row = req[p].row
    BY <1>1, <2>2 DEF Requests
  <2>4. Course(n) /\ Carries(n)
    BY <1>1, <1>2 DEF Requests, Course, Carries, Begins
  <2>5. OneJudge => SawBy(n)
    BY <1>1, <1>2, <1>4 DEF SawBy, Begins, Requests
  <2>6. n.pc \notin Playing
    BY <1>1, <1>2 DEF Playing, Requests
  <2> HIDE DEF n
  <2> QED BY <1>1, <2>1, <2>3, <2>4, <2>5, <2>6, Reads DEF At
<1> QED BY <1>3, <1>4

LEMMA CountMovesInv == ASSUME Inv, NEW p \in Request, CountMoves(p) PROVE Inv' /\ Comes(p)
<1>1. /\ req[p] \in Requests /\ Course(req[p]) /\ Carries(req[p]) /\ req[p].pc = "count"
      /\ OneJudge => SawBy(req[p])
  BY Serves DEF CountMoves, At
<1>2. req[p].kind = "veto"
  BY <1>1 DEF Course
<1>3. CASE Refuse(p)
  BY <1>1, <1>3, GivesUp DEF CountMoves, At
<1>4. CASE ~Refuse(p)
  <2> DEFINE n == [req[p] EXCEPT !.pc = "move", !.count = Cardinality(veto) + 1]
  <2>1. Go(p, n) /\ OnlyReads(p) /\ Cardinality(veto) < Len(VetoOrder)
    <3>1. Cardinality(veto) \in Nat /\ Len(VetoOrder) \in Nat
      BY VetoOrderFacts, FS_CardinalityType DEF Inv, Base, TablesOK
    <3> QED BY <1>4, <3>1 DEF CountMoves
  <2>2. Cardinality(veto) + 1 \in 1..Len(VetoOrder) /\ Cardinality(veto) + 1 \in Nat
        /\ "move" \in Statements
    BY <2>1, VetoOrderFacts, FS_CardinalityType DEF Inv, Base, TablesOK, Statements
  <2>3. n \in Requests /\ n.kind = req[p].kind /\ n.ticket = req[p].ticket /\ n.row = req[p].row
    BY <1>1, <2>2 DEF Requests
  <2>4. Course(n) /\ Carries(n)
    BY <1>1, <1>2, <2>2 DEF Requests, Course, Carries, Begins
  <2>5. OneJudge => SawBy(n)
    BY <1>1, <1>2 DEF SawBy, Begins, Requests
  <2> QED BY <1>1, <2>1, <2>3, <2>4, <2>5, Reads DEF At, Comes, Others, Playing, Requests
<1> QED BY <1>3, <1>4

LEMMA FindLastMoveInv == ASSUME Inv, NEW p \in Request, FindLastMove(p) PROVE Inv' /\ Comes(p)
<1>1. /\ req[p] \in Requests /\ Course(req[p]) /\ Carries(req[p]) /\ req[p].pc = "last"
      /\ OneJudge => SawBy(req[p])
  BY Serves DEF FindLastMove, At
<1> DEFINE last == {v \in veto : \A x \in veto : x.seq <= v.seq}
           ids  == {v.id : v \in last}
           n    == [req[p] EXCEPT !.pc = "undo", !.seen = ids]
<1>2. req[p].kind = "undo" /\ Go(p, n) /\ OnlyReads(p)
  BY <1>1 DEF Course, FindLastMove
<1>3. ids \in SUBSET (Nat \cup Protocol) /\ "undo" \in Statements /\ ids = LastMoves
  BY DEF Inv, Base, TablesOK, TypeOK, Moves, Statements, LastMoves
<1> HIDE DEF ids
<1>4. n \in Requests /\ n.kind = req[p].kind /\ n.ticket = req[p].ticket /\ n.row = req[p].row
  BY <1>1, <1>3 DEF Requests
<1>5. Course(n) /\ Carries(n)
  BY <1>1, <1>2, <1>3 DEF Requests, Course, Carries, Begins
<1>6. OneJudge => SawBy(n)
  BY <1>1, <1>2, <1>3 DEF SawBy, Begins, Requests
<1> QED BY <1>1, <1>2, <1>4, <1>5, <1>6, Reads DEF At, Comes, Others, Playing, Requests

\* The round after the live one.
LEMMA RoundFacts ==
  ASSUME TypeOK
  PROVE  /\ LiveRound \in 0..TotalRounds /\ NextRound \in 0..TotalRounds
         /\ NextRound # 0 => LiveRound # NextRound
         /\ LiveRound # 0 => /\ round[LiveRound].status = "live"
                             /\ \A k \in Number : round[k].status = "live" => k <= LiveRound
                             /\ LiveRound # TotalRounds => NextRound = LiveRound + 1
         /\ LiveRound = 0 => /\ \A k \in Number : round[k].status # "live"
                             /\ NextRound # 0 => /\ round[NextRound].status = "pending"
                                                 /\ \A k \in Number : round[k].status = "pending" => NextRound <= k
<1> DEFINE live    == {n \in Number : round[n].status = "live"}
           pending == {n \in Number : round[n].status = "pending"}
<1>1. Number = 1..TotalRounds /\ TotalRounds \in 1..3
  BY RoundsAssumption DEF Number
<1>2. \A S \in SUBSET (1..3) : S # {} =>
         /\ Max(S) \in S /\ \A x \in S : x <= Max(S)
         /\ Min(S) \in S /\ \A x \in S : Min(S) <= x
  BY EndsOfShort
<1>3. live \in SUBSET (1..3) /\ pending \in SUBSET (1..3)
  BY <1>1
<1>4. CASE live = {}
  <2>1. LiveRound = 0 /\ NextRound = IF pending = {} THEN 0 ELSE Min(pending)
    BY <1>4 DEF LiveRound, NextRound
  <2>2. \A k \in Number : round[k].status # "live"
    BY <1>4
  <2>3. CASE pending = {}
    BY <1>1, <2>1, <2>2, <2>3
  <2>4. CASE pending # {}
    <3>1. NextRound \in pending /\ \A x \in pending : NextRound <= x
      BY <1>2, <1>3, <2>1, <2>4
    <3> QED BY <1>1, <2>1, <2>2, <3>1
  <2> QED BY <2>3, <2>4
<1>5. CASE live # {}
  <2>1. LiveRound = Max(live)
    BY <1>5 DEF LiveRound
  <2>2. LiveRound \in live /\ \A x \in live : x <= LiveRound
    BY <1>2, <1>3, <1>5, <2>1
  <2>3. NextRound = IF LiveRound = TotalRounds THEN 0 ELSE LiveRound + 1
    BY <1>1, <2>2 DEF NextRound
  <2>4. LiveRound \in 1..TotalRounds /\ round[LiveRound].status = "live"
        /\ \A k \in Number : round[k].status = "live" => k <= LiveRound
    BY <1>1, <2>2
  <2>5. NextRound \in 0..TotalRounds /\ NextRound # LiveRound
        /\ (LiveRound # TotalRounds => NextRound = LiveRound + 1)
    BY <1>1, <2>3, <2>4
  <2> QED BY <1>1, <2>4, <2>5
<1> QED BY <1>4, <1>5

LEMMA ReadRoundsInv == ASSUME Inv, NEW p \in Request, ReadRounds(p) PROVE Inv' /\ Comes(p)
<1>1. /\ req[p] \in Requests /\ Course(req[p]) /\ Carries(req[p]) /\ req[p].pc = "rounds"
      /\ OneJudge => SawBy(req[p])
  BY Serves DEF ReadRounds, At
<1>2. CASE NextRound = 0 \/ round[NextRound].map = NoMap
  BY <1>1, <1>2, GivesUp DEF ReadRounds, At
<1>3. CASE ~(NextRound = 0 \/ round[NextRound].map = NoMap)
  <2> DEFINE n == [req[p] EXCEPT !.pc = "begin", !.live = LiveRound, !.num = NextRound]
  <2>1. req[p].kind = "next" /\ Go(p, n) /\ OnlyReads(p)
    BY <1>1, <1>3 DEF Course, ReadRounds
  <2>2. LiveRound \in 0..TotalRounds /\ NextRound \in Number /\ NextRound # LiveRound
        /\ NextRound \in 0..TotalRounds /\ "begin" \in Statements
    BY <1>3, RoundFacts, RoundsAssumption DEF Inv, Base, TablesOK, Statements, Number
  <2>3. n \in Requests /\ n.kind = req[p].kind /\ n.ticket = req[p].ticket /\ n.row = req[p].row
    BY <1>1, <2>2 DEF Requests
  <2>4. Course(n) /\ Carries(n)
    BY <1>1, <2>1, <2>2 DEF Requests, Course, Carries, Begins
  <2>5. OneJudge => SawBy(n)
    BY <1>1, <1>3, <2>1 DEF SawBy, Begins, Requests
  <2> QED BY <1>1, <2>1, <2>3, <2>4, <2>5, Reads DEF At, Comes, Others, Playing, Requests
<1> QED BY <1>2, <1>3

LEMMA LookDealtInv ==
  ASSUME Inv, NEW p \in Request, LookDealt(p)
  PROVE  /\ Inv' /\ Others(p)
         /\ req[p].kind = "next" /\ req'[p].kind = "next" /\ req'[p].num = req[p].num
         /\ \/ /\ req'[p].pc = "aim"
               /\ \E i \in 1..Len(dealt) : dealt[i].round = req[p].num
            \/ req'[p].pc = "pick" /\ req'[p].slot = 1
<1>1. /\ req[p] \in Requests /\ Course(req[p]) /\ Carries(req[p]) /\ req[p].pc = "dealt"
      /\ OneJudge => SawBy(req[p])
  BY Serves DEF LookDealt, At
<1>2. req[p].kind = "next" /\ Begins(req[p]) /\ OnlyReads(p)
  BY <1>1 DEF Course, LookDealt, Begins
<1> DEFINE a == [req[p] EXCEPT !.pc = "aim"]
           b == [req[p] EXCEPT !.pc = "pick", !.slot = 1, !.order = seeds]
<1>3. CASE \E i \in 1..Len(dealt) : dealt[i].round = req[p].num /\ dealt[i].task # NoTask
  <2>1. "aim" \in Statements /\ Go(p, a)
    BY <1>3 DEF Statements, LookDealt
  <2>2. a \in Requests /\ a.kind = req[p].kind /\ a.ticket = req[p].ticket /\ a.row = req[p].row
    BY <1>1, <2>1 DEF Requests
  <2>3. Course(a) /\ Carries(a)
    BY <1>1, <1>2 DEF Requests, Course, Carries, Begins
  <2>4. OneJudge => SawBy(a)
    BY <1>1, <1>2 DEF SawBy, Begins, Requests
  <2>5. a.pc = "aim" /\ a.num = req[p].num
    BY <1>1 DEF Requests
  <2> HIDE DEF a
  <2> QED BY <1>1, <1>2, <1>3, <2>1, <2>2, <2>3, <2>4, <2>5, Reads DEF At
<1>4. CASE ~(\E i \in 1..Len(dealt) : dealt[i].round = req[p].num /\ dealt[i].task # NoTask)
  <2>1. /\ "pick" \in Statements /\ 1 \in Nat /\ 1 \in 1..LastSlot /\ seeds \in Orders
        /\ Go(p, b)
    BY <1>4 DEF LookDealt, Statements, LastSlot, Inv, Base, TablesOK
  <2>2. b \in Requests /\ b.kind = req[p].kind /\ b.ticket = req[p].ticket /\ b.row = req[p].row
    BY <1>1, <2>1 DEF Requests
  <2>3. Course(b) /\ Carries(b)
    BY <1>1, <1>2, <2>1 DEF Requests, Course, Carries, Begins
  <2>4. OneJudge => SawBy(b)
    BY <1>1, <1>2 DEF SawBy, Begins, Requests
  <2>5. b.pc = "pick" /\ b.num = req[p].num /\ b.slot = 1
    BY <1>1 DEF Requests
  <2> HIDE DEF b
  <2> QED BY <1>1, <1>2, <2>1, <2>2, <2>3, <2>4, <2>5, Reads DEF At
<1> QED BY <1>3, <1>4

LEMMA NearestFacts ==
  ASSUME NEW num, NEW timed, NEW except, NEW side,
         NEW t \in Nearest(Pickable(num, timed, except), side)
  PROVE  t \in load.tasks /\ Fresh(t)
  BY DEF Nearest, Pickable, Fresh

\* The next slot of a deal.
LEMMA SlotFacts ==
  ASSUME NEW r \in Requests, r.kind = "next", r.pc \in {"pick", "put"}, Carries(r),
         OneJudge => SawBy(r)
  PROVE  /\ NextSlot(r) \in Requests /\ Course(NextSlot(r)) /\ Carries(NextSlot(r))
         /\ NextSlot(r).kind = "next" /\ NextSlot(r).ticket = r.ticket
         /\ NextSlot(r).row = r.row /\ NextSlot(r).num = r.num /\ NextSlot(r).count = 0
         /\ NextSlot(r).order = r.order
         /\ NextSlot(r).pc \in {"pick", "aim"}
         /\ NextSlot(r).pc = "pick" => NextSlot(r).slot \in 1..LastSlot
         /\ OneJudge => SawBy(NextSlot(r))
<1>1. r.slot \in 1..6 /\ LastSlot = 6 /\ r.num \in Number /\ r.count = 0
  BY DEF Carries, LastSlot, Begins
<1>2. CASE r.slot = 6
  <2> DEFINE n == [r EXCEPT !.pc = "aim"]
  <2>1. "aim" \in Statements /\ NextSlot(r) = n
    BY <1>1, <1>2 DEF Statements, NextSlot
  <2>2. n \in Requests /\ n.pc = "aim"
    BY <2>1 DEF Requests
  <2>3. Course(n) /\ Carries(n) /\ n.kind = "next" /\ n.ticket = r.ticket /\ n.row = r.row
        /\ n.num = r.num /\ n.count = 0 /\ n.order = r.order
    BY <1>1 DEF Requests, Course, Carries, Begins
  <2>4. OneJudge => SawBy(n)
    BY <1>1 DEF SawBy, Begins, Requests
  <2> HIDE DEF n
  <2> QED BY <2>1, <2>2, <2>3, <2>4
<1>3. CASE r.slot # 6
  <2> DEFINE n == [r EXCEPT !.pc = "pick", !.slot = @ + 1]
  <2>1. "pick" \in Statements /\ NextSlot(r) = n /\ r.slot + 1 \in 1..6 /\ r.slot + 1 \in Nat
    BY <1>1, <1>3 DEF Statements, NextSlot
  <2>2. n \in Requests /\ n.pc = "pick" /\ n.slot = r.slot + 1
    BY <2>1 DEF Requests
  <2>3. Course(n) /\ Carries(n) /\ n.kind = "next" /\ n.ticket = r.ticket /\ n.row = r.row
        /\ n.num = r.num /\ n.count = 0 /\ n.order = r.order
    BY <1>1, <2>1 DEF Requests, Course, Carries, Begins
  <2>4. OneJudge => SawBy(n)
    BY <1>1 DEF SawBy, Begins, Requests
  <2> HIDE DEF n
  <2> QED BY <1>1, <2>1, <2>2, <2>3, <2>4
<1> QED BY <1>2, <1>3

LEMMA PickTaskInv ==
  ASSUME Inv, NEW p \in Request, PickTask(p)
  PROVE  /\ Inv' /\ Others(p) /\ req[p].kind = "next"
         /\ \/ /\ req'[p] = NextSlot(req[p])
               /\ LET timed == SlotTimed(req[p].slot) /\ Pickable(req[p].num, TRUE, NoTask) # {}
                  IN  Nearest(Pickable(req[p].num, timed, NoTask), SlotSide(req[p])) = {}
            \/ /\ req'[p].pc = "put" /\ req'[p].kind = "next" /\ req'[p].num = req[p].num
               /\ req'[p].order = req[p].order /\ req'[p].slot = req[p].slot
<1>1. /\ req[p] \in Requests /\ Course(req[p]) /\ Carries(req[p]) /\ req[p].pc = "pick"
      /\ OneJudge => SawBy(req[p])
  BY Serves DEF PickTask, At
<1> DEFINE timed  == SlotTimed(req[p].slot) /\ Pickable(req[p].num, TRUE, NoTask) # {}
           choice == Nearest(Pickable(req[p].num, timed, NoTask), SlotSide(req[p]))
<1>2. /\ req[p].kind = "next" /\ OnlyReads(p)
      /\ IF choice = {} THEN Go(p, NextSlot(req[p]))
         ELSE \E t \in choice : Go(p, [req[p] EXCEPT !.pc = "put", !.task = t])
  BY <1>1 DEF Course, PickTask
<1>3. \A t \in choice : t \in load.tasks /\ Fresh(t)
  BY NearestFacts
<1>4. CASE choice = {}
  <2>1. Go(p, NextSlot(req[p]))
    BY <1>2, <1>4
  <2>2. Inv' /\ Others(p) /\ req'[p] = NextSlot(req[p])
    <3> HIDE DEF choice
    <3> QED BY <1>1, <1>2, <2>1, SlotFacts, Reads DEF At
  <2> QED BY <1>2, <1>4, <2>2
<1> HIDE DEF choice
<1>5. ASSUME NEW t \in load.tasks, Fresh(t), Go(p, [req[p] EXCEPT !.pc = "put", !.task = t])
      PROVE  /\ Inv' /\ Others(p) /\ req'[p].pc = "put" /\ req'[p].kind = "next"
             /\ req'[p].num = req[p].num
             /\ req'[p].order = req[p].order /\ req'[p].slot = req[p].slot
  <2> DEFINE n == [req[p] EXCEPT !.pc = "put", !.task = t]
  <2>1. "put" \in Statements /\ t \in Task
    BY LoadFacts DEF Statements, Inv, Base, TablesOK
  <2>2. n \in Requests /\ n.kind = req[p].kind /\ n.ticket = req[p].ticket /\ n.row = req[p].row
    BY <1>1, <2>1 DEF Requests
  <2>3. Course(n) /\ Carries(n)
    BY <1>1, <1>2, <2>1 DEF Requests, Course, Carries, Begins
  <2>4. OneJudge => SawBy(n)
    BY <1>1, <1>2, <1>5 DEF SawBy, Begins, Requests
  <2>5. n.pc = "put" /\ n.num = req[p].num /\ n.order = req[p].order /\ n.slot = req[p].slot
    BY <1>1 DEF Requests
  <2>6. Go(p, n)
    BY <1>5
  <2> HIDE DEF n
  <2> QED BY <1>1, <1>2, <2>2, <2>3, <2>4, <2>5, <2>6, Reads DEF At
<1>6. CASE choice # {}
  BY <1>2, <1>3, <1>5, <1>6
<1> QED BY <1>4, <1>6

LEMMA ReadRaidInv ==
  ASSUME Inv, NEW p \in Request, ReadRaid(p)
  PROVE  /\ Inv' /\ Others(p) /\ req'[p].pc = "aim" /\ req'[p].kind = "focus"
         /\ req'[p].side = req[p].side
         /\ req'[p].count = IF raid.side = req[p].side THEN 1 ELSE 0
<1>1. /\ req[p] \in Requests /\ Course(req[p]) /\ Carries(req[p]) /\ req[p].pc = "prev"
      /\ OneJudge => SawBy(req[p])
  BY Serves DEF ReadRaid, At
<1> DEFINE c == IF raid.side = req[p].side THEN 1 ELSE 0
           n == [req[p] EXCEPT !.pc = "aim", !.count = c]
<1>2. req[p].kind = "focus" /\ Go(p, n) /\ OnlyReads(p)
  BY <1>1 DEF Course, ReadRaid
<1>3. "aim" \in Statements /\ c \in Nat
  BY DEF Statements
<1> HIDE DEF c
<1>4. /\ n \in Requests /\ n.kind = req[p].kind /\ n.ticket = req[p].ticket /\ n.row = req[p].row
      /\ n.pc = "aim" /\ n.side = req[p].side /\ n.count = c
  BY <1>1, <1>3 DEF Requests
<1>5. Course(n) /\ Carries(n)
  BY <1>1, <1>2 DEF Requests, Course, Carries, Begins
<1>6. OneJudge => SawBy(n)
  BY <1>1, <1>2 DEF SawBy, Begins, Requests
<1> HIDE DEF n
<1>7. Inv' /\ Others(p) /\ req'[p] = n
  BY <1>1, <1>2, <1>4, <1>5, <1>6, Reads DEF At
<1> QED BY <1>2, <1>4, <1>7 DEF c

LEMMA ReadAssignmentInv == ASSUME Inv, NEW p \in Request, ReadAssignment(p) PROVE Inv' /\ Comes(p)
<1>1. /\ req[p] \in Requests /\ Course(req[p]) /\ Carries(req[p]) /\ req[p].pc = "assignment"
      /\ OneJudge => SawBy(req[p])
  BY Serves DEF ReadAssignment, At
<1> DEFINE d == dealt[req[p].row]
           n == [req[p] EXCEPT !.pc = "other", !.num = d.round, !.side = d.side, !.task = d.task]
<1>2. req[p].kind = "reroll" /\ OnlyReads(p) /\ req[p].row \in 1..Len(dealt)
  BY <1>1, Serves DEF Course, ReadAssignment
<1>3. CASE d.task = NoTask \/ d.by # NoSide
  BY <1>1, <1>2, <1>3, GivesUp DEF ReadAssignment, At
<1>4. CASE ~(d.task = NoTask \/ d.by # NoSide)
  <2>1. Go(p, n)
    BY <1>4 DEF ReadAssignment
  <2>2. d \in Assignments
    BY <1>2 DEF Inv, Base, TablesOK, TypeOK
  <2>3. /\ d.round \in Number /\ d.round \in 0..TotalRounds /\ d.side \in Side /\ d.task \in Task
        /\ "other" \in Statements
    BY <1>4, <2>2, RoundsAssumption DEF Assignments, Number, Statements
  <2>4. n \in Requests /\ n.kind = req[p].kind /\ n.ticket = req[p].ticket /\ n.row = req[p].row
    BY <1>1, <2>3 DEF Requests
  <2>5. Course(n) /\ Carries(n)
    BY <1>1, <1>2, <2>3 DEF Requests, Course, Carries, Begins
  <2>6. OneJudge => SawBy(n)
    BY <1>1, <1>2, <1>4 DEF SawBy, Begins, Requests
  <2> QED BY <1>1, <1>2, <2>1, <2>4, <2>5, <2>6, Reads DEF At, Comes, Others, Playing, Requests
<1> QED BY <1>3, <1>4

LEMMA PickOtherInv == ASSUME Inv, NEW p \in Request, PickOther(p) PROVE Inv' /\ Comes(p)
<1>1. /\ req[p] \in Requests /\ Course(req[p]) /\ Carries(req[p]) /\ req[p].pc = "other"
      /\ OneJudge => SawBy(req[p])
  BY Serves DEF PickOther, At
<1>2. req[p].kind = "reroll" /\ OnlyReads(p)
  BY <1>1 DEF Course, PickOther
<1>3. CASE Refuse(p)
  BY <1>1, <1>2, <1>3, GivesUp DEF At
<1>4. ASSUME NEW t \in load.tasks, Fresh(t), Go(p, [req[p] EXCEPT !.pc = "swap", !.task = t])
      PROVE  Inv' /\ Comes(p)
  <2> DEFINE n == [req[p] EXCEPT !.pc = "swap", !.task = t]
  <2>1. "swap" \in Statements /\ t \in Task
    BY LoadFacts DEF Statements, Inv, Base, TablesOK
  <2>2. n \in Requests /\ n.kind = req[p].kind /\ n.ticket = req[p].ticket /\ n.row = req[p].row
    BY <1>1, <2>1 DEF Requests
  <2>3. Course(n) /\ Carries(n)
    BY <1>1, <1>2, <2>1 DEF Requests, Course, Carries, Begins
  <2>4. OneJudge => SawBy(n)
    BY <1>1, <1>2, <1>4 DEF SawBy, Begins, Requests
  <2> QED BY <1>1, <1>2, <1>4, <2>2, <2>3, <2>4, Reads DEF At, Comes, Others, Playing, Requests
<1> QED BY <1>3, <1>4, NearestFacts DEF PickOther

\* The contracts that are drawn.
LEMMA DrawnFacts ==
  ASSUME NEW S \in SUBSET Task, NEW q \in SetToAllKPermutations(S)
  PROVE  q \in Seq(Task)
<1>1. PICK s \in SUBSET S : q \in SetToSeqs(s)
  BY DEF SetToAllKPermutations
<1>2. IsFiniteSet(s)
  BY RoundsAssumption, FS_Subset
<1>3. Cardinality(s) \in Nat /\ q \in [1..Cardinality(s) -> s]
  BY <1>1, <1>2, FS_CardinalityType DEF SetToSeqs
<1> QED BY <1>3

LEMMA DrawContractsInv == ASSUME Inv, NEW p \in Request, DrawContracts(p) PROVE Inv' /\ Comes(p)
<1>1. /\ req[p] \in Requests /\ Course(req[p]) /\ Carries(req[p]) /\ req[p].pc = "draw"
      /\ OneJudge => SawBy(req[p])
  BY Serves DEF DrawContracts, At
<1> DEFINE pool == Pickable(req[p].num, FALSE, NoTask)
<1>2. req[p].kind = "contracts" /\ OnlyReads(p)
  BY <1>1 DEF Course, DrawContracts
<1>3. pool \in SUBSET Task
  BY LoadFacts DEF Pickable, Inv, Base, TablesOK
<1>4. PICK q \in SetToAllKPermutations(pool) :
        Go(p, IF q = <<>> THEN Blank ELSE [req[p] EXCEPT !.pc = "dup", !.todo = q])
  BY Zenon DEF DrawContracts
<1>5. q \in Seq(Task)
  BY <1>3, <1>4, DrawnFacts
<1>6. CASE q = <<>>
  BY <1>1, <1>2, <1>4, <1>6, GivesUp DEF At, Refuse
<1>7. CASE q # <<>>
  <2> DEFINE n == [req[p] EXCEPT !.pc = "dup", !.todo = q]
  <2>1. Go(p, n) /\ "dup" \in Statements
    BY <1>4, <1>7 DEF Statements
  <2>2. n \in Requests /\ n.kind = req[p].kind /\ n.ticket = req[p].ticket /\ n.row = req[p].row
    BY <1>1, <1>5, <2>1 DEF Requests
  <2>3. Course(n) /\ Carries(n)
    BY <1>1, <1>2, <1>7 DEF Requests, Course, Carries, Begins
  <2>4. OneJudge => SawBy(n)
    BY <1>1, <1>2 DEF SawBy, Begins, Requests
  <2> QED BY <1>1, <1>2, <2>1, <2>2, <2>3, <2>4, Reads DEF At, Comes, Others, Playing, Requests
<1> QED BY <1>6, <1>7

\* The contracts still to be handed out.
LEMMA AssignedFacts ==
  ASSUME NEW r \in Requests, r.kind \in {"assign", "contracts"}, r.pc \in {"dup", "assign"},
         Carries(r), OneJudge => SawBy(r)
  PROVE  \/ Assigned(r) = Blank
         \/ /\ Assigned(r) \in Requests /\ Course(Assigned(r)) /\ Carries(Assigned(r))
            /\ Assigned(r).kind = r.kind /\ Assigned(r).ticket = r.ticket
            /\ Assigned(r).row = r.row /\ Assigned(r).pc = "dup"
            /\ OneJudge => SawBy(Assigned(r))
<1>1. r.todo \in Seq(Task) /\ r.todo # <<>>
  BY DEF Requests, Carries
<1>2. CASE Len(r.todo) = 1
  BY <1>2 DEF Assigned
<1>3. CASE Len(r.todo) # 1
  <2> DEFINE n == [r EXCEPT !.pc = "dup", !.todo = Tail(@)]
  <2>1. Assigned(r) = n /\ "dup" \in Statements
    BY <1>3 DEF Assigned, Statements
  <2>2. Tail(r.todo) \in Seq(Task) /\ Tail(r.todo) # <<>>
    <3>0. Len(r.todo) \in Nat \ {0}
      BY <1>1, EmptySeq
    <3> DEFINE l == Len(r.todo)
    <3> HIDE DEF l
    <3>a. l \in Nat \ {0} /\ l # 1
      BY <1>3, <3>0 DEF l
    <3>b. l > 1
      BY <3>a
    <3>1. Len(r.todo) > 1
      BY <3>b DEF l
    <3>2. Tail(r.todo) \in Seq(Task) /\ Len(Tail(r.todo)) > 0
      BY <1>1, <3>1
    <3> QED BY <3>2, EmptySeq
  <2>3. n \in Requests /\ n.kind = r.kind /\ n.ticket = r.ticket /\ n.row = r.row /\ n.pc = "dup"
    BY <2>1, <2>2 DEF Requests
  <2>4. Course(n) /\ Carries(n)
    BY <2>2 DEF Requests, Course, Carries, Begins
  <2>5. OneJudge => SawBy(n)
    BY DEF SawBy, Begins, Requests
  <2> HIDE DEF n
  <2> QED BY <2>1, <2>3, <2>4, <2>5
<1> QED BY <1>2, <1>3

LEMMA LookDuplicateInv == ASSUME Inv, NEW p \in Request, LookDuplicate(p) PROVE Inv' /\ Comes(p)
<1>1. /\ req[p] \in Requests /\ Course(req[p]) /\ Carries(req[p]) /\ req[p].pc = "dup"
      /\ OneJudge => SawBy(req[p])
  BY Serves DEF LookDuplicate, At
<1>2. req[p].kind \in {"assign", "contracts"} /\ OnlyReads(p)
  BY <1>1 DEF Course, LookDuplicate
<1>3. CASE \E i \in 1..Len(dealt) : dealt[i].task = req[p].todo[1]
  <2>1. Go(p, Assigned(req[p]))
    BY <1>3 DEF LookDuplicate
  <2> QED BY <1>1, <1>2, <2>1, AssignedFacts, GivesUp, Reads DEF At, Comes, Others, Playing, Requests, Refuse
<1>4. CASE ~(\E i \in 1..Len(dealt) : dealt[i].task = req[p].todo[1])
  <2> DEFINE n == [req[p] EXCEPT !.pc = "assign"]
  <2>1. Go(p, n) /\ "assign" \in Statements
    BY <1>4 DEF LookDuplicate, Statements
  <2>2. n \in Requests /\ n.kind = req[p].kind /\ n.ticket = req[p].ticket /\ n.row = req[p].row
    BY <1>1, <2>1 DEF Requests
  <2>3. Course(n) /\ Carries(n)
    BY <1>1, <1>2 DEF Requests, Course, Carries, Begins
  <2>4. OneJudge => SawBy(n)
    BY <1>1, <1>2, <1>4 DEF SawBy, Begins, Requests, Fresh
  <2> QED BY <1>1, <1>2, <2>1, <2>2, <2>3, <2>4, Reads DEF At, Comes, Others, Playing, Requests
<1> QED BY <1>3, <1>4

LEMMA LookTakenInv == ASSUME Inv, NEW p \in Request, LookTaken(p) PROVE Inv' /\ Comes(p)
<1>1. /\ req[p] \in Requests /\ Course(req[p]) /\ Carries(req[p]) /\ req[p].pc = "taken"
      /\ OneJudge => SawBy(req[p])
  BY Serves DEF LookTaken, At
<1> DEFINE taken == \E x \in penalty : x.round = req[p].num /\ x.protocol = req[p].protocol
                                      /\ x.side # req[p].side
<1>2. req[p].kind = "protocol" /\ OnlyReads(p)
  BY <1>1 DEF Course, LookTaken
<1>3. CASE taken
  BY <1>1, <1>2, <1>3, GivesUp DEF LookTaken, At
<1>4. CASE ~taken
  <2> DEFINE n == [req[p] EXCEPT !.pc = "clear"]
  <2>1. Go(p, n) /\ "clear" \in Statements
    BY <1>4 DEF LookTaken, Statements
  <2>2. n \in Requests /\ n.kind = req[p].kind /\ n.ticket = req[p].ticket /\ n.row = req[p].row
    BY <1>1, <2>1 DEF Requests
  <2>3. Course(n) /\ Carries(n)
    BY <1>1, <1>2 DEF Requests, Course, Carries, Begins
  <2>4. OneJudge => SawBy(n)
    BY <1>1, <1>2, <1>4 DEF SawBy, Begins, Requests
  <2> QED BY <1>1, <1>2, <2>1, <2>2, <2>3, <2>4, Reads DEF At, Comes, Others, Playing, Requests
<1> QED BY <1>3, <1>4
-------------------------------------------------------------------------------
(* The statements that write. *)

\* A request has written and goes on.
LEMMA Writes ==
  ASSUME Inv, NEW p \in Request, ~At(p, "idle"), NEW n \in Requests, Go(p, n),
         TablesOK', UNCHANGED <<load, made, veto>>, Len(dealt') >= Len(dealt),
         Course(n), Carries(n), n.kind = req[p].kind, n.ticket = req[p].ticket,
         n.row = req[p].row, OneJudge => Saw(p)'
  PROVE  /\ Inv' /\ req'[p] = n /\ Others(p)
         /\ n.pc \notin Playing => Comes(p)
<1>1. /\ req' \in [Request -> Requests] /\ req'[p] = n
      /\ \A q \in Request \ {p} : req'[q] = req[q]
  BY Goes DEF Inv, Base
<1>2. Len(dealt) \in Nat /\ Len(dealt') \in Nat
  BY DEF Inv, Base, TablesOK, TypeOK
<1>3. Shape(p)'
  BY <1>1, <1>2 DEF Shape, Inv, Base, At
<1>4. OneJudge => \A v, w \in veto' : v.id = w.id => v = w
  BY DEF Inv, Judged
<1>5. Inv'
  BY <1>1, <1>3, <1>4, Settles
<1> QED BY <1>1, <1>5 DEF Comes, Others

\* The tables of the rounds and the state of the match change, nothing else.
LEMMA RoundsWritten ==
  ASSUME TablesOK, round' \in [Number -> Rounds], match' \in {"upcoming", "live", "finished"},
         UNCHANGED <<veto, seeds, dealt, penalty, raid, bounds>>
  PROVE  TablesOK' /\ Len(dealt') >= Len(dealt)
<1>1. TypeOK'
  BY DEF TablesOK, TypeOK
<1> QED BY <1>1 DEF TablesOK, TypeOK, bounds, VetoOrder

LEMMA InsertMoveInv == ASSUME Inv, NEW p \in Request, InsertMove(p) PROVE Inv' /\ Comes(p)
<1>1. /\ req[p] \in Requests /\ Course(req[p]) /\ Carries(req[p]) /\ req[p].pc = "move"
      /\ OneJudge => SawBy(req[p])
  BY Serves DEF InsertMove, At
<1> DEFINE v == [id |-> req[p].ticket, seq |-> req[p].count, map |-> req[p].maps[1]]
           n == VetoOrder[req[p].count].round
<1>2. req[p].kind = "veto" /\ UNCHANGED <<seeds, dealt, penalty, match, raid, bounds>>
  BY <1>1 DEF Course, InsertMove
<1>3. TablesOK /\ TypeOK
  BY DEF Inv, Base, TablesOK
<1>4. CASE UNCHANGED <<veto, round>>
  <2>1. OnlyReads(p)
    BY <1>2, <1>4 DEF OnlyReads, tables
  <2> QED BY <1>1, <2>1, GivesUp DEF InsertMove, At
<1>5. CASE ~UNCHANGED <<veto, round>>
  <2>1. /\ \A x \in veto : x.seq # req[p].count
        /\ veto' = veto \cup {v}
        /\ round' = IF n = 0 THEN round ELSE [round EXCEPT ![n].map = req[p].maps[1]]
    BY <1>5 DEF InsertMove
  <2>2. v \in Moves /\ v.seq \in 1..Len(VetoOrder) /\ v.id <= made
        /\ v.seq = req[p].count /\ v.id = req[p].ticket
    <3>1. req[p].count \in Nat /\ req[p].count \in 1..Len(VetoOrder) /\ req[p].ticket \in Nat
      BY <1>1 DEF Carries, Requests
    <3>2. req[p].ticket <= made
      BY <1>1, Serves
    <3>3. req[p].maps[1] \in Map
      BY <1>1, <1>2 DEF Carries, Requests
    <3> QED BY <3>1, <3>2, <3>3 DEF Moves
  <2>3. n \in 0..TotalRounds
    BY <2>2, VetoOrderFacts
  <2>4. round' \in [Number -> Rounds]
    <3>1. CASE n = 0
      BY <1>3, <2>1, <3>1 DEF TypeOK
    <3>2. CASE n # 0
      <4>1. n \in Number /\ round[n] \in Rounds
        BY <1>3, <2>3, <3>2, RoundsAssumption DEF TypeOK, Number
      <4>2. [round[n] EXCEPT !.map = req[p].maps[1]] \in Rounds
        BY <2>2, <4>1 DEF Rounds, Moves
      <4>3. round' = [round EXCEPT ![n] = [round[n] EXCEPT !.map = req[p].maps[1]]]
        BY <2>1, <3>2
      <4> HIDE DEF n
      <4> QED BY <1>3, <4>1, <4>2, <4>3 DEF TypeOK
    <3> QED BY <3>1, <3>2
  <2> HIDE DEF v, n
  <2>5. veto' \subseteq Moves /\ \A x, w \in veto' : x.seq = w.seq => x = w
    BY <1>3, <2>1, <2>2 DEF TypeOK
  <2>6. IsFiniteSet(veto') /\ \A x \in veto' : x.seq \in 1..Len(VetoOrder) /\ x.id <= made
    BY <1>3, <2>1, <2>2, FS_AddElement DEF TablesOK
  <2>7. TypeOK'
    BY <1>2, <1>3, <2>4, <2>5 DEF TypeOK
  <2>8. TablesOK'
    BY <1>2, <1>3, <2>6, <2>7 DEF TablesOK, bounds, VetoOrder
  <2>9. OneJudge => \A x, w \in veto' : x.id = w.id => x = w
    BY <1>1, <1>2, <2>1, <2>2 DEF SawBy, Inv, Judged
  <2>10. Len(dealt') >= Len(dealt)
    BY <1>2, <1>3 DEF TypeOK
  <2> QED BY <1>1, <1>2, <2>8, <2>9, <2>10, Ends DEF InsertMove, At, bounds
<1> QED BY <1>4, <1>5

LEMMA DeleteMoveInv == ASSUME Inv, NEW p \in Request, DeleteMove(p) PROVE Inv' /\ Comes(p)
<1> DEFINE gone == {v \in veto : v.id \in req[p].seen}
<1>1. /\ veto' = veto \ gone /\ Refuse(p) /\ ~At(p, "idle")
      /\ UNCHANGED <<seeds, dealt, penalty, match, raid, bounds>>
  BY DEF DeleteMove, At
<1>2. TablesOK /\ TypeOK
  BY DEF Inv, Base, TablesOK
<1>3. \A n \in Number : round[n] \in Rounds /\ [round[n] EXCEPT !.map = NoMap] \in Rounds
  BY <1>2 DEF TypeOK, Rounds
<1>4. round' \in [Number -> Rounds]
  BY <1>3, Zenon DEF DeleteMove
<1>5. veto' \subseteq veto /\ IsFiniteSet(veto')
  BY <1>1, <1>2, FS_Subset DEF TablesOK
<1>6. TypeOK'
  BY <1>1, <1>2, <1>4, <1>5 DEF TypeOK
<1>7. TablesOK'
  BY <1>1, <1>2, <1>5, <1>6 DEF TablesOK, bounds, VetoOrder
<1>8. OneJudge => \A v, w \in veto' : v.id = w.id => v = w
  BY <1>5 DEF Inv, Judged
<1>9. Len(dealt') >= Len(dealt)
  BY <1>1, <1>2 DEF TypeOK
<1> QED BY <1>1, <1>7, <1>8, <1>9, Ends DEF bounds

LEMMA SaveMapsInv == ASSUME Inv, NEW p \in Request, SaveMaps(p) PROVE Inv' /\ Comes(p)
<1>1. /\ veto' = {} /\ Refuse(p) /\ ~At(p, "idle")
      /\ UNCHANGED <<seeds, dealt, penalty, match, raid, bounds>>
  BY DEF SaveMaps, At
<1>2. TablesOK /\ TypeOK /\ req[p].maps \in Seq(Map)
  BY DEF Inv, Base, TablesOK, Requests
<1>3. \A n \in Number : round[n] \in Rounds
  BY <1>2 DEF TypeOK
<1>4. \A n \in Number : n <= Len(req[p].maps) =>
        [round[n] EXCEPT !.map = req[p].maps[n]] \in Rounds
  <2>1. \A n \in Number : n \in Nat /\ n >= 1
    BY RoundsAssumption DEF Number
  <2> QED BY <1>2, <1>3, <2>1 DEF Rounds
<1>5. round' \in [Number -> Rounds]
  BY <1>3, <1>4, Zenon DEF SaveMaps
<1>6. TypeOK'
  BY <1>1, <1>2, <1>5 DEF TypeOK
<1>7. TablesOK'
  BY <1>1, <1>2, <1>6, FS_EmptySet DEF TablesOK, bounds, VetoOrder
<1>8. OneJudge => \A v, w \in veto' : v.id = w.id => v = w
  BY <1>1
<1>9. Len(dealt') >= Len(dealt)
  BY <1>1, <1>2 DEF TypeOK
<1> QED BY <1>1, <1>7, <1>8, <1>9, Ends DEF bounds

LEMMA SaveFirstSideInv == ASSUME Inv, NEW p \in Request, SaveFirstSide(p) PROVE Inv' /\ Comes(p)
<1>1. /\ Refuse(p) /\ ~At(p, "idle")
      /\ UNCHANGED <<round, veto, dealt, penalty, match, raid, bounds>>
  BY DEF SaveFirstSide, At
<1>2. TablesOK /\ TypeOK
  BY DEF Inv, Base, TablesOK
<1>3. seeds' \in Orders
  BY <1>2, ReverseFacts DEF SaveFirstSide, TablesOK
<1>4. TypeOK'
  BY <1>1, <1>2 DEF TypeOK
<1>5. TablesOK'
  BY <1>1, <1>2, <1>3, <1>4 DEF TablesOK, bounds, VetoOrder
<1>6. OneJudge => \A v, w \in veto' : v.id = w.id => v = w
  BY <1>1 DEF Inv, Judged
<1>7. Len(dealt') >= Len(dealt)
  BY <1>1, <1>2 DEF TypeOK
<1> QED BY <1>1, <1>5, <1>6, <1>7, Ends DEF bounds

LEMMA BeginRoundInv ==
  ASSUME Inv, NEW p \in Request, BeginRound(p)
  PROVE  /\ Inv' /\ Others(p)
         /\ req'[p].pc = "dealt" /\ req'[p].kind = "next" /\ req'[p].num = req[p].num
<1>1. /\ req[p] \in Requests /\ Course(req[p]) /\ Carries(req[p]) /\ req[p].pc = "begin"
      /\ OneJudge => SawBy(req[p])
  BY Serves DEF BeginRound, At
<1> DEFINE n == [req[p] EXCEPT !.pc = "dealt"]
<1>2. /\ req[p].kind = "next" /\ Go(p, n) /\ match' = "live"
      /\ UNCHANGED <<veto, seeds, dealt, penalty, raid, bounds>>
  BY <1>1 DEF Course, BeginRound
<1>3. TablesOK /\ TypeOK
  BY DEF Inv, Base, TablesOK
<1>4. \A k \in Number : /\ round[k] \in Rounds
                        /\ [round[k] EXCEPT !.status = "live"] \in Rounds
                        /\ [round[k] EXCEPT !.status = "finished"] \in Rounds
  BY <1>3 DEF TypeOK, Rounds
<1>5. round' \in [Number -> Rounds]
  BY <1>4, Zenon DEF BeginRound
<1>6. TablesOK' /\ Len(dealt') >= Len(dealt)
  BY <1>2, <1>3, <1>5, RoundsWritten
<1>7. "dealt" \in Statements
  BY DEF Statements
<1>8. n \in Requests /\ n.kind = req[p].kind /\ n.ticket = req[p].ticket /\ n.row = req[p].row
      /\ n.num = req[p].num /\ n.pc = "dealt"
  BY <1>1, <1>7 DEF Requests
<1>9. Course(n) /\ Carries(n)
  BY <1>1, <1>2 DEF Requests, Course, Carries, Begins
<1>10. req[p].num \in Number /\ round'[req[p].num].status = "live"
  <2>1. req[p].num \in Number /\ req[p].live # req[p].num
    BY <1>1 DEF Carries
  <2>2. round'[req[p].num] = [round[req[p].num] EXCEPT !.status = "live"]
    BY <2>1 DEF BeginRound
  <2> QED BY <1>4, <2>1, <2>2 DEF Rounds
<1> HIDE DEF n
<1>11. req'[p] = n
  BY <1>2, <1>8, Goes DEF Inv, Base
<1>12. OneJudge => Saw(p)'
  BY <1>1, <1>2, <1>8, <1>10, <1>11 DEF Saw, SawBy, Begins, bounds
<1> QED BY <1>1, <1>2, <1>6, <1>8, <1>9, <1>12, Writes DEF At, bounds

\* The tasks change.
LEMMA TasksWritten ==
  ASSUME TablesOK, dealt' \in Seq(Assignments),
         UNCHANGED <<round, veto, seeds, penalty, match, raid, bounds>>
  PROVE  TablesOK'
<1>1. TypeOK'
  BY DEF TablesOK, TypeOK
<1> QED BY <1>1 DEF TablesOK, TypeOK, bounds, VetoOrder

LEMMA PutRowFacts ==
  ASSUME TypeOK, NEW num \in Number, NEW side \in Side, NEW task \in Task,
         PutRow(num, side, task)
  PROVE  /\ dealt' \in Seq(Assignments) /\ Len(dealt') >= Len(dealt)
         /\ \/ dealt' = dealt
            \/ dealt' = Append(dealt, [round |-> num, side |-> side, task |-> task, by |-> NoSide])
<1> DEFINE a == [round |-> num, side |-> side, task |-> task, by |-> NoSide]
<1>1. a \in Assignments /\ dealt \in Seq(Assignments)
  BY DEF Assignments, TypeOK
<1>2. dealt' = dealt \/ dealt' = Append(dealt, a)
  BY DEF PutRow
<1> HIDE DEF a
<1>3. dealt' \in Seq(Assignments) /\ Len(dealt') >= Len(dealt)
  BY <1>1, <1>2
<1> QED BY <1>2, <1>3 DEF a

\* The side of a slot.
LEMMA SlotSideFacts ==
  ASSUME NEW r, r.order \in Orders, r.slot \in 1..LastSlot
  PROVE  /\ r.slot <= 3 => SlotSide(r) = r.order[1]
         /\ r.slot > 3 => SlotSide(r) = r.order[2]
         /\ SlotSide(r) \in Side
<1>1. r.slot \in 1..6
  BY DEF LastSlot
<1>2. r.slot <= 3 => (r.slot + 2) \div 3 = 1
  BY <1>1
<1>3. r.slot > 3 => (r.slot + 2) \div 3 = 2
  BY <1>1
<1>4. r.order[1] \in Side /\ r.order[2] \in Side
  BY ConstantFacts
<1> QED BY <1>1, <1>2, <1>3, <1>4 DEF SlotSide

LEMMA PutTaskInv ==
  ASSUME Inv, NEW p \in Request, PutTask(p)
  PROVE  LET m == NextSlot(req[p]) IN
         /\ Inv' /\ Others(p) /\ req[p].kind = "next"
         /\ req'[p].pc = m.pc /\ req'[p].kind = m.kind /\ req'[p].num = m.num
         /\ req'[p].order = m.order /\ req'[p].slot = m.slot
<1>1. /\ req[p] \in Requests /\ Course(req[p]) /\ Carries(req[p]) /\ req[p].pc = "put"
      /\ OneJudge => SawBy(req[p])
  BY Serves DEF PutTask, At
<1> DEFINE m == NextSlot(req[p])
           n == [m EXCEPT !.task = NoTask]
<1>2. /\ req[p].kind = "next" /\ Go(p, n) /\ PutRow(req[p].num, SlotSide(req[p]), req[p].task)
      /\ UNCHANGED <<round, veto, seeds, penalty, match, raid, bounds>>
  BY <1>1 DEF Course, PutTask
<1>3. TablesOK /\ TypeOK
  BY DEF Inv, Base, TablesOK
<1>4. req[p].num \in Number /\ req[p].task \in Task /\ SlotSide(req[p]) \in Side
  BY <1>1, <1>2, SlotSideFacts DEF Carries, Begins
<1>5. TablesOK' /\ Len(dealt') >= Len(dealt)
  BY <1>2, <1>3, <1>4, PutRowFacts, TasksWritten
<1>6. /\ m \in Requests /\ Course(m) /\ Carries(m)
      /\ m.kind = "next" /\ m.ticket = req[p].ticket /\ m.row = req[p].row
      /\ m.num = req[p].num /\ m.pc \in {"pick", "aim"}
  BY <1>1, <1>2, SlotFacts
<1> HIDE DEF m
<1>7. /\ n \in Requests /\ Course(n) /\ Carries(n)
      /\ n.kind = "next" /\ n.ticket = req[p].ticket /\ n.row = req[p].row
      /\ n.num = req[p].num /\ n.pc \in {"pick", "aim"}
      /\ n.pc = m.pc /\ n.order = m.order /\ n.slot = m.slot
  BY <1>6 DEF Requests, Course, Carries, Begins
<1> HIDE DEF n
<1>8. req'[p] = n
  BY <1>2, <1>7, Goes DEF Inv, Base
<1>9. OneJudge => Saw(p)'
  BY <1>1, <1>2, <1>7, <1>8 DEF Saw, SawBy, Begins, bounds
<1>10. Inv' /\ Others(p)
  BY <1>1, <1>2, <1>5, <1>7, <1>9, Writes DEF At, bounds
<1> QED BY <1>2, <1>6, <1>7, <1>8, <1>10 DEF m

LEMMA AimRaidInv ==
  ASSUME Inv, NEW p \in Request, AimRaid(p)
  PROVE  LET side == IF req[p].kind = "next" THEN seeds[1] ELSE req[p].side IN
         /\ Inv' /\ Others(p) /\ req[p].kind \in {"next", "focus"}
         /\ raid' = [raid EXCEPT !.side = side]
         /\ IF req[p].count = 1 THEN req'[p].pc = "idle"
            ELSE /\ req'[p].pc = "raid" /\ req'[p].kind = req[p].kind
                 /\ req'[p].num = req[p].num /\ req'[p].side = side
<1>1. /\ req[p] \in Requests /\ Course(req[p]) /\ Carries(req[p]) /\ req[p].pc = "aim"
      /\ OneJudge => SawBy(req[p])
  BY Serves DEF AimRaid, At
<1> DEFINE side == IF req[p].kind = "next" THEN seeds[1] ELSE req[p].side
           n    == [req[p] EXCEPT !.pc = "raid", !.side = side]
<1>2. /\ req[p].kind \in {"next", "focus"} /\ raid' = [raid EXCEPT !.side = side]
      /\ Go(p, IF req[p].count = 1 THEN Blank ELSE n)
      /\ UNCHANGED <<round, veto, seeds, dealt, penalty, match, bounds>>
  BY <1>1 DEF Course, AimRaid
<1>3. TablesOK /\ TypeOK
  BY DEF Inv, Base, TablesOK
<1>4. side \in Side
  BY <1>1, <1>2, <1>3, ConstantFacts DEF Carries, TablesOK
<1> HIDE DEF side
<1>5. TypeOK' /\ Len(dealt') >= Len(dealt)
  BY <1>2, <1>3 DEF TypeOK
<1>6. TablesOK'
  BY <1>2, <1>3, <1>4, <1>5 DEF TablesOK, bounds, VetoOrder
<1>7. CASE req[p].count = 1
  <2>1. OneJudge => \A v, w \in veto' : v.id = w.id => v = w
    BY <1>2 DEF Inv, Judged
  <2>2. Inv' /\ Others(p)
    BY <1>1, <1>2, <1>5, <1>6, <1>7, <2>1, Ends DEF At, Refuse, Comes, bounds
  <2>3. req'[p] = Blank
    BY <1>2, <1>7, BlankFacts, Goes DEF Inv, Base
  <2> QED BY <1>2, <1>7, <2>2, <2>3, BlankFacts DEF side
<1>8. CASE req[p].count # 1
  <2>1. "raid" \in Statements
    BY DEF Statements
  <2>2. /\ n \in Requests /\ n.kind = req[p].kind /\ n.ticket = req[p].ticket
        /\ n.row = req[p].row /\ n.num = req[p].num /\ n.pc = "raid"
        /\ n.side = side
    BY <1>1, <1>4, <2>1 DEF Requests
  <2>3. Course(n) /\ Carries(n)
    BY <1>1, <1>2, <1>4 DEF Requests, Course, Carries, Begins
  <2> HIDE DEF n
  <2>4. req'[p] = n
    BY <1>2, <1>8, <2>2, Goes DEF Inv, Base
  <2>5. OneJudge => Saw(p)'
    BY <1>1, <1>2, <2>2, <2>4 DEF Saw, SawBy, Begins, bounds
  <2>6. Inv' /\ Others(p)
    BY <1>1, <1>2, <1>5, <1>6, <1>8, <2>2, <2>3, <2>5, Writes DEF At, bounds
  <2> QED BY <1>2, <1>8, <2>2, <2>4, <2>6 DEF side
<1> QED BY <1>7, <1>8

LEMMA RecordRaidStartInv == ASSUME Inv, NEW p \in Request, RecordRaidStart(p) PROVE Inv' /\ Comes(p)
<1>1. /\ req[p] \in Requests /\ Course(req[p]) /\ Carries(req[p]) /\ req[p].pc = "raid"
      /\ OneJudge => SawBy(req[p])
  BY Serves DEF RecordRaidStart, At
<1> DEFINE live == {n \in Number : round[n].status = "live"}
           x    == <<Min(live), req[p].side>>
<1>2. /\ Refuse(p) /\ UNCHANGED <<round, veto, seeds, dealt, penalty, match, bounds>>
      /\ raid' = IF live = {} THEN raid ELSE [raid EXCEPT !.starts = Append(@, x)]
  BY DEF RecordRaidStart
<1>3. TablesOK /\ TypeOK
  BY DEF Inv, Base, TablesOK
<1>4. live # {} => x \in Number \X Side
  <2>1. live # {} => Min(live) \in live
    BY RoundsAssumption, EndsOfShort DEF Number
  <2>2. req[p].side \in Side
    BY <1>1 DEF Carries
  <2> QED BY <2>1, <2>2
<1> HIDE DEF x, live
<1>5. raid' \in [side : Side \cup {NoSide}, starts : Seq(Number \X Side)]
  <2>1. live # {} => Append(raid.starts, x) \in Seq(Number \X Side)
    BY <1>3, <1>4 DEF TablesOK
  <2> QED BY <1>2, <1>3, <2>1 DEF TablesOK
<1>6. TypeOK' /\ Len(dealt') >= Len(dealt)
  BY <1>2, <1>3 DEF TypeOK
<1>7. TablesOK'
  BY <1>2, <1>3, <1>5, <1>6 DEF TablesOK, bounds, VetoOrder
<1>8. OneJudge => \A v, w \in veto' : v.id = w.id => v = w
  BY <1>2 DEF Inv, Judged
<1> QED BY <1>1, <1>2, <1>6, <1>7, <1>8, Ends DEF At, bounds

LEMMA SwapTaskInv == ASSUME Inv, NEW p \in Request, SwapTask(p) PROVE Inv' /\ Comes(p)
<1>1. /\ req[p] \in Requests /\ Course(req[p]) /\ Carries(req[p]) /\ req[p].pc = "swap"
      /\ OneJudge => SawBy(req[p])
  BY Serves DEF SwapTask, At
<1> DEFINE i == req[p].row
           a == [dealt[i] EXCEPT !.task = req[p].task]
<1>2. /\ Refuse(p) /\ UNCHANGED <<round, veto, seeds, penalty, match, raid, bounds>>
      /\ dealt' = dealt \/ dealt' = [dealt EXCEPT ![i] = a]
  BY DEF SwapTask
<1>3. TablesOK /\ TypeOK
  BY DEF Inv, Base, TablesOK
<1>4. req[p].kind = "reroll" /\ req[p].task \in Task
  BY <1>1 DEF Course, Carries
<1>5. i \in 1..Len(dealt)
  BY <1>4, Serves
<1>6. a \in Assignments /\ dealt \in Seq(Assignments)
  <2>1. dealt[i] \in Assignments
    BY <1>3, <1>5 DEF TypeOK
  <2> QED BY <1>3, <1>4, <2>1 DEF TypeOK, Assignments
<1> HIDE DEF a, i
<1>7. dealt' \in Seq(Assignments) /\ Len(dealt') >= Len(dealt)
  BY <1>2, <1>5, <1>6
<1>8. TablesOK'
  BY <1>2, <1>3, <1>7, TasksWritten
<1>9. OneJudge => \A v, w \in veto' : v.id = w.id => v = w
  BY <1>2 DEF Inv, Judged
<1> QED BY <1>1, <1>2, <1>7, <1>8, <1>9, Ends DEF At, bounds

LEMMA AssignTaskInv == ASSUME Inv, NEW p \in Request, AssignTask(p) PROVE Inv' /\ Comes(p)
<1>1. /\ req[p] \in Requests /\ Course(req[p]) /\ Carries(req[p]) /\ req[p].pc = "assign"
      /\ OneJudge => SawBy(req[p])
  BY Serves DEF AssignTask, At
<1> DEFINE n == Assigned(req[p])
<1>2. /\ req[p].kind \in {"assign", "contracts"} /\ Go(p, n)
      /\ PutRow(req[p].num, req[p].side, req[p].todo[1])
      /\ UNCHANGED <<round, veto, seeds, penalty, match, raid, bounds>>
  BY <1>1 DEF Course, AssignTask
<1>3. TablesOK /\ TypeOK
  BY DEF Inv, Base, TablesOK
<1>4. req[p].num \in Number /\ req[p].side \in Side /\ req[p].todo[1] \in Task
  <2>1. req[p].todo \in Seq(Task) /\ req[p].todo # <<>>
    BY <1>1 DEF Carries, Requests
  <2>2. Len(req[p].todo) \in Nat \ {0}
    BY <2>1, EmptySeq
  <2> QED BY <1>1, <1>2, <2>1, <2>2 DEF Carries
<1>5. TablesOK' /\ Len(dealt') >= Len(dealt)
  BY <1>2, <1>3, <1>4, PutRowFacts, TasksWritten
<1>6. \/ n = Blank
      \/ /\ n \in Requests /\ Course(n) /\ Carries(n)
         /\ n.kind = req[p].kind /\ n.ticket = req[p].ticket
         /\ n.row = req[p].row /\ n.pc = "dup"
  BY <1>1, <1>2, AssignedFacts
<1> HIDE DEF n
<1>7. CASE n = Blank
  <2>1. OneJudge => \A v, w \in veto' : v.id = w.id => v = w
    BY <1>2 DEF Inv, Judged
  <2> QED BY <1>1, <1>2, <1>5, <1>7, <2>1, Ends DEF At, Refuse, bounds
<1>8. CASE n # Blank
  <2>1. req'[p] = n
    BY <1>2, <1>6, <1>8, Goes DEF Inv, Base
  <2>2. OneJudge => Saw(p)'
    BY <1>1, <1>2, <1>6, <1>8, <2>1 DEF Saw, SawBy, Begins, bounds
  <2> QED BY <1>1, <1>2, <1>5, <1>6, <1>8, <2>2, Writes DEF At, Comes, Others, Playing, Requests, bounds
<1> QED BY <1>7, <1>8

\* The protocols change.
LEMMA PenaltyWritten ==
  ASSUME TablesOK, penalty' \subseteq Penalties,
         UNCHANGED <<round, veto, seeds, dealt, match, raid, bounds>>
  PROVE  TablesOK' /\ Len(dealt') >= Len(dealt)
<1>1. TypeOK'
  BY DEF TablesOK, TypeOK
<1> QED BY <1>1 DEF TablesOK, TypeOK, bounds, VetoOrder

LEMMA ClearProtocolInv == ASSUME Inv, NEW p \in Request, ClearProtocol(p) PROVE Inv' /\ Comes(p)
<1>1. /\ req[p] \in Requests /\ Course(req[p]) /\ Carries(req[p]) /\ req[p].pc = "clear"
      /\ OneJudge => SawBy(req[p])
  BY Serves DEF ClearProtocol, At
<1> DEFINE mine == {x \in penalty : x.round = req[p].num /\ x.side = req[p].side}
           ps   == {x.protocol : x \in mine}
           n    == [req[p] EXCEPT !.pc = "enact", !.seen = ps]
<1>2. /\ req[p].kind = "protocol"
      /\ UNCHANGED <<round, veto, seeds, dealt, match, raid, bounds>>
  BY <1>1 DEF Course, ClearProtocol
<1>3. TablesOK /\ TypeOK
  BY DEF Inv, Base, TablesOK
<1>4. CASE req[p].protocol = NoProtocol
  <2>1. Refuse(p) /\ penalty' = penalty \ mine
    BY <1>4 DEF ClearProtocol
  <2>2. TablesOK' /\ Len(dealt') >= Len(dealt)
    BY <1>2, <1>3, <2>1, PenaltyWritten DEF TypeOK
  <2>3. OneJudge => \A v, w \in veto' : v.id = w.id => v = w
    BY <1>2 DEF Inv, Judged
  <2> QED BY <1>1, <1>2, <2>1, <2>2, <2>3, Ends DEF At, bounds
<1>5. CASE req[p].protocol # NoProtocol
  <2>1. Go(p, n) /\ UNCHANGED penalty
    BY <1>5 DEF ClearProtocol
  <2>2. OnlyReads(p)
    BY <1>2, <2>1 DEF OnlyReads, tables
  <2>3. ps \in SUBSET (Nat \cup Protocol) /\ "enact" \in Statements
        /\ ps = Mine(req[p].num, req[p].side)
    BY <1>3 DEF TypeOK, Penalties, Statements, Mine
  <2> HIDE DEF ps
  <2>4. n \in Requests /\ n.kind = req[p].kind /\ n.ticket = req[p].ticket /\ n.row = req[p].row
    BY <1>1, <2>3 DEF Requests
  <2>5. Course(n) /\ Carries(n)
    BY <1>1, <1>2, <1>5 DEF Requests, Course, Carries, Begins
  <2>6. OneJudge => SawBy(n)
    BY <1>1, <1>2, <2>3 DEF SawBy, Begins, Requests
  <2> QED BY <1>1, <2>1, <2>2, <2>4, <2>5, <2>6, Reads DEF At, Comes, Others, Playing, Requests
<1> QED BY <1>4, <1>5

LEMMA EnactProtocolInv == ASSUME Inv, NEW p \in Request, EnactProtocol(p) PROVE Inv' /\ Comes(p)
<1>1. /\ req[p] \in Requests /\ Course(req[p]) /\ Carries(req[p]) /\ req[p].pc = "enact"
      /\ OneJudge => SawBy(req[p])
  BY Serves DEF EnactProtocol, At
<1> DEFINE a    == [round |-> req[p].num, side |-> req[p].side,
                    protocol |-> req[p].protocol, times |-> 0]
           left == {x \in penalty : ~(x.round = req[p].num /\ x.side = req[p].side
                                      /\ x.protocol \in req[p].seen)}
<1>2. /\ req[p].kind = "protocol" /\ Refuse(p)
      /\ UNCHANGED <<round, veto, seeds, dealt, match, raid, bounds>>
  BY <1>1 DEF Course, EnactProtocol
<1>3. TablesOK /\ TypeOK
  BY DEF Inv, Base, TablesOK
<1>4. penalty' = penalty \/ penalty' = left \cup {a}
  BY DEF EnactProtocol
<1>5. a \in Penalties /\ left \subseteq penalty
  BY <1>1, <1>2 DEF Penalties, Carries
<1> HIDE DEF a, left
<1>6. TablesOK' /\ Len(dealt') >= Len(dealt)
  BY <1>2, <1>3, <1>4, <1>5, PenaltyWritten DEF TypeOK
<1>7. OneJudge => \A v, w \in veto' : v.id = w.id => v = w
  BY <1>2 DEF Inv, Judged
<1> QED BY <1>1, <1>2, <1>6, <1>7, Ends DEF At, bounds

LEMMA CloseRoundsInv == ASSUME Inv, NEW p \in Request, CloseRounds(p) PROVE Inv' /\ Comes(p)
<1>1. /\ req[p] \in Requests /\ Course(req[p]) /\ Carries(req[p]) /\ req[p].pc = "close"
      /\ OneJudge => SawBy(req[p])
  BY Serves DEF CloseRounds, At
<1> DEFINE n == [req[p] EXCEPT !.pc = "finish"]
<1>2. /\ req[p].kind = "finish" /\ Go(p, n)
      /\ UNCHANGED <<veto, seeds, dealt, penalty, match, raid, bounds>>
  BY <1>1 DEF Course, CloseRounds
<1>3. TablesOK /\ TypeOK
  BY DEF Inv, Base, TablesOK
<1>4. \A k \in Number : round[k] \in Rounds /\ [round[k] EXCEPT !.status = "finished"] \in Rounds
  BY <1>3 DEF TypeOK, Rounds
<1>5. round' \in [Number -> Rounds] /\ match' \in {"upcoming", "live", "finished"}
  BY <1>2, <1>3, <1>4, Zenon DEF CloseRounds, TypeOK
<1>6. TablesOK' /\ Len(dealt') >= Len(dealt)
  BY <1>2, <1>3, <1>5, RoundsWritten
<1>7. "finish" \in Statements
  BY DEF Statements
<1>8. n \in Requests /\ n.kind = req[p].kind /\ n.ticket = req[p].ticket /\ n.row = req[p].row
      /\ n.pc = "finish"
  BY <1>1, <1>7 DEF Requests
<1>9. Course(n) /\ Carries(n)
  BY <1>1, <1>2 DEF Requests, Course, Carries, Begins
<1> HIDE DEF n
<1>10. req'[p] = n
  BY <1>2, <1>8, Goes DEF Inv, Base
<1>11. OneJudge => Saw(p)'
  BY <1>1, <1>2, <1>8, <1>10 DEF Saw, SawBy, Begins, bounds
<1> QED BY <1>1, <1>2, <1>6, <1>8, <1>9, <1>11, Writes DEF At, Comes, Others, Playing, Requests, bounds

LEMMA FinishMatchInv == ASSUME Inv, NEW p \in Request, FinishMatch(p) PROVE Inv' /\ Comes(p)
<1>1. /\ Refuse(p) /\ ~At(p, "idle") /\ match' = "finished"
      /\ UNCHANGED <<round, veto, seeds, dealt, penalty, raid, bounds>>
  BY DEF FinishMatch, At
<1>2. TablesOK /\ TypeOK
  BY DEF Inv, Base, TablesOK
<1>3. TablesOK' /\ Len(dealt') >= Len(dealt)
  BY <1>1, <1>2, RoundsWritten DEF TypeOK
<1>4. OneJudge => \A v, w \in veto' : v.id = w.id => v = w
  BY <1>1 DEF Inv, Judged
<1> QED BY <1>1, <1>3, <1>4, Ends DEF bounds

LEMMA ClientGoneInv == ASSUME Inv, NEW p \in Request, ClientGone(p) PROVE Inv' /\ Comes(p)
<1>1. /\ Refuse(p) /\ ~At(p, "idle") /\ cancelled' = cancelled + 1
      /\ UNCHANGED <<tables, load, made>>
  BY DEF ClientGone
<1>2. TablesOK /\ TypeOK
  BY DEF Inv, Base, TablesOK
<1>3. TablesOK' /\ Len(dealt') >= Len(dealt)
  <2>1. made \in Nat /\ cancelled \in Nat
    BY <1>2 DEF TablesOK
  <2>2. dealt' = dealt /\ Len(dealt) \in Nat
    BY <1>1, <1>2 DEF tables, TypeOK
  <2> QED BY <1>1, <1>2, <2>1, <2>2, SameTablesOK
<1>4. OneJudge => \A v, w \in veto' : v.id = w.id => v = w
  BY <1>1 DEF Inv, Judged, tables
<1> QED BY <1>1, <1>3, <1>4, Ends

LEMMA InitInv == Init => Inv
<1> SUFFICES ASSUME Init PROVE Inv
  OBVIOUS
<1>1. load \in Loads /\ load.maps \subseteq Map
  BY LoadFacts DEF Init
<1>2. round \in [Number -> Rounds]
  BY <1>1 DEF Init, Rounds
<1>3. TypeOK
  BY <1>2 DEF Init, TypeOK
<1>4. TablesOK
  BY <1>1, <1>3, FS_EmptySet DEF Init, TablesOK, Orders
<1>5. Blank \in Requests /\ Blank.pc = "idle" /\ Blank.kind = "none"
  BY BlankFacts
<1>6. req = [p \in Request |-> Blank]
  BY DEF Init
<1>7. \A p \in Request : req[p].pc = "idle" /\ req[p].kind = "none"
  BY <1>5, <1>6
<1>8. req \in [Request -> Requests]
  BY <1>5, <1>6
<1>9. \A p \in Request : Shape(p) /\ Saw(p)
  BY <1>7 DEF Shape, Course, Carries, Begins, Saw, SawBy
<1>10. OneServed /\ veto = {}
  BY <1>7 DEF OneServed, At, Init
<1> QED BY <1>4, <1>8, <1>9, <1>10 DEF Inv, Base, Judged

LEMMA NextInv == Inv /\ [Next]_vars => Inv'
<1> SUFFICES ASSUME Inv, [Next]_vars PROVE Inv'
  OBVIOUS
<1>1. CASE UNCHANGED vars
  <2>1. UNCHANGED <<load, made, cancelled, req, tables, veto, dealt, match, round, penalty>>
    BY <1>1 DEF vars, bounds, tables
  <2>2. TablesOK'
    BY <2>1, SameTablesOK DEF Inv, Base, TablesOK
  <2>3. \A p \in Request : Shape(p)'
    BY <2>1 DEF Inv, Base, Shape
  <2>4. OneJudge' = OneJudge /\ OneServed' = OneServed
    BY <2>1 DEF OneJudge, OneServed, At
  <2>5. \A p \in Request : Saw(p) => Saw(p)'
    BY <2>1, SameTables DEF Saw, SawBy
  <2> QED BY <2>1, <2>2, <2>3, <2>4, <2>5 DEF Inv, Base, Judged
<1>2. ASSUME NEW p \in Request, Arrives(p) PROVE Inv'
  BY <1>2, ArrivesInv
<1>3. ASSUME NEW p \in Request, Proceeds(p) PROVE Inv'
  BY <1>3, RoundsStartedInv, CountMovesInv, InsertMoveInv, FindLastMoveInv, DeleteMoveInv,
     SaveMapsInv, SaveFirstSideInv, ReadRoundsInv, BeginRoundInv, LookDealtInv, PickTaskInv,
     PutTaskInv, ReadRaidInv, AimRaidInv, RecordRaidStartInv, ReadAssignmentInv, PickOtherInv,
     SwapTaskInv, DrawContractsInv, LookDuplicateInv, AssignTaskInv, LookTakenInv,
     ClearProtocolInv, EnactProtocolInv, CloseRoundsInv, FinishMatchInv DEF Proceeds
<1>4. ASSUME NEW p \in Request, ClientGone(p) PROVE Inv'
  BY <1>4, ClientGoneInv
<1> QED BY <1>1, <1>2, <1>3, <1>4 DEF Next

\* In every reachable state a request is in its course, and what a judge saw is so.
LEMMA InvTheorem == Spec => []Inv
  BY InitInv, NextInv, PTL DEF Spec
-------------------------------------------------------------------------------
(* The steps that change a table. *)

MarksTask(p)    == \E i \in 1..Len(dealt), s \in Side \cup {NoSide} : HandleMarkTask(p, i, s)
RemovesTask(p)  == \E i \in 1..Len(dealt) : HandleRemoveBonusTask(p, i)
UpdatesRound(p) == \E n \in Number, st \in {"pending", "live", "finished"}, m \in load.maps :
                     HandleUpdateRound(p, n, st, m)
Adjusts(p)      == \E n \in Number, s \in Side, d \in {1, -1} :
                     HandleAdjustProtocolViolations(p, n, s, d)

Quiet == UNCHANGED <<tables, load>>

RoundStep(p) == \/ InsertMove(p) \/ DeleteMove(p) \/ SaveMaps(p) \/ SaveFirstSide(p)
                \/ BeginRound(p) \/ CloseRounds(p) \/ FinishMatch(p) \/ UpdatesRound(p)
TaskStep(p)  == MarksTask(p) \/ RemovesTask(p) \/ PutTask(p) \/ SwapTask(p) \/ AssignTask(p)
SideStep(p)  == \/ Adjusts(p) \/ ClearProtocol(p) \/ EnactProtocol(p)
                \/ AimRaid(p) \/ RecordRaidStart(p)

LEMMA AsksAreQuiet == ASSUME NEW p \in Request, Asks(p) PROVE Quiet
  BY DEF Asks, HandleVeto, HandleVetoUndo, HandleNextRound, HandleFinishMatch,
     HandleSetMatchMaps, HandleFirstSide, HandleMatchFocus, HandleRerollTask,
     HandleSetProtocol, HandleAssignBonusTask, HandleDealContracts, Ask, Accept, Quiet

LEMMA StepKind ==
  ASSUME NEW p \in Request, Arrives(p) \/ Proceeds(p) \/ ClientGone(p)
  PROVE  Quiet \/ RoundStep(p) \/ TaskStep(p) \/ SideStep(p)
<1>1. CASE Arrives(p)
  <2>1. Asks(p) \/ MarksTask(p) \/ RemovesTask(p) \/ UpdatesRound(p) \/ Adjusts(p)
    BY <1>1 DEF Arrives, Asks, MarksTask, RemovesTask, UpdatesRound, Adjusts
  <2> QED BY <2>1, AsksAreQuiet DEF RoundStep, TaskStep, SideStep
<1>2. CASE Proceeds(p)
  <2>1. \/ OnlyReads(p) \/ RoundStep(p) \/ TaskStep(p) \/ SideStep(p)
    BY <1>2, Zenon DEF Proceeds, RoundStep, TaskStep, SideStep, RoundsStarted, CountMoves,
       FindLastMove, ReadRounds, LookDealt, PickTask, ReadRaid, ReadAssignment, PickOther,
       DrawContracts, LookDuplicate, LookTaken
  <2> QED BY <2>1 DEF OnlyReads, bounds, Quiet
<1>3. CASE ClientGone(p)
  BY <1>3 DEF ClientGone, Quiet
<1> QED BY <1>1, <1>2, <1>3

LEMMA StepKinds ==
  ASSUME [Next]_vars
  PROVE  Quiet \/ \E p \in Request : RoundStep(p) \/ TaskStep(p) \/ SideStep(p)
<1>1. CASE UNCHANGED vars
  BY <1>1 DEF vars, bounds, Quiet
<1>2. CASE Next
  BY <1>2, StepKind DEF Next
<1> QED BY <1>1, <1>2

LEMMA LoadStays == ASSUME [Next]_vars PROVE load' = load
<1>1. \A p \in Request : RoundStep(p) \/ TaskStep(p) \/ SideStep(p) => load' = load
  BY DEF RoundStep, TaskStep, SideStep, InsertMove, DeleteMove, SaveMaps, SaveFirstSide,
     BeginRound, CloseRounds, FinishMatch, UpdatesRound, HandleUpdateRound, MarksTask,
     RemovesTask, HandleMarkTask, HandleRemoveBonusTask, PutTask, SwapTask, AssignTask,
     Adjusts, HandleAdjustProtocolViolations, ClearProtocol, EnactProtocol, AimRaid,
     RecordRaidStart, Console, bounds
<1> QED BY <1>1, StepKinds DEF Quiet

LEMMA TasksAreApart ==
  ASSUME NEW p \in Request, TaskStep(p)
  PROVE  UNCHANGED <<round, veto, seeds, penalty, match, raid, load>>
  BY DEF TaskStep, MarksTask, RemovesTask, HandleMarkTask, HandleRemoveBonusTask, PutTask,
     SwapTask, AssignTask, Console, bounds

LEMMA SidesAreApart ==
  ASSUME NEW p \in Request, SideStep(p)
  PROVE  UNCHANGED <<round, veto, seeds, dealt, match, load>>
  BY DEF SideStep, Adjusts, HandleAdjustProtocolViolations, ClearProtocol, EnactProtocol,
     AimRaid, RecordRaidStart, Console, bounds

LEMMA RoundsAreApart ==
  ASSUME NEW p \in Request, RoundStep(p)
  PROVE  UNCHANGED <<dealt, penalty, raid, load>>
  BY DEF RoundStep, InsertMove, DeleteMove, SaveMaps, SaveFirstSide, BeginRound,
     CloseRounds, FinishMatch, UpdatesRound, HandleUpdateRound, Console, bounds

\* The request that makes a statement.
LEMMA Known ==
  ASSUME Inv, NEW p \in Request
  PROVE  /\ req[p] \in Requests /\ Course(req[p]) /\ Carries(req[p])
         /\ req[p].pc # "idle" => req[p].kind \in load.kinds /\ req[p].ticket <= made
         /\ req[p].kind = "reroll" => req[p].row \in 1..Len(dealt)
         /\ OneJudge => SawBy(req[p])
         /\ TypeOK /\ TablesOK
  BY Serves DEF Inv, Base, TablesOK

-------------------------------------------------------------------------------
(* The moves and the maps of their rounds. *)

\* How a round changes.
LEMMA RoundChanges ==
  ASSUME Inv, NEW p \in Request, NEW n \in Number
  PROVE  /\ BeginRound(p) \/ CloseRounds(p) => round'[n].map = round[n].map
         /\ SaveFirstSide(p) \/ FinishMatch(p) => round'[n] = round[n]
         /\ InsertMove(p) \/ DeleteMove(p) \/ SaveMaps(p) => round'[n].status = round[n].status
<1>1. round[n] \in Rounds /\ round \in [Number -> Rounds]
  BY DEF Inv, Base, TablesOK, TypeOK
<1>2. BeginRound(p) => round'[n].map = round[n].map
  <2> SUFFICES ASSUME BeginRound(p) PROVE round'[n].map = round[n].map
    OBVIOUS
  <2>1. \/ round'[n] = [round[n] EXCEPT !.status = "live"]
        \/ round'[n] = [round[n] EXCEPT !.status = "finished"]
        \/ round'[n] = round[n]
    BY DEF BeginRound
  <2> QED BY <1>1, <2>1 DEF Rounds
<1>3. CloseRounds(p) => round'[n].map = round[n].map
  BY <1>1 DEF CloseRounds, Rounds
<1>4. SaveFirstSide(p) \/ FinishMatch(p) => round'[n] = round[n]
  BY DEF SaveFirstSide, FinishMatch
<1>5. DeleteMove(p) => round'[n].status = round[n].status
  <2> SUFFICES ASSUME DeleteMove(p) PROVE round'[n].status = round[n].status
    OBVIOUS
  <2>1. round'[n] = [round[n] EXCEPT !.map = NoMap] \/ round'[n] = round[n]
    BY Zenon DEF DeleteMove
  <2> QED BY <1>1, <2>1 DEF Rounds
<1>6. SaveMaps(p) => round'[n].status = round[n].status
  BY <1>1 DEF SaveMaps, Rounds
<1>7. InsertMove(p) => round'[n].status = round[n].status
  <2> SUFFICES ASSUME InsertMove(p) PROVE round'[n].status = round[n].status
    OBVIOUS
  <2> DEFINE m == VetoOrder[req[p].count].round
  <2>1. CASE round' = round
    BY <2>1
  <2>2. CASE round' = [round EXCEPT ![m].map = req[p].maps[1]]
    <3> HIDE DEF m
    <3> QED BY <1>1, <2>2 DEF Rounds
  <2> QED BY <2>1, <2>2 DEF InsertMove
<1> QED BY <1>2, <1>3, <1>4, <1>5, <1>6, <1>7

\* A move is put down with the map of its round.
LEMMA InsertedMove ==
  ASSUME Inv, NEW p \in Request, InsertMove(p), ~UNCHANGED <<veto, round>>
  PROVE  LET v == [id |-> req[p].ticket, seq |-> req[p].count, map |-> req[p].maps[1]]
             n == VetoOrder[req[p].count].round
         IN  /\ veto' = veto \cup {v} /\ v.map \in Map /\ v.seq \in 1..Len(VetoOrder)
             /\ v.seq = req[p].count /\ v.id = req[p].ticket
             /\ \A x \in veto : x.seq # v.seq
             /\ n \in 0..TotalRounds
             /\ n # 0 => /\ round'[n].map = v.map
                         /\ \A x \in veto : VetoOrder[x.seq].round # n
             /\ \A k \in Number \ {n} : round'[k] = round[k]
<1> DEFINE v == [id |-> req[p].ticket, seq |-> req[p].count, map |-> req[p].maps[1]]
           n == VetoOrder[req[p].count].round
<1>1. /\ req[p].kind = "veto" /\ req[p].pc = "move" /\ req[p].maps[1] \in Map
      /\ req[p].count \in 1..Len(VetoOrder)
  <2>1. req[p].pc = "move"
    BY DEF InsertMove, At
  <2>2. req[p].kind = "veto"
    BY <2>1, Known DEF Course
  <2>3. req[p].count \in 1..Len(VetoOrder) /\ Len(req[p].maps) = 1
    BY <2>1, <2>2, Known DEF Carries
  <2>4. req[p].maps \in Seq(Map)
    BY Known DEF Requests
  <2>5. req[p].maps[1] \in Map
    BY <2>3, <2>4
  <2> QED BY <2>1, <2>2, <2>3, <2>5
<1>2. /\ \A x \in veto : x.seq # req[p].count
      /\ veto' = veto \cup {v}
      /\ round' = IF n = 0 THEN round ELSE [round EXCEPT ![n].map = req[p].maps[1]]
  BY DEF InsertMove
<1>3. n \in 0..TotalRounds
  BY <1>1, VetoOrderFacts
<1>4. v.map = req[p].maps[1] /\ v.seq = req[p].count /\ v.id = req[p].ticket
  OBVIOUS
<1>5. round \in [Number -> Rounds] /\ \A x \in veto : x.seq \in 1..Len(VetoOrder)
  BY Known DEF TypeOK, TablesOK
<1>6. n # 0 => \A x \in veto : VetoOrder[x.seq].round # n
  BY <1>1, <1>2, <1>5, VetoOrderFacts
<1> HIDE DEF v, n
<1>7. n # 0 => n \in Number
  BY <1>3, RoundsAssumption DEF Number
<1>8. n # 0 => round'[n].map = req[p].maps[1]
  BY <1>2, <1>5, <1>7 DEF Rounds
<1>9. \A k \in Number \ {n} : round'[k] = round[k]
  BY <1>2, <1>5
<1>10. /\ veto' = veto \cup {v} /\ v.map \in Map /\ v.seq \in 1..Len(VetoOrder)
       /\ v.seq = req[p].count /\ v.id = req[p].ticket
       /\ \A x \in veto : x.seq # v.seq
       /\ n \in 0..TotalRounds
       /\ n # 0 => /\ round'[n].map = v.map
                   /\ \A x \in veto : VetoOrder[x.seq].round # n
       /\ \A k \in Number \ {n} : round'[k] = round[k]
  BY <1>1, <1>2, <1>3, <1>4, <1>6, <1>8, <1>9
<1> QED BY <1>10 DEF v, n

\* The maps of the moves for a round.
PickOf(n) == {v.map : v \in {x \in veto : VetoOrder[x.seq].round = n}}

LEMMA PicksStep ==
  ASSUME Inv, PicksAreMaps, [Next]_vars
  PROVE  PicksAreMaps'
<1> SUFFICES ASSUME TotalRounds > 1, load.kinds \subseteq {"veto", "undo", "first", "next"},
                    NEW n \in Number
             PROVE  IF PickOf(n)' = {} THEN round'[n].map = NoMap
                                       ELSE PickOf(n)' = {round'[n].map}
  BY LoadStays DEF PicksAreMaps, PickOf
<1>1. IF PickOf(n) = {} THEN round[n].map = NoMap ELSE PickOf(n) = {round[n].map}
  BY DEF PicksAreMaps, PickOf
<1>2. n # 0
  BY RoundsAssumption DEF Number
<1>3. CASE UNCHANGED <<veto, round>>
  BY <1>1, <1>3 DEF PickOf, VetoOrder
<1>4. ASSUME NEW p \in Request, BeginRound(p) \/ CloseRounds(p) \/ SaveFirstSide(p) \/ FinishMatch(p)
      PROVE  round'[n].map = round[n].map /\ PickOf(n)' = PickOf(n)
  <2>1. veto' = veto
    BY <1>4 DEF BeginRound, CloseRounds, SaveFirstSide, FinishMatch
  <2> QED BY <1>4, <2>1, RoundChanges DEF PickOf, VetoOrder
<1>5. ASSUME NEW p \in Request PROVE ~SaveMaps(p) /\ ~UpdatesRound(p)
  <2>1. SaveMaps(p) => "maps" \in load.kinds
    BY Known DEF SaveMaps, At
  <2>2. UpdatesRound(p) => "patch" \in load.kinds
    BY DEF UpdatesRound, HandleUpdateRound, Console, Takes
  <2> QED BY <2>1, <2>2
<1>6. ASSUME NEW p \in Request, InsertMove(p), ~UNCHANGED <<veto, round>>
      PROVE  IF PickOf(n)' = {} THEN round'[n].map = NoMap ELSE PickOf(n)' = {round'[n].map}
  <2> DEFINE v == [id |-> req[p].ticket, seq |-> req[p].count, map |-> req[p].maps[1]]
             m == VetoOrder[req[p].count].round
  <2>1. /\ veto' = veto \cup {v} /\ v.seq = req[p].count
        /\ m # 0 => /\ round'[m].map = v.map
                    /\ \A x \in veto : VetoOrder[x.seq].round # m
        /\ \A k \in Number \ {m} : round'[k] = round[k]
    BY <1>6, InsertedMove
  <2>2. VetoOrder[v.seq].round = m
    BY <2>1
  <2> HIDE DEF v, m
  <2>3. PickOf(n)' = {x.map : x \in {y \in veto' : VetoOrder[y.seq].round = n}}
    BY DEF PickOf, VetoOrder
  <2>4. CASE m = n
    <3>1. {y \in veto' : VetoOrder[y.seq].round = n} = {v}
      BY <1>2, <2>1, <2>2, <2>4
    <3>2. PickOf(n)' = {v.map} /\ round'[n].map = v.map
      BY <1>2, <2>1, <2>3, <2>4, <3>1
    <3> QED BY <3>2
  <2>5. CASE m # n
    <3>1. {y \in veto' : VetoOrder[y.seq].round = n} = {y \in veto : VetoOrder[y.seq].round = n}
      BY <2>1, <2>2, <2>5
    <3>2. PickOf(n)' = PickOf(n) /\ round'[n] = round[n]
      BY <2>1, <2>3, <2>5, <3>1 DEF PickOf
    <3> QED BY <1>1, <3>2
  <2> QED BY <2>4, <2>5
<1>7. ASSUME NEW p \in Request, DeleteMove(p)
      PROVE  IF PickOf(n)' = {} THEN round'[n].map = NoMap ELSE PickOf(n)' = {round'[n].map}
  <2> DEFINE gone == {v \in veto : v.id \in req[p].seen}
  <2>1. /\ veto' = veto \ gone /\ round[n] \in Rounds
        /\ \A v \in veto : v.seq \in 1..Len(VetoOrder)
        /\ \A v, w \in veto : v.seq = w.seq => v = w
    BY <1>7, Known DEF DeleteMove, TablesOK, TypeOK
  <2>2. round'[n] = IF \E v \in gone : VetoOrder[v.seq].round = n
                    THEN [round[n] EXCEPT !.map = NoMap] ELSE round[n]
    BY <1>7, Zenon DEF DeleteMove
  <2> HIDE DEF gone
  <2>3. PickOf(n)' = {x.map : x \in {y \in veto' : VetoOrder[y.seq].round = n}}
    BY DEF PickOf, VetoOrder
  <2>4. CASE \E v \in gone : VetoOrder[v.seq].round = n
    <3>1. PICK v \in gone : VetoOrder[v.seq].round = n
      BY <2>4
    <3>2. v \in veto
      BY DEF gone
    <3>3. {y \in veto' : VetoOrder[y.seq].round = n} = {}
      BY <1>2, <2>1, <3>1, <3>2, VetoOrderFacts
    <3>4. PickOf(n)' = {}
      BY <2>3, <3>3
    <3>5. round'[n].map = NoMap
      BY <2>1, <2>2, <2>4 DEF Rounds
    <3> QED BY <3>4, <3>5
  <2>5. CASE ~(\E v \in gone : VetoOrder[v.seq].round = n)
    <3>1. {y \in veto' : VetoOrder[y.seq].round = n} = {y \in veto : VetoOrder[y.seq].round = n}
      BY <2>1, <2>5
    <3>2. PickOf(n)' = PickOf(n) /\ round'[n] = round[n]
      BY <2>2, <2>3, <2>5, <3>1 DEF PickOf
    <3> QED BY <1>1, <3>2
  <2> QED BY <2>4, <2>5
<1>8. Quiet => UNCHANGED <<veto, round>>
  BY DEF Quiet, tables
<1> QED BY <1>1, <1>3, <1>4, <1>5, <1>6, <1>7, <1>8, StepKinds, TasksAreApart, SidesAreApart
    DEF RoundStep

\* The last move is one, and the moves before it are the ones that are left.
LEMMA LastGone ==
  ASSUME Inv, OneJudge, VetoInOrder, veto # {}
  PROVE  LET gone == {v \in veto : v.id \in LastMoves} IN
           /\ {v.seq : v \in veto \ gone} = 1..Cardinality(veto \ gone)
<1> DEFINE k    == Cardinality(veto)
           gone == {v \in veto : v.id \in LastMoves}
<1>1. IsFiniteSet(veto) /\ k \in Nat /\ {v.seq : v \in veto} = 1..k
  BY FS_CardinalityType DEF Inv, Base, TablesOK, VetoInOrder
<1>2. k # 0
  BY <1>1, FS_EmptySet
<1>3. PICK w \in veto : w.seq = k
  <2>1. k \in {v.seq : v \in veto}
    BY <1>1, <1>2
  <2> QED BY <2>1
<1>4. \A v \in veto : v.seq \in 1..k
  BY <1>1
<1>5. /\ \A v, x \in veto : v.id = x.id => v = x
      /\ \A v, x \in veto : v.seq = x.seq => v = x
  BY DEF Inv, Base, TablesOK, Judged, TypeOK
<1> HIDE DEF k
<1>6. LastMoves = {w.id}
  <2>1. {v \in veto : \A x \in veto : x.seq <= v.seq} = {w}
    <3>1. \A x \in veto : x.seq <= w.seq
      BY <1>1, <1>3, <1>4
    <3>2. \A v \in veto : (\A x \in veto : x.seq <= v.seq) => v = w
      <4>1. ASSUME NEW v \in veto, \A x \in veto : x.seq <= v.seq PROVE v.seq = w.seq
        BY <1>1, <1>3, <1>4, <4>1
      <4> QED BY <1>5, <4>1
    <3> QED BY <3>1, <3>2
  <2> QED BY <2>1 DEF LastMoves
<1>7. gone = {w}
  BY <1>3, <1>5, <1>6
<1>8. Cardinality(veto \ gone) = k - 1
  BY <1>1, <1>3, <1>7, FS_RemoveElement DEF k
<1>9. {v.seq : v \in veto \ gone} = 1..(k - 1)
  <2>1. ASSUME NEW v \in veto \ gone PROVE v.seq \in 1..(k - 1)
    <3>1. v.seq # k /\ v.seq \in 1..k
      BY <1>3, <1>4, <1>5, <1>7
    <3> QED BY <1>1, <3>1
  <2>2. ASSUME NEW i \in 1..(k - 1) PROVE \E v \in veto \ gone : v.seq = i
    <3>1. i \in {v.seq : v \in veto} /\ i # k
      BY <1>1
    <3> QED BY <1>3, <1>7, <3>1
  <2> QED BY <2>1, <2>2
<1> QED BY <1>8, <1>9

LEMMA OrderStep ==
  ASSUME Inv, VetoInOrder, [Next]_vars
  PROVE  VetoInOrder'
<1> SUFFICES ASSUME OneJudge PROVE {v.seq : v \in veto'} = 1..Cardinality(veto')
  BY LoadStays DEF VetoInOrder, OneJudge
<1>0. IsFiniteSet(veto) /\ Cardinality(veto) \in Nat /\ {v.seq : v \in veto} = 1..Cardinality(veto)
  BY FS_CardinalityType DEF Inv, Base, TablesOK, VetoInOrder
<1>1. CASE veto' = veto
  BY <1>0, <1>1
<1>2. ASSUME NEW p \in Request, InsertMove(p), ~UNCHANGED <<veto, round>>
      PROVE  {v.seq : v \in veto'} = 1..Cardinality(veto')
  <2> DEFINE v == [id |-> req[p].ticket, seq |-> req[p].count, map |-> req[p].maps[1]]
  <2>1. veto' = veto \cup {v} /\ v.seq = req[p].count /\ \A x \in veto : x.seq # v.seq
    BY <1>2, InsertedMove
  <2>2. req[p].count = Cardinality(veto) + 1
    BY <1>2, Known DEF SawBy, InsertMove, At
  <2> HIDE DEF v
  <2>3. Cardinality(veto') = Cardinality(veto) + 1
    BY <1>0, <2>1, FS_AddElement
  <2>4. {x.seq : x \in veto'} = (1..Cardinality(veto)) \cup {Cardinality(veto) + 1}
    BY <1>0, <2>1, <2>2
  <2> QED BY <1>0, <2>3, <2>4
<1>3. ASSUME NEW p \in Request, DeleteMove(p) PROVE {v.seq : v \in veto'} = 1..Cardinality(veto')
  <2>1. req[p].seen = LastMoves
    BY <1>3, Known DEF SawBy, DeleteMove, At
  <2>2. veto' = veto \ {v \in veto : v.id \in LastMoves}
    BY <1>3, <2>1 DEF DeleteMove
  <2>3. CASE veto = {}
    <3>1. veto' = veto
      BY <2>2, <2>3
    <3> QED BY <1>0, <3>1
  <2>4. CASE veto # {}
    BY <2>2, <2>4, LastGone
  <2> QED BY <2>3, <2>4
<1>4. ASSUME NEW p \in Request, SaveMaps(p) PROVE {v.seq : v \in veto'} = 1..Cardinality(veto')
  <2>1. veto' = {} /\ Cardinality({}) = 0
    BY <1>4, FS_EmptySet DEF SaveMaps
  <2> QED BY <2>1
<1>5. \A p \in Request : BeginRound(p) \/ CloseRounds(p) \/ SaveFirstSide(p) \/ FinishMatch(p)
                          \/ UpdatesRound(p) => veto' = veto
  BY DEF BeginRound, CloseRounds, SaveFirstSide, FinishMatch, UpdatesRound, HandleUpdateRound
<1>6. Quiet => veto' = veto
  BY DEF Quiet, tables
<1> QED BY <1>1, <1>2, <1>3, <1>4, <1>5, <1>6, StepKinds, TasksAreApart, SidesAreApart
    DEF RoundStep

-------------------------------------------------------------------------------
(* The rounds in order. *)

NoPatch == OneJudge /\ "patch" \notin load.kinds

LEMMA RoundsStep ==
  ASSUME Inv, RoundsInOrder, [Next]_vars
  PROVE  RoundsInOrder'
<1> SUFFICES ASSUME NoPatch, NEW n \in Number
             PROVE  /\ round'[n].status # "pending" =>
                         /\ round'[n].map # NoMap
                         /\ \A k \in 1..(n - 1) : round'[k].status = "finished"
                    /\ round'[n].status = "live" =>
                         \A k \in Number \ {n} : round'[k].status # "live"
  BY LoadStays DEF RoundsInOrder, OneJudge, NoPatch
<1>0. /\ OneJudge /\ "patch" \notin load.kinds /\ Number = 1..TotalRounds /\ TotalRounds \in 1..3
      /\ \A m \in Number : round[m] \in Rounds
      /\ \A m \in Number : 1..(m - 1) \subseteq Number
  BY RoundsAssumption DEF NoPatch, Number, Inv, Base, TablesOK, TypeOK
<1>1. \A m \in Number :
        /\ round[m].status # "pending" =>
             /\ round[m].map # NoMap
             /\ \A k \in 1..(m - 1) : round[k].status = "finished"
        /\ round[m].status = "live" => \A k \in Number \ {m} : round[k].status # "live"
  BY <1>0 DEF RoundsInOrder
<1>2. CASE round' = round
  BY <1>1, <1>2
<1>3. ASSUME NEW p \in Request, InsertMove(p) \/ DeleteMove(p) \/ SaveMaps(p)
      PROVE  \A k \in Number : round'[k].status = "pending"
  <2>1. req[p].pc \in {"move", "undo", "save"}
    BY <1>3 DEF InsertMove, DeleteMove, SaveMaps, At
  <2>2. ~Started
    BY <1>0, <2>1, Known DEF SawBy
  <2> QED BY <1>3, <2>2, RoundChanges DEF Started
<1>4. ASSUME NEW p \in Request, CloseRounds(p)
      PROVE  \A k \in Number : /\ round'[k].map = round[k].map /\ round'[k].status # "live"
                               /\ round[k].status = "pending" <=> round'[k].status = "pending"
                               /\ round[k].status = "finished" => round'[k].status = "finished"
  <2>1. \A k \in Number : round'[k] = IF round[k].status = "live"
                                      THEN [round[k] EXCEPT !.status = "finished"] ELSE round[k]
    BY <1>4, Zenon DEF CloseRounds
  <2> QED BY <1>0, <2>1 DEF Rounds
<1>5. ASSUME NEW p \in Request, BeginRound(p)
      PROVE  /\ round'[n].status # "pending" =>
                  /\ round'[n].map # NoMap
                  /\ \A k \in 1..(n - 1) : round'[k].status = "finished"
             /\ round'[n].status = "live" =>
                  \A k \in Number \ {n} : round'[k].status # "live"
  <2> DEFINE b == req[p].num
             l == req[p].live
  <2>1. b = NextRound /\ l = LiveRound /\ round[b].map # NoMap /\ b \in Number /\ b # l
    BY <1>0, <1>5, Known DEF SawBy, BeginRound, At, Carries
  <2>2. \A k \in Number :
          /\ k = b => round'[k].status = "live"
          /\ k # b /\ k = l => round'[k].status = "finished"
          /\ k # b /\ k # l => round'[k].status = round[k].status
          /\ round'[k].map = round[k].map
    <3> SUFFICES ASSUME NEW k \in Number
                 PROVE  /\ k = b => round'[k].status = "live"
                        /\ k # b /\ k = l => round'[k].status = "finished"
                        /\ k # b /\ k # l => round'[k].status = round[k].status
                        /\ round'[k].map = round[k].map
      OBVIOUS
    <3>1. round'[k] = CASE k = b -> [round[k] EXCEPT !.status = "live"]
                        [] k = l -> [round[k] EXCEPT !.status = "finished"]
                        [] OTHER -> round[k]
      BY <1>5 DEF BeginRound
    <3> HIDE DEF b, l
    <3> QED BY <1>0, <2>1, <3>1 DEF Rounds
  <2> HIDE DEF b, l
  <2>3. \A k \in 1..(b - 1) : round'[k].status = "finished"
    <3>1. CASE l # 0
      <4>1. l \in Number /\ round[l].status = "live" /\ b = l + 1
        <5>1. l \in 0..TotalRounds /\ round[l].status = "live"
              /\ (l # TotalRounds => b = l + 1) /\ (l = TotalRounds => NextRound = 0)
          BY <2>1, <3>1, RoundFacts, Known DEF NextRound
        <5> QED BY <1>0, <2>1, <3>1, <5>1
      <4>2. \A k \in 1..(l - 1) : round[k].status = "finished"
        BY <1>1, <4>1
      <4>3. ASSUME NEW k \in 1..(b - 1) PROVE round'[k].status = "finished"
        <5>1. k \in Number /\ k # b /\ (k = l \/ k \in 1..(l - 1))
          BY <1>0, <2>1, <4>1
        <5> QED BY <2>2, <4>2, <5>1
      <4> QED BY <4>3
    <3>2. CASE l = 0
      <4>1. \A k \in Number : round[k].status # "live" /\ (round[k].status = "pending" => b <= k)
        BY <1>0, <2>1, <3>2, RoundFacts, Known
      <4>2. ASSUME NEW k \in 1..(b - 1) PROVE round'[k].status = "finished"
        <5>1. k \in Number /\ k # b /\ k # l /\ ~(b <= k)
          BY <1>0, <2>1, <3>2
        <5>2. round[k].status = "finished"
          BY <1>0, <4>1, <5>1 DEF Rounds
        <5> QED BY <2>2, <5>1, <5>2
      <4> QED BY <4>2
    <3> QED BY <3>1, <3>2
  <2>4. \A k \in Number : k > b => round[k].status = "pending"
    <3> SUFFICES ASSUME NEW k \in Number, k > b, round[k].status # "pending" PROVE FALSE
      OBVIOUS
    <3>1. b \in 1..(k - 1)
      BY <1>0, <2>1
    <3>2. round[b].status = "finished" /\ \A j \in 1..(k - 1) : round[j].status = "finished"
      BY <1>1, <3>1
    <3>3. CASE l # 0
      <4>1. l \in Number /\ round[l].status = "live" /\ b = l + 1
        <5>1. l \in 0..TotalRounds /\ round[l].status = "live"
              /\ (l # TotalRounds => b = l + 1) /\ (l = TotalRounds => NextRound = 0)
          BY <2>1, <3>3, RoundFacts, Known DEF NextRound
        <5> QED BY <1>0, <2>1, <3>3, <5>1
      <4>2. l \in 1..(k - 1)
        BY <1>0, <3>1, <4>1
      <4> QED BY <3>2, <4>1, <4>2
    <3>4. CASE l = 0
      BY <1>0, <2>1, <3>2, <3>4, RoundFacts, Known
    <3> QED BY <3>3, <3>4
  <2>5. \A k \in Number : k # b => round'[k].status # "live"
    <3>1. \A k \in Number : round[k].status = "live" => k = l
      <4>1. CASE l # 0
        <5>1. l \in 0..TotalRounds /\ round[l].status = "live"
          BY <2>1, <4>1, RoundFacts, Known
        <5>2. l \in Number
          BY <1>0, <4>1, <5>1
        <5> QED BY <1>1, <5>1, <5>2
      <4>2. CASE l = 0
        BY <2>1, <4>2, RoundFacts, Known
      <4> QED BY <4>1, <4>2
    <3> QED BY <2>2, <3>1
  <2>6. CASE n = b
    BY <2>1, <2>2, <2>3, <2>5, <2>6
  <2>7. CASE n > b
    BY <1>0, <2>1, <2>2, <2>4, <2>5, <2>7, RoundsAssumption, Known, RoundFacts
  <2>8. CASE n < b
    <3>1. n \in 1..(b - 1) /\ \A k \in 1..(n - 1) : k \in 1..(b - 1)
      BY <1>0, <2>1, <2>8
    <3>2. round'[n].status = "finished" /\ \A k \in 1..(n - 1) : round'[k].status = "finished"
      BY <2>3, <3>1
    <3>3. round'[n].map # NoMap
      <4>1. CASE n = l
        BY <1>0, <1>1, <2>1, <2>2, <4>1, <3>1, RoundFacts, Known
      <4>2. CASE n # l
        <5>1. round[n].status = "finished"
          BY <1>0, <2>2, <2>8, <2>1, <3>2, <4>2
        <5> QED BY <1>1, <2>2, <5>1
      <4> QED BY <4>1, <4>2
    <3> QED BY <3>2, <3>3
  <2> QED BY <1>0, <2>1, <2>6, <2>7, <2>8
<1>6. \A p \in Request : SaveFirstSide(p) \/ FinishMatch(p) => round' = round
  BY DEF SaveFirstSide, FinishMatch
<1>7. \A p \in Request : ~UpdatesRound(p)
  BY <1>0 DEF UpdatesRound, HandleUpdateRound, Console, Takes
<1>8. Quiet => round' = round
  BY DEF Quiet, tables
<1>9. CASE \E p \in Request : InsertMove(p) \/ DeleteMove(p) \/ SaveMaps(p)
  BY <1>3, <1>9
<1>10. CASE \E p \in Request : CloseRounds(p)
  BY <1>0, <1>1, <1>4, <1>10
<1> QED BY <1>2, <1>5, <1>6, <1>7, <1>8, <1>9, <1>10, StepKinds, TasksAreApart, SidesAreApart
    DEF RoundStep

\* The moves of the veto are made in order, every pick is the map of its round, and the
\* rounds are played one by one on their maps (VetoMap, VetoUndo, StartNextRound), whatever
\* the requests and in whatever order their statements are made.
THEOREM RouteTheorem == Spec => []RouteIsPlayed
<1> DEFINE R == Inv /\ PicksAreMaps /\ VetoInOrder /\ RoundsInOrder
<1>1. Init => R
  <2> SUFFICES ASSUME Init PROVE R
    OBVIOUS
  <2>1. veto = {} /\ Cardinality(veto) = 0
    BY FS_EmptySet DEF Init
  <2>2. \A n \in Number : round[n].status = "pending" /\ (TotalRounds > 1 => round[n].map = NoMap)
    BY RoundsAssumption DEF Init
  <2>3. PicksAreMaps
    BY <2>1, <2>2 DEF PicksAreMaps
  <2>4. VetoInOrder
    BY <2>1 DEF VetoInOrder
  <2>5. RoundsInOrder
    BY <2>2 DEF RoundsInOrder
  <2> QED BY <2>3, <2>4, <2>5, InitInv
<1>2. R /\ [Next]_vars => R'
  BY NextInv, PicksStep, OrderStep, RoundsStep
<1>3. R => RouteIsPlayed
  BY DEF RouteIsPlayed, Inv, Base, TablesOK
<1> QED BY <1>1, <1>2, <1>3, PTL DEF Spec
-------------------------------------------------------------------------------
(* What is not undone. *)

LEMMA MapsStayStep == ASSUME Inv, [Next]_vars PROVE MapsFixed
<1> SUFFICES ASSUME Started, NoPatch, NEW n \in Number PROVE round'[n].map = round[n].map
  BY DEF MapsFixed, NoPatch
<1>1. \A p \in Request : BeginRound(p) \/ CloseRounds(p) \/ SaveFirstSide(p) \/ FinishMatch(p)
        => round'[n].map = round[n].map
  BY RoundChanges
<1>2. ASSUME NEW p \in Request PROVE ~InsertMove(p) /\ ~DeleteMove(p) /\ ~SaveMaps(p)
  <2>1. req[p].pc \notin {"move", "undo", "save"}
    BY Known DEF SawBy, NoPatch
  <2> QED BY <2>1 DEF InsertMove, DeleteMove, SaveMaps, At
<1>3. \A p \in Request : ~UpdatesRound(p)
  BY DEF NoPatch, UpdatesRound, HandleUpdateRound, Console, Takes
<1>4. Quiet => round' = round
  BY DEF Quiet, tables
<1> QED BY <1>1, <1>2, <1>3, <1>4, StepKinds, TasksAreApart, SidesAreApart DEF RoundStep

\* The steps that put down a task append it, unless the side has it.
LEMMA Appended ==
  ASSUME Inv, NEW p \in Request, PutTask(p) \/ AssignTask(p)
  PROVE  dealt' = dealt \/
         \E a \in Assignments : /\ dealt' = Append(dealt, a)
                                /\ OneJudge => Fresh(a.task)
                                /\ PutTask(p) => /\ a.round = req[p].num
                                                 /\ a.side = SlotSide(req[p])
<1>1. CASE PutTask(p)
  <2> DEFINE a == [round |-> req[p].num, side |-> SlotSide(req[p]), task |-> req[p].task,
                   by |-> NoSide]
  <2>1. req[p].pc = "put" /\ req[p].kind = "next"
    BY <1>1, Known DEF PutTask, At, Course
  <2>2. req[p].num \in Number /\ req[p].task \in Task /\ SlotSide(req[p]) \in Side
    BY <2>1, Known, SlotSideFacts DEF Carries, Begins
  <2>3. OneJudge => Fresh(req[p].task)
    BY <2>1, Known DEF SawBy
  <2>4. dealt' = dealt \/ dealt' = Append(dealt, a)
    BY <1>1 DEF PutTask, PutRow
  <2>5. a \in Assignments /\ a.task = req[p].task /\ a.round = req[p].num
        /\ a.side = SlotSide(req[p])
    BY <2>2 DEF Assignments
  <2> HIDE DEF a
  <2> QED BY <2>3, <2>4, <2>5
<1>2. CASE AssignTask(p)
  <2> DEFINE a == [round |-> req[p].num, side |-> req[p].side, task |-> req[p].todo[1],
                   by |-> NoSide]
  <2>1. req[p].pc = "assign" /\ req[p].kind \in {"assign", "contracts"}
    BY <1>2, Known DEF AssignTask, At, Course
  <2>2. req[p].num \in Number /\ req[p].side \in Side /\ req[p].todo[1] \in Task
    <3>1. req[p].todo \in Seq(Task) /\ req[p].todo # <<>>
      BY <2>1, Known DEF Carries, Requests
    <3>2. Len(req[p].todo) \in Nat \ {0}
      BY <3>1, EmptySeq
    <3> QED BY <2>1, <3>1, <3>2, Known DEF Carries
  <2>3. OneJudge => Fresh(req[p].todo[1])
    BY <2>1, Known DEF SawBy
  <2>4. dealt' = dealt \/ dealt' = Append(dealt, a)
    BY <1>2 DEF AssignTask, PutRow
  <2>5. a \in Assignments /\ a.task = req[p].todo[1]
    BY <2>2 DEF Assignments
  <2>6. ~PutTask(p)
    BY <2>1 DEF PutTask, At
  <2> HIDE DEF a
  <2> QED BY <2>3, <2>4, <2>5, <2>6
<1> QED BY <1>1, <1>2

\* A task is dealt again in its row.
LEMMA Swapped ==
  ASSUME Inv, NEW p \in Request, SwapTask(p)
  PROVE  dealt' = dealt \/
         \E i \in 1..Len(dealt), a \in Assignments :
            /\ dealt' = [dealt EXCEPT ![i] = a] /\ a = [dealt[i] EXCEPT !.task = req[p].task]
            /\ OneJudge => Fresh(a.task) /\ dealt[i].by = NoSide
<1> DEFINE i == req[p].row
           a == [dealt[i] EXCEPT !.task = req[p].task]
<1>1. req[p].pc = "swap" /\ req[p].kind = "reroll" /\ req[p].task \in Task
  BY Known DEF SwapTask, At, Course, Carries
<1>2. i \in 1..Len(dealt) /\ (OneJudge => Fresh(req[p].task) /\ dealt[i].by = NoSide)
  BY <1>1, Known DEF SawBy
<1>3. dealt[i] \in Assignments
  BY <1>2, Known DEF TypeOK
<1>4. a \in Assignments /\ a.task = req[p].task
  BY <1>1, <1>3 DEF Assignments
<1>5. dealt' = dealt \/ dealt' = [dealt EXCEPT ![i] = a]
  BY DEF SwapTask
<1> QED BY <1>2, <1>4, <1>5

\* A task is marked or taken off in its row.
LEMMA Marked ==
  ASSUME Inv, NEW p \in Request, MarksTask(p) \/ RemovesTask(p)
  PROVE  \E i \in 1..Len(dealt), a \in Assignments :
            /\ dealt' = [dealt EXCEPT ![i] = a]
            /\ a.round = dealt[i].round /\ a.side = dealt[i].side
            /\ \/ a.task = dealt[i].task /\ MarksTask(p)
               \/ a.task = NoTask /\ a.by = NoSide /\ RemovesTask(p)
<1>0. \A i \in 1..Len(dealt) : dealt[i] \in Assignments
  BY Known DEF TypeOK
<1>1. CASE MarksTask(p)
  <2>1. PICK i \in 1..Len(dealt), s \in Side \cup {NoSide} : HandleMarkTask(p, i, s)
    BY <1>1 DEF MarksTask
  <2> DEFINE a == [dealt[i] EXCEPT !.by = s]
  <2>2. a \in Assignments /\ a.task = dealt[i].task /\ a.round = dealt[i].round
        /\ a.side = dealt[i].side
    BY <1>0 DEF Assignments
  <2>3. dealt' = [dealt EXCEPT ![i] = a]
    BY <2>1 DEF HandleMarkTask
  <2> QED BY <1>1, <2>2, <2>3
<1>2. CASE RemovesTask(p)
  <2>1. PICK i \in 1..Len(dealt) : HandleRemoveBonusTask(p, i)
    BY <1>2 DEF RemovesTask
  <2> DEFINE a == [dealt[i] EXCEPT !.task = NoTask, !.by = NoSide]
  <2>2. a \in Assignments /\ a.task = NoTask /\ a.by = NoSide /\ a.round = dealt[i].round
        /\ a.side = dealt[i].side
    BY <1>0 DEF Assignments
  <2>3. dealt' = [dealt EXCEPT ![i] = a]
    BY <2>1 DEF HandleRemoveBonusTask
  <2> QED BY <1>2, <2>2, <2>3
<1> QED BY <1>1, <1>2

LEMMA DoneStaysStep == ASSUME Inv, [Next]_vars PROVE DoneIsKept
<1> SUFFICES ASSUME OneJudge, NEW i \in 1..Len(dealt), dealt[i].by # NoSide, dealt'[i].by # NoSide
             PROVE  dealt'[i].task = dealt[i].task
  BY DEF DoneIsKept
<1>0. dealt \in Seq(Assignments)
  BY DEF Inv, Base, TablesOK, TypeOK
<1>1. ASSUME NEW p \in Request, PutTask(p) \/ AssignTask(p) PROVE dealt'[i].task = dealt[i].task
  BY <1>0, <1>1, Appended
<1>2. ASSUME NEW p \in Request, SwapTask(p) PROVE dealt'[i].task = dealt[i].task
  <2>1. dealt' = dealt \/
        \E x \in 1..Len(dealt), a \in Assignments :
          dealt' = [dealt EXCEPT ![x] = a] /\ dealt[x].by = NoSide
    BY <1>2, Swapped, Zenon
  <2> QED BY <1>0, <2>1
<1>3. ASSUME NEW p \in Request, MarksTask(p) \/ RemovesTask(p)
      PROVE  dealt'[i].task = dealt[i].task
  <2>1. \E x \in 1..Len(dealt), a \in Assignments :
          /\ dealt' = [dealt EXCEPT ![x] = a]
          /\ a.task = dealt[x].task \/ a.by = NoSide
    BY <1>3, Marked, Zenon
  <2> QED BY <1>0, <2>1
<1>4. Quiet => dealt' = dealt
  BY DEF Quiet, tables
<1> QED BY <1>1, <1>2, <1>3, <1>4, StepKinds, RoundsAreApart, SidesAreApart DEF TaskStep

LEMMA FinishedStaysStep == ASSUME Inv, [Next]_vars PROVE FinishedStays
<1> SUFFICES ASSUME OneJudge, match = "finished" PROVE match' = "finished"
  BY DEF FinishedStays
<1>1. \A p \in Request : ~BeginRound(p)
  <2> SUFFICES ASSUME NEW p \in Request, BeginRound(p) PROVE FALSE
    OBVIOUS
  <2>1. req[p].pc = "begin" /\ req[p].kind = "next"
    BY Known DEF BeginRound, At, Course
  <2> QED BY <2>1, Known DEF SawBy
<1>2. \A p \in Request : RoundStep(p) /\ ~BeginRound(p) => match' = match \/ match' = "finished"
  BY DEF RoundStep, InsertMove, DeleteMove, SaveMaps, SaveFirstSide, CloseRounds, FinishMatch,
     UpdatesRound, HandleUpdateRound
<1>3. Quiet => match' = match
  BY DEF Quiet, tables
<1> QED BY <1>1, <1>2, <1>3, StepKinds, TasksAreApart, SidesAreApart

\* The requests of the rounds do not undo what was decided: the maps once play began, a
\* task that was done, the end of the match (roundsStarted, handleRerollTask, matchGuard).
THEOREM KeptTheorem == Spec => NothingUndone
<1>1. Inv /\ [Next]_vars => [MapsFixed /\ DoneIsKept /\ FinishedStays]_vars
  BY MapsStayStep, DoneStaysStep, FinishedStaysStep
<1> QED BY <1>1, InvTheorem, PTL DEF Spec, NothingUndone

-------------------------------------------------------------------------------
(* The tasks of a match. *)

LEMMA TasksStep == ASSUME Inv, TasksOnce, [Next]_vars PROVE TasksOnce'
<1> SUFFICES ASSUME OneJudge, NEW i \in 1..Len(dealt'), NEW j \in 1..Len(dealt'),
                    dealt'[i].task # NoTask, dealt'[i].task = dealt'[j].task
             PROVE  i = j
  BY LoadStays DEF TasksOnce, OneJudge
<1>0. dealt \in Seq(Assignments) /\ NoTask \notin Task
  BY ConstantFacts DEF Inv, Base, TablesOK, TypeOK
<1>1. \A x, y \in 1..Len(dealt) : dealt[x].task # NoTask /\ dealt[x].task = dealt[y].task => x = y
  BY DEF TasksOnce
<1>2. CASE dealt' = dealt
  BY <1>1, <1>2
<1>3. ASSUME NEW p \in Request, PutTask(p) \/ AssignTask(p), dealt' # dealt PROVE i = j
  <2>1. PICK a \in Assignments : dealt' = Append(dealt, a) /\ Fresh(a.task)
    BY <1>3, Appended
  <2>2. \A x \in 1..Len(dealt') : IF x = Len(dealt) + 1 THEN dealt'[x] = a
                                  ELSE x \in 1..Len(dealt) /\ dealt'[x] = dealt[x]
    BY <1>0, <2>1
  <2> QED BY <1>0, <1>1, <2>1, <2>2 DEF Fresh
<1>4. ASSUME NEW p \in Request, SwapTask(p), dealt' # dealt PROVE i = j
  <2>1. PICK x \in 1..Len(dealt), a \in Assignments :
          dealt' = [dealt EXCEPT ![x] = a] /\ Fresh(a.task)
    BY <1>4, Swapped
  <2>2. Len(dealt') = Len(dealt) /\ \A y \in 1..Len(dealt) : dealt'[y] = IF y = x THEN a ELSE dealt[y]
    BY <1>0, <2>1
  <2> QED BY <1>0, <1>1, <2>1, <2>2 DEF Fresh
<1>5. ASSUME NEW p \in Request, MarksTask(p) \/ RemovesTask(p) PROVE i = j
  <2>1. PICK x \in 1..Len(dealt), a \in Assignments :
          dealt' = [dealt EXCEPT ![x] = a] /\ (a.task = dealt[x].task \/ a.task = NoTask)
    BY <1>5, Marked
  <2>2. Len(dealt') = Len(dealt) /\ \A y \in 1..Len(dealt) : dealt'[y] = IF y = x THEN a ELSE dealt[y]
    BY <1>0, <2>1
  <2> QED BY <1>0, <1>1, <2>1, <2>2
<1>6. Quiet => dealt' = dealt
  BY DEF Quiet, tables
<1> QED BY <1>2, <1>3, <1>4, <1>5, <1>6, StepKinds, RoundsAreApart, SidesAreApart DEF TaskStep

\* No task comes up twice in a match of one judge, however it is dealt, by hand or again
\* (DealRoundTasks, AssignBonusTask, handleRerollTask).
THEOREM OnceTheorem == Spec => []TasksOnce
<1>1. Init => Inv /\ TasksOnce
  BY InitInv DEF Init, TasksOnce
<1>2. Inv /\ TasksOnce /\ [Next]_vars => (Inv /\ TasksOnce)'
  BY NextInv, TasksStep
<1> QED BY <1>1, <1>2, PTL DEF Spec

-------------------------------------------------------------------------------
(* The protocols. *)

LEMMA ProtocolStep == ASSUME Inv, OneProtocol, [Next]_vars PROVE OneProtocol'
<1> SUFFICES ASSUME OneJudge PROVE \A x, y \in penalty' :
               x # y /\ x.round = y.round => x.side # y.side /\ x.protocol # y.protocol
  BY LoadStays DEF OneProtocol, OneJudge
<1>0. /\ \A x, y \in penalty :
           x # y /\ x.round = y.round => x.side # y.side /\ x.protocol # y.protocol
      /\ penalty \subseteq Penalties
  BY DEF OneProtocol, Inv, Base, TablesOK, TypeOK
<1>1. CASE penalty' \subseteq penalty
  BY <1>0, <1>1
<1>2. ASSUME NEW p \in Request, Adjusts(p)
      PROVE  \A x, y \in penalty' :
               x # y /\ x.round = y.round => x.side # y.side /\ x.protocol # y.protocol
  <2>1. PICK n \in Number, s \in Side, d \in {1, -1} : HandleAdjustProtocolViolations(p, n, s, d)
    BY <1>2 DEF Adjusts
  <2> DEFINE most(a) == IF a < 0 THEN 0 ELSE a
             new(x)  == IF x.round = n /\ x.side = s THEN [x EXCEPT !.times = most(@ + d)] ELSE x
  <2>2. penalty' = {new(x) : x \in penalty}
    BY <2>1 DEF HandleAdjustProtocolViolations
  <2>3. \A x \in penalty : /\ new(x).round = x.round /\ new(x).side = x.side
                           /\ new(x).protocol = x.protocol
    <3> HIDE DEF most
    <3> QED BY <1>0 DEF Penalties
  <2> HIDE DEF new
  <2> QED BY <1>0, <2>2, <2>3
<1>3. ASSUME NEW p \in Request, ClearProtocol(p) PROVE penalty' \subseteq penalty
  BY <1>3 DEF ClearProtocol
<1>4. ASSUME NEW p \in Request, EnactProtocol(p), ~(penalty' \subseteq penalty)
      PROVE  \A x, y \in penalty' :
               x # y /\ x.round = y.round => x.side # y.side /\ x.protocol # y.protocol
  <2> DEFINE a    == [round |-> req[p].num, side |-> req[p].side,
                      protocol |-> req[p].protocol, times |-> 0]
             left == {x \in penalty : ~(x.round = req[p].num /\ x.side = req[p].side
                                        /\ x.protocol \in req[p].seen)}
  <2>1. req[p].pc = "enact" /\ req[p].protocol \in Protocol
    BY <1>4, Known DEF EnactProtocol, At, Carries
  <2>2. /\ req[p].seen = Mine(req[p].num, req[p].side)
        /\ \A x \in penalty : x.round = req[p].num /\ x.protocol = req[p].protocol
                                => x.side = req[p].side
    BY <2>1, Known, ConstantFacts DEF SawBy
  <2>3. penalty' = left \cup {a}
    BY <1>4 DEF EnactProtocol
  <2>4. \A x \in left : x \in penalty /\ ~(x.round = req[p].num /\ x.side = req[p].side)
    BY <2>2 DEF Mine
  <2>5. a.round = req[p].num /\ a.side = req[p].side /\ a.protocol = req[p].protocol
    OBVIOUS
  <2> HIDE DEF a, left
  <2> QED BY <1>0, <2>2, <2>3, <2>4, <2>5
<1>5. Quiet => penalty' = penalty
  BY DEF Quiet, tables
<1>6. ASSUME NEW p \in Request, AimRaid(p) \/ RecordRaidStart(p) PROVE penalty' = penalty
  BY <1>6 DEF AimRaid, RecordRaidStart
<1> QED BY <1>1, <1>2, <1>3, <1>4, <1>5, <1>6, StepKinds, RoundsAreApart, TasksAreApart
    DEF SideStep
-------------------------------------------------------------------------------
(* Who begins a round or a raid. *)

\* The statements that bring a request to one of them or on from it.
Plays(p) == \/ BeginRound(p) \/ LookDealt(p) \/ PickTask(p) \/ PutTask(p)
            \/ ReadRaid(p) \/ AimRaid(p)

LEMMA ConsolesCome ==
  ASSUME NEW p \in Request, MarksTask(p) \/ RemovesTask(p) \/ UpdatesRound(p) \/ Adjusts(p)
  PROVE  Comes(p)
<1>1. req' = req /\ req[p].pc = "idle"
  BY DEF MarksTask, RemovesTask, UpdatesRound, Adjusts, HandleMarkTask, HandleRemoveBonusTask,
     HandleUpdateRound, HandleAdjustProtocolViolations, Console, Takes, At
<1> QED BY <1>1 DEF Comes, Others, Playing

LEMMA WhoPlays ==
  ASSUME Inv, NEW p \in Request, Arrives(p) \/ Proceeds(p) \/ ClientGone(p)
  PROVE  Plays(p) \/ Comes(p)
<1>1. CASE Arrives(p)
  BY <1>1, AsksInv, ConsolesCome DEF Arrives, Asks, MarksTask, RemovesTask, UpdatesRound, Adjusts
<1>2. CASE Proceeds(p)
  BY <1>2, RoundsStartedInv, CountMovesInv, InsertMoveInv, FindLastMoveInv, DeleteMoveInv,
     SaveMapsInv, SaveFirstSideInv, ReadRoundsInv, RecordRaidStartInv, ReadAssignmentInv,
     PickOtherInv, SwapTaskInv, DrawContractsInv, LookDuplicateInv, AssignTaskInv, LookTakenInv,
     ClearProtocolInv, EnactProtocolInv, CloseRoundsInv, FinishMatchInv DEF Proceeds, Plays
<1>3. CASE ClientGone(p)
  BY <1>3, ClientGoneInv
<1> QED BY <1>1, <1>2, <1>3

\* A request that arrives is alone; one that is served makes the statement it is at.
LEMMA ArrivesTakes == ASSUME NEW p \in Request, Arrives(p) PROVE \E kind : Takes(p, kind)
  BY Zenon DEF Arrives, HandleVeto, HandleVetoUndo, HandleNextRound, HandleFinishMatch,
     HandleSetMatchMaps, HandleFirstSide, HandleMatchFocus, HandleRerollTask, HandleSetProtocol,
     HandleAssignBonusTask, HandleDealContracts, HandleMarkTask, HandleRemoveBonusTask,
     HandleUpdateRound, HandleAdjustProtocolViolations, Ask, Accept, Console

LEMMA WhoIsAt ==
  ASSUME NEW p \in Request, Proceeds(p)
  PROVE  /\ req[p].pc # "idle"
         /\ req[p].pc = "raid"  => RecordRaidStart(p)
         /\ req[p].pc = "dealt" => LookDealt(p)
         /\ req[p].pc = "pick"  => PickTask(p)
         /\ req[p].pc = "put"   => PutTask(p)
  BY DEF Proceeds, At, RoundsStarted, CountMoves, InsertMove, FindLastMove, DeleteMove, SaveMaps,
     SaveFirstSide, ReadRounds, BeginRound, LookDealt, PickTask, PutTask, ReadRaid, AimRaid,
     RecordRaidStart, ReadAssignment, PickOther, SwapTask, DrawContracts, LookDuplicate,
     AssignTask, LookTaken, ClearProtocol, EnactProtocol, CloseRounds, FinishMatch

\* The steps of one judge whose clients stay: the others are idle before and after.
LEMMA StepOfOne ==
  ASSUME Inv, OneJudge, load.gone = 0, [Next]_vars
  PROVE  \/ UNCHANGED <<tables, req, load>>
         \/ \E p \in Request :
              /\ Arrives(p) \/ Proceeds(p)
              /\ Plays(p) \/ Comes(p)
              /\ \A q \in Request \ {p} : req[q].pc = "idle" /\ req'[q].pc = "idle"
              /\ req[p].pc = "raid"  => RecordRaidStart(p)
              /\ req[p].pc = "dealt" => LookDealt(p)
              /\ req[p].pc = "pick"  => PickTask(p)
              /\ req[p].pc = "put"   => PutTask(p)
<1>1. CASE UNCHANGED vars
  BY <1>1 DEF vars, bounds
<1>2. \A p \in Request : ~ClientGone(p)
  BY DEF ClientGone, Inv, Base, TablesOK
<1>3. ASSUME NEW p \in Request, Arrives(p) \/ Proceeds(p)
      PROVE  /\ Plays(p) \/ Comes(p)
             /\ \A q \in Request \ {p} : req[q].pc = "idle" /\ req'[q].pc = "idle"
             /\ req[p].pc = "raid"  => RecordRaidStart(p)
             /\ req[p].pc = "dealt" => LookDealt(p)
             /\ req[p].pc = "pick"  => PickTask(p)
             /\ req[p].pc = "put"   => PutTask(p)
  <2>1. Plays(p) \/ Comes(p)
    BY <1>3, WhoPlays
  <2>2. Others(p)
    BY <2>1, BeginRoundInv, LookDealtInv, PickTaskInv, PutTaskInv, ReadRaidInv, AimRaidInv
       DEF Plays, Comes
  <2>3. CASE Arrives(p)
    <3>1. \A q \in Request : req[q].pc = "idle"
      BY <2>3, ArrivesTakes, NoneServed
    <3> QED BY <2>1, <2>2, <3>1 DEF Others
  <2>4. CASE Proceeds(p)
    <3>1. \A q \in Request \ {p} : req[q].pc = "idle"
      BY <2>4, WhoIsAt DEF Inv, Judged, OneServed, At
    <3> QED BY <2>1, <2>2, <2>4, <3>1, WhoIsAt DEF Others
  <2> QED BY <1>3, <2>3, <2>4
<1>4. CASE Next
  BY <1>2, <1>3, <1>4, Zenon DEF Next
<1> QED BY <1>1, <1>4

\* Rounds change their status when one begins or the match ends.
LEMMA StatusStays ==
  ASSUME Inv, "patch" \notin load.kinds, NEW p \in Request, Arrives(p) \/ Proceeds(p),
         ~BeginRound(p), ~CloseRounds(p)
  PROVE  \A n \in Number : round'[n].status = round[n].status
<1>1. ~UpdatesRound(p)
  BY DEF UpdatesRound, HandleUpdateRound, Console, Takes
<1>2. Quiet => round' = round
  BY DEF Quiet, tables
<1> QED BY <1>1, <1>2, StepKind, TasksAreApart, SidesAreApart, RoundChanges DEF RoundStep

\* A round begins that was not begun, on the end of the one before.
LEMMA BeginsPending ==
  ASSUME Inv, NoPatch, RoundsInOrder, NEW p \in Request, BeginRound(p)
  PROVE  /\ req[p].num \in Number /\ round[req[p].num].status = "pending"
         /\ \A n \in Number : /\ n = req[p].num => round'[n].status = "live"
                              /\ n # req[p].num =>
                                   /\ round'[n].status # "live"
                                   /\ round'[n].status = "pending" <=> round[n].status = "pending"
<1> DEFINE b == req[p].num
           l == req[p].live
<1>0. /\ OneJudge /\ "patch" \notin load.kinds /\ Number = 1..TotalRounds /\ TotalRounds \in 1..3
      /\ TypeOK /\ \A m \in Number : round[m] \in Rounds
  BY RoundsAssumption DEF NoPatch, Number, Inv, Base, TablesOK, TypeOK
<1>1. b = NextRound /\ l = LiveRound /\ b \in Number /\ b # l
  BY <1>0, Known DEF SawBy, BeginRound, At, Carries
<1>2. \A m \in Number :
        /\ round[m].status # "pending" => \A k \in 1..(m - 1) : round[k].status = "finished"
        /\ round[m].status = "live" => \A k \in Number \ {m} : round[k].status # "live"
  BY <1>0 DEF RoundsInOrder
<1>3. ASSUME NEW k \in Number
      PROVE  /\ k = b => round'[k].status = "live"
             /\ k # b /\ k = l => round'[k].status = "finished"
             /\ k # b /\ k # l => round'[k].status = round[k].status
  <2>1. round'[k] = CASE k = b -> [round[k] EXCEPT !.status = "live"]
                      [] k = l -> [round[k] EXCEPT !.status = "finished"]
                      [] OTHER -> round[k]
    BY DEF BeginRound
  <2> HIDE DEF b, l
  <2> QED BY <1>0, <1>1, <2>1 DEF Rounds
<1> HIDE DEF b, l
<1>4. l # 0 => l \in Number /\ round[l].status = "live" /\ b = l + 1
  <2> SUFFICES ASSUME l # 0 PROVE l \in Number /\ round[l].status = "live" /\ b = l + 1
    OBVIOUS
  <2>1. l \in 0..TotalRounds /\ round[l].status = "live" /\ (l # TotalRounds => b = l + 1)
    BY <1>0, <1>1, RoundFacts
  <2>2. l # TotalRounds
    BY <1>0, <1>1 DEF NextRound
  <2> QED BY <1>0, <2>1, <2>2
<1>5. \A k \in Number : round[k].status = "live" => k = l
  <2>1. CASE l # 0
    BY <1>2, <1>4, <2>1
  <2>2. CASE l = 0
    BY <1>0, <1>1, <2>2, RoundFacts
  <2> QED BY <2>1, <2>2
<1>6. round[b].status = "pending"
  <2>1. CASE l # 0
    <3>1. l \in 1..(b - 1)
      BY <1>0, <1>1, <1>4, <2>1
    <3> QED BY <1>1, <1>2, <1>4, <2>1, <3>1
  <2>2. CASE l = 0
    BY <1>0, <1>1, <2>2, RoundFacts DEF Number
  <2> QED BY <2>1, <2>2
<1>7. \A n \in Number : n # b => /\ round'[n].status # "live"
                                 /\ round'[n].status = "pending" <=> round[n].status = "pending"
  <2> SUFFICES ASSUME NEW n \in Number, n # b
               PROVE  /\ round'[n].status # "live"
                      /\ round'[n].status = "pending" <=> round[n].status = "pending"
    OBVIOUS
  <2>1. CASE n = l
    <3>1. round[n].status = "live"
      BY <1>0, <1>4, <2>1
    <3> QED BY <1>3, <2>1, <3>1
  <2>2. CASE n # l
    BY <1>3, <1>5, <2>2
  <2> QED BY <2>1, <2>2
<1> QED BY <1>1, <1>3, <1>6, <1>7 DEF b

-------------------------------------------------------------------------------
(* The raids. *)

Raided(n) == \E i \in 1..Len(raid.starts) : raid.starts[i][1] = n
LastRaid  == raid.starts[Len(raid.starts)]
LastLive  == Len(raid.starts) > 0 /\ round[LastRaid[1]].status = "live"
ToRecord(r) == r.kind = "focus" /\ r.pc = "raid"

\* What a request that begins a raid knows of the raids before.
RaidOf(r) ==
  /\ r.kind = "focus" /\ r.pc = "aim" => (r.count = 1 <=> raid.side = r.side)
  /\ ToRecord(r) => raid.side = r.side /\ (LastLive => LastRaid[2] # r.side)
  /\ Begins(r) => ~Raided(r.num)
  /\ r.kind = "next" /\ r.pc = "raid" => raid.side = r.side

Raids ==
  /\ \A i \in 1..(Len(raid.starts) - 1) : raid.starts[i] # raid.starts[i + 1]
  /\ \A i \in 1..Len(raid.starts) : round[raid.starts[i][1]].status # "pending"
  /\ \A p \in Request : RaidOf(req[p])
  /\ LastLive /\ (\A p \in Request : ~ToRecord(req[p])) => LastRaid[2] = raid.side

RaidInv == NoPatch /\ load.gone = 0 => Raids

\* No raid is recorded and nobody is at it.
LEMMA RaidsGoOn ==
  ASSUME Inv, Raids, NEW p \in Request, raid'.starts = raid.starts,
         \A q \in Request \ {p} : req'[q].pc = "idle",
         \A n \in Number : round'[n].status = "pending" => round[n].status = "pending",
         \A n \in Number : round'[n].status = "live" => round[n].status = "live" \/ ~Raided(n),
         RaidOf(req[p])' ,
         LastLive' /\ ~ToRecord(req'[p]) => LastRaid[2] = raid'.side
  PROVE  Raids'
<1>0. raid.starts \in Seq(Number \X Side)
  BY DEF Inv, Base, TablesOK
<1>1. \A i \in 1..(Len(raid'.starts) - 1) : raid'.starts[i] # raid'.starts[i + 1]
  BY DEF Raids
<1>2. \A i \in 1..Len(raid'.starts) : round'[raid'.starts[i][1]].status # "pending"
  <2>1. \A i \in 1..Len(raid.starts) : raid.starts[i][1] \in Number
    BY <1>0
  <2> QED BY <2>1 DEF Raids
<1>3. ASSUME NEW q \in Request PROVE RaidOf(req[q])'
  <2>1. CASE q = p
    BY <2>1
  <2>2. CASE q # p
    <3>1. req'[q].pc = "idle"
      BY <2>2
    <3> QED BY <3>1 DEF RaidOf, ToRecord, Begins
  <2> QED BY <2>1, <2>2
<1>4. LastLive' /\ (\A q \in Request : ~ToRecord(req'[q])) => LastRaid'[2] = raid'.side
  BY DEF LastRaid
<1> QED BY <1>1, <1>2, <1>3, <1>4 DEF Raids, ToRecord

LEMMA RaidStep == ASSUME Inv, RoundsInOrder, RaidInv, [Next]_vars PROVE RaidInv'
<1> SUFFICES ASSUME NoPatch, load.gone = 0 PROVE Raids'
  BY LoadStays DEF RaidInv, NoPatch, OneJudge
<1>0. /\ Raids /\ OneJudge /\ "patch" \notin load.kinds /\ TypeOK
      /\ raid \in [side : Side \cup {NoSide}, starts : Seq(Number \X Side)]
  BY DEF RaidInv, NoPatch, Inv, Base, TablesOK
<1>1. \A i \in 1..Len(raid.starts) : raid.starts[i] \in Number \X Side
  BY <1>0
<1>2. \A n, k \in Number : round[n].status = "live" /\ round[k].status = "live" => n = k
  BY <1>0 DEF RoundsInOrder
<1>3. LastLive => LastRaid[1] \in Number /\ Raided(LastRaid[1])
  <2>1. Len(raid.starts) \in Nat
    BY <1>0
  <2>2. Len(raid.starts) > 0 => Len(raid.starts) \in 1..Len(raid.starts)
    BY <2>1
  <2> QED BY <1>1, <2>2 DEF LastLive, LastRaid, Raided
<1>4. CASE UNCHANGED <<tables, req, load>>
  BY <1>0, <1>4 DEF Raids, RaidOf, ToRecord, LastLive, LastRaid, Raided, Begins, tables
<1>5. ASSUME NEW p \in Request, Arrives(p) \/ Proceeds(p), Plays(p) \/ Comes(p),
             \A q \in Request \ {p} : req[q].pc = "idle" /\ req'[q].pc = "idle",
             req[p].pc = "raid" => RecordRaidStart(p)
      PROVE  Raids'
  <2>0. \A q \in Request \ {p} : req'[q].pc = "idle"
    BY <1>5
  <2>1. /\ RaidOf(req[p])
        /\ LastLive /\ ~ToRecord(req[p]) => LastRaid[2] = raid.side
    <3>1. \A q \in Request \ {p} : ~ToRecord(req[q])
      BY <1>5 DEF ToRecord
    <3> QED BY <1>0, <3>1 DEF Raids
  <2>2. Comes(p) => RaidOf(req[p])' /\ ~ToRecord(req'[p])
    BY DEF Comes, RaidOf, ToRecord, Playing, Begins
  <2>3. CASE RecordRaidStart(p)
    <3> DEFINE live == {n \in Number : round[n].status = "live"}
               s    == req[p].side
               m    == Min(live)
    <3>1. req[p].pc = "raid" /\ s \in Side /\ req[p].kind \in {"next", "focus"}
      BY <2>3, Known DEF RecordRaidStart, At, Carries, Course
    <3>2. Comes(p) /\ RaidOf(req[p])' /\ ~ToRecord(req'[p])
      BY <2>2, <2>3, RecordRaidStartInv
    <3>3. round' = round
      BY <2>3 DEF RecordRaidStart
    <3>4. CASE live = {}
      <4>1. raid' = raid
        BY <2>3, <3>4 DEF RecordRaidStart
      <4>2. ~LastLive'
        BY <1>3, <3>3, <3>4, <4>1 DEF LastLive, LastRaid
      <4> QED BY <1>0, <2>0, <3>2, <3>3, <4>1, <4>2, RaidsGoOn
    <3>5. CASE live # {}
      <4>1. m \in Number /\ round[m].status = "live"
        <5>1. live \in SUBSET (1..3)
          BY ConstantFacts
        <5>2. m \in live
          <6> HIDE DEF live
          <6> QED BY <3>5, <5>1, EndsOfShort
        <5> QED BY <5>2
      <4>2. raid' = [raid EXCEPT !.starts = Append(@, <<m, s>>)]
        BY <2>3, <3>5 DEF RecordRaidStart
      <4> HIDE DEF live, m
      <4> DEFINE L == Len(raid.starts)
      <4>3. /\ L \in Nat /\ Len(raid'.starts) = L + 1 /\ raid'.side = raid.side
            /\ \A i \in 1..L : raid'.starts[i] = raid.starts[i]
            /\ raid'.starts[L + 1] = <<m, s>>
        BY <1>0, <3>1, <4>1, <4>2
      <4>4. L > 0 => raid.starts[L] # <<m, s>>
        <5> SUFFICES ASSUME L > 0, raid.starts[L] = <<m, s>> PROVE FALSE
          OBVIOUS
        <5>1. LastRaid[1] = m /\ LastRaid[2] = s
          BY DEF LastRaid
        <5>2. LastLive
          BY <4>1, <5>1 DEF LastLive
        <5>3. CASE req[p].kind = "focus"
          BY <2>1, <3>1, <5>1, <5>2, <5>3 DEF RaidOf, ToRecord
        <5>4. CASE req[p].kind = "next"
          <6>1. Begins(req[p])
            BY <3>1, <5>4 DEF Begins
          <6>2. req[p].num \in Number /\ round[req[p].num].status = "live"
            BY <1>0, <6>1, Known DEF Carries, SawBy
          <6>3. req[p].num = m
            BY <1>2, <4>1, <6>2
          <6> QED BY <1>3, <2>1, <5>1, <5>2, <6>1, <6>3 DEF RaidOf
        <5> QED BY <3>1, <5>3, <5>4
      <4>5. \A i \in 1..(Len(raid'.starts) - 1) : raid'.starts[i] # raid'.starts[i + 1]
        <5> SUFFICES ASSUME NEW i \in 1..L PROVE raid'.starts[i] # raid'.starts[i + 1]
          BY <4>3
        <5>1. CASE i = L
          <6>1. L > 0
            BY <4>3, <5>1
          <6> QED BY <4>3, <4>4, <5>1, <6>1
        <5>2. CASE i # L
          <6>1. i \in 1..(L - 1) /\ i + 1 \in 1..L
            BY <4>3, <5>2
          <6>2. raid.starts[i] # raid.starts[i + 1]
            BY <1>0, <6>1 DEF Raids
          <6> QED BY <4>3, <6>1, <6>2
        <5> QED BY <5>1, <5>2
      <4>6. \A i \in 1..Len(raid'.starts) : round'[raid'.starts[i][1]].status # "pending"
        <5> SUFFICES ASSUME NEW i \in 1..(L + 1)
                     PROVE  round[raid'.starts[i][1]].status # "pending"
          BY <3>3, <4>3
        <5>1. CASE i = L + 1
          <6>1. raid'.starts[i][1] = m
            BY <4>3, <5>1
          <6> QED BY <4>1, <6>1
        <5>2. CASE i # L + 1
          <6>1. i \in 1..L
            BY <4>3, <5>2
          <6> QED BY <1>0, <4>3, <6>1 DEF Raids
        <5> QED BY <5>1, <5>2
      <4>7. \A q \in Request : RaidOf(req[q])'
        <5>1. \A q \in Request \ {p} : RaidOf(req[q])'
          BY <2>0 DEF RaidOf, ToRecord, Begins
        <5> QED BY <3>2, <5>1
      <4>8. LastRaid' = <<m, s>>
        BY <4>3 DEF LastRaid
      <4>9. raid.side = s
        BY <2>1, <3>1 DEF RaidOf, ToRecord
      <4>10. LastRaid'[2] = raid'.side
        BY <4>3, <4>8, <4>9
      <4> QED BY <4>5, <4>6, <4>7, <4>10 DEF Raids
    <3> QED BY <3>4, <3>5
  <2>4. CASE AimRaid(p)
    <3> DEFINE side == IF req[p].kind = "next" THEN seeds[1] ELSE req[p].side
    <3>1. /\ req[p].kind \in {"next", "focus"} /\ raid' = [raid EXCEPT !.side = side]
          /\ req[p].count = 1 => req'[p].pc = "idle"
          /\ req[p].count # 1 => /\ req'[p].pc = "raid" /\ req'[p].kind = req[p].kind
                                 /\ req'[p].num = req[p].num /\ req'[p].side = side
      BY <2>4, AimRaidInv
    <3>2. req[p].pc = "aim" /\ round' = round /\ ~ToRecord(req[p])
      BY <2>4 DEF AimRaid, At, ToRecord
    <3>3. raid'.starts = raid.starts /\ raid'.side = side
      BY <1>0, <3>1
    <3>4. LastLive' = LastLive /\ LastRaid' = LastRaid /\ \A n : Raided(n)' = Raided(n)
      BY <3>2, <3>3 DEF LastLive, LastRaid, Raided
    <3>5. req[p].kind = "next" => req[p].count = 0
      BY Known DEF Carries
    <3> SUFFICES /\ RaidOf(req[p])'
                 /\ LastLive /\ ~ToRecord(req'[p]) => LastRaid[2] = side
      BY <1>0, <2>0, <3>2, <3>3, <3>4, RaidsGoOn
    <3>6. CASE req[p].count = 1
      <4>1. req[p].kind = "focus" /\ raid.side = req[p].side
        BY <2>1, <3>1, <3>2, <3>5, <3>6 DEF RaidOf
      <4>2. side = raid.side
        BY <4>1
      <4>3. RaidOf(req[p])'
        BY <3>1, <3>6 DEF RaidOf, ToRecord, Begins
      <4> QED BY <2>1, <3>2, <4>2, <4>3
    <3>7. CASE req[p].count # 1 /\ req[p].kind = "focus"
      <4>1. req'[p].pc = "raid" /\ req'[p].kind = "focus" /\ req'[p].side = side
            /\ side = req[p].side
        BY <3>1, <3>7
      <4>2. raid.side # req[p].side
        BY <2>1, <3>2, <3>7 DEF RaidOf
      <4>3. LastLive => LastRaid[2] # side
        BY <2>1, <3>2, <4>1, <4>2
      <4>4. RaidOf(req[p])'
        BY <3>3, <3>4, <4>1, <4>3 DEF RaidOf, ToRecord, Begins
      <4>5. ToRecord(req'[p])
        BY <4>1 DEF ToRecord
      <4> QED BY <4>4, <4>5
    <3>8. CASE req[p].count # 1 /\ req[p].kind = "next"
      <4>1. req'[p].pc = "raid" /\ req'[p].kind = "next" /\ req'[p].side = side
            /\ req'[p].num = req[p].num
        BY <3>1, <3>8
      <4>2. Begins(req[p])
        BY <3>2, <3>8 DEF Begins
      <4>3. ~Raided(req[p].num)
        BY <2>1, <4>2 DEF RaidOf
      <4>4. req[p].num \in Number /\ round[req[p].num].status = "live"
        BY <1>0, <4>2, Known DEF Carries, SawBy
      <4>5. ~LastLive
        BY <1>2, <1>3, <4>3, <4>4 DEF LastLive
      <4>6. RaidOf(req[p])'
        BY <3>3, <3>4, <4>1, <4>3 DEF RaidOf, ToRecord, Begins
      <4> QED BY <4>5, <4>6
    <3> QED BY <3>1, <3>6, <3>7, <3>8
  <2>5. CASE BeginRound(p)
    <3> DEFINE b == req[p].num
    <3>1. raid' = raid
      BY <2>5 DEF BeginRound
    <3>2. req'[p].pc = "dealt" /\ req'[p].kind = "next" /\ req'[p].num = b
      BY <2>5, BeginRoundInv
    <3>3. b \in Number /\ round[b].status = "pending"
      BY <2>5, BeginsPending
    <3>4. \A n \in Number : n # b => /\ round'[n].status # "live"
                                     /\ round'[n].status = "pending" <=> round[n].status = "pending"
      BY <2>5, BeginsPending
    <3>5. ~Raided(b)
      BY <1>0, <3>3 DEF Raided, Raids
    <3>6. RaidOf(req[p])'
      BY <3>1, <3>2, <3>5 DEF RaidOf, ToRecord, Raided
    <3>7. ~LastLive'
      <4>1. Len(raid.starts) > 0 => Raided(LastRaid[1]) /\ LastRaid[1] \in Number
        <5>1. Len(raid.starts) > 0 => Len(raid.starts) \in 1..Len(raid.starts)
          BY <1>0
        <5> QED BY <1>1, <5>1 DEF LastRaid, Raided
      <4>2. LastRaid' = LastRaid
        BY <3>1 DEF LastRaid
      <4> QED BY <3>1, <3>4, <3>5, <4>1, <4>2 DEF LastLive
    <3>8. round'[b].status = "live"
      BY <2>5, BeginsPending
    <3>9. /\ \A n \in Number : round'[n].status = "pending" => round[n].status = "pending"
          /\ \A n \in Number : round'[n].status = "live" => round[n].status = "live" \/ ~Raided(n)
      BY <3>3, <3>4, <3>5
    <3> HIDE DEF b
    <3> QED BY <1>0, <2>0, <3>1, <3>6, <3>7, <3>9, RaidsGoOn
  <2>6. CASE CloseRounds(p)
    <3>1. raid' = raid
      BY <2>6 DEF CloseRounds
    <3>2. \A n \in Number : round[n] \in Rounds
      BY <1>0 DEF TypeOK
    <3>3. \A n \in Number : /\ round'[n].status # "live"
                            /\ round'[n].status = "pending" => round[n].status = "pending"
      BY <2>6, <3>2 DEF CloseRounds, Rounds
    <3>4. RaidOf(req[p])'
      BY <2>2, <2>6, CloseRoundsInv
    <3>5. ~LastLive'
      <4>1. Len(raid.starts) > 0 => LastRaid[1] \in Number
        <5>1. Len(raid.starts) > 0 => Len(raid.starts) \in 1..Len(raid.starts)
          BY <1>0
        <5> QED BY <1>1, <5>1 DEF LastRaid
      <4>2. LastRaid' = LastRaid
        BY <3>1 DEF LastRaid
      <4> QED BY <3>1, <3>3, <4>1, <4>2 DEF LastLive
    <3> QED BY <1>0, <2>0, <3>1, <3>3, <3>4, <3>5, RaidsGoOn
  <2>7. CASE ~RecordRaidStart(p) /\ ~AimRaid(p) /\ ~BeginRound(p) /\ ~CloseRounds(p)
    <3>1. \A n \in Number : round'[n].status = round[n].status
      BY <1>0, <1>5, <2>7, StatusStays
    <3>2. raid' = raid
      <4>1. Adjusts(p) \/ ClearProtocol(p) \/ EnactProtocol(p) => raid' = raid
        BY DEF Adjusts, HandleAdjustProtocolViolations, ClearProtocol, EnactProtocol
      <4>2. Quiet => raid' = raid
        BY DEF Quiet, tables
      <4> QED BY <1>5, <2>7, <4>1, <4>2, StepKind, RoundsAreApart, TasksAreApart DEF SideStep
    <3>3. ~ToRecord(req[p])
      BY <1>5, <2>7 DEF ToRecord
    <3>4. LastLive' => LastLive
      BY <1>3, <3>1, <3>2, <1>1, <1>0 DEF LastLive, LastRaid
    <3> SUFFICES RaidOf(req[p])'
      BY <1>0, <2>0, <2>1, <3>1, <3>2, <3>3, <3>4, RaidsGoOn
    <3>5. CASE Comes(p)
      BY <2>2, <3>5
    <3>6. CASE ReadRaid(p)
      <4>1. /\ req'[p].pc = "aim" /\ req'[p].kind = "focus" /\ req'[p].side = req[p].side
            /\ req'[p].count = IF raid.side = req[p].side THEN 1 ELSE 0
        BY <3>6, ReadRaidInv
      <4> QED BY <3>2, <4>1 DEF RaidOf, ToRecord, Begins
    <3>7. CASE LookDealt(p) \/ PickTask(p) \/ PutTask(p)
      <4>1. req[p].pc \in {"dealt", "pick", "put"}
        BY <3>7 DEF LookDealt, PickTask, PutTask, At
      <4>2. req[p].kind = "next"
        BY <4>1, Known DEF Course
      <4>3. /\ req'[p].kind = "next" /\ req'[p].num = req[p].num
            /\ req'[p].pc \in {"aim", "pick", "put"}
        <5>1. req[p].pc \in {"pick", "put"} =>
                /\ NextSlot(req[p]).kind = "next" /\ NextSlot(req[p]).num = req[p].num
                /\ NextSlot(req[p]).pc \in {"aim", "pick"}
          BY <4>2, Known, SlotFacts
        <5>2. CASE LookDealt(p)
          BY <5>2, LookDealtInv
        <5>3. CASE PickTask(p)
          <6>1. req[p].pc = "pick"
            BY <5>3 DEF PickTask, At
          <6>2. \/ req'[p] = NextSlot(req[p])
                \/ req'[p].pc = "put" /\ req'[p].kind = "next" /\ req'[p].num = req[p].num
            BY <5>3, PickTaskInv
          <6> QED BY <5>1, <6>1, <6>2
        <5>4. CASE PutTask(p)
          <6>1. req[p].pc = "put"
            BY <5>4 DEF PutTask, At
          <6>2. /\ req'[p].pc = NextSlot(req[p]).pc /\ req'[p].kind = NextSlot(req[p]).kind
                /\ req'[p].num = NextSlot(req[p]).num
            BY <5>4, PutTaskInv
          <6> QED BY <5>1, <6>1, <6>2
        <5> QED BY <3>7, <5>2, <5>3, <5>4
      <4>4. Begins(req[p]) /\ ~Raided(req[p].num)
        BY <2>1, <4>1, <4>2 DEF RaidOf, Begins
      <4> QED BY <3>2, <4>3, <4>4 DEF RaidOf, ToRecord, Raided
    <3> QED BY <1>5, <2>7, <3>5, <3>6, <3>7 DEF Plays
  <2> QED BY <2>3, <2>4, <2>5, <2>6, <2>7
<1> QED BY <1>0, <1>4, <1>5, StepOfOne

\* What the two sides share of a round, for one judge: each has a protocol of its own, and
\* no side's raid is counted twice in a row (SetParticipantProtocol, handleMatchFocus).
THEOREM SharesTheorem == Spec => []SidesShare
<1> DEFINE J == Inv /\ RoundsInOrder /\ OneProtocol /\ RaidInv
<1>1. Init => J
  <2> SUFFICES ASSUME Init PROVE RoundsInOrder /\ OneProtocol /\ RaidInv
    BY InitInv
  <2>1. \A n \in Number : round[n].status = "pending"
    BY DEF Init
  <2>2. penalty = {} /\ raid.starts = <<>> /\ \A p \in Request : req[p].pc = "idle"
    BY BlankFacts DEF Init
  <2>3. RoundsInOrder /\ OneProtocol
    BY <2>1, <2>2 DEF RoundsInOrder, OneProtocol
  <2>4. RaidInv
    BY <2>2 DEF RaidInv, Raids, RaidOf, ToRecord, Begins, LastLive
  <2> QED BY <2>3, <2>4
<1>2. J /\ [Next]_vars => J'
  BY NextInv, RoundsStep, ProtocolStep, RaidStep
<1>3. J => SidesShare
  BY DEF SidesShare, RaidsAlternate, RaidInv, Raids, NoPatch
<1> QED BY <1>1, <1>2, <1>3, PTL DEF Spec

-------------------------------------------------------------------------------
(* The deal. *)

\* The rows of a side in a round; it has c of them, or no ordinary task is left for it.
Rows(n, s)   == {i \in 1..Len(dealt) : dealt[i].round = n /\ dealt[i].side = s}
Has(n, s, c) == Cardinality(Rows(n, s)) >= c \/ Pickable(n, FALSE, NoTask) = {}

\* A request deals for the round.
Dealing  == {"dealt", "pick", "put"}
Deals(n) == \E p \in Request : req[p].pc \in Dealing /\ req[p].num = n

\* How far it is.
DealOf(r) ==
  /\ r.pc = "dealt" => \A i \in 1..Len(dealt) : dealt[i].round # r.num
  /\ r.pc \in {"pick", "put"} =>
       /\ Has(r.num, r.order[1], IF r.slot > 3 THEN 3 ELSE r.slot - 1)
       /\ r.slot > 3 => Has(r.num, r.order[2], r.slot - 4)

Dealt ==
  /\ \A i \in 1..Len(dealt) : round[dealt[i].round].status # "pending"
  /\ \A p \in Request : DealOf(req[p])
  /\ \A n \in Number, s \in Side : round[n].status # "pending" /\ ~Deals(n) => Has(n, s, 3)

OnlyDealt == OneJudge /\ load.gone = 0 /\ load.kinds \cap ByHand = {}
DealInv   == OnlyDealt => Dealt

\* Some task is the nearest.
LEMMA LeastNat ==
  ASSUME NEW S, S \subseteq Nat, S # {}
  PROVE  \E x \in S : \A y \in S : x <= y
<1>1. \E x \in S : \A y \in S : ~(<<y, x>> \in OpToRel(<, Nat))
  BY NatLessThanWellFounded, WFMin
<1>2. PICK x \in S : \A y \in S : ~(<<y, x>> \in OpToRel(<, Nat))
  BY <1>1
<1>3. ASSUME NEW y \in S PROVE ~(y < x)
  <2>1. <<y, x>> \in Nat \X Nat
    OBVIOUS
  <2>2. <<y, x>>[1] = y /\ <<y, x>>[2] = x
    OBVIOUS
  <2>3. y < x => <<y, x>> \in OpToRel(<, Nat)
    BY <2>1, <2>2, Zenon DEF OpToRel
  <2> QED BY <1>2, <2>3
<1> QED BY <1>3

LEMMA NearestExists ==
  ASSUME NEW S, S \subseteq Task, S # {}, NEW side \in Side
  PROVE  Nearest(S, side) # {}
<1>1. ASSUME NEW t \in S PROVE Distance(t, side) \in Nat
  <2> DEFINE far(a, b) == IF a > b THEN a - b ELSE b - a
             all == {far(Rarity[t], k) : k \in Wanted[side]}
  <2>1. Rarity[t] \in Nat /\ Wanted[side] \subseteq Nat
    BY RoundsAssumption
  <2>2. all \subseteq Nat
    BY <2>1
  <2>3. Wanted[side] # {} => all # {}
    OBVIOUS
  <2>4. Distance(t, side) = IF Wanted[side] = {} THEN 0 ELSE Min(all)
    BY DEF Distance
  <2> HIDE DEF all
  <2>5. all # {} => Min(all) \in all
    BY <2>2, LeastNat DEF Min
  <2> QED BY <2>2, <2>3, <2>4, <2>5
<1> DEFINE D == {Distance(t, side) : t \in S}
<1>2. PICK d \in D : \A e \in D : d <= e
  <2>1. D \subseteq Nat /\ D # {}
    BY <1>1
  <2> HIDE DEF D
  <2> QED BY <2>1, LeastNat
<1>3. PICK t \in S : d = Distance(t, side)
  OBVIOUS
<1> QED BY <1>2, <1>3 DEF Nearest

\* The rows stay and are added to.
Grows == /\ dealt \in Seq(Assignments) /\ dealt' \in Seq(Assignments)
         /\ Len(dealt') >= Len(dealt) /\ load' = load
         /\ \A i \in 1..Len(dealt) : /\ dealt'[i].round = dealt[i].round
                                     /\ dealt'[i].side = dealt[i].side
                                     /\ dealt'[i].task = dealt[i].task

LEMMA RowsAreFinite ==
  ASSUME dealt \in Seq(Assignments), NEW n, NEW s
  PROVE  IsFiniteSet(Rows(n, s)) /\ Cardinality(Rows(n, s)) \in Nat
<1>1. IsFiniteSet(1..Len(dealt))
  BY FS_Interval
<1>2. Rows(n, s) \subseteq 1..Len(dealt)
  BY DEF Rows
<1> QED BY <1>1, <1>2, FS_Subset, FS_CardinalityType

LEMMA PickedStay ==
  ASSUME Grows, NEW n, Pickable(n, FALSE, NoTask) = {}
  PROVE  Pickable(n, FALSE, NoTask)' = {}
<1>1. Pickable(n, FALSE, NoTask)' \subseteq Pickable(n, FALSE, NoTask)
  BY DEF Grows, Pickable
<1> QED BY <1>1

LEMMA HasStays ==
  ASSUME Grows, NEW n, NEW s, NEW c \in Int, Has(n, s, c)
  PROVE  Has(n, s, c)'
<1>1. IsFiniteSet(Rows(n, s)') /\ Cardinality(Rows(n, s)') \in Nat
  <2>1. IsFiniteSet(1..Len(dealt'))
    BY FS_Interval DEF Grows
  <2>2. Rows(n, s)' \subseteq 1..Len(dealt')
    BY DEF Rows
  <2> QED BY <2>1, <2>2, FS_Subset, FS_CardinalityType
<1>2. Rows(n, s) \subseteq Rows(n, s)'
  BY DEF Grows, Rows
<1>3. Cardinality(Rows(n, s)) \in Nat /\ Cardinality(Rows(n, s)) <= Cardinality(Rows(n, s)')
  BY <1>1, <1>2, FS_Subset, RowsAreFinite DEF Grows
<1>4. CASE Cardinality(Rows(n, s)) >= c
  <2>1. Cardinality(Rows(n, s)') >= c
    BY <1>1, <1>3, <1>4
  <2> QED BY <2>1 DEF Has
<1>5. CASE Pickable(n, FALSE, NoTask) = {}
  BY <1>5, PickedStay DEF Has
<1> QED BY <1>4, <1>5 DEF Has

\* A row more is a row more of its side.
LEMMA HasMore ==
  ASSUME dealt \in Seq(Assignments), NEW a \in Assignments, dealt' = Append(dealt, a),
         load' = load, NEW c \in Int, Has(a.round, a.side, c)
  PROVE  Has(a.round, a.side, c + 1)' /\ Grows
<1> DEFINE L == Len(dealt)
           R == Rows(a.round, a.side)
<1>1. /\ L \in Nat /\ Len(dealt') = L + 1 /\ dealt'[L + 1] = a
      /\ \A i \in 1..L : dealt'[i] = dealt[i]
      /\ dealt' \in Seq(Assignments)
  OBVIOUS
<1>2. Grows
  BY <1>1 DEF Grows
<1>3. Rows(a.round, a.side)' = R \cup {L + 1}
  <2>1. \A i : i \in 1..(L + 1) <=> i \in 1..L \/ i = L + 1
    BY <1>1
  <2>2. \A i \in 1..L : i # L + 1
    BY <1>1
  <2> QED BY <1>1, <2>1, <2>2 DEF Rows
<1>4. L + 1 \notin R
  BY <1>1 DEF Rows
<1>5. IsFiniteSet(R) /\ Cardinality(R) \in Nat
  BY RowsAreFinite
<1>6. Cardinality(R \cup {L + 1}) = Cardinality(R) + 1
  <2> HIDE DEF R, L
  <2> QED BY <1>4, <1>5, FS_AddElement
<1>7. CASE Cardinality(R) >= c
  <2>1. Cardinality(Rows(a.round, a.side)') >= c + 1
    BY <1>3, <1>5, <1>6, <1>7
  <2> QED BY <1>2, <2>1 DEF Has
<1>8. CASE Pickable(a.round, FALSE, NoTask) = {}
  BY <1>2, <1>8, PickedStay DEF Has
<1> QED BY <1>7, <1>8 DEF Has

\* A step of one request by which no round begins.
LEMMA DealGoesOn ==
  ASSUME Inv, Dealt, NEW p \in Request, Grows,
         \A q \in Request \ {p} : req[q].pc = "idle" /\ req'[q].pc = "idle",
         \A n \in Number : round'[n].status = "pending" <=> round[n].status = "pending",
         \A i \in 1..Len(dealt') : i > Len(dealt) => round'[dealt'[i].round].status # "pending",
         DealOf(req[p])',
         \A n \in Number, s \in Side :
           req[p].pc \in Dealing /\ req[p].num = n /\ req'[p].pc \notin Dealing => Has(n, s, 3)',
         req[p].pc \in Dealing /\ req'[p].pc \in Dealing => req'[p].num = req[p].num
  PROVE  Dealt'
<1>1. ASSUME NEW i \in 1..Len(dealt') PROVE round'[dealt'[i].round].status # "pending"
  <2>1. CASE i > Len(dealt)
    BY <2>1
  <2>2. CASE ~(i > Len(dealt))
    <3>1. i \in 1..Len(dealt)
      BY <2>2 DEF Grows
    <3>2. dealt[i].round \in Number /\ dealt'[i].round = dealt[i].round
      <4>1. dealt[i] \in Assignments
        BY <3>1 DEF Grows
      <4> QED BY <3>1, <4>1 DEF Grows, Assignments
    <3>3. round[dealt[i].round].status # "pending"
      BY <3>1 DEF Dealt
    <3> QED BY <3>2, <3>3
  <2> QED BY <2>1, <2>2
<1>2. ASSUME NEW q \in Request PROVE DealOf(req[q])'
  <2>1. CASE q = p
    BY <2>1
  <2>2. CASE q # p
    <3>1. req'[q].pc = "idle"
      BY <2>2
    <3> QED BY <3>1 DEF DealOf
  <2> QED BY <2>1, <2>2
<1>3. ASSUME NEW n \in Number, NEW s \in Side, round'[n].status # "pending", ~Deals(n)'
      PROVE  Has(n, s, 3)'
  <2>1. CASE req[p].pc \in Dealing /\ req[p].num = n
    <3>1. ~(req'[p].pc \in Dealing /\ req'[p].num = n)
      BY <1>3 DEF Deals
    <3> QED BY <2>1, <3>1
  <2>2. CASE ~(req[p].pc \in Dealing /\ req[p].num = n)
    <3>1. ~Deals(n)
      BY <2>2 DEF Deals, Dealing
    <3>2. Has(n, s, 3)
      BY <1>3, <3>1 DEF Dealt
    <3> QED BY <3>2, HasStays
  <2> QED BY <2>1, <2>2
<1> QED BY <1>1, <1>2, <1>3 DEF Dealt

\* A task of the deal is put down by one step, and is a row more.
LEMMA PutAppends ==
  ASSUME Inv, OneJudge, NEW p \in Request, PutTask(p)
  PROVE  \E a \in Assignments : /\ dealt' = Append(dealt, a)
                                /\ a.round = req[p].num /\ a.side = SlotSide(req[p])
<1>1. req[p].pc = "put"
  BY DEF PutTask, At
<1>2. ~HasRow(req[p].num, SlotSide(req[p]), req[p].task)
  BY <1>1, Known DEF SawBy, Fresh, HasRow
<1>3. dealt' # dealt
  <2>1. dealt \in Seq(Assignments)
    BY Known DEF TypeOK
  <2>2. \E x : dealt' = Append(dealt, x)
    BY <1>2 DEF PutTask, PutRow
  <2>3. Len(dealt') = Len(dealt) + 1 /\ Len(dealt) \in Nat
    BY <2>1, <2>2
  <2> QED BY <2>3
<1> QED BY <1>3, Appended

LEMMA DealStep == ASSUME Inv, RoundsInOrder, DealInv, [Next]_vars PROVE DealInv'
<1> SUFFICES ASSUME OnlyDealt PROVE Dealt'
  BY LoadStays DEF DealInv, OnlyDealt, OneJudge
<1>0. /\ Dealt /\ OneJudge /\ load.gone = 0 /\ "patch" \notin load.kinds /\ NoPatch /\ TypeOK
      /\ load.kinds \cap {"assign", "contracts", "remove", "reroll", "patch"} = {}
      /\ dealt \in Seq(Assignments)
  BY DEF DealInv, OnlyDealt, NoPatch, Inv, Base, TablesOK, TypeOK, ByHand
<1>00. load' = load
  BY LoadStays
<1>1. Inv'
  BY NextInv
<1>2. dealt' \in Seq(Assignments)
  BY <1>1 DEF Inv, Base, TablesOK, TypeOK
<1>3. dealt' = dealt => Grows
  BY <1>0, <1>00 DEF Grows
<1>4. CASE UNCHANGED <<tables, req, load>>
  <2>1. dealt' = dealt /\ round' = round /\ req' = req
    BY <1>4 DEF tables
  <2>2. \A n, s, c : Has(n, s, c)' = Has(n, s, c)
    BY <1>00, <2>1 DEF Has, Rows, Pickable
  <2>3. \A n : Deals(n)' = Deals(n)
    BY <2>1 DEF Deals
  <2>4. \A q \in Request : DealOf(req[q])'
    <3> SUFFICES ASSUME NEW q \in Request PROVE DealOf(req[q])'
      OBVIOUS
    <3>1. DealOf(req[q])
      BY <1>0 DEF Dealt
    <3> QED BY <2>1, <2>2, <3>1 DEF DealOf
  <2> QED BY <1>0, <2>1, <2>2, <2>3, <2>4 DEF Dealt
<1>5. ASSUME NEW p \in Request, Arrives(p) \/ Proceeds(p), Plays(p) \/ Comes(p),
             \A q \in Request \ {p} : req[q].pc = "idle" /\ req'[q].pc = "idle",
             req[p].pc = "dealt" => LookDealt(p),
             req[p].pc = "pick"  => PickTask(p),
             req[p].pc = "put"   => PutTask(p)
      PROVE  Dealt'
  <2>0. \A q \in Request \ {p} : req[q].pc = "idle" /\ req'[q].pc = "idle"
    BY <1>5
  <2>1. DealOf(req[p])
    BY <1>0 DEF Dealt
  <2>2. req[p].pc \in Dealing =>
          /\ req[p].kind = "next" /\ req[p].num \in Number
          /\ round[req[p].num].status = "live"
    <3>1. req[p].pc \in Dealing => req[p].kind = "next" /\ Begins(req[p])
      BY Known DEF Course, Begins, Dealing
    <3> QED BY <1>0, <3>1, Known DEF Carries, SawBy
  <2>3. ~BeginRound(p) /\ ~CloseRounds(p) =>
          \A n \in Number : round'[n].status = "pending" <=> round[n].status = "pending"
    BY <1>0, <1>5, StatusStays
  <2>4. CASE BeginRound(p)
    <3> DEFINE b == req[p].num
    <3>1. dealt' = dealt
      BY <2>4 DEF BeginRound
    <3>2. req'[p].pc = "dealt" /\ req'[p].num = b /\ req[p].pc = "begin"
      BY <2>4, BeginRoundInv DEF BeginRound, At
    <3>3. /\ b \in Number /\ round[b].status = "pending" /\ round'[b].status = "live"
          /\ \A n \in Number : n # b =>
               (round'[n].status = "pending" <=> round[n].status = "pending")
      BY <1>0, <2>4, BeginsPending
    <3>4. \A i \in 1..Len(dealt) : dealt[i].round \in Number /\ dealt[i].round # b
      <4>1. \A i \in 1..Len(dealt) : dealt[i] \in Assignments
        BY <1>0
      <4> QED BY <1>0, <3>3, <4>1 DEF Dealt, Assignments
    <3>5. \A i \in 1..Len(dealt') : round'[dealt'[i].round].status # "pending"
      BY <1>0, <3>1, <3>3, <3>4 DEF Dealt
    <3>6. ASSUME NEW q \in Request PROVE DealOf(req[q])'
      <4>1. CASE q = p
        BY <3>1, <3>2, <3>4, <4>1 DEF DealOf
      <4>2. CASE q # p
        <5>1. req'[q].pc = "idle"
          BY <2>0, <4>2
        <5> QED BY <5>1 DEF DealOf
      <4> QED BY <4>1, <4>2
    <3>7. ASSUME NEW n \in Number, NEW s \in Side, round'[n].status # "pending", ~Deals(n)'
          PROVE  Has(n, s, 3)'
      <4>1. n # b
        BY <3>2, <3>7 DEF Deals, Dealing
      <4>2. ~Deals(n)
        BY <2>0, <3>2 DEF Deals, Dealing
      <4>3. Has(n, s, 3)
        BY <1>0, <3>3, <3>7, <4>1, <4>2 DEF Dealt
      <4> QED BY <1>3, <3>1, <4>3, HasStays
    <3> QED BY <3>5, <3>6, <3>7 DEF Dealt
  <2>5. CASE CloseRounds(p)
    <3>1. dealt' = dealt /\ req[p].pc = "close"
      BY <2>5 DEF CloseRounds, At
    <3>2. \A n \in Number : round'[n].status = "pending" <=> round[n].status = "pending"
      <4>1. \A n \in Number : round[n] \in Rounds
        BY <1>0 DEF TypeOK
      <4> QED BY <2>5, <4>1 DEF CloseRounds, Rounds
    <3>3. DealOf(req[p])'
      BY <2>5, CloseRoundsInv DEF Comes, Playing, DealOf
    <3>4. req[p].pc \notin Dealing
      BY <3>1 DEF Dealing
    <3>5. \A i \in 1..Len(dealt') : ~(i > Len(dealt))
      BY <1>0, <3>1
    <3> QED BY <1>0, <1>3, <2>0, <3>1, <3>2, <3>3, <3>4, <3>5, DealGoesOn
  <2>6. CASE LookDealt(p)
    <3>1. dealt' = dealt /\ req[p].pc = "dealt" /\ ~BeginRound(p) /\ ~CloseRounds(p)
      BY <2>6 DEF LookDealt, OnlyReads, tables, At, BeginRound, CloseRounds
    <3>2. req'[p].pc = "pick" /\ req'[p].slot = 1 /\ req'[p].num = req[p].num
      <4>1. \A i \in 1..Len(dealt) : dealt[i].round # req[p].num
        BY <2>1, <3>1 DEF DealOf
      <4> QED BY <2>6, <4>1, LookDealtInv
    <3>3. \A n, s : Has(n, s, 0)'
      <4>1. \A n, s : Cardinality(Rows(n, s)) >= 0
        BY <1>0, RowsAreFinite
      <4>2. \A n, s : Rows(n, s)' = Rows(n, s)
        BY <3>1 DEF Rows
      <4> QED BY <4>1, <4>2 DEF Has
    <3>4. DealOf(req[p])'
      BY <3>2, <3>3 DEF DealOf
    <3>5. \A i \in 1..Len(dealt') : ~(i > Len(dealt))
      BY <1>0, <3>1
    <3>6. req'[p].pc \in Dealing
      BY <3>2 DEF Dealing
    <3> QED BY <1>0, <1>3, <2>0, <2>3, <3>1, <3>2, <3>4, <3>5, <3>6, DealGoesOn
  <2>7. CASE PickTask(p)
    <3> DEFINE r == req[p]
    <3>1. dealt' = dealt /\ r.pc = "pick" /\ ~BeginRound(p) /\ ~CloseRounds(p)
      BY <2>7 DEF PickTask, OnlyReads, tables, At, BeginRound, CloseRounds
    <3>2. r.kind = "next" /\ r.pc \in {"pick", "put"} /\ r.order \in Orders
          /\ r.slot \in 1..LastSlot /\ r.num \in Number
      BY <2>2, <3>1, Known DEF Carries, Dealing
    <3>3. \A i \in 1..Len(dealt') : ~(i > Len(dealt))
      BY <1>0, <3>1
    <3>4. CASE /\ req'[p].pc = "put" /\ req'[p].num = r.num
               /\ req'[p].order = r.order /\ req'[p].slot = r.slot
      <4>1. \A n, s, c : Has(n, s, c)' = Has(n, s, c)
        BY <1>00, <3>1 DEF Has, Rows, Pickable
      <4>2. DealOf(req[p])'
        BY <2>1, <3>1, <3>4, <4>1 DEF DealOf
      <4>3. req'[p].pc \in Dealing
        BY <3>4 DEF Dealing
      <4> QED BY <1>0, <1>3, <2>0, <2>3, <3>1, <3>3, <3>4, <4>2, <4>3, DealGoesOn
    <3>5. CASE /\ req'[p] = NextSlot(r)
               /\ LET timed == SlotTimed(r.slot) /\ Pickable(r.num, TRUE, NoTask) # {}
                  IN  Nearest(Pickable(r.num, timed, NoTask), SlotSide(r)) = {}
      <4>1. Pickable(r.num, FALSE, NoTask) = {}
        <5> DEFINE timed == SlotTimed(r.slot) /\ Pickable(r.num, TRUE, NoTask) # {}
        <5>1. timed \in BOOLEAN
          OBVIOUS
        <5>2. Nearest(Pickable(r.num, timed, NoTask), SlotSide(r)) = {}
          BY <3>5
        <5>3. SlotSide(r) \in Side
          BY <3>2, SlotSideFacts
        <5>4. \A t : Pickable(r.num, t, NoTask) \subseteq Task
          BY LoadFacts DEF Pickable, Inv, Base, TablesOK
        <5>5. \A t : Pickable(r.num, t, NoTask) # {} =>
                 Nearest(Pickable(r.num, t, NoTask), SlotSide(r)) # {}
          BY <5>3, <5>4, NearestExists
        <5>6. CASE timed = TRUE
          BY <5>2, <5>5, <5>6
        <5>7. CASE timed = FALSE
          BY <5>2, <5>5, <5>7
        <5> HIDE DEF timed
        <5> QED BY <5>1, <5>6, <5>7
      <4>2. ASSUME NEW n, n = req[p].num PROVE \A s, c : Has(n, s, c)'
        BY <1>3, <3>1, <4>1, <4>2, PickedStay DEF Has
      <4>3. /\ NextSlot(r).num = r.num /\ NextSlot(r).pc \in {"pick", "aim"}
        BY <3>2, Known, SlotFacts
      <4>4. req'[p].num = req[p].num /\ req'[p].pc \in {"pick", "aim"}
        BY <3>5, <4>3
      <4>5. DealOf(req[p])'
        BY <4>2, <4>4 DEF DealOf
      <4> QED BY <1>0, <1>3, <2>0, <2>3, <3>1, <3>3, <4>2, <4>4, <4>5, DealGoesOn
    <3> QED BY <2>7, <3>4, <3>5, PickTaskInv
  <2>8. CASE PutTask(p)
    <3> DEFINE r == req[p]
    <3>1. r.pc = "put" /\ ~BeginRound(p) /\ ~CloseRounds(p) /\ round' = round
      BY <2>8 DEF PutTask, At, BeginRound, CloseRounds
    <3>2. r.kind = "next" /\ r.pc \in {"pick", "put"} /\ r.order \in Orders
          /\ r.slot \in 1..LastSlot /\ r.num \in Number /\ round[r.num].status = "live"
      BY <2>2, <3>1, Known DEF Carries, Dealing
    <3>3. PICK n \in Number, o \in Orders, k \in 1..6 : n = r.num /\ o = r.order /\ k = r.slot
      BY <3>2 DEF LastSlot
    <3>4. PICK s \in Side : /\ s = SlotSide(r)
                            /\ k <= 3 => s = o[1]
                            /\ k > 3 => s = o[2]
      BY <3>2, <3>3, SlotSideFacts
    <3>5. PICK a \in Assignments : dealt' = Append(dealt, a) /\ a.round = n /\ a.side = s
      BY <1>0, <2>8, <3>3, <3>4, PutAppends
    <3>6. /\ req'[p].num = n /\ req'[p].order = o
          /\ k = 6 => req'[p].pc = "aim"
          /\ k # 6 => req'[p].pc = "pick" /\ req'[p].slot = k + 1
      <4>1. /\ req'[p].pc = NextSlot(r).pc /\ req'[p].num = NextSlot(r).num
            /\ req'[p].order = NextSlot(r).order /\ req'[p].slot = NextSlot(r).slot
        BY <2>8, PutTaskInv
      <4>2. NextSlot(r).num = r.num /\ NextSlot(r).order = r.order
        BY <3>2, Known, SlotFacts
      <4>3. /\ r.slot = 6 => NextSlot(r).pc = "aim"
            /\ r.slot # 6 => NextSlot(r).pc = "pick" /\ NextSlot(r).slot = r.slot + 1
        BY <3>2, Known DEF NextSlot, LastSlot, Requests
      <4> QED BY <3>3, <4>1, <4>2, <4>3
    <3>7. /\ Has(n, o[1], IF k > 3 THEN 3 ELSE k - 1)
          /\ k > 3 => Has(n, o[2], k - 4)
      BY <2>1, <3>1, <3>3 DEF DealOf
    <3>8. /\ \A c \in Int : Has(n, s, c) => Has(n, s, c + 1)'
          /\ \A x, c : c \in Int /\ Has(n, x, c) => Has(n, x, c)'
          /\ Grows
      <4>1. /\ Len(dealt) \in Nat /\ Len(dealt') = Len(dealt) + 1
            /\ \A i \in 1..Len(dealt) : dealt'[i] = dealt[i]
        BY <1>0, <3>5
      <4>2. Grows
        BY <1>0, <1>00, <1>2, <4>1 DEF Grows
      <4>3. \A c \in Int : Has(a.round, a.side, c) => Has(a.round, a.side, c + 1)'
        BY <1>0, <1>00, <3>5, HasMore
      <4>4. \A x, c : c \in Int /\ Has(n, x, c) => Has(n, x, c)'
        BY <4>2, HasStays
      <4> QED BY <3>5, <4>2, <4>3, <4>4
    <3>9. \A i \in 1..Len(dealt') : i > Len(dealt) => round'[dealt'[i].round].status # "pending"
      <4>1. \A i \in 1..Len(dealt') : i > Len(dealt) => dealt'[i] = a
        BY <1>0, <3>5
      <4> QED BY <3>1, <3>2, <3>3, <3>5, <4>1
    <3> HIDE DEF r
    <3>10. CASE k <= 3
      <4>1. k - 1 \in Int /\ k - 1 + 1 = k /\ ~(k > 3)
        BY <3>10
      <4>2. Has(n, o[1], k)'
        BY <3>4, <3>7, <3>8, <3>10, <4>1
      <4>3. Has(n, o[2], 0)'
        <5>1. Has(n, o[2], 0)
          <6>1. Cardinality(Rows(n, o[2])) \in Nat
            BY <1>0, RowsAreFinite
          <6>2. Cardinality(Rows(n, o[2])) >= 0
            BY <6>1
          <6> QED BY <6>2, Zenon DEF Has
        <5> QED BY <3>8, <5>1
      <4>4. req'[p].pc = "pick" /\ req'[p].slot = k + 1
        BY <3>6, <3>10
      <4>5. DealOf(req[p])'
        <5>1. Has(n, o[1], IF req[p].slot > 3 THEN 3 ELSE req[p].slot - 1)'
          <6>1. (IF req'[p].slot > 3 THEN 3 ELSE req'[p].slot - 1) = k
            BY <3>10, <4>4
          <6> QED BY <4>2, <6>1 DEF Has
        <5>2. (req[p].slot > 3 => Has(n, o[2], req[p].slot - 4))'
          <6>1. req'[p].slot > 3 => req'[p].slot - 4 = 0
            BY <3>10, <4>4
          <6> QED BY <4>3, <6>1 DEF Has
        <5> QED BY <3>6, <4>4, <5>1, <5>2 DEF DealOf
      <4>6. req'[p].pc \in Dealing /\ req'[p].num = req[p].num
        BY <3>3, <3>6, <4>4 DEF Dealing, r
      <4> QED BY <1>0, <2>0, <2>3, <3>1, <3>8, <3>9, <4>5, <4>6, DealGoesOn
    <3>11. CASE k > 3
      <4>1. k - 4 \in Int /\ k - 4 + 1 = k - 3 /\ ~(k <= 3)
        BY <3>11
      <4>2. Has(n, o[1], 3)' /\ Has(n, o[2], k - 3)'
        <5>1. Has(n, o[1], 3)'
          BY <3>7, <3>8, <3>11
        <5>2. Has(n, o[2], k - 4 + 1)'
          BY <3>4, <3>7, <3>8, <3>11, <4>1
        <5> QED BY <4>1, <5>1, <5>2
      <4>3. CASE k = 6
        <5>1. req'[p].pc = "aim"
          BY <3>6, <4>3
        <5>2. DealOf(req[p])'
          BY <5>1 DEF DealOf
        <5>3. \A x \in Side : Has(n, x, 3)'
          <6>1. k - 3 = 3
            BY <4>3
          <6>2. Has(n, o[2], 3)'
            BY <4>2, <6>1
          <6>3. Side = {o[1], o[2]}
            BY ConstantFacts
          <6> QED BY <4>2, <6>2, <6>3
        <5>4. req'[p].pc \notin Dealing
          BY <5>1 DEF Dealing
        <5>5. \A m \in Number, x \in Side : req[p].num = m => Has(m, x, 3)'
          BY <3>3, <5>3 DEF r
        <5> QED BY <1>0, <2>0, <2>3, <3>1, <3>8, <3>9, <5>2, <5>4, <5>5, DealGoesOn
      <4>4. CASE k # 6
        <5>1. req'[p].pc = "pick" /\ req'[p].slot = k + 1
          BY <3>6, <4>4
        <5>2. DealOf(req[p])'
          <6>1. req'[p].slot > 3 /\ req'[p].slot - 4 = k - 3
            BY <3>11, <5>1
          <6>2. Has(n, o[1], IF req[p].slot > 3 THEN 3 ELSE req[p].slot - 1)'
            BY <4>2, <6>1 DEF Has
          <6>3. Has(n, o[2], req[p].slot - 4)'
            BY <4>2, <6>1 DEF Has
          <6> QED BY <3>6, <5>1, <6>2, <6>3 DEF DealOf
        <5>3. req'[p].pc \in Dealing /\ req'[p].num = req[p].num
          BY <3>3, <3>6, <5>1 DEF Dealing, r
        <5> QED BY <1>0, <2>0, <2>3, <3>1, <3>8, <3>9, <5>2, <5>3, DealGoesOn
      <4> QED BY <4>3, <4>4
    <3> QED BY <3>10, <3>11
  <2>9. CASE /\ ~BeginRound(p) /\ ~CloseRounds(p) /\ ~LookDealt(p) /\ ~PickTask(p)
             /\ ~PutTask(p)
    <3>1. req[p].pc \notin Dealing
      BY <1>5, <2>9 DEF Dealing
    <3>2. req'[p].pc \notin Dealing
      <4>1. Comes(p) => req'[p].pc \notin Dealing
        BY DEF Comes, Playing, Dealing
      <4>2. ReadRaid(p) => req'[p].pc \notin Dealing
        BY ReadRaidInv DEF Dealing
      <4>3. AimRaid(p) => req'[p].pc \notin Dealing
        BY AimRaidInv DEF Dealing
      <4> QED BY <1>5, <2>9, <4>1, <4>2, <4>3 DEF Plays
    <3>3. DealOf(req[p])'
      BY <3>2 DEF DealOf, Dealing
    <3>4. Grows /\ Len(dealt') = Len(dealt)
      <4>1. ~SwapTask(p) /\ ~AssignTask(p) /\ ~RemovesTask(p)
        <5>1. req[p].pc # "idle" => req[p].kind \in load.kinds
          BY Known
        <5>2. req[p].pc \notin {"swap", "assign"}
          BY <1>0, <5>1, Known DEF Course
        <5> QED BY <1>0, <5>2 DEF SwapTask, AssignTask, At, RemovesTask, HandleRemoveBonusTask,
               Console, Takes
      <4>2. CASE MarksTask(p)
        <5>1. ~RemovesTask(p)
          BY <4>1
        <5>2. PICK i \in 1..Len(dealt), a \in Assignments :
                /\ dealt' = [dealt EXCEPT ![i] = a] /\ a.round = dealt[i].round
                /\ a.side = dealt[i].side /\ a.task = dealt[i].task
          BY <4>2, <5>1, Marked
        <5>3. /\ Len(dealt') = Len(dealt) /\ Len(dealt) \in Nat
              /\ \A j \in 1..Len(dealt) : dealt'[j] = IF j = i THEN a ELSE dealt[j]
          BY <1>0, <5>2
        <5>4. \A j \in 1..Len(dealt) : /\ dealt'[j].round = dealt[j].round
                                       /\ dealt'[j].side = dealt[j].side
                                       /\ dealt'[j].task = dealt[j].task
          BY <5>2, <5>3
        <5> QED BY <1>0, <1>00, <1>2, <5>3, <5>4 DEF Grows
      <4>3. CASE ~MarksTask(p)
        <5>1. dealt' = dealt
          BY <1>5, <2>9, <4>1, <4>3, StepKind, RoundsAreApart, SidesAreApart
             DEF TaskStep, Quiet, tables
        <5> QED BY <1>3, <5>1
      <4> QED BY <4>2, <4>3
    <3>5. \A i \in 1..Len(dealt') : ~(i > Len(dealt))
      BY <1>0, <3>4
    <3> QED BY <1>0, <2>0, <2>3, <2>9, <3>1, <3>3, <3>4, <3>5, DealGoesOn
  <2> QED BY <2>4, <2>5, <2>6, <2>7, <2>8, <2>9
<1> QED BY <1>0, <1>4, <1>5, StepOfOne

\* When no request is under way a round that began has three tasks for each side, unless
\* every ordinary task was used up (DealRoundTasks: the slots go side by side, and the
\* nearest of any tasks there are is dealt).
THEOREM DealTheorem == Spec => []FullDeal
<1> DEFINE J == Inv /\ RoundsInOrder /\ DealInv
<1>1. Init => J
  <2> SUFFICES ASSUME Init PROVE RoundsInOrder /\ DealInv
    BY InitInv
  <2>1. \A n \in Number : round[n].status = "pending"
    BY DEF Init
  <2>2. dealt = <<>> /\ \A p \in Request : req[p].pc = "idle"
    BY BlankFacts DEF Init
  <2> QED BY <2>1, <2>2 DEF RoundsInOrder, DealInv, Dealt, DealOf
<1>2. J /\ [Next]_vars => J'
  BY NextInv, RoundsStep, DealStep
<1>3. J => FullDeal
  <2> SUFFICES ASSUME DealInv, Still, OnlyDealt PROVE
        \A n \in Number, s \in Side : round[n].status # "pending" => Has(n, s, 3)
    BY DEF FullDeal, OnlyDealt, Has, Rows
  <2>1. \A n : ~Deals(n)
    BY DEF Still, At, Deals, Dealing
  <2> QED BY <2>1 DEF DealInv, Dealt
<1> QED BY <1>1, <1>2, <1>3, PTL DEF Spec
===============================================================================
