--------------------------- MODULE MatchScoreProofs ---------------------------
(***************************************************************************)
(* What a judge can rely on, for any tasks, contracts, players and points: *)
(* a task its owner has done stays his, and the result follows from the    *)
(* tables.  Layers of one invariant: what the tables, the log and the      *)
(* requests hold (Typed); whose a task may be (MarksRight); and, for the   *)
(* console of one judge, what a request knows of the tables at each of its *)
(* statements (Known), what the log tells of the marks (Told), and which   *)
(* totals and which outcome it still has to write (Settled).               *)
(*                                                                         *)
(* Then the counters, for any requests at once: a player and a side never  *)
(* have less than their knocks are worth, the players of a side never more *)
(* between them than the side, and, on the console of one judge, exactly   *)
(* what it has.  To the invariant come what a correction knows of the row  *)
(* it is about to write (Locks, SeenFair) and whose counters it is about   *)
(* (CountsBy).                                                             *)
(*                                                                         *)
(* And the log: on the console of one judge its rows explain the score     *)
(* (Explained).  A request that has changed the tables and not yet the log *)
(* is taken into account as if it had (Books); no counter was ever below   *)
(* zero on the way (NeverBelow), so an undo takes back what was given in   *)
(* full and meets no lower bound.                                          *)
(***************************************************************************)
EXTENDS MatchScore, FiniteSetTheorems, SequenceTheorems, SumTheorems, TLAPS

-------------------------------------------------------------------------------
(* What the tables, the log and the requests hold.                         *)

Kinds  == {"points", "knock", "task", "legendary", "undo", "finish", "entry", "main"}
Places == {"idle", "read", "write", "look", "mark", "complete", "spend", "put", "sum", "log", "close",
           "crown", "prior", "rate", "take", "restore", "holder", "release", "reopen", "erase"}
Types  == {"points", "knock", "task", "legendary"}
By     == {"owner", "opponent", "none"}

LogRow == [id : Nat, type : {"none"} \cup Types, side : Side \cup {NoSide}, user : User \cup {NoUser},
           applied : Int, task : Task \cup {NoTask}, prev : Marks, leg : Legendary \cup {NoLegendary}]

\* A row of the log says what it is about.
Says(e) ==
  /\ e.type \in Types
  /\ e.type # "task" => e.side \in Side
  /\ e.type = "task" => e.task \in Task
  /\ e.type = "legendary" => e.leg \in Legendary

Fields(r) ==
  r \in [kind : {"none"} \cup Kinds, pc : Places, fin : BOOLEAN, side : Side \cup {NoSide},
         user : User \cup {NoUser}, delta : Int, task : Task \cup {NoTask}, by : By,
         leg : Legendary \cup {NoLegendary}, seen : Counts, held : BOOLEAN, entry : LogRow,
         todo : Seq(Side), src : Nat, sum : {r.sum}, got : {r.got}, tally : BOOLEAN]

Edits == {"points", "knock", "task", "legendary"}

\* What a request is and has with it at each of its statements.
Carries(r) ==
  /\ r.pc # "idle" => r.kind \in Kinds
  /\ r.pc = "idle" => r = Blank
  /\ r.pc \in {"read", "write"} => r.kind \in {"points", "knock", "undo"} /\ r.side \in Side
  /\ r.pc \in {"look", "mark"} => r.kind = "task" /\ r.task \in Task
  /\ r.pc \in {"complete", "spend"} => r.kind = "legendary" /\ r.leg \in Legendary /\ r.side \in Side
  /\ r.pc = "put" => r.kind \in {"entry", "main"} /\ r.side \in Side
  /\ r.pc \in {"take", "restore", "holder", "release", "reopen", "erase"} => r.kind = "undo"
  /\ r.pc = "restore" => r.task \in Task
  /\ r.pc \in {"holder", "release", "reopen"} => r.leg \in Legendary
  /\ r.pc = "log" => r.kind \in Edits /\ r.entry.type = r.kind
  /\ r.pc = "close" => r.kind = "finish"
  /\ r.pc = "prior" => r.kind # "finish"
  /\ r.pc = "sum" /\ ~r.tally /\ r.kind \in Edits => r.entry.type = r.kind
  /\ r.pc \in {"mark", "restore"} => r.entry.type = "task" /\ r.entry.task = r.task
  /\ r.pc = "spend" => r.entry.type = "legendary"
  /\ r.entry.type # "none" => Says(r.entry)
  /\ r.got = [s \in Side |-> r.got[s]]
  /\ r.kind = "finish" => r.tally
  /\ r.tally => r.pc \in {"sum", "close", "prior", "crown", "rate"}
  /\ r.pc \in {"look", "mark"} /\ r.by = "owner" => r.user \in Player(Owner[r.task])
  /\ r.pc = "mark" => MayMark(r, r.entry.prev)
  /\ r.pc \in {"read", "write", "holder", "release", "reopen"} => r.entry.type # "task"

TablesTyped == load \in Loads /\ db \in Tables /\ match \in Matches /\ total = [s \in Side |-> total[s]]
LogTyped ==
  /\ log \in Seq(LogRow) /\ \A i \in 1..Len(log) : Says(log[i])
  /\ \A i, j \in 1..Len(log) : log[i].id = log[j].id => i = j
ReqTyped == req = [p \in Request |-> req[p]] /\ \A p \in Request : Fields(req[p]) /\ Carries(req[p])

Typed == TablesTyped /\ LogTyped /\ ReqTyped

-------------------------------------------------------------------------------
(* Whose a task may be, however requests meet.                             *)

MarkRight(t, mark) ==
  /\ t \in Timed => mark.by \in {Owner[t], NoSide}
  /\ mark.by = Owner[t] => mark.user \in Player(Owner[t])

MarksRight ==
  /\ \A t \in Task : MarkRight(t, db.done[t])
  /\ \A i \in 1..Len(log) : log[i].type = "task" => MarkRight(log[i].task, log[i].prev)
  /\ \A p \in Request : req[p].entry.type = "task" => MarkRight(req[p].entry.task, req[p].entry.prev)
  /\ \A p \in Request : At(p, "mark") /\ req[p].by = "opponent" => req[p].task \notin Timed

-------------------------------------------------------------------------------
(* The console of one judge: what a request knows.                         *)

OneServed == \A p, q \in Request : ~At(p, "idle") /\ ~At(q, "idle") => p = q

\* What a request read of the tables d, the log l and the match m is still so.
KnownBy(d, l, m, r) ==
  /\ r.pc = "write" => r.seen = IF r.user = NoUser THEN d.entry[r.side] ELSE d.member[r.side][r.user]
  /\ r.pc = "mark" => r.entry.prev = d.done[r.task] /\ r.entry.side = Marked(r).by
  /\ r.pc = "release" => \A s \in Side : d.taken[r.leg] = s => s \in ToSet(r.todo)
  /\ r.kind = "undo" /\ r.pc \in {"read", "write", "restore", "holder", "release", "reopen", "erase"} =>
       l # <<>> /\ r.entry = l[Len(l)]
  /\ r.pc # "idle" /\ ~(r.kind = "finish" /\ r.pc = "rate") => (r.fin <=> m.status = "finished")
  /\ r.kind \in {"finish", "entry", "main"} => ~r.fin

Known == OneJudge => OneServed /\ \A p \in Request : KnownBy(db, log, match, req[p])

-------------------------------------------------------------------------------
(* What the log tells of the marks.                                        *)

About(e, t) == e.type = "task" /\ e.task = t

\* Each mark of a task in the log is what the next one found, the last is now.
Chain(l) ==
  \A t \in Task, i, j \in 1..Len(l) :
    i < j /\ About(l[i], t) /\ About(l[j], t) /\ (\A k \in 1..Len(l) : i < k /\ k < j => ~About(l[k], t)) =>
      l[i].side = l[j].prev.by
Latest(l, t, by) ==
  \A i \in 1..Len(l) :
    About(l[i], t) /\ (\A k \in 1..Len(l) : i < k => ~About(l[k], t)) => l[i].side = by

\* A mark that is set but not logged yet, and one taken back whose row is still there.
Unlogged(r, t) == r.kind = "task" /\ (r.pc = "log" \/ (r.pc = "sum" /\ ~r.tally)) /\ About(r.entry, t)
Unerased(r, t) == r.pc = "erase" /\ About(r.entry, t)

\* The log and the marks, as the one request that may be under way has them.
ToldOf(d, l, r) ==
  /\ Chain(l)
  /\ \A t \in Task :
       /\ Unlogged(r, t) => Latest(l, t, r.entry.prev.by) /\ r.entry.side = d.done[t].by
       /\ Unerased(r, t) => Latest(l, t, r.entry.side) /\ r.entry.prev.by = d.done[t].by
       /\ ~Unlogged(r, t) /\ ~Unerased(r, t) => Latest(l, t, d.done[t].by)

Told == OneJudge => \A p \in Request : (\A q \in Request \ {p} : At(q, "idle")) => ToldOf(db, log, req[p])

-------------------------------------------------------------------------------
(* What is still to be settled.                                            *)

\* The sides whose total may not be that of the tables.
Owes(r, s) ==
  \/ r.pc \in {"sum", "erase", "reopen"} /\ s \in ToSet(r.todo)
  \/ r.pc = "spend" /\ s = r.side
Held(d) == {x \in Legendary : d.taken[x] # NoSide}
Leads(d) == Ahead([s \in Side |-> Breakdown(d, s)])

\* A sum as far as it is added up.
SumSoFar(d, r) ==
  LET b == Sources(d, Head(r.todo)) IN
  /\ r.src \in 1..5
  /\ r.src = 1 => r.sum = 0
  /\ r.src = 2 => r.sum = b[1]
  /\ r.src = 3 => r.sum = b[1] + b[2]
  /\ r.src = 4 => r.sum = b[1] + b[2] + b[3]
  /\ r.src = 5 => r.sum = b[1] + b[2] + b[3] + b[4]

SettledBy(d, m, r) ==
  /\ r.pc # "sum" \/ r.todo = <<>> => r.src = 1 /\ r.sum = 0
  /\ r.pc = "sum" /\ r.todo # <<>> => SumSoFar(d, r)
  /\ r.pc = "sum" /\ r.tally => \A s \in Side : s \in ToSet(r.todo) \/ r.got[s] = Breakdown(d, s)
  /\ r.pc \in {"close", "prior", "crown"} => \A s \in Side : r.got[s] = Breakdown(d, s)
  /\ r.pc = "crown" /\ r.kind # "finish" => r.side = m.winner
  /\ r.pc = "spend" => r.leg \in Held(d) /\ d.spent = Held(d) \ {r.leg}
  /\ r.pc = "reopen" => r.leg \notin Held(d) /\ d.spent \ {r.leg} = Held(d)

\* The outcome is written unless a request is about to decide it.
Deciding(r) == r.pc \in {"spend", "sum", "erase", "reopen", "log", "prior", "close", "crown"}

SettledOf(d, tot, m, r) ==
  /\ SettledBy(d, m, r)
  /\ \A s \in Side : ~Owes(r, s) => tot[s] = Breakdown(d, s)
  /\ r.pc \notin {"spend", "reopen"} => d.spent = Held(d)
  /\ m.status = "finished" /\ ~Deciding(r) => m.winner = Leads(d)
  /\ m.status = "finished" /\ r.pc # "rate" => m.rated = m.winner

Settled == OneJudge =>
  \A p \in Request : (\A q \in Request \ {p} : At(q, "idle")) => SettledOf(db, total, match, req[p])
-------------------------------------------------------------------------------
(* Requests.                                                               *)

Others(p) == \A q \in Request \ {p} : req'[q] = req[q]

LEMMA BlankFacts ==
  /\ Blank.kind = "none" /\ Blank.pc = "idle" /\ Blank.fin = FALSE /\ Blank.side = NoSide /\ Blank.user = NoUser
  /\ Blank.delta = 0 /\ Blank.task = NoTask /\ Blank.by = "none" /\ Blank.leg = NoLegendary /\ Blank.held = FALSE
  /\ Blank.entry = NoLog /\ Blank.entry.type = "none" /\ Blank.todo = <<>> /\ Blank.src = 1 /\ Blank.sum = 0
  /\ Blank.tally = FALSE /\ Blank.got = [s \in Side |-> 0]
  /\ Fields(Blank) /\ Carries(Blank)
<1>1. NoLog \in LogRow
  BY DEF NoLog, LogRow, NotDone, Marks
<1>2. Zero \in Counts /\ <<>> \in Seq(Side) /\ NoLog.type = "none"
  BY DEF Zero, Counts, NoLog
<1>3. /\ Blank.kind = "none" /\ Blank.pc = "idle" /\ Blank.fin = FALSE /\ Blank.side = NoSide /\ Blank.user = NoUser
      /\ Blank.delta = 0 /\ Blank.task = NoTask /\ Blank.by = "none" /\ Blank.leg = NoLegendary /\ Blank.held = FALSE
      /\ Blank.entry = NoLog /\ Blank.todo = <<>> /\ Blank.src = 1 /\ Blank.sum = 0
      /\ Blank.tally = FALSE /\ Blank.got = [s \in Side |-> 0] /\ Blank.seen = Zero
  BY DEF Blank
<1>4. Fields(Blank)
  BY <1>1, <1>2 DEF Blank, Fields, Kinds, Places, By
<1>5. Carries(Blank)
  BY <1>2, <1>3 DEF Carries
<1> QED BY <1>2, <1>3, <1>4, <1>5

\* What is served to a request is the only change of the table of requests.
LEMMA Served ==
  ASSUME ReqTyped, NEW p \in Request, NEW r, Serve(p, r), Fields(r), Carries(r)
  PROVE  req'[p] = r /\ Others(p) /\ ReqTyped'
<1>1. req' = [req EXCEPT ![p] = r]
  BY DEF Serve
<1>2. req'[p] = r /\ \A q \in Request \ {p} : req'[q] = req[q]
  BY <1>1 DEF ReqTyped
<1>3. req' = [q \in Request |-> req'[q]]
  BY <1>1 DEF ReqTyped
<1>4. \A q \in Request : Fields(req'[q]) /\ Carries(req'[q])
  BY <1>2 DEF ReqTyped
<1> QED BY <1>2, <1>3, <1>4 DEF Others, ReqTyped

LEMMA Ended ==
  ASSUME ReqTyped, NEW p \in Request, Serve(p, Blank)
  PROVE  req'[p] = Blank /\ Others(p) /\ ReqTyped'
  BY BlankFacts, Served

\* How a request begins: alone, if one judge is at work.
Begun(p) ==
  /\ At(p, "idle") /\ Others(p) /\ ReqTyped' /\ UNCHANGED <<load, db, total, log, match>>
  /\ OneJudge => \A q \in Request : At(q, "idle")
  /\ req'[p].pc \in {"read", "look", "complete", "take", "put", "sum"}
  /\ req'[p].fin <=> match.status = "finished"
  /\ req'[p].kind = "undo" => req'[p].pc = "take"
  /\ req'[p].entry.type = "none" /\ req'[p].src = 1 /\ req'[p].sum = 0
  /\ req'[p].kind \in {"finish", "entry", "main"} => match.status # "finished"
  /\ req'[p].pc = "sum" => req'[p].kind = "finish" /\ req'[p].todo = Seeds /\ req'[p].tally

LEMMA Accepted ==
  ASSUME ReqTyped, TablesTyped, NEW p \in Request, NEW b, Accept(p, b), Fields(b), Carries(b),
         b.pc \in {"read", "look", "complete", "take", "put", "sum"},
         b.kind = "undo" => b.pc = "take",
         b.entry.type = "none", b.src = 1, b.sum = 0,
         b.kind \in {"finish", "entry", "main"} => match.status # "finished",
         b.pc = "sum" => b.kind = "finish" /\ b.todo = Seeds /\ b.tally
  PROVE  Begun(p)
<1> DEFINE f == match.status = "finished"
           r == [b EXCEPT !.fin = f]
<1>1. At(p, "idle") /\ Serve(p, r) /\ UNCHANGED <<load, db, total, log, match>>
  BY DEF Accept
<1>2. f \in BOOLEAN
  OBVIOUS
<1> HIDE DEF f
<1>3. /\ r.kind = b.kind /\ r.pc = b.pc /\ r.fin = f /\ r.side = b.side /\ r.user = b.user /\ r.delta = b.delta
      /\ r.task = b.task /\ r.by = b.by /\ r.leg = b.leg /\ r.entry = b.entry /\ r.todo = b.todo
      /\ r.src = b.src /\ r.sum = b.sum /\ r.got = b.got /\ r.tally = b.tally /\ Fields(r)
  BY <1>2 DEF Fields
<1> HIDE DEF r
<1>4. Carries(r)
  BY <1>3 DEF Carries
<1>5. req'[p] = r /\ Others(p) /\ ReqTyped'
  BY <1>1, <1>3, <1>4, Served
<1>6. ASSUME OneJudge PROVE \A q \in Request : At(q, "idle")
  <2> DEFINE busy == {o \in Request : ~At(o, "idle")}
  <2>1. Cardinality(busy) < 1
    BY <1>6 DEF Accept, OneJudge
  <2>2. IsFiniteSet(busy) /\ Cardinality(busy) \in Nat
    BY ScoreAssumption, FS_Subset, FS_CardinalityType
  <2>3. busy = {}
    BY <2>1, <2>2, FS_EmptySet
  <2> QED BY <2>3
<1>7. r.fin <=> match.status = "finished"
  BY <1>3 DEF f
<1> QED BY <1>1, <1>3, <1>5, <1>6, <1>7 DEF Begun

LEMMA BlankRow == /\ Fields(Blank) /\ Blank.by = "none" /\ Blank.entry = NoLog /\ Blank.src = 1 /\ Blank.sum = 0
                  /\ Blank.tally = FALSE
  BY BlankFacts

\* What a request has with it when it comes in.
ComingPoints(kind, s, u, d) == [Blank EXCEPT !.kind = kind, !.pc = "read", !.side = s, !.user = u, !.delta = d]
ComingMark(t, by, u) == [Blank EXCEPT !.kind = "task", !.pc = "look", !.task = t, !.by = by, !.user = u]
ComingContract(l, s) == [Blank EXCEPT !.kind = "legendary", !.pc = "complete", !.leg = l, !.side = s]
ComingFinish == Tally([Blank EXCEPT !.kind = "finish"])
ComingUndo == [Blank EXCEPT !.kind = "undo", !.pc = "take"]
ComingOld(kind, s, d) == [Blank EXCEPT !.kind = kind, !.pc = "put", !.side = s, !.delta = d]

LEMMA PointsRow ==
  ASSUME NEW kind \in {"points", "knock"}, NEW s \in Side, NEW u \in User \cup {NoUser}, NEW d \in Int
  PROVE  LET b == ComingPoints(kind, s, u, d) IN
         /\ Fields(b)
         /\ b.kind = kind /\ b.pc = "read" /\ b.side = s /\ b.user = u /\ b.by = "none" /\ b.entry = NoLog
         /\ b.src = 1 /\ b.sum = 0 /\ b.got = Blank.got /\ ~b.tally
<1> DEFINE b == ComingPoints(kind, s, u, d)
<1>1. kind \in {"none"} \cup Kinds /\ "read" \in Places
  BY DEF Kinds, Places
<1>2. Fields(b)
  BY <1>1, BlankRow DEF Fields, ComingPoints
<1> QED BY <1>2, BlankRow DEF Fields, ComingPoints

LEMMA MarkRow ==
  ASSUME NEW t \in Task, NEW by \in By, NEW u \in User \cup {NoUser}
  PROVE  LET b == ComingMark(t, by, u) IN
         /\ Fields(b)
         /\ b.kind = "task" /\ b.pc = "look" /\ b.task = t /\ b.by = by /\ b.user = u /\ b.entry = NoLog
         /\ b.src = 1 /\ b.sum = 0 /\ b.got = Blank.got /\ ~b.tally
<1> DEFINE b == ComingMark(t, by, u)
<1>1. "task" \in Kinds /\ "look" \in Places
  BY DEF Kinds, Places
<1>2. Fields(b)
  BY <1>1, BlankRow DEF Fields, ComingMark
<1> QED BY <1>2, BlankRow DEF Fields, ComingMark

LEMMA ContractRow ==
  ASSUME NEW l \in Legendary, NEW s \in Side
  PROVE  LET b == ComingContract(l, s) IN
         /\ Fields(b)
         /\ b.kind = "legendary" /\ b.pc = "complete" /\ b.leg = l /\ b.side = s /\ b.by = "none" /\ b.entry = NoLog
         /\ b.src = 1 /\ b.sum = 0 /\ b.got = Blank.got /\ ~b.tally
<1> DEFINE b == ComingContract(l, s)
<1>1. "legendary" \in Kinds /\ "complete" \in Places
  BY DEF Kinds, Places
<1>2. Fields(b)
  BY <1>1, BlankRow DEF Fields, ComingContract
<1> QED BY <1>2, BlankRow DEF Fields, ComingContract

LEMMA UndoRow ==
  LET b == ComingUndo IN
  /\ Fields(b)
  /\ b.kind = "undo" /\ b.pc = "take" /\ b.by = "none" /\ b.entry = NoLog
  /\ b.src = 1 /\ b.sum = 0 /\ b.got = Blank.got /\ ~b.tally
<1> DEFINE b == ComingUndo
<1>1. "undo" \in Kinds /\ "take" \in Places
  BY DEF Kinds, Places
<1>2. Fields(b)
  BY <1>1, BlankRow DEF Fields, ComingUndo
<1> QED BY <1>2, BlankRow DEF Fields, ComingUndo

LEMMA OldConsoleRow ==
  ASSUME NEW kind \in {"entry", "main"}, NEW s \in Side, NEW d \in Int
  PROVE  LET b == ComingOld(kind, s, d) IN
         /\ Fields(b)
         /\ b.kind = kind /\ b.pc = "put" /\ b.side = s /\ b.by = "none" /\ b.entry = NoLog
         /\ b.src = 1 /\ b.sum = 0 /\ b.got = Blank.got /\ ~b.tally
<1> DEFINE b == ComingOld(kind, s, d)
<1>1. kind \in Kinds /\ "put" \in Places
  BY DEF Kinds, Places
<1>2. Fields(b)
  BY <1>1, BlankRow DEF Fields, ComingOld
<1> QED BY <1>2, BlankRow DEF Fields, ComingOld

LEMMA PlayerFacts == ASSUME NEW s \in Side PROVE Player(s) \subseteq User \cup {NoUser}
  BY ScoreAssumption DEF Player

LEMMA SeedFacts == /\ Seeds \in Seq(Side) /\ ToSet(Seeds) = Side /\ Seeds # <<>> /\ Len(Seeds) = 2 /\ DOMAIN Seeds = 1..2
                   /\ Seeds[1] \in Side /\ Seeds[2] \in Side
<1>1. Len(Seeds) = 2 /\ Side = ToSet(Seeds)
  BY ScoreAssumption DEF Side
<1>2. Seeds \in Seq(Side) /\ DOMAIN Seeds = 1..2
  BY ScoreAssumption DEF Side, ToSet
<1> QED BY <1>1, <1>2 DEF ToSet

LEMMA FinishRow ==
  LET b == ComingFinish IN
  /\ Fields(b)
  /\ b.kind = "finish" /\ b.pc = "sum" /\ b.by = "none" /\ b.entry = NoLog /\ b.todo = Seeds
  /\ b.src = 1 /\ b.sum = 0 /\ b.got = Blank.got /\ b.tally
<1> DEFINE a == [Blank EXCEPT !.kind = "finish"]
           b == [a EXCEPT !.pc = "sum", !.todo = Seeds, !.tally = TRUE]
<1>1. ComingFinish = b
  BY DEF ComingFinish, Tally
<1>2. a.kind = "finish" /\ a.by = "none" /\ a.entry = NoLog /\ a.src = 1 /\ a.sum = 0 /\ a.got = Blank.got /\ Fields(a)
  BY BlankFacts DEF Fields, Kinds
<1> HIDE DEF a
<1>3. /\ b.kind = "finish" /\ b.pc = "sum" /\ b.by = "none" /\ b.entry = NoLog /\ b.todo = Seeds
      /\ b.src = 1 /\ b.sum = 0 /\ b.got = Blank.got /\ b.tally /\ Fields(b)
  BY <1>2, SeedFacts DEF Fields, Places
<1> HIDE DEF b
<1> QED BY <1>1, <1>3

LEMMA PointsArrive ==
  ASSUME ReqTyped, TablesTyped, NEW p \in Request, NEW s \in Side, NEW u \in User \cup {NoUser}, NEW d \in Int,
         HandleMatchPoints(p, s, u, d) \/ HandleMatchKnock(p, s, u, d)
  PROVE  Begun(p)
<1>1. PICK kind \in {"points", "knock"} :
        Accept(p, [Blank EXCEPT !.kind = kind, !.pc = "read", !.side = s, !.user = u, !.delta = d])
  BY DEF HandleMatchPoints, HandleMatchKnock
<1> DEFINE b == ComingPoints(kind, s, u, d)
<1>2. Fields(b)
  BY PointsRow
<1>3. /\ b.kind = kind /\ b.pc = "read" /\ b.side = s /\ b.by = "none" /\ b.entry = NoLog /\ b.src = 1 /\ b.sum = 0
      /\ b.got = Blank.got /\ ~b.tally
  BY PointsRow
<1>4. Accept(p, b)
  BY <1>1 DEF ComingPoints
<1>5. Carries(b)
  BY <1>3, BlankFacts DEF Carries, Kinds
<1> QED BY <1>2, <1>3, <1>4, <1>5, BlankFacts, Accepted

LEMMA MarkArrives ==
  ASSUME ReqTyped, TablesTyped, NEW p \in Request, NEW t \in Task, NEW by \in By, NEW u \in User \cup {NoUser},
         HandleMarkTask(p, t, by, u)
  PROVE  Begun(p)
<1> DEFINE b == ComingMark(t, by, u)
<1>1. Accept(p, b) /\ (by = "owner" => u \in Player(Owner[t]))
  BY DEF HandleMarkTask, ComingMark
<1>2. /\ b.kind = "task" /\ b.pc = "look" /\ b.task = t /\ b.by = by /\ b.user = u /\ b.entry = NoLog
      /\ b.src = 1 /\ b.sum = 0 /\ b.got = Blank.got /\ ~b.tally /\ Fields(b)
  BY MarkRow
<1>3. Carries(b)
  BY <1>1, <1>2, BlankFacts DEF Carries, Kinds
<1> QED BY <1>1, <1>2, <1>3, BlankFacts, Accepted

LEMMA ContractArrives ==
  ASSUME ReqTyped, TablesTyped, NEW p \in Request, NEW l \in Legendary, NEW s \in Side, HandleMatchLegendary(p, l, s)
  PROVE  Begun(p)
<1> DEFINE b == ComingContract(l, s)
<1>1. Accept(p, b)
  BY DEF HandleMatchLegendary, ComingContract
<1>2. /\ b.kind = "legendary" /\ b.pc = "complete" /\ b.leg = l /\ b.side = s /\ b.by = "none" /\ b.entry = NoLog
      /\ b.src = 1 /\ b.sum = 0 /\ b.got = Blank.got /\ ~b.tally /\ Fields(b)
  BY ContractRow
<1>3. Carries(b)
  BY <1>2, BlankFacts DEF Carries, Kinds
<1> QED BY <1>1, <1>2, <1>3, BlankFacts, Accepted

LEMMA UndoArrives ==
  ASSUME ReqTyped, TablesTyped, NEW p \in Request, HandleMatchUndo(p)
  PROVE  Begun(p)
<1> DEFINE b == ComingUndo
<1>1. Accept(p, b)
  BY DEF HandleMatchUndo, ComingUndo
<1>2. /\ b.kind = "undo" /\ b.pc = "take" /\ b.by = "none" /\ b.entry = NoLog
      /\ b.src = 1 /\ b.sum = 0 /\ b.got = Blank.got /\ ~b.tally /\ Fields(b)
  BY UndoRow
<1>3. Carries(b)
  BY <1>2, BlankFacts DEF Carries, Kinds
<1> QED BY <1>1, <1>2, <1>3, BlankFacts, Accepted

LEMMA FinishArrives ==
  ASSUME ReqTyped, TablesTyped, NEW p \in Request, HandleFinishMatch(p)
  PROVE  Begun(p)
<1> DEFINE b == ComingFinish
<1>1. Accept(p, b) /\ match.status # "finished"
  BY DEF HandleFinishMatch, ComingFinish
<1>2. /\ Fields(b)
      /\ b.kind = "finish" /\ b.pc = "sum" /\ b.by = "none" /\ b.entry = NoLog /\ b.todo = Seeds
      /\ b.src = 1 /\ b.sum = 0 /\ b.got = Blank.got /\ b.tally
  BY FinishRow
<1> HIDE DEF b
<1>3. Carries(b)
  BY <1>2, BlankFacts DEF Carries, Kinds, Edits
<1> QED BY <1>1, <1>2, <1>3, BlankFacts, Accepted

LEMMA OldConsoleArrives ==
  ASSUME ReqTyped, TablesTyped, NEW p \in Request, NEW s \in Side, NEW d \in Int,
         HandleUpsertRoundEntry(p, s, d) \/ HandleAdjustRoundTaskCount(p, s, d)
  PROVE  Begun(p)
<1>1. PICK kind \in {"entry", "main"} :
        Accept(p, [Blank EXCEPT !.kind = kind, !.pc = "put", !.side = s, !.delta = d])
  BY DEF HandleUpsertRoundEntry, HandleAdjustRoundTaskCount
<1> DEFINE b == ComingOld(kind, s, d)
<1>2. match.status # "finished"
  BY DEF HandleUpsertRoundEntry, HandleAdjustRoundTaskCount
<1>3. /\ b.kind = kind /\ b.pc = "put" /\ b.side = s /\ b.by = "none" /\ b.entry = NoLog /\ b.src = 1 /\ b.sum = 0
      /\ b.got = Blank.got /\ ~b.tally /\ Fields(b)
  BY OldConsoleRow
<1>4. Accept(p, b)
  BY <1>1 DEF ComingOld
<1>5. Carries(b)
  BY <1>3, BlankFacts DEF Carries, Kinds
<1> QED BY <1>2, <1>3, <1>4, <1>5, BlankFacts, Accepted

LEMMA Arrived ==
  ASSUME ReqTyped, TablesTyped, NEW p \in Request, Arrives(p)
  PROVE  Begun(p)
<1>1. Deltas \subseteq Int /\ load.tasks \subseteq Task
  BY ScoreAssumption DEF TablesTyped
<1> QED BY <1>1, PlayerFacts, PointsArrive, MarkArrives, ContractArrives, UndoArrives, FinishArrives, OldConsoleArrives
        DEF Arrives, By

-------------------------------------------------------------------------------
(* Sums and counters.                                                      *)

\* What a side's points come from is all they depend on.
LEMMA SourcesSame ==
  ASSUME NEW d, NEW e, NEW s, d.entry[s].points = e.entry[s].points, d.main[s] = e.main[s],
         \A t \in Task : TaskPoints(d, t, s) = TaskPoints(e, t, s),
         \A l \in Legendary : d.taken[l] = s <=> e.taken[l] = s
  PROVE  Sources(d, s) = Sources(e, s) /\ Breakdown(d, s) = Breakdown(e, s)
<1>1. [t \in Task |-> TaskPoints(d, t, s)] = [t \in Task |-> TaskPoints(e, t, s)]
  OBVIOUS
<1>2. {l \in Legendary : d.taken[l] = s} = {l \in Legendary : e.taken[l] = s}
  OBVIOUS
<1>3. Sources(d, s) = Sources(e, s)
  BY <1>1, <1>2 DEF Sources
<1> QED BY <1>3 DEF Breakdown

LEMMA FirstSource == ASSUME NEW d, NEW s PROVE Sources(d, s)[1] = d.entry[s].points
  BY DEF Sources

LEMMA BreakdownStays ==
  ASSUME NEW s, db' = db
  PROVE  Breakdown(db, s)' = Breakdown(db, s) /\ Sources(db, s)' = Sources(db, s)
  OBVIOUS

LEMMA AheadFacts ==
  ASSUME NEW f, NEW g, \A s \in Side : f[s] = g[s]
  PROVE  Ahead(f) = Ahead(g)
  BY SeedFacts DEF Ahead

LEMMA LargerFacts ==
  ASSUME NEW a \in Int, NEW b \in Int
  PROVE  Larger(a, b) \in Int /\ Larger(a, b) >= a /\ Larger(a, b) >= b /\ Larger(a, b) \in {a, b}
  BY DEF Larger

LEMMA PointsAfter ==
  ASSUME NEW c \in Counts, NEW d \in Int
  PROVE  /\ AfterPoints(c, d) \in Counts
         /\ AfterPoints(c, d).points = c.points => AfterPoints(c, d) = c
<1>1. KnockPoints \in Nat /\ c.points \in Nat /\ c.knocks \in Nat
  BY ScoreAssumption DEF Counts
<1>2. PICK a, b : a = c.points + d /\ b = c.knocks * KnockPoints
  OBVIOUS
<1>4. a \in Int /\ b \in Nat
  BY <1>1, <1>2
<1>3. Larger(c.points + d, c.knocks * KnockPoints) \in Nat
  BY <1>2, <1>4 DEF Larger
<1> QED BY <1>3 DEF AfterPoints, Counts

LEMMA KnocksAfter ==
  ASSUME NEW c \in Counts, NEW d \in Int
  PROVE  /\ AfterKnocks(c, d) \in Counts
         /\ AfterKnocks(c, d).knocks = c.knocks => AfterKnocks(c, d) = c
<1>1. KnockPoints \in Nat /\ c.points \in Nat /\ c.knocks \in Nat
  BY ScoreAssumption DEF Counts
<1>2. PICK k : k = AppliedKnocks(c, d)
  OBVIOUS
<1>3. k \in Int /\ c.knocks + k \in Nat
  BY <1>1, <1>2 DEF AppliedKnocks, Larger
<1>4. k * KnockPoints \in Int /\ (k = 0 => k * KnockPoints = 0)
  BY <1>1, <1>3
<1>5. PICK n : n = c.points + k * KnockPoints
  OBVIOUS
<1>6. n \in Int /\ (k = 0 => n = c.points)
  BY <1>1, <1>4, <1>5
<1>7. Larger(n, 0) \in Nat /\ (k = 0 => Larger(n, 0) = c.points)
  BY <1>1, <1>6 DEF Larger
<1>8. AfterKnocks(c, d) = [points |-> Larger(n, 0), knocks |-> c.knocks + k]
  BY <1>2, <1>5 DEF AfterKnocks
<1>9. c.knocks + k = c.knocks => k = 0
  BY <1>1, <1>3
<1>10. c = [points |-> c.points, knocks |-> c.knocks]
  BY DEF Counts
<1> QED BY <1>3, <1>7, <1>8, <1>9, <1>10 DEF Counts

LEMMA AfterFacts ==
  ASSUME NEW r, Fields(r)
  PROVE  After(r) \in Counts /\ Applied(r) \in Int /\ (Applied(r) = 0 => After(r) = r.seen)
<1>1. r.seen \in Counts /\ r.delta \in Int
  BY DEF Fields
<1>2. After(r) \in Counts
  BY <1>1, PointsAfter, KnocksAfter DEF After
<1>3. After(r).points \in Nat /\ After(r).knocks \in Nat /\ r.seen.points \in Nat /\ r.seen.knocks \in Nat
  BY <1>1, <1>2 DEF Counts
<1>4. Applied(r) \in Int
  BY <1>3 DEF Applied
<1>5. ASSUME Applied(r) = 0 PROVE After(r) = r.seen
  <2>1. CASE IsKnock(r)
    <3>1. After(r) = AfterKnocks(r.seen, r.delta) /\ After(r).knocks - r.seen.knocks = 0
      BY <1>5, <2>1 DEF Applied, After
    <3>2. After(r).knocks = r.seen.knocks
      BY <1>3, <3>1
    <3> QED BY <1>1, <3>1, <3>2, KnocksAfter
  <2>2. CASE ~IsKnock(r)
    <3>1. After(r) = AfterPoints(r.seen, r.delta) /\ After(r).points - r.seen.points = 0
      BY <1>5, <2>2 DEF Applied, After
    <3>2. After(r).points = r.seen.points
      BY <1>3, <3>1
    <3> QED BY <1>1, <3>1, <3>2, PointsAfter
  <2> QED BY <2>1, <2>2
<1> QED BY <1>2, <1>4, <1>5

-------------------------------------------------------------------------------
(* What becomes of a request.                                              *)

Same(r, n) ==
  /\ n.kind = r.kind /\ n.fin = r.fin /\ n.side = r.side /\ n.user = r.user /\ n.task = r.task /\ n.by = r.by
  /\ n.leg = r.leg /\ n.entry = r.entry /\ n.tally = r.tally
Adds(r, n) == n.todo = r.todo /\ n.src = r.src /\ n.sum = r.sum /\ n.got = r.got

LEMMA PlaceSet ==
  ASSUME NEW r, Fields(r), NEW x \in Places
  PROVE  LET n == [r EXCEPT !.pc = x] IN n.pc = x /\ Same(r, n) /\ Adds(r, n) /\ n.seen = r.seen /\ n.delta = r.delta /\ Fields(n)
<1> DEFINE n == [r EXCEPT !.pc = x]
<1>1. Fields(n)
  BY DEF Fields
<1>2. /\ n.pc = x /\ n.kind = r.kind /\ n.fin = r.fin /\ n.side = r.side /\ n.user = r.user /\ n.task = r.task
      /\ n.by = r.by /\ n.leg = r.leg /\ n.entry = r.entry /\ n.tally = r.tally
      /\ n.todo = r.todo /\ n.src = r.src /\ n.sum = r.sum /\ n.got = r.got /\ n.seen = r.seen /\ n.delta = r.delta
  BY DEF Fields
<1> QED BY <1>1, <1>2 DEF Same, Adds

LEMMA TodoSet ==
  ASSUME NEW r, Fields(r), NEW x \in Places, NEW o \in Seq(Side)
  PROVE  LET n == [r EXCEPT !.pc = x, !.todo = o] IN
         /\ n.pc = x /\ Same(r, n) /\ n.todo = o /\ n.src = r.src /\ n.sum = r.sum /\ n.got = r.got /\ Fields(n)
<1> DEFINE n == [r EXCEPT !.pc = x, !.todo = o]
<1>1. Fields(n)
  BY DEF Fields
<1>2. /\ n.pc = x /\ n.kind = r.kind /\ n.fin = r.fin /\ n.side = r.side /\ n.user = r.user /\ n.task = r.task
      /\ n.by = r.by /\ n.leg = r.leg /\ n.entry = r.entry /\ n.tally = r.tally
      /\ n.todo = o /\ n.src = r.src /\ n.sum = r.sum /\ n.got = r.got
  BY DEF Fields
<1> QED BY <1>1, <1>2 DEF Same

LEMMA EntrySet ==
  ASSUME NEW r, Fields(r), NEW x \in Places, NEW e \in LogRow
  PROVE  LET n == [r EXCEPT !.pc = x, !.entry = e] IN
         /\ n.pc = x /\ n.kind = r.kind /\ n.fin = r.fin /\ n.side = r.side /\ n.user = r.user /\ n.task = r.task
         /\ n.by = r.by /\ n.leg = r.leg /\ n.entry = e /\ n.tally = r.tally /\ Adds(r, n) /\ Fields(n)
<1> DEFINE n == [r EXCEPT !.pc = x, !.entry = e]
<1>1. Fields(n)
  BY DEF Fields
<1>2. /\ n.pc = x /\ n.kind = r.kind /\ n.fin = r.fin /\ n.side = r.side /\ n.user = r.user /\ n.task = r.task
      /\ n.by = r.by /\ n.leg = r.leg /\ n.entry = e /\ n.tally = r.tally
      /\ n.todo = r.todo /\ n.src = r.src /\ n.sum = r.sum /\ n.got = r.got
  BY DEF Fields
<1> QED BY <1>1, <1>2 DEF Adds

\* A request that begins to decide the outcome.
LEMMA TallyFacts ==
  ASSUME NEW r, Fields(r)
  PROVE  LET n == Tally([r EXCEPT !.src = 1, !.sum = 0]) IN
         /\ n.pc = "sum" /\ n.kind = r.kind /\ n.fin = r.fin /\ n.by = r.by /\ n.entry = r.entry /\ n.tally
         /\ n.todo = Seeds /\ n.src = 1 /\ n.sum = 0 /\ n.got = r.got /\ n.leg = r.leg /\ n.task = r.task /\ Fields(n)
<1> DEFINE m == [r EXCEPT !.src = 1, !.sum = 0]
           n == [m EXCEPT !.pc = "sum", !.todo = Seeds, !.tally = TRUE]
<1>1. /\ m.kind = r.kind /\ m.fin = r.fin /\ m.by = r.by /\ m.entry = r.entry
      /\ m.src = 1 /\ m.sum = 0 /\ m.got = r.got /\ m.leg = r.leg /\ m.task = r.task
  BY DEF Fields
<1>2. Fields(m)
  BY DEF Fields
<1>3. n = Tally([r EXCEPT !.src = 1, !.sum = 0])
  BY DEF Tally
<1> HIDE DEF m
<1>4. /\ n.pc = "sum" /\ n.kind = m.kind /\ n.fin = m.fin /\ n.by = m.by /\ n.entry = m.entry /\ n.tally = TRUE
      /\ n.todo = Seeds /\ n.src = m.src /\ n.sum = m.sum /\ n.got = m.got /\ n.leg = m.leg /\ n.task = m.task
  BY <1>2 DEF Fields
<1>5. Fields(n)
  <2>1. "sum" \in Places /\ Seeds \in Seq(Side) /\ TRUE \in BOOLEAN
    BY SeedFacts DEF Places
  <2> QED BY <1>2, <2>1 DEF Fields
<1> QED BY <1>1, <1>3, <1>4, <1>5

LEMMA ConcludeFacts ==
  ASSUME NEW r, Fields(r), Carries(r), r.kind \in Edits \cup {"undo"}
  PROVE  LET n == Conclude(r) IN
         /\ Fields(n) /\ Carries(n)
         /\ r.fin => /\ n.pc = "sum" /\ n.kind = r.kind /\ n.fin /\ n.entry = r.entry /\ n.tally
                     /\ n.todo = Seeds /\ n.src = 1 /\ n.sum = 0
         /\ ~r.fin => n = Blank
<1>1. CASE r.fin
  <2> DEFINE n == Tally([r EXCEPT !.src = 1, !.sum = 0])
  <2>1. /\ n.pc = "sum" /\ n.kind = r.kind /\ n.fin = r.fin /\ n.by = r.by /\ n.entry = r.entry /\ n.tally
        /\ n.todo = Seeds /\ n.src = 1 /\ n.sum = 0 /\ n.got = r.got /\ Fields(n)
    BY TallyFacts
  <2>2. Conclude(r) = n
    BY <1>1 DEF Conclude
  <2> HIDE DEF n
  <2>3. Carries(n)
    BY <2>1 DEF Carries, Edits, Kinds
  <2> QED BY <1>1, <2>1, <2>2, <2>3
<1>2. CASE ~r.fin
  BY <1>2, BlankFacts DEF Conclude
<1> QED BY <1>1, <1>2

\* All totals of a request are added up.
LEMMA AddedFacts ==
  ASSUME NEW r, Fields(r), Carries(r), r.pc = "sum"
  PROVE  LET n == Added(r) IN
         /\ Fields(n) /\ Carries(n) /\ (n.got = r.got \/ ~r.tally)
         /\ r.tally => n.pc = (IF r.kind = "finish" THEN "close" ELSE "prior") /\ Same(r, n) /\ n.todo = <<>> /\ n.src = 1 /\ n.sum = 0
         /\ ~r.tally /\ r.kind \in {"entry", "main"} => n = Blank
         /\ ~r.tally /\ r.kind = "undo" /\ ~r.fin => n = Blank
         /\ ~r.tally /\ r.kind = "undo" /\ r.fin =>
              n.pc = "sum" /\ n.kind = r.kind /\ n.fin /\ n.entry = r.entry /\ n.tally /\ n.todo = Seeds /\ n.src = 1 /\ n.sum = 0
         /\ ~r.tally /\ r.kind \in Edits => n.pc = "log" /\ Same(r, n) /\ n.todo = <<>> /\ n.src = 1 /\ n.sum = 0
         /\ r.tally \/ r.kind \in {"undo", "entry", "main"} \cup Edits
<1> DEFINE m == [r EXCEPT !.todo = <<>>, !.src = 1, !.sum = 0]
<1>0. <<>> \in Seq(Side)
  OBVIOUS
<1>1. Fields(m)
  BY <1>0 DEF Fields
<1>2. /\ m.pc = r.pc /\ m.kind = r.kind /\ m.fin = r.fin /\ m.side = r.side /\ m.user = r.user /\ m.task = r.task
      /\ m.by = r.by /\ m.leg = r.leg /\ m.entry = r.entry /\ m.tally = r.tally
      /\ m.todo = <<>> /\ m.src = 1 /\ m.sum = 0 /\ m.got = r.got
  BY DEF Fields
<1>3. Added(r) = IF r.tally THEN [m EXCEPT !.pc = IF r.kind = "finish" THEN "close" ELSE "prior"]
                 ELSE IF r.kind = "undo" THEN Conclude(m)
                 ELSE IF r.kind \in {"entry", "main"} THEN Blank
                 ELSE [m EXCEPT !.pc = "log"]
  BY DEF Added
<1> HIDE DEF m
<1>4. Carries(m)
  BY <1>2 DEF Carries
<1>5. r.tally \/ r.kind \in {"undo", "entry", "main"} \cup Edits
  BY DEF Carries, Kinds, Edits
<1>6. CASE r.tally
  <2> DEFINE x == IF r.kind = "finish" THEN "close" ELSE "prior"
             n == [m EXCEPT !.pc = x]
  <2>1. x \in Places /\ (r.kind = "finish" => x = "close") /\ (r.kind # "finish" => x = "prior")
    BY DEF Places
  <2>2. Added(r) = n
    BY <1>3, <1>6
  <2> HIDE DEF x
  <2>3. n.pc = x /\ Same(m, n) /\ Adds(m, n) /\ Fields(n)
    BY <1>1, <2>1, PlaceSet
  <2> HIDE DEF n
  <2>4. Same(r, n) /\ n.todo = <<>> /\ n.src = 1 /\ n.sum = 0 /\ n.got = r.got
    BY <1>2, <2>3 DEF Same, Adds
  <2>5. Carries(n)
    BY <1>2, <1>4, <1>6, <2>1, <2>3 DEF Carries, Same, Adds
  <2>6. n.pc = (IF r.kind = "finish" THEN "close" ELSE "prior")
    BY <2>1, <2>3
  <2> QED BY <1>6, <2>2, <2>3, <2>4, <2>5, <2>6
<1>7. CASE ~r.tally /\ r.kind = "undo"
  <2>1. Added(r) = Conclude(m)
    BY <1>3, <1>7
  <2> QED BY <1>1, <1>2, <1>4, <1>7, <2>1, ConcludeFacts DEF Edits
<1>8. CASE ~r.tally /\ r.kind \in {"entry", "main"}
  BY <1>3, <1>8, BlankFacts DEF Edits
<1>9. CASE ~r.tally /\ r.kind \in Edits
  <2> DEFINE n == [m EXCEPT !.pc = "log"]
  <2>1. Added(r) = n
    BY <1>3, <1>9 DEF Edits
  <2>2. "log" \in Places
    BY DEF Places
  <2>3. n.pc = "log" /\ Same(m, n) /\ Adds(m, n) /\ Fields(n)
    BY <1>1, <2>2, PlaceSet
  <2> HIDE DEF n
  <2>4. Same(r, n) /\ n.todo = <<>> /\ n.src = 1 /\ n.sum = 0 /\ n.got = r.got
    BY <1>2, <2>3 DEF Same, Adds
  <2>5. r.entry.type = r.kind
    BY <1>9 DEF Carries
  <2>6. Carries(n)
    BY <1>2, <1>4, <1>9, <2>3, <2>5 DEF Carries, Same, Adds
  <2> QED BY <1>9, <2>1, <2>3, <2>4, <2>6 DEF Edits
<1> QED BY <1>5, <1>6, <1>7, <1>8, <1>9

-------------------------------------------------------------------------------
(* What becomes of the tables.                                             *)

DbRow == /\ db.entry \in [Side -> Counts] /\ db.member \in [Side -> [User -> Counts]]
         /\ db.rows \subseteq Side \X User /\ db.main \in [Side -> Nat] /\ db.done \in [Task -> Marks]
         /\ db.taken \in [Legendary -> Side \cup {NoSide}] /\ db.spent \subseteq Legendary
LEMMA DbFacts == ASSUME TablesTyped PROVE DbRow
  BY DEF TablesTyped, Tables, DbRow

\* Everything but the marks, the counters of sides and the contracts.
LEMMA EntryChanges ==
  ASSUME TablesTyped, NEW s \in Side, NEW c \in Counts, db' = [db EXCEPT !.entry[s] = c]
  PROVE  /\ db' \in Tables /\ db'.entry = [db.entry EXCEPT ![s] = c] /\ db'.main = db.main /\ db'.done = db.done
         /\ db'.taken = db.taken /\ db'.spent = db.spent
  BY DEF TablesTyped, Tables

LEMMA MemberChanges ==
  ASSUME TablesTyped, NEW s \in Side, NEW u \in User, NEW was \in Counts, NEW now \in Counts,
         db' = MoveMember(s, u, was, now)
  PROVE  /\ db' \in Tables /\ (\A x \in Side \ {s} : db'.entry[x] = db.entry[x]) /\ db'.main = db.main
         /\ db'.done = db.done /\ db'.taken = db.taken /\ db'.spent = db.spent
         /\ was = now => db'.entry = db.entry
<1>1. CASE was = now
  BY <1>1 DEF MoveMember, TablesTyped
<1>2. CASE was # now
  <2> DEFINE c == [points |-> Larger(db.entry[s].points + now.points - was.points, 0),
                   knocks |-> Larger(db.entry[s].knocks + now.knocks - was.knocks, 0)]
  <2>1. db' = [db EXCEPT !.member[s][u] = now, !.rows = db.rows \cup {<<s, u>>}, !.entry[s] = c]
    BY <1>2 DEF MoveMember
  <2>2. /\ db.entry[s].points \in Nat /\ db.entry[s].knocks \in Nat /\ was.points \in Nat /\ was.knocks \in Nat
        /\ now.points \in Nat /\ now.knocks \in Nat
    BY DbFacts DEF DbRow, Counts
  <2>5. PICK a, b : a = db.entry[s].points + now.points - was.points /\ b = db.entry[s].knocks + now.knocks - was.knocks
    OBVIOUS
  <2>6. a \in Int /\ b \in Int
    BY <2>2, <2>5
  <2>7. Larger(a, 0) \in Nat /\ Larger(b, 0) \in Nat
    BY <2>6 DEF Larger
  <2>3. c \in Counts
    BY <2>5, <2>7 DEF Counts
  <2> HIDE DEF c
  <2> DEFINE M == [db.member EXCEPT ![s][u] = now]
             R == db.rows \cup {<<s, u>>}
             E == [db.entry EXCEPT ![s] = c]
  <2>8. M \in [Side -> [User -> Counts]] /\ R \subseteq Side \X User /\ E \in [Side -> Counts]
    BY <2>3, DbFacts DEF DbRow
  <2>9. db' = [db EXCEPT !.member = M, !.rows = R, !.entry = E]
    BY <2>1 DEF TablesTyped, Tables
  <2> HIDE DEF M, R, E
  <2>4. /\ db' \in Tables /\ db'.entry = E /\ db'.main = db.main
        /\ db'.done = db.done /\ db'.taken = db.taken /\ db'.spent = db.spent
    BY <2>8, <2>9 DEF TablesTyped, Tables
  <2>10. \A x \in Side \ {s} : E[x] = db.entry[x]
    BY DbFacts DEF DbRow, E
  <2> QED BY <1>2, <2>4, <2>10
<1> QED BY <1>1, <1>2

LEMMA MarkChanges ==
  ASSUME TablesTyped, NEW t \in Task, NEW m \in Marks, db' = [db EXCEPT !.done[t] = m]
  PROVE  /\ db' \in Tables /\ db'.entry = db.entry /\ db'.main = db.main /\ db'.taken = db.taken /\ db'.spent = db.spent
         /\ db'.done[t] = m /\ \A x \in Task \ {t} : db'.done[x] = db.done[x]
<1>1. /\ db' \in Tables /\ db'.entry = db.entry /\ db'.main = db.main /\ db'.taken = db.taken /\ db'.spent = db.spent
      /\ db'.done = [db.done EXCEPT ![t] = m]
  BY DEF TablesTyped, Tables
<1> QED BY <1>1, DbFacts DEF DbRow

LEMMA HolderChanges ==
  ASSUME TablesTyped, NEW l \in Legendary, NEW s \in Side \cup {NoSide}, db' = [db EXCEPT !.taken[l] = s]
  PROVE  /\ db' \in Tables /\ db'.entry = db.entry /\ db'.main = db.main /\ db'.done = db.done /\ db'.spent = db.spent
         /\ db'.taken[l] = s /\ \A x \in Legendary \ {l} : db'.taken[x] = db.taken[x]
<1>1. /\ db' \in Tables /\ db'.entry = db.entry /\ db'.main = db.main /\ db'.done = db.done /\ db'.spent = db.spent
      /\ db'.taken = [db.taken EXCEPT ![l] = s]
  BY DEF TablesTyped, Tables
<1> QED BY <1>1, DbFacts DEF DbRow

LEMMA SpentChanges ==
  ASSUME TablesTyped, NEW S \in SUBSET Legendary, db' = [db EXCEPT !.spent = S]
  PROVE  /\ db' \in Tables /\ db'.entry = db.entry /\ db'.main = db.main /\ db'.done = db.done /\ db'.taken = db.taken
         /\ db'.spent = S
  BY DEF TablesTyped, Tables

LEMMA MainChanges ==
  ASSUME TablesTyped, NEW s \in Side, NEW n \in Nat, db' = [db EXCEPT !.main[s] = n]
  PROVE  /\ db' \in Tables /\ db'.entry = db.entry /\ db'.main = [db.main EXCEPT ![s] = n] /\ db'.done = db.done
         /\ db'.taken = db.taken /\ db'.spent = db.spent
  BY DEF TablesTyped, Tables

\* Where a side's points come from stays as it is when its rows do.
LEMMA OtherSide ==
  ASSUME NEW s \in Side, db'.entry[s] = db.entry[s], db'.main[s] = db.main[s], db'.done = db.done, db'.taken = db.taken
  PROVE  Sources(db, s)' = Sources(db, s) /\ Breakdown(db, s)' = Breakdown(db, s)
<1>1. \A t \in Task : TaskPoints(db', t, s) = TaskPoints(db, t, s)
  BY DEF TaskPoints
<1> QED BY <1>1, SourcesSame

LEMMA OtherMark ==
  ASSUME NEW s \in Side, db'.entry = db.entry, db'.main = db.main, db'.taken = db.taken,
         NEW t \in Task, \A x \in Task \ {t} : db'.done[x] = db.done[x], db.done[t].by # s, db'.done[t].by # s
  PROVE  Sources(db, s)' = Sources(db, s) /\ Breakdown(db, s)' = Breakdown(db, s)
<1>1. \A x \in Task : TaskPoints(db', x, s) = TaskPoints(db, x, s)
  BY DEF TaskPoints
<1> QED BY <1>1, SourcesSame

LEMMA OtherHolder ==
  ASSUME NEW s \in Side, db'.entry = db.entry, db'.main = db.main, db'.done = db.done,
         NEW l \in Legendary, \A x \in Legendary \ {l} : db'.taken[x] = db.taken[x], db.taken[l] # s, db'.taken[l] # s
  PROVE  Sources(db, s)' = Sources(db, s) /\ Breakdown(db, s)' = Breakdown(db, s)
<1>1. \A x \in Task : TaskPoints(db', x, s) = TaskPoints(db, x, s)
  BY DEF TaskPoints
<1> QED BY <1>1, SourcesSame

-------------------------------------------------------------------------------
(* One statement of a request: what it leaves of the tables and of itself. *)

Steps(p) == Others(p) /\ Typed' /\ UNCHANGED load

LEMMA RequestFacts == ASSUME Typed, NEW p \in Request PROVE Fields(req[p]) /\ Carries(req[p])
  BY DEF Typed, ReqTyped

LEMMA TablesSame == ASSUME TablesTyped, UNCHANGED <<load, db, total, match>> PROVE TablesTyped'
  BY DEF TablesTyped

LEMMA TablesMove == ASSUME TablesTyped, UNCHANGED <<load, total, match>>, db' \in Tables PROVE TablesTyped'
  BY DEF TablesTyped

LEMMA LogSame == ASSUME LogTyped, UNCHANGED log PROVE LogTyped'
  BY DEF LogTyped

\* A statement that changes no table.
LEMMA OnlyServed ==
  ASSUME Typed, NEW p \in Request, NEW r, Serve(p, r), Fields(r), Carries(r), UNCHANGED <<load, db, total, log, match>>
  PROVE  req'[p] = r /\ Steps(p)
<1>1. req'[p] = r /\ Others(p) /\ ReqTyped'
  BY Served DEF Typed
<1> QED BY <1>1, TablesSame, LogSame DEF Steps, Typed

LEMMA DbServed ==
  ASSUME Typed, NEW p \in Request, NEW r, Serve(p, r), Fields(r), Carries(r), UNCHANGED <<load, total, log, match>>,
         db' \in Tables
  PROVE  req'[p] = r /\ Steps(p)
<1>1. req'[p] = r /\ Others(p) /\ ReqTyped'
  BY Served DEF Typed
<1> QED BY <1>1, TablesMove, LogSame DEF Steps, Typed

LEMMA MatchServed ==
  ASSUME Typed, NEW p \in Request, NEW r, Serve(p, r), Fields(r), Carries(r), UNCHANGED <<load, db, total, log>>,
         match' \in Matches
  PROVE  req'[p] = r /\ Steps(p)
<1>1. req'[p] = r /\ Others(p) /\ ReqTyped'
  BY Served DEF Typed
<1>2. TablesTyped'
  BY DEF TablesTyped, Typed
<1> QED BY <1>1, <1>2, LogSame DEF Steps, Typed

LEMMA Gone ==
  ASSUME Typed, NEW p \in Request, ClientGone(p)
  PROVE  req'[p] = Blank /\ Steps(p) /\ UNCHANGED <<load, db, total, log, match>>
<1>1. Serve(p, Blank) /\ UNCHANGED <<load, db, total, log, match>>
  BY DEF ClientGone
<1> QED BY <1>1, BlankFacts, OnlyServed

ReadsCounts(p) == LET r == req[p] n == req'[p] IN
  /\ r.pc = "read" /\ n.pc = "write" /\ Same(r, n) /\ Adds(r, n) /\ r.side \in Side /\ r.user \in User \cup {NoUser}
  /\ n.seen = IF r.user = NoUser THEN db.entry[r.side] ELSE db.member[r.side][r.user]
  /\ n.held = (r.user # NoUser /\ <<r.side, r.user>> \in db.rows) /\ n.delta = r.delta
  /\ UNCHANGED <<db, total, log, match>>

LEMMA CountsRead == ASSUME Typed, NEW p \in Request, ReadCounts(p) PROVE Steps(p) /\ ReadsCounts(p)
<1> DEFINE r == req[p]
           c == IF r.user = NoUser THEN db.entry[r.side] ELSE db.member[r.side][r.user]
           h == r.user # NoUser /\ <<r.side, r.user>> \in db.rows
           n == [r EXCEPT !.pc = "write", !.seen = c, !.held = h]
<1>1. Serve(p, n) /\ r.pc = "read" /\ UNCHANGED <<load, db, total, log, match>>
  BY DEF ReadCounts, At, bounds
<1>2. Fields(r) /\ Carries(r)
  BY RequestFacts
<1>3. r.side \in Side /\ r.user \in User \cup {NoUser} /\ r.kind \in {"points", "knock", "undo"}
  BY <1>1, <1>2 DEF Fields, Carries
<1>4. c \in Counts /\ h \in BOOLEAN
  BY <1>3, DbFacts DEF DbRow, Typed
<1>5. /\ c = IF r.user = NoUser THEN db.entry[r.side] ELSE db.member[r.side][r.user]
      /\ h = (r.user # NoUser /\ <<r.side, r.user>> \in db.rows)
  OBVIOUS
<1> HIDE DEF c, h
<1>6. Fields(n)
  BY <1>2, <1>4 DEF Fields, Places
<1>7. /\ n.pc = "write" /\ n.kind = r.kind /\ n.fin = r.fin /\ n.side = r.side /\ n.user = r.user /\ n.task = r.task
      /\ n.by = r.by /\ n.leg = r.leg /\ n.entry = r.entry /\ n.tally = r.tally
      /\ n.todo = r.todo /\ n.src = r.src /\ n.sum = r.sum /\ n.got = r.got /\ n.seen = c /\ n.held = h
      /\ n.delta = r.delta
  BY <1>2 DEF Fields
<1> HIDE DEF n
<1>8. Carries(n)
  BY <1>1, <1>2, <1>3, <1>7 DEF Carries, Kinds
<1>9. req'[p] = n /\ Steps(p)
  BY <1>1, <1>6, <1>8, OnlyServed
<1> QED BY <1>1, <1>3, <1>5, <1>7, <1>9 DEF ReadsCounts, Same, Adds

\* What follows a correction.
LEMMA ScoredFacts ==
  ASSUME NEW r, Fields(r), Carries(r), r.pc = "write"
  PROVE  LET n == Scored(r) IN
         /\ Fields(n) /\ Carries(n)
         /\ r.kind = "undo" => n.pc = "erase" /\ Same(r, n) /\ n.todo = <<r.side>> /\ n.src = r.src /\ n.sum = r.sum
         /\ r.kind # "undo" /\ Applied(r) = 0 => n = Blank
         /\ r.kind # "undo" /\ Applied(r) # 0 =>
              n.pc = "sum" /\ n.kind = r.kind /\ n.fin = r.fin /\ ~n.tally /\ n.todo = <<r.side>> /\ n.entry.type = r.kind
              /\ n.src = r.src /\ n.sum = r.sum /\ n.entry.side = r.side /\ n.entry.user = r.user
              /\ n.entry.applied = Applied(r)
<1>1. r.kind \in {"points", "knock", "undo"} /\ r.side \in Side /\ r.user \in User \cup {NoUser} /\ ~r.tally
  BY DEF Carries, Fields
<1>2. <<r.side>> \in Seq(Side) /\ FALSE \in BOOLEAN /\ {"sum", "erase"} \subseteq Places
  BY <1>1 DEF Places
<1> DEFINE m == [r EXCEPT !.todo = <<r.side>>, !.held = FALSE]
<1>3. Fields(m)
  BY <1>2 DEF Fields
<1>4. /\ m.kind = r.kind /\ m.fin = r.fin /\ m.side = r.side /\ m.user = r.user /\ m.task = r.task
      /\ m.by = r.by /\ m.leg = r.leg /\ m.entry = r.entry /\ m.tally = r.tally
      /\ m.todo = <<r.side>> /\ m.src = r.src /\ m.sum = r.sum /\ m.got = r.got
  BY DEF Fields
<1>5. Scored(r) = IF r.kind = "undo" THEN [m EXCEPT !.pc = "erase"]
                  ELSE IF Applied(r) = 0 THEN Blank
                  ELSE [m EXCEPT !.pc = "sum", !.entry = [NoLog EXCEPT !.type = r.kind, !.side = r.side,
                                                             !.user = r.user, !.applied = Applied(r)]]
  BY DEF Scored
<1> HIDE DEF m
<1>6. CASE r.kind = "undo"
  <2> DEFINE n == [m EXCEPT !.pc = "erase"]
  <2>1. Scored(r) = n
    BY <1>5, <1>6
  <2>2. n.pc = "erase" /\ Same(m, n) /\ Adds(m, n) /\ Fields(n)
    BY <1>2, <1>3, PlaceSet
  <2> HIDE DEF n
  <2>3. Same(r, n) /\ n.todo = <<r.side>> /\ n.src = r.src /\ n.sum = r.sum /\ n.got = r.got
    BY <1>4, <2>2 DEF Same, Adds
  <2>4. Carries(n)
    BY <1>1, <1>6, <2>2, <2>3 DEF Carries, Same, Kinds, Edits
  <2> QED BY <1>6, <2>1, <2>2, <2>3, <2>4
<1>7. CASE r.kind # "undo" /\ Applied(r) = 0
  BY <1>5, <1>7, BlankFacts
<1>8. CASE r.kind # "undo" /\ Applied(r) # 0
  <2> DEFINE e == [NoLog EXCEPT !.type = r.kind, !.side = r.side, !.user = r.user, !.applied = Applied(r)]
             n == [m EXCEPT !.pc = "sum", !.entry = e]
  <2>1. Scored(r) = n
    BY <1>5, <1>8
  <2>2. r.kind \in {"points", "knock"}
    BY <1>1, <1>8
  <2>3. NoLog \in LogRow
    BY DEF NoLog, LogRow, NotDone, Marks
  <2>4. e \in LogRow
    BY <1>1, <2>2, <2>3, AfterFacts DEF LogRow, Types
  <2>5. e.type = r.kind /\ e.side = r.side /\ e.user = r.user /\ e.applied = Applied(r)
    BY <2>3 DEF LogRow
  <2> HIDE DEF e
  <2>6. /\ n.pc = "sum" /\ n.kind = m.kind /\ n.fin = m.fin /\ n.side = m.side /\ n.user = m.user /\ n.task = m.task
        /\ n.by = m.by /\ n.leg = m.leg /\ n.entry = e /\ n.tally = m.tally /\ Adds(m, n) /\ Fields(n)
    BY <1>2, <1>3, <2>4, EntrySet
  <2> HIDE DEF n
  <2>7. Says(n.entry)
    BY <1>1, <2>2, <2>5, <2>6 DEF Says, Types
  <2>8. Carries(n)
    BY <1>1, <1>4, <2>2, <2>5, <2>6, <2>7 DEF Carries, Adds, Kinds, Edits
  <2> QED BY <1>1, <1>4, <1>8, <2>1, <2>5, <2>6, <2>8 DEF Adds
<1> QED BY <1>6, <1>7, <1>8

\* A correction: nothing but the row of its side counts, and that only if it changed something.
Corrects(p) == LET r == req[p] IN
  /\ r.pc = "write" /\ r.side \in Side /\ req'[p] = Scored(r)
  /\ \A s \in Side : s # r.side \/ (Applied(r) = 0 /\ KnownBy(db, log, match, r)) => db'.entry[s] = db.entry[s]
  /\ db'.main = db.main /\ db'.done = db.done /\ db'.taken = db.taken /\ db'.spent = db.spent
  /\ UNCHANGED <<total, log, match>>

LEMMA CountsSaved == ASSUME Typed, NEW p \in Request, SaveCounts(p) \/ SaveMember(p) PROVE Steps(p) /\ Corrects(p)
<1> DEFINE r == req[p]
<1>1. Serve(p, Scored(r)) /\ r.pc = "write" /\ UNCHANGED <<load, total, log, match>>
  BY DEF SaveCounts, SaveMember, At, bounds
<1>2. Fields(r) /\ Carries(r) /\ TablesTyped
  BY RequestFacts DEF Typed
<1>3. r.side \in Side /\ r.user \in User \cup {NoUser} /\ r.seen \in Counts /\ After(r) \in Counts
      /\ (Applied(r) = 0 => After(r) = r.seen)
  BY <1>1, <1>2, AfterFacts DEF Fields, Carries
<1>4. /\ db' \in Tables /\ db'.main = db.main /\ db'.done = db.done /\ db'.taken = db.taken /\ db'.spent = db.spent
      /\ \A s \in Side : s # r.side \/ (Applied(r) = 0 /\ KnownBy(db, log, match, r)) => db'.entry[s] = db.entry[s]
  <2>1. CASE SaveCounts(p)
    <3>1. r.user = NoUser /\ (db' = db \/ db' = [db EXCEPT !.entry[r.side] = After(r)])
      BY <2>1 DEF SaveCounts
    <3>2. CASE db' = db
      BY <1>2, <3>2 DEF TablesTyped
    <3>3. CASE db' = [db EXCEPT !.entry[r.side] = After(r)]
      <4>1. /\ db' \in Tables /\ db'.entry = [db.entry EXCEPT ![r.side] = After(r)] /\ db'.main = db.main
            /\ db'.done = db.done /\ db'.taken = db.taken /\ db'.spent = db.spent
        BY <1>2, <1>3, <3>3, EntryChanges
      <4>2. KnownBy(db, log, match, r) => r.seen = db.entry[r.side]
        BY <1>1, <3>1 DEF KnownBy
      <4> QED BY <1>2, <1>3, <4>1, <4>2, DbFacts DEF DbRow
    <3> QED BY <3>1, <3>2, <3>3
  <2>2. CASE SaveMember(p)
    <3>1. r.user \in User /\ db' = MoveMember(r.side, r.user, r.seen, After(r))
      BY <1>3, <2>2 DEF SaveMember
    <3> QED BY <1>2, <1>3, <3>1, MemberChanges
  <2> QED BY <2>1, <2>2
<1>5. Fields(Scored(r)) /\ Carries(Scored(r))
  BY <1>1, <1>2, ScoredFacts
<1>6. req'[p] = Scored(r) /\ Steps(p)
  BY <1>1, <1>4, <1>5, DbServed
<1> QED BY <1>1, <1>3, <1>4, <1>6 DEF Corrects

\* The other side.
LEMMA OpponentFacts == ASSUME NEW s \in Side PROVE Opponent(s) \in Side /\ Opponent(s) # s
<1>1. \E x \in Side : x # s
  BY SeedFacts, ScoreAssumption
<1> QED BY <1>1 DEF Opponent

LEMMA OwnerFacts == ASSUME NEW t \in Task PROVE Owner[t] \in Side /\ Owner[t] # NoSide
  BY ScoreAssumption

\* What a mark names.
LEMMA MarkedFacts ==
  ASSUME NEW r, Fields(r), Carries(r), r.pc \in {"look", "mark"}
  PROVE  /\ Marked(r) \in Marks /\ Marked(r).by \in Side \cup {NoSide} /\ r.task \in Task
         /\ r.by = "owner" => Marked(r) = [by |-> Owner[r.task], user |-> r.user] /\ r.user \in Player(Owner[r.task])
         /\ r.by = "opponent" => Marked(r).by # Owner[r.task]
         /\ r.by = "none" => Marked(r) = NotDone
<1>1. r.task \in Task /\ r.by \in By /\ r.user \in User \cup {NoUser}
      /\ (r.by = "owner" => r.user \in Player(Owner[r.task]))
  BY DEF Carries, Fields
<1>2. Owner[r.task] \in Side /\ Opponent(Owner[r.task]) \in Side /\ Opponent(Owner[r.task]) # Owner[r.task]
  BY <1>1, OwnerFacts, OpponentFacts
<1>3. CASE r.by = "owner"
  BY <1>1, <1>2, <1>3 DEF Marked, Marks
<1>4. CASE r.by = "opponent"
  BY <1>1, <1>2, <1>4 DEF Marked, Marks
<1>5. CASE r.by = "none"
  BY <1>1, <1>2, <1>5 DEF Marked, Marks, NotDone
<1> QED BY <1>1, <1>3, <1>4, <1>5 DEF By

\* The totals of a set of sides are added up in some order.
LEMMA RecomputeFacts ==
  ASSUME NEW r, Fields(r), NEW S \in SUBSET Side, NEW n \in Recompute(r, S)
  PROVE  /\ n.pc = "sum" /\ Same(r, n) /\ ToSet(n.todo) = S /\ n.src = r.src /\ n.sum = r.sum /\ n.got = r.got /\ Fields(n)
         /\ n.todo \in Seq(Side)
<1>1. PICK o \in SetToAllKPermutations(S) : ToSet(o) = S /\ n = [r EXCEPT !.pc = "sum", !.todo = o]
  BY DEF Recompute
<1>2. PICK s \in SUBSET S : o \in SetToSeqs(s)
  BY <1>1 DEF SetToAllKPermutations
<1>3. IsFiniteSet(s)
  <2>1. s \subseteq {Seeds[1], Seeds[2]}
    BY SeedFacts DEF ToSet
  <2>2. IsFiniteSet({Seeds[1], Seeds[2]})
    <3>1. IsFiniteSet({Seeds[1]}) /\ {Seeds[1], Seeds[2]} = {Seeds[1]} \cup {Seeds[2]}
      BY FS_Singleton
    <3> QED BY <3>1, FS_AddElement
  <2> QED BY <2>1, <2>2, FS_Subset
<1>4. Cardinality(s) \in Nat
  BY <1>3, FS_CardinalityType
<1>5. o \in [1..Cardinality(s) -> s]
  BY <1>2 DEF SetToSeqs
<1>6. o \in [1..Cardinality(s) -> Side]
  BY <1>5
<1>7. o \in Seq(Side)
  BY <1>4, <1>6, IsASeq
<1> DEFINE m == [r EXCEPT !.pc = "sum", !.todo = o]
<1>8. m.pc = "sum" /\ Same(r, m) /\ m.todo = o /\ m.src = r.src /\ m.sum = r.sum /\ m.got = r.got /\ Fields(m)
  <2>1. "sum" \in Places
    BY DEF Places
  <2> QED BY <1>7, <2>1, TodoSet
<1>9. n = m
  BY <1>1
<1> HIDE DEF m
<1> QED BY <1>1, <1>7, <1>8, <1>9

LEMMA NoLogRow == NoLog \in LogRow /\ NoLog.type = "none" /\ NoLog.prev = NotDone
  BY DEF NoLog, LogRow, NotDone, Marks

LooksAtTask(p) == LET r == req[p] n == req'[p] IN
  /\ r.pc = "look" /\ UNCHANGED <<db, total, log, match>>
  /\ \/ n = Blank
     \/ /\ n.pc = "mark" /\ n.kind = r.kind /\ n.fin = r.fin /\ n.task = r.task /\ n.by = r.by /\ n.user = r.user
        /\ Adds(r, n) /\ n.entry.type = "task" /\ n.entry.task = r.task /\ n.entry.prev = db.done[r.task]
        /\ n.entry.side = Marked(n).by /\ ~n.tally /\ r.kind = "task"

LEMMA TaskLookedAt == ASSUME Typed, NEW p \in Request, LookAtTask(p) PROVE Steps(p) /\ LooksAtTask(p)
<1> DEFINE r == req[p]
           b == Marked(r).by
           w == db.done[r.task]
           e == [NoLog EXCEPT !.type = "task", !.task = r.task, !.side = b, !.prev = w]
           n == [r EXCEPT !.pc = "mark", !.entry = e]
<1>1. Serve(p, IF MayMark(r, e.prev) THEN n ELSE Blank) /\ r.pc = "look" /\ UNCHANGED <<load, db, total, log, match>>
  BY DEF LookAtTask, At, bounds
<1>2. Fields(r) /\ Carries(r) /\ r.kind = "task" /\ r.task \in Task /\ ~r.tally
  BY <1>1, RequestFacts DEF Carries, Fields
<1>3. b \in Side \cup {NoSide} /\ w \in Marks
  BY <1>1, <1>2, MarkedFacts, DbFacts DEF DbRow, Typed
<1>4. w = db.done[r.task] /\ b = Marked(r).by
  OBVIOUS
<1> HIDE DEF b, w
<1>5. e \in LogRow
  BY <1>2, <1>3, NoLogRow DEF LogRow, Types
<1>6. e.type = "task" /\ e.task = r.task /\ e.side = b /\ e.prev = w
  BY NoLogRow DEF LogRow
<1> HIDE DEF e
<1>7. "mark" \in Places
  BY DEF Places
<1>8. /\ n.pc = "mark" /\ n.kind = r.kind /\ n.fin = r.fin /\ n.side = r.side /\ n.user = r.user /\ n.task = r.task
      /\ n.by = r.by /\ n.leg = r.leg /\ n.entry = e /\ n.tally = r.tally /\ Adds(r, n) /\ Fields(n)
  BY <1>2, <1>5, <1>7, EntrySet
<1> HIDE DEF n
<1>9. CASE MayMark(r, e.prev)
  <2>1. MayMark(n, n.entry.prev) /\ Marked(n) = Marked(r)
    BY <1>8, <1>9 DEF MayMark, Marked
  <2>2. Says(n.entry)
    BY <1>2, <1>6, <1>8 DEF Says, Types
  <2>3. Carries(n)
    BY <1>1, <1>2, <1>6, <1>8, <2>1, <2>2 DEF Carries, Adds, Kinds, Edits
  <2>4. req'[p] = n /\ Steps(p)
    BY <1>1, <1>8, <1>9, <2>3, OnlyServed
  <2> QED BY <1>1, <1>2, <1>4, <1>6, <1>8, <2>1, <2>4 DEF LooksAtTask
<1>10. CASE ~MayMark(r, e.prev)
  BY <1>1, <1>10, BlankFacts, OnlyServed DEF LooksAtTask
<1> QED BY <1>9, <1>10

WritesMark(p) == LET r == req[p] n == req'[p] IN
  /\ r.pc = "mark" /\ r.kind = "task" /\ ~r.tally /\ r.task \in Task /\ Marked(r) \in Marks
  /\ db' \in Tables /\ db'.entry = db.entry /\ db'.main = db.main /\ db'.taken = db.taken /\ db'.spent = db.spent
  /\ db'.done[r.task] = Marked(r) /\ \A x \in Task \ {r.task} : db'.done[x] = db.done[x]
  /\ n.pc = "sum" /\ Same(r, n) /\ ToSet(n.todo) = {r.entry.prev.by, Marked(r).by} \ {NoSide}
  /\ n.src = r.src /\ n.sum = r.sum /\ n.got = r.got
  /\ UNCHANGED <<total, log, match>>

LEMMA MarkWritten == ASSUME Typed, NEW p \in Request, WriteMark(p) PROVE Steps(p) /\ WritesMark(p)
<1> DEFINE r == req[p]
           S == {r.entry.prev.by, Marked(r).by} \ {NoSide}
<1>1. r.pc = "mark" /\ db' = [db EXCEPT !.done[r.task] = Marked(r)] /\ UNCHANGED <<load, total, log, match>>
  BY DEF WriteMark, At, bounds
<1>2. PICK n \in Recompute(r, S) : Serve(p, n)
  BY DEF WriteMark
<1>3. Fields(r) /\ Carries(r) /\ r.kind = "task" /\ r.task \in Task /\ ~r.tally /\ TablesTyped
      /\ r.entry.type = "task" /\ Says(r.entry)
  BY <1>1, RequestFacts DEF Carries, Fields, Typed
<1>4. Marked(r) \in Marks /\ Marked(r).by \in Side \cup {NoSide}
  BY <1>1, <1>3, MarkedFacts
<1>5. r.entry.prev.by \in Side \cup {NoSide}
  BY <1>3 DEF Fields, LogRow, Marks
<1>6. S \in SUBSET Side
  BY <1>4, <1>5
<1>7. /\ db' \in Tables /\ db'.entry = db.entry /\ db'.main = db.main /\ db'.taken = db.taken /\ db'.spent = db.spent
      /\ db'.done[r.task] = Marked(r) /\ \A x \in Task \ {r.task} : db'.done[x] = db.done[x]
  BY <1>1, <1>3, <1>4, MarkChanges
<1>8. /\ n.pc = "sum" /\ Same(r, n) /\ ToSet(n.todo) = S /\ n.src = r.src /\ n.sum = r.sum /\ n.got = r.got /\ Fields(n)
  BY <1>3, <1>6, RecomputeFacts
<1>9. Carries(n)
  BY <1>1, <1>3, <1>8 DEF Carries, Same, Kinds, Edits
<1>10. req'[p] = n /\ Steps(p)
  BY <1>1, <1>2, <1>7, <1>8, <1>9, DbServed
<1> QED BY <1>1, <1>3, <1>4, <1>7, <1>8, <1>10 DEF WritesMark

CompletesContract(p) == LET r == req[p] n == req'[p] IN
  /\ r.pc = "complete" /\ r.kind = "legendary" /\ r.leg \in Legendary /\ r.side \in Side
  /\ UNCHANGED <<total, log, match>>
  /\ \/ n = Blank /\ UNCHANGED db
     \/ /\ db.taken[r.leg] = NoSide /\ db' \in Tables /\ db'.entry = db.entry /\ db'.main = db.main
        /\ db'.done = db.done /\ db'.spent = db.spent
        /\ db'.taken[r.leg] = r.side /\ \A x \in Legendary \ {r.leg} : db'.taken[x] = db.taken[x]
        /\ n.pc = "spend" /\ n.kind = r.kind /\ n.fin = r.fin /\ n.side = r.side /\ n.leg = r.leg /\ Adds(r, n)
        /\ n.entry.type = "legendary" /\ n.entry.side = r.side /\ n.entry.leg = r.leg /\ ~n.tally

LEMMA ContractCompleted == ASSUME Typed, NEW p \in Request, InsertCompletion(p) PROVE Steps(p) /\ CompletesContract(p)
<1> DEFINE r == req[p]
           e == [NoLog EXCEPT !.type = "legendary", !.side = r.side, !.leg = r.leg]
           n == [r EXCEPT !.pc = "spend", !.entry = e]
<1>1. r.pc = "complete" /\ UNCHANGED <<load, total, log, match>>
  BY DEF InsertCompletion, At, bounds
<1>2. Fields(r) /\ Carries(r) /\ r.kind = "legendary" /\ r.leg \in Legendary /\ r.side \in Side /\ ~r.tally /\ TablesTyped
  BY <1>1, RequestFacts DEF Carries, Fields, Typed
<1>3. CASE db.taken[r.leg] # NoSide
  <2>1. Serve(p, Blank) /\ UNCHANGED db
    BY <1>3 DEF InsertCompletion
  <2> QED BY <1>1, <1>2, <2>1, BlankFacts, OnlyServed DEF CompletesContract
<1>4. CASE db.taken[r.leg] = NoSide
  <2>1. Serve(p, n) /\ db' = [db EXCEPT !.taken[r.leg] = r.side]
    BY <1>4 DEF InsertCompletion
  <2>2. e \in LogRow
    BY <1>2, NoLogRow DEF LogRow, Types
  <2>3. e.type = "legendary" /\ e.leg = r.leg /\ e.side = r.side
    BY NoLogRow DEF LogRow
  <2> HIDE DEF e
  <2>4. "spend" \in Places
    BY DEF Places
  <2>5. /\ n.pc = "spend" /\ n.kind = r.kind /\ n.fin = r.fin /\ n.side = r.side /\ n.user = r.user /\ n.task = r.task
        /\ n.by = r.by /\ n.leg = r.leg /\ n.entry = e /\ n.tally = r.tally /\ Adds(r, n) /\ Fields(n)
    BY <1>2, <2>2, <2>4, EntrySet
  <2> HIDE DEF n
  <2>6. Says(n.entry)
    BY <1>2, <2>3, <2>5 DEF Says, Types
  <2>7. Carries(n)
    BY <1>1, <1>2, <2>3, <2>5, <2>6 DEF Carries, Adds, Kinds, Edits
  <2>8. /\ db' \in Tables /\ db'.entry = db.entry /\ db'.main = db.main /\ db'.done = db.done /\ db'.spent = db.spent
        /\ db'.taken[r.leg] = r.side /\ \A x \in Legendary \ {r.leg} : db'.taken[x] = db.taken[x]
    BY <1>2, <2>1, HolderChanges
  <2>9. req'[p] = n /\ Steps(p)
    BY <1>1, <2>1, <2>5, <2>7, <2>8, DbServed
  <2> QED BY <1>1, <1>2, <1>4, <2>3, <2>5, <2>8, <2>9 DEF CompletesContract
<1> QED BY <1>3, <1>4

SpendsContract(p) == LET r == req[p] n == req'[p] IN
  /\ r.pc = "spend" /\ r.kind = "legendary" /\ r.leg \in Legendary /\ r.side \in Side /\ ~r.tally
  /\ db' \in Tables /\ db'.entry = db.entry /\ db'.main = db.main /\ db'.done = db.done /\ db'.taken = db.taken
  /\ db'.spent = db.spent \cup {r.leg}
  /\ n.pc = "sum" /\ Same(r, n) /\ n.todo = <<r.side>> /\ n.src = r.src /\ n.sum = r.sum
  /\ UNCHANGED <<total, log, match>>

LEMMA ContractSpent == ASSUME Typed, NEW p \in Request, MarkSpent(p) PROVE Steps(p) /\ SpendsContract(p)
<1> DEFINE r == req[p]
           n == [r EXCEPT !.pc = "sum", !.todo = <<r.side>>]
           S == db.spent \cup {r.leg}
<1>1. r.pc = "spend" /\ Serve(p, n) /\ UNCHANGED <<load, total, log, match>>
  BY DEF MarkSpent, At, bounds
<1>2. Fields(r) /\ Carries(r) /\ r.kind = "legendary" /\ r.leg \in Legendary /\ r.side \in Side /\ ~r.tally /\ TablesTyped
  BY <1>1, RequestFacts DEF Carries, Fields, Typed
<1>3. db' = [db EXCEPT !.spent = S]
  BY DEF MarkSpent
<1>4. S \in SUBSET Legendary
  BY <1>2, DbFacts DEF DbRow
<1>5. /\ db' \in Tables /\ db'.entry = db.entry /\ db'.main = db.main /\ db'.done = db.done /\ db'.taken = db.taken
      /\ db'.spent = S
  BY <1>2, <1>3, <1>4, SpentChanges
<1>6. "sum" \in Places /\ <<r.side>> \in Seq(Side)
  BY <1>2 DEF Places
<1>7. n.pc = "sum" /\ Same(r, n) /\ n.todo = <<r.side>> /\ n.src = r.src /\ n.sum = r.sum /\ n.got = r.got /\ Fields(n)
  BY <1>2, <1>6, TodoSet
<1> HIDE DEF n
<1>8. Carries(n)
  BY <1>1, <1>2, <1>7 DEF Carries, Same, Kinds, Edits
<1>9. req'[p] = n /\ Steps(p)
  BY <1>1, <1>5, <1>7, <1>8, DbServed
<1> QED BY <1>1, <1>2, <1>5, <1>7, <1>9 DEF SpendsContract

PutsEntry(p) == LET r == req[p] n == req'[p] IN
  /\ r.pc = "put" /\ r.kind \in {"entry", "main"} /\ r.side \in Side /\ ~r.tally
  /\ db' \in Tables /\ (\A s \in Side \ {r.side} : db'.entry[s] = db.entry[s] /\ db'.main[s] = db.main[s])
  /\ db'.done = db.done /\ db'.taken = db.taken /\ db'.spent = db.spent
  /\ n.pc = "sum" /\ Same(r, n) /\ n.todo = <<r.side>> /\ n.src = r.src /\ n.sum = r.sum
  /\ UNCHANGED <<total, log, match>>

LEMMA EntryPut == ASSUME Typed, NEW p \in Request, PutEntry(p) PROVE Steps(p) /\ PutsEntry(p)
<1> DEFINE r == req[p]
           n == [r EXCEPT !.pc = "sum", !.todo = <<r.side>>]
<1>1. r.pc = "put" /\ Serve(p, n) /\ UNCHANGED <<load, total, log, match>>
  BY DEF PutEntry, At, bounds
<1>2. Fields(r) /\ Carries(r) /\ r.kind \in {"entry", "main"} /\ r.side \in Side /\ ~r.tally /\ TablesTyped /\ r.delta \in Int
  BY <1>1, RequestFacts DEF Carries, Fields, Typed
<1>3. /\ db' \in Tables /\ (\A s \in Side \ {r.side} : db'.entry[s] = db.entry[s] /\ db'.main[s] = db.main[s])
      /\ db'.done = db.done /\ db'.taken = db.taken /\ db'.spent = db.spent
  <2>1. CASE r.kind = "entry"
    <3> DEFINE c == [db.entry[r.side] EXCEPT !.points = Larger(r.delta, 0)]
    <3>1. db' = [db EXCEPT !.entry[r.side] = c]
      BY <2>1 DEF PutEntry
    <3>2. Larger(r.delta, 0) \in Nat
      BY <1>2 DEF Larger
    <3>3. c \in Counts
      BY <1>2, <3>2, DbFacts DEF DbRow, Counts
    <3> HIDE DEF c
    <3>4. /\ db' \in Tables /\ db'.entry = [db.entry EXCEPT ![r.side] = c] /\ db'.main = db.main
          /\ db'.done = db.done /\ db'.taken = db.taken /\ db'.spent = db.spent
      BY <1>2, <3>1, <3>3, EntryChanges
    <3> QED BY <1>2, <3>4, DbFacts DEF DbRow
  <2>2. CASE r.kind = "main"
    <3>1. PICK k : k = db.main[r.side] + r.delta
      OBVIOUS
    <3>2. k \in Int
      BY <1>2, <3>1, DbFacts DEF DbRow
    <3>3. Larger(k, 0) \in Nat
      BY <3>2 DEF Larger
    <3>4. db' = [db EXCEPT !.main[r.side] = Larger(k, 0)]
      BY <2>2, <3>1 DEF PutEntry
    <3>5. /\ db' \in Tables /\ db'.entry = db.entry /\ db'.main = [db.main EXCEPT ![r.side] = Larger(k, 0)]
          /\ db'.done = db.done /\ db'.taken = db.taken /\ db'.spent = db.spent
      BY <1>2, <3>3, <3>4, MainChanges
    <3> QED BY <1>2, <3>5, DbFacts DEF DbRow
  <2> QED BY <1>2, <2>1, <2>2
<1>6. "sum" \in Places /\ <<r.side>> \in Seq(Side)
  BY <1>2 DEF Places
<1>7. n.pc = "sum" /\ Same(r, n) /\ n.todo = <<r.side>> /\ n.src = r.src /\ n.sum = r.sum /\ n.got = r.got /\ Fields(n)
  BY <1>2, <1>6, TodoSet
<1> HIDE DEF n
<1>8. Carries(n)
  BY <1>1, <1>2, <1>7 DEF Carries, Same, Kinds, Edits
<1>9. req'[p] = n /\ Steps(p)
  BY <1>1, <1>3, <1>7, <1>8, DbServed
<1> QED BY <1>1, <1>2, <1>3, <1>7, <1>9 DEF PutsEntry

LEMMA IntervalFacts == ASSUME NEW n \in Nat PROVE IsFiniteSet(1..n) /\ Cardinality(1..n) = n
<1>1. IsFiniteSet(1..n) /\ Cardinality(1..n) = IF 1 > n THEN 0 ELSE n - 1 + 1
  BY FS_Interval
<1>2. (IF 1 > n THEN 0 ELSE n - 1 + 1) = n
  OBVIOUS
<1> QED BY <1>1, <1>2

\* Two sets of taken numbers leave one free among more numbers than both have.
LEMMA NumberFree ==
  ASSUME NEW A, NEW B, IsFiniteSet(A), IsFiniteSet(B), NEW a \in Nat, NEW b \in Nat,
         Cardinality(A) <= a, Cardinality(B) <= b
  PROVE  \E n \in 1..(a + b + 1) : n \notin A \cup B
<1>1. IsFiniteSet(A \cup B) /\ Cardinality(A \cup B) = Cardinality(A) + Cardinality(B) - Cardinality(A \cap B)
  BY FS_Union
<1>2. IsFiniteSet(A \cap B) /\ Cardinality(A \cap B) \in Nat /\ Cardinality(A) \in Nat /\ Cardinality(B) \in Nat
  BY FS_Subset, FS_CardinalityType
<1>3. Cardinality(1..(a + b + 1)) = a + b + 1
  BY IntervalFacts
<1>4. SUFFICES ASSUME 1..(a + b + 1) \in SUBSET (A \cup B) PROVE FALSE
  OBVIOUS
<1>5. Cardinality(1..(a + b + 1)) <= Cardinality(A \cup B)
  BY <1>1, <1>4, FS_Subset
<1> QED BY <1>1, <1>2, <1>3, <1>5

\* A number no row of the log and no request has yet.
LEMMA FreshFacts ==
  ASSUME Typed
  PROVE  FreshId \in Nat /\ \A i \in 1..Len(log) : log[i].id # FreshId
<1> DEFINE L == Len(log)
           C == Cardinality(Request)
           N == L + C + 1
           A == {n \in 1..N : \E i \in 1..L : log[i].id = n}
           B == {n \in 1..N : \E p \in Request : req[p].entry.id = n}
<1>1. L \in Nat /\ C \in Nat /\ N \in Nat /\ N = L + C + 1 /\ IsFiniteSet(Request)
  <2>1. L \in Nat
    BY DEF Typed, LogTyped
  <2>2. C \in Nat /\ IsFiniteSet(Request)
    BY ScoreAssumption, FS_CardinalityType
  <2> QED BY <2>1, <2>2
<1>2. Cardinality(A) <= L /\ IsFiniteSet(A) /\ Cardinality(A) \in Nat
  <2> DEFINE f == [n \in A |-> CHOOSE i \in 1..L : log[i].id = n]
  <2>1. \A n \in A : f[n] \in 1..L /\ log[f[n]].id = n
    OBVIOUS
  <2>2. f \in Injection(A, 1..L)
    <3>1. f \in [A -> 1..L]
      BY <2>1
    <3> HIDE DEF f
    <3> QED BY <2>1, <3>1 DEF Injection, IsInjective
  <2>3. IsFiniteSet(1..L) /\ Cardinality(1..L) = L
    <3> HIDE DEF L
    <3> QED BY <1>1, IntervalFacts
  <2>4. IsFiniteSet(A) /\ Cardinality(A) <= Cardinality(1..L)
    <3> HIDE DEF f
    <3> QED BY <2>2, <2>3, FS_Injection
  <2> QED BY <2>3, <2>4, FS_CardinalityType
<1>3. Cardinality(B) <= C /\ IsFiniteSet(B) /\ Cardinality(B) \in Nat
  <2> DEFINE f == [n \in B |-> CHOOSE p \in Request : req[p].entry.id = n]
  <2>1. \A n \in B : f[n] \in Request /\ req[f[n]].entry.id = n
    OBVIOUS
  <2>2. f \in Injection(B, Request)
    <3>1. f \in [B -> Request]
      BY <2>1
    <3> HIDE DEF f
    <3> QED BY <2>1, <3>1 DEF Injection, IsInjective
  <2>4. IsFiniteSet(B) /\ Cardinality(B) <= Cardinality(Request)
    <3> HIDE DEF f
    <3> QED BY <1>1, <2>2, FS_Injection
  <2> QED BY <2>4, FS_CardinalityType
<1>4. \E n \in 1..N : n \notin A \cup B
  <2> HIDE DEF A, B, L, C
  <2> QED BY <1>1, <1>2, <1>3, NumberFree
<1>5. PICK n \in 1..N : n \notin A \cup B
  BY <1>4
<1>6. (\A i \in 1..L : log[i].id # n) /\ (\A p \in Request : req[p].entry.id # n)
  BY <1>5
<1>7. FreshId \in 1..N /\ \A i \in 1..L : log[i].id # FreshId
  BY <1>5, <1>6 DEF FreshId
<1> QED BY <1>1, <1>7

ReadsSource(p) == LET r == req[p] n == req'[p] IN
  /\ r.pc = "sum" /\ r.todo # <<>> /\ r.src <= 4 /\ Head(r.todo) \in Side /\ r.src \in Nat
  /\ n.pc = "sum" /\ Same(r, n) /\ n.todo = r.todo /\ n.got = r.got /\ n.src = r.src + 1
  /\ n.sum = r.sum + Sources(db, Head(r.todo))[r.src]
  /\ UNCHANGED <<db, total, log, match>>

LEMMA SourceRead == ASSUME Typed, NEW p \in Request, ReadSource(p) PROVE Steps(p) /\ ReadsSource(p)
<1> DEFINE r == req[p]
           x == r.src + 1
           y == r.sum + Sources(db, Head(r.todo))[r.src]
           n == [r EXCEPT !.src = x, !.sum = y]
<1>1. r.pc = "sum" /\ r.todo # <<>> /\ r.src <= 4 /\ Serve(p, n) /\ UNCHANGED <<load, db, total, log, match>>
  BY DEF ReadSource, At, bounds
<1>2. Fields(r) /\ Carries(r) /\ r.todo \in Seq(Side)
  BY RequestFacts DEF Fields
<1>3. Head(r.todo) \in Side /\ x \in Nat /\ r.src \in Nat
  BY <1>1, <1>2 DEF Fields
<1>4. x = r.src + 1 /\ y = r.sum + Sources(db, Head(r.todo))[r.src]
  OBVIOUS
<1> HIDE DEF x, y
<1>5. /\ n.pc = r.pc /\ n.kind = r.kind /\ n.fin = r.fin /\ n.side = r.side /\ n.user = r.user /\ n.task = r.task
      /\ n.by = r.by /\ n.leg = r.leg /\ n.entry = r.entry /\ n.tally = r.tally
      /\ n.todo = r.todo /\ n.src = x /\ n.sum = y /\ n.got = r.got
  BY <1>2 DEF Fields
<1>6. Fields(n)
  BY <1>2, <1>3 DEF Fields
<1> HIDE DEF n
<1>7. Carries(n)
  BY <1>1, <1>2, <1>5 DEF Carries
<1>8. req'[p] = n /\ Steps(p)
  BY <1>1, <1>6, <1>7, OnlyServed
<1> QED BY <1>1, <1>3, <1>4, <1>5, <1>8 DEF ReadsSource, Same

\* A total is saved: m is the request before it goes on.
SavesTotal(p) == LET r == req[p] IN
  /\ r.pc = "sum" /\ r.todo # <<>> /\ r.src > 4 /\ Head(r.todo) \in Side /\ r.todo \in Seq(Side) /\ r.src \in Nat
  /\ total'[Head(r.todo)] = r.sum /\ (\A s \in Side \ {Head(r.todo)} : total'[s] = total[s])
  /\ UNCHANGED <<db, log, match>>
  /\ \E m : /\ m.pc = "sum" /\ Same(r, m) /\ m.todo = Tail(r.todo) /\ m.src = 1 /\ m.sum = 0
            /\ r.tally => m.got[Head(r.todo)] = r.sum
            /\ \A s \in Side \ {Head(r.todo)} : m.got[s] = r.got[s]
            /\ Fields(m) /\ Carries(m)
            /\ m.todo = <<>> => req'[p] = Added(m)
            /\ m.todo # <<>> => req'[p] = m

LEMMA TotalSaved == ASSUME Typed, NEW p \in Request, SaveTotal(p) PROVE Steps(p) /\ SavesTotal(p)
<1> DEFINE r == req[p]
           h == Head(r.todo)
           q == Tail(r.todo)
           g == IF r.tally THEN [r.got EXCEPT ![h] = r.sum] ELSE r.got
           m == [r EXCEPT !.todo = q, !.src = 1, !.sum = 0, !.got = g]
<1>1. r.pc = "sum" /\ r.todo # <<>> /\ r.src > 4 /\ total' = [total EXCEPT ![h] = r.sum] /\ UNCHANGED <<load, db, log, match>>
      /\ Serve(p, IF m.todo = <<>> THEN Added(m) ELSE m)
  BY DEF SaveTotal, At, bounds
<1>2. Fields(r) /\ Carries(r) /\ r.todo \in Seq(Side) /\ r.got = [s \in Side |-> r.got[s]] /\ r.src \in Nat
  BY RequestFacts DEF Fields, Carries
<1>3. h \in Side /\ q \in Seq(Side)
  BY <1>1, <1>2, HeadTailProperties
<1>4. /\ g = [s \in Side |-> g[s]] /\ (r.tally => g[h] = r.sum)
      /\ \A s \in Side \ {h} : g[s] = r.got[s]
  BY <1>2, <1>3
<1>5. h = Head(r.todo) /\ q = Tail(r.todo)
  OBVIOUS
<1> HIDE DEF h, q, g
<1>6. /\ m.pc = r.pc /\ m.kind = r.kind /\ m.fin = r.fin /\ m.side = r.side /\ m.user = r.user /\ m.task = r.task
      /\ m.by = r.by /\ m.leg = r.leg /\ m.entry = r.entry /\ m.tally = r.tally
      /\ m.todo = q /\ m.src = 1 /\ m.sum = 0 /\ m.got = g
  BY <1>2 DEF Fields
<1>7. Fields(m)
  BY <1>2, <1>3 DEF Fields
<1> HIDE DEF m
<1>8. Carries(m)
  BY <1>1, <1>2, <1>4, <1>6 DEF Carries
<1> DEFINE n == IF m.todo = <<>> THEN Added(m) ELSE m
<1>9. Fields(n) /\ Carries(n)
  BY <1>1, <1>6, <1>7, <1>8, AddedFacts
<1>10. (m.todo = <<>> => n = Added(m)) /\ (m.todo # <<>> => n = m) /\ Serve(p, n)
  BY <1>1
<1> HIDE DEF n
<1>11. req'[p] = n /\ Others(p) /\ ReqTyped'
  BY <1>9, <1>10, Served DEF Typed
<1>12. TablesTyped' /\ total'[h] = r.sum /\ \A s \in Side \ {h} : total'[s] = total[s]
  BY <1>1, <1>3 DEF TablesTyped, Typed
<1>13. Steps(p)
  BY <1>1, <1>11, <1>12, LogSame DEF Steps, Typed
<1>14. /\ m.pc = "sum" /\ Same(r, m) /\ m.todo = q /\ m.src = 1 /\ m.sum = 0
       /\ r.tally => m.got[h] = r.sum
  BY <1>1, <1>4, <1>6 DEF Same
<1>15. \A s \in Side \ {h} : m.got[s] = r.got[s]
  BY <1>4, <1>6
<1> QED BY <1>1, <1>2, <1>3, <1>5, <1>7, <1>8, <1>10, <1>11, <1>12, <1>13, <1>14, <1>15 DEF SavesTotal

AddsNothing(p) == req[p].pc = "sum" /\ req[p].todo = <<>> /\ req'[p] = Added(req[p]) /\ UNCHANGED <<db, total, log, match>>

LEMMA NothingAdded == ASSUME Typed, NEW p \in Request, NothingToAdd(p) PROVE Steps(p) /\ AddsNothing(p)
<1>1. req[p].pc = "sum" /\ req[p].todo = <<>> /\ Serve(p, Added(req[p])) /\ UNCHANGED <<load, db, total, log, match>>
  BY DEF NothingToAdd, At, bounds
<1>2. Fields(Added(req[p])) /\ Carries(Added(req[p]))
  BY <1>1, RequestFacts, AddedFacts
<1> QED BY <1>1, <1>2, OnlyServed DEF AddsNothing

\* The row of an edit is appended to the log.
Logs(p) == LET r == req[p] IN
  /\ r.pc = "log" /\ r.kind \in Edits /\ r.entry.type = r.kind /\ Fields(r) /\ Carries(r) /\ req'[p] = Conclude(r)
  /\ UNCHANGED <<db, total, match>>
  /\ \E e \in LogRow : /\ log' = Append(log, e) /\ e.type = r.entry.type /\ e.side = r.entry.side /\ e.task = r.entry.task
                       /\ e.prev = r.entry.prev /\ e.leg = r.entry.leg /\ e.user = r.entry.user
                       /\ e.applied = r.entry.applied

LEMMA Logged1 == ASSUME Typed, NEW p \in Request, AddMatchLog(p) PROVE Steps(p) /\ Logs(p)
<1> DEFINE r == req[p]
           f == FreshId
           e == [r.entry EXCEPT !.id = f]
<1>1. r.pc = "log" /\ log' = Append(log, e) /\ Serve(p, Conclude(r)) /\ UNCHANGED <<load, db, total, match>>
  BY DEF AddMatchLog, At, bounds
<1>2. Fields(r) /\ Carries(r) /\ r.kind \in Edits /\ r.entry.type = r.kind /\ r.entry \in LogRow /\ Says(r.entry)
  BY <1>1, RequestFacts DEF Carries, Fields, Edits
<1>3. f \in Nat /\ \A i \in 1..Len(log) : log[i].id # f
  BY FreshFacts
<1> HIDE DEF f
<1>4. /\ e \in LogRow /\ e.id = f /\ e.type = r.entry.type /\ e.side = r.entry.side /\ e.task = r.entry.task
      /\ e.prev = r.entry.prev /\ e.leg = r.entry.leg /\ e.user = r.entry.user /\ e.applied = r.entry.applied
  BY <1>2, <1>3 DEF LogRow
<1> HIDE DEF e
<1>5. Says(e)
  BY <1>2, <1>4 DEF Says
<1>6. Fields(Conclude(r)) /\ Carries(Conclude(r))
  BY <1>2, ConcludeFacts
<1>7. req'[p] = Conclude(r) /\ Others(p) /\ ReqTyped'
  BY <1>1, <1>6, Served DEF Typed
<1>8. TablesTyped'
  BY <1>1, TablesSame DEF Typed
<1>9. LogTyped'
  <2>1. log \in Seq(LogRow) /\ (\A i \in 1..Len(log) : Says(log[i])) /\ Len(log) \in Nat
        /\ \A i, j \in 1..Len(log) : log[i].id = log[j].id => i = j
    BY DEF Typed, LogTyped
  <2>2. /\ log' \in Seq(LogRow) /\ Len(log') = Len(log) + 1
        /\ \A i \in 1..Len(log) : log'[i] = log[i]
        /\ log'[Len(log) + 1] = e
    BY <1>1, <1>4, <2>1, AppendProperties
  <2>3. \A i \in 1..Len(log') : i \in 1..Len(log) \/ i = Len(log) + 1
    BY <2>1, <2>2
  <2>4. \A i \in 1..Len(log') : Says(log'[i])
    BY <1>5, <2>1, <2>2, <2>3
  <2>5. \A i, j \in 1..Len(log') : log'[i].id = log'[j].id => i = j
    BY <1>3, <1>4, <2>1, <2>2, <2>3
  <2> QED BY <2>2, <2>4, <2>5 DEF LogTyped
<1>10. Steps(p)
  BY <1>1, <1>7, <1>8, <1>9 DEF Steps, Typed
<1> QED BY <1>1, <1>2, <1>4, <1>7, <1>10 DEF Logs

\* Deciding the outcome.
LEMMA AheadType == ASSUME NEW f PROVE Ahead(f) \in Side \cup {NoSide}
  BY SeedFacts DEF Ahead

LEMMA MatchFacts == ASSUME Typed PROVE /\ match \in Matches /\ match.status \in {"live", "finished"}
                                       /\ match.winner \in Side \cup {NoSide}
  BY DEF Typed, TablesTyped, Matches

ClosesRounds(p) == LET r == req[p] n == req'[p] IN
  /\ r.pc = "close" /\ r.kind = "finish" /\ n.pc = "crown" /\ Same(r, n) /\ Adds(r, n) /\ UNCHANGED <<db, total, log>>
  /\ match'.status = match.status /\ match'.winner = match.winner /\ match'.rated = match.rated

LEMMA RoundsClosed == ASSUME Typed, NEW p \in Request, CloseRounds(p) PROVE Steps(p) /\ ClosesRounds(p)
<1> DEFINE r == req[p]
           n == [r EXCEPT !.pc = "crown"]
<1>1. r.pc = "close" /\ Serve(p, n) /\ match' = [match EXCEPT !.round = "finished"] /\ UNCHANGED <<load, db, total, log>>
  BY DEF CloseRounds, At, bounds
<1>2. Fields(r) /\ Carries(r) /\ r.kind = "finish" /\ "crown" \in Places
  BY <1>1, RequestFacts DEF Carries, Places
<1>3. n.pc = "crown" /\ Same(r, n) /\ Adds(r, n) /\ Fields(n)
  BY <1>2, PlaceSet
<1> HIDE DEF n
<1>4. Carries(n)
  BY <1>1, <1>2, <1>3 DEF Carries, Same, Adds, Kinds, Edits
<1>5. match' \in Matches /\ match'.status = match.status /\ match'.winner = match.winner /\ match'.rated = match.rated
  BY <1>1, MatchFacts DEF Matches
<1>6. req'[p] = n /\ Steps(p)
  BY <1>1, <1>3, <1>4, <1>5, MatchServed
<1> QED BY <1>1, <1>2, <1>3, <1>5, <1>6 DEF ClosesRounds

Finishes(p) == LET r == req[p] n == req'[p] IN
  /\ r.pc = "crown" /\ r.kind = "finish" /\ n.pc = "rate" /\ Same(r, n) /\ Adds(r, n) /\ UNCHANGED <<db, total, log>>
  /\ match'.status = "finished" /\ match'.winner = Ahead(r.got) /\ match'.rated = match.rated

LEMMA Finished == ASSUME Typed, NEW p \in Request, FinishTournament(p) PROVE Steps(p) /\ Finishes(p)
<1> DEFINE r == req[p]
           n == [r EXCEPT !.pc = "rate"]
           w == Ahead(r.got)
<1>1. /\ r.pc = "crown" /\ r.kind = "finish" /\ Serve(p, n) /\ UNCHANGED <<load, db, total, log>>
      /\ match' = [match EXCEPT !.status = "finished", !.winner = w]
  BY DEF FinishTournament, At, bounds
<1>2. Fields(r) /\ Carries(r) /\ "rate" \in Places /\ w \in Side \cup {NoSide} /\ w = Ahead(r.got)
  BY RequestFacts, AheadType DEF Places
<1> HIDE DEF w
<1>3. n.pc = "rate" /\ Same(r, n) /\ Adds(r, n) /\ Fields(n)
  BY <1>2, PlaceSet
<1> HIDE DEF n
<1>4. Carries(n)
  BY <1>1, <1>2, <1>3 DEF Carries, Same, Adds, Kinds, Edits
<1>5. match' \in Matches /\ match'.status = "finished" /\ match'.winner = w /\ match'.rated = match.rated
  BY <1>1, <1>2, MatchFacts DEF Matches
<1>6. req'[p] = n /\ Steps(p)
  BY <1>1, <1>3, <1>4, <1>5, MatchServed
<1> QED BY <1>1, <1>2, <1>3, <1>5, <1>6 DEF Finishes

ReadsWinner(p) == LET r == req[p] n == req'[p] IN
  /\ r.pc = "prior" /\ r.kind # "finish" /\ n.pc = "crown" /\ n.kind = r.kind /\ n.fin = r.fin /\ n.entry = r.entry
  /\ n.tally = r.tally /\ n.side = match.winner /\ Adds(r, n) /\ UNCHANGED <<db, total, log, match>>

LEMMA WinnerRead == ASSUME Typed, NEW p \in Request, ReadWinner(p) PROVE Steps(p) /\ ReadsWinner(p)
<1> DEFINE r == req[p]
           w == match.winner
           n == [r EXCEPT !.pc = "crown", !.side = w]
<1>1. r.pc = "prior" /\ Serve(p, n) /\ UNCHANGED <<load, db, total, log, match>>
  BY DEF ReadWinner, At, bounds
<1>2. Fields(r) /\ Carries(r) /\ r.kind # "finish" /\ "crown" \in Places /\ w \in Side \cup {NoSide} /\ w = match.winner
  BY <1>1, RequestFacts, MatchFacts DEF Carries, Places
<1> HIDE DEF w
<1>3. /\ n.pc = "crown" /\ n.kind = r.kind /\ n.fin = r.fin /\ n.side = w /\ n.user = r.user /\ n.task = r.task
      /\ n.by = r.by /\ n.leg = r.leg /\ n.entry = r.entry /\ n.tally = r.tally
      /\ n.todo = r.todo /\ n.src = r.src /\ n.sum = r.sum /\ n.got = r.got
  BY <1>2 DEF Fields
<1>4. Fields(n)
  BY <1>2 DEF Fields
<1> HIDE DEF n
<1>5. Carries(n)
  BY <1>1, <1>2, <1>3 DEF Carries, Kinds
<1>6. req'[p] = n /\ Steps(p)
  BY <1>1, <1>4, <1>5, OnlyServed
<1> QED BY <1>1, <1>2, <1>3, <1>6 DEF ReadsWinner, Adds

Recrowns(p) == LET r == req[p] n == req'[p] IN
  /\ r.pc = "crown" /\ r.kind # "finish" /\ UNCHANGED <<db, total, log>>
  /\ match'.status = match.status /\ match'.winner = Ahead(r.got) /\ match'.rated = match.rated
  /\ Ahead(r.got) = r.side => n = Blank
  /\ Ahead(r.got) # r.side => n.pc = "rate" /\ Same(r, n) /\ Adds(r, n)

LEMMA Recrowned == ASSUME Typed, NEW p \in Request, Recrown(p) PROVE Steps(p) /\ Recrowns(p)
<1> DEFINE r == req[p]
           n == [r EXCEPT !.pc = "rate"]
           w == Ahead(r.got)
           m == IF w = r.side THEN Blank ELSE n
<1>1. /\ r.pc = "crown" /\ r.kind # "finish" /\ Serve(p, m) /\ UNCHANGED <<load, db, total, log>>
      /\ match' = [match EXCEPT !.winner = w]
  BY DEF Recrown, At, bounds
<1>2. Fields(r) /\ Carries(r) /\ "rate" \in Places /\ w \in Side \cup {NoSide} /\ w = Ahead(r.got)
  BY RequestFacts, AheadType DEF Places
<1> HIDE DEF w
<1>3. n.pc = "rate" /\ Same(r, n) /\ Adds(r, n) /\ Fields(n)
  BY <1>2, PlaceSet
<1> HIDE DEF n
<1>4. Carries(n)
  BY <1>1, <1>2, <1>3 DEF Carries, Same, Adds, Kinds, Edits
<1>5. match' \in Matches /\ match'.status = match.status /\ match'.winner = w /\ match'.rated = match.rated
  BY <1>1, <1>2, MatchFacts DEF Matches
<1>6. Fields(m) /\ Carries(m) /\ (w = r.side => m = Blank) /\ (w # r.side => m = n)
  BY <1>3, <1>4, BlankFacts
<1> HIDE DEF m
<1>7. req'[p] = m /\ Steps(p)
  BY <1>1, <1>5, <1>6, MatchServed
<1> QED BY <1>1, <1>2, <1>3, <1>5, <1>6, <1>7 DEF Recrowns

Rates(p) ==
  /\ req[p].pc = "rate" /\ req'[p] = Blank /\ UNCHANGED <<db, total, log>>
  /\ match'.status = match.status /\ match'.winner = match.winner /\ match'.rated = match.winner

LEMMA Rated == ASSUME Typed, NEW p \in Request, Rate(p) PROVE Steps(p) /\ Rates(p)
<1>1. /\ req[p].pc = "rate" /\ Serve(p, Blank) /\ UNCHANGED <<load, db, total, log>>
      /\ match' = [match EXCEPT !.rated = match.winner]
  BY DEF Rate, At, bounds
<1>2. match' \in Matches /\ match'.status = match.status /\ match'.winner = match.winner /\ match'.rated = match.winner
  BY <1>1, MatchFacts DEF Matches
<1>3. req'[p] = Blank /\ Steps(p)
  BY <1>1, <1>2, BlankFacts, MatchServed
<1> QED BY <1>1, <1>2, <1>3 DEF Rates

-------------------------------------------------------------------------------
(* The statements of an undo.                                              *)

TakesLast(p) == LET r == req[p] n == req'[p] IN
  /\ r.pc = "take" /\ r.kind = "undo" /\ ~r.tally /\ UNCHANGED <<db, total, log, match>>
  /\ \/ n = Blank
     \/ /\ log # <<>> /\ Len(log) \in 1..Len(log) /\ n.entry = log[Len(log)]
        /\ n.kind = r.kind /\ n.fin = r.fin /\ n.tally = r.tally /\ Adds(r, n)
        /\ n.pc \in {"read", "restore", "holder"} /\ (n.pc = "restore" <=> n.entry.type = "task")
        /\ (n.pc = "holder" <=> n.entry.type = "legendary") /\ n.side = n.entry.side /\ n.user = n.entry.user
        /\ n.task = n.entry.task /\ n.leg = n.entry.leg /\ n.delta = -n.entry.applied

\* What an undo has of the row it takes back.
TakingBack(r, e, s, u, d, t, l) == [r EXCEPT !.entry = e, !.side = s, !.user = u, !.delta = d, !.task = t, !.leg = l]

LEMMA TakenRow ==
  ASSUME NEW r, Fields(r), NEW e \in LogRow, NEW s \in Side \cup {NoSide}, NEW u \in User \cup {NoUser}, NEW d \in Int,
         NEW t \in Task \cup {NoTask}, NEW l \in Legendary \cup {NoLegendary}
  PROVE  LET m == TakingBack(r, e, s, u, d, t, l) IN
         /\ Fields(m)
         /\ m.kind = r.kind /\ m.side = s /\ m.user = u /\ m.task = t
         /\ m.by = r.by /\ m.leg = l /\ m.entry = e
         /\ m.todo = r.todo /\ m.src = r.src /\ m.sum = r.sum /\ m.got = r.got
<1> DEFINE m == TakingBack(r, e, s, u, d, t, l)
<1>1. Fields(m)
  BY DEF Fields, TakingBack
<1>2. /\ m.kind = r.kind /\ m.side = s /\ m.user = u /\ m.task = t
      /\ m.by = r.by /\ m.leg = l /\ m.entry = e
      /\ m.todo = r.todo /\ m.src = r.src /\ m.sum = r.sum /\ m.got = r.got
  BY DEF Fields, TakingBack
<1> QED BY <1>1, <1>2

LEMMA LastTaken == ASSUME Typed, NEW p \in Request, TakeLast(p) PROVE Steps(p) /\ TakesLast(p)
<1> DEFINE r == req[p]
           e == log[Len(log)]
           x == CASE e.type = "task" -> "restore" [] e.type = "legendary" -> "holder" [] OTHER -> "read"
           d == -e.applied
           m == TakingBack(r, e, e.side, e.user, d, e.task, e.leg)
           n == [m EXCEPT !.pc = x]
<1>1. r.pc = "take" /\ Serve(p, IF log = <<>> THEN Blank ELSE n) /\ UNCHANGED <<load, db, total, log, match>>
  BY DEF TakeLast, At, bounds, TakingBack
<1>2. Fields(r) /\ Carries(r) /\ r.kind = "undo" /\ ~r.tally
  BY <1>1, RequestFacts DEF Carries
<1>3. CASE log = <<>>
  BY <1>1, <1>2, <1>3, BlankFacts, OnlyServed DEF TakesLast
<1>4. CASE log # <<>>
  <2>1. e \in LogRow /\ Says(e) /\ Len(log) \in 1..Len(log)
    <3>1. log \in Seq(LogRow) /\ \A i \in 1..Len(log) : Says(log[i])
      BY DEF Typed, LogTyped
    <3>2. Len(log) \in 1..Len(log)
      BY <1>4, <3>1
    <3> QED BY <3>1, <3>2, ElementOfSeq
  <2>2. /\ x \in Places /\ x \in {"read", "restore", "holder"} /\ (x = "restore" <=> e.type = "task")
        /\ (x = "holder" <=> e.type = "legendary")
    BY DEF Places
  <2>3. e = log[Len(log)] /\ d \in Int /\ d = -e.applied
    BY <2>1 DEF LogRow
  <2> HIDE DEF e, x, d
  <2>4a. /\ e.side \in Side \cup {NoSide} /\ e.user \in User \cup {NoUser}
         /\ e.task \in Task \cup {NoTask} /\ e.leg \in Legendary \cup {NoLegendary}
    BY <2>1 DEF LogRow
  <2>4. Fields(m)
    BY <1>2, <2>1, <2>3, <2>4a, TakenRow
  <2>5. /\ m.kind = r.kind /\ m.side = e.side /\ m.user = e.user /\ m.task = e.task
        /\ m.by = r.by /\ m.leg = e.leg /\ m.entry = e
        /\ m.todo = r.todo /\ m.src = r.src /\ m.sum = r.sum /\ m.got = r.got
    BY <1>2 DEF TakingBack, Fields
  <2>5a. m.fin = r.fin /\ m.tally = r.tally /\ m.delta = d
    BY <1>2 DEF TakingBack, Fields
  <2> HIDE DEF m
  <2>6. n.pc = x /\ Same(m, n) /\ Adds(m, n) /\ n.delta = m.delta /\ Fields(n)
    BY <2>2, <2>4, PlaceSet
  <2> HIDE DEF n
  <2>7. x = "read" => e.side \in Side
    BY <2>1, <2>2 DEF Says
  <2>8. x = "restore" => e.task \in Task
    BY <2>1, <2>2 DEF Says
  <2>9. x = "holder" => e.leg \in Legendary
    BY <2>1, <2>2 DEF Says
  <2>9a. /\ n.kind = "undo" /\ ~n.tally /\ n.pc = x /\ n.entry = e /\ n.side = e.side /\ n.task = e.task /\ n.leg = e.leg
         /\ n.got = r.got /\ r.got = [s \in Side |-> r.got[s]] /\ x \in {"read", "restore", "holder"}
    BY <1>2, <2>2, <2>5, <2>5a, <2>6 DEF Carries, Same, Adds
  <2>10. Carries(n)
    BY <2>1, <2>2, <2>7, <2>8, <2>9, <2>9a DEF Carries, Kinds, Edits
  <2>11. req'[p] = n /\ Steps(p)
    BY <1>1, <1>4, <2>6, <2>10, OnlyServed
  <2>12. n.fin = r.fin /\ n.tally = r.tally
    <3>1. n.fin = m.fin /\ n.tally = m.tally
      BY <2>6, Zenon DEF Same
    <3> QED BY <2>5a, <3>1, Zenon
  <2>13. /\ n.kind = r.kind /\ Adds(r, n) /\ n.entry = e /\ n.side = n.entry.side /\ n.user = n.entry.user
         /\ n.task = n.entry.task /\ n.leg = n.entry.leg
    BY <2>5, <2>6 DEF Same, Adds
  <2>14. n.delta = -n.entry.applied
    BY <2>3, <2>5a, <2>6, <2>13
  <2> QED BY <1>1, <1>2, <1>4, <2>1, <2>2, <2>3, <2>6, <2>11, <2>12, <2>13, <2>14 DEF TakesLast
<1> QED BY <1>3, <1>4

Restores(p) == LET r == req[p] n == req'[p] IN
  /\ r.pc = "restore" /\ r.kind = "undo" /\ r.task \in Task /\ ~r.tally /\ r.entry.task = r.task /\ r.entry.type = "task"
  /\ db' \in Tables /\ db'.entry = db.entry /\ db'.main = db.main /\ db'.taken = db.taken /\ db'.spent = db.spent
  /\ db'.done[r.task] = r.entry.prev /\ \A x \in Task \ {r.task} : db'.done[x] = db.done[x]
  /\ n.pc = "erase" /\ Same(r, n) /\ ToSet(n.todo) = {r.entry.prev.by, r.entry.side} \ {NoSide}
  /\ n.src = r.src /\ n.sum = r.sum
  /\ UNCHANGED <<total, log, match>>

LEMMA Restored == ASSUME Typed, NEW p \in Request, RestoreMark(p) PROVE Steps(p) /\ Restores(p)
<1> DEFINE r == req[p]
           e == r.entry
           S == {e.prev.by, e.side} \ {NoSide}
<1>1. r.pc = "restore" /\ db' = [db EXCEPT !.done[r.task] = e.prev] /\ UNCHANGED <<load, total, log, match>>
  BY DEF RestoreMark, At, bounds
<1>2. PICK m \in Recompute(r, S) : Serve(p, [m EXCEPT !.pc = "erase"])
  BY DEF RestoreMark
<1> DEFINE n == [m EXCEPT !.pc = "erase"]
<1>3. Fields(r) /\ Carries(r) /\ r.kind = "undo" /\ r.task \in Task /\ ~r.tally /\ TablesTyped
      /\ e.type = "task" /\ e.task = r.task /\ Says(e)
  BY <1>1, RequestFacts DEF Carries, Fields, Typed
<1>4. e.prev \in Marks /\ e.prev.by \in Side \cup {NoSide} /\ e.side \in Side \cup {NoSide}
  BY <1>3 DEF Fields, LogRow, Marks
<1>5. S \in SUBSET Side
  BY <1>4
<1>6. /\ db' \in Tables /\ db'.entry = db.entry /\ db'.main = db.main /\ db'.taken = db.taken /\ db'.spent = db.spent
      /\ db'.done[r.task] = e.prev /\ \A x \in Task \ {r.task} : db'.done[x] = db.done[x]
  BY <1>1, <1>3, <1>4, MarkChanges
<1>7. m.pc = "sum" /\ Same(r, m) /\ ToSet(m.todo) = S /\ m.src = r.src /\ m.sum = r.sum /\ m.got = r.got /\ Fields(m)
  BY <1>3, <1>5, RecomputeFacts
<1>8. "erase" \in Places /\ Serve(p, n)
  BY <1>2 DEF Places
<1>9. n.pc = "erase" /\ Same(m, n) /\ Adds(m, n) /\ Fields(n)
  BY <1>7, <1>8, PlaceSet
<1> HIDE DEF n
<1>10. Same(r, n) /\ ToSet(n.todo) = S /\ n.src = r.src /\ n.sum = r.sum /\ n.got = r.got
  BY <1>7, <1>9 DEF Same, Adds
<1>11. Carries(n)
  BY <1>3, <1>9, <1>10 DEF Carries, Same, Kinds
<1>12. req'[p] = n /\ Steps(p)
  BY <1>1, <1>6, <1>8, <1>9, <1>11, DbServed
<1> QED BY <1>1, <1>3, <1>6, <1>9, <1>10, <1>12 DEF Restores

ReadsHolder(p) == LET r == req[p] n == req'[p] IN
  /\ r.pc = "holder" /\ r.kind = "undo" /\ ~r.tally /\ r.leg \in Legendary /\ n.pc = "release" /\ Same(r, n)
  /\ db.taken[r.leg] = NoSide => n.todo = <<>>
  /\ db.taken[r.leg] # NoSide => n.todo = <<db.taken[r.leg]>>
  /\ n.src = r.src /\ n.sum = r.sum /\ UNCHANGED <<db, total, log, match>>

LEMMA HolderRead == ASSUME Typed, NEW p \in Request, ReadHolder(p) PROVE Steps(p) /\ ReadsHolder(p)
<1> DEFINE r == req[p]
           s == db.taken[r.leg]
           o == IF s = NoSide THEN <<>> ELSE <<s>>
           n == [r EXCEPT !.pc = "release", !.todo = o]
<1>1. r.pc = "holder" /\ Serve(p, n) /\ UNCHANGED <<load, db, total, log, match>>
  BY DEF ReadHolder, At, bounds
<1>2. Fields(r) /\ Carries(r) /\ r.kind = "undo" /\ ~r.tally /\ r.leg \in Legendary /\ "release" \in Places
  BY <1>1, RequestFacts DEF Carries, Places
<1>3. s \in Side \cup {NoSide}
  BY <1>2, DbFacts DEF DbRow, Typed
<1>4. o \in Seq(Side) /\ (s = NoSide => o = <<>>) /\ (s # NoSide => o = <<s>>) /\ s = db.taken[r.leg]
  BY <1>3
<1> HIDE DEF s, o
<1>5. n.pc = "release" /\ Same(r, n) /\ n.todo = o /\ n.src = r.src /\ n.sum = r.sum /\ n.got = r.got /\ Fields(n)
  BY <1>2, <1>4, TodoSet
<1> HIDE DEF n
<1>6. Carries(n)
  BY <1>1, <1>2, <1>5 DEF Carries, Same, Kinds
<1>7. req'[p] = n /\ Steps(p)
  BY <1>1, <1>5, <1>6, OnlyServed
<1> QED BY <1>1, <1>2, <1>4, <1>5, <1>7 DEF ReadsHolder

DeletesCompletion(p) == LET r == req[p] n == req'[p] IN
  /\ r.pc = "release" /\ r.kind = "undo" /\ ~r.tally /\ r.leg \in Legendary /\ n.pc = "reopen" /\ Same(r, n) /\ Adds(r, n)
  /\ db' \in Tables /\ db'.entry = db.entry /\ db'.main = db.main /\ db'.done = db.done /\ db'.spent = db.spent
  /\ db'.taken[r.leg] = NoSide /\ (\A x \in Legendary \ {r.leg} : db'.taken[x] = db.taken[x])
  /\ UNCHANGED <<total, log, match>>

LEMMA CompletionDeleted == ASSUME Typed, NEW p \in Request, DeleteCompletion(p) PROVE Steps(p) /\ DeletesCompletion(p)
<1> DEFINE r == req[p]
           n == [r EXCEPT !.pc = "reopen"]
<1>1. r.pc = "release" /\ Serve(p, n) /\ db' = [db EXCEPT !.taken[r.leg] = NoSide] /\ UNCHANGED <<load, total, log, match>>
  BY DEF DeleteCompletion, At, bounds
<1>2. Fields(r) /\ Carries(r) /\ r.kind = "undo" /\ ~r.tally /\ r.leg \in Legendary /\ "reopen" \in Places /\ TablesTyped
  BY <1>1, RequestFacts DEF Carries, Places, Typed
<1>3. n.pc = "reopen" /\ Same(r, n) /\ Adds(r, n) /\ Fields(n)
  BY <1>2, PlaceSet
<1> HIDE DEF n
<1>4. Carries(n)
  BY <1>1, <1>2, <1>3 DEF Carries, Same, Adds, Kinds
<1>5. /\ db' \in Tables /\ db'.entry = db.entry /\ db'.main = db.main /\ db'.done = db.done /\ db'.spent = db.spent
      /\ db'.taken[r.leg] = NoSide /\ \A x \in Legendary \ {r.leg} : db'.taken[x] = db.taken[x]
  BY <1>1, <1>2, HolderChanges
<1>6. req'[p] = n /\ Steps(p)
  BY <1>1, <1>3, <1>4, <1>5, DbServed
<1> QED BY <1>1, <1>2, <1>3, <1>5, <1>6 DEF DeletesCompletion

MarksAvailable(p) == LET r == req[p] n == req'[p] IN
  /\ r.pc = "reopen" /\ r.kind = "undo" /\ ~r.tally /\ r.leg \in Legendary /\ n.pc = "erase" /\ Same(r, n) /\ Adds(r, n)
  /\ db' \in Tables /\ db'.entry = db.entry /\ db'.main = db.main /\ db'.done = db.done /\ db'.taken = db.taken
  /\ db'.spent = db.spent \ {r.leg}
  /\ UNCHANGED <<total, log, match>>

LEMMA MarkedAvailable == ASSUME Typed, NEW p \in Request, MarkAvailable(p) PROVE Steps(p) /\ MarksAvailable(p)
<1> DEFINE r == req[p]
           n == [r EXCEPT !.pc = "erase"]
           S == db.spent \ {r.leg}
<1>1. r.pc = "reopen" /\ Serve(p, n) /\ db' = [db EXCEPT !.spent = S] /\ UNCHANGED <<load, total, log, match>>
  BY DEF MarkAvailable, At, bounds
<1>2. Fields(r) /\ Carries(r) /\ r.kind = "undo" /\ ~r.tally /\ r.leg \in Legendary /\ "erase" \in Places /\ TablesTyped
  BY <1>1, RequestFacts DEF Carries, Places, Typed
<1>3. n.pc = "erase" /\ Same(r, n) /\ Adds(r, n) /\ Fields(n)
  BY <1>2, PlaceSet
<1> HIDE DEF n
<1>4. Carries(n)
  BY <1>1, <1>2, <1>3 DEF Carries, Same, Adds, Kinds
<1>5. /\ db' \in Tables /\ db'.entry = db.entry /\ db'.main = db.main /\ db'.done = db.done /\ db'.taken = db.taken
      /\ db'.spent = S
  <2>1. S \in SUBSET Legendary
    BY <1>2, DbFacts DEF DbRow
  <2> QED BY <1>1, <1>2, <2>1, SpentChanges
<1>6. req'[p] = n /\ Steps(p)
  BY <1>1, <1>3, <1>4, <1>5, DbServed
<1> QED BY <1>1, <1>2, <1>3, <1>5, <1>6 DEF MarksAvailable

Erases(p) == LET r == req[p] n == req'[p] IN
  /\ r.pc = "erase" /\ r.kind = "undo" /\ ~r.tally /\ n.pc = "sum" /\ Same(r, n) /\ Adds(r, n) /\ UNCHANGED <<db, total, match>>
  /\ log # <<>> /\ r.entry = log[Len(log)] =>
       Len(log') = Len(log) - 1 /\ \A i \in 1..Len(log') : i \in 1..Len(log) /\ i # Len(log) /\ log'[i] = log[i]

LEMMA RowRemoved ==
  ASSUME NEW s \in Seq(LogRow), NEW i \in 1..Len(s)
  PROVE  /\ RemoveAt(s, i) \in Seq(LogRow) /\ Len(RemoveAt(s, i)) = Len(s) - 1
         /\ \A j \in 1..Len(RemoveAt(s, i)) : j < i => RemoveAt(s, i)[j] = s[j]
         /\ \A j \in 1..Len(RemoveAt(s, i)) : j >= i => j + 1 \in 1..Len(s) /\ RemoveAt(s, i)[j] = s[j + 1]
<1> DEFINE a == SubSeq(s, 1, i - 1)
           b == SubSeq(s, i + 1, Len(s))
<1>1. Len(s) \in Nat /\ i \in Nat /\ 1 <= i /\ i <= Len(s) /\ \A j \in 1..Len(s) : s[j] \in LogRow
  BY ElementOfSeq
<1>2. a \in Seq(LogRow) /\ Len(a) = i - 1 /\ \A j \in 1..(i - 1) : a[j] = s[j]
  <2>1. /\ a \in Seq(LogRow) /\ Len(a) = IF 1 <= i - 1 THEN i - 1 - 1 + 1 ELSE 0
        /\ \A j \in 1..(i - 1 - 1 + 1) : a[j] = s[1 + j - 1]
    BY <1>1, SubSeqProperties
  <2> HIDE DEF a
  <2>2. Len(a) = i - 1
    BY <1>1, <2>1
  <2>3. \A j \in 1..(i - 1) : 1 + j - 1 = j /\ j \in 1..(i - 1 - 1 + 1)
    BY <1>1
  <2> QED BY <2>1, <2>2, <2>3
<1>3. b \in Seq(LogRow) /\ Len(b) = Len(s) - i /\ \A j \in 1..(Len(s) - i) : b[j] = s[i + j]
  <2>1. /\ b \in Seq(LogRow) /\ Len(b) = IF i + 1 <= Len(s) THEN Len(s) - (i + 1) + 1 ELSE 0
        /\ \A j \in 1..(Len(s) - (i + 1) + 1) : b[j] = s[(i + 1) + j - 1]
    BY <1>1, SubSeqProperties
  <2> HIDE DEF b
  <2>2. Len(b) = Len(s) - i
    BY <1>1, <2>1
  <2>3. \A j \in 1..(Len(s) - i) : (i + 1) + j - 1 = i + j /\ j \in 1..(Len(s) - (i + 1) + 1)
    BY <1>1
  <2> QED BY <2>1, <2>2, <2>3
<1>4. RemoveAt(s, i) = a \o b
  BY DEF RemoveAt
<1> HIDE DEF a, b
<1>5. /\ a \o b \in Seq(LogRow) /\ Len(a \o b) = Len(a) + Len(b)
      /\ \A j \in 1..(Len(a) + Len(b)) : (a \o b)[j] = IF j <= Len(a) THEN a[j] ELSE b[j - Len(a)]
  BY <1>2, <1>3, ConcatProperties
<1>6. Len(a) + Len(b) = Len(s) - 1
  BY <1>1, <1>2, <1>3
<1>7. ASSUME NEW j \in 1..(Len(s) - 1), j < i PROVE (a \o b)[j] = s[j]
  BY <1>1, <1>2, <1>5, <1>6, <1>7
<1>8. ASSUME NEW j \in 1..(Len(s) - 1), j >= i PROVE j + 1 \in 1..Len(s) /\ (a \o b)[j] = s[j + 1]
  <2>1. ~(j <= Len(a)) /\ j - Len(a) = j - i + 1 /\ j - i + 1 \in 1..(Len(s) - i) /\ i + (j - i + 1) = j + 1
    BY <1>1, <1>2, <1>8
  <2>2. (a \o b)[j] = b[j - i + 1]
    BY <1>5, <1>6, <2>1
  <2>3. b[j - i + 1] = s[j + 1]
    BY <1>3, <2>1
  <2> QED BY <1>1, <1>8, <2>2, <2>3
<1> QED BY <1>4, <1>5, <1>6, <1>7, <1>8

LEMMA Erased == ASSUME Typed, NEW p \in Request, EraseLog(p) PROVE Steps(p) /\ Erases(p)
<1> DEFINE r == req[p]
           n == [r EXCEPT !.pc = "sum"]
           rows == {i \in 1..Len(log) : log[i].id = r.entry.id}
<1>1. /\ r.pc = "erase" /\ Serve(p, n) /\ UNCHANGED <<load, db, total, match>>
      /\ log' = IF rows = {} THEN log ELSE RemoveAt(log, CHOOSE i \in rows : TRUE)
  BY DEF EraseLog, At, bounds
<1>2. Fields(r) /\ Carries(r) /\ r.kind = "undo" /\ ~r.tally /\ "sum" \in Places
  BY <1>1, RequestFacts DEF Carries, Places
<1>3. n.pc = "sum" /\ Same(r, n) /\ Adds(r, n) /\ Fields(n)
  BY <1>2, PlaceSet
<1> HIDE DEF n
<1>4. Carries(n)
  BY <1>1, <1>2, <1>3 DEF Carries, Same, Adds, Kinds, Edits
<1>5. /\ log \in Seq(LogRow) /\ (\A i \in 1..Len(log) : Says(log[i])) /\ Len(log) \in Nat
      /\ \A i, j \in 1..Len(log) : log[i].id = log[j].id => i = j
  BY DEF Typed, LogTyped
<1>6. CASE rows = {}
  <2>1. UNCHANGED log
    BY <1>1, <1>6
  <2>2. ~(log # <<>> /\ r.entry = log[Len(log)])
    BY <1>5, <1>6
  <2> QED BY <1>1, <1>2, <1>3, <1>4, <2>1, <2>2, OnlyServed DEF Erases
<1>7. CASE rows # {}
  <2>1. PICK i : i \in rows /\ log' = RemoveAt(log, i)
    BY <1>1, <1>7
  <2>2. /\ log' \in Seq(LogRow) /\ Len(log') = Len(log) - 1
        /\ \A j \in 1..Len(log') : j < i => log'[j] = log[j]
        /\ \A j \in 1..Len(log') : j >= i => j + 1 \in 1..Len(log) /\ log'[j] = log[j + 1]
    BY <1>5, <2>1, RowRemoved
  <2>3. \A j \in 1..Len(log') : j \in 1..Len(log) /\ j # Len(log) /\ j \in Nat
    BY <1>5, <2>2
  <2>4. \A j \in 1..Len(log') : Says(log'[j])
    <3> TAKE j \in 1..Len(log')
    <3>1. CASE j < i
      BY <1>5, <2>2, <2>3, <3>1
    <3>2. CASE j >= i
      <4>1. j + 1 \in 1..Len(log) /\ log'[j] = log[j + 1]
        BY <2>2, <3>2
      <4> QED BY <1>5, <4>1
    <3> QED BY <2>1, <2>3, <3>1, <3>2
  <2>5. \A j, k \in 1..Len(log') : log'[j].id = log'[k].id => j = k
    <3> TAKE j, k \in 1..Len(log')
    <3> HAVE log'[j].id = log'[k].id
    <3>1. CASE j < i /\ k < i
      BY <1>5, <2>2, <2>3, <3>1
    <3>2. CASE j < i /\ k >= i
      <4>1. log[j].id = log[k + 1].id /\ k + 1 \in 1..Len(log)
        BY <2>2, <3>2
      <4>2. j = k + 1
        BY <1>5, <2>3, <4>1
      <4> QED BY <2>1, <2>3, <3>2, <4>2
    <3>3. CASE j >= i /\ k < i
      <4>1. log[k].id = log[j + 1].id /\ j + 1 \in 1..Len(log)
        BY <2>2, <3>3
      <4>2. k = j + 1
        BY <1>5, <2>3, <4>1
      <4> QED BY <2>1, <2>3, <3>3, <4>2
    <3>4. CASE j >= i /\ k >= i
      <4>1. log[j + 1].id = log[k + 1].id /\ j + 1 \in 1..Len(log) /\ k + 1 \in 1..Len(log)
        BY <2>2, <3>4
      <4>2. j + 1 = k + 1
        BY <1>5, <4>1
      <4> QED BY <2>3, <4>2
    <3> QED BY <2>1, <2>3, <3>1, <3>2, <3>3, <3>4
  <2>6. LogTyped'
    BY <2>2, <2>4, <2>5 DEF LogTyped
  <2>7. ASSUME log # <<>>, r.entry = log[Len(log)]
        PROVE  \A j \in 1..Len(log') : log'[j] = log[j]
    <3>1. i = Len(log)
      <4>1. Len(log) \in 1..Len(log) /\ log[i].id = log[Len(log)].id /\ i \in 1..Len(log)
        BY <1>5, <2>1, <2>7
      <4> QED BY <1>5, <4>1
    <3>2. \A j \in 1..Len(log') : j < i
      BY <1>5, <2>2, <3>1
    <3> QED BY <2>2, <3>2
  <2>8. req'[p] = n /\ Others(p) /\ ReqTyped'
    BY <1>1, <1>3, <1>4, Served DEF Typed
  <2>9. Steps(p)
    BY <1>1, <2>6, <2>8, TablesSame DEF Steps, Typed
  <2> QED BY <1>1, <1>2, <1>3, <2>2, <2>3, <2>7, <2>8, <2>9 DEF Erases
<1> QED BY <1>6, <1>7

-------------------------------------------------------------------------------
(* Whose a task may be.                                                    *)

\* One request that is served keeps the rest.
LEMMA MarksKept ==
  ASSUME MarksRight, NEW p \in Request, Others(p),
         \A t \in Task : MarkRight(t, db'.done[t]),
         \A i \in 1..Len(log') : log'[i].type = "task" => MarkRight(log'[i].task, log'[i].prev),
         req'[p].entry.type = "task" => MarkRight(req'[p].entry.task, req'[p].entry.prev),
         req'[p].pc = "mark" /\ req'[p].by = "opponent" => req'[p].task \notin Timed
  PROVE  MarksRight'
<1>1. \A q \in Request : req'[q].entry.type = "task" => MarkRight(req'[q].entry.task, req'[q].entry.prev)
  BY DEF MarksRight, Others
<1>2. \A q \in Request : req'[q].pc = "mark" /\ req'[q].by = "opponent" => req'[q].task \notin Timed
  BY DEF MarksRight, Others, At
<1> QED BY <1>1, <1>2 DEF MarksRight, At

LEMMA MarksSame ==
  ASSUME MarksRight, NEW p \in Request, Others(p), db'.done = db.done, UNCHANGED log,
         req'[p].entry = req[p].entry \/ req'[p].entry.type # "task", req'[p].pc # "mark"
  PROVE  MarksRight'
<1>1. \A t \in Task : MarkRight(t, db'.done[t])
  BY DEF MarksRight
<1>2. \A i \in 1..Len(log') : log'[i].type = "task" => MarkRight(log'[i].task, log'[i].prev)
  BY DEF MarksRight
<1>3. req'[p].entry.type = "task" => MarkRight(req'[p].entry.task, req'[p].entry.prev)
  BY DEF MarksRight
<1> QED BY <1>1, <1>2, <1>3, MarksKept

LEMMA BeginsRight ==
  ASSUME MarksRight, NEW p \in Request, Begun(p)
  PROVE  MarksRight'
  BY MarksSame DEF Begun

LEMMA GoesRight ==
  ASSUME MarksRight, Typed, NEW p \in Request, ClientGone(p)
  PROVE  MarksRight'
  BY Gone, BlankFacts, MarksSame DEF Steps

\* Every statement but those of the marks and of the log.
LEMMA OtherStepsRight ==
  ASSUME MarksRight, Typed, NEW p \in Request,
         \/ ReadCounts(p) \/ SaveCounts(p) \/ SaveMember(p) \/ InsertCompletion(p) \/ MarkSpent(p) \/ PutEntry(p)
         \/ ReadSource(p) \/ SaveTotal(p) \/ NothingToAdd(p)
         \/ CloseRounds(p) \/ FinishTournament(p) \/ ReadWinner(p) \/ Recrown(p) \/ Rate(p)
         \/ ReadHolder(p) \/ DeleteCompletion(p) \/ MarkAvailable(p)
  PROVE  MarksRight'
<1> DEFINE Kept == /\ Others(p) /\ db'.done = db.done /\ UNCHANGED log /\ req'[p].pc # "mark"
                   /\ req'[p].entry = req[p].entry \/ req'[p].entry.type # "task"
<1>1. ReadCounts(p) => Kept
  BY CountsRead DEF Steps, ReadsCounts, Same
<1>2. ASSUME SaveCounts(p) \/ SaveMember(p) PROVE Kept
  <2>1. Steps(p) /\ Corrects(p)
    BY <1>2, CountsSaved
  <2>2. Fields(req[p]) /\ Carries(req[p]) /\ req[p].pc = "write" /\ req[p].kind \in {"points", "knock", "undo"}
    BY <2>1, RequestFacts DEF Corrects, Carries
  <2> QED BY <2>1, <2>2, ScoredFacts, BlankFacts DEF Steps, Corrects, Same
<1>3. InsertCompletion(p) => Kept
  BY ContractCompleted, BlankFacts DEF Steps, CompletesContract
<1>4. MarkSpent(p) => Kept
  BY ContractSpent DEF Steps, SpendsContract, Same
<1>5. PutEntry(p) => Kept
  BY EntryPut DEF Steps, PutsEntry, Same
<1>6. ReadSource(p) => Kept
  BY SourceRead DEF Steps, ReadsSource, Same
<1>7. \A m : Fields(m) /\ Carries(m) /\ m.pc = "sum" => Added(m).pc # "mark" /\ (Added(m).entry = m.entry \/ Added(m).entry.type # "task")
  <2> TAKE m
  <2> HAVE Fields(m) /\ Carries(m) /\ m.pc = "sum"
  <2> QED BY AddedFacts, BlankFacts DEF Same
<1>8. ASSUME SaveTotal(p) PROVE Kept
  <2>1. Steps(p) /\ SavesTotal(p)
    BY <1>8, TotalSaved
  <2>2. PICK m : /\ m.pc = "sum" /\ Same(req[p], m) /\ Fields(m) /\ Carries(m)
                 /\ req'[p] = Added(m) \/ req'[p] = m
    BY <2>1 DEF SavesTotal
  <2> QED BY <1>7, <2>1, <2>2 DEF Steps, SavesTotal, Same
<1>9. ASSUME NothingToAdd(p) PROVE Kept
  <2>1. Steps(p) /\ AddsNothing(p)
    BY <1>9, NothingAdded
  <2> QED BY <1>7, <2>1, RequestFacts DEF Steps, AddsNothing
<1>10. CloseRounds(p) => Kept
  BY RoundsClosed DEF Steps, ClosesRounds, Same
<1>11. FinishTournament(p) => Kept
  BY Finished DEF Steps, Finishes, Same
<1>12. ReadWinner(p) => Kept
  BY WinnerRead DEF Steps, ReadsWinner
<1>13. Recrown(p) => Kept
  BY Recrowned, BlankFacts DEF Steps, Recrowns, Same
<1>14. Rate(p) => Kept
  BY Rated, BlankFacts DEF Steps, Rates
<1>15. ReadHolder(p) => Kept
  BY HolderRead DEF Steps, ReadsHolder, Same
<1>16. DeleteCompletion(p) => Kept
  BY CompletionDeleted DEF Steps, DeletesCompletion, Same
<1>17. MarkAvailable(p) => Kept
  BY MarkedAvailable DEF Steps, MarksAvailable, Same
<1>18. Kept
  <2> HIDE DEF Kept
  <2> QED BY <1>1, <1>2, <1>3, <1>4, <1>5, <1>6, <1>8, <1>9, <1>10, <1>11, <1>12, <1>13, <1>14, <1>15, <1>16, <1>17
<1> QED BY <1>18, MarksSame

LEMMA LookRight == ASSUME MarksRight, Typed, NEW p \in Request, LookAtTask(p) PROVE MarksRight'
<1>1. Steps(p) /\ LooksAtTask(p)
  BY TaskLookedAt
<1>2. CASE req'[p] = Blank
  BY <1>1, <1>2, BlankFacts, MarksSame DEF Steps, LooksAtTask
<1>3. CASE req'[p] # Blank
  <2>1. /\ UNCHANGED <<db, log>> /\ req'[p].pc = "mark" /\ req'[p].task = req[p].task
        /\ req'[p].entry.task = req[p].task /\ req'[p].entry.prev = db.done[req[p].task] /\ Others(p)
        /\ req[p].pc = "look" /\ Carries(req'[p])
    BY <1>1, <1>3 DEF LooksAtTask, Steps, Typed, ReqTyped
  <2>2. req[p].task \in Task
    BY <2>1, RequestFacts DEF Carries
  <2>3. req'[p].by = "opponent" => req'[p].task \notin Timed
    BY <2>1 DEF Carries, MayMark
  <2>4. MarkRight(req'[p].entry.task, req'[p].entry.prev)
    BY <2>1, <2>2 DEF MarksRight
  <2>5. \A t \in Task : MarkRight(t, db'.done[t])
    BY <2>1 DEF MarksRight
  <2>6. \A i \in 1..Len(log') : log'[i].type = "task" => MarkRight(log'[i].task, log'[i].prev)
    BY <2>1 DEF MarksRight
  <2> QED BY <2>1, <2>3, <2>4, <2>5, <2>6, MarksKept
<1> QED BY <1>2, <1>3

LEMMA MarkingRight == ASSUME MarksRight, Typed, NEW p \in Request, WriteMark(p) PROVE MarksRight'
<1> DEFINE r == req[p]
           t == r.task
<1>1. Steps(p) /\ WritesMark(p)
  BY MarkWritten
<1>2. /\ r.pc = "mark" /\ t \in Task /\ Others(p) /\ UNCHANGED log /\ db'.done[t] = Marked(r)
      /\ \A x \in Task \ {t} : db'.done[x] = db.done[x]
  BY <1>1 DEF WritesMark, Steps
<1>3. req'[p].pc = "sum" /\ req'[p].entry = r.entry
  BY <1>1 DEF WritesMark, Same
<1>4. /\ r.by = "owner" => Marked(r) = [by |-> Owner[t], user |-> r.user] /\ r.user \in Player(Owner[t])
      /\ r.by = "opponent" => Marked(r).by # Owner[t]
      /\ r.by = "none" => Marked(r) = NotDone
      /\ r.by \in By
  BY <1>2, RequestFacts, MarkedFacts DEF Fields
<1>5. r.by = "opponent" => t \notin Timed
  BY <1>2 DEF MarksRight, At
<1>6. MarkRight(t, Marked(r))
  BY <1>2, <1>4, <1>5, OwnerFacts DEF MarkRight, NotDone, By
<1>7. \A x \in Task : MarkRight(x, db'.done[x])
  BY <1>2, <1>6 DEF MarksRight
<1>8. \A i \in 1..Len(log') : log'[i].type = "task" => MarkRight(log'[i].task, log'[i].prev)
  BY <1>2 DEF MarksRight
<1>9. req'[p].entry.type = "task" => MarkRight(req'[p].entry.task, req'[p].entry.prev)
  BY <1>3 DEF MarksRight
<1> QED BY <1>2, <1>3, <1>7, <1>8, <1>9, MarksKept

LEMMA LogRight == ASSUME MarksRight, Typed, NEW p \in Request, AddMatchLog(p) PROVE MarksRight'
<1> DEFINE r == req[p]
<1>1. Steps(p) /\ Logs(p)
  BY Logged1
<1>2. PICK e \in LogRow : /\ log' = Append(log, e) /\ e.type = r.entry.type /\ e.task = r.entry.task /\ e.prev = r.entry.prev
  BY <1>1 DEF Logs
<1>3. log \in Seq(LogRow) /\ Len(log) \in Nat
  BY DEF Typed, LogTyped
<1>4. /\ Len(log') = Len(log) + 1 /\ log'[Len(log) + 1] = e
      /\ \A i \in 1..Len(log) : log'[i] = log[i]
  BY <1>2, <1>3, AppendProperties
<1>5. ASSUME NEW i \in 1..Len(log'), log'[i].type = "task" PROVE MarkRight(log'[i].task, log'[i].prev)
  <2>1. CASE i = Len(log) + 1
    BY <1>2, <1>4, <1>5, <2>1 DEF MarksRight
  <2>2. CASE i \in 1..Len(log)
    BY <1>4, <1>5, <2>2 DEF MarksRight
  <2> QED BY <1>3, <1>4, <2>1, <2>2
<1>6. /\ req'[p] = Conclude(r) /\ Fields(r) /\ Carries(r) /\ r.kind \in Edits \cup {"undo"} /\ UNCHANGED db /\ Others(p)
  BY <1>1 DEF Logs, Steps
<1>7. req'[p].pc # "mark" /\ (req'[p].entry = r.entry \/ req'[p].entry.type # "task")
  BY <1>6, ConcludeFacts, BlankFacts
<1>8. req'[p].entry.type = "task" => MarkRight(req'[p].entry.task, req'[p].entry.prev)
  BY <1>7 DEF MarksRight
<1>9. \A t \in Task : MarkRight(t, db'.done[t])
  BY <1>6 DEF MarksRight
<1> QED BY <1>5, <1>6, <1>7, <1>8, <1>9, MarksKept

LEMMA TakeRight == ASSUME MarksRight, Typed, NEW p \in Request, TakeLast(p) PROVE MarksRight'
<1>1. Steps(p) /\ TakesLast(p)
  BY LastTaken
<1>2. CASE req'[p] = Blank
  BY <1>1, <1>2, BlankFacts, MarksSame DEF Steps, TakesLast
<1>3. CASE req'[p] # Blank
  <2>1. /\ UNCHANGED <<db, log>> /\ req'[p].pc # "mark" /\ Len(log) \in 1..Len(log)
        /\ req'[p].entry = log[Len(log)] /\ Others(p)
    BY <1>1, <1>3 DEF TakesLast, Steps
  <2>2. req'[p].entry.type = "task" => MarkRight(req'[p].entry.task, req'[p].entry.prev)
    BY <2>1 DEF MarksRight
  <2>5. \A t \in Task : MarkRight(t, db'.done[t])
    BY <2>1 DEF MarksRight
  <2>6. \A i \in 1..Len(log') : log'[i].type = "task" => MarkRight(log'[i].task, log'[i].prev)
    BY <2>1 DEF MarksRight
  <2> QED BY <2>1, <2>2, <2>5, <2>6, MarksKept
<1> QED BY <1>2, <1>3

LEMMA RestoreRight == ASSUME MarksRight, Typed, NEW p \in Request, RestoreMark(p) PROVE MarksRight'
<1> DEFINE r == req[p]
           t == r.task
<1>1. Steps(p) /\ Restores(p)
  BY Restored
<1>2. /\ t \in Task /\ Others(p) /\ UNCHANGED log /\ db'.done[t] = r.entry.prev /\ r.entry.type = "task" /\ r.entry.task = t
      /\ \A x \in Task \ {t} : db'.done[x] = db.done[x]
  BY <1>1 DEF Restores, Steps
<1>3. req'[p].pc = "erase" /\ req'[p].entry = r.entry
  BY <1>1 DEF Restores, Same
<1>4. MarkRight(t, r.entry.prev)
  BY <1>2 DEF MarksRight
<1>5. \A x \in Task : MarkRight(x, db'.done[x])
  BY <1>2, <1>4 DEF MarksRight
<1>6. \A i \in 1..Len(log') : log'[i].type = "task" => MarkRight(log'[i].task, log'[i].prev)
  BY <1>2 DEF MarksRight
<1>7. req'[p].entry.type = "task" => MarkRight(req'[p].entry.task, req'[p].entry.prev)
  BY <1>3 DEF MarksRight
<1> QED BY <1>2, <1>3, <1>5, <1>6, <1>7, MarksKept

\* An erased row was in the log, whatever is erased.
LEMMA EraseLeaves ==
  ASSUME Typed, NEW p \in Request, EraseLog(p), NEW j \in 1..Len(log')
  PROVE  \E i \in 1..Len(log) : log'[j] = log[i]
<1> DEFINE rows == {i \in 1..Len(log) : log[i].id = req[p].entry.id}
<1>1. log' = IF rows = {} THEN log ELSE RemoveAt(log, CHOOSE i \in rows : TRUE)
  BY DEF EraseLog
<1>2. log \in Seq(LogRow) /\ Len(log) \in Nat
  BY DEF Typed, LogTyped
<1>3. CASE rows = {}
  BY <1>1, <1>3
<1>4. CASE rows # {}
  <2>1. PICK i \in 1..Len(log) : log' = RemoveAt(log, i)
    BY <1>1, <1>4
  <2>2. /\ Len(log') = Len(log) - 1
        /\ j < i => log'[j] = log[j]
        /\ j >= i => j + 1 \in 1..Len(log) /\ log'[j] = log[j + 1]
    BY <1>2, <2>1, RowRemoved
  <2>3. j \in 1..Len(log) /\ (j < i \/ j >= i)
    BY <1>2, <2>1, <2>2
  <2> QED BY <2>2, <2>3
<1> QED BY <1>3, <1>4

LEMMA EraseRight == ASSUME MarksRight, Typed, NEW p \in Request, EraseLog(p) PROVE MarksRight'
<1>1. Steps(p) /\ Erases(p)
  BY Erased
<1>2. Others(p) /\ UNCHANGED db /\ req'[p].pc = "sum" /\ req'[p].entry = req[p].entry
  BY <1>1 DEF Steps, Erases, Same
<1>3. ASSUME NEW j \in 1..Len(log'), log'[j].type = "task" PROVE MarkRight(log'[j].task, log'[j].prev)
  <2>1. PICK i \in 1..Len(log) : log'[j] = log[i]
    BY EraseLeaves
  <2> QED BY <1>3, <2>1 DEF MarksRight
<1>4. \A t \in Task : MarkRight(t, db'.done[t])
  BY <1>2 DEF MarksRight
<1>5. req'[p].entry.type = "task" => MarkRight(req'[p].entry.task, req'[p].entry.prev)
  BY <1>2 DEF MarksRight
<1> QED BY <1>2, <1>3, <1>4, <1>5, MarksKept

\* Every statement leaves the types and the marks as they must be.
LEMMA ProceedsTyped == ASSUME Typed, NEW p \in Request, Proceeds(p) PROVE Steps(p)
<1> USE DEF Proceeds
<1> QED BY CountsRead, CountsSaved, TaskLookedAt, MarkWritten, ContractCompleted, ContractSpent, EntryPut, SourceRead, TotalSaved,
           NothingAdded, Logged1, RoundsClosed, Finished, WinnerRead, Recrowned, Rated, LastTaken, Restored, HolderRead,
           CompletionDeleted, MarkedAvailable, Erased

LEMMA ProceedsRight == ASSUME Typed, MarksRight, NEW p \in Request, Proceeds(p) PROVE MarksRight'
<1> USE DEF Proceeds
<1> QED BY OtherStepsRight, LookRight, MarkingRight, LogRight, TakeRight, RestoreRight, EraseRight

-------------------------------------------------------------------------------
(* One judge: nothing but the request under way matters.                   *)

Alone(p) == \A q \in Request \ {p} : At(q, "idle")
OneByOne == Known /\ Told /\ Settled
RestOf(d, tot, l, m, r) == KnownBy(d, l, m, r) /\ ToldOf(d, l, r) /\ SettledOf(d, tot, m, r)

LEMMA IdleIsBlank == ASSUME ReqTyped, NEW q \in Request, At(q, "idle") PROVE req[q] = Blank
  BY DEF ReqTyped, Carries, At

LEMMA TakenUp ==
  ASSUME OneByOne, OneJudge, NEW p \in Request, Alone(p)
  PROVE  RestOf(db, total, log, match, req[p])
  BY DEF OneByOne, Known, Told, Settled, Alone, RestOf

LEMMA BusyAlone ==
  ASSUME OneByOne, OneJudge, NEW p \in Request, ~At(p, "idle")
  PROVE  Alone(p)
  BY DEF OneByOne, Known, OneServed, Alone

LEMMA BlankKnown == ASSUME NEW d, NEW l, NEW m PROVE KnownBy(d, l, m, Blank)
<1>1. Blank.pc = "idle" /\ Blank.kind = "none"
  BY BlankFacts
<1> QED BY <1>1 DEF KnownBy

LEMMA HandedOver ==
  ASSUME OneJudge, Typed, Typed', NEW p \in Request, Alone(p), Others(p), UNCHANGED load,
         RestOf(db', total', log', match', req'[p])
  PROVE  OneByOne'
<1>1. \A q \in Request \ {p} : req'[q] = Blank /\ req'[q].pc = "idle"
  BY IdleIsBlank, BlankFacts DEF Typed, Alone, Others
<1>2. req'[p].pc = "idle" => req'[p] = Blank
  BY DEF Typed, ReqTyped, Carries
<1>3. OneServed'
  BY <1>1 DEF OneServed, At
<1>4. \A q \in Request : KnownBy(db', log', match', req'[q])
  BY <1>1, BlankKnown DEF RestOf
<1>5. ASSUME NEW q \in Request, \A x \in Request \ {q} : At(x, "idle")' PROVE req'[q] = req'[p]
  BY <1>1, <1>2, <1>5 DEF At
<1>6. \A q \in Request : (\A x \in Request \ {q} : At(x, "idle")') => ToldOf(db', log', req'[q])
  BY <1>5 DEF RestOf
<1>7. \A q \in Request : (\A x \in Request \ {q} : At(x, "idle")') => SettledOf(db', total', match', req'[q])
  BY <1>5 DEF RestOf
<1> QED BY <1>3, <1>4, <1>6, <1>7 DEF OneByOne, Known, Told, Settled

-------------------------------------------------------------------------------
(* What a request leaves alone: r becomes n, the tables d, the log l and   *)
(* the match m become e, k and o.                                          *)

LEMMA KnownGoes ==
  ASSUME NEW d, NEW l, NEW m, NEW r, NEW e, NEW k, NEW o, NEW n, KnownBy(d, l, m, r), r.pc # "idle",
         ~(r.kind = "finish" /\ r.pc = "rate"), n.kind = r.kind, n.fin = r.fin, o.status = m.status,
         n.pc \notin {"write", "mark", "release"},
         n.kind = "undo" /\ n.pc \in {"read", "restore", "holder", "reopen", "erase"} => k # <<>> /\ n.entry = k[Len(k)]
  PROVE  KnownBy(e, k, o, n)
  BY DEF KnownBy

LEMMA NoneMarked ==
  ASSUME NEW r, r.pc \notin {"log", "sum", "erase"} \/ r.entry.type # "task" \/ (r.tally /\ r.pc = "sum"), NEW t \in Task
  PROVE  ~Unlogged(r, t) /\ ~Unerased(r, t)
  BY DEF Unlogged, Unerased, About

LEMMA ToldSame ==
  ASSUME NEW d, NEW e, NEW l, NEW r, NEW n, ToldOf(d, l, r), e.done = d.done,
         \A t \in Task : /\ Unlogged(n, t) <=> Unlogged(r, t)
                         /\ Unerased(n, t) <=> Unerased(r, t)
                         /\ Unlogged(r, t) \/ Unerased(r, t) => n.entry = r.entry
  PROVE  ToldOf(e, l, n)
  BY DEF ToldOf

LEMMA ToldApart ==
  ASSUME NEW d, NEW e, NEW l, NEW r, NEW n, ToldOf(d, l, r), e.done = d.done,
         r.pc \notin {"log", "sum", "erase"} \/ r.entry.type # "task" \/ (r.tally /\ r.pc = "sum"),
         n.pc \notin {"log", "sum", "erase"} \/ n.entry.type # "task" \/ (n.tally /\ n.pc = "sum")
  PROVE  ToldOf(e, l, n)
  BY NoneMarked, ToldSame

\* No table changes but perhaps what the ratings were computed from.
LEMMA SettledSame ==
  ASSUME NEW d, NEW tot, NEW m, NEW r, NEW o, NEW n, SettledOf(d, tot, m, r), SettledBy(d, o, n),
         \A s \in Side : Owes(r, s) => Owes(n, s), r.pc \notin {"spend", "reopen"}, r.pc # "rate",
         o.status = m.status, o.winner = m.winner, o.rated = m.rated, Deciding(r) => Deciding(n)
  PROVE  SettledOf(d, tot, o, n)
  BY DEF SettledOf

\* A request that writes a table leaves the outcome to be decided.
LEMMA SettledMoves ==
  ASSUME NEW d, NEW tot, NEW m, NEW r, NEW e, NEW n, SettledOf(d, tot, m, r), SettledBy(e, m, n), Deciding(n), r.pc # "rate",
         \A s \in Side : ~Owes(n, s) => ~Owes(r, s) /\ Breakdown(e, s) = Breakdown(d, s),
         n.pc \notin {"spend", "reopen"} => e.spent = Held(e)
  PROVE  SettledOf(e, tot, m, n)
  BY DEF SettledOf

LEMMA QuietSettledBy ==
  ASSUME NEW d, NEW m, NEW n, n.pc \notin {"sum", "close", "prior", "crown", "spend", "reopen"}, n.src = 1, n.sum = 0
  PROVE  SettledBy(d, m, n)
  BY DEF SettledBy

LEMMA FirstSum ==
  ASSUME NEW d, NEW m, NEW n, n.pc = "sum", n.src = 1, n.sum = 0, n.tally => n.todo = Seeds
  PROVE  SettledBy(d, m, n)
  BY SeedFacts DEF SettledBy, SumSoFar

LEMMA SumStarts ==
  ASSUME NEW d, NEW tot, NEW m, NEW r, SettledOf(d, tot, m, r), r.pc # "sum"
  PROVE  r.src = 1 /\ r.sum = 0
  BY DEF SettledOf, SettledBy

-------------------------------------------------------------------------------
(* Each statement of the one request that is under way.                    *)

Here(p) == RestOf(db, total, log, match, req[p])

LEMMA BlankRest ==
  ASSUME NEW d, NEW tot, NEW l, NEW m, Chain(l), \A t \in Task : Latest(l, t, d.done[t].by),
         \A s \in Side : tot[s] = Breakdown(d, s), d.spent = Held(d),
         m.status = "finished" => m.winner = Leads(d) /\ m.rated = m.winner
  PROVE  RestOf(d, tot, l, m, Blank)
<1>1. Blank.pc = "idle" /\ Blank.src = 1 /\ Blank.sum = 0
  BY BlankFacts
<1>2. ToldOf(d, l, Blank)
  BY <1>1, NoneMarked DEF ToldOf
<1>3. SettledOf(d, tot, m, Blank)
  BY <1>1, QuietSettledBy DEF SettledOf, Owes
<1> QED BY <1>2, <1>3, BlankKnown DEF RestOf

\* A request that is nowhere near the totals ends.
LEMMA EndsRest ==
  ASSUME NEW d, NEW tot, NEW l, NEW m, NEW r, RestOf(d, tot, l, m, r), r.pc \in {"idle", "look", "write", "take", "complete"}
  PROVE  RestOf(d, tot, l, m, Blank)
<1>1. Chain(l) /\ \A t \in Task : Latest(l, t, d.done[t].by)
  BY NoneMarked DEF RestOf, ToldOf
<1>2. /\ \A s \in Side : tot[s] = Breakdown(d, s)
      /\ d.spent = Held(d)
      /\ m.status = "finished" => m.winner = Leads(d) /\ m.rated = m.winner
  BY DEF RestOf, SettledOf, Owes, Deciding
<1> QED BY <1>1, <1>2, BlankRest

LEMMA BegunRest ==
  ASSUME ReqTyped, NEW p \in Request, Here(p), Begun(p)
  PROVE  Here(p)'
<1> DEFINE r == req[p]
           n == req'[p]
<1>1. /\ r.pc = "idle" /\ UNCHANGED <<db, total, log, match>> /\ Carries(n) /\ Fields(n)
      /\ n.pc \in {"read", "look", "complete", "take", "put", "sum"} /\ n.src = 1 /\ n.sum = 0
      /\ n.fin <=> match.status = "finished"
      /\ n.entry.type = "none"
      /\ n.kind = "undo" => n.pc = "take"
      /\ n.kind \in {"finish", "entry", "main"} => match.status # "finished"
      /\ n.pc = "sum" => n.kind = "finish" /\ n.todo = Seeds /\ n.tally
  BY DEF Begun, At, ReqTyped
<1>2. RestOf(db, total, log, match, r)
  BY DEF Here
<1>3. KnownBy(db, log, match, n)
  BY <1>1 DEF KnownBy
<1>4. ToldOf(db, log, n)
  BY <1>1, <1>2, ToldApart DEF RestOf
<1>5. SettledBy(db, match, n)
  BY <1>1, QuietSettledBy, FirstSum
<1>6. SettledOf(db, total, match, n)
  BY <1>1, <1>2, <1>5, SettledSame DEF RestOf, Owes, Deciding
<1> QED BY <1>1, <1>3, <1>4, <1>6 DEF Here, RestOf

LEMMA ReadRest == ASSUME Typed, NEW p \in Request, Here(p), ReadCounts(p) PROVE Here(p)'
<1> DEFINE r == req[p]
           n == req'[p]
<1>1. /\ r.pc = "read" /\ n.pc = "write" /\ Same(r, n) /\ Adds(r, n) /\ UNCHANGED <<db, total, log, match>>
      /\ n.seen = IF r.user = NoUser THEN db.entry[r.side] ELSE db.member[r.side][r.user]
  BY CountsRead DEF ReadsCounts
<1>2. KnownBy(db, log, match, r) /\ ToldOf(db, log, r) /\ SettledOf(db, total, match, r)
  BY DEF Here, RestOf
<1>3. KnownBy(db, log, match, n)
  BY <1>1, <1>2 DEF KnownBy, Same
<1>4. ToldOf(db, log, n)
  BY <1>1, <1>2, ToldApart
<1>5. SettledBy(db, match, n)
  BY <1>1, <1>2, SumStarts, QuietSettledBy DEF Adds
<1>6. SettledOf(db, total, match, n)
  BY <1>1, <1>2, <1>5, SettledSame DEF Owes, Deciding
<1> QED BY <1>1, <1>3, <1>4, <1>6 DEF Here, RestOf

LEMMA SaveRest == ASSUME Typed, NEW p \in Request, Here(p), SaveCounts(p) \/ SaveMember(p) PROVE Here(p)'
<1> DEFINE r == req[p]
           n == req'[p]
<1>1. Steps(p) /\ Corrects(p)
  BY CountsSaved
<1>2. KnownBy(db, log, match, r) /\ ToldOf(db, log, r) /\ SettledOf(db, total, match, r)
  BY DEF Here, RestOf
<1>3. /\ r.pc = "write" /\ r.side \in Side /\ n = Scored(r) /\ UNCHANGED <<total, log, match>> /\ Fields(r) /\ Carries(r)
      /\ \A s \in Side : s # r.side \/ (Applied(r) = 0 /\ KnownBy(db, log, match, r)) => db'.entry[s] = db.entry[s]
      /\ db'.main = db.main /\ db'.done = db.done /\ db'.taken = db.taken /\ db'.spent = db.spent
  BY <1>1, RequestFacts DEF Corrects
<1>4. \A s \in Side : s # r.side \/ Applied(r) = 0 => Breakdown(db', s) = Breakdown(db, s)
  BY <1>2, <1>3, OtherSide
<1>5. db.spent = Held(db) /\ Held(db') = Held(db) /\ db'.spent = Held(db')
  BY <1>2, <1>3 DEF SettledOf, Held
<1>6. r.src = 1 /\ r.sum = 0 /\ r.kind \in {"points", "knock", "undo"} /\ r.entry.type # "task"
  BY <1>2, <1>3, SumStarts DEF Carries
<1>7. CASE n = Blank
  <2>1. r.kind # "undo" /\ Applied(r) = 0
    BY <1>3, <1>7, ScoredFacts, BlankFacts
  <2>2. RestOf(db, total, log, match, Blank)
    BY <1>2, <1>3, EndsRest DEF RestOf
  <2>3. Chain(log) /\ \A t \in Task : Latest(log, t, db'.done[t].by)
    BY <1>2, <1>3, NoneMarked DEF ToldOf
  <2>4. \A s \in Side : Breakdown(db', s) = Breakdown(db, s)
    BY <1>4, <2>1
  <2>5. \A s \in Side : total[s] = Breakdown(db', s)
    BY <1>2, <1>3, <2>4 DEF SettledOf, Owes
  <2>6. Leads(db') = Leads(db)
    BY <2>4 DEF Leads
  <2>7. match.status = "finished" => match.winner = Leads(db') /\ match.rated = match.winner
    BY <1>2, <1>3, <2>6 DEF SettledOf, Deciding
  <2>8. RestOf(db', total, log, match, Blank)
    BY <1>5, <2>3, <2>5, <2>7, BlankRest
  <2> QED BY <1>3, <1>7, <2>8 DEF Here
<1>8. CASE n # Blank
  <2>1. /\ n.pc \in {"sum", "erase"} /\ n.kind = r.kind /\ n.fin = r.fin /\ n.todo = <<r.side>> /\ n.src = 1 /\ n.sum = 0
        /\ n.pc = "erase" => n.entry = r.entry /\ r.kind = "undo"
        /\ n.pc = "sum" => ~n.tally /\ n.entry.type = r.kind
        /\ n.kind = "undo" <=> n.pc = "erase"
    BY <1>3, <1>6, <1>8, ScoredFacts DEF Same
  <2>2. KnownBy(db', log, match, n)
    BY <1>2, <1>3, <2>1 DEF KnownBy
  <2>3. ToldOf(db', log, n)
    BY <1>2, <1>3, <1>6, <2>1, ToldApart
  <2>4. SettledBy(db', match, n)
    BY <2>1, QuietSettledBy, FirstSum
  <2>5. ToSet(n.todo) = {r.side}
    BY <2>1 DEF ToSet
  <2>6. \A s \in Side : ~Owes(n, s) => s # r.side
    BY <2>1, <2>5 DEF Owes
  <2>7. \A s \in Side : ~Owes(n, s) => ~Owes(r, s) /\ Breakdown(db', s) = Breakdown(db, s)
    BY <1>3, <1>4, <2>6 DEF Owes
  <2>8. SettledOf(db', total, match, n)
    BY <1>2, <1>3, <1>5, <2>1, <2>4, <2>7, SettledMoves DEF Deciding
  <2> QED BY <1>3, <2>2, <2>3, <2>8 DEF Here, RestOf
<1> QED BY <1>7, <1>8

LEMMA LookRest == ASSUME Typed, NEW p \in Request, Here(p), LookAtTask(p) PROVE Here(p)'
<1> DEFINE r == req[p]
           n == req'[p]
<1>1. LooksAtTask(p) /\ r.pc = "look" /\ UNCHANGED <<db, total, log, match>>
  BY TaskLookedAt DEF LooksAtTask
<1>2. KnownBy(db, log, match, r) /\ ToldOf(db, log, r) /\ SettledOf(db, total, match, r) /\ RestOf(db, total, log, match, r)
  BY DEF Here, RestOf
<1>3. CASE n = Blank
  BY <1>1, <1>2, <1>3, EndsRest DEF Here
<1>4. CASE n # Blank
  <2>1. /\ n.pc = "mark" /\ n.kind = r.kind /\ n.fin = r.fin /\ n.task = r.task /\ r.kind = "task"
        /\ Adds(r, n) /\ n.entry.prev = db.done[r.task] /\ n.entry.side = Marked(n).by
    BY <1>1, <1>4 DEF LooksAtTask
  <2>2. KnownBy(db, log, match, n)
    BY <1>1, <1>2, <2>1 DEF KnownBy
  <2>3. ToldOf(db, log, n)
    BY <1>1, <1>2, <2>1, ToldApart
  <2>4. SettledBy(db, match, n)
    BY <1>1, <1>2, <2>1, SumStarts, QuietSettledBy DEF Adds
  <2>5. SettledOf(db, total, match, n)
    BY <1>1, <1>2, <2>1, <2>4, SettledSame DEF Owes, Deciding
  <2> QED BY <1>1, <2>2, <2>3, <2>5 DEF Here, RestOf
<1> QED BY <1>3, <1>4

LEMMA MarkRest == ASSUME Typed, NEW p \in Request, Here(p), WriteMark(p) PROVE Here(p)'
<1> DEFINE r == req[p]
           n == req'[p]
           t == r.task
<1>1. /\ r.pc = "mark" /\ r.kind = "task" /\ ~r.tally /\ t \in Task
      /\ db'.entry = db.entry /\ db'.main = db.main /\ db'.taken = db.taken /\ db'.spent = db.spent
      /\ db'.done[t] = Marked(r) /\ \A x \in Task \ {t} : db'.done[x] = db.done[x]
  BY MarkWritten DEF WritesMark
<1>2. /\ n.pc = "sum" /\ Same(r, n) /\ ToSet(n.todo) = {r.entry.prev.by, Marked(r).by} \ {NoSide}
      /\ n.src = r.src /\ n.sum = r.sum /\ UNCHANGED <<total, log, match>>
  BY MarkWritten DEF WritesMark
<1>3. KnownBy(db, log, match, r) /\ ToldOf(db, log, r) /\ SettledOf(db, total, match, r)
  BY DEF Here, RestOf
<1>4. /\ r.entry.prev = db.done[t] /\ r.entry.side = Marked(r).by /\ r.entry.type = "task" /\ r.entry.task = t
      /\ r.src = 1 /\ r.sum = 0
  <2>1. r.src = 1 /\ r.sum = 0
    BY <1>1, <1>3, SumStarts
  <2>2. r.entry.prev = db.done[t] /\ r.entry.side = Marked(r).by
    BY <1>1, <1>3 DEF KnownBy
  <2>3. r.entry.type = "task" /\ r.entry.task = t
    BY <1>1, RequestFacts DEF Carries
  <2> QED BY <2>1, <2>2, <2>3
<1>5. KnownBy(db', log, match, n)
  BY <1>1, <1>2, <1>3 DEF KnownBy, Same
<1>6. ToldOf(db', log, n)
  <2>1. Chain(log) /\ \A x \in Task : Latest(log, x, db.done[x].by)
    BY <1>1, <1>3, NoneMarked DEF ToldOf
  <2>2. \A x \in Task : ~Unerased(n, x) /\ (Unlogged(n, x) <=> x = t)
    BY <1>1, <1>2, <1>4 DEF Unerased, Unlogged, About, Same
  <2>3. n.entry = r.entry /\ db'.done[t].by = r.entry.side
    BY <1>1, <1>2, <1>4 DEF Same
  <2> QED BY <1>1, <1>4, <2>1, <2>2, <2>3 DEF ToldOf
<1>7. SettledBy(db', match, n)
  BY <1>1, <1>2, <1>4, FirstSum DEF Same
<1>8. \A s \in Side : ~Owes(n, s) => ~Owes(r, s) /\ Breakdown(db', s) = Breakdown(db, s)
  <2> TAKE s \in Side
  <2> HAVE ~Owes(n, s)
  <2>1. s # db.done[t].by /\ s # Marked(r).by
    BY <1>2, <1>4, ScoreAssumption DEF Owes
  <2>2. Breakdown(db', s) = Breakdown(db, s)
    BY <1>1, <2>1, OtherMark
  <2> QED BY <1>1, <2>2 DEF Owes
<1>9. db'.spent = Held(db')
  BY <1>1, <1>3 DEF SettledOf, Held
<1>10. SettledOf(db', total, match, n)
  BY <1>1, <1>2, <1>3, <1>7, <1>8, <1>9, SettledMoves DEF Deciding
<1> QED BY <1>2, <1>5, <1>6, <1>10 DEF Here, RestOf

LEMMA CompleteRest == ASSUME Typed, NEW p \in Request, Here(p), InsertCompletion(p) PROVE Here(p)'
<1> DEFINE r == req[p]
           n == req'[p]
           x == r.leg
<1>1. CompletesContract(p) /\ r.pc = "complete" /\ r.kind = "legendary" /\ x \in Legendary /\ r.side \in Side
      /\ UNCHANGED <<total, log, match>>
  BY ContractCompleted DEF CompletesContract
<1>2. KnownBy(db, log, match, r) /\ ToldOf(db, log, r) /\ SettledOf(db, total, match, r) /\ RestOf(db, total, log, match, r)
  BY DEF Here, RestOf
<1>3. CASE n = Blank
  <2>1. UNCHANGED db
    BY <1>1, <1>3, BlankFacts DEF CompletesContract
  <2> QED BY <1>1, <1>2, <1>3, <2>1, EndsRest DEF Here
<1>4. CASE n # Blank
  <2>1. /\ db.taken[x] = NoSide /\ db'.entry = db.entry /\ db'.main = db.main
        /\ db'.done = db.done /\ db'.spent = db.spent
        /\ db'.taken[x] = r.side /\ \A y \in Legendary \ {x} : db'.taken[y] = db.taken[y]
    BY <1>1, <1>4 DEF CompletesContract
  <2>2. /\ n.pc = "spend" /\ n.kind = r.kind /\ n.fin = r.fin /\ n.side = r.side /\ n.leg = x /\ Adds(r, n)
        /\ n.entry.type = "legendary"
    BY <1>1, <1>4 DEF CompletesContract
  <2>3. KnownBy(db', log, match, n)
    BY <1>1, <1>2, <2>2 DEF KnownBy
  <2>4. ToldOf(db', log, n)
    BY <1>1, <1>2, <2>1, <2>2, ToldApart
  <2>5. r.src = 1 /\ r.sum = 0 /\ db.spent = Held(db)
    BY <1>1, <1>2, SumStarts DEF SettledOf
  <2>6. x \in Held(db') /\ db'.spent = Held(db') \ {x}
    BY <1>1, <2>1, <2>5, ScoreAssumption DEF Held
  <2>7. SettledBy(db', match, n)
    BY <2>2, <2>5, <2>6 DEF SettledBy, Adds
  <2>8. \A s \in Side : ~Owes(n, s) => ~Owes(r, s) /\ Breakdown(db', s) = Breakdown(db, s)
    <3> TAKE s \in Side
    <3> HAVE ~Owes(n, s)
    <3>1. s # db.taken[x] /\ s # db'.taken[x]
      BY <2>1, <2>2, ScoreAssumption DEF Owes
    <3>2. Breakdown(db', s) = Breakdown(db, s)
      BY <1>1, <2>1, <3>1, OtherHolder
    <3> QED BY <1>1, <3>2 DEF Owes
  <2>9. SettledOf(db', total, match, n)
    BY <1>1, <1>2, <2>2, <2>7, <2>8, SettledMoves DEF Deciding
  <2> QED BY <1>1, <2>3, <2>4, <2>9 DEF Here, RestOf
<1> QED BY <1>3, <1>4

LEMMA SpendRest == ASSUME Typed, NEW p \in Request, Here(p), MarkSpent(p) PROVE Here(p)'
<1> DEFINE r == req[p]
           n == req'[p]
           x == r.leg
<1>1. /\ r.pc = "spend" /\ r.kind = "legendary" /\ x \in Legendary /\ r.side \in Side /\ ~r.tally
      /\ db'.entry = db.entry /\ db'.main = db.main /\ db'.done = db.done /\ db'.taken = db.taken
      /\ db'.spent = db.spent \cup {x}
      /\ n.pc = "sum" /\ Same(r, n) /\ n.todo = <<r.side>> /\ n.src = r.src /\ n.sum = r.sum
      /\ UNCHANGED <<total, log, match>>
  BY ContractSpent DEF SpendsContract
<1>2. KnownBy(db, log, match, r) /\ ToldOf(db, log, r) /\ SettledOf(db, total, match, r)
  BY DEF Here, RestOf
<1>3. r.src = 1 /\ r.sum = 0 /\ x \in Held(db) /\ db.spent = Held(db) \ {x} /\ r.entry.type = "legendary"
  BY <1>1, <1>2, SumStarts, RequestFacts DEF SettledOf, SettledBy, Carries
<1>4. KnownBy(db', log, match, n)
  BY <1>1, <1>2 DEF KnownBy, Same
<1>5. ToldOf(db', log, n)
  BY <1>1, <1>2, <1>3, ToldApart DEF Same
<1>6. SettledBy(db', match, n)
  BY <1>1, <1>3, FirstSum DEF Same
<1>7. ToSet(n.todo) = {r.side}
  BY <1>1 DEF ToSet
<1>8. \A s \in Side : ~Owes(n, s) => ~Owes(r, s) /\ Breakdown(db', s) = Breakdown(db, s)
  <2> TAKE s \in Side
  <2> HAVE ~Owes(n, s)
  <2>1. s # r.side
    BY <1>1, <1>7 DEF Owes
  <2> QED BY <1>1, <2>1, OtherSide DEF Owes
<1>9. db'.spent = Held(db')
  BY <1>1, <1>3 DEF Held
<1>10. SettledOf(db', total, match, n)
  BY <1>1, <1>2, <1>6, <1>8, <1>9, SettledMoves DEF Deciding
<1> QED BY <1>1, <1>4, <1>5, <1>10 DEF Here, RestOf

LEMMA PutRest == ASSUME Typed, NEW p \in Request, Here(p), PutEntry(p) PROVE Here(p)'
<1> DEFINE r == req[p]
           n == req'[p]
<1>1. /\ r.pc = "put" /\ r.kind \in {"entry", "main"} /\ r.side \in Side /\ ~r.tally
      /\ \A s \in Side \ {r.side} : db'.entry[s] = db.entry[s] /\ db'.main[s] = db.main[s]
      /\ db'.done = db.done /\ db'.taken = db.taken /\ db'.spent = db.spent
      /\ n.pc = "sum" /\ Same(r, n) /\ n.todo = <<r.side>> /\ n.src = r.src /\ n.sum = r.sum
      /\ UNCHANGED <<total, log, match>>
  BY EntryPut DEF PutsEntry
<1>2. KnownBy(db, log, match, r) /\ ToldOf(db, log, r) /\ SettledOf(db, total, match, r)
  BY DEF Here, RestOf
<1>3. r.src = 1 /\ r.sum = 0 /\ db.spent = Held(db)
  BY <1>1, <1>2, SumStarts DEF SettledOf
<1>4. KnownBy(db', log, match, n)
  BY <1>1, <1>2 DEF KnownBy, Same
<1>5. ToldOf(db', log, n)
  <2>1. \A t \in Task : ~Unlogged(n, t) /\ ~Unerased(n, t) /\ ~Unlogged(r, t) /\ ~Unerased(r, t)
    BY <1>1 DEF Unlogged, Unerased, Same
  <2> QED BY <1>1, <1>2, <2>1, ToldSame
<1>6. SettledBy(db', match, n)
  BY <1>1, <1>3, FirstSum DEF Same
<1>7. ToSet(n.todo) = {r.side}
  BY <1>1 DEF ToSet
<1>8. \A s \in Side : ~Owes(n, s) => ~Owes(r, s) /\ Breakdown(db', s) = Breakdown(db, s)
  <2> TAKE s \in Side
  <2> HAVE ~Owes(n, s)
  <2>1. s # r.side
    BY <1>1, <1>7 DEF Owes
  <2> QED BY <1>1, <2>1, OtherSide DEF Owes
<1>9. db'.spent = Held(db')
  BY <1>1, <1>3 DEF Held
<1>10. SettledOf(db', total, match, n)
  BY <1>1, <1>2, <1>6, <1>8, <1>9, SettledMoves DEF Deciding
<1> QED BY <1>1, <1>4, <1>5, <1>10 DEF Here, RestOf

\* The totals of a request are all added up: m is r when they are, n what it becomes.
LEMMA AddedRest ==
  ASSUME NEW d, NEW tot, NEW l, NEW m, NEW r, Fields(r), Carries(r), r.pc = "sum", r.todo = <<>>, RestOf(d, tot, l, m, r)
  PROVE  RestOf(d, tot, l, m, Added(r))
<1> DEFINE n == Added(r)
<1>1. KnownBy(d, l, m, r) /\ ToldOf(d, l, r) /\ SettledOf(d, tot, m, r)
  BY DEF RestOf
<1>2. /\ n.got = r.got \/ ~r.tally
      /\ r.tally => n.pc = (IF r.kind = "finish" THEN "close" ELSE "prior") /\ Same(r, n) /\ n.todo = <<>> /\ n.src = 1 /\ n.sum = 0
      /\ ~r.tally /\ r.kind \in {"entry", "main"} => n = Blank
      /\ ~r.tally /\ r.kind = "undo" /\ ~r.fin => n = Blank
      /\ ~r.tally /\ r.kind = "undo" /\ r.fin =>
           n.pc = "sum" /\ n.kind = r.kind /\ n.fin /\ n.entry = r.entry /\ n.tally /\ n.todo = Seeds /\ n.src = 1 /\ n.sum = 0
      /\ ~r.tally /\ r.kind \in Edits => n.pc = "log" /\ Same(r, n) /\ n.todo = <<>> /\ n.src = 1 /\ n.sum = 0
      /\ r.tally \/ r.kind \in {"undo", "entry", "main"} \cup Edits
  BY AddedFacts
<1> HIDE DEF n
<1>3. /\ \A s \in Side : ~Owes(r, s) /\ tot[s] = Breakdown(d, s)
      /\ d.spent = Held(d)
      /\ m.status = "finished" => m.rated = m.winner
      /\ r.fin <=> m.status = "finished"
      /\ r.kind \in {"finish", "entry", "main"} => ~r.fin
  <2>1. ToSet(r.todo) = {}
    BY DEF ToSet
  <2> QED BY <1>1, <2>1 DEF SettledOf, Owes, KnownBy
<1>4. CASE r.tally
  <2>1. n.pc \in {"close", "prior"} /\ n.kind = r.kind /\ n.fin = r.fin /\ n.tally /\ n.entry = r.entry /\ n.got = r.got
        /\ n.src = 1 /\ n.sum = 0
    BY <1>2, <1>4 DEF Same
  <2>2. KnownBy(d, l, m, n)
    BY <1>1, <2>1 DEF KnownBy
  <2>3. ToldOf(d, l, n)
    BY <1>1, <1>4, <2>1, ToldApart
  <2>4. \A s \in Side : r.got[s] = Breakdown(d, s)
    <3>1. ToSet(r.todo) = {}
      BY DEF ToSet
    <3> QED BY <1>1, <1>4, <3>1 DEF SettledOf, SettledBy
  <2>5. SettledBy(d, m, n)
    BY <2>1, <2>4 DEF SettledBy
  <2>6. SettledOf(d, tot, m, n)
    BY <1>1, <1>3, <2>1, <2>5, SettledSame DEF Deciding
  <2> QED BY <2>2, <2>3, <2>6 DEF RestOf, n
<1>5. CASE ~r.tally /\ r.kind \in {"undo", "entry", "main"} /\ ~r.fin
  <2>1. n = Blank
    BY <1>2, <1>5
  <2>2. \A t \in Task : ~Unlogged(r, t) /\ ~Unerased(r, t)
    BY <1>5 DEF Unlogged, Unerased
  <2>3. Chain(l) /\ \A t \in Task : Latest(l, t, d.done[t].by)
    BY <1>1, <2>2 DEF ToldOf
  <2> QED BY <1>3, <1>5, <2>1, <2>3, BlankRest DEF n
<1>6. CASE ~r.tally /\ r.kind = "undo" /\ r.fin
  <2>1. n.pc = "sum" /\ n.kind = r.kind /\ n.fin = r.fin /\ n.entry = r.entry /\ n.tally /\ n.todo = Seeds /\ n.src = 1 /\ n.sum = 0
    BY <1>2, <1>6
  <2>2. KnownBy(d, l, m, n)
    BY <1>1, <2>1 DEF KnownBy
  <2>3. ToldOf(d, l, n)
    <3>1. \A t \in Task : ~Unlogged(n, t) /\ ~Unerased(n, t) /\ ~Unlogged(r, t) /\ ~Unerased(r, t)
      BY <1>6, <2>1 DEF Unlogged, Unerased
    <3> QED BY <1>1, <3>1, ToldSame
  <2>4. SettledBy(d, m, n)
    BY <2>1, FirstSum
  <2>5. SettledOf(d, tot, m, n)
    BY <1>1, <1>3, <2>1, <2>4, SettledSame DEF Deciding
  <2> QED BY <2>2, <2>3, <2>5 DEF RestOf, n
<1>7. CASE ~r.tally /\ r.kind \in Edits
  <2>1. /\ n.pc = "log" /\ n.kind = r.kind /\ n.fin = r.fin /\ n.entry = r.entry /\ n.tally = r.tally /\ n.src = 1 /\ n.sum = 0
        /\ r.kind # "undo"
    BY <1>2, <1>7 DEF Same, Edits
  <2>2. KnownBy(d, l, m, n)
    BY <1>1, <2>1 DEF KnownBy
  <2>3. ToldOf(d, l, n)
    <3>1. \A t \in Task : /\ Unlogged(n, t) <=> Unlogged(r, t)
                          /\ ~Unerased(n, t) /\ ~Unerased(r, t)
      BY <1>7, <2>1 DEF Unlogged, Unerased
    <3> QED BY <1>1, <2>1, <3>1, ToldSame
  <2>4. SettledBy(d, m, n)
    BY <2>1, QuietSettledBy
  <2>5. SettledOf(d, tot, m, n)
    BY <1>1, <1>3, <2>1, <2>4, SettledSame DEF Deciding
  <2> QED BY <2>2, <2>3, <2>5 DEF RestOf, n
<1> QED BY <1>2, <1>3, <1>4, <1>5, <1>6, <1>7

LEMMA SourceRest == ASSUME Typed, NEW p \in Request, Here(p), ReadSource(p) PROVE Here(p)'
<1> DEFINE r == req[p]
           n == req'[p]
           b == Sources(db, Head(r.todo))
<1>1. /\ r.pc = "sum" /\ r.todo # <<>> /\ r.src <= 4 /\ r.src \in Nat /\ n.pc = "sum" /\ Same(r, n) /\ n.todo = r.todo
      /\ n.got = r.got /\ n.src = r.src + 1 /\ n.sum = r.sum + b[r.src] /\ UNCHANGED <<db, total, log, match>>
  BY SourceRead DEF ReadsSource
<1>2. KnownBy(db, log, match, r) /\ ToldOf(db, log, r) /\ SettledOf(db, total, match, r)
  BY DEF Here, RestOf
<1>3. KnownBy(db, log, match, n)
  BY <1>1, <1>2 DEF KnownBy, Same
<1>4. ToldOf(db, log, n)
  <2>1. \A t \in Task : /\ Unlogged(n, t) <=> Unlogged(r, t)
                        /\ ~Unerased(n, t) /\ ~Unerased(r, t)
    BY <1>1 DEF Unlogged, Unerased, Same
  <2> QED BY <1>1, <1>2, <2>1, ToldSame DEF Same
<1>5. SumSoFar(db, n)
  <2>1. SumSoFar(db, r)
    BY <1>1, <1>2 DEF SettledOf, SettledBy
  <2>2. /\ r.src \in {1, 2, 3, 4}
        /\ r.src = 1 => r.sum = 0
        /\ r.src = 2 => r.sum = b[1]
        /\ r.src = 3 => r.sum = b[1] + b[2]
        /\ r.src = 4 => r.sum = b[1] + b[2] + b[3]
    BY <1>1, <2>1 DEF SumSoFar
  <2>3. b[1] = db.entry[Head(r.todo)].points /\ b[1] \in Nat
    <3>1. Head(r.todo) \in Side
      BY SourceRead DEF ReadsSource
    <3> QED BY <3>1, FirstSource, DbFacts DEF DbRow, Counts, Typed
  <2>4. /\ n.src \in 2..5
        /\ n.src = 2 => n.sum = b[1]
        /\ n.src = 3 => n.sum = b[1] + b[2]
        /\ n.src = 4 => n.sum = b[1] + b[2] + b[3]
        /\ n.src = 5 => n.sum = b[1] + b[2] + b[3] + b[4]
    <3> HIDE DEF b
    <3> QED BY <1>1, <2>2, <2>3
  <2> QED BY <1>1, <2>4 DEF SumSoFar
<1>6. SettledBy(db, match, n)
  BY <1>1, <1>2, <1>5 DEF SettledOf, SettledBy, Same
<1>7. SettledOf(db, total, match, n)
  BY <1>1, <1>2, <1>6, SettledSame DEF Owes, Deciding
<1> QED BY <1>1, <1>3, <1>4, <1>7 DEF Here, RestOf

LEMMA TotalRest == ASSUME Typed, NEW p \in Request, Here(p), SaveTotal(p) PROVE Here(p)'
<1> DEFINE r == req[p]
           h == Head(r.todo)
<1>1. /\ r.pc = "sum" /\ r.todo # <<>> /\ r.src > 4 /\ h \in Side /\ r.todo \in Seq(Side) /\ r.src \in Nat
      /\ total'[h] = r.sum /\ (\A s \in Side \ {h} : total'[s] = total[s])
      /\ UNCHANGED <<db, log, match>>
  BY TotalSaved DEF SavesTotal
<1>2. PICK m : /\ m.pc = "sum" /\ Same(r, m) /\ m.todo = Tail(r.todo) /\ m.src = 1 /\ m.sum = 0
               /\ r.tally => m.got[h] = r.sum
               /\ \A s \in Side \ {h} : m.got[s] = r.got[s]
               /\ Fields(m) /\ Carries(m)
               /\ m.todo = <<>> => req'[p] = Added(m)
               /\ m.todo # <<>> => req'[p] = m
  BY TotalSaved DEF SavesTotal
<1>3. KnownBy(db, log, match, r) /\ ToldOf(db, log, r) /\ SettledOf(db, total, match, r)
  BY DEF Here, RestOf
<1>4. r.sum = Breakdown(db, h)
  <2>1. SumSoFar(db, r)
    BY <1>1, <1>3 DEF SettledOf, SettledBy
  <2>2. r.src = 5
    BY <1>1, <2>1 DEF SumSoFar
  <2> QED BY <2>1, <2>2 DEF SumSoFar, Breakdown
<1>5. \A s \in Side : s \in ToSet(r.todo) => s = h \/ s \in ToSet(m.todo)
  <2>1. /\ Len(r.todo) \in Nat /\ Len(m.todo) = Len(r.todo) - 1
        /\ \A i \in 1..Len(m.todo) : m.todo[i] = r.todo[i + 1]
        /\ m.todo \in Seq(Side)
    BY <1>1, <1>2, HeadTailProperties
  <2>2. h = r.todo[1]
    BY <1>1
  <2>3. ASSUME NEW i \in 1..Len(r.todo), i # 1 PROVE \E j \in 1..Len(m.todo) : m.todo[j] = r.todo[i]
    <3>1. i - 1 \in 1..Len(m.todo) /\ i - 1 + 1 = i
      BY <2>1, <2>3
    <3> QED BY <2>1, <3>1
  <2>4. DOMAIN r.todo = 1..Len(r.todo) /\ DOMAIN m.todo = 1..Len(m.todo)
    BY <1>1, <2>1
  <2> QED BY <2>2, <2>3, <2>4 DEF ToSet
<1>6. KnownBy(db, log, match, m)
  BY <1>1, <1>2, <1>3 DEF KnownBy, Same
<1>7. ToldOf(db, log, m)
  <2>1. \A t \in Task : /\ Unlogged(m, t) <=> Unlogged(r, t)
                        /\ ~Unerased(m, t) /\ ~Unerased(r, t)
    BY <1>1, <1>2 DEF Unlogged, Unerased, Same
  <2> QED BY <1>2, <1>3, <2>1, ToldSame DEF Same
<1>8. SettledBy(db, match, m)
  <2>1. m.todo # <<>> => SumSoFar(db, m)
    BY <1>2 DEF SumSoFar
  <2>2. m.tally => \A s \in Side : s \in ToSet(m.todo) \/ m.got[s] = Breakdown(db, s)
    BY <1>1, <1>2, <1>3, <1>4, <1>5 DEF SettledOf, SettledBy, Same
  <2> QED BY <1>2, <2>1, <2>2 DEF SettledBy
<1>9. SettledOf(db, total', match, m)
  <2>1. \A s \in Side : ~Owes(m, s) => total'[s] = Breakdown(db, s)
    <3> TAKE s \in Side
    <3> HAVE ~Owes(m, s)
    <3>1. CASE s = h
      BY <1>1, <1>4, <3>1
    <3>2. CASE s # h
      BY <1>1, <1>2, <1>3, <1>5, <3>2 DEF Owes, SettledOf
    <3> QED BY <3>1, <3>2
  <2>2. db.spent = Held(db)
    BY <1>1, <1>3 DEF SettledOf
  <2>3. match.status = "finished" => match.rated = match.winner
    BY <1>1, <1>3 DEF SettledOf
  <2> QED BY <1>2, <1>8, <2>1, <2>2, <2>3 DEF SettledOf, Deciding
<1>10. RestOf(db, total', log, match, m)
  BY <1>6, <1>7, <1>9 DEF RestOf
<1>11. RestOf(db, total', log, match, req'[p])
  <2>1. CASE m.todo # <<>>
    BY <1>2, <1>10, <2>1
  <2>2. CASE m.todo = <<>>
    <3>1. Fields(m) /\ Carries(m) /\ m.pc = "sum" /\ req'[p] = Added(m)
      BY <1>2, <2>2
    <3>2. RestOf(db, total', log, match, Added(m))
      BY <1>10, <2>2, <3>1, AddedRest
    <3> QED BY <3>1, <3>2
  <2> QED BY <2>1, <2>2
<1> QED BY <1>1, <1>11 DEF Here

LEMMA NothingRest == ASSUME Typed, NEW p \in Request, Here(p), NothingToAdd(p) PROVE Here(p)'
<1>1. req[p].pc = "sum" /\ req[p].todo = <<>> /\ req'[p] = Added(req[p]) /\ UNCHANGED <<db, total, log, match>>
  BY NothingAdded DEF AddsNothing
<1>2. RestOf(db, total, log, match, Added(req[p]))
  BY <1>1, AddedRest, RequestFacts DEF Here
<1> QED BY <1>1, <1>2 DEF Here

\* A row is appended, a row is dropped.
LEMMA RowAppended ==
  ASSUME NEW l \in Seq(LogRow), NEW e \in LogRow, Chain(l), NEW t \in Task, About(e, t), Latest(l, t, e.prev.by)
  PROVE  Chain(Append(l, e)) /\ Latest(Append(l, e), t, e.side)
         /\ \A x \in Task \ {t} : \A by : Latest(l, x, by) => Latest(Append(l, e), x, by)
<1> DEFINE k == Append(l, e)
           N == Len(l) + 1
<1>1. /\ Len(l) \in Nat /\ Len(k) = N /\ k[N] = e /\ \A i \in 1..Len(l) : k[i] = l[i]
      /\ \A i \in 1..Len(k) : i \in 1..Len(l) \/ i = N
  <2>1. Len(l) \in Nat /\ Len(k) = N /\ k[N] = e /\ \A i \in 1..Len(l) : k[i] = l[i]
    BY AppendProperties
  <2> QED BY <2>1
<1>2. \A i \in 1..Len(l) : i \in 1..Len(k) /\ i < N
  BY <1>1
<1>3. N \in 1..Len(k) /\ N = Len(l) + 1
  BY <1>1
<1> HIDE DEF k, N
<1>4. ASSUME NEW x \in Task, NEW i \in 1..Len(k), NEW j \in 1..Len(k), i < j, About(k[i], x), About(k[j], x),
             \A q \in 1..Len(k) : i < q /\ q < j => ~About(k[q], x)
      PROVE  k[i].side = k[j].prev.by
  <2>1. i \in 1..Len(l)
    BY <1>1, <1>3, <1>4
  <2>2. CASE j \in 1..Len(l)
    <3>1. \A q \in 1..Len(l) : i < q /\ q < j => ~About(l[q], x)
      BY <1>1, <1>2, <1>4
    <3>2. About(l[i], x) /\ About(l[j], x)
      BY <1>1, <1>4, <2>1, <2>2
    <3>3. l[i].side = l[j].prev.by
      BY <1>4, <2>1, <2>2, <3>1, <3>2 DEF Chain
    <3> QED BY <1>1, <2>1, <2>2, <3>3
  <2>3. CASE j = N
    <3>1. x = t
      BY <1>1, <1>4, <2>3 DEF About
    <3>2. \A q \in 1..Len(l) : i < q => ~About(l[q], x)
      BY <1>1, <1>2, <1>4, <2>3
    <3>3. l[i].side = e.prev.by
      BY <1>1, <1>4, <2>1, <3>1, <3>2 DEF Latest
    <3> QED BY <1>1, <2>1, <2>3, <3>3
  <2> QED BY <1>1, <2>2, <2>3
<1>5. Chain(k)
  BY <1>4 DEF Chain
<1>6. Latest(k, t, e.side)
  <2> SUFFICES ASSUME NEW i \in 1..Len(k), About(k[i], t), \A q \in 1..Len(k) : i < q => ~About(k[q], t)
               PROVE  k[i].side = e.side
    BY DEF Latest
  <2>1. i = N
    BY <1>1, <1>2, <1>3
  <2> QED BY <1>1, <2>1
<1>7. ASSUME NEW x \in Task \ {t}, NEW by, Latest(l, x, by) PROVE Latest(k, x, by)
  <2> SUFFICES ASSUME NEW i \in 1..Len(k), About(k[i], x), \A q \in 1..Len(k) : i < q => ~About(k[q], x)
               PROVE  k[i].side = by
    BY DEF Latest
  <2>1. i # N
    BY <1>1 DEF About
  <2>2. i \in 1..Len(l)
    BY <1>1, <2>1
  <2>3. \A q \in 1..Len(l) : i < q => ~About(l[q], x)
    BY <1>1, <1>2
  <2> QED BY <1>1, <1>7, <2>2, <2>3 DEF Latest
<1> QED BY <1>5, <1>6, <1>7 DEF k

LEMMA RowBeside ==
  ASSUME NEW l \in Seq(LogRow), NEW e \in LogRow, Chain(l), e.type # "task"
  PROVE  Chain(Append(l, e)) /\ \A x \in Task : \A by : Latest(l, x, by) => Latest(Append(l, e), x, by)
<1> DEFINE k == Append(l, e)
           N == Len(l) + 1
<1>1. /\ Len(l) \in Nat /\ Len(k) = N /\ k[N] = e /\ \A i \in 1..Len(l) : k[i] = l[i]
      /\ \A i \in 1..Len(k) : i \in 1..Len(l) \/ i = N
  <2>1. Len(l) \in Nat /\ Len(k) = N /\ k[N] = e /\ \A i \in 1..Len(l) : k[i] = l[i]
    BY AppendProperties
  <2> QED BY <2>1
<1>2. \A i \in 1..Len(l) : i \in 1..Len(k) /\ i < N
  BY <1>1
<1> HIDE DEF k, N
<1>3. \A x : ~About(k[N], x)
  BY <1>1 DEF About
<1>4. ASSUME NEW x \in Task, NEW i \in 1..Len(k), NEW j \in 1..Len(k), i < j, About(k[i], x), About(k[j], x),
             \A q \in 1..Len(k) : i < q /\ q < j => ~About(k[q], x)
      PROVE  k[i].side = k[j].prev.by
  <2>1. i \in 1..Len(l) /\ j \in 1..Len(l)
    BY <1>1, <1>3, <1>4
  <2>2. \A q \in 1..Len(l) : i < q /\ q < j => ~About(l[q], x)
    BY <1>1, <1>2, <1>4
  <2>3. About(l[i], x) /\ About(l[j], x)
    BY <1>1, <1>4, <2>1
  <2>4. l[i].side = l[j].prev.by
    BY <1>4, <2>1, <2>2, <2>3 DEF Chain
  <2> QED BY <1>1, <2>1, <2>4
<1>5. ASSUME NEW x \in Task, NEW by, Latest(l, x, by) PROVE Latest(k, x, by)
  <2> SUFFICES ASSUME NEW i \in 1..Len(k), About(k[i], x), \A q \in 1..Len(k) : i < q => ~About(k[q], x)
               PROVE  k[i].side = by
    BY DEF Latest
  <2>1. i \in 1..Len(l)
    BY <1>1, <1>3
  <2>2. \A q \in 1..Len(l) : i < q => ~About(l[q], x)
    BY <1>1, <1>2
  <2> QED BY <1>1, <1>5, <2>1, <2>2 DEF Latest
<1>6. Chain(k)
  BY <1>4 DEF Chain
<1> QED BY <1>5, <1>6 DEF k

LEMMA RowDropped ==
  ASSUME NEW l \in Seq(LogRow), l # <<>>, NEW k \in Seq(LogRow), Len(k) = Len(l) - 1, Chain(l),
         \A i \in 1..Len(k) : k[i] = l[i]
  PROVE  /\ Chain(k)
         /\ \A t \in Task : About(l[Len(l)], t) => Latest(k, t, l[Len(l)].prev.by)
         /\ \A t \in Task : \A by : ~About(l[Len(l)], t) /\ Latest(l, t, by) => Latest(k, t, by)
<1> DEFINE N == Len(l)
<1>1. N \in Nat /\ N \in 1..N /\ Len(k) = N - 1
  BY DEF N
<1>2. (\A i \in 1..Len(k) : i \in 1..N /\ i < N) /\ (\A i \in 1..N : i \in 1..Len(k) \/ i = N)
  BY <1>1
<1>3. Len(l) = N
  OBVIOUS
<1> HIDE DEF N
<1>4. ASSUME NEW x \in Task, NEW i \in 1..Len(k), NEW j \in 1..Len(k), i < j, About(k[i], x), About(k[j], x),
             \A q \in 1..Len(k) : i < q /\ q < j => ~About(k[q], x)
      PROVE  k[i].side = k[j].prev.by
  <2>1. \A q \in 1..N : i < q /\ q < j => q \in 1..Len(k)
    BY <1>1, <1>2
  <2>2. \A q \in 1..N : i < q /\ q < j => ~About(l[q], x)
    BY <1>4, <2>1
  <2>3. About(l[i], x) /\ About(l[j], x) /\ i \in 1..N /\ j \in 1..N
    BY <1>2, <1>4
  <2>4. l[i].side = l[j].prev.by
    BY <1>3, <1>4, <2>2, <2>3 DEF Chain
  <2> QED BY <2>4
<1>5. ASSUME NEW t \in Task, About(l[N], t) PROVE Latest(k, t, l[N].prev.by)
  <2> SUFFICES ASSUME NEW i \in 1..Len(k), About(k[i], t), \A q \in 1..Len(k) : i < q => ~About(k[q], t)
               PROVE  k[i].side = l[N].prev.by
    BY DEF Latest
  <2>1. \A q \in 1..N : i < q /\ q < N => q \in 1..Len(k)
    BY <1>1, <1>2
  <2>2. \A q \in 1..N : i < q /\ q < N => ~About(l[q], t)
    BY <2>1
  <2>3. About(l[i], t) /\ i \in 1..N /\ i < N /\ N \in 1..N
    BY <1>1, <1>2
  <2>4. l[i].side = l[N].prev.by
    BY <1>3, <1>5, <2>2, <2>3 DEF Chain
  <2> QED BY <2>4
<1>6. ASSUME NEW t \in Task, NEW by, ~About(l[N], t), Latest(l, t, by) PROVE Latest(k, t, by)
  <2> SUFFICES ASSUME NEW i \in 1..Len(k), About(k[i], t), \A q \in 1..Len(k) : i < q => ~About(k[q], t)
               PROVE  k[i].side = by
    BY DEF Latest
  <2>1. \A q \in 1..N : i < q => ~About(l[q], t)
    BY <1>2, <1>6
  <2>2. About(l[i], t) /\ i \in 1..N
    BY <1>2
  <2> QED BY <1>3, <1>6, <2>1, <2>2 DEF Latest
<1>7. Chain(k)
  BY <1>4 DEF Chain
<1> QED BY <1>3, <1>5, <1>6, <1>7

\* Without a decision to take again a request is over when its row is written.
LEMMA LogRest == ASSUME Typed, NEW p \in Request, Here(p), AddMatchLog(p) PROVE Here(p)'
<1> DEFINE r == req[p]
           n == req'[p]
<1>1. /\ r.pc = "log" /\ r.kind \in Edits /\ r.entry.type = r.kind /\ Fields(r) /\ Carries(r) /\ n = Conclude(r)
      /\ UNCHANGED <<db, total, match>>
  BY Logged1 DEF Logs
<1>2. PICK e \in LogRow : /\ log' = Append(log, e) /\ e.type = r.entry.type /\ e.side = r.entry.side /\ e.task = r.entry.task
                          /\ e.prev = r.entry.prev
  BY Logged1 DEF Logs
<1>3. KnownBy(db, log, match, r) /\ ToldOf(db, log, r) /\ SettledOf(db, total, match, r)
  BY DEF Here, RestOf
<1>4. log \in Seq(LogRow) /\ Chain(log) /\ Says(r.entry)
  BY <1>1, <1>3 DEF Typed, LogTyped, ToldOf, Carries, Edits
<1>5. Chain(log') /\ \A x \in Task : Latest(log', x, db.done[x].by)
  <2>1. CASE r.kind = "task"
    <3>1. e.type = "task" /\ e.task \in Task /\ About(r.entry, e.task) /\ About(e, e.task)
      BY <1>1, <1>2, <1>4, <2>1 DEF Says, About
    <3>2. /\ Unlogged(r, e.task) /\ \A x \in Task \ {e.task} : ~Unlogged(r, x)
          /\ \A x \in Task : ~Unerased(r, x)
      BY <1>1, <1>2, <2>1, <3>1 DEF Unlogged, Unerased, About
    <3>3. Latest(log, e.task, e.prev.by) /\ e.side = db.done[e.task].by
      BY <1>2, <1>3, <3>1, <3>2 DEF ToldOf
    <3>4. \A x \in Task \ {e.task} : Latest(log, x, db.done[x].by)
      BY <1>3, <3>2 DEF ToldOf
    <3>5. /\ Chain(log') /\ Latest(log', e.task, e.side)
          /\ \A x \in Task \ {e.task} : \A by : Latest(log, x, by) => Latest(log', x, by)
      BY <1>2, <1>4, <3>1, <3>3, RowAppended
    <3> QED BY <3>3, <3>4, <3>5
  <2>2. CASE r.kind # "task"
    <3>1. e.type # "task"
      BY <1>1, <1>2, <2>2
    <3>2. \A x \in Task : ~Unlogged(r, x) /\ ~Unerased(r, x)
      BY <1>1, <2>2 DEF Unlogged, Unerased
    <3>3. \A x \in Task : Latest(log, x, db.done[x].by)
      BY <1>3, <3>2 DEF ToldOf
    <3>4. Chain(log') /\ \A x \in Task : \A by : Latest(log, x, by) => Latest(log', x, by)
      BY <1>2, <1>4, <3>1, RowBeside
    <3> QED BY <3>3, <3>4
  <2> QED BY <2>1, <2>2
<1>6. /\ \A s \in Side : total[s] = Breakdown(db, s)
      /\ db.spent = Held(db)
      /\ match.status = "finished" => match.rated = match.winner
      /\ r.fin <=> match.status = "finished"
  BY <1>1, <1>3 DEF SettledOf, Owes, KnownBy
<1>7. CASE ~r.fin
  <2>1. n = Blank
    BY <1>1, <1>7, ConcludeFacts
  <2>2. RestOf(db, total, log', match, Blank)
    BY <1>5, <1>6, <1>7, BlankRest
  <2> QED BY <1>1, <2>1, <2>2 DEF Here
<1>8. CASE r.fin
  <2>1. n.pc = "sum" /\ n.kind = r.kind /\ n.fin = r.fin /\ n.tally /\ n.todo = Seeds /\ n.src = 1 /\ n.sum = 0
    <3>1. /\ Fields(r) /\ Carries(r) /\ r.kind \in Edits \cup {"undo"} /\ r.fin /\ n = Conclude(r)
      BY <1>1, <1>8
    <3> HIDE DEF n
    <3> QED BY <3>1, ConcludeFacts
  <2>2. KnownBy(db, log', match, n)
    BY <1>1, <1>3, <2>1 DEF KnownBy, Edits
  <2>3. ToldOf(db, log', n)
    BY <1>5, <2>1, NoneMarked DEF ToldOf
  <2>4. SettledBy(db, match, n)
    BY <2>1, FirstSum
  <2>5. SettledOf(db, total, match, n)
    <3>1. \A s \in Side : ~Owes(r, s)
      BY <1>1 DEF Owes
    <3> QED BY <1>1, <1>3, <2>1, <2>4, <3>1, SettledSame DEF Deciding
  <2> QED BY <1>1, <2>2, <2>3, <2>5 DEF Here, RestOf
<1> QED BY <1>7, <1>8

LEMMA CloseRest == ASSUME Typed, NEW p \in Request, Here(p), CloseRounds(p) PROVE Here(p)'
<1> DEFINE r == req[p]
           n == req'[p]
<1>1. /\ r.pc = "close" /\ r.kind = "finish" /\ n.pc = "crown" /\ Same(r, n) /\ Adds(r, n) /\ UNCHANGED <<db, total, log>>
      /\ match'.status = match.status /\ match'.winner = match.winner /\ match'.rated = match.rated
  BY RoundsClosed DEF ClosesRounds
<1>2. KnownBy(db, log, match, r) /\ ToldOf(db, log, r) /\ SettledOf(db, total, match, r)
  BY DEF Here, RestOf
<1>3. KnownBy(db, log, match', n)
  BY <1>1, <1>2 DEF KnownBy, Same
<1>4. ToldOf(db, log, n)
  BY <1>1, <1>2, ToldApart
<1>5. SettledBy(db, match', n)
  BY <1>1, <1>2 DEF SettledOf, SettledBy, Same, Adds
<1>6. SettledOf(db, total, match', n)
  <2>1. \A s \in Side : ~Owes(r, s)
    BY <1>1 DEF Owes
  <2> QED BY <1>1, <1>2, <1>5, <2>1, SettledSame DEF Deciding
<1> QED BY <1>1, <1>3, <1>4, <1>6 DEF Here, RestOf

\* The winner that is written is the side that is ahead in the tables.
LEMMA CrownsLeader ==
  ASSUME NEW d, NEW tot, NEW m, NEW r, SettledOf(d, tot, m, r), r.pc = "crown"
  PROVE  /\ Ahead(r.got) = Leads(d) /\ r.src = 1 /\ r.sum = 0 /\ d.spent = Held(d)
         /\ \A s \in Side : tot[s] = Breakdown(d, s)
         /\ m.status = "finished" => m.rated = m.winner
         /\ r.kind # "finish" => r.side = m.winner
<1>1. \A s \in Side : r.got[s] = Breakdown(d, s)
  BY DEF SettledOf, SettledBy
<1> DEFINE f == [s \in Side |-> Breakdown(d, s)]
<1>2. \A s \in Side : r.got[s] = f[s]
  BY <1>1
<1>3. Leads(d) = Ahead(f)
  BY DEF Leads
<1> HIDE DEF f
<1>4. Ahead(r.got) = Leads(d)
  BY <1>2, <1>3, AheadFacts
<1> QED BY <1>4 DEF SettledOf, SettledBy, Owes

LEMMA FinishRest == ASSUME Typed, NEW p \in Request, Here(p), FinishTournament(p) PROVE Here(p)'
<1> DEFINE r == req[p]
           n == req'[p]
<1>1. /\ r.pc = "crown" /\ r.kind = "finish" /\ n.pc = "rate" /\ Same(r, n) /\ Adds(r, n) /\ UNCHANGED <<db, total, log>>
      /\ match'.status = "finished" /\ match'.winner = Ahead(r.got) /\ match'.rated = match.rated
  BY Finished DEF Finishes
<1>2. KnownBy(db, log, match, r) /\ ToldOf(db, log, r) /\ SettledOf(db, total, match, r)
  BY DEF Here, RestOf
<1>3. KnownBy(db, log, match', n)
  BY <1>1, <1>2 DEF KnownBy, Same
<1>4. ToldOf(db, log, n)
  BY <1>1, <1>2, ToldApart
<1>5. /\ Ahead(r.got) = Leads(db) /\ r.src = 1 /\ r.sum = 0 /\ db.spent = Held(db)
      /\ \A s \in Side : total[s] = Breakdown(db, s)
  BY <1>1, <1>2, CrownsLeader
<1>6. SettledBy(db, match', n)
  BY <1>1, <1>5, QuietSettledBy DEF Adds
<1>7. SettledOf(db, total, match', n)
  BY <1>1, <1>5, <1>6 DEF SettledOf
<1> QED BY <1>1, <1>3, <1>4, <1>7 DEF Here, RestOf

LEMMA WinnerRest == ASSUME Typed, NEW p \in Request, Here(p), ReadWinner(p) PROVE Here(p)'
<1> DEFINE r == req[p]
           n == req'[p]
<1>1. /\ r.pc = "prior" /\ r.kind # "finish" /\ n.pc = "crown" /\ n.kind = r.kind /\ n.fin = r.fin /\ n.entry = r.entry
      /\ n.tally = r.tally /\ n.side = match.winner /\ Adds(r, n) /\ UNCHANGED <<db, total, log, match>>
  BY WinnerRead DEF ReadsWinner
<1>2. KnownBy(db, log, match, r) /\ ToldOf(db, log, r) /\ SettledOf(db, total, match, r)
  BY DEF Here, RestOf
<1>3. KnownBy(db, log, match, n)
  BY <1>1, <1>2 DEF KnownBy
<1>4. ToldOf(db, log, n)
  BY <1>1, <1>2, ToldApart
<1>5. SettledBy(db, match, n)
  BY <1>1, <1>2 DEF SettledOf, SettledBy, Adds
<1>6. SettledOf(db, total, match, n)
  <2>1. \A s \in Side : ~Owes(r, s)
    BY <1>1 DEF Owes
  <2> QED BY <1>1, <1>2, <1>5, <2>1, SettledSame DEF Deciding
<1> QED BY <1>1, <1>3, <1>4, <1>6 DEF Here, RestOf

LEMMA RecrownRest == ASSUME Typed, NEW p \in Request, Here(p), Recrown(p) PROVE Here(p)'
<1> DEFINE r == req[p]
           n == req'[p]
<1>1. /\ r.pc = "crown" /\ r.kind # "finish" /\ UNCHANGED <<db, total, log>>
      /\ match'.status = match.status /\ match'.winner = Ahead(r.got) /\ match'.rated = match.rated
      /\ Ahead(r.got) = r.side => n = Blank
      /\ Ahead(r.got) # r.side => n.pc = "rate" /\ Same(r, n) /\ Adds(r, n)
  BY Recrowned DEF Recrowns
<1>2. KnownBy(db, log, match, r) /\ ToldOf(db, log, r) /\ SettledOf(db, total, match, r)
  BY DEF Here, RestOf
<1>3. /\ Ahead(r.got) = Leads(db) /\ r.src = 1 /\ r.sum = 0 /\ db.spent = Held(db)
      /\ \A s \in Side : total[s] = Breakdown(db, s)
      /\ match.status = "finished" => match.rated = match.winner
      /\ r.side = match.winner
  BY <1>1, <1>2, CrownsLeader
<1>4. CASE Ahead(r.got) = r.side
  <2>1. Chain(log) /\ \A t \in Task : Latest(log, t, db.done[t].by)
    BY <1>1, <1>2, NoneMarked DEF ToldOf
  <2>2. match'.status = "finished" => match'.winner = Leads(db) /\ match'.rated = match'.winner
    BY <1>1, <1>3, <1>4
  <2>3. RestOf(db, total, log, match', Blank)
    BY <1>3, <2>1, <2>2, BlankRest
  <2> QED BY <1>1, <1>4, <2>3 DEF Here
<1>5. CASE Ahead(r.got) # r.side
  <2>1. n.pc = "rate" /\ Same(r, n) /\ Adds(r, n)
    BY <1>1, <1>5
  <2>2. KnownBy(db, log, match', n)
    BY <1>1, <1>2, <2>1 DEF KnownBy, Same
  <2>3. ToldOf(db, log, n)
    BY <1>1, <1>2, <2>1, ToldApart
  <2>4. SettledBy(db, match', n)
    BY <1>3, <2>1, QuietSettledBy DEF Adds
  <2>5. SettledOf(db, total, match', n)
    BY <1>1, <1>3, <2>1, <2>4 DEF SettledOf
  <2> QED BY <1>1, <2>2, <2>3, <2>5 DEF Here, RestOf
<1> QED BY <1>4, <1>5

LEMMA RateRest == ASSUME Typed, NEW p \in Request, Here(p), Rate(p) PROVE Here(p)'
<1> DEFINE r == req[p]
<1>1. /\ r.pc = "rate" /\ req'[p] = Blank /\ UNCHANGED <<db, total, log>>
      /\ match'.status = match.status /\ match'.winner = match.winner /\ match'.rated = match.winner
  BY Rated DEF Rates
<1>2. ToldOf(db, log, r) /\ SettledOf(db, total, match, r)
  BY DEF Here, RestOf
<1>3. Chain(log) /\ \A t \in Task : Latest(log, t, db.done[t].by)
  BY <1>1, <1>2, NoneMarked DEF ToldOf
<1>4. /\ \A s \in Side : total[s] = Breakdown(db, s)
      /\ db.spent = Held(db)
      /\ match'.status = "finished" => match'.winner = Leads(db) /\ match'.rated = match'.winner
  BY <1>1, <1>2 DEF SettledOf, Owes, Deciding
<1>5. RestOf(db, total, log, match', Blank)
  BY <1>3, <1>4, BlankRest
<1> QED BY <1>1, <1>5 DEF Here

LEMMA TakeRest == ASSUME Typed, NEW p \in Request, Here(p), TakeLast(p) PROVE Here(p)'
<1> DEFINE r == req[p]
           n == req'[p]
<1>1. TakesLast(p) /\ r.pc = "take" /\ r.kind = "undo" /\ UNCHANGED <<db, total, log, match>>
  BY LastTaken DEF TakesLast
<1>2. KnownBy(db, log, match, r) /\ ToldOf(db, log, r) /\ SettledOf(db, total, match, r) /\ RestOf(db, total, log, match, r)
  BY DEF Here, RestOf
<1>3. CASE n = Blank
  BY <1>1, <1>2, <1>3, EndsRest DEF Here
<1>4. CASE n # Blank
  <2>1. /\ log # <<>> /\ n.entry = log[Len(log)] /\ n.kind = r.kind /\ n.fin = r.fin /\ n.tally = r.tally /\ Adds(r, n)
        /\ n.pc \in {"read", "restore", "holder"}
    BY <1>1, <1>4 DEF TakesLast
  <2>2. KnownBy(db, log, match, n)
    BY <1>1, <1>2, <2>1 DEF KnownBy
  <2>3. ToldOf(db, log, n)
    BY <1>1, <1>2, <2>1, ToldApart
  <2>4. SettledBy(db, match, n)
    BY <1>1, <1>2, <2>1, SumStarts, QuietSettledBy DEF Adds
  <2>5. SettledOf(db, total, match, n)
    BY <1>1, <1>2, <2>1, <2>4, SettledSame DEF Owes, Deciding
  <2> QED BY <1>1, <2>2, <2>3, <2>5 DEF Here, RestOf
<1> QED BY <1>3, <1>4

LEMMA RestoreRest == ASSUME Typed, NEW p \in Request, Here(p), RestoreMark(p) PROVE Here(p)'
<1> DEFINE r == req[p]
           n == req'[p]
           t == r.task
           e == r.entry
<1>1. /\ r.pc = "restore" /\ r.kind = "undo" /\ t \in Task /\ ~r.tally /\ e.task = t /\ e.type = "task"
      /\ db'.entry = db.entry /\ db'.main = db.main /\ db'.taken = db.taken /\ db'.spent = db.spent
      /\ db'.done[t] = e.prev /\ \A x \in Task \ {t} : db'.done[x] = db.done[x]
  BY Restored DEF Restores
<1>2. /\ n.pc = "erase" /\ Same(r, n) /\ ToSet(n.todo) = {e.prev.by, e.side} \ {NoSide} /\ n.src = r.src /\ n.sum = r.sum
      /\ UNCHANGED <<total, log, match>>
  BY Restored DEF Restores
<1>3. KnownBy(db, log, match, r) /\ ToldOf(db, log, r) /\ SettledOf(db, total, match, r)
  BY DEF Here, RestOf
<1>4. log # <<>> /\ e = log[Len(log)] /\ r.src = 1 /\ r.sum = 0 /\ db.spent = Held(db)
  <2>1. r.src = 1 /\ r.sum = 0
    BY <1>1, <1>3, SumStarts
  <2> QED BY <1>1, <1>3, <2>1 DEF KnownBy, SettledOf
<1>5. Chain(log) /\ \A x \in Task : Latest(log, x, db.done[x].by)
  BY <1>1, <1>3, NoneMarked DEF ToldOf
<1>6. e.side = db.done[t].by
  <2>1. Len(log) \in Nat /\ Len(log) \in 1..Len(log)
    BY <1>4 DEF Typed, LogTyped
  <2>2. \A k \in 1..Len(log) : ~(Len(log) < k)
    BY <2>1
  <2>3. Latest(log, t, db.done[t].by) /\ About(log[Len(log)], t)
    BY <1>1, <1>4, <1>5 DEF About
  <2> QED BY <1>4, <2>1, <2>2, <2>3 DEF Latest
<1>7. KnownBy(db', log, match, n)
  BY <1>1, <1>2, <1>3, <1>4 DEF KnownBy, Same
<1>8. ToldOf(db', log, n)
  <2>1. \A x \in Task : ~Unlogged(n, x) /\ (Unerased(n, x) <=> x = t)
    BY <1>1, <1>2 DEF Unlogged, Unerased, About, Same
  <2>2. n.entry = e /\ db'.done[t].by = e.prev.by
    BY <1>1, <1>2 DEF Same
  <2> QED BY <1>1, <1>5, <1>6, <2>1, <2>2 DEF ToldOf
<1>9. SettledBy(db', match, n)
  BY <1>2, <1>4, QuietSettledBy
<1>10. \A s \in Side : ~Owes(n, s) => ~Owes(r, s) /\ Breakdown(db', s) = Breakdown(db, s)
  <2> TAKE s \in Side
  <2> HAVE ~Owes(n, s)
  <2>1. s # db.done[t].by /\ s # e.prev.by
    BY <1>2, <1>6, ScoreAssumption DEF Owes
  <2>2. Breakdown(db', s) = Breakdown(db, s)
    BY <1>1, <2>1, OtherMark
  <2> QED BY <1>1, <2>2 DEF Owes
<1>11. db'.spent = Held(db')
  BY <1>1, <1>4 DEF Held
<1>12. SettledOf(db', total, match, n)
  BY <1>1, <1>2, <1>3, <1>9, <1>10, <1>11, SettledMoves DEF Deciding
<1> QED BY <1>2, <1>7, <1>8, <1>12 DEF Here, RestOf

LEMMA HolderRest == ASSUME Typed, NEW p \in Request, Here(p), ReadHolder(p) PROVE Here(p)'
<1> DEFINE r == req[p]
           n == req'[p]
<1>1. /\ r.pc = "holder" /\ r.kind = "undo" /\ n.pc = "release" /\ Same(r, n)
      /\ db.taken[r.leg] = NoSide => n.todo = <<>>
      /\ db.taken[r.leg] # NoSide => n.todo = <<db.taken[r.leg]>>
      /\ n.src = r.src /\ n.sum = r.sum /\ UNCHANGED <<db, total, log, match>>
  BY HolderRead DEF ReadsHolder
<1>2. KnownBy(db, log, match, r) /\ ToldOf(db, log, r) /\ SettledOf(db, total, match, r)
  BY DEF Here, RestOf
<1>3. r.src = 1 /\ r.sum = 0
  BY <1>1, <1>2, SumStarts
<1>4. \A s \in Side : db.taken[r.leg] = s => s \in ToSet(n.todo)
  BY <1>1, ScoreAssumption DEF ToSet
<1>5. KnownBy(db, log, match, n)
  BY <1>1, <1>2, <1>4 DEF KnownBy, Same
<1>6. ToldOf(db, log, n)
  BY <1>1, <1>2, ToldApart
<1>7. SettledBy(db, match, n)
  BY <1>1, <1>3, QuietSettledBy
<1>8. SettledOf(db, total, match, n)
  BY <1>1, <1>2, <1>7, SettledSame DEF Owes, Deciding
<1> QED BY <1>1, <1>5, <1>6, <1>8 DEF Here, RestOf

LEMMA DeleteRest == ASSUME Typed, NEW p \in Request, Here(p), DeleteCompletion(p) PROVE Here(p)'
<1> DEFINE r == req[p]
           n == req'[p]
           x == r.leg
<1>1. /\ r.pc = "release" /\ r.kind = "undo" /\ x \in Legendary /\ n.pc = "reopen" /\ Same(r, n) /\ Adds(r, n)
      /\ db'.entry = db.entry /\ db'.main = db.main /\ db'.done = db.done /\ db'.spent = db.spent
      /\ db'.taken[x] = NoSide /\ (\A y \in Legendary \ {x} : db'.taken[y] = db.taken[y])
      /\ UNCHANGED <<total, log, match>>
  BY CompletionDeleted DEF DeletesCompletion
<1>2. KnownBy(db, log, match, r) /\ ToldOf(db, log, r) /\ SettledOf(db, total, match, r)
  BY DEF Here, RestOf
<1>3. r.src = 1 /\ r.sum = 0 /\ db.spent = Held(db)
  <2>1. r.src = 1 /\ r.sum = 0
    BY <1>1, <1>2, SumStarts
  <2> QED BY <1>1, <1>2, <2>1 DEF SettledOf
<1>4. KnownBy(db', log, match, n)
  BY <1>1, <1>2 DEF KnownBy, Same
<1>5. ToldOf(db', log, n)
  BY <1>1, <1>2, ToldApart
<1>6. x \notin Held(db') /\ db'.spent \ {x} = Held(db')
  BY <1>1, <1>3 DEF Held
<1>7. SettledBy(db', match, n)
  BY <1>1, <1>3, <1>6 DEF SettledBy, Same, Adds
<1>8. \A s \in Side : ~Owes(n, s) => ~Owes(r, s) /\ Breakdown(db', s) = Breakdown(db, s)
  <2> TAKE s \in Side
  <2> HAVE ~Owes(n, s)
  <2>1. s \notin ToSet(r.todo)
    BY <1>1 DEF Owes, Adds
  <2>2. s # db.taken[x] /\ s # db'.taken[x]
    BY <1>1, <1>2, <2>1, ScoreAssumption DEF KnownBy
  <2>3. Breakdown(db', s) = Breakdown(db, s)
    BY <1>1, <2>2, OtherHolder
  <2> QED BY <1>1, <2>3 DEF Owes
<1>9. SettledOf(db', total, match, n)
  BY <1>1, <1>2, <1>7, <1>8, SettledMoves DEF Deciding
<1> QED BY <1>1, <1>4, <1>5, <1>9 DEF Here, RestOf

LEMMA AvailableRest == ASSUME Typed, NEW p \in Request, Here(p), MarkAvailable(p) PROVE Here(p)'
<1> DEFINE r == req[p]
           n == req'[p]
           x == r.leg
<1>1. /\ r.pc = "reopen" /\ r.kind = "undo" /\ ~r.tally /\ x \in Legendary /\ n.pc = "erase" /\ Same(r, n) /\ Adds(r, n)
      /\ db'.entry = db.entry /\ db'.main = db.main /\ db'.done = db.done /\ db'.taken = db.taken
      /\ db'.spent = db.spent \ {x}
      /\ UNCHANGED <<total, log, match>>
  BY MarkedAvailable DEF MarksAvailable
<1>2. KnownBy(db, log, match, r) /\ ToldOf(db, log, r) /\ SettledOf(db, total, match, r)
  BY DEF Here, RestOf
<1>3. r.src = 1 /\ r.sum = 0 /\ db.spent \ {x} = Held(db) /\ r.entry.type # "task"
  BY <1>1, <1>2, SumStarts, RequestFacts DEF SettledOf, SettledBy, Carries
<1>4. KnownBy(db', log, match, n)
  BY <1>1, <1>2 DEF KnownBy, Same
<1>5. ToldOf(db', log, n)
  BY <1>1, <1>2, <1>3, ToldApart DEF Same
<1>6. SettledBy(db', match, n)
  BY <1>1, <1>3, QuietSettledBy DEF Adds
<1>7. \A s \in Side : ~Owes(n, s) => ~Owes(r, s) /\ Breakdown(db', s) = Breakdown(db, s)
  <2> TAKE s \in Side
  <2> HAVE ~Owes(n, s)
  <2>1. Breakdown(db', s) = Breakdown(db, s)
    BY <1>1, OtherSide
  <2> QED BY <1>1, <2>1 DEF Owes, Adds
<1>8. db'.spent = Held(db')
  BY <1>1, <1>3 DEF Held
<1>9. SettledOf(db', total, match, n)
  BY <1>1, <1>2, <1>6, <1>7, <1>8, SettledMoves DEF Deciding
<1> QED BY <1>1, <1>4, <1>5, <1>9 DEF Here, RestOf

LEMMA EraseRest == ASSUME Typed, NEW p \in Request, Here(p), EraseLog(p) PROVE Here(p)'
<1> DEFINE r == req[p]
           n == req'[p]
           e == r.entry
<1>1. /\ r.pc = "erase" /\ r.kind = "undo" /\ ~r.tally /\ n.pc = "sum" /\ Same(r, n) /\ Adds(r, n) /\ UNCHANGED <<db, total, match>>
      /\ log # <<>> /\ e = log[Len(log)] =>
           Len(log') = Len(log) - 1 /\ \A i \in 1..Len(log') : i \in 1..Len(log) /\ i # Len(log) /\ log'[i] = log[i]
  BY Erased DEF Erases
<1>2. KnownBy(db, log, match, r) /\ ToldOf(db, log, r) /\ SettledOf(db, total, match, r)
  BY DEF Here, RestOf
<1>3. log # <<>> /\ e = log[Len(log)]
  BY <1>1, <1>2 DEF KnownBy
<1>4. r.src = 1 /\ r.sum = 0 /\ log \in Seq(LogRow) /\ log' \in Seq(LogRow) /\ Chain(log)
  <2>1. r.src = 1 /\ r.sum = 0
    BY <1>1, <1>2, SumStarts
  <2>2. Typed'
    BY Erased DEF Steps
  <2> QED BY <1>2, <2>1, <2>2 DEF Typed, LogTyped, ToldOf
<1>5. /\ Chain(log')
      /\ \A t \in Task : About(e, t) => Latest(log', t, e.prev.by)
      /\ \A t \in Task : \A by : ~About(e, t) /\ Latest(log, t, by) => Latest(log', t, by)
  BY <1>1, <1>3, <1>4, RowDropped
<1>6. \A t \in Task : Latest(log', t, db.done[t].by)
  <2> TAKE t \in Task
  <2>1. CASE About(e, t)
    <3>1. Unerased(r, t)
      BY <1>1, <2>1 DEF Unerased
    <3>2. e.prev.by = db.done[t].by
      BY <1>2, <3>1 DEF ToldOf
    <3> QED BY <1>5, <2>1, <3>2
  <2>2. CASE ~About(e, t)
    <3>1. ~Unerased(r, t) /\ ~Unlogged(r, t)
      BY <1>1, <2>2 DEF Unerased, Unlogged
    <3>2. Latest(log, t, db.done[t].by)
      BY <1>2, <3>1 DEF ToldOf
    <3> QED BY <1>5, <2>2, <3>2
  <2> QED BY <2>1, <2>2
<1>7. KnownBy(db, log', match, n)
  BY <1>1, <1>2 DEF KnownBy, Same
<1>8. ToldOf(db, log', n)
  <2>1. \A t \in Task : ~Unlogged(n, t) /\ ~Unerased(n, t)
    BY <1>1 DEF Unlogged, Unerased, Same
  <2> QED BY <1>5, <1>6, <2>1 DEF ToldOf
<1>9. SettledBy(db, match, n)
  BY <1>1, <1>4, FirstSum DEF Same, Adds
<1>10. SettledOf(db, total, match, n)
  <2>1. \A s \in Side : Owes(r, s) => Owes(n, s)
    BY <1>1 DEF Owes, Adds
  <2> QED BY <1>1, <1>2, <1>9, <2>1, SettledSame DEF Deciding
<1> QED BY <1>1, <1>7, <1>8, <1>10 DEF Here, RestOf

LEMMA ProceedsRest == ASSUME Typed, NEW p \in Request, Here(p), Proceeds(p) PROVE Here(p)'
<1> USE DEF Proceeds
<1> QED BY ReadRest, SaveRest, LookRest, MarkRest, CompleteRest, SpendRest, PutRest, SourceRest, TotalRest, NothingRest, LogRest,
           CloseRest, FinishRest, WinnerRest, RecrownRest, RateRest, TakeRest, RestoreRest, HolderRest, DeleteRest,
           AvailableRest, EraseRest

-------------------------------------------------------------------------------
(* The beginning.                                                          *)

LEMMA NothingScored ==
  ASSUME NEW d, NEW s \in Side, d.entry[s] = Zero, d.main[s] = 0, \A t \in Task : d.done[t] = NotDone,
         \A x \in Legendary : d.taken[x] = NoSide
  PROVE  Breakdown(d, s) = 0
<1> DEFINE f == [t \in Task |-> TaskPoints(d, t, s)]
           h == {x \in Legendary : d.taken[x] = s}
<1>1. s # NoSide
  BY ScoreAssumption
<1>2. \A t \in Task : TaskPoints(d, t, s) = 0
  BY <1>1 DEF TaskPoints, NotDone
<1>3. SumFunction(f) = 0
  BY <1>2, SumOfZeros, ScoreAssumption DEF SumFunction
<1>4. h = {}
  BY <1>1
<1>5. LegendaryPoints * Cardinality(h) = 0
  <2>1. Cardinality(h) = 0
    BY <1>4, FS_EmptySet
  <2>2. LegendaryPoints \in Nat
    BY ScoreAssumption
  <2> HIDE DEF h
  <2> QED BY <2>1, <2>2
<1>6. Sources(d, s)[1] = 0 /\ Sources(d, s)[2] = 0
  BY DEF Sources, Zero
<1>7. Sources(d, s)[3] = 0 /\ Sources(d, s)[4] = 0
  BY <1>3, <1>5 DEF Sources
<1> QED BY <1>6, <1>7 DEF Breakdown

-------------------------------------------------------------------------------
(* The beginning.                                                          *)

LEMMA BeginsTyped == Init => Typed
<1> SUFFICES ASSUME Init PROVE Typed
  OBVIOUS
<1>1. Zero \in Counts /\ NotDone \in Marks
  BY DEF Zero, Counts, NotDone, Marks
<1>2. db \in Tables
  BY <1>1 DEF Init, Tables
<1>3. match \in Matches /\ load \in Loads /\ total = [s \in Side |-> total[s]]
  BY DEF Init, Matches
<1>4. LogTyped
  BY DEF Init, LogTyped
<1>5. ReqTyped
  BY BlankFacts DEF Init, ReqTyped
<1> QED BY <1>2, <1>3, <1>4, <1>5 DEF Typed, TablesTyped

LEMMA BeginsMarked == Init => MarksRight
<1> SUFFICES ASSUME Init PROVE MarksRight
  OBVIOUS
<1>1. \A p \in Request : req[p] = Blank
  BY DEF Init
<1>2. \A t \in Task : db.done[t] = NotDone /\ MarkRight(t, NotDone)
  BY ScoreAssumption DEF Init, MarkRight, NotDone
<1>3. Len(log) = 0
  BY DEF Init
<1> QED BY <1>1, <1>2, <1>3, BlankFacts DEF MarksRight, At

LEMMA BeginsOne == Init => OneByOne
<1> SUFFICES ASSUME Init PROVE OneByOne
  OBVIOUS
<1>1. \A p \in Request : req[p] = Blank /\ At(p, "idle")
  BY BlankFacts DEF Init, At
<1>2. log = <<>> /\ Len(log) = 0 /\ \A t \in Task : db.done[t] = NotDone /\ db.done[t].by = NoSide
  BY DEF Init, NotDone
<1>3. Chain(log) /\ \A t \in Task : Latest(log, t, db.done[t].by)
  BY <1>2 DEF Chain, Latest
<1>4. \A s \in Side : total[s] = 0 /\ db.entry[s] = Zero /\ db.main[s] = 0
  BY DEF Init
<1>5. db.spent = {} /\ \A x \in Legendary : db.taken[x] = NoSide
  BY DEF Init
<1>6. \A s \in Side : total[s] = Breakdown(db, s)
  BY <1>2, <1>4, <1>5, NothingScored
<1>7. db.spent = Held(db) /\ match.status # "finished"
  BY <1>5 DEF Held, Init
<1>8. RestOf(db, total, log, match, Blank)
  BY <1>3, <1>6, <1>7, BlankRest
<1> QED BY <1>1, <1>8 DEF OneByOne, Known, Told, Settled, OneServed, RestOf

-------------------------------------------------------------------------------
(* Every step.                                                             *)

\* How many clients have gone is a number: with one judge none has.
Counted == cancelled \in Nat

Sound == Typed /\ MarksRight /\ OneByOne /\ Counted

LEMMA SoundBegins == Init => Sound
  BY BeginsTyped, BeginsMarked, BeginsOne DEF Init, Sound, Counted

LEMMA ArrivesSound == ASSUME Sound, NEW p \in Request, Arrives(p) PROVE Sound'
<1>1. Begun(p)
  BY Arrived DEF Sound, Typed
<1>2. Typed'
  BY <1>1, TablesSame, LogSame DEF Sound, Typed, Begun
<1>3. MarksRight'
  <2>1. req'[p].entry.type = "none" /\ req'[p].pc # "mark" /\ UNCHANGED <<db, log>> /\ Others(p)
    BY <1>1 DEF Begun
  <2> QED BY <2>1 DEF Sound, MarksRight, Others, At
<1>4. OneByOne'
  <2>1. CASE ~OneJudge
    <3>1. ~OneJudge'
      BY <1>1, <2>1 DEF Begun, OneJudge
    <3> QED BY <3>1 DEF OneByOne, Known, Told, Settled
  <2>2. CASE OneJudge
    <3>1. Alone(p) /\ Others(p) /\ UNCHANGED load
      BY <1>1, <2>2 DEF Begun, Alone
    <3>2. Here(p)
      BY <2>2, <3>1, TakenUp DEF Sound, Here
    <3>3. Here(p)'
      BY <1>1, <3>2, BegunRest DEF Sound, Typed
    <3> QED BY <1>2, <2>2, <3>1, <3>3, HandedOver DEF Sound, Here
  <2> QED BY <2>1, <2>2
<1>5. UNCHANGED cancelled
  BY DEF Arrives, HandleMatchPoints, HandleMatchKnock, HandleMarkTask, HandleMatchLegendary, HandleMatchUndo,
         HandleFinishMatch, HandleUpsertRoundEntry, HandleAdjustRoundTaskCount, Accept
<1> QED BY <1>2, <1>3, <1>4, <1>5 DEF Sound, Counted

LEMMA ProceedsSound == ASSUME Sound, NEW p \in Request, Proceeds(p) PROVE Sound'
<1>1. Steps(p) /\ MarksRight'
  BY ProceedsTyped, ProceedsRight DEF Sound
<1>2. Typed' /\ Others(p) /\ UNCHANGED load
  BY <1>1 DEF Steps
<1>3. UNCHANGED bounds /\ ~At(p, "idle")
  BY DEF Proceeds, ReadCounts, SaveCounts, SaveMember, LookAtTask, WriteMark, InsertCompletion, MarkSpent, PutEntry,
         ReadSource, SaveTotal, NothingToAdd, AddMatchLog, CloseRounds, FinishTournament, ReadWinner, Recrown, Rate,
         TakeLast, RestoreMark, ReadHolder, DeleteCompletion, MarkAvailable, EraseLog, At
<1>4. OneByOne'
  <2>1. CASE ~OneJudge
    <3>1. ~OneJudge'
      BY <1>2, <2>1 DEF OneJudge
    <3> QED BY <3>1 DEF OneByOne, Known, Told, Settled
  <2>2. CASE OneJudge
    <3>1. Alone(p)
      BY <1>3, <2>2, BusyAlone DEF Sound
    <3>2. Here(p)
      BY <2>2, <3>1, TakenUp DEF Sound, Here
    <3>3. Here(p)'
      BY <3>2, ProceedsRest DEF Sound
    <3> QED BY <1>2, <2>2, <3>1, <3>3, HandedOver DEF Sound, Here
  <2> QED BY <2>1, <2>2
<1> QED BY <1>1, <1>2, <1>3, <1>4 DEF Sound, Counted, bounds

LEMMA GoneSound == ASSUME Sound, NEW p \in Request, ClientGone(p) PROVE Sound'
<1>1. req'[p] = Blank /\ Steps(p) /\ UNCHANGED <<load, db, total, log, match>>
  BY Gone DEF Sound
<1>2. Typed' /\ Others(p)
  BY <1>1 DEF Steps
<1>3. MarksRight'
  BY <1>1, <1>2, BlankFacts DEF Sound, MarksRight, Others, At
<1>4. cancelled < load.gone /\ cancelled' = cancelled + 1
  BY DEF ClientGone
<1>5. ~OneJudge'
  BY <1>1, <1>4 DEF Sound, Counted, OneJudge
<1> QED BY <1>2, <1>3, <1>4, <1>5 DEF Sound, Counted, OneByOne, Known, Told, Settled

LEMMA SoundKept == ASSUME Sound, [Next]_vars PROVE Sound'
<1>1. CASE UNCHANGED vars
  <2>1. UNCHANGED <<db, total, log, match, req, load, cancelled>>
    BY <1>1 DEF vars, bounds
  <2> QED BY <2>1 DEF Sound, Typed, TablesTyped, LogTyped, ReqTyped, MarksRight, OneByOne, Known, OneServed, Told,
                      Settled, OneJudge, Counted, At
<1>2. CASE Next
  BY <1>2, ArrivesSound, ProceedsSound, GoneSound DEF Next
<1> QED BY <1>1, <1>2

LEMMA AlwaysSound == Spec => []Sound
<1>1. Sound /\ [Next]_vars => Sound'
  BY SoundKept
<1> QED BY SoundBegins, <1>1, PTL DEF Spec

-------------------------------------------------------------------------------
(* What a judge can rely on.                                               *)

\* With no request under way the totals and the outcome are those of the tables.
LEMMA SoundFollows == ASSUME Sound PROVE ResultFollows
<1>1. SUFFICES ASSUME Still, OneJudge PROVE ResultFollows
  BY DEF ResultFollows, TotalsAddUp, OutcomeIsTheScore
<1>2. PICK p \in Request : TRUE
  BY ScoreAssumption
<1>3. req[p].pc = "idle" /\ SettledOf(db, total, match, req[p])
  BY <1>1, <1>2 DEF Sound, OneByOne, Settled, Still, At
<1>4. \A s \in Side : total[s] = Breakdown(db, s)
  BY <1>3 DEF SettledOf, Owes
<1>5. db.spent = Held(db) /\ (match.status = "finished" => match.winner = Leads(db) /\ match.rated = match.winner)
  BY <1>3 DEF SettledOf, Deciding
<1> QED BY <1>4, <1>5 DEF ResultFollows, TotalsAddUp, OutcomeIsTheScore, Held, Leads

\* Once no request is under way on the console of one judge, whatever was marked,
\* corrected, undone and decided before: the totals are what the tables add up to,
\* exactly the contracts somebody completed are spent, and a finished match was won
\* by the side that is ahead and rated for it (RecomputeParticipantPoints,
\* CompleteLegendary, matchFinished, RescoreFinishedMatch).
THEOREM ResultTheorem == Spec => []ResultFollows
<1>1. Sound => ResultFollows
  BY SoundFollows
<1> QED BY <1>1, AlwaysSound, PTL

\* The owner's mark as a step of the console of one judge leaves it.
OwnersMark(t) ==
  LET was == db.done[t]
      now == db'.done[t]
  IN  was.by = Owner[t] /\ now # was => now = NotDone \/ \E p \in Request : At(p, "restore")

\* A mark that is written over the owner's takes it away or is the same.
LEMMA MarkKeeps == ASSUME Sound, OneJudge, NEW p \in Request, WriteMark(p), NEW t \in Task PROVE OwnersMark(t)
<1> DEFINE r == req[p]
           was == db.done[t]
<1>1. r.pc = "mark" /\ db' = [db EXCEPT !.done[r.task] = Marked(r)]
  BY DEF WriteMark, At
<1>2. Fields(r) /\ Carries(r) /\ db \in Tables
  BY RequestFacts DEF Sound, Typed, TablesTyped
<1>3. r.task \in Task /\ MayMark(r, r.entry.prev) /\ r.by \in By /\ (r.by = "owner" => r.user \in Player(Owner[r.task]))
  BY <1>1, <1>2 DEF Carries, Fields
<1>4. r.entry.prev = db.done[r.task]
  BY <1>1 DEF Sound, OneByOne, Known, KnownBy
<1>5. SUFFICES ASSUME was.by = Owner[t], db'.done[t] # was PROVE db'.done[t] = NotDone
  BY DEF OwnersMark
<1>6. r.task = t /\ db'.done[t] = Marked(r)
  BY <1>1, <1>2, <1>3, <1>5 DEF Tables
<1>7. was \in Marks /\ was.user \in Player(Owner[t])
  BY <1>2, <1>5 DEF Tables, Sound, MarksRight, MarkRight
<1>8. CASE r.by = "owner"
  <2>1. was.user \in {NoUser, r.user}
    BY <1>3, <1>4, <1>5, <1>6, <1>8 DEF MayMark
  <2>2. was.user = NoUser => Player(Owner[t]) = {NoUser}
    BY <1>7, ScoreAssumption DEF Player
  <2>3. was.user = r.user
    BY <1>3, <1>6, <1>8, <2>1, <2>2
  <2>4. Marked(r) = [by |-> Owner[t], user |-> r.user]
    BY <1>6, <1>8 DEF Marked
  <2>5. Marked(r) = was
    BY <1>5, <1>7, <2>3, <2>4 DEF Marks
  <2> QED BY <1>5, <1>6, <2>5
<1>9. CASE r.by = "opponent"
  BY <1>3, <1>4, <1>5, <1>6, <1>9 DEF MayMark
<1>10. CASE r.by = "none"
  BY <1>6, <1>10 DEF Marked
<1> QED BY <1>3, <1>8, <1>9, <1>10 DEF By

LEMMA OwnerKeeps == ASSUME Sound, OneJudge, [Next]_vars, NEW t \in Task PROVE OwnersMark(t)
<1>1. ASSUME db'.done = db.done PROVE OwnersMark(t)
  BY <1>1 DEF OwnersMark
<1>2. CASE UNCHANGED vars
  BY <1>1, <1>2 DEF vars
<1>3. ASSUME NEW p \in Request, Arrives(p) \/ ClientGone(p) PROVE OwnersMark(t)
  <2>1. UNCHANGED db
    BY <1>3 DEF ClientGone, Arrives, HandleMatchPoints, HandleMatchKnock, HandleMarkTask, HandleMatchLegendary,
         HandleMatchUndo, HandleFinishMatch, HandleUpsertRoundEntry, HandleAdjustRoundTaskCount, Accept
  <2> QED BY <1>1, <2>1
<1>4. ASSUME NEW p \in Request, Proceeds(p) PROVE OwnersMark(t)
  <2>1. CASE WriteMark(p)
    BY <2>1, MarkKeeps
  <2>2. CASE RestoreMark(p)
    BY <2>2 DEF RestoreMark, OwnersMark
  <2>3. CASE SaveCounts(p) \/ SaveMember(p)
    <3>1. db'.done = db.done
      BY <2>3 DEF Sound, Typed, TablesTyped, Tables, SaveCounts, SaveMember, MoveMember
    <3> QED BY <1>1, <3>1
  <2>4. CASE InsertCompletion(p) \/ MarkSpent(p) \/ PutEntry(p) \/ DeleteCompletion(p) \/ MarkAvailable(p)
    <3>1. db'.done = db.done
      BY <2>4 DEF Sound, Typed, TablesTyped, Tables, InsertCompletion, MarkSpent, PutEntry, DeleteCompletion, MarkAvailable
    <3> QED BY <1>1, <3>1
  <2>5. CASE ReadCounts(p) \/ LookAtTask(p) \/ ReadSource(p) \/ SaveTotal(p) \/ NothingToAdd(p) \/ AddMatchLog(p)
             \/ CloseRounds(p) \/ FinishTournament(p) \/ ReadWinner(p) \/ Recrown(p) \/ Rate(p) \/ TakeLast(p)
             \/ ReadHolder(p) \/ EraseLog(p)
    <3>1. UNCHANGED db
      BY <2>5 DEF ReadCounts, LookAtTask, ReadSource, SaveTotal, NothingToAdd, AddMatchLog, CloseRounds,
           FinishTournament, ReadWinner, Recrown, Rate, TakeLast, ReadHolder, EraseLog
    <3> QED BY <1>1, <3>1
  <2> QED BY <1>4, <2>1, <2>2, <2>3, <2>4, <2>5 DEF Proceeds
<1> QED BY <1>2, <1>3, <1>4 DEF Next

\* A task on time never passes to anyone but its owner, however requests meet; on
\* the console of one judge a task its owner has done does not pass to the opponent
\* or to another player of the team before it is taken back (MarkTask, ErrTaskTaken).
THEOREM OwnerTheorem == Spec => OwnerKeepsTask
<1>1. ASSUME Sound, Sound', [Next]_vars
      PROVE  TimedIsPersonal' /\ (OneJudge => \A t \in Task : OwnersMark(t))
  <2>1. Sound' => TimedIsPersonal'
    BY ScoreAssumption DEF Sound, MarksRight, MarkRight, TimedIsPersonal
  <2> QED BY <1>1, <2>1, OwnerKeeps
<1>2. Sound /\ Sound' /\ [Next]_vars =>
        [TimedIsPersonal' /\ (OneJudge => \A t \in Task :
           LET was == db.done[t]
               now == db'.done[t]
           IN  was.by = Owner[t] /\ now # was =>
                 now = NotDone \/ \E p \in Request : At(p, "restore"))]_vars
  BY <1>1 DEF OwnersMark
<1> QED BY <1>2, AlwaysSound, PTL DEF Spec, OwnerKeepsTask

-------------------------------------------------------------------------------
(* The rows, however requests meet: what a correction read of a player is  *)
(* his row, which it locks, or nothing.                                    *)

InBounds == made \in 0..load.made /\ cancelled \in 0..load.gone
Natural  == /\ \A p \in Request : req[p].sum \in Nat /\ req[p].src \in Nat \ {0}
            /\ \A s \in Side : total[s] \in Nat
Asked    == \A p \in Request : ~At(p, "idle") => req[p].kind \in load.kinds

\* Corrections name a player of their side.
NamesPlayer(e) == e.type \in {"points", "knock"} => e.user \in Player(e.side)
CountsBy ==
  /\ \A i \in 1..Len(log) : NamesPlayer(log[i])
  /\ \A p \in Request : NamesPlayer(req[p].entry)
  /\ \A p \in Request : req[p].pc \in {"read", "write"} => req[p].user \in Player(req[p].side)

\* A request that is about to write a player's row, and one that holds the row.
Correcting(r) == r.pc = "write" /\ r.user # NoUser
Holding(r)    == Correcting(r) /\ r.held

ReadOf(d, r) ==
  Correcting(r) => /\ r.held => <<r.side, r.user>> \in d.rows /\ r.seen = d.member[r.side][r.user]
                   /\ ~r.held => r.seen = Zero
Apart(r, s) == Holding(r) /\ Holding(s) => r.side # s.side \/ r.user # s.user

Locks ==
  /\ \A p \in Request : ReadOf(db, req[p])
  /\ \A p, q \in Request : p # q => Apart(req[p], req[q])
  /\ \A s \in Side, u \in User : <<s, u>> \notin db.rows => db.member[s][u] = Zero

\* Counters that are worth their knocks, in what was read too.
Fair(c)   == Spare(c) >= 0
SeenFair  == NewConsole => \A p \in Request : At(p, "write") => Fair(req[p].seen)

\* The players of a side and what they have between them.
Teams       == {x \in Side : Roster[x] # {}}
Knocks(d, s) == [u \in User |-> d.member[s][u].knocks]
Points(d, s) == [u \in User |-> d.member[s][u].points]
Spares(d, s) == [u \in User |-> Spare(d.member[s][u])]

\* The counters of a side's players and of the side in the tables d.
FairRows(d, s) == Fair(d.entry[s]) /\ \A u \in User : Fair(d.member[s][u])
Within(d, s)   == /\ OfPlayers(Knocks(d, s), s) <= d.entry[s].knocks
                  /\ OfPlayers(Spares(d, s), s) <= Spare(d.entry[s])
Exactly(d, s)  == /\ OfPlayers(Points(d, s), s) = d.entry[s].points
                  /\ OfPlayers(Knocks(d, s), s) = d.entry[s].knocks

Fitting ==
  NewConsole => \A s \in Side :
    /\ FairRows(db, s)
    /\ s \in Teams => Within(db, s)
    /\ s \in Teams /\ OneJudge => Exactly(db, s)

Rows == InBounds /\ Natural /\ Asked /\ CountsBy /\ Locks /\ SeenFair /\ Fitting

-------------------------------------------------------------------------------
(* Counters.                                                               *)

LEMMA CountFacts ==
  ASSUME NEW c \in Counts
  PROVE  /\ c.points \in Nat /\ c.knocks \in Nat /\ Spare(c) \in Int /\ KnockPoints \in Nat
         /\ c.knocks * KnockPoints \in Nat /\ c.points = Spare(c) + c.knocks * KnockPoints
         /\ Fair(c) <=> c.points >= c.knocks * KnockPoints
<1>1. c.points \in Nat /\ c.knocks \in Nat /\ KnockPoints \in Nat
  BY ScoreAssumption DEF Counts
<1>2. PICK w : w = c.knocks * KnockPoints
  OBVIOUS
<1>3. w \in Nat
  BY <1>1, <1>2
<1>4. Spare(c) = c.points - w
  BY <1>2 DEF Spare
<1> QED BY <1>1, <1>2, <1>3, <1>4 DEF Fair

\* What k knocks are worth and j more, and how the products compare.
LEMMA Worths ==
  ASSUME NEW j \in Int, NEW k \in Int
  PROVE  /\ (j + k) * KnockPoints = j * KnockPoints + k * KnockPoints
         /\ (j - k) * KnockPoints = j * KnockPoints - k * KnockPoints
         /\ j * KnockPoints \in Int /\ k * KnockPoints \in Int
         /\ j >= 0 => j * KnockPoints >= 0
<1>1. KnockPoints \in Nat
  BY ScoreAssumption
<1> QED BY <1>1

LEMMA FairPoints ==
  ASSUME NEW c \in Counts, NEW d \in Int, Fair(c)
  PROVE  Fair(AfterPoints(c, d))
<1>1. AfterPoints(c, d) \in Counts
  BY PointsAfter
<1>2. AfterPoints(c, d).knocks = c.knocks /\ AfterPoints(c, d).points = Larger(c.points + d, c.knocks * KnockPoints)
  BY DEF AfterPoints, Counts
<1>3. Larger(c.points + d, c.knocks * KnockPoints) >= c.knocks * KnockPoints
  <2>1. PICK a, b : a = c.points + d /\ b = c.knocks * KnockPoints
    OBVIOUS
  <2>2. c.points \in Nat /\ b \in Int
    BY <2>1, CountFacts
  <2>3. a \in Int
    BY <2>1, <2>2
  <2>4. Larger(a, b) >= b
    BY <2>2, <2>3, LargerFacts
  <2> QED BY <2>1, <2>4
<1> QED BY <1>1, <1>2, <1>3, CountFacts

LEMMA FairKnocks ==
  ASSUME NEW c \in Counts, NEW d \in Int, Fair(c)
  PROVE  /\ Fair(AfterKnocks(c, d)) /\ Spare(AfterKnocks(c, d)) = Spare(c)
         /\ AfterKnocks(c, d).points = c.points + AppliedKnocks(c, d) * KnockPoints
<1>1. AfterKnocks(c, d) \in Counts /\ c.knocks \in Nat /\ c.points \in Nat
  BY KnocksAfter, CountFacts
<1>2. PICK k : k = AppliedKnocks(c, d)
  OBVIOUS
<1>3. k \in Int /\ c.knocks + k >= 0
  BY <1>1, <1>2 DEF AppliedKnocks, Larger
<1>4. PICK v, w : v = c.knocks * KnockPoints /\ w = k * KnockPoints
  OBVIOUS
<1>5. v \in Int /\ w \in Int /\ (c.knocks + k) * KnockPoints = v + w /\ v + w >= 0
  <2>1. PICK j, n : j = c.knocks /\ n = c.knocks + k
    OBVIOUS
  <2>2. j \in Int /\ n \in Int /\ n >= 0 /\ n = j + k
    BY <1>1, <1>3, <2>1
  <2>3. n * KnockPoints >= 0
    BY <2>2, Worths
  <2>4. (j + k) * KnockPoints = j * KnockPoints + k * KnockPoints /\ j * KnockPoints \in Int /\ k * KnockPoints \in Int
    BY <1>3, <2>2, Worths
  <2>5. v = j * KnockPoints
    BY <1>4, <2>1
  <2>6. n * KnockPoints = v + w
    BY <1>4, <2>2, <2>4, <2>5
  <2> QED BY <1>4, <2>1, <2>3, <2>4, <2>5, <2>6
<1>6. c.points >= v
  BY <1>4, CountFacts
<1>7. Larger(c.points + w, 0) = c.points + w
  BY <1>1, <1>5, <1>6 DEF Larger
<1>8. AfterKnocks(c, d).points = c.points + w /\ AfterKnocks(c, d).knocks = c.knocks + k
  BY <1>2, <1>4, <1>7 DEF AfterKnocks
<1>9. Spare(AfterKnocks(c, d)) = c.points + w - (v + w)
  <2>1. AfterKnocks(c, d).knocks * KnockPoints = v + w
    BY <1>5, <1>8
  <2>2. PICK y : y = AfterKnocks(c, d)
    OBVIOUS
  <2>3. PICK z : z = y.knocks * KnockPoints
    OBVIOUS
  <2>4. Spare(y) = y.points - z
    BY <2>3 DEF Spare
  <2>5. z = v + w /\ y.points = c.points + w
    BY <1>8, <2>1, <2>2, <2>3
  <2>6. Spare(y) = c.points + w - (v + w)
    BY <1>1, <1>5, <2>4, <2>5
  <2> QED BY <2>2, <2>6, Zenon
<1>10. Spare(c) = c.points - v
  BY <1>4 DEF Spare
<1> QED BY <1>1, <1>2, <1>4, <1>5, <1>6, <1>8, <1>9, <1>10 DEF Fair

LEMMA FairAfter ==
  ASSUME NEW r, Fields(r), Fair(r.seen)
  PROVE  Fair(After(r))
<1>1. r.seen \in Counts /\ r.delta \in Int
  BY DEF Fields
<1> QED BY <1>1, FairPoints, FairKnocks DEF After

LEMMA ZeroFacts == Zero \in Counts /\ Zero.points = 0 /\ Zero.knocks = 0 /\ Spare(Zero) = 0 /\ Fair(Zero)
<1>1. Zero \in Counts /\ Zero.points = 0 /\ Zero.knocks = 0
  BY DEF Zero, Counts
<1>2. Spare(Zero) = 0
  BY <1>1, ScoreAssumption DEF Spare
<1> QED BY <1>1, <1>2 DEF Fair

\* The transaction of a correction: the player's row, the side's by the difference.
LEMMA MemberMoves ==
  ASSUME TablesTyped, NEW s \in Side, NEW u \in User, NEW was \in Counts, NEW now \in Counts,
         db' = MoveMember(s, u, was, now)
  PROVE  /\ db' \in Tables
         /\ was = now => db' = db
         /\ was # now => /\ db'.member[s][u] = now /\ db'.rows = db.rows \cup {<<s, u>>}
                         /\ db'.entry[s] = [points |-> Larger(db.entry[s].points + now.points - was.points, 0),
                                            knocks |-> Larger(db.entry[s].knocks + now.knocks - was.knocks, 0)]
         /\ \A x \in Side, y \in User : x # s \/ y # u => db'.member[x][y] = db.member[x][y]
         /\ \A x \in Side \ {s} : db'.entry[x] = db.entry[x]
<1>0. db' \in Tables /\ \A x \in Side \ {s} : db'.entry[x] = db.entry[x]
  BY MemberChanges
<1>1. CASE was = now
  BY <1>0, <1>1 DEF MoveMember
<1>2. CASE was # now
  <2> DEFINE c == [points |-> Larger(db.entry[s].points + now.points - was.points, 0),
                   knocks |-> Larger(db.entry[s].knocks + now.knocks - was.knocks, 0)]
  <2>1. db' = [db EXCEPT !.member[s][u] = now, !.rows = db.rows \cup {<<s, u>>}, !.entry[s] = c]
    BY <1>2 DEF MoveMember
  <2> HIDE DEF c
  <2> DEFINE M == [db.member EXCEPT ![s][u] = now]
             R == db.rows \cup {<<s, u>>}
             E == [db.entry EXCEPT ![s] = c]
  <2>2. db' = [db EXCEPT !.member = M, !.rows = R, !.entry = E]
    BY <2>1 DEF TablesTyped, Tables
  <2>3. M[s][u] = now /\ E[s] = c
    BY DbFacts DEF DbRow
  <2>4. ASSUME NEW x \in Side, NEW y \in User, x # s \/ y # u PROVE M[x][y] = db.member[x][y]
    BY <2>4, DbFacts DEF DbRow
  <2> HIDE DEF M, R, E
  <2>5. db'.member = M /\ db'.rows = R /\ db'.entry = E
    BY <2>2 DEF TablesTyped, Tables
  <2> QED BY <1>0, <1>2, <2>3, <2>4, <2>5 DEF c, R
<1> QED BY <1>1, <1>2

\* What the row of a side becomes when one of its players' does.
Moved(e, was, now) == [points |-> Larger(e.points + now.points - was.points, 0),
                       knocks |-> Larger(e.knocks + now.knocks - was.knocks, 0)]

LEMMA SideMoves ==
  ASSUME NEW e \in Counts, NEW was \in Counts, NEW now \in Counts,
         e.knocks + now.knocks - was.knocks >= 0, Spare(e) + Spare(now) - Spare(was) >= 0
  PROVE  /\ Moved(e, was, now).knocks = e.knocks + now.knocks - was.knocks
         /\ Moved(e, was, now).points = e.points + now.points - was.points
         /\ Spare(Moved(e, was, now)) = Spare(e) + Spare(now) - Spare(was)
         /\ Fair(Moved(e, was, now))
<1>1. PICK i, j, k : i = e.knocks /\ j = now.knocks /\ k = was.knocks
  OBVIOUS
<1>2. PICK a, b, c : a = Spare(e) /\ b = Spare(now) /\ c = Spare(was)
  OBVIOUS
<1>3. i \in Int /\ j \in Int /\ k \in Int /\ a \in Int /\ b \in Int /\ c \in Int /\ i + j \in Int /\ i + j - k \in Int
  BY <1>1, <1>2, CountFacts
<1>4. PICK x, y, z, w : x = i * KnockPoints /\ y = j * KnockPoints /\ z = k * KnockPoints /\ w = (i + j - k) * KnockPoints
  OBVIOUS
<1>5. w = x + y - z /\ w >= 0 /\ x \in Int /\ y \in Int /\ z \in Int
  <2>1. (j - k) * KnockPoints = y - z /\ y \in Int /\ z \in Int
    BY <1>3, <1>4, Worths
  <2>2. PICK n : n = j - k
    OBVIOUS
  <2>3. n \in Int /\ (i + n) * KnockPoints = i * KnockPoints + n * KnockPoints /\ i * KnockPoints \in Int
    <3>1. n \in Int /\ i \in Int
      BY <1>3, <2>2
    <3> HIDE <1>3, <2>2
    <3> QED BY <3>1, Worths
  <2>4. w = x + (y - z)
    <3>1. w = (i + n) * KnockPoints /\ x = i * KnockPoints /\ n * KnockPoints = y - z
      BY <1>4, <2>1, <2>2, Zenon
    <3> QED BY <2>3, <3>1, Zenon
  <2>6. PICK m : m = i + j - k
    OBVIOUS
  <2>7. m \in Int /\ m >= 0
    BY <1>1, <1>3, <2>6
  <2>8. m * KnockPoints >= 0
    BY <2>7, Worths
  <2>9. w >= 0
    BY <1>4, <2>6, <2>8
  <2>10. x \in Int
    BY <1>4, <2>3
  <2> QED BY <2>1, <2>4, <2>9, <2>10
<1>6. e.points = a + x /\ now.points = b + y /\ was.points = c + z
  BY <1>1, <1>2, <1>4, CountFacts
<1>7. e.points + now.points - was.points = (a + b - c) + w
  BY <1>3, <1>5, <1>6
<1>8. a + b - c >= 0 /\ a + b - c \in Int
  BY <1>2, <1>3
<1>9. Larger(e.points + now.points - was.points, 0) = (a + b - c) + w
  <2>1. PICK m : m = (a + b - c) + w
    OBVIOUS
  <2>2. m \in Int /\ m >= 0
    BY <1>3, <1>5, <1>8, <2>1
  <2>3. Larger(m, 0) = m
    BY <2>2 DEF Larger
  <2> QED BY <1>7, <2>1, <2>3
<1>10. Larger(e.knocks + now.knocks - was.knocks, 0) = i + j - k
  <2>1. PICK m : m = i + j - k
    OBVIOUS
  <2>2. m \in Int /\ m >= 0
    BY <1>1, <1>3, <2>1
  <2>3. Larger(m, 0) = m
    BY <2>2 DEF Larger
  <2> QED BY <1>1, <2>1, <2>3
<1>11. PICK v : v = Moved(e, was, now)
  OBVIOUS
<1>12. v.points = (a + b - c) + w /\ v.knocks = i + j - k
  BY <1>9, <1>10, <1>11 DEF Moved
<1>13. Spare(v) = a + b - c
  <2>1. PICK u : u = v.knocks * KnockPoints
    OBVIOUS
  <2>2. Spare(v) = v.points - u
    BY <2>1 DEF Spare
  <2>3. u = w
    BY <1>4, <1>12, <2>1
  <2> QED BY <1>3, <1>5, <1>8, <1>12, <2>2, <2>3
<1>14. Fair(v)
  BY <1>8, <1>13 DEF Fair
<1> QED BY <1>1, <1>2, <1>7, <1>11, <1>12, <1>13, <1>14

-------------------------------------------------------------------------------
(* What the players of a side have between them.                           *)

LEMMA TeamFacts ==
  ASSUME NEW s \in Side
  PROVE  /\ IsFiniteSet(Roster[s]) /\ Roster[s] \subseteq User
         /\ s \in Teams => Player(s) = Roster[s]
         /\ s \notin Teams => Player(s) = {NoUser}
         /\ NoUser \notin Roster[s]
<1>1. Roster[s] \subseteq User /\ IsFiniteSet(User) /\ NoUser \notin User
  BY ScoreAssumption
<1> QED BY <1>1, FS_Subset DEF Teams, Player

\* One of the players has no more than all.
LEMMA OneOfAll ==
  ASSUME NEW S, IsFiniteSet(S), NEW f, \A x \in S : f[x] \in Int /\ f[x] >= 0, NEW y \in S
  PROVE  SumFunctionOnSet(f, S) \in Int /\ f[y] <= SumFunctionOnSet(f, S) /\ SumFunctionOnSet(f, S) >= 0
<1>1. \A x \in S : f[x] \in Nat
  OBVIOUS
<1>2. IsFiniteSet(S \ {y})
  BY FS_Subset
<1>3. SumFunctionOnSet(f, S \ {y}) \in Nat
  BY <1>1, <1>2, SumNat
<1>4. SumFunctionOnSet(f, S) = f[y] + SumFunctionOnSet(f, S \ {y})
  BY <1>1, SumTakes
<1>5. PICK a, b : a = f[y] /\ b = SumFunctionOnSet(f, S \ {y})
  OBVIOUS
<1>6. a \in Nat /\ b \in Nat /\ SumFunctionOnSet(f, S) = a + b
  BY <1>1, <1>3, <1>4, <1>5
<1> QED BY <1>5, <1>6

LEMMA SumsOfPlayers ==
  ASSUME NEW d, d \in Tables, NEW s \in Side
  PROVE  /\ \A u \in User : /\ d.member[s][u] \in Counts
                            /\ Knocks(d, s)[u] = d.member[s][u].knocks /\ Knocks(d, s)[u] \in Nat
                            /\ Points(d, s)[u] = d.member[s][u].points /\ Points(d, s)[u] \in Nat
                            /\ Spares(d, s)[u] = Spare(d.member[s][u]) /\ Spares(d, s)[u] \in Int
         /\ d.entry[s] \in Counts
         /\ OfPlayers(Knocks(d, s), s) \in Nat /\ OfPlayers(Points(d, s), s) \in Nat /\ OfPlayers(Spares(d, s), s) \in Int
<1>1. d.entry[s] \in Counts /\ \A u \in User : d.member[s][u] \in Counts
  BY DEF Tables
<1>2. \A u \in User : /\ Knocks(d, s)[u] = d.member[s][u].knocks /\ Points(d, s)[u] = d.member[s][u].points
                      /\ Spares(d, s)[u] = Spare(d.member[s][u])
  BY DEF Knocks, Points, Spares
<1>3. \A u \in User : Knocks(d, s)[u] \in Nat /\ Points(d, s)[u] \in Nat /\ Spares(d, s)[u] \in Int
  BY <1>1, <1>2, CountFacts
<1>4. IsFiniteSet(Roster[s]) /\ Roster[s] \subseteq User
  BY TeamFacts
<1> QED BY <1>1, <1>2, <1>3, <1>4, SumNat, SumInt DEF OfPlayers

\* The rows of a side from the tables d to e when one of its players goes from cur to now.
LEMMA SumsMove ==
  ASSUME NEW d, d \in Tables, NEW e, e \in Tables, NEW s \in Side, NEW u \in Roster[s],
         \A y \in User \ {u} : e.member[s][y] = d.member[s][y]
  PROVE  /\ OfPlayers(Knocks(e, s), s) = OfPlayers(Knocks(d, s), s) - d.member[s][u].knocks + e.member[s][u].knocks
         /\ OfPlayers(Points(e, s), s) = OfPlayers(Points(d, s), s) - d.member[s][u].points + e.member[s][u].points
         /\ OfPlayers(Spares(e, s), s) = OfPlayers(Spares(d, s), s) - Spare(d.member[s][u]) + Spare(e.member[s][u])
<1>1. IsFiniteSet(Roster[s]) /\ Roster[s] \subseteq User /\ u \in User
  BY TeamFacts
<1>2. \A x \in Roster[s] : /\ Knocks(d, s)[x] \in Int /\ Knocks(e, s)[x] \in Int /\ Points(d, s)[x] \in Int
                           /\ Points(e, s)[x] \in Int /\ Spares(d, s)[x] \in Int /\ Spares(e, s)[x] \in Int
  BY <1>1, SumsOfPlayers
<1>3. \A x \in Roster[s] \ {u} : /\ Knocks(e, s)[x] = Knocks(d, s)[x] /\ Points(e, s)[x] = Points(d, s)[x]
                                 /\ Spares(e, s)[x] = Spares(d, s)[x]
  BY <1>1, SumsOfPlayers
<1>4. /\ OfPlayers(Knocks(e, s), s) = OfPlayers(Knocks(d, s), s) - Knocks(d, s)[u] + Knocks(e, s)[u]
      /\ OfPlayers(Points(e, s), s) = OfPlayers(Points(d, s), s) - Points(d, s)[u] + Points(e, s)[u]
      /\ OfPlayers(Spares(e, s), s) = OfPlayers(Spares(d, s), s) - Spares(d, s)[u] + Spares(e, s)[u]
  <2>1. OfPlayers(Knocks(e, s), s) = OfPlayers(Knocks(d, s), s) - Knocks(d, s)[u] + Knocks(e, s)[u]
    BY <1>1, <1>2, <1>3, SumChanges DEF OfPlayers
  <2>2. OfPlayers(Points(e, s), s) = OfPlayers(Points(d, s), s) - Points(d, s)[u] + Points(e, s)[u]
    BY <1>1, <1>2, <1>3, SumChanges DEF OfPlayers
  <2>3. OfPlayers(Spares(e, s), s) = OfPlayers(Spares(d, s), s) - Spares(d, s)[u] + Spares(e, s)[u]
    BY <1>1, <1>2, <1>3, SumChanges DEF OfPlayers
  <2> QED BY <2>1, <2>2, <2>3
<1>5. /\ Knocks(d, s)[u] = d.member[s][u].knocks /\ Points(d, s)[u] = d.member[s][u].points
      /\ Spares(d, s)[u] = Spare(d.member[s][u])
  BY <1>1, SumsOfPlayers
<1>6. /\ Knocks(e, s)[u] = e.member[s][u].knocks /\ Points(e, s)[u] = e.member[s][u].points
      /\ Spares(e, s)[u] = Spare(e.member[s][u])
  BY <1>1, SumsOfPlayers
<1> QED BY <1>4, <1>5, <1>6

LEMMA SumsStay ==
  ASSUME NEW d, NEW e, NEW s, \A y \in User : e.member[s][y] = d.member[s][y]
  PROVE  Knocks(e, s) = Knocks(d, s) /\ Points(e, s) = Points(d, s) /\ Spares(e, s) = Spares(d, s)
  BY DEF Knocks, Points, Spares

\* A player's correction from what he had, or from nothing though somebody gave
\* him something meanwhile, keeps the rows of his side fair and its players within it.
LEMMA MoveFits ==
  ASSUME NEW d, d \in Tables, NEW e, e \in Tables, NEW s \in Side, NEW u \in Roster[s], FairRows(d, s), Within(d, s),
         NEW was \in Counts, was = d.member[s][u] \/ was = Zero,
         NEW now \in Counts, Fair(now), e.member[s][u] = now, e.entry[s] = Moved(d.entry[s], was, now),
         \A y \in User \ {u} : e.member[s][y] = d.member[s][y]
  PROVE  /\ FairRows(e, s) /\ Within(e, s) /\ (was = d.member[s][u] /\ Exactly(d, s) => Exactly(e, s))
         /\ e.entry[s].knocks = d.entry[s].knocks + now.knocks - was.knocks
         /\ Spare(e.entry[s]) = Spare(d.entry[s]) + Spare(now) - Spare(was)
<1>1. IsFiniteSet(Roster[s]) /\ Roster[s] \subseteq User /\ u \in User
  BY TeamFacts
<1>2. /\ \A x \in Roster[s] : Knocks(d, s)[x] \in Int /\ Knocks(d, s)[x] >= 0
      /\ \A x \in Roster[s] : Spares(d, s)[x] \in Int /\ Spares(d, s)[x] >= 0
  BY <1>1, SumsOfPlayers DEF FairRows, Fair
<1>3. PICK k, a, b : /\ k = OfPlayers(Knocks(d, s), s) /\ a = OfPlayers(Spares(d, s), s)
                     /\ b = OfPlayers(Points(d, s), s)
  OBVIOUS
<1>4. PICK cur : cur = d.member[s][u]
  OBVIOUS
<1>5. cur.knocks <= k /\ Spare(cur) <= a
  <2>1. Knocks(d, s)[u] <= OfPlayers(Knocks(d, s), s)
    BY <1>1, <1>2, OneOfAll DEF OfPlayers
  <2>2. Spares(d, s)[u] <= OfPlayers(Spares(d, s), s)
    BY <1>1, <1>2, OneOfAll DEF OfPlayers
  <2> QED BY <1>1, <1>3, <1>4, <2>1, <2>2, SumsOfPlayers
<1>6. PICK r : r = d.entry[s]
  OBVIOUS
<1>7. /\ cur \in Counts /\ r \in Counts /\ k \in Nat /\ a \in Int /\ b \in Nat
      /\ k <= r.knocks /\ a <= Spare(r) /\ Spare(cur) >= 0 /\ Spare(now) >= 0
  BY <1>1, <1>3, <1>4, <1>6, SumsOfPlayers DEF Within, FairRows, Fair
<1>8. /\ cur.knocks \in Nat /\ cur.points \in Nat /\ Spare(cur) \in Int /\ was.knocks \in Nat /\ was.points \in Nat
      /\ Spare(was) \in Int /\ now.knocks \in Nat /\ now.points \in Nat /\ Spare(now) \in Int
      /\ r.knocks \in Nat /\ r.points \in Nat /\ Spare(r) \in Int
  BY <1>7, CountFacts
<1>9. was.knocks <= cur.knocks /\ Spare(was) <= Spare(cur)
  BY <1>4, <1>7, <1>8, ZeroFacts
<1>10. r.knocks + now.knocks - was.knocks >= 0 /\ Spare(r) + Spare(now) - Spare(was) >= 0
  BY <1>5, <1>7, <1>8, <1>9
<1>11. PICK v : v = Moved(r, was, now)
  OBVIOUS
<1>12. /\ v.knocks = r.knocks + now.knocks - was.knocks /\ v.points = r.points + now.points - was.points
       /\ Spare(v) = Spare(r) + Spare(now) - Spare(was) /\ Fair(v)
  BY <1>7, <1>10, <1>11, SideMoves
<1>13. e.entry[s] = v
  BY <1>6, <1>11
<1>14. /\ OfPlayers(Knocks(e, s), s) = k - cur.knocks + now.knocks
       /\ OfPlayers(Points(e, s), s) = b - cur.points + now.points
       /\ OfPlayers(Spares(e, s), s) = a - Spare(cur) + Spare(now)
  BY <1>3, <1>4, SumsMove
<1>15. Within(e, s)
  <2>1. k - cur.knocks + now.knocks <= r.knocks + now.knocks - was.knocks
    BY <1>7, <1>8, <1>9
  <2>2. a - Spare(cur) + Spare(now) <= Spare(r) + Spare(now) - Spare(was)
    BY <1>7, <1>8, <1>9
  <2> QED BY <1>12, <1>13, <1>14, <2>1, <2>2 DEF Within
<1>16. FairRows(e, s)
  BY <1>12, <1>13 DEF FairRows
<1>17. ASSUME was = cur, b = r.points, k = r.knocks PROVE Exactly(e, s)
  <2>1. k - cur.knocks + now.knocks = r.knocks + now.knocks - was.knocks
    BY <1>8, <1>17
  <2>2. b - cur.points + now.points = r.points + now.points - was.points
    BY <1>8, <1>17
  <2> QED BY <1>12, <1>13, <1>14, <2>1, <2>2 DEF Exactly
<1>18. /\ e.entry[s].knocks = d.entry[s].knocks + now.knocks - was.knocks
       /\ Spare(e.entry[s]) = Spare(d.entry[s]) + Spare(now) - Spare(was)
  BY <1>6, <1>12, <1>13, Zenon
<1> QED BY <1>3, <1>4, <1>6, <1>15, <1>16, <1>17, <1>18 DEF Exactly

-------------------------------------------------------------------------------
(* How a request goes on: as what it is, about the same player, with a sum *)
(* that is a number.                                                       *)

OnwardTo(r, n) ==
  /\ n.pc # "idle" => n.kind = r.kind
  /\ NamesPlayer(n.entry)
  /\ n.pc \in {"read", "write"} => n.user \in Player(n.side)
  /\ n.sum \in Nat /\ n.src \in Nat \ {0}
Onward(p) == OnwardTo(req[p], req'[p])

LEMMA BlankOnward == ASSUME NEW r PROVE OnwardTo(r, Blank)
  BY BlankFacts DEF OnwardTo, NamesPlayer

LEMMA SameOnward ==
  ASSUME NEW r, NEW n, n.kind = r.kind, n.entry = r.entry, NamesPlayer(r.entry), n.pc \notin {"read", "write"}, n.sum \in Nat,
         n.src \in Nat \ {0}
  PROVE  OnwardTo(r, n)
  BY DEF OnwardTo

LEMMA ConcludeOnward ==
  ASSUME NEW r, Fields(r), Carries(r), r.kind \in Edits \cup {"undo"}, NamesPlayer(r.entry)
  PROVE  OnwardTo(r, Conclude(r))
<1>1. CASE r.fin
  <2>1. /\ Conclude(r).pc = "sum" /\ Conclude(r).kind = r.kind /\ Conclude(r).entry = r.entry /\ Conclude(r).sum = 0
        /\ Conclude(r).src = 1
    BY <1>1, ConcludeFacts
  <2> QED BY <2>1, SameOnward
<1>2. CASE ~r.fin
  BY <1>2, ConcludeFacts, BlankOnward
<1> QED BY <1>1, <1>2

LEMMA AddedOnward ==
  ASSUME NEW r, Fields(r), Carries(r), r.pc = "sum", NamesPlayer(r.entry)
  PROVE  OnwardTo(r, Added(r)) /\ Added(r).pc \notin {"read", "write"}
<1> DEFINE n == Added(r)
<1>1. n = Blank \/ (n.kind = r.kind /\ n.entry = r.entry /\ n.sum = 0 /\ n.src = 1 /\ n.pc \in {"sum", "log", "close", "prior"})
  BY AddedFacts DEF Same
<1> HIDE DEF n
<1>2. OnwardTo(r, n) /\ n.pc \notin {"read", "write"}
  BY <1>1, BlankOnward, SameOnward, BlankFacts
<1> QED BY <1>2 DEF n

LEMMA SourcesNat == ASSUME Typed, NEW s \in Side, NEW i \in 1..4 PROVE Sources(db, s)[i] \in Nat
<1>1. db.entry[s] \in Counts /\ db.main[s] \in Nat /\ \A t \in Task : db.done[t] \in Marks
  BY DbFacts DEF DbRow, Typed
<1>2. /\ Worth \in [Task -> Nat] /\ ContractCrossPoints \in Nat /\ LegendaryPoints \in Nat
      /\ IsFiniteSet(Task) /\ IsFiniteSet(Legendary)
  BY ScoreAssumption
<1> DEFINE f == [t \in Task |-> TaskPoints(db, t, s)]
           h == {l \in Legendary : db.taken[l] = s}
<1>3. \A t \in Task : f[t] \in Nat
  BY <1>2 DEF TaskPoints
<1>4. SumFunction(f) \in Nat
  BY <1>2, <1>3, SumNat DEF SumFunction
<1>5. LegendaryPoints * Cardinality(h) \in Nat
  <2>1. Cardinality(h) \in Nat
    BY <1>2, FS_Subset, FS_CardinalityType
  <2> HIDE DEF h
  <2> QED BY <1>2, <2>1
<1>6. Sources(db, s)[1] \in Nat /\ Sources(db, s)[2] \in Nat
  BY <1>1 DEF Sources, Counts
<1>7. Sources(db, s)[3] \in Nat /\ Sources(db, s)[4] \in Nat
  BY <1>4, <1>5 DEF Sources
<1>8. i \in {1, 2, 3, 4}
  OBVIOUS
<1> QED BY <1>6, <1>7, <1>8

LEMMA RequestRows ==
  ASSUME Natural, CountsBy, NEW p \in Request
  PROVE  /\ NamesPlayer(req[p].entry) /\ req[p].sum \in Nat /\ req[p].src \in Nat \ {0}
         /\ req[p].pc \in {"read", "write"} => req[p].user \in Player(req[p].side)
  BY DEF Natural, CountsBy

LEMMA CorrectionOnward ==
  ASSUME Typed, Natural, CountsBy, NEW p \in Request, SaveCounts(p) \/ SaveMember(p)
  PROVE  Onward(p) /\ req'[p].pc \notin {"read", "write"}
<1> DEFINE r == req[p]
           n == Scored(r)
<1>1. req'[p] = n /\ r.pc = "write"
  BY CountsSaved DEF Corrects
<1>2. Fields(r) /\ Carries(r) /\ NamesPlayer(r.entry) /\ r.sum \in Nat /\ r.src \in Nat \ {0} /\ r.user \in Player(r.side)
  BY <1>1, RequestFacts, RequestRows
<1>3. CASE r.kind = "undo"
  <2>1. n.pc = "erase" /\ n.kind = r.kind /\ n.entry = r.entry /\ n.sum = r.sum /\ n.src = r.src
    BY <1>1, <1>2, <1>3, ScoredFacts DEF Same
  <2> HIDE DEF n
  <2> QED BY <1>1, <1>2, <2>1, SameOnward DEF Onward
<1>4. CASE r.kind # "undo" /\ Applied(r) = 0
  BY <1>1, <1>2, <1>4, ScoredFacts, BlankOnward, BlankFacts DEF Onward
<1>5. CASE r.kind # "undo" /\ Applied(r) # 0
  <2>1. n.pc = "sum" /\ n.kind = r.kind /\ n.entry.side = r.side /\ n.entry.user = r.user /\ n.sum = r.sum /\ n.src = r.src
    BY <1>1, <1>2, <1>5, ScoredFacts
  <2> HIDE DEF n
  <2> QED BY <1>1, <1>2, <2>1 DEF Onward, OnwardTo, NamesPlayer
<1> QED BY <1>3, <1>4, <1>5

LEMMA TakenOnward ==
  ASSUME Typed, Natural, CountsBy, NEW p \in Request, TakeLast(p)
  PROVE  Onward(p) /\ req'[p].pc # "write"
<1> DEFINE n == req'[p]
<1>1. TakesLast(p)
  BY LastTaken
<1>2. CASE n = Blank
  BY <1>2, BlankOnward, BlankFacts DEF Onward
<1>3. CASE n # Blank
  <2>1. /\ Len(log) \in 1..Len(log) /\ n.entry = log[Len(log)] /\ n.kind = req[p].kind /\ n.sum = req[p].sum
        /\ n.src = req[p].src
        /\ n.pc \in {"read", "restore", "holder"} /\ (n.pc = "restore" <=> n.entry.type = "task")
        /\ (n.pc = "holder" <=> n.entry.type = "legendary") /\ n.side = n.entry.side /\ n.user = n.entry.user
    BY <1>1, <1>3 DEF TakesLast, Adds
  <2>2. n.entry.type \in Types /\ NamesPlayer(n.entry)
    BY <2>1 DEF Typed, LogTyped, Says, CountsBy
  <2>3. n.pc = "read" => n.entry.type \in {"points", "knock"}
    BY <2>1, <2>2 DEF Types
  <2> QED BY <2>1, <2>2, <2>3, RequestRows DEF Onward, OnwardTo, NamesPlayer
<1> QED BY <1>2, <1>3

LEMMA TaskOnward ==
  ASSUME Typed, Natural, CountsBy, NEW p \in Request,
         LookAtTask(p) \/ WriteMark(p) \/ InsertCompletion(p) \/ MarkSpent(p) \/ PutEntry(p)
  PROVE  Onward(p) /\ req'[p].pc \notin {"read", "write"}
<1> DEFINE r == req[p]
           n == req'[p]
<1>1. NamesPlayer(r.entry) /\ r.sum \in Nat /\ r.src \in Nat \ {0}
  BY RequestRows
<1>2. CASE LookAtTask(p)
  <2>1. LooksAtTask(p)
    BY <1>2, TaskLookedAt
  <2>2. n = Blank \/ (n.pc = "mark" /\ n.kind = r.kind /\ n.sum = r.sum /\ n.src = r.src /\ n.entry.type = "task")
    BY <2>1 DEF LooksAtTask, Adds
  <2> QED BY <1>1, <2>2, BlankOnward, BlankFacts DEF Onward, OnwardTo, NamesPlayer
<1>3. CASE WriteMark(p)
  BY <1>1, <1>3, MarkWritten, SameOnward DEF WritesMark, Same, Onward
<1>4. CASE InsertCompletion(p)
  <2>1. CompletesContract(p)
    BY <1>4, ContractCompleted
  <2>2. n = Blank \/ (n.pc = "spend" /\ n.kind = r.kind /\ n.sum = r.sum /\ n.src = r.src /\ n.entry.type = "legendary")
    BY <2>1 DEF CompletesContract, Adds
  <2> QED BY <1>1, <2>2, BlankOnward, BlankFacts DEF Onward, OnwardTo, NamesPlayer
<1>5. CASE MarkSpent(p)
  BY <1>1, <1>5, ContractSpent, SameOnward DEF SpendsContract, Same, Onward
<1>6. CASE PutEntry(p)
  BY <1>1, <1>6, EntryPut, SameOnward DEF PutsEntry, Same, Onward
<1> QED BY <1>2, <1>3, <1>4, <1>5, <1>6

LEMMA TotalOnward ==
  ASSUME Typed, Natural, CountsBy, NEW p \in Request,
         ReadSource(p) \/ SaveTotal(p) \/ NothingToAdd(p) \/ AddMatchLog(p)
  PROVE  Onward(p) /\ req'[p].pc \notin {"read", "write"} /\ \A s \in Side : total'[s] \in Nat
<1> DEFINE r == req[p]
           n == req'[p]
<1>1. NamesPlayer(r.entry) /\ r.sum \in Nat /\ r.src \in Nat \ {0} /\ (\A s \in Side : total[s] \in Nat) /\ Fields(r) /\ Carries(r)
  BY RequestRows, RequestFacts DEF Natural
<1>2. CASE ReadSource(p)
  <2>1. ReadsSource(p)
    BY <1>2, SourceRead
  <2>2. /\ n.pc = "sum" /\ n.kind = r.kind /\ n.entry = r.entry /\ n.sum = r.sum + Sources(db, Head(r.todo))[r.src]
        /\ n.src = r.src + 1 /\ r.src <= 4 /\ Head(r.todo) \in Side /\ UNCHANGED total
    BY <2>1 DEF ReadsSource, Same
  <2>3. r.src \in 1..4 /\ n.src \in Nat \ {0}
    BY <1>1, <2>2
  <2>4. n.sum \in Nat
    <3>1. PICK x : x = Sources(db, Head(r.todo))[r.src]
      OBVIOUS
    <3>2. x \in Nat
      BY <2>2, <2>3, <3>1, SourcesNat
    <3> QED BY <1>1, <2>2, <3>1, <3>2
  <2> QED BY <1>1, <2>2, <2>3, <2>4, SameOnward DEF Onward
<1>3. CASE SaveTotal(p)
  <2>1. SavesTotal(p)
    BY <1>3, TotalSaved
  <2>2. /\ \A s \in Side : total'[s] = r.sum \/ total'[s] = total[s]
        /\ r.pc = "sum"
    BY <2>1 DEF SavesTotal
  <2>3. PICK m : /\ m.pc = "sum" /\ Same(r, m) /\ m.sum = 0 /\ m.src = 1 /\ Fields(m) /\ Carries(m)
                 /\ m.todo = <<>> => n = Added(m)
                 /\ m.todo # <<>> => n = m
    BY <2>1 DEF SavesTotal
  <2>4. NamesPlayer(m.entry) /\ m.kind = r.kind /\ m.entry = r.entry
    BY <1>1, <2>3 DEF Same
  <2>5. CASE m.todo = <<>>
    <3>1. OnwardTo(m, n) /\ n.pc \notin {"read", "write"}
      BY <2>3, <2>4, <2>5, AddedOnward
    <3> QED BY <1>1, <2>2, <2>4, <3>1 DEF Onward, OnwardTo
  <2>6. CASE m.todo # <<>>
    BY <1>1, <2>2, <2>3, <2>4, <2>6, SameOnward DEF Onward
  <2> QED BY <2>5, <2>6
<1>4. CASE NothingToAdd(p)
  <2>1. AddsNothing(p)
    BY <1>4, NothingAdded
  <2> QED BY <1>1, <2>1, AddedOnward DEF AddsNothing, Onward
<1>5. CASE AddMatchLog(p)
  <2>1. Logs(p)
    BY <1>5, Logged1
  <2>2. OnwardTo(r, n) /\ UNCHANGED total
    BY <1>1, <2>1, ConcludeOnward DEF Logs
  <2>3. n = Blank \/ n.pc = "sum"
    BY <1>1, <2>1, ConcludeFacts DEF Logs
  <2> QED BY <1>1, <2>2, <2>3, BlankFacts DEF Onward
<1> QED BY <1>2, <1>3, <1>4, <1>5

LEMMA OutcomeOnward ==
  ASSUME Typed, Natural, CountsBy, NEW p \in Request,
         CloseRounds(p) \/ FinishTournament(p) \/ ReadWinner(p) \/ Recrown(p) \/ Rate(p)
  PROVE  Onward(p) /\ req'[p].pc \notin {"read", "write"}
<1> DEFINE r == req[p]
           n == req'[p]
<1>1. NamesPlayer(r.entry) /\ r.sum \in Nat /\ r.src \in Nat \ {0}
  BY RequestRows
<1>2. n = Blank \/ (n.pc \in {"crown", "rate"} /\ n.kind = r.kind /\ n.entry = r.entry /\ n.sum = r.sum /\ n.src = r.src)
  BY RoundsClosed, Finished, WinnerRead, Recrowned, Rated
     DEF ClosesRounds, Finishes, ReadsWinner, Recrowns, Rates, Same, Adds
<1> QED BY <1>1, <1>2, BlankOnward, BlankFacts, SameOnward DEF Onward

LEMMA UndoOnward ==
  ASSUME Typed, Natural, CountsBy, NEW p \in Request,
         RestoreMark(p) \/ ReadHolder(p) \/ DeleteCompletion(p) \/ MarkAvailable(p) \/ EraseLog(p)
  PROVE  Onward(p) /\ req'[p].pc \notin {"read", "write"}
<1> DEFINE r == req[p]
           n == req'[p]
<1>1. NamesPlayer(r.entry) /\ r.sum \in Nat /\ r.src \in Nat \ {0}
  BY RequestRows
<1>2. n.pc \in {"erase", "release", "reopen", "sum"} /\ n.kind = r.kind /\ n.entry = r.entry /\ n.sum = r.sum /\ n.src = r.src
  BY Restored, HolderRead, CompletionDeleted, MarkedAvailable, Erased
     DEF Restores, ReadsHolder, DeletesCompletion, MarksAvailable, Erases, Same, Adds
<1> QED BY <1>1, <1>2, SameOnward DEF Onward

LEMMA ReadOnward ==
  ASSUME Typed, Natural, CountsBy, NEW p \in Request, ReadCounts(p)
  PROVE  Onward(p)
<1>1. ReadsCounts(p)
  BY CountsRead
<1>2. /\ req'[p].kind = req[p].kind /\ req'[p].side = req[p].side /\ req'[p].user = req[p].user
      /\ req'[p].entry = req[p].entry /\ req'[p].sum = req[p].sum /\ req'[p].src = req[p].src /\ req[p].pc = "read"
  BY <1>1 DEF ReadsCounts, Same, Adds
<1> QED BY <1>2, RequestRows DEF Onward, OnwardTo, NamesPlayer

LEMMA ProceedsOnward ==
  ASSUME Typed, Natural, CountsBy, NEW p \in Request, Proceeds(p)
  PROVE  Onward(p) /\ (req'[p].pc = "write" => ReadCounts(p)) /\ \A s \in Side : total'[s] \in Nat
<1>1. CASE ReadCounts(p)
  BY <1>1, ReadOnward, CountsRead DEF ReadsCounts, Natural
<1>2. CASE SaveCounts(p) \/ SaveMember(p)
  BY <1>2, CorrectionOnward, CountsSaved DEF Corrects, Natural
<1>3. CASE LookAtTask(p) \/ WriteMark(p) \/ InsertCompletion(p) \/ MarkSpent(p) \/ PutEntry(p)
  <2>1. UNCHANGED total
    BY <1>3 DEF LookAtTask, WriteMark, InsertCompletion, MarkSpent, PutEntry
  <2> QED BY <1>3, <2>1, TaskOnward DEF Natural
<1>4. CASE ReadSource(p) \/ SaveTotal(p) \/ NothingToAdd(p) \/ AddMatchLog(p)
  BY <1>4, TotalOnward
<1>5. CASE CloseRounds(p) \/ FinishTournament(p) \/ ReadWinner(p) \/ Recrown(p) \/ Rate(p)
  <2>1. UNCHANGED total
    BY <1>5 DEF CloseRounds, FinishTournament, ReadWinner, Recrown, Rate
  <2> QED BY <1>5, <2>1, OutcomeOnward DEF Natural
<1>6. CASE TakeLast(p)
  <2>1. UNCHANGED total
    BY <1>6 DEF TakeLast
  <2> QED BY <1>6, <2>1, TakenOnward DEF Natural
<1>7. CASE RestoreMark(p) \/ ReadHolder(p) \/ DeleteCompletion(p) \/ MarkAvailable(p) \/ EraseLog(p)
  <2>1. UNCHANGED total
    BY <1>7 DEF RestoreMark, ReadHolder, DeleteCompletion, MarkAvailable, EraseLog
  <2> QED BY <1>7, <2>1, UndoOnward DEF Natural
<1> QED BY <1>1, <1>2, <1>3, <1>4, <1>5, <1>6, <1>7 DEF Proceeds

-------------------------------------------------------------------------------
(* What leaves the counters alone.                                         *)

Aside == db'.entry = db.entry /\ db'.member = db.member /\ db'.rows = db.rows

LEMMA TablesAside ==
  ASSUME Typed, NEW p \in Request, Proceeds(p), ~SaveCounts(p), ~SaveMember(p), ~PutEntry(p)
  PROVE  Aside
<1>1. CASE UNCHANGED db
  BY <1>1 DEF Aside
<1>2. CASE \E f : db' = [db EXCEPT !.done = f]
  BY <1>2 DEF Aside, Typed, TablesTyped, Tables
<1>3. CASE \E f : db' = [db EXCEPT !.taken = f]
  BY <1>3 DEF Aside, Typed, TablesTyped, Tables
<1>4. CASE \E f : db' = [db EXCEPT !.spent = f]
  BY <1>4 DEF Aside, Typed, TablesTyped, Tables
<1>5. CASE WriteMark(p) \/ RestoreMark(p)
  BY <1>2, <1>5 DEF WriteMark, RestoreMark, Typed, TablesTyped, Tables
<1>6. CASE InsertCompletion(p) \/ DeleteCompletion(p)
  BY <1>1, <1>3, <1>6 DEF InsertCompletion, DeleteCompletion, Typed, TablesTyped, Tables
<1>7. CASE MarkSpent(p) \/ MarkAvailable(p)
  BY <1>4, <1>7 DEF MarkSpent, MarkAvailable, Typed, TablesTyped, Tables
<1>8. CASE \/ ReadCounts(p) \/ LookAtTask(p) \/ ReadSource(p) \/ SaveTotal(p) \/ NothingToAdd(p) \/ AddMatchLog(p)
           \/ CloseRounds(p) \/ FinishTournament(p) \/ ReadWinner(p) \/ Recrown(p) \/ Rate(p) \/ TakeLast(p)
           \/ ReadHolder(p) \/ EraseLog(p)
  <2>1. UNCHANGED db
    BY <1>8 DEF ReadCounts, LookAtTask, ReadSource, SaveTotal, NothingToAdd, AddMatchLog, CloseRounds, FinishTournament,
                ReadWinner, Recrown, Rate, TakeLast, ReadHolder, EraseLog
  <2> QED BY <1>1, <2>1
<1> QED BY <1>5, <1>6, <1>7, <1>8 DEF Proceeds

\* The rows of the log keep naming players of their sides.
LEMMA LogOnward ==
  ASSUME Typed, Natural, CountsBy, NEW p \in Request, Proceeds(p), NEW i \in 1..Len(log')
  PROVE  NamesPlayer(log'[i])
<1>1. log \in Seq(LogRow) /\ Len(log) \in Nat /\ \A j \in 1..Len(log) : NamesPlayer(log[j])
  BY DEF Typed, LogTyped, CountsBy
<1>2. CASE AddMatchLog(p)
  <2>1. Logs(p)
    BY <1>2, Logged1
  <2>2. PICK e \in LogRow : log' = Append(log, e) /\ e.type = req[p].entry.type /\ e.side = req[p].entry.side
                            /\ e.user = req[p].entry.user
    BY <2>1 DEF Logs
  <2>3. NamesPlayer(e)
    BY <2>2, RequestRows DEF NamesPlayer
  <2>4. Len(log') = Len(log) + 1 /\ (\A j \in 1..Len(log) : log'[j] = log[j]) /\ log'[Len(log) + 1] = e
    BY <1>1, <2>2, AppendProperties
  <2>5. i \in 1..Len(log) \/ i = Len(log) + 1
    BY <1>1, <2>4
  <2> QED BY <1>1, <2>3, <2>4, <2>5
<1>3. CASE EraseLog(p)
  <2>1. PICK j \in 1..Len(log) : log'[i] = log[j]
    BY <1>3, EraseLeaves
  <2> QED BY <1>1, <2>1
<1>4. CASE ~AddMatchLog(p) /\ ~EraseLog(p)
  <2>1. UNCHANGED log
    BY <1>4 DEF Proceeds, ReadCounts, SaveCounts, SaveMember, LookAtTask, WriteMark, InsertCompletion, MarkSpent, PutEntry,
       ReadSource, SaveTotal, NothingToAdd, CloseRounds, FinishTournament, ReadWinner, Recrown, Rate,
       TakeLast, RestoreMark, ReadHolder, DeleteCompletion, MarkAvailable
  <2> QED BY <1>1, <2>1
<1> QED BY <1>2, <1>3, <1>4

-------------------------------------------------------------------------------
(* The rows a correction reads and locks.                                  *)

\* The tables d become e, the request of p becomes n: what Locks needs to stay.
LEMMA LocksKept ==
  ASSUME Locks, NEW p \in Request, Others(p), ReadOf(db', req'[p]),
         \A q \in Request \ {p} : ReadOf(db', req[q]) /\ Apart(req'[p], req[q]),
         \A s \in Side, u \in User : <<s, u>> \notin db'.rows => db'.member[s][u] = Zero
  PROVE  Locks'
<1>1. \A q \in Request \ {p} : req'[q] = req[q]
  BY DEF Others
<1>2. \A q \in Request : ReadOf(db', req'[q])
  BY <1>1
<1>3. \A q, r \in Request : q # r => Apart(req'[q], req'[r])
  <2> TAKE q, r \in Request
  <2> HAVE q # r
  <2>1. CASE q = p
    BY <1>1, <2>1
  <2>2. CASE r = p
    BY <1>1, <2>2 DEF Apart
  <2>3. CASE q # p /\ r # p
    BY <1>1, <2>3 DEF Locks
  <2> QED BY <2>1, <2>2, <2>3
<1> QED BY <1>2, <1>3 DEF Locks

LEMMA AsideLocks ==
  ASSUME Locks, NEW p \in Request, Others(p), Aside, req'[p].pc # "write"
  PROVE  Locks'
<1>1. ReadOf(db', req'[p]) /\ \A r : Apart(req'[p], r)
  BY DEF ReadOf, Apart, Holding, Correcting
<1>2. \A q \in Request \ {p} : ReadOf(db', req[q])
  BY DEF Locks, ReadOf, Aside
<1>3. \A s \in Side, u \in User : <<s, u>> \notin db'.rows => db'.member[s][u] = Zero
  BY DEF Locks, Aside
<1> QED BY <1>1, <1>2, <1>3, LocksKept

LEMMA ReadLocks ==
  ASSUME Typed, Locks, NEW p \in Request, Others(p), ReadCounts(p)
  PROVE  Locks'
<1> DEFINE r == req[p]
           n == req'[p]
<1>1. /\ r.side \in Side /\ r.user \in User \cup {NoUser} /\ n.side = r.side /\ n.user = r.user /\ UNCHANGED db
      /\ n.seen = IF r.user = NoUser THEN db.entry[r.side] ELSE db.member[r.side][r.user]
      /\ n.held = (r.user # NoUser /\ <<r.side, r.user>> \in db.rows)
  BY CountsRead DEF ReadsCounts, Same
<1>2. ReadOf(db', n)
  BY <1>1 DEF ReadOf, Correcting, Locks
<1>3. ASSUME NEW q \in Request \ {p}, Holding(n), Holding(req[q]), n.side = req[q].side, n.user = req[q].user PROVE FALSE
  <2>1. r.user # NoUser /\ Locked(r.side, r.user)
    BY <1>1, <1>3 DEF Locked, Holding, Correcting, At
  <2> QED BY <2>1 DEF ReadCounts
<1>4. \A q \in Request \ {p} : ReadOf(db', req[q]) /\ Apart(n, req[q])
  BY <1>1, <1>3 DEF Locks, Apart
<1>5. \A s \in Side, u \in User : <<s, u>> \notin db'.rows => db'.member[s][u] = Zero
  BY <1>1 DEF Locks
<1> QED BY <1>2, <1>4, <1>5, LocksKept

\* A side's row is written outright, and no player's.
LEMMA SideWritten ==
  ASSUME Typed, NEW p \in Request, SaveCounts(p)
  PROVE  /\ req[p].pc = "write" /\ req[p].side \in Side /\ req[p].user = NoUser /\ req[p].seen \in Counts
         /\ db'.member = db.member /\ db'.rows = db.rows
         /\ db'.entry[req[p].side] \in {db.entry[req[p].side], After(req[p])}
         /\ IsKnock(req[p]) /\ Applied(req[p]) = 0 => db'.entry = db.entry
         /\ ~(IsKnock(req[p]) /\ Applied(req[p]) = 0) => db'.entry[req[p].side] = After(req[p])
         /\ \A s \in Side \ {req[p].side} : db'.entry[s] = db.entry[s]
<1> DEFINE r == req[p]
<1>1. /\ r.pc = "write" /\ r.user = NoUser /\ Fields(r) /\ Carries(r) /\ db \in Tables
      /\ db' = IF IsKnock(r) /\ Applied(r) = 0 THEN db ELSE [db EXCEPT !.entry[r.side] = After(r)]
  BY RequestFacts DEF SaveCounts, At, Typed, TablesTyped
<1>2. r.side \in Side /\ r.seen \in Counts /\ db.entry \in [Side -> Counts]
  BY <1>1 DEF Carries, Fields, Tables
<1>3. CASE IsKnock(r) /\ Applied(r) = 0
  BY <1>1, <1>2, <1>3
<1>4. CASE ~(IsKnock(r) /\ Applied(r) = 0)
  <2> DEFINE c == After(r)
             E == [db.entry EXCEPT ![r.side] = c]
  <2>1. db' = [db EXCEPT !.entry = E]
    BY <1>1, <1>4 DEF Tables
  <2>2. E[r.side] = c /\ \A s \in Side \ {r.side} : E[s] = db.entry[s]
    BY <1>2
  <2>3. c = After(r)
    OBVIOUS
  <2> HIDE DEF E, c
  <2>4. db'.entry = E /\ db'.member = db.member /\ db'.rows = db.rows
    BY <1>1, <2>1 DEF Tables
  <2> QED BY <1>1, <1>2, <1>4, <2>2, <2>3, <2>4
<1> QED BY <1>3, <1>4

\* A player's row is written outright, and his side's by the difference.
LEMMA MemberWritten ==
  ASSUME Typed, CountsBy, NEW p \in Request, SaveMember(p)
  PROVE  LET r == req[p] IN
         /\ r.pc = "write" /\ r.side \in Teams /\ r.user \in Roster[r.side] /\ r.user \in User /\ r.user # NoUser
         /\ r.seen \in Counts /\ After(r) \in Counts /\ (~r.held => ~Locked(r.side, r.user))
         /\ r.seen = After(r) => db' = db
         /\ r.seen # After(r) => /\ db'.member[r.side][r.user] = After(r) /\ db'.rows = db.rows \cup {<<r.side, r.user>>}
                                 /\ db'.entry[r.side] = Moved(db.entry[r.side], r.seen, After(r))
         /\ \A x \in Side, y \in User : x # r.side \/ y # r.user => db'.member[x][y] = db.member[x][y]
         /\ \A x \in Side \ {r.side} : db'.entry[x] = db.entry[x]
         /\ db' \in Tables
<1> DEFINE r == req[p]
<1>1. /\ r.pc = "write" /\ r.user # NoUser /\ Fields(r) /\ Carries(r) /\ TablesTyped
      /\ db' = MoveMember(r.side, r.user, r.seen, After(r)) /\ (~r.held => ~Locked(r.side, r.user))
  BY RequestFacts DEF SaveMember, At, Typed
<1>2. r.side \in Side /\ r.seen \in Counts /\ After(r) \in Counts /\ r.user \in User
  BY <1>1, AfterFacts DEF Carries, Fields
<1>3. r.user \in Player(r.side)
  BY <1>1 DEF CountsBy
<1>4. r.side \in Teams /\ r.user \in Roster[r.side]
  BY <1>1, <1>2, <1>3, TeamFacts
<1>5. PICK now : now = After(r)
  OBVIOUS
<1>6. /\ db' \in Tables
      /\ r.seen = now => db' = db
      /\ r.seen # now => /\ db'.member[r.side][r.user] = now /\ db'.rows = db.rows \cup {<<r.side, r.user>>}
                         /\ db'.entry[r.side] = Moved(db.entry[r.side], r.seen, now)
      /\ \A x \in Side, y \in User : x # r.side \/ y # r.user => db'.member[x][y] = db.member[x][y]
      /\ \A x \in Side \ {r.side} : db'.entry[x] = db.entry[x]
  <2>1. PICK s, u, was : s = r.side /\ u = r.user /\ was = r.seen
    OBVIOUS
  <2>2. /\ s \in Side /\ u \in User /\ was \in Counts /\ now \in Counts /\ TablesTyped
        /\ db' = MoveMember(s, u, was, now)
    BY <1>1, <1>2, <1>5, <2>1
  <2>3. /\ db' \in Tables
        /\ was = now => db' = db
        /\ was # now => /\ db'.member[s][u] = now /\ db'.rows = db.rows \cup {<<s, u>>}
                         /\ db'.entry[s] = Moved(db.entry[s], was, now)
        /\ \A x \in Side, y \in User : x # s \/ y # u => db'.member[x][y] = db.member[x][y]
        /\ \A x \in Side \ {s} : db'.entry[x] = db.entry[x]
    BY <2>2, MemberMoves DEF Moved
  <2> QED BY <2>1, <2>3
<1> QED BY <1>1, <1>2, <1>4, <1>5, <1>6

LEMMA SideLocks ==
  ASSUME Typed, Locks, NEW p \in Request, Others(p), SaveCounts(p), req'[p].pc # "write"
  PROVE  Locks'
<1>1. ReadOf(db', req'[p]) /\ \A r : Apart(req'[p], r)
  BY DEF ReadOf, Apart, Holding, Correcting
<1>2. db'.member = db.member /\ db'.rows = db.rows
  BY SideWritten
<1>3. \A q \in Request \ {p} : ReadOf(db', req[q])
  BY <1>2 DEF Locks, ReadOf
<1>4. \A s \in Side, u \in User : <<s, u>> \notin db'.rows => db'.member[s][u] = Zero
  BY <1>2 DEF Locks
<1> QED BY <1>1, <1>3, <1>4, LocksKept

LEMMA MemberLocks ==
  ASSUME Typed, CountsBy, Locks, NEW p \in Request, Others(p), SaveMember(p), req'[p].pc # "write"
  PROVE  Locks'
<1> DEFINE r == req[p]
<1>1. ReadOf(db', req'[p]) /\ \A s : Apart(req'[p], s)
  BY DEF ReadOf, Apart, Holding, Correcting
<1>2. /\ r.pc = "write" /\ r.user # NoUser /\ (~r.held => ~Locked(r.side, r.user))
      /\ \A x \in Side, y \in User : x # r.side \/ y # r.user => db'.member[x][y] = db.member[x][y]
      /\ db'.rows = db.rows \/ db'.rows = db.rows \cup {<<r.side, r.user>>}
  BY MemberWritten
<1>3. db.rows \subseteq db'.rows
  BY <1>2
<1>4. ASSUME NEW q \in Request \ {p}, Holding(req[q]) PROVE req[q].side # r.side \/ req[q].user # r.user
  <2>1. CASE r.held
    BY <1>2, <1>4, <2>1 DEF Locks, Apart, Holding, Correcting
  <2>2. CASE ~r.held
    BY <1>2, <1>4, <2>2 DEF Locked, Holding, Correcting, At
  <2> QED BY <2>1, <2>2
<1>5. ASSUME NEW q \in Request \ {p} PROVE ReadOf(db', req[q])
  <2>1. ReadOf(db, req[q])
    BY DEF Locks
  <2>2. CASE Holding(req[q])
    <3>1. req[q].side \in Side /\ req[q].user \in User
      BY <2>2, RequestFacts DEF Holding, Correcting, Fields, Carries
    <3> QED BY <1>2, <1>3, <1>4, <2>1, <2>2, <3>1 DEF ReadOf, Holding
  <2>3. CASE ~Holding(req[q])
    BY <2>1, <2>3 DEF ReadOf, Holding
  <2> QED BY <2>2, <2>3
<1>6. ASSUME NEW s \in Side, NEW u \in User, <<s, u>> \notin db'.rows PROVE db'.member[s][u] = Zero
  <2>1. CASE s = r.side /\ u = r.user
    BY <1>6, <2>1, MemberWritten DEF Locks
  <2>2. CASE s # r.side \/ u # r.user
    BY <1>2, <1>3, <1>6, <2>2 DEF Locks
  <2> QED BY <2>1, <2>2
<1> QED BY <1>1, <1>5, <1>6, LocksKept

-------------------------------------------------------------------------------
(* What the rows come to.                                                  *)

\* A side whose rows stay is as it was.
LEMMA SideStays ==
  ASSUME NEW d, NEW e, NEW s, e.entry[s] = d.entry[s], \A u \in User : e.member[s][u] = d.member[s][u]
  PROVE  /\ FairRows(d, s) => FairRows(e, s)
         /\ Within(d, s) => Within(e, s)
         /\ Exactly(d, s) => Exactly(e, s)
<1>1. Knocks(e, s) = Knocks(d, s) /\ Points(e, s) = Points(d, s) /\ Spares(e, s) = Spares(d, s)
  BY SumsStay
<1> QED BY <1>1 DEF FairRows, Within, Exactly

LEMMA AsideFits ==
  ASSUME Fitting, UNCHANGED load, Aside
  PROVE  Fitting'
<1>1. \A s \in Side : db'.entry[s] = db.entry[s] /\ \A u \in User : db'.member[s][u] = db.member[s][u]
  BY DEF Aside
<1> QED BY <1>1, SideStays DEF Fitting, NewConsole, OneJudge

\* What was read is fair, and of one judge it is what is there.
LEMMA SeenRead ==
  ASSUME Typed, SeenFair, NewConsole, NEW p \in Request, req[p].pc = "write"
  PROVE  Fair(After(req[p]))
  BY RequestFacts, FairAfter DEF SeenFair, At

LEMMA SideFits ==
  ASSUME Typed, CountsBy, SeenFair, Fitting, UNCHANGED load, NEW p \in Request, SaveCounts(p)
  PROVE  Fitting'
<1> DEFINE r == req[p]
<1>1. /\ r.pc = "write" /\ r.side \in Side /\ r.user = NoUser /\ db'.member = db.member
      /\ db'.entry[r.side] \in {db.entry[r.side], After(r)}
      /\ \A s \in Side \ {r.side} : db'.entry[s] = db.entry[s]
  BY SideWritten
<1>2. r.side \notin Teams
  <2>1. r.user \in Player(r.side)
    BY <1>1 DEF CountsBy
  <2> QED BY <1>1, <2>1, TeamFacts
<1>3. ASSUME NewConsole, NEW s \in Side \ {r.side}
      PROVE  FairRows(db', s) /\ (s \in Teams => Within(db', s)) /\ (s \in Teams /\ OneJudge => Exactly(db', s))
  BY <1>1, <1>3, SideStays DEF Fitting
<1>4. ASSUME NewConsole PROVE FairRows(db', r.side)
  BY <1>1, <1>4, SeenRead DEF Fitting, FairRows
<1> QED BY <1>2, <1>3, <1>4 DEF Fitting, NewConsole, OneJudge

LEMMA MemberFits ==
  ASSUME Typed, Known, CountsBy, Locks, SeenFair, Fitting, UNCHANGED load, NEW p \in Request, SaveMember(p)
  PROVE  Fitting'
<1> DEFINE r == req[p]
<1>1. /\ r.pc = "write" /\ r.side \in Side /\ r.user \in Roster[r.side] /\ r.user \in User /\ r.user # NoUser
      /\ r.side \in Teams /\ r.seen \in Counts /\ After(r) \in Counts
      /\ r.seen = After(r) => db' = db
      /\ r.seen # After(r) => /\ db'.member[r.side][r.user] = After(r)
                              /\ db'.entry[r.side] = Moved(db.entry[r.side], r.seen, After(r))
      /\ \A x \in Side, y \in User : x # r.side \/ y # r.user => db'.member[x][y] = db.member[x][y]
      /\ \A x \in Side \ {r.side} : db'.entry[x] = db.entry[x]
      /\ db' \in Tables
  BY MemberWritten DEF Teams
<1>2. CASE r.seen = After(r)
  BY <1>1, <1>2, AsideFits DEF Aside
<1>3. CASE r.seen # After(r)
  <2>1. PICK s, u, was, now : s = r.side /\ u = r.user /\ was = r.seen /\ now = After(r)
    OBVIOUS
  <2>2. was = db.member[s][u] \/ was = Zero
    BY <1>1, <2>1 DEF Locks, ReadOf, Correcting
  <2>3. OneJudge => was = db.member[s][u]
    BY <1>1, <2>1 DEF Known, KnownBy
  <2>4. SUFFICES ASSUME NewConsole PROVE Fitting'
    BY DEF Fitting, NewConsole
  <2>5. Fair(now) /\ FairRows(db, s) /\ Within(db, s) /\ (OneJudge => Exactly(db, s))
    BY <1>1, <2>1, <2>4, SeenRead DEF Fitting
  <2>6. /\ db \in Tables /\ db' \in Tables /\ s \in Side /\ u \in Roster[s] /\ was \in Counts /\ now \in Counts
        /\ db'.member[s][u] = now /\ db'.entry[s] = Moved(db.entry[s], was, now)
        /\ \A y \in User \ {u} : db'.member[s][y] = db.member[s][y]
    BY <1>1, <1>3, <2>1 DEF Typed, TablesTyped
  <2>7. FairRows(db', s) /\ Within(db', s) /\ (was = db.member[s][u] /\ Exactly(db, s) => Exactly(db', s))
    BY <2>2, <2>5, <2>6, MoveFits
  <2>8. ASSUME NEW x \in Side \ {s}
        PROVE  FairRows(db', x) /\ (x \in Teams => Within(db', x)) /\ (x \in Teams /\ OneJudge => Exactly(db', x))
    <3>1. db'.entry[x] = db.entry[x] /\ \A y \in User : db'.member[x][y] = db.member[x][y]
      BY <1>1, <2>1
    <3> QED BY <2>4, <3>1, SideStays DEF Fitting
  <2> QED BY <2>3, <2>5, <2>7, <2>8 DEF Fitting, OneJudge
<1> QED BY <1>2, <1>3

LEMMA PutFits == ASSUME Typed, Asked, UNCHANGED load, NEW p \in Request, PutEntry(p) PROVE Fitting'
<1>1. req[p].kind \in {"entry", "main"} /\ req[p].pc = "put"
  BY EntryPut DEF PutsEntry
<1>2. req[p].kind \in load.kinds
  BY <1>1 DEF Asked, At
<1>3. ~NewConsole
  BY <1>1, <1>2 DEF NewConsole
<1> QED BY <1>3 DEF Fitting, NewConsole

LEMMA SeenKept ==
  ASSUME Typed, SeenFair, Fitting, UNCHANGED load, NEW p \in Request, Others(p), req'[p].pc = "write" => ReadCounts(p)
  PROVE  SeenFair'
<1>1. SUFFICES ASSUME NewConsole, NEW q \in Request, req'[q].pc = "write" PROVE Fair(req'[q].seen)
  BY DEF SeenFair, NewConsole, At
<1>2. CASE q = p
  <2>1. ReadsCounts(p)
    BY <1>1, <1>2, CountsRead
  <2>2. /\ req[p].side \in Side /\ req[p].user \in User \cup {NoUser}
        /\ req'[p].seen = IF req[p].user = NoUser THEN db.entry[req[p].side] ELSE db.member[req[p].side][req[p].user]
    BY <2>1 DEF ReadsCounts
  <2> QED BY <1>1, <1>2, <2>2 DEF Fitting, FairRows
<1>3. CASE q # p
  BY <1>1, <1>3 DEF Others, SeenFair, At
<1> QED BY <1>2, <1>3

-------------------------------------------------------------------------------
(* Every step.                                                             *)

LEMMA RowsProceed == ASSUME Sound, Rows, NEW p \in Request, Proceeds(p) PROVE Rows'
<1>1. Typed /\ Known /\ Steps(p)
  BY ProceedsTyped DEF Sound, OneByOne
<1>2. Others(p) /\ UNCHANGED load
  BY <1>1 DEF Steps
<1>3. Onward(p) /\ (req'[p].pc = "write" => ReadCounts(p)) /\ \A s \in Side : total'[s] \in Nat
  BY <1>1, ProceedsOnward DEF Rows
<1>4. UNCHANGED bounds /\ ~At(p, "idle")
  BY DEF Proceeds, ReadCounts, SaveCounts, SaveMember, LookAtTask, WriteMark, InsertCompletion, MarkSpent, PutEntry,
         ReadSource, SaveTotal, NothingToAdd, AddMatchLog, CloseRounds, FinishTournament, ReadWinner, Recrown, Rate,
         TakeLast, RestoreMark, ReadHolder, DeleteCompletion, MarkAvailable, EraseLog, At
<1>5. InBounds'
  BY <1>4 DEF Rows, InBounds, bounds
<1>6. Natural'
  BY <1>2, <1>3 DEF Rows, Natural, Onward, OnwardTo, Others
<1>7. Asked'
  BY <1>2, <1>3, <1>4 DEF Rows, Asked, Onward, OnwardTo, Others, At
<1>8. CountsBy'
  <2>1. \A i \in 1..Len(log') : NamesPlayer(log'[i])
    BY <1>1, LogOnward DEF Rows
  <2> QED BY <1>2, <1>3, <2>1 DEF Rows, CountsBy, Onward, OnwardTo, Others
<1>9. SeenFair'
  BY <1>1, <1>2, <1>3, SeenKept DEF Rows
<1>10. CASE ReadCounts(p)
  <2>1. Aside
    BY <1>10 DEF ReadCounts, Aside
  <2> QED BY <1>1, <1>2, <1>5, <1>6, <1>7, <1>8, <1>9, <1>10, <2>1, ReadLocks, AsideFits DEF Rows
<1>11. CASE SaveCounts(p)
  <2>1. req'[p].pc # "write"
    BY <1>1, <1>11, CorrectionOnward DEF Rows
  <2> QED BY <1>1, <1>2, <1>5, <1>6, <1>7, <1>8, <1>9, <1>11, <2>1, SideLocks, SideFits DEF Rows
<1>12. CASE SaveMember(p)
  <2>1. req'[p].pc # "write"
    BY <1>1, <1>12, CorrectionOnward DEF Rows
  <2> QED BY <1>1, <1>2, <1>5, <1>6, <1>7, <1>8, <1>9, <1>12, <2>1, MemberLocks, MemberFits DEF Rows
<1>13. CASE PutEntry(p)
  <2>1. req'[p].pc # "write"
    BY <1>1, <1>13, TaskOnward DEF Rows
  <2>2. db'.member = db.member /\ db'.rows = db.rows
    BY <1>1, <1>13 DEF PutEntry, Typed, TablesTyped, Tables
  <2>3. Locks'
    <3>1. ReadOf(db', req'[p]) /\ \A r : Apart(req'[p], r)
      BY <2>1 DEF ReadOf, Apart, Holding, Correcting
    <3>2. \A q \in Request \ {p} : ReadOf(db', req[q])
      BY <2>2 DEF Rows, Locks, ReadOf
    <3>3. \A s \in Side, u \in User : <<s, u>> \notin db'.rows => db'.member[s][u] = Zero
      BY <2>2 DEF Rows, Locks
    <3> QED BY <1>2, <3>1, <3>2, <3>3, LocksKept DEF Rows
  <2> QED BY <1>1, <1>2, <1>5, <1>6, <1>7, <1>8, <1>9, <1>13, <2>3, PutFits DEF Rows
<1>14. CASE ~ReadCounts(p) /\ ~SaveCounts(p) /\ ~SaveMember(p) /\ ~PutEntry(p)
  <2>1. Aside
    BY <1>1, <1>14, TablesAside
  <2>2. Locks'
    BY <1>2, <1>3, <1>14, <2>1, AsideLocks DEF Rows
  <2> QED BY <1>2, <1>5, <1>6, <1>7, <1>8, <1>9, <2>1, <2>2, AsideFits DEF Rows
<1> QED BY <1>10, <1>11, <1>12, <1>13, <1>14

LEMMA LoadFacts == ASSUME Typed PROVE load.made \in Nat /\ load.gone \in Nat /\ load.tasks \subseteq Task
  BY ScoreAssumption DEF Typed, TablesTyped

\* A request that comes in names a player of the side and is of a kind that comes.
Named(p) == /\ req'[p].kind \in load.kinds
            /\ req'[p].pc \in {"read", "write"} => req'[p].user \in Player(req'[p].side)

LEMMA NamedBy ==
  ASSUME ReqTyped, NEW p \in Request, NEW b, Accept(p, b), Fields(b),
         b.pc \in {"read", "write"} => b.user \in Player(b.side)
  PROVE  Named(p)
<1> DEFINE f == match.status = "finished"
           r == [b EXCEPT !.fin = f]
<1>1. Serve(p, r) /\ b.kind \in load.kinds
  BY DEF Accept
<1>2. r.kind = b.kind /\ r.pc = b.pc /\ r.user = b.user /\ r.side = b.side
  BY DEF Fields
<1>3. req'[p] = r
  BY <1>1 DEF Serve, ReqTyped
<1> QED BY <1>1, <1>2, <1>3 DEF Named

LEMMA PointsNamed ==
  ASSUME ReqTyped, NEW p \in Request, NEW s \in Side, NEW u \in Player(s), NEW d \in Int,
         HandleMatchPoints(p, s, u, d) \/ HandleMatchKnock(p, s, u, d)
  PROVE  Named(p)
<1>1. PICK kind \in {"points", "knock"} :
        Accept(p, [Blank EXCEPT !.kind = kind, !.pc = "read", !.side = s, !.user = u, !.delta = d])
  BY DEF HandleMatchPoints, HandleMatchKnock
<1> DEFINE b == ComingPoints(kind, s, u, d)
<1>2. u \in User \cup {NoUser}
  BY PlayerFacts
<1>3. Fields(b) /\ b.pc = "read" /\ b.side = s /\ b.user = u
  BY <1>2, PointsRow
<1>4. Accept(p, b)
  BY <1>1 DEF ComingPoints
<1> QED BY <1>3, <1>4, NamedBy

LEMMA MarkNamed ==
  ASSUME ReqTyped, NEW p \in Request, NEW t \in Task, NEW by \in By, NEW u \in User \cup {NoUser}, HandleMarkTask(p, t, by, u)
  PROVE  Named(p)
<1> DEFINE b == ComingMark(t, by, u)
<1>1. Accept(p, b)
  BY DEF HandleMarkTask, ComingMark
<1>2. b.pc = "look" /\ Fields(b)
  BY MarkRow
<1> QED BY <1>1, <1>2, NamedBy

LEMMA ContractNamed ==
  ASSUME ReqTyped, NEW p \in Request, NEW l \in Legendary, NEW s \in Side, HandleMatchLegendary(p, l, s)
  PROVE  Named(p)
<1> DEFINE b == ComingContract(l, s)
<1>1. Accept(p, b)
  BY DEF HandleMatchLegendary, ComingContract
<1>2. b.pc = "complete" /\ Fields(b)
  BY ContractRow
<1> QED BY <1>1, <1>2, NamedBy

LEMMA UndoNamed == ASSUME ReqTyped, NEW p \in Request, HandleMatchUndo(p) PROVE Named(p)
<1> DEFINE b == ComingUndo
<1>1. Accept(p, b)
  BY DEF HandleMatchUndo, ComingUndo
<1>2. b.pc = "take" /\ Fields(b)
  BY UndoRow
<1> QED BY <1>1, <1>2, NamedBy

LEMMA FinishNamed == ASSUME ReqTyped, NEW p \in Request, HandleFinishMatch(p) PROVE Named(p)
<1> DEFINE b == ComingFinish
<1>1. Accept(p, b)
  BY DEF HandleFinishMatch, ComingFinish
<1>2. b.pc = "sum" /\ Fields(b)
  BY FinishRow
<1> HIDE DEF b
<1> QED BY <1>1, <1>2, NamedBy

LEMMA OldConsoleNamed ==
  ASSUME ReqTyped, NEW p \in Request, NEW s \in Side, NEW d \in Int,
         HandleUpsertRoundEntry(p, s, d) \/ HandleAdjustRoundTaskCount(p, s, d)
  PROVE  Named(p)
<1>1. PICK kind \in {"entry", "main"} :
        Accept(p, [Blank EXCEPT !.kind = kind, !.pc = "put", !.side = s, !.delta = d])
  BY DEF HandleUpsertRoundEntry, HandleAdjustRoundTaskCount
<1> DEFINE b == ComingOld(kind, s, d)
<1>2. b.pc = "put" /\ Fields(b)
  BY OldConsoleRow
<1>3. Accept(p, b)
  BY <1>1 DEF ComingOld
<1> QED BY <1>2, <1>3, NamedBy

LEMMA ArrivesNamed == ASSUME ReqTyped, TablesTyped, NEW p \in Request, Arrives(p) PROVE Named(p)
<1>1. Deltas \subseteq Int /\ load.tasks \subseteq Task
  BY ScoreAssumption DEF TablesTyped
<1>2. ASSUME NEW s \in Side, NEW u \in Player(s) PROVE u \in User \cup {NoUser}
  BY PlayerFacts
<1> QED BY <1>1, <1>2, PointsNamed, MarkNamed, ContractNamed, UndoNamed, FinishNamed, OldConsoleNamed DEF Arrives, By

LEMMA Accepts == ASSUME NEW p \in Request, Arrives(p) PROVE made < load.made /\ made' = made + 1 /\ UNCHANGED <<cancelled, load>>
  BY DEF Arrives, HandleMatchPoints, HandleMatchKnock, HandleMarkTask, HandleMatchLegendary, HandleMatchUndo,
         HandleFinishMatch, HandleUpsertRoundEntry, HandleAdjustRoundTaskCount, Accept

LEMMA RowsArrive == ASSUME Sound, Rows, NEW p \in Request, Arrives(p) PROVE Rows'
<1> DEFINE n == req'[p]
<1>1. Begun(p) /\ Typed
  BY Arrived DEF Sound, Typed
<1>2. /\ Others(p) /\ UNCHANGED <<load, db, total, log, match>> /\ n.entry.type = "none" /\ n.src = 1 /\ n.sum = 0
      /\ n.pc \in {"read", "look", "complete", "take", "put", "sum"} /\ Aside
  BY <1>1 DEF Begun, Aside
<1>3. n.kind \in load.kinds /\ (n.pc \in {"read", "write"} => n.user \in Player(n.side))
  BY <1>1, ArrivesNamed DEF Typed, Named
<1>4. InBounds'
  BY <1>1, <1>2, Accepts, LoadFacts DEF Rows, InBounds
<1>5. Natural'
  BY <1>2 DEF Rows, Natural, Others
<1>6. Asked'
  BY <1>2, <1>3 DEF Rows, Asked, Others, At
<1>7. CountsBy'
  BY <1>2, <1>3 DEF Rows, CountsBy, Others, NamesPlayer
<1>8. Locks' /\ Fitting'
  BY <1>2, AsideLocks, AsideFits DEF Rows
<1>9. SeenFair'
  BY <1>1, <1>2, SeenKept DEF Rows
<1> QED BY <1>4, <1>5, <1>6, <1>7, <1>8, <1>9 DEF Rows

LEMMA RowsGone == ASSUME Sound, Rows, NEW p \in Request, ClientGone(p) PROVE Rows'
<1> DEFINE n == req'[p]
<1>1. n = Blank /\ Steps(p) /\ UNCHANGED <<load, db, total, log, match>> /\ Typed
  BY Gone DEF Sound
<1>2. Others(p) /\ Aside /\ n.pc = "idle" /\ n.entry.type = "none" /\ n.src = 1 /\ n.sum = 0
  BY <1>1, BlankFacts DEF Steps, Aside
<1>3. cancelled < load.gone /\ cancelled' = cancelled + 1 /\ UNCHANGED made
  BY DEF ClientGone
<1>4. InBounds'
  BY <1>1, <1>3, LoadFacts DEF Rows, InBounds
<1>5. Natural'
  BY <1>1, <1>2 DEF Rows, Natural, Others
<1>6. Asked'
  BY <1>1, <1>2 DEF Rows, Asked, Others, At
<1>7. CountsBy'
  BY <1>1, <1>2 DEF Rows, CountsBy, Others, NamesPlayer
<1>8. Locks' /\ Fitting'
  BY <1>1, <1>2, AsideLocks, AsideFits DEF Rows
<1>9. SeenFair'
  BY <1>1, <1>2, SeenKept DEF Rows
<1> QED BY <1>4, <1>5, <1>6, <1>7, <1>8, <1>9 DEF Rows

LEMMA RowsKept == ASSUME Sound, Rows, [Next]_vars PROVE Rows'
<1>1. CASE UNCHANGED vars
  <2>1. UNCHANGED <<db, total, log, match, req, load, made, cancelled>>
    BY <1>1 DEF vars, bounds
  <2> QED BY <2>1 DEF Rows, InBounds, Natural, Asked, CountsBy, Locks, SeenFair, Fitting, NewConsole, OneJudge, At
<1>2. CASE Next
  BY <1>2, RowsArrive, RowsProceed, RowsGone DEF Next
<1> QED BY <1>1, <1>2

LEMMA RowsBegin == Init => Rows
<1> SUFFICES ASSUME Init PROVE Rows
  OBVIOUS
<1>1. \A p \in Request : req[p] = Blank
  BY DEF Init
<1>2. /\ log = <<>> /\ Len(log) = 0 /\ made = 0 /\ cancelled = 0 /\ db \in Tables /\ db.rows = {}
      /\ \A s \in Side : total[s] = 0 /\ db.entry[s] = Zero /\ \A u \in User : db.member[s][u] = Zero
  BY BeginsTyped DEF Init, Typed, TablesTyped
<1>3. InBounds
  BY <1>2, BeginsTyped, LoadFacts DEF InBounds
<1>4. Natural /\ Asked /\ CountsBy /\ SeenFair
  BY <1>1, <1>2, BlankFacts DEF Natural, Asked, CountsBy, SeenFair, NamesPlayer, At
<1>5. Locks
  BY <1>1, <1>2, BlankFacts DEF Locks, ReadOf, Apart, Holding, Correcting
<1>6. ASSUME NEW s \in Side PROVE FairRows(db, s) /\ Within(db, s) /\ Exactly(db, s)
  <2>1. FairRows(db, s)
    BY <1>2, ZeroFacts DEF FairRows
  <2>2. \A u \in User : Knocks(db, s)[u] = 0 /\ Points(db, s)[u] = 0 /\ Spares(db, s)[u] = 0
    BY <1>2, ZeroFacts DEF Knocks, Points, Spares
  <2>3. OfPlayers(Knocks(db, s), s) = 0 /\ OfPlayers(Points(db, s), s) = 0 /\ OfPlayers(Spares(db, s), s) = 0
    BY <2>2, TeamFacts, SumOfZeros DEF OfPlayers
  <2> QED BY <1>2, <2>1, <2>3, ZeroFacts DEF Within, Exactly
<1> QED BY <1>3, <1>4, <1>5, <1>6 DEF Rows, Fitting

LEMMA AlwaysRows == Spec => [](Sound /\ Rows)
<1>1. Init => Sound /\ Rows
  BY SoundBegins, RowsBegin
<1>2. Sound /\ Rows /\ [Next]_vars => (Sound /\ Rows)'
  BY SoundKept, RowsKept
<1> QED BY <1>1, <1>2, PTL DEF Spec

LEMMA RowsFollow == ASSUME Sound, Rows PROVE RowsFit
<1>1. TypeOK
  <2>1. total \in [Side -> Nat]
    BY DEF Sound, Typed, TablesTyped, Rows, Natural
  <2> QED BY <2>1 DEF TypeOK, Sound, Typed, TablesTyped, LogTyped, Rows, InBounds
<1>2. db \in Tables
  BY DEF Sound, Typed, TablesTyped
<1>3. SideIsItsPlayers
  BY DEF SideIsItsPlayers, Rows, Fitting, Exactly, Points, Knocks, Teams
<1>4. PlayersWithinSide
  BY DEF PlayersWithinSide, Rows, Fitting, Within, Spares, Knocks, Teams
<1>5. KnocksKeepTheirPoints
  <2>1. SUFFICES ASSUME NewConsole, NEW s \in Side
        PROVE  /\ db.entry[s].points >= db.entry[s].knocks * KnockPoints
               /\ \A u \in User : db.member[s][u].points >= db.member[s][u].knocks * KnockPoints
    BY DEF KnocksKeepTheirPoints
  <2>2. db.entry[s] \in Counts /\ \A u \in User : db.member[s][u] \in Counts
    BY <1>2, SumsOfPlayers
  <2>3. FairRows(db, s)
    BY <2>1 DEF Rows, Fitting
  <2> QED BY <2>2, <2>3, CountFacts DEF FairRows
<1> QED BY <1>1, <1>3, <1>4, <1>5 DEF RowsFit

\* Whatever requests meet on whatever console, the tables, the totals and the log hold
\* what their columns may; without the old console a player and a side have at least the
\* points of their knocks and the players of a side no more than the side (adjustMember,
\* AdjustRoundPoints); and on the console of one judge exactly what it has.
THEOREM RowsTheorem == Spec => []RowsFit
<1>1. Sound /\ Rows => RowsFit
  BY RowsFollow
<1> QED BY <1>1, AlwaysRows, PTL
-------------------------------------------------------------------------------
(* The log of one judge explains the score: what a counter has is what the *)
(* rows of the log, each as it was applied, come to.                       *)

\* Counters of a side or of its player u, knocks or points beyond those of knocks.
Counter == {"points", "knock"}
Row(d, s, u)      == IF u = NoUser THEN d.entry[s] ELSE d.member[s][u]
Level(d, s, u, c) == IF c = "knock" THEN Row(d, s, u).knocks ELSE Spare(Row(d, s, u))
Keyed(s)          == Player(s) \cup {NoUser}

\* What the first k rows of a log come to for a counter.
Amount(e, s, u, c)  == IF e.type = c /\ e.side = s /\ (u = NoUser \/ e.user = u) THEN e.applied ELSE 0
Amounts(b, s, u, c) == [i \in 1..Len(b) |-> Amount(b[i], s, u, c)]
Upto(b, k, s, u, c) == SumFunctionOnSet(Amounts(b, s, u, c), 1..k)

\* Each counter is what the log comes to, and was never below zero on the way: the last
\* row can be taken back in full.
Balanced(d, b) == \A s \in Side, c \in Counter : \A u \in Keyed(s) : Level(d, s, u, c) = Upto(b, Len(b), s, u, c)
NeverBelow(b)  == \A s \in Side, c \in Counter : \A u \in Player(s), k \in 0..Len(b) : Upto(b, k, s, u, c) >= 0

\* A contract that somebody has is that of one row.
Contracts(d, b) ==
  /\ \A i \in 1..Len(b) : b[i].leg \in Legendary <=> b[i].type = "legendary"
  /\ \A i, j \in 1..Len(b) : b[i].leg = b[j].leg /\ b[i].leg \in Legendary => i = j
  /\ \A l \in Legendary : (d.taken[l] # NoSide) <=> \E i \in 1..Len(b) : b[i].leg = l

\* The first mark of a task found it nobody's, and so it is without a mark.
FirstMarks(d, b) ==
  \A t \in Task :
    /\ (\A i \in 1..Len(b) : ~About(b[i], t)) => d.done[t].by = NoSide
    /\ \A i \in 1..Len(b) : About(b[i], t) /\ (\A k \in 1..Len(b) : k < i => ~About(b[k], t)) => b[i].prev.by = NoSide

Explains(d, b) == Balanced(d, b) /\ NeverBelow(b) /\ Contracts(d, b) /\ FirstMarks(d, b)

\* The log as a request leaves it that has changed the tables and not yet the log.
Unwritten(r) == r.kind \in Edits /\ (r.pc \in {"spend", "log"} \/ (r.pc = "sum" /\ ~r.tally))
TakenBack(r) == r.pc \in {"reopen", "erase"}
Books(l, r)  == IF Unwritten(r) THEN Append(l, r.entry)
                ELSE IF TakenBack(r) THEN SubSeq(l, 1, Len(l) - 1) ELSE l

\* What an edit has not noted yet, and what an undo took from the row it takes back.
Draft(r) ==
  /\ r.pc \in {"read", "write"} /\ r.kind # "undo" => r.entry.type = "none"
  /\ r.pc \in {"read", "write"} /\ r.kind = "undo" =>
       r.entry.type \in Counter /\ r.side = r.entry.side /\ r.user = r.entry.user /\ r.delta = -r.entry.applied
  /\ r.pc = "mark" \/ Unwritten(r) => (r.entry.leg \in Legendary <=> r.entry.type = "legendary")
  /\ r.pc \in {"holder", "release", "reopen"} => r.entry.leg = r.leg

Explained ==
  OneJudge /\ NewConsole =>
    \A p \in Request : Draft(req[p]) /\ (Alone(p) => Explains(db, Books(log, req[p])))

-------------------------------------------------------------------------------
(* Logs that are one row apart.                                            *)

LEMMA AmountInt == ASSUME NEW e \in LogRow, NEW s, NEW u, NEW c PROVE Amount(e, s, u, c) \in Int
  BY DEF Amount, LogRow

LEMMA UptoFacts ==
  ASSUME NEW b \in Seq(LogRow), NEW s, NEW u, NEW c, NEW k \in 0..Len(b)
  PROVE  /\ Upto(b, k, s, u, c) \in Int
         /\ k = 0 => Upto(b, k, s, u, c) = 0
         /\ k # 0 => Upto(b, k, s, u, c) = Upto(b, k - 1, s, u, c) + Amount(b[k], s, u, c)
<1> DEFINE f == Amounts(b, s, u, c)
<1>1. Len(b) \in Nat /\ k \in Nat /\ k <= Len(b) /\ \A i \in 1..Len(b) : b[i] \in LogRow
  BY ElementOfSeq
<1>2. \A i \in 1..Len(b) : f[i] = Amount(b[i], s, u, c) /\ f[i] \in Int
  BY <1>1, AmountInt DEF Amounts
<1>3. Upto(b, k, s, u, c) = SumFunctionOnSet(f, 1..k) /\ Upto(b, k - 1, s, u, c) = SumFunctionOnSet(f, 1..(k - 1))
  BY DEF Upto
<1> HIDE DEF f
<1>4. IsFiniteSet(1..k) /\ \A i \in 1..k : f[i] \in Int
  BY <1>1, <1>2, IntervalFacts
<1>5. Upto(b, k, s, u, c) \in Int
  BY <1>3, <1>4, SumInt
<1>6. ASSUME k = 0 PROVE Upto(b, k, s, u, c) = 0
  <2>1. 1..k = {}
    BY <1>6
  <2> QED BY <1>3, <1>4, <2>1, SumFacts
<1>7. ASSUME k # 0 PROVE Upto(b, k, s, u, c) = Upto(b, k - 1, s, u, c) + Amount(b[k], s, u, c)
  <2>1. k \in 1..k /\ k \in 1..Len(b) /\ (1..k) \ {k} = 1..(k - 1) /\ 1..(k - 1) \subseteq 1..k
    BY <1>1, <1>7
  <2>2. SumFunctionOnSet(f, 1..k) = f[k] + SumFunctionOnSet(f, 1..(k - 1))
    BY <1>4, <2>1, SumTakes
  <2>3. SumFunctionOnSet(f, 1..(k - 1)) \in Int
    <3>1. IsFiniteSet(1..(k - 1))
      BY <1>4, <2>1, FS_Subset
    <3> QED BY <1>4, <2>1, <3>1, SumInt
  <2>4. f[k] = Amount(b[k], s, u, c) /\ f[k] \in Int
    BY <1>2, <2>1
  <2> QED BY <1>3, <2>2, <2>3, <2>4
<1> QED BY <1>5, <1>6, <1>7

LEMMA UptoSame ==
  ASSUME NEW a, NEW b, NEW k \in Nat, k <= Len(a), k <= Len(b), Len(a) \in Nat, Len(b) \in Nat, NEW s, NEW u, NEW c,
         \A i \in 1..k : Amount(a[i], s, u, c) = Amount(b[i], s, u, c)
  PROVE  Upto(a, k, s, u, c) = Upto(b, k, s, u, c)
<1>1. \A i \in 1..k : i \in 1..Len(a) /\ i \in 1..Len(b)
  OBVIOUS
<1>2. \A i \in 1..k : Amounts(a, s, u, c)[i] = Amounts(b, s, u, c)[i]
  BY <1>1 DEF Amounts
<1> QED BY <1>2, IntervalFacts, SumSame DEF Upto

\* c is b and one row more.
Longer(b, c) == b \in Seq(LogRow) /\ c \in Seq(LogRow) /\ Len(c) = Len(b) + 1 /\ \A i \in 1..Len(b) : c[i] = b[i]

LEMMA LongerFacts ==
  ASSUME NEW b, NEW c, Longer(b, c)
  PROVE  /\ Len(b) \in Nat /\ Len(c) = Len(b) + 1 /\ c[Len(c)] \in LogRow /\ 1..Len(c) = 1..Len(b) \cup {Len(c)}
         /\ Len(c) \notin 1..Len(b)
         /\ \A i \in 1..Len(b) : c[i] = b[i] /\ b[i] \in LogRow
         /\ \A s, u, n : \A k \in 0..Len(b) : Upto(c, k, s, u, n) = Upto(b, k, s, u, n)
         /\ \A s, u, n : Upto(c, Len(c), s, u, n) = Upto(b, Len(b), s, u, n) + Amount(c[Len(c)], s, u, n)
         /\ \A s, u, n : Upto(b, Len(b), s, u, n) \in Int /\ Amount(c[Len(c)], s, u, n) \in Int
<1>1. /\ Len(b) \in Nat /\ Len(c) = Len(b) + 1 /\ Len(c) \in Nat /\ b \in Seq(LogRow) /\ c \in Seq(LogRow)
      /\ \A i \in 1..Len(b) : c[i] = b[i] /\ b[i] \in LogRow
  BY ElementOfSeq DEF Longer
<1>2. Len(c) \in 1..Len(c) /\ 1..Len(c) = 1..Len(b) \cup {Len(c)} /\ Len(c) \notin 1..Len(b)
  BY <1>1
<1>3. c[Len(c)] \in LogRow
  BY <1>1, <1>2, ElementOfSeq
<1>4. ASSUME NEW s, NEW u, NEW n, NEW k \in 0..Len(b) PROVE Upto(c, k, s, u, n) = Upto(b, k, s, u, n)
  <2>1. k \in Nat /\ k <= Len(b) /\ k <= Len(c) /\ \A i \in 1..k : c[i] = b[i]
    BY <1>1
  <2> QED BY <1>1, <2>1, UptoSame
<1>5. ASSUME NEW s, NEW u, NEW n
      PROVE  /\ Upto(c, Len(c), s, u, n) = Upto(b, Len(b), s, u, n) + Amount(c[Len(c)], s, u, n)
             /\ Upto(b, Len(b), s, u, n) \in Int /\ Amount(c[Len(c)], s, u, n) \in Int
  <2>1. Len(c) \in 0..Len(c) /\ Len(c) # 0 /\ Len(c) - 1 = Len(b) /\ Len(b) \in 0..Len(b)
    BY <1>1
  <2>2. Upto(c, Len(c), s, u, n) = Upto(c, Len(b), s, u, n) + Amount(c[Len(c)], s, u, n)
    <3>1. Upto(c, Len(c), s, u, n) = Upto(c, Len(c) - 1, s, u, n) + Amount(c[Len(c)], s, u, n)
      BY <1>1, <2>1, UptoFacts
    <3> QED BY <2>1, <3>1
  <2> QED BY <1>1, <1>3, <1>4, <2>1, <2>2, UptoFacts, AmountInt
<1> QED BY <1>1, <1>2, <1>3, <1>4, <1>5

\* A log grows by the row of what was done to the counters.
LEMMA CountersGrow ==
  ASSUME NEW b, NEW c, Longer(b, c), NEW d, NEW e, Balanced(d, b), NeverBelow(b),
         \A s \in Side, n \in Counter : \A u \in Keyed(s) :
           Level(e, s, u, n) = Level(d, s, u, n) + Amount(c[Len(c)], s, u, n) /\ Level(e, s, u, n) >= 0
  PROVE  Balanced(e, c) /\ NeverBelow(c)
<1>1. ASSUME NEW s \in Side, NEW n \in Counter, NEW u \in Keyed(s)
      PROVE  Level(e, s, u, n) = Upto(c, Len(c), s, u, n) /\ Upto(c, Len(c), s, u, n) >= 0
  <2>1. Level(d, s, u, n) = Upto(b, Len(b), s, u, n)
    BY DEF Balanced
  <2>2. Upto(c, Len(c), s, u, n) = Upto(b, Len(b), s, u, n) + Amount(c[Len(c)], s, u, n)
    BY LongerFacts
  <2>3. Level(e, s, u, n) = Level(d, s, u, n) + Amount(c[Len(c)], s, u, n) /\ Level(e, s, u, n) >= 0
    OBVIOUS
  <2> QED BY <2>1, <2>2, <2>3, Zenon
<1>2. Balanced(e, c)
  BY <1>1 DEF Balanced
<1>3. ASSUME NEW s \in Side, NEW n \in Counter, NEW u \in Player(s), NEW k \in 0..Len(c)
      PROVE  Upto(c, k, s, u, n) >= 0
  <2>1. u \in Keyed(s)
    BY DEF Keyed
  <2>2. k = Len(c) \/ k \in 0..Len(b)
    BY LongerFacts
  <2>3. CASE k = Len(c)
    BY <1>1, <2>1, <2>3
  <2>4. CASE k \in 0..Len(b)
    <3>1. Upto(b, k, s, u, n) >= 0
      BY <2>4 DEF NeverBelow
    <3>2. Upto(c, k, s, u, n) = Upto(b, k, s, u, n)
      BY <2>4, LongerFacts
    <3> QED BY <3>1, <3>2, Zenon
  <2> QED BY <2>2, <2>3, <2>4
<1>4. NeverBelow(c)
  BY <1>3 DEF NeverBelow
<1> QED BY <1>2, <1>4

LEMMA CountersDrop ==
  ASSUME NEW b, NEW c, Longer(b, c), NEW d, NEW e, Balanced(d, c), NeverBelow(c),
         \A s \in Side, n \in Counter : \A u \in Keyed(s) : Level(e, s, u, n) = Level(d, s, u, n) - Amount(c[Len(c)], s, u, n)
  PROVE  Balanced(e, b) /\ NeverBelow(b)
<1>1. ASSUME NEW s \in Side, NEW n \in Counter, NEW u \in Keyed(s)
      PROVE  Level(e, s, u, n) = Upto(b, Len(b), s, u, n)
  <2>1. PICK x, y, a, z : x = Level(d, s, u, n) /\ y = Upto(b, Len(b), s, u, n) /\ a = Amount(c[Len(c)], s, u, n)
                          /\ z = Level(e, s, u, n)
    OBVIOUS
  <2>2. x = Upto(c, Len(c), s, u, n)
    BY <2>1 DEF Balanced
  <2>3. Upto(c, Len(c), s, u, n) = y + a /\ y \in Int /\ a \in Int
    BY <2>1, LongerFacts
  <2>4. z = x - a
    BY <2>1
  <2>5. z = y
    BY <2>2, <2>3, <2>4
  <2> QED BY <2>1, <2>5
<1>2. ASSUME NEW s \in Side, NEW n \in Counter, NEW u \in Player(s), NEW k \in 0..Len(b)
      PROVE  Upto(b, k, s, u, n) >= 0
  <2>1. k \in 0..Len(c)
    BY LongerFacts
  <2>2. Upto(c, k, s, u, n) >= 0
    BY <2>1 DEF NeverBelow
  <2>3. Upto(c, k, s, u, n) = Upto(b, k, s, u, n)
    BY LongerFacts
  <2> QED BY <2>2, <2>3, Zenon
<1> QED BY <1>1, <1>2 DEF Balanced, NeverBelow

LEMMA ContractsGrow ==
  ASSUME NEW b, NEW c, Longer(b, c), NEW d, NEW e, Contracts(d, b),
         c[Len(c)].leg \in Legendary <=> c[Len(c)].type = "legendary",
         c[Len(c)].type = "legendary" => d.taken[c[Len(c)].leg] = NoSide /\ e.taken[c[Len(c)].leg] # NoSide,
         \A l \in Legendary : c[Len(c)].type # "legendary" \/ l # c[Len(c)].leg => e.taken[l] = d.taken[l]
  PROVE  Contracts(e, c)
<1>1. /\ 1..Len(c) = 1..Len(b) \cup {Len(c)} /\ Len(c) \notin 1..Len(b)
      /\ \A i \in 1..Len(b) : c[i] = b[i]
  BY LongerFacts
<1>2. PICK x, m, R : x = c[Len(c)] /\ m = Len(c) /\ R = 1..Len(b)
  OBVIOUS
<1>3. \A i \in R : (b[i].leg \in Legendary <=> b[i].type = "legendary") /\ (b[i].leg \in Legendary => d.taken[b[i].leg] # NoSide)
  BY <1>2 DEF Contracts
<1>4. \A i \in R \cup {m} : c[i].leg \in Legendary <=> c[i].type = "legendary"
  BY <1>1, <1>2, <1>3
<1>5. \A i \in R : c[i].leg \in Legendary => c[i].leg # x.leg
  <2> TAKE i \in R
  <2> HAVE c[i].leg \in Legendary
  <2>1. d.taken[c[i].leg] # NoSide
    BY <1>1, <1>2, <1>3
  <2> QED BY <1>2, <2>1
<1>6. \A i, j \in R \cup {m} : c[i].leg = c[j].leg /\ c[i].leg \in Legendary => i = j
  <2>1. \A i, j \in R : c[i].leg = c[j].leg /\ c[i].leg \in Legendary => i = j
    BY <1>1, <1>2 DEF Contracts
  <2> QED BY <1>2, <1>5, <2>1
<1>7. ASSUME NEW l \in Legendary
      PROVE  (e.taken[l] # NoSide) <=> \E i \in R \cup {m} : c[i].leg = l
  <2>1. (d.taken[l] # NoSide) <=> \E i \in R : c[i].leg = l
    BY <1>1, <1>2 DEF Contracts
  <2>2. CASE x.type = "legendary" /\ l = x.leg
    BY <1>2, <2>2
  <2>3. CASE ~(x.type = "legendary" /\ l = x.leg)
    <3>1. e.taken[l] = d.taken[l] /\ x.leg # l
      BY <1>2, <2>3
    <3> QED BY <1>2, <2>1, <3>1
  <2> QED BY <2>2, <2>3
<1>8. 1..Len(c) = R \cup {m}
  BY <1>1, <1>2
<1> QED BY <1>4, <1>6, <1>7, <1>8 DEF Contracts

LEMMA ContractsDrop ==
  ASSUME NEW b, NEW c, Longer(b, c), NEW d, NEW e, Contracts(d, c),
         c[Len(c)].type = "legendary" => e.taken[c[Len(c)].leg] = NoSide,
         \A l \in Legendary : c[Len(c)].type # "legendary" \/ l # c[Len(c)].leg => e.taken[l] = d.taken[l]
  PROVE  Contracts(e, b)
<1>1. /\ 1..Len(c) = 1..Len(b) \cup {Len(c)} /\ Len(c) \notin 1..Len(b)
      /\ \A i \in 1..Len(b) : c[i] = b[i]
  BY LongerFacts
<1>2. PICK x, m, R : x = c[Len(c)] /\ m = Len(c) /\ R = 1..Len(b)
  OBVIOUS
<1>3. /\ \A i \in R \cup {m} : c[i].leg \in Legendary <=> c[i].type = "legendary"
      /\ \A i, j \in R \cup {m} : c[i].leg = c[j].leg /\ c[i].leg \in Legendary => i = j
      /\ \A l \in Legendary : (d.taken[l] # NoSide) <=> \E i \in R \cup {m} : c[i].leg = l
      /\ m \notin R /\ x = c[m] /\ \A i \in R : c[i] = b[i]
  BY <1>1, <1>2 DEF Contracts
<1>4. ASSUME NEW l \in Legendary
      PROVE  (e.taken[l] # NoSide) <=> \E i \in R : b[i].leg = l
  <2>1. CASE x.type = "legendary" /\ l = x.leg
    BY <1>2, <1>3, <2>1
  <2>2. CASE ~(x.type = "legendary" /\ l = x.leg)
    <3>1. e.taken[l] = d.taken[l] /\ x.leg # l
      BY <1>2, <1>3, <2>2
    <3> QED BY <1>3, <3>1
  <2> QED BY <2>1, <2>2
<1>5. /\ \A i \in R : b[i].leg \in Legendary <=> b[i].type = "legendary"
      /\ \A i, j \in R : b[i].leg = b[j].leg /\ b[i].leg \in Legendary => i = j
  BY <1>3
<1> QED BY <1>2, <1>4, <1>5 DEF Contracts

LEMMA MarksGrow ==
  ASSUME NEW b, NEW c, Longer(b, c), NEW d, NEW e, FirstMarks(d, b),
         c[Len(c)].type = "task" => c[Len(c)].prev.by = d.done[c[Len(c)].task].by,
         \A t \in Task : ~About(c[Len(c)], t) => e.done[t] = d.done[t]
  PROVE  FirstMarks(e, c)
<1>1. /\ 1..Len(c) = 1..Len(b) \cup {Len(c)} /\ Len(b) \in Nat /\ Len(c) = Len(b) + 1
      /\ \A i \in 1..Len(b) : c[i] = b[i]
  BY LongerFacts
<1>2. SUFFICES ASSUME NEW t \in Task
               PROVE  /\ (\A i \in 1..Len(c) : ~About(c[i], t)) => e.done[t].by = NoSide
                      /\ \A i \in 1..Len(c) : About(c[i], t) /\ (\A k \in 1..Len(c) : k < i => ~About(c[k], t))
                                                => c[i].prev.by = NoSide
  BY DEF FirstMarks
<1>3. /\ (\A i \in 1..Len(b) : ~About(b[i], t)) => d.done[t].by = NoSide
      /\ \A i \in 1..Len(b) : About(b[i], t) /\ (\A k \in 1..Len(b) : k < i => ~About(b[k], t)) => b[i].prev.by = NoSide
  BY DEF FirstMarks
<1>4. ASSUME \A i \in 1..Len(c) : ~About(c[i], t) PROVE e.done[t].by = NoSide
  <2>1. ~About(c[Len(c)], t) /\ \A i \in 1..Len(b) : ~About(b[i], t)
    BY <1>1, <1>4
  <2>2. e.done[t] = d.done[t]
    BY <2>1
  <2> QED BY <1>3, <2>1, <2>2
<1>5. ASSUME NEW i \in 1..Len(c), About(c[i], t), \A k \in 1..Len(c) : k < i => ~About(c[k], t)
      PROVE  c[i].prev.by = NoSide
  <2>1. CASE i \in 1..Len(b)
    <3>1. About(b[i], t) /\ \A k \in 1..Len(b) : k < i => ~About(b[k], t)
      BY <1>1, <1>5, <2>1
    <3> QED BY <1>1, <1>3, <2>1, <3>1
  <2>2. CASE i = Len(c)
    <3>1. \A k \in 1..Len(b) : ~About(b[k], t)
      BY <1>1, <1>5, <2>2
    <3>2. c[i].type = "task" /\ c[i].task = t
      BY <1>5 DEF About
    <3> QED BY <1>3, <2>2, <3>1, <3>2
  <2> QED BY <1>1, <2>1, <2>2
<1> QED BY <1>4, <1>5

LEMMA MarksDrop ==
  ASSUME NEW b, NEW c, Longer(b, c), NEW d, NEW e, FirstMarks(d, c),
         c[Len(c)].type = "task" => e.done[c[Len(c)].task].by = c[Len(c)].prev.by,
         \A t \in Task : ~About(c[Len(c)], t) => e.done[t] = d.done[t]
  PROVE  FirstMarks(e, b)
<1>1. /\ 1..Len(c) = 1..Len(b) \cup {Len(c)} /\ Len(b) \in Nat /\ Len(c) = Len(b) + 1
      /\ \A i \in 1..Len(b) : c[i] = b[i]
  BY LongerFacts
<1>2. SUFFICES ASSUME NEW t \in Task
               PROVE  /\ (\A i \in 1..Len(b) : ~About(b[i], t)) => e.done[t].by = NoSide
                      /\ \A i \in 1..Len(b) : About(b[i], t) /\ (\A k \in 1..Len(b) : k < i => ~About(b[k], t))
                                                => b[i].prev.by = NoSide
  BY DEF FirstMarks
<1>3. /\ (\A i \in 1..Len(c) : ~About(c[i], t)) => d.done[t].by = NoSide
      /\ \A i \in 1..Len(c) : About(c[i], t) /\ (\A k \in 1..Len(c) : k < i => ~About(c[k], t)) => c[i].prev.by = NoSide
  BY DEF FirstMarks
<1>4. ASSUME \A i \in 1..Len(b) : ~About(b[i], t) PROVE e.done[t].by = NoSide
  <2>1. \A i \in 1..Len(b) : ~About(c[i], t)
    BY <1>1, <1>4
  <2>2. CASE About(c[Len(c)], t)
    <3>1. Len(c) \in 1..Len(c) /\ \A k \in 1..Len(c) : k < Len(c) => ~About(c[k], t)
      BY <1>1, <2>1
    <3>2. c[Len(c)].prev.by = NoSide
      BY <1>3, <2>2, <3>1
    <3>3. c[Len(c)].type = "task" /\ c[Len(c)].task = t
      BY <2>2 DEF About
    <3> QED BY <3>2, <3>3
  <2>3. CASE ~About(c[Len(c)], t)
    <3>1. \A i \in 1..Len(c) : ~About(c[i], t)
      BY <1>1, <2>1, <2>3
    <3>2. e.done[t] = d.done[t]
      BY <2>3
    <3> QED BY <1>3, <3>1, <3>2
  <2> QED BY <2>2, <2>3
<1>5. ASSUME NEW i \in 1..Len(b), About(b[i], t), \A k \in 1..Len(b) : k < i => ~About(b[k], t)
      PROVE  b[i].prev.by = NoSide
  <2>1. i \in 1..Len(c) /\ About(c[i], t) /\ \A k \in 1..Len(c) : k < i => ~About(c[k], t)
    BY <1>1, <1>5
  <2> QED BY <1>1, <1>3, <2>1
<1> QED BY <1>4, <1>5

-------------------------------------------------------------------------------
(* What a correction does to the counters.                                 *)

Touched(r) == IF IsKnock(r) THEN "knock" ELSE "points"
Gain(r, s, u, c) == IF c = Touched(r) /\ s = r.side /\ (u = NoUser \/ u = r.user) THEN Applied(r) ELSE 0

\* Only the counter that is touched changes, by what is applied.
LEMMA CounterAfter ==
  ASSUME NEW r, Fields(r), Fair(r.seen)
  PROVE  /\ After(r).knocks = r.seen.knocks + (IF IsKnock(r) THEN Applied(r) ELSE 0)
         /\ Spare(After(r)) = Spare(r.seen) + (IF IsKnock(r) THEN 0 ELSE Applied(r))
         /\ After(r) \in Counts /\ r.seen \in Counts /\ Applied(r) \in Int
         /\ r.seen.knocks \in Nat /\ Spare(r.seen) \in Int
<1>1. r.seen \in Counts /\ r.delta \in Int
  BY DEF Fields
<1>2. After(r) \in Counts /\ Applied(r) \in Int
  BY AfterFacts
<1>3. PICK a, c, k : a = After(r) /\ c = r.seen /\ k = Applied(r)
  OBVIOUS
<1>4. a \in Counts /\ c \in Counts /\ k \in Int /\ Fair(c)
  BY <1>1, <1>2, <1>3
<1>5. /\ a.points \in Nat /\ a.knocks \in Nat /\ c.points \in Nat /\ c.knocks \in Nat /\ Spare(c) \in Int
      /\ c.points = Spare(c) + c.knocks * KnockPoints /\ a.points = Spare(a) + a.knocks * KnockPoints
      /\ Spare(a) \in Int /\ c.knocks * KnockPoints \in Nat
  BY <1>4, CountFacts
<1>6. CASE IsKnock(r)
  <2>1. a = AfterKnocks(c, r.delta) /\ k = a.knocks - c.knocks
    BY <1>3, <1>6 DEF After, Applied
  <2>2. Spare(a) = Spare(c)
    BY <1>1, <1>4, <2>1, FairKnocks
  <2>3. a.knocks = c.knocks + k
    BY <1>5, <2>1
  <2> QED BY <1>2, <1>3, <1>4, <1>5, <1>6, <2>2, <2>3
<1>7. CASE ~IsKnock(r)
  <2>1. a = AfterPoints(c, r.delta) /\ k = a.points - c.points
    BY <1>3, <1>7 DEF After, Applied
  <2>2. a.knocks = c.knocks
    BY <1>4, <2>1 DEF AfterPoints, Counts
  <2>3. PICK w : w = c.knocks * KnockPoints
    OBVIOUS
  <2>4. a.points = Spare(a) + w /\ c.points = Spare(c) + w /\ w \in Nat
    BY <1>5, <2>2, <2>3
  <2>5. Spare(a) = Spare(c) + k
    BY <1>4, <1>5, <2>1, <2>4
  <2> QED BY <1>2, <1>3, <1>4, <1>5, <1>7, <2>2, <2>5
<1> QED BY <1>6, <1>7

\* What is taken from a counter that has it is taken in full.
LEMMA TakesInFull ==
  ASSUME NEW r, Fields(r), Fair(r.seen), NEW a \in Int, r.delta = -a,
         IsKnock(r) => r.seen.knocks - a >= 0, ~IsKnock(r) => Spare(r.seen) - a >= 0
  PROVE  Applied(r) = -a
<1>1. PICK c, d : c = r.seen /\ d = r.delta
  OBVIOUS
<1>2. c \in Counts /\ d \in Int /\ d = -a
  BY <1>1 DEF Fields
<1>3. /\ c.points \in Nat /\ c.knocks \in Nat /\ Spare(c) \in Int
      /\ c.points = Spare(c) + c.knocks * KnockPoints /\ c.knocks * KnockPoints \in Nat
  BY <1>2, CountFacts
<1>4. CASE IsKnock(r)
  <2>1. After(r) = AfterKnocks(c, d) /\ Applied(r) = After(r).knocks - c.knocks
    BY <1>1, <1>4 DEF After, Applied
  <2>2. AfterKnocks(c, d).knocks = c.knocks + AppliedKnocks(c, d)
    BY DEF AfterKnocks
  <2>3. c.knocks - a >= 0
    BY <1>1, <1>4
  <2>4. AppliedKnocks(c, d) = d
    <3>1. PICK k, v : k = c.knocks /\ v = c.knocks + d
      OBVIOUS
    <3>2. k \in Nat /\ v \in Int /\ v >= 0 /\ v = k + d
      BY <1>2, <1>3, <2>3, <3>1
    <3>3. Larger(v, 0) = v
      BY <3>2 DEF Larger
    <3>4. AppliedKnocks(c, d) = v - k
      BY <3>1, <3>3 DEF AppliedKnocks
    <3> QED BY <1>2, <3>2, <3>4
  <2>5. Applied(r) = (c.knocks + d) - c.knocks
    BY <2>1, <2>2, <2>4, Zenon
  <2> QED BY <1>2, <1>3, <2>5
<1>5. CASE ~IsKnock(r)
  <2>1. After(r) = AfterPoints(c, d) /\ Applied(r) = After(r).points - c.points
    BY <1>1, <1>5 DEF After, Applied
  <2>2. AfterPoints(c, d).points = Larger(c.points + d, c.knocks * KnockPoints)
    BY <1>2 DEF AfterPoints, Counts
  <2>3. PICK w, v : w = c.knocks * KnockPoints /\ v = c.points + d
    OBVIOUS
  <2>4. Spare(c) - a >= 0
    BY <1>1, <1>5
  <2>5. w \in Nat /\ v \in Int /\ v >= w
    BY <1>2, <1>3, <2>3, <2>4
  <2>6. Larger(v, w) = v
    BY <2>5 DEF Larger
  <2>7. After(r).points = c.points + d
    BY <2>1, <2>2, <2>3, <2>6, Zenon
  <2> QED BY <1>2, <1>3, <2>1, <2>7
<1> QED BY <1>4, <1>5

LEMMA LevelFacts ==
  ASSUME Typed, Fitting, NewConsole, NEW s \in Side, NEW c \in Counter, NEW u \in Keyed(s)
  PROVE  Level(db, s, u, c) \in Int /\ Level(db, s, u, c) >= 0
<1>1. db.entry[s] \in Counts /\ \A y \in User : db.member[s][y] \in Counts
  BY DbFacts DEF DbRow, Typed
<1>2. u \in User \cup {NoUser}
  BY PlayerFacts DEF Keyed
<1>3. FairRows(db, s)
  BY DEF Fitting
<1>4. Row(db, s, u) \in Counts /\ Fair(Row(db, s, u))
  BY <1>1, <1>2, <1>3 DEF Row, FairRows
<1> QED BY <1>4, CountFacts DEF Level, Fair

\* The levels a correction leaves, whoever it is about.
LEMMA SideGains ==
  ASSUME Typed, Fitting, SeenFair, NewConsole, NEW p \in Request, SaveCounts(p), KnownBy(db, log, match, req[p]),
         NEW s \in Side, NEW c \in Counter, NEW u \in Keyed(s)
  PROVE  Level(db', s, u, c) = Level(db, s, u, c) + Gain(req[p], s, u, c)
<1> DEFINE r == req[p]
<1>1. /\ r.pc = "write" /\ r.side \in Side /\ r.user = NoUser /\ db'.member = db.member
      /\ IsKnock(r) /\ Applied(r) = 0 => db'.entry = db.entry
      /\ ~(IsKnock(r) /\ Applied(r) = 0) => db'.entry[r.side] = After(r)
      /\ \A x \in Side \ {r.side} : db'.entry[x] = db.entry[x]
  BY SideWritten
<1>2. r.seen = db.entry[r.side] /\ Fields(r) /\ Fair(r.seen)
  BY <1>1, RequestFacts DEF KnownBy, SeenFair, At
<1>3. Level(db, s, u, c) \in Int
  BY LevelFacts
<1>4. CASE u # NoUser \/ s # r.side
  <2>1. Row(db', s, u) = Row(db, s, u)
    BY <1>1, <1>4 DEF Row
  <2>2. Gain(r, s, u, c) = 0
    BY <1>1, <1>4 DEF Gain
  <2>3. Level(db', s, u, c) = Level(db, s, u, c)
    BY <2>1 DEF Level
  <2> QED BY <1>3, <2>2, <2>3
<1>5. CASE u = NoUser /\ s = r.side
  <2>1. PICK a, g : a = After(r) /\ g = Applied(r)
    OBVIOUS
  <2>2. /\ a.knocks = r.seen.knocks + (IF IsKnock(r) THEN g ELSE 0)
        /\ Spare(a) = Spare(r.seen) + (IF IsKnock(r) THEN 0 ELSE g)
        /\ g \in Int /\ r.seen.knocks \in Nat /\ Spare(r.seen) \in Int
    BY <1>2, <2>1, CounterAfter
  <2>3. Row(db, s, u) = r.seen /\ Row(db', s, u) = db'.entry[s]
    BY <1>2, <1>5 DEF Row
  <2>4. CASE IsKnock(r) /\ g = 0
    <3>1. db'.entry = db.entry /\ Gain(r, s, u, c) = 0
      BY <1>1, <2>1, <2>4 DEF Gain
    <3>2. Level(db', s, u, c) = Level(db, s, u, c)
      BY <1>1, <3>1 DEF Level, Row
    <3> QED BY <1>3, <3>1, <3>2
  <2>5. CASE ~(IsKnock(r) /\ g = 0)
    <3>1. Row(db', s, u) = a
      BY <1>1, <1>5, <2>1, <2>3, <2>5
    <3>2. Gain(r, s, u, c) = IF (c = "knock" <=> IsKnock(r)) THEN g ELSE 0
      BY <1>5, <2>1 DEF Gain, Touched, Counter
    <3> QED BY <1>3, <2>2, <2>3, <3>1, <3>2 DEF Level
  <2> QED BY <2>4, <2>5
<1> QED BY <1>4, <1>5

LEMMA MemberGains ==
  ASSUME Typed, CountsBy, Fitting, SeenFair, NewConsole, NEW p \in Request, SaveMember(p), KnownBy(db, log, match, req[p]),
         NEW s \in Side, NEW c \in Counter, NEW u \in Keyed(s)
  PROVE  Level(db', s, u, c) = Level(db, s, u, c) + Gain(req[p], s, u, c)
<1> DEFINE r == req[p]
<1>1. /\ r.pc = "write" /\ r.side \in Side /\ r.user \in Roster[r.side] /\ r.user \in User /\ r.user # NoUser
      /\ r.side \in Teams /\ r.seen \in Counts /\ After(r) \in Counts
      /\ r.seen = After(r) => db' = db
      /\ r.seen # After(r) => /\ db'.member[r.side][r.user] = After(r)
                              /\ db'.entry[r.side] = Moved(db.entry[r.side], r.seen, After(r))
      /\ \A x \in Side, y \in User : x # r.side \/ y # r.user => db'.member[x][y] = db.member[x][y]
      /\ \A x \in Side \ {r.side} : db'.entry[x] = db.entry[x]
      /\ db' \in Tables
  BY MemberWritten DEF Teams
<1>2. r.seen = db.member[r.side][r.user] /\ Fields(r) /\ Fair(r.seen) /\ Fair(After(r))
  BY <1>1, RequestFacts, SeenRead DEF KnownBy, SeenFair, At
<1>3. Level(db, s, u, c) \in Int /\ u \in User \cup {NoUser}
  BY LevelFacts, PlayerFacts DEF Keyed
<1>4. PICK a, g, was : a = After(r) /\ g = Applied(r) /\ was = r.seen
  OBVIOUS
<1>5. /\ a.knocks = was.knocks + (IF IsKnock(r) THEN g ELSE 0)
      /\ Spare(a) = Spare(was) + (IF IsKnock(r) THEN 0 ELSE g)
      /\ g \in Int /\ was.knocks \in Nat /\ Spare(was) \in Int
  BY <1>2, <1>4, CounterAfter
<1>6. CASE s # r.side \/ (u # NoUser /\ u # r.user)
  <2>1. Row(db', s, u) = Row(db, s, u)
    BY <1>1, <1>3, <1>6 DEF Row
  <2>2. Gain(r, s, u, c) = 0
    BY <1>6 DEF Gain
  <2>3. Level(db', s, u, c) = Level(db, s, u, c)
    BY <2>1 DEF Level
  <2> QED BY <1>3, <2>2, <2>3
<1>7. CASE was = a
  <2>1. db' = db
    BY <1>1, <1>4, <1>7
  <2>2. g = 0
    BY <1>5, <1>7
  <2>3. Gain(r, s, u, c) = 0
    BY <1>4, <2>2 DEF Gain
  <2> QED BY <1>3, <2>1, <2>3
<1>8. CASE was # a /\ s = r.side /\ (u = NoUser \/ u = r.user)
  <2>1. Gain(r, s, u, c) = IF (c = "knock" <=> IsKnock(r)) THEN g ELSE 0
    BY <1>4, <1>8 DEF Gain, Touched, Counter
  <2>2. CASE u = r.user
    <3>1. Row(db, s, u) = was /\ Row(db', s, u) = a
      BY <1>1, <1>2, <1>4, <1>8, <2>2 DEF Row
    <3> QED BY <1>5, <2>1, <3>1 DEF Level
  <2>3. CASE u = NoUser
    <3>1. PICK d, e, y : d = db /\ e = db' /\ y = r.user
      OBVIOUS
    <3>2. /\ d \in Tables /\ e \in Tables /\ y \in Roster[s] /\ FairRows(d, s) /\ Within(d, s) /\ was \in Counts
          /\ was = d.member[s][y] /\ a \in Counts /\ Fair(a) /\ e.member[s][y] = a /\ e.entry[s] = Moved(d.entry[s], was, a)
          /\ \A z \in User \ {y} : e.member[s][z] = d.member[s][z]
      BY <1>1, <1>2, <1>4, <1>8, <3>1 DEF Fitting, Typed, TablesTyped
    <3>3. /\ e.entry[s].knocks = d.entry[s].knocks + a.knocks - was.knocks
          /\ Spare(e.entry[s]) = Spare(d.entry[s]) + Spare(a) - Spare(was)
      BY <3>2, MoveFits
    <3>4. d.entry[s].knocks \in Nat /\ Spare(d.entry[s]) \in Int
      <4>1. d.entry[s] \in Counts
        BY <3>2, SumsOfPlayers
      <4> QED BY <4>1, CountFacts
    <3>5. Row(d, s, u) = d.entry[s] /\ Row(e, s, u) = e.entry[s]
      BY <2>3 DEF Row
    <3>6. Level(e, s, u, c) = Level(d, s, u, c) + Gain(r, s, u, c)
      BY <1>5, <2>1, <3>3, <3>4, <3>5 DEF Level
    <3> QED BY <3>1, <3>6
  <2> QED BY <1>8, <2>2, <2>3
<1> QED BY <1>6, <1>7, <1>8

-------------------------------------------------------------------------------
(* The log and the tables of one request, step by step.                    *)

Alike(e, f) == /\ e.type = f.type /\ e.side = f.side /\ e.user = f.user /\ e.applied = f.applied /\ e.task = f.task
               /\ e.prev = f.prev /\ e.leg = f.leg
SameRows(b, c) == b \in Seq(LogRow) /\ c \in Seq(LogRow) /\ Len(b) = Len(c) /\ \A i \in 1..Len(b) : Alike(b[i], c[i])

\* The log explains what a step leaves alone.
LEMMA ExplainsStays ==
  ASSUME NEW d, NEW e, NEW b, NEW c, Explains(d, b), SameRows(b, c),
         \A s \in Side, n \in Counter : \A u \in Keyed(s) : Level(e, s, u, n) = Level(d, s, u, n),
         e.done = d.done, e.taken = d.taken
  PROVE  Explains(e, c)
<1>1. Len(b) \in Nat /\ Len(c) = Len(b) /\ \A i \in 1..Len(b) : Alike(b[i], c[i])
  BY DEF SameRows
<1>2. ASSUME NEW s, NEW u, NEW n, NEW k \in 0..Len(b) PROVE Upto(c, k, s, u, n) = Upto(b, k, s, u, n)
  <2>1. k \in Nat /\ k <= Len(b) /\ k <= Len(c) /\ \A i \in 1..k : i \in 1..Len(b)
    BY <1>1
  <2>2. \A i \in 1..k : Amount(c[i], s, u, n) = Amount(b[i], s, u, n)
    BY <1>1, <2>1 DEF Amount, Alike
  <2> QED BY <1>1, <2>1, <2>2, UptoSame
<1>3. Len(b) \in 0..Len(b)
  BY <1>1
<1>4. Balanced(e, c)
  BY <1>1, <1>2, <1>3 DEF Balanced, Explains
<1>5. NeverBelow(c)
  <2>1. SUFFICES ASSUME NEW s \in Side, NEW n \in Counter, NEW u \in Player(s), NEW k \in 0..Len(b)
                 PROVE  Upto(c, k, s, u, n) >= 0
    BY <1>1 DEF NeverBelow
  <2>2. Upto(b, k, s, u, n) >= 0
    BY DEF Explains, NeverBelow
  <2> QED BY <1>2, <2>2, Zenon
<1>6. Contracts(e, c)
  <2>1. \A i \in 1..Len(b) : c[i].leg = b[i].leg /\ c[i].type = b[i].type
    BY <1>1 DEF Alike
  <2> QED BY <1>1, <2>1 DEF Contracts, Explains
<1>7. FirstMarks(e, c)
  <2>1. \A i \in 1..Len(b) : c[i].prev = b[i].prev /\ \A t \in Task : About(c[i], t) <=> About(b[i], t)
    BY <1>1 DEF Alike, About
  <2> QED BY <1>1, <2>1 DEF FirstMarks, Explains
<1> QED BY <1>4, <1>5, <1>6, <1>7 DEF Explains

LEMMA RowsAsideLevels ==
  ASSUME NEW d, NEW e, e.entry = d.entry, e.member = d.member, NEW s, NEW u, NEW c
  PROVE  Level(e, s, u, c) = Level(d, s, u, c)
  BY DEF Level, Row

LEMMA ExplainsAside ==
  ASSUME NEW d, NEW e, NEW b \in Seq(LogRow), Explains(d, b), e.entry = d.entry, e.member = d.member,
         e.done = d.done, e.taken = d.taken
  PROVE  Explains(e, b)
<1>1. SameRows(b, b)
  BY DEF SameRows, Alike
<1> QED BY <1>1, RowsAsideLevels, ExplainsStays

LEMMA AppendLonger ==
  ASSUME NEW l \in Seq(LogRow), NEW e \in LogRow
  PROVE  Longer(l, Append(l, e)) /\ Append(l, e)[Len(Append(l, e))] = e
  BY DEF Longer

LEMMA LastLonger ==
  ASSUME NEW l \in Seq(LogRow), l # <<>>
  PROVE  Longer(SubSeq(l, 1, Len(l) - 1), l)
<1> DEFINE b == SubSeq(l, 1, Len(l) - 1)
<1>1. Len(l) \in Nat /\ Len(l) # 0
  OBVIOUS
<1>2. Len(l) - 1 \in Nat /\ Len(l) - 1 <= Len(l)
  BY <1>1
<1>3. /\ b \in Seq(LogRow) /\ Len(b) = IF 1 <= Len(l) - 1 THEN Len(l) - 1 - 1 + 1 ELSE 0
      /\ \A j \in 1..(Len(l) - 1 - 1 + 1) : b[j] = l[1 + j - 1]
  <2>1. \A i \in 1..(Len(l) - 1) : l[i] \in LogRow
    BY <1>1, ElementOfSeq
  <2> QED BY <1>1, <1>2, <2>1, SubSeqProperties
<1> HIDE DEF b
<1>4. Len(b) = Len(l) - 1
  <2>1. PICK n : n = Len(l)
    OBVIOUS
  <2>2. n \in Nat /\ n # 0 /\ Len(b) = IF 1 <= n - 1 THEN n - 1 - 1 + 1 ELSE 0
    BY <1>1, <1>3, <2>1
  <2>3. Len(b) = n - 1
    BY <2>2
  <2> QED BY <2>1, <2>3
<1>5. \A j \in 1..Len(b) : 1 + j - 1 = j /\ j \in 1..(Len(l) - 1 - 1 + 1)
  BY <1>1, <1>4
<1>6. \A j \in 1..Len(b) : l[j] = b[j]
  BY <1>3, <1>5
<1> QED BY <1>1, <1>3, <1>4, <1>6 DEF Longer, b

\* The log of a request that has nothing to write.
Plain(r) == ~Unwritten(r) /\ ~TakenBack(r)

LEMMA PlainBooks ==
  ASSUME NEW l, NEW r
  PROVE  /\ Plain(r) => Books(l, r) = l
         /\ Unwritten(r) => Books(l, r) = Append(l, r.entry)
         /\ TakenBack(r) => Books(l, r) = SubSeq(l, 1, Len(l) - 1)
         /\ r.pc \notin {"spend", "log", "sum", "reopen", "erase"} => Plain(r)
         /\ r.pc = "sum" /\ (r.tally \/ r.kind \notin Edits) => Plain(r)
  BY DEF Books, Plain, Unwritten, TakenBack

LEMMA SameBooks ==
  ASSUME NEW l, NEW r, NEW n, Unwritten(n) <=> Unwritten(r), TakenBack(n) <=> TakenBack(r), Unwritten(r) => n.entry = r.entry
  PROVE  Books(l, n) = Books(l, r)
  BY DEF Books

\* The state of the one request that is served.
Judged(p)    == Sound /\ Rows /\ OneJudge /\ NewConsole /\ Alone(p)
Accounted(p) == Draft(req[p]) /\ Explains(db, Books(log, req[p]))

LEMMA JudgedFacts ==
  ASSUME NEW p \in Request, Judged(p)
  PROVE  /\ Typed /\ Known /\ CountsBy /\ Locks /\ SeenFair /\ Fitting /\ NewConsole /\ OneJudge
         /\ Fields(req[p]) /\ Carries(req[p]) /\ KnownBy(db, log, match, req[p]) /\ req[p].entry \in LogRow
         /\ log \in Seq(LogRow) /\ Books(log, req[p]) \in Seq(LogRow)
         /\ TakenBack(req[p]) => log # <<>> /\ req[p].entry = log[Len(log)]
         /\ NamesPlayer(req[p].entry) /\ (req[p].pc \in {"read", "write"} => req[p].user \in Player(req[p].side))
         /\ req[p].kind \notin {"entry", "main"} /\ req[p].pc # "put"
<1> DEFINE r == req[p]
<1>1. Typed /\ Known /\ CountsBy /\ Locks /\ SeenFair /\ Fitting /\ NewConsole /\ OneJudge /\ Asked
  BY DEF Judged, Sound, Rows, OneByOne
<1>2. Fields(r) /\ Carries(r) /\ KnownBy(db, log, match, r)
  BY <1>1, RequestFacts DEF Known
<1>3. r.entry \in LogRow /\ log \in Seq(LogRow)
  BY <1>1, <1>2 DEF Fields, Typed, LogTyped
<1>4. TakenBack(r) => log # <<>> /\ r.entry = log[Len(log)]
  BY <1>2 DEF TakenBack, KnownBy, Carries
<1>5. Books(log, r) \in Seq(LogRow)
  <2>1. CASE Plain(r)
    BY <1>3, <2>1, PlainBooks
  <2>2. CASE Unwritten(r)
    <3>1. Append(log, r.entry) \in Seq(LogRow)
      BY <1>3
    <3> QED BY <2>2, <3>1, PlainBooks
  <2>3. CASE TakenBack(r)
    <3>1. Longer(SubSeq(log, 1, Len(log) - 1), log)
      BY <1>3, <1>4, <2>3, LastLonger
    <3> QED BY <2>3, <3>1, PlainBooks DEF Longer
  <2> QED BY <2>1, <2>2, <2>3 DEF Plain
<1>6. NamesPlayer(r.entry) /\ (r.pc \in {"read", "write"} => r.user \in Player(r.side))
  BY <1>1 DEF CountsBy
<1>7. r.kind \notin {"entry", "main"}
  <2>1. CASE r.pc = "idle"
    BY <1>2, <2>1, BlankFacts DEF Carries
  <2>2. CASE r.pc # "idle"
    BY <1>1, <2>2 DEF Asked, At, NewConsole
  <2> QED BY <2>1, <2>2
<1>8. r.pc # "put"
  BY <1>2, <1>7 DEF Carries
<1> QED BY <1>1, <1>2, <1>3, <1>4, <1>5, <1>6, <1>7, <1>8

\* A step that leaves the tables and the books alone.
LEMMA QuietAccounted ==
  ASSUME NEW p \in Request, Judged(p), Accounted(p), Draft(req'[p]), Books(log', req'[p]) = Books(log, req[p]),
         db'.entry = db.entry, db'.member = db.member, db'.done = db.done, db'.taken = db.taken
  PROVE  Accounted(p)'
<1>1. PICK b, d, e : b = Books(log, req[p]) /\ d = db /\ e = db'
  OBVIOUS
<1>2. b \in Seq(LogRow)
  BY <1>1, JudgedFacts
<1>3. Explains(d, b)
  BY <1>1 DEF Accounted
<1>4. e.entry = d.entry /\ e.member = d.member /\ e.done = d.done /\ e.taken = d.taken
  BY <1>1
<1>5. Explains(e, b)
  BY <1>2, <1>3, <1>4, ExplainsAside
<1> QED BY <1>1, <1>5 DEF Accounted

\* A draft that is carried along.
LEMMA DraftGoes ==
  ASSUME NEW r, NEW n, Draft(r), n.entry = r.entry, n.leg = r.leg,
         n.pc \notin {"read", "write", "mark"}, Unwritten(n) => Unwritten(r) \/ r.pc = "mark",
         n.pc \in {"holder", "release", "reopen"} => r.pc \in {"holder", "release", "reopen"}
  PROVE  Draft(n)
  BY DEF Draft

LEMMA BlankDraft == Draft(Blank) /\ Plain(Blank)
<1>1. Blank.pc = "idle"
  BY BlankFacts
<1> QED BY <1>1 DEF Draft, Plain, Unwritten, TakenBack

LEMMA ReadAccounted ==
  ASSUME NEW p \in Request, Judged(p), Accounted(p), ReadCounts(p)
  PROVE  Accounted(p)'
<1> DEFINE r == req[p]
           n == req'[p]
<1>1. r.pc = "read" /\ n.pc = "write" /\ Same(r, n) /\ n.delta = r.delta /\ UNCHANGED <<db, log>>
  BY JudgedFacts, CountsRead DEF ReadsCounts
<1>2. Draft(n)
  BY <1>1 DEF Accounted, Draft, Same, Unwritten
<1>3. Books(log, n) = log /\ Books(log, r) = log
  BY <1>1, PlainBooks
<1> QED BY <1>1, <1>2, <1>3, QuietAccounted

LEMMA LookAccounted ==
  ASSUME NEW p \in Request, Judged(p), Accounted(p), LookAtTask(p)
  PROVE  Accounted(p)'
<1> DEFINE r == req[p]
           n == req'[p]
           e == [NoLog EXCEPT !.type = "task", !.task = r.task, !.side = Marked(r).by, !.prev = db.done[r.task]]
<1>1. r.pc = "look" /\ UNCHANGED <<db, log>> /\ (n = Blank \/ (n.pc = "mark" /\ n.entry.type = "task"))
  BY JudgedFacts, TaskLookedAt DEF LooksAtTask
<1>2. n # Blank => n.entry.leg = NoLegendary
  <2>1. req' = [req EXCEPT ![p] = IF MayMark(r, e.prev) THEN [r EXCEPT !.pc = "mark", !.entry = e] ELSE Blank]
    BY DEF LookAtTask, Serve
  <2>2. req = [q \in Request |-> req[q]] /\ Fields(r)
    BY JudgedFacts DEF Typed, ReqTyped
  <2>3. e.leg = NoLegendary
    BY DEF NoLog
  <2> HIDE DEF e
  <2>4. n = IF MayMark(r, e.prev) THEN [r EXCEPT !.pc = "mark", !.entry = e] ELSE Blank
    BY <2>1, <2>2
  <2>5. [r EXCEPT !.pc = "mark", !.entry = e].entry = e
    BY <2>2 DEF Fields
  <2> QED BY <2>3, <2>4, <2>5
<1>3. CASE n = Blank
  BY <1>1, <1>3, BlankDraft, PlainBooks, QuietAccounted
<1>4. CASE n # Blank
  <2>1. n.pc = "mark" /\ n.entry.type = "task" /\ n.entry.leg \notin Legendary
    BY <1>1, <1>2, <1>4, ScoreAssumption
  <2>2. Draft(n)
    BY <2>1 DEF Draft
  <2>3. Books(log, n) = log /\ Books(log, r) = log
    BY <1>1, <2>1, PlainBooks
  <2> QED BY <1>1, <2>2, <2>3, QuietAccounted
<1> QED BY <1>3, <1>4

\* A request that goes on with its sums.
LEMMA AddedBooks ==
  ASSUME NEW l, NEW r, Fields(r), Carries(r), r.pc = "sum", Draft(r), r.kind \notin {"entry", "main"}
  PROVE  Books(l, Added(r)) = Books(l, r) /\ Draft(Added(r))
<1> DEFINE n == Added(r)
<1>1. /\ r.tally => n.pc \in {"close", "prior"} /\ Same(r, n)
      /\ ~r.tally /\ r.kind = "undo" /\ ~r.fin => n = Blank
      /\ ~r.tally /\ r.kind = "undo" /\ r.fin => n.pc = "sum" /\ n.entry = r.entry /\ n.tally
      /\ ~r.tally /\ r.kind \in Edits => n.pc = "log" /\ Same(r, n)
      /\ r.tally \/ r.kind \in {"undo"} \cup Edits
  BY AddedFacts
<1>2. CASE r.tally
  <2>1. n.pc \in {"close", "prior"}
    BY <1>1, <1>2
  <2>2. Books(l, n) = l /\ Books(l, r) = l
    BY <1>2, <2>1, PlainBooks
  <2> QED BY <2>1, <2>2 DEF Draft, Unwritten
<1>3. CASE ~r.tally /\ r.kind = "undo"
  <2>1. Books(l, r) = l
    BY <1>3, PlainBooks DEF Edits
  <2>2. n = Blank \/ (n.pc = "sum" /\ n.tally)
    BY <1>1, <1>3
  <2>3. Plain(n) /\ Draft(n)
    BY <2>2, BlankDraft, PlainBooks DEF Draft, Plain
  <2> QED BY <2>1, <2>3, PlainBooks
<1>4. CASE ~r.tally /\ r.kind \in Edits
  <2>1. n.pc = "log" /\ n.kind = r.kind /\ n.entry = r.entry /\ n.leg = r.leg
    BY <1>1, <1>4 DEF Same
  <2>2. Unwritten(r) /\ Unwritten(n)
    BY <1>4, <2>1 DEF Unwritten
  <2>3. Draft(n)
    BY <2>1, <2>2, DraftGoes
  <2> QED BY <2>1, <2>2, <2>3, PlainBooks
<1> QED BY <1>1, <1>2, <1>3, <1>4

LEMMA SumBooks ==
  ASSUME NEW l, NEW r, NEW n, r.pc = "sum", n.pc = "sum", Same(r, n), Draft(r)
  PROVE  Books(l, n) = Books(l, r) /\ Draft(n)
<1>1. n.kind = r.kind /\ (n.tally <=> r.tally) /\ n.entry = r.entry /\ n.leg = r.leg
  BY DEF Same
<1>2. (Unwritten(n) <=> Unwritten(r)) /\ (TakenBack(n) <=> TakenBack(r))
  BY <1>1 DEF Unwritten, TakenBack
<1> QED BY <1>1, <1>2, SameBooks, DraftGoes

LEMMA SumAccounted ==
  ASSUME NEW p \in Request, Judged(p), Accounted(p), ReadSource(p) \/ SaveTotal(p) \/ NothingToAdd(p)
  PROVE  Accounted(p)'
<1> DEFINE r == req[p]
           n == req'[p]
<1>1. Typed /\ Fields(r) /\ Carries(r) /\ r.kind \notin {"entry", "main"} /\ Draft(r)
  BY JudgedFacts DEF Accounted
<1>2. UNCHANGED <<db, log>> /\ r.pc = "sum"
  BY <1>1, SourceRead, TotalSaved, NothingAdded DEF ReadsSource, SavesTotal, AddsNothing
<1>3. Books(log, n) = Books(log, r) /\ Draft(n)
  <2>1. CASE ReadSource(p)
    <3>1. n.pc = "sum" /\ Same(r, n)
      BY <1>1, <2>1, SourceRead DEF ReadsSource
    <3> QED BY <1>1, <1>2, <3>1, SumBooks
  <2>2. CASE SaveTotal(p)
    <3>1. PICK m : /\ m.pc = "sum" /\ Same(r, m) /\ Fields(m) /\ Carries(m)
                   /\ m.todo = <<>> => n = Added(m)
                   /\ m.todo # <<>> => n = m
      BY <1>1, <2>2, TotalSaved DEF SavesTotal
    <3>2. Books(log, m) = Books(log, r) /\ Draft(m)
      BY <1>1, <1>2, <3>1, SumBooks
    <3>3. m.kind \notin {"entry", "main"}
      BY <1>1, <3>1 DEF Same
    <3>4. Books(log, Added(m)) = Books(log, m) /\ Draft(Added(m))
      BY <3>1, <3>2, <3>3, AddedBooks
    <3> QED BY <3>1, <3>2, <3>4
  <2>3. CASE NothingToAdd(p)
    <3>1. n = Added(r)
      BY <1>1, <2>3, NothingAdded DEF AddsNothing
    <3> QED BY <1>1, <1>2, <3>1, AddedBooks
  <2> QED BY <2>1, <2>2, <2>3
<1> QED BY <1>2, <1>3, QuietAccounted

\* The outcome, and the statements of an undo that change no mark and no contract.
LEMMA OutcomeAccounted ==
  ASSUME NEW p \in Request, Judged(p), Accounted(p),
         CloseRounds(p) \/ FinishTournament(p) \/ ReadWinner(p) \/ Recrown(p) \/ Rate(p)
  PROVE  Accounted(p)'
<1> DEFINE r == req[p]
           n == req'[p]
<1>1. /\ r.pc \in {"close", "prior", "crown", "rate"} /\ UNCHANGED <<db, log>>
      /\ n.pc \in {"crown", "rate"} \/ n = Blank
  BY JudgedFacts, RoundsClosed, Finished, WinnerRead, Recrowned, Rated
     DEF ClosesRounds, Finishes, ReadsWinner, Recrowns, Rates
<1>2. Draft(n)
  BY <1>1, BlankDraft DEF Draft, Unwritten
<1>3. Books(log, n) = log /\ Books(log, r) = log
  BY <1>1, BlankDraft, PlainBooks
<1> QED BY <1>1, <1>2, <1>3, QuietAccounted

LEMMA TakeAccounted ==
  ASSUME NEW p \in Request, Judged(p), Accounted(p), TakeLast(p)
  PROVE  Accounted(p)'
<1> DEFINE r == req[p]
           n == req'[p]
<1>1. /\ r.pc = "take" /\ UNCHANGED <<db, log>>
      /\ \/ n = Blank
         \/ /\ log # <<>> /\ Len(log) \in 1..Len(log) /\ n.entry = log[Len(log)] /\ n.kind = "undo"
            /\ n.pc \in {"read", "restore", "holder"} /\ (n.pc = "restore" <=> n.entry.type = "task")
            /\ (n.pc = "holder" <=> n.entry.type = "legendary") /\ n.side = n.entry.side /\ n.user = n.entry.user
            /\ n.leg = n.entry.leg /\ n.delta = -n.entry.applied
  BY JudgedFacts, LastTaken DEF TakesLast
<1>2. CASE n = Blank
  BY <1>1, <1>2, BlankDraft, PlainBooks, QuietAccounted
<1>3. CASE n # Blank
  <2>1. n.entry.type \in Types
    BY <1>1, <1>3, JudgedFacts DEF Typed, LogTyped, Says
  <2>2. Draft(n)
    BY <1>1, <1>3, <2>1 DEF Draft, Unwritten, Edits, Types, Counter
  <2>3. Books(log, n) = log /\ Books(log, r) = log
    BY <1>1, <1>3, PlainBooks
  <2> QED BY <1>1, <2>2, <2>3, QuietAccounted
<1> QED BY <1>2, <1>3

LEMMA HolderAccounted ==
  ASSUME NEW p \in Request, Judged(p), Accounted(p), ReadHolder(p)
  PROVE  Accounted(p)'
<1> DEFINE r == req[p]
           n == req'[p]
<1>1. r.pc = "holder" /\ n.pc = "release" /\ Same(r, n) /\ UNCHANGED <<db, log>>
  BY JudgedFacts, HolderRead DEF ReadsHolder
<1>2. n.entry = r.entry /\ n.leg = r.leg
  BY <1>1 DEF Same
<1>3. Draft(n)
  BY <1>1, <1>2, DraftGoes DEF Accounted, Unwritten
<1>4. Books(log, n) = log /\ Books(log, r) = log
  BY <1>1, PlainBooks
<1> QED BY <1>1, <1>3, <1>4, QuietAccounted

LEMMA AvailableAccounted ==
  ASSUME NEW p \in Request, Judged(p), Accounted(p), MarkAvailable(p) \/ MarkSpent(p)
  PROVE  Accounted(p)'
<1> DEFINE r == req[p]
           n == req'[p]
<1>1. /\ UNCHANGED log /\ db'.entry = db.entry /\ db'.done = db.done /\ db'.taken = db.taken /\ Same(r, n)
      /\ (r.pc = "reopen" /\ n.pc = "erase" /\ r.kind = "undo")
         \/ (r.pc = "spend" /\ n.pc = "sum" /\ ~r.tally /\ r.kind = "legendary")
  BY JudgedFacts, MarkedAvailable, ContractSpent DEF MarksAvailable, SpendsContract
<1>2. db'.member = db.member
  <2>1. Proceeds(p) /\ ~SaveCounts(p) /\ ~SaveMember(p) /\ ~PutEntry(p)
    BY <1>1 DEF Proceeds, SaveCounts, SaveMember, PutEntry, At
  <2> QED BY <2>1, JudgedFacts, TablesAside DEF Aside
<1>3. n.entry = r.entry /\ n.leg = r.leg /\ n.kind = r.kind /\ (n.tally <=> r.tally)
  BY <1>1 DEF Same
<1>4. (Unwritten(n) <=> Unwritten(r)) /\ (TakenBack(n) <=> TakenBack(r))
  BY <1>1, <1>3 DEF Unwritten, TakenBack, Edits
<1>5. Books(log, n) = Books(log, r)
  BY <1>3, <1>4, SameBooks
<1>6. Draft(n)
  BY <1>1, <1>3, <1>4, DraftGoes DEF Accounted
<1> QED BY <1>1, <1>2, <1>5, <1>6, QuietAccounted

\* A step that is still to be written down.
LEMMA Grown ==
  ASSUME NEW p \in Request, Judged(p), Accounted(p), Plain(req[p]), UNCHANGED log, Unwritten(req'[p]), NEW x \in LogRow,
         req'[p].entry = x,
         \A s \in Side, n \in Counter : \A u \in Keyed(s) :
           Level(db', s, u, n) = Level(db, s, u, n) + Amount(x, s, u, n) /\ Level(db', s, u, n) >= 0,
         x.leg \in Legendary <=> x.type = "legendary",
         x.type = "legendary" => db.taken[x.leg] = NoSide /\ db'.taken[x.leg] # NoSide,
         \A l \in Legendary : x.type # "legendary" \/ l # x.leg => db'.taken[l] = db.taken[l],
         x.type = "task" => x.prev.by = db.done[x.task].by,
         \A t \in Task : ~About(x, t) => db'.done[t] = db.done[t]
  PROVE  Explains(db', Books(log', req'[p]))
<1>1. PICK b, c, d, e : b = log /\ c = Append(log, x) /\ d = db /\ e = db'
  OBVIOUS
<1>2. log \in Seq(LogRow) /\ Explains(d, b)
  <2>1. Books(log, req[p]) = log
    BY PlainBooks
  <2> QED BY <1>1, <2>1, JudgedFacts DEF Accounted
<1>3. Longer(b, c) /\ c[Len(c)] = x
  BY <1>1, <1>2, AppendLonger
<1>4. Balanced(e, c) /\ NeverBelow(c)
  <2>1. Balanced(d, b) /\ NeverBelow(b)
    BY <1>2 DEF Explains
  <2>2. \A s \in Side, n \in Counter : \A u \in Keyed(s) :
          Level(e, s, u, n) = Level(d, s, u, n) + Amount(c[Len(c)], s, u, n) /\ Level(e, s, u, n) >= 0
    BY <1>1, <1>3
  <2> QED BY <1>3, <2>1, <2>2, CountersGrow
<1>5. Contracts(e, c)
  <2>1. Contracts(d, b)
    BY <1>2 DEF Explains
  <2>2. PICK y : y = c[Len(c)]
    OBVIOUS
  <2>3. /\ y.leg \in Legendary <=> y.type = "legendary"
        /\ y.type = "legendary" => d.taken[y.leg] = NoSide /\ e.taken[y.leg] # NoSide
        /\ \A l \in Legendary : y.type # "legendary" \/ l # y.leg => e.taken[l] = d.taken[l]
    BY <1>1, <1>3, <2>2
  <2> QED BY <1>3, <2>1, <2>2, <2>3, ContractsGrow
<1>6. FirstMarks(e, c)
  <2>1. FirstMarks(d, b)
    BY <1>2 DEF Explains
  <2>2. PICK y : y = c[Len(c)]
    OBVIOUS
  <2>3. /\ y.type = "task" => y.prev.by = d.done[y.task].by
        /\ \A t \in Task : ~About(y, t) => e.done[t] = d.done[t]
    BY <1>1, <1>3, <2>2
  <2> QED BY <1>3, <2>1, <2>2, <2>3, MarksGrow
<1>7. Books(log', req'[p]) = c
  BY <1>1, PlainBooks
<1> QED BY <1>1, <1>4, <1>5, <1>6, <1>7 DEF Explains

\* A step that takes back the last row, which is still there.
LEMMA Dropped ==
  ASSUME NEW p \in Request, Judged(p), Accounted(p), Plain(req[p]), UNCHANGED log, TakenBack(req'[p]), NEW x,
         log # <<>>, x = log[Len(log)],
         \A s \in Side, n \in Counter : \A u \in Keyed(s) : Level(db', s, u, n) = Level(db, s, u, n) - Amount(x, s, u, n),
         x.type = "legendary" => db'.taken[x.leg] = NoSide,
         \A l \in Legendary : x.type # "legendary" \/ l # x.leg => db'.taken[l] = db.taken[l],
         x.type = "task" => db'.done[x.task].by = x.prev.by,
         \A t \in Task : ~About(x, t) => db'.done[t] = db.done[t]
  PROVE  Explains(db', Books(log', req'[p]))
<1>1. PICK b, c, d, e : b = SubSeq(log, 1, Len(log) - 1) /\ c = log /\ d = db /\ e = db'
  OBVIOUS
<1>2. log \in Seq(LogRow) /\ Explains(d, c)
  <2>1. Books(log, req[p]) = log
    BY PlainBooks
  <2> QED BY <1>1, <2>1, JudgedFacts DEF Accounted
<1>3. Longer(b, c) /\ c[Len(c)] = x
  BY <1>1, <1>2, LastLonger
<1>4. Balanced(e, b) /\ NeverBelow(b)
  <2>1. Balanced(d, c) /\ NeverBelow(c)
    BY <1>2 DEF Explains
  <2>2. \A s \in Side, n \in Counter : \A u \in Keyed(s) : Level(e, s, u, n) = Level(d, s, u, n) - Amount(c[Len(c)], s, u, n)
    BY <1>1, <1>3
  <2> QED BY <1>3, <2>1, <2>2, CountersDrop
<1>5. Contracts(e, b)
  <2>1. Contracts(d, c)
    BY <1>2 DEF Explains
  <2> QED BY <1>1, <1>3, <2>1, ContractsDrop
<1>6. FirstMarks(e, b)
  <2>1. FirstMarks(d, c)
    BY <1>2 DEF Explains
  <2> QED BY <1>1, <1>3, <2>1, MarksDrop
<1>7. Books(log', req'[p]) = b
  BY <1>1, PlainBooks
<1> QED BY <1>1, <1>4, <1>5, <1>6, <1>7 DEF Explains

\* Rows of tasks and contracts are nothing to the counters.
LEMMA NoAmount ==
  ASSUME NEW p \in Request, Judged(p), db'.entry = db.entry, db'.member = db.member, NEW x, x.type \notin Counter,
         NEW s \in Side, NEW n \in Counter, NEW u \in Keyed(s)
  PROVE  /\ Level(db', s, u, n) = Level(db, s, u, n) + Amount(x, s, u, n) /\ Level(db', s, u, n) >= 0
         /\ Level(db', s, u, n) = Level(db, s, u, n) - Amount(x, s, u, n)
<1>1. Amount(x, s, u, n) = 0
  BY DEF Amount
<1>2. Level(db, s, u, n) \in Int /\ Level(db, s, u, n) >= 0
  BY JudgedFacts, LevelFacts
<1>3. Level(db', s, u, n) = Level(db, s, u, n)
  BY RowsAsideLevels
<1> QED BY <1>1, <1>2, <1>3

LEMMA MarkAccounted ==
  ASSUME NEW p \in Request, Judged(p), Accounted(p), WriteMark(p)
  PROVE  Accounted(p)'
<1> DEFINE r == req[p]
           n == req'[p]
           x == req[p].entry
<1>1. /\ r.pc = "mark" /\ r.kind = "task" /\ ~r.tally /\ r.task \in Task /\ n.pc = "sum" /\ Same(r, n) /\ UNCHANGED log
      /\ db'.entry = db.entry /\ db'.taken = db.taken /\ \A t \in Task \ {r.task} : db'.done[t] = db.done[t]
  BY JudgedFacts, MarkWritten DEF WritesMark
<1>2. db'.member = db.member
  <2>1. Proceeds(p) /\ ~SaveCounts(p) /\ ~SaveMember(p) /\ ~PutEntry(p)
    BY <1>1 DEF Proceeds, SaveCounts, SaveMember, PutEntry, At
  <2> QED BY <2>1, JudgedFacts, TablesAside DEF Aside
<1>3. n.entry = x /\ n.leg = r.leg /\ n.kind = r.kind /\ (n.tally <=> r.tally)
  BY <1>1 DEF Same
<1>4. Unwritten(n) /\ Plain(r)
  BY <1>1, <1>3, PlainBooks DEF Unwritten, Edits
<1>5. Draft(n)
  BY <1>1, <1>3, DraftGoes DEF Accounted
<1>6. /\ x.type = "task" /\ x.task = r.task /\ x.prev = db.done[r.task] /\ x \in LogRow
      /\ x.leg \notin Legendary
  BY <1>1, JudgedFacts DEF Carries, KnownBy, Accounted, Draft
<1>7. \A t \in Task : ~About(x, t) => db'.done[t] = db.done[t]
  BY <1>1, <1>6 DEF About
<1>8. x.type \notin Counter
  BY <1>6 DEF Counter
<1>9. \A s \in Side, c \in Counter : \A u \in Keyed(s) :
        Level(db', s, u, c) = Level(db, s, u, c) + Amount(x, s, u, c) /\ Level(db', s, u, c) >= 0
  BY <1>1, <1>2, <1>8, NoAmount
<1> HIDE DEF x
<1>10. Explains(db', Books(log', n))
  BY <1>1, <1>3, <1>4, <1>6, <1>7, <1>9, Grown
<1> QED BY <1>5, <1>10 DEF Accounted

LEMMA CompleteAccounted ==
  ASSUME NEW p \in Request, Judged(p), Accounted(p), InsertCompletion(p)
  PROVE  Accounted(p)'
<1> DEFINE r == req[p]
           n == req'[p]
           x == req'[p].entry
<1>1. /\ r.pc = "complete" /\ r.leg \in Legendary /\ r.side \in Side /\ UNCHANGED log
      /\ \/ n = Blank /\ UNCHANGED db
         \/ /\ db.taken[r.leg] = NoSide /\ db'.entry = db.entry /\ db'.done = db.done
            /\ db'.taken[r.leg] = r.side /\ \A l \in Legendary \ {r.leg} : db'.taken[l] = db.taken[l]
            /\ n.pc = "spend" /\ n.kind = "legendary" /\ x.type = "legendary" /\ x.leg = r.leg
  BY JudgedFacts, ContractCompleted DEF CompletesContract
<1>2. CASE n = Blank
  BY <1>1, <1>2, BlankFacts, BlankDraft, PlainBooks, QuietAccounted
<1>3. CASE n # Blank
  <2>1. db'.member = db.member
    <3>1. Proceeds(p) /\ ~SaveCounts(p) /\ ~SaveMember(p) /\ ~PutEntry(p)
      BY <1>1 DEF Proceeds, SaveCounts, SaveMember, PutEntry, At
    <3> QED BY <3>1, JudgedFacts, TablesAside DEF Aside
  <2>2. Unwritten(n) /\ Plain(r)
    BY <1>1, <1>3, PlainBooks DEF Unwritten, Edits
  <2>3. Draft(n)
    BY <1>1, <1>3 DEF Draft
  <2>4. x \in LogRow
    <3>1. Typed'
      BY JudgedFacts, ContractCompleted DEF Steps
    <3> QED BY <3>1 DEF Typed, ReqTyped, Fields
  <2>5. db'.taken[r.leg] # NoSide
    BY <1>1, <1>3, ScoreAssumption
  <2>6. x.type \notin Counter /\ \A t \in Task : ~About(x, t)
    BY <1>1, <1>3 DEF Counter, About
  <2>7. \A s \in Side, c \in Counter : \A u \in Keyed(s) :
          Level(db', s, u, c) = Level(db, s, u, c) + Amount(x, s, u, c) /\ Level(db', s, u, c) >= 0
    BY <1>1, <1>3, <2>1, <2>6, NoAmount
  <2>8. /\ x.leg = r.leg /\ x.type = "legendary" /\ db.taken[r.leg] = NoSide /\ db'.done = db.done
        /\ \A l \in Legendary : x.type # "legendary" \/ l # x.leg => db'.taken[l] = db.taken[l]
    BY <1>1, <1>3
  <2>9. Explains(db', Books(log', n))
    <3>1. PICK y : y = x
      OBVIOUS
    <3> HIDE DEF x
    <3> QED BY <1>1, <2>2, <2>4, <2>5, <2>6, <2>7, <2>8, <3>1, Grown DEF x
  <2> QED BY <2>3, <2>9 DEF Accounted
<1> QED BY <1>2, <1>3

LEMMA RestoreAccounted ==
  ASSUME NEW p \in Request, Judged(p), Accounted(p), RestoreMark(p)
  PROVE  Accounted(p)'
<1> DEFINE r == req[p]
           n == req'[p]
           x == req[p].entry
<1>1. /\ r.pc = "restore" /\ r.kind = "undo" /\ r.task \in Task /\ x.task = r.task /\ x.type = "task" /\ UNCHANGED log
      /\ db'.entry = db.entry /\ db'.taken = db.taken /\ n.pc = "erase" /\ Same(r, n)
      /\ db'.done[r.task] = x.prev /\ \A t \in Task \ {r.task} : db'.done[t] = db.done[t]
  BY JudgedFacts, Restored DEF Restores
<1>2. db'.member = db.member
  <2>1. Proceeds(p) /\ ~SaveCounts(p) /\ ~SaveMember(p) /\ ~PutEntry(p)
    BY <1>1 DEF Proceeds, SaveCounts, SaveMember, PutEntry, At
  <2> QED BY <2>1, JudgedFacts, TablesAside DEF Aside
<1>3. n.entry = x /\ n.leg = r.leg /\ TakenBack(n) /\ Plain(r)
  BY <1>1, PlainBooks DEF Same, TakenBack
<1>4. Draft(n)
  BY <1>1 DEF Draft, Unwritten
<1>5. log # <<>> /\ x = log[Len(log)]
  BY <1>1, JudgedFacts DEF KnownBy
<1>6. x.type \notin Counter /\ \A t \in Task : ~About(x, t) => db'.done[t] = db.done[t]
  BY <1>1 DEF Counter, About
<1>7. \A s \in Side, c \in Counter : \A u \in Keyed(s) : Level(db', s, u, c) = Level(db, s, u, c) - Amount(x, s, u, c)
  BY <1>1, <1>2, <1>6, NoAmount
<1> HIDE DEF x
<1>8. Explains(db', Books(log', n))
  BY <1>1, <1>3, <1>5, <1>6, <1>7, Dropped
<1> QED BY <1>4, <1>8 DEF Accounted

LEMMA DeleteAccounted ==
  ASSUME NEW p \in Request, Judged(p), Accounted(p), DeleteCompletion(p)
  PROVE  Accounted(p)'
<1> DEFINE r == req[p]
           n == req'[p]
           x == req[p].entry
<1>1. /\ r.pc = "release" /\ r.kind = "undo" /\ r.leg \in Legendary /\ n.pc = "reopen" /\ Same(r, n) /\ UNCHANGED log
      /\ db'.entry = db.entry /\ db'.done = db.done
      /\ db'.taken[r.leg] = NoSide /\ (\A l \in Legendary \ {r.leg} : db'.taken[l] = db.taken[l])
  BY JudgedFacts, CompletionDeleted DEF DeletesCompletion
<1>2. db'.member = db.member
  <2>1. Proceeds(p) /\ ~SaveCounts(p) /\ ~SaveMember(p) /\ ~PutEntry(p)
    BY <1>1 DEF Proceeds, SaveCounts, SaveMember, PutEntry, At
  <2> QED BY <2>1, JudgedFacts, TablesAside DEF Aside
<1>3. n.entry = x /\ n.leg = r.leg /\ TakenBack(n) /\ Plain(r)
  BY <1>1, PlainBooks DEF Same, TakenBack
<1>4. Draft(n)
  BY <1>1, <1>3, DraftGoes DEF Accounted, Unwritten
<1>5. log # <<>> /\ x = log[Len(log)] /\ x.leg = r.leg
  BY <1>1, JudgedFacts DEF KnownBy, Accounted, Draft
<1>6. x.type = "legendary"
  <2>1. Contracts(db, log)
    BY <1>3, PlainBooks DEF Accounted, Explains
  <2>2. Len(log) \in 1..Len(log)
    BY <1>5, JudgedFacts
  <2> QED BY <1>1, <1>5, <2>1, <2>2 DEF Contracts
<1>7. x.type \notin Counter /\ \A t \in Task : ~About(x, t)
  BY <1>6 DEF Counter, About
<1>8. \A s \in Side, c \in Counter : \A u \in Keyed(s) : Level(db', s, u, c) = Level(db, s, u, c) - Amount(x, s, u, c)
  BY <1>1, <1>2, <1>7, NoAmount
<1> HIDE DEF x
<1>9. Explains(db', Books(log', n))
  BY <1>1, <1>3, <1>5, <1>6, <1>7, <1>8, Dropped
<1> QED BY <1>4, <1>9 DEF Accounted

\* What a correction leaves of a counter.
LEMMA LevelAt ==
  ASSUME NEW d \in Tables, NEW s \in Side, FairRows(d, s), NEW c \in Counter, NEW u \in Keyed(s)
  PROVE  Level(d, s, u, c) \in Int /\ Level(d, s, u, c) >= 0
<1>1. d.entry[s] \in Counts /\ \A y \in User : d.member[s][y] \in Counts
  BY SumsOfPlayers
<1>2. u \in User \cup {NoUser}
  BY PlayerFacts DEF Keyed
<1>3. Row(d, s, u) \in Counts /\ Fair(Row(d, s, u))
  BY <1>1, <1>2 DEF Row, FairRows
<1> QED BY <1>3, CountFacts DEF Level, Fair

LEMMA SaveGains ==
  ASSUME NEW p \in Request, Judged(p), SaveCounts(p) \/ SaveMember(p), NEW s \in Side, NEW c \in Counter, NEW u \in Keyed(s)
  PROVE  /\ Level(db', s, u, c) = Level(db, s, u, c) + Gain(req[p], s, u, c)
         /\ Level(db, s, u, c) \in Int /\ Level(db', s, u, c) >= 0
<1>1. Level(db', s, u, c) = Level(db, s, u, c) + Gain(req[p], s, u, c)
  BY JudgedFacts, SideGains, MemberGains
<1>2. Level(db, s, u, c) \in Int
  BY JudgedFacts, LevelFacts
<1>3. Level(db', s, u, c) >= 0
  <2>1. Proceeds(p)
    BY DEF Proceeds
  <2>2. Typed' /\ Rows' /\ UNCHANGED load
    BY <2>1, RowsProceed, ProceedsTyped DEF Judged, Sound, Steps
  <2>3. db' \in Tables
    BY <2>2 DEF Typed, TablesTyped
  <2>4. NewConsole'
    BY <2>2 DEF Judged, NewConsole
  <2>5. FairRows(db', s)
    BY <2>2, <2>4 DEF Rows, Fitting
  <2> QED BY <2>3, <2>5, LevelAt
<1> QED BY <1>1, <1>2, <1>3

LEMMA ScoredLeg ==
  ASSUME NEW r, Fields(r), r.kind # "undo", Applied(r) # 0
  PROVE  Scored(r).entry.leg = NoLegendary
<1> DEFINE e == [NoLog EXCEPT !.type = r.kind, !.side = r.side, !.user = r.user, !.applied = Applied(r)]
           m == [r EXCEPT !.todo = <<r.side>>, !.held = FALSE]
           n == [m EXCEPT !.pc = "sum", !.entry = e]
<1>1. Scored(r) = n
  BY DEF Scored
<1>2. e.leg = NoLegendary
  BY DEF NoLog
<1> HIDE DEF e
<1>3. n.entry = e
  BY DEF Fields
<1> QED BY <1>1, <1>2, <1>3, Zenon

\* An undo takes back what was applied, in full: the counter had it.
LEMMA UndoneInFull ==
  ASSUME NEW p \in Request, Judged(p), Accounted(p), At(p, "write"), req[p].kind = "undo",
         NEW s \in Side, NEW c \in Counter, NEW u \in Keyed(s)
  PROVE  Gain(req[p], s, u, c) = 0 - Amount(req[p].entry, s, u, c)
<1> DEFINE r == req[p]
           x == req[p].entry
           t == req[p].entry.type
<1>1. /\ x.type \in Counter /\ r.side = x.side /\ r.user = x.user /\ r.delta = -x.applied /\ r.side \in Side
      /\ Fields(r) /\ Fair(r.seen) /\ x \in LogRow /\ log \in Seq(LogRow) /\ log # <<>> /\ x = log[Len(log)]
      /\ r.user \in Player(r.side) /\ r.seen = Row(db, r.side, r.user)
  BY JudgedFacts DEF Accounted, Draft, At, SeenFair, KnownBy, Row, Carries
<1>2. x.applied \in Int
  BY <1>1 DEF LogRow
<1>3. IsKnock(r) <=> t = "knock"
  BY DEF IsKnock
<1>4. Level(db, r.side, r.user, t) - x.applied >= 0 /\ Level(db, r.side, r.user, t) \in Int
  <2>1. PICK l, m : l = log /\ m = Len(log)
    OBVIOUS
  <2>2. Longer(SubSeq(l, 1, m - 1), l)
    BY <1>1, <2>1, LastLonger
  <2>3. Balanced(db, l) /\ NeverBelow(l)
    <3>1. Books(log, r) = log
      BY PlainBooks DEF At
    <3> QED BY <2>1, <3>1 DEF Accounted, Explains
  <2>4. m \in 0..m /\ m # 0 /\ m - 1 \in 0..m /\ m = Len(l) /\ l \in Seq(LogRow)
    BY <1>1, <2>1
  <2>5. /\ Upto(l, m, r.side, r.user, t) = Upto(l, m - 1, r.side, r.user, t) + Amount(x, r.side, r.user, t)
        /\ Upto(l, m, r.side, r.user, t) \in Int
    BY <1>1, <2>1, <2>4, UptoFacts
  <2>6. Upto(l, m - 1, r.side, r.user, t) \in Int /\ Upto(l, m - 1, r.side, r.user, t) >= 0
    BY <1>1, <2>3, <2>4, UptoFacts DEF NeverBelow
  <2>7. Level(db, r.side, r.user, t) = Upto(l, m, r.side, r.user, t)
    BY <1>1, <2>3, <2>4 DEF Balanced, Keyed
  <2>8. Amount(x, r.side, r.user, t) = x.applied
    BY <1>1 DEF Amount
  <2>9. PICK a, b, v : a = Upto(l, m, r.side, r.user, t) /\ b = Upto(l, m - 1, r.side, r.user, t) /\ v = x.applied
    OBVIOUS
  <2>10. a = b + v /\ a \in Int /\ b \in Int /\ b >= 0 /\ v \in Int
    BY <1>2, <2>5, <2>6, <2>8, <2>9
  <2>11. a - v >= 0
    BY <2>10
  <2> QED BY <2>7, <2>9, <2>10, <2>11
<1>5. Applied(r) = -x.applied
  <2>1. Level(db, r.side, r.user, t) = IF t = "knock" THEN r.seen.knocks ELSE Spare(r.seen)
    BY <1>1 DEF Level
  <2>2. IsKnock(r) => r.seen.knocks - x.applied >= 0
    BY <1>3, <1>4, <2>1
  <2>3. ~IsKnock(r) => Spare(r.seen) - x.applied >= 0
    BY <1>3, <1>4, <2>1
  <2>4. PICK a, q : a = x.applied /\ q = r
    OBVIOUS
  <2>5. /\ Fields(q) /\ Fair(q.seen) /\ a \in Int /\ q.delta = -a
        /\ (IsKnock(q) => q.seen.knocks - a >= 0) /\ (~IsKnock(q) => Spare(q.seen) - a >= 0)
    BY <1>1, <1>2, <2>2, <2>3, <2>4
  <2>6. Applied(q) = -a
    BY <2>5, TakesInFull
  <2> QED BY <2>4, <2>6
<1>6. Touched(r) = t
  BY <1>1, <1>3 DEF Touched, Counter
<1>7. CASE c = t /\ s = r.side /\ (u = NoUser \/ u = r.user)
  <2>1. Gain(r, s, u, c) = Applied(r) /\ Amount(x, s, u, c) = x.applied
    BY <1>1, <1>6, <1>7 DEF Gain, Amount
  <2>2. PICK g, v : g = Applied(r) /\ v = x.applied
    OBVIOUS
  <2>3. g = 0 - v
    BY <1>2, <1>5, <2>2
  <2> QED BY <2>1, <2>2, <2>3
<1>8. CASE ~(c = t /\ s = r.side /\ (u = NoUser \/ u = r.user))
  <2>1. Gain(r, s, u, c) = 0 /\ Amount(x, s, u, c) = 0
    BY <1>1, <1>6, <1>8 DEF Gain, Amount
  <2>2. PICK g, v : g = Gain(r, s, u, c) /\ v = Amount(x, s, u, c)
    OBVIOUS
  <2>3. g = 0 /\ v = 0
    BY <2>1, <2>2
  <2>4. g = 0 - v
    BY <2>3
  <2> QED BY <2>2, <2>4
<1> QED BY <1>2, <1>7, <1>8

LEMMA SaveAccounted ==
  ASSUME NEW p \in Request, Judged(p), Accounted(p), SaveCounts(p) \/ SaveMember(p)
  PROVE  Accounted(p)'
<1> DEFINE r == req[p]
           n == req'[p]
<1>1. /\ r.pc = "write" /\ n = Scored(r) /\ UNCHANGED log /\ db'.done = db.done /\ db'.taken = db.taken
      /\ Fields(r) /\ Carries(r) /\ Typed'
  BY JudgedFacts, CountsSaved DEF Corrects, Steps
<1>2. /\ Plain(r) /\ Books(log, r) = log /\ log \in Seq(LogRow) /\ Draft(r) /\ Explains(db, log)
  <2>1. Plain(r) /\ Books(log, r) = log
    BY <1>1, PlainBooks
  <2> QED BY <2>1, JudgedFacts DEF Accounted
<1>3. \A s \in Side, c \in Counter : \A u \in Keyed(s) :
        /\ Level(db', s, u, c) = Level(db, s, u, c) + Gain(r, s, u, c)
        /\ Level(db, s, u, c) \in Int /\ Level(db', s, u, c) >= 0
  BY SaveGains
<1>4. CASE r.kind = "undo"
  <2> DEFINE x == req[p].entry
  <2>1. n.pc = "erase" /\ TakenBack(n)
    BY <1>1, <1>4, ScoredFacts DEF TakenBack
  <2>2. log # <<>> /\ x = log[Len(log)] /\ x.type \in Counter /\ x \in LogRow
    BY <1>1, <1>2, <1>4, JudgedFacts DEF KnownBy, Draft
  <2>3. ASSUME NEW s \in Side, NEW c \in Counter, NEW u \in Keyed(s)
        PROVE  Level(db', s, u, c) = Level(db, s, u, c) - Amount(x, s, u, c)
    <3>1. PICK a, b, g, v : a = Level(db', s, u, c) /\ b = Level(db, s, u, c) /\ g = Gain(r, s, u, c) /\ v = Amount(x, s, u, c)
      OBVIOUS
    <3>2. a = b + g /\ b \in Int
      BY <1>3, <3>1
    <3>3. g = 0 - v
      BY <1>1, <1>4, <3>1, UndoneInFull DEF At
    <3>4. v \in Int
      BY <2>2, <3>1, AmountInt
    <3>5. a = b - v
      BY <3>2, <3>3, <3>4
    <3> QED BY <3>1, <3>5
  <2>4. /\ x.type # "legendary" /\ x.type # "task"
        /\ \A l \in Legendary : x.type # "legendary" \/ l # x.leg => db'.taken[l] = db.taken[l]
        /\ \A t \in Task : ~About(x, t) => db'.done[t] = db.done[t]
    BY <1>1, <2>2 DEF Counter
  <2> HIDE DEF x
  <2>5. Explains(db', Books(log', n))
    BY <1>1, <1>2, <2>1, <2>2, <2>3, <2>4, Dropped
  <2>6. Draft(n)
    BY <2>1 DEF Draft, Unwritten
  <2> QED BY <2>5, <2>6 DEF Accounted
<1>5. CASE r.kind # "undo" /\ Applied(r) = 0
  <2>1. n = Blank
    BY <1>1, <1>5, ScoredFacts
  <2>2. Books(log', n) = log
    BY <1>1, <2>1, BlankDraft, PlainBooks
  <2>3. \A s \in Side, c \in Counter : \A u \in Keyed(s) : Level(db', s, u, c) = Level(db, s, u, c)
    <3>1. \A s, c, u : Gain(r, s, u, c) = 0
      BY <1>5 DEF Gain
    <3> QED BY <1>3, <3>1
  <2>4. SameRows(log, log)
    BY <1>2 DEF SameRows, Alike
  <2>5. PICK b, d, e : b = log /\ d = db /\ e = db'
    OBVIOUS
  <2>6. /\ Explains(d, b) /\ SameRows(b, b) /\ e.done = d.done /\ e.taken = d.taken
        /\ \A s \in Side, c \in Counter : \A u \in Keyed(s) : Level(e, s, u, c) = Level(d, s, u, c)
    BY <1>1, <1>2, <2>3, <2>4, <2>5
  <2>7. Explains(e, b)
    BY <2>6, ExplainsStays
  <2> QED BY <2>1, <2>2, <2>5, <2>7, BlankDraft DEF Accounted
<1>6. CASE r.kind # "undo" /\ Applied(r) # 0
  <2> DEFINE x == req'[p].entry
  <2>1. /\ n.pc = "sum" /\ n.kind = r.kind /\ ~n.tally /\ x.type = r.kind /\ x.side = r.side /\ x.user = r.user
        /\ x.applied = Applied(r) /\ Fields(n) /\ x.leg = NoLegendary
    BY <1>1, <1>6, ScoredFacts, ScoredLeg
  <2>2. r.kind \in {"points", "knock"} /\ r.entry.type = "none"
    BY <1>1, <1>2, <1>6 DEF Carries, Draft
  <2>3. x.type \in Counter /\ x \in LogRow /\ x.leg \notin Legendary
    BY <2>1, <2>2, ScoreAssumption DEF Fields, Counter
  <2>4. Unwritten(n)
    BY <2>1, <2>2 DEF Unwritten, Edits
  <2>5. Touched(r) = x.type
    BY <2>1, <2>2 DEF Touched, IsKnock
  <2>6. ASSUME NEW s \in Side, NEW c \in Counter, NEW u \in Keyed(s)
        PROVE  Level(db', s, u, c) = Level(db, s, u, c) + Amount(x, s, u, c) /\ Level(db', s, u, c) >= 0
    <3>1. Gain(r, s, u, c) = Amount(x, s, u, c)
      BY <2>1, <2>5 DEF Gain, Amount
    <3> QED BY <1>3, <3>1
  <2>7. /\ x.leg \in Legendary <=> x.type = "legendary"
        /\ x.type # "legendary" /\ x.type # "task"
        /\ \A l \in Legendary : x.type # "legendary" \/ l # x.leg => db'.taken[l] = db.taken[l]
        /\ \A t \in Task : ~About(x, t) => db'.done[t] = db.done[t]
    BY <1>1, <2>3 DEF Counter
  <2>8. Draft(n)
    BY <2>1, <2>7 DEF Draft
  <2>9. Explains(db', Books(log', n))
    <3>1. PICK y : y = x
      OBVIOUS
    <3>2. /\ y \in LogRow /\ n.entry = y /\ (y.leg \in Legendary <=> y.type = "legendary")
          /\ y.type # "legendary" /\ y.type # "task"
          /\ \A l \in Legendary : y.type # "legendary" \/ l # y.leg => db'.taken[l] = db.taken[l]
          /\ \A t \in Task : ~About(y, t) => db'.done[t] = db.done[t]
          /\ \A s \in Side, c \in Counter : \A u \in Keyed(s) :
               Level(db', s, u, c) = Level(db, s, u, c) + Amount(y, s, u, c) /\ Level(db', s, u, c) >= 0
      BY <2>3, <2>6, <2>7, <3>1
    <3> HIDE DEF x
    <3> QED BY <1>1, <1>2, <2>4, <3>2, Grown
  <2> QED BY <2>8, <2>9 DEF Accounted
<1> QED BY <1>4, <1>5, <1>6

\* The row is written, or taken out, as the books have it.
LEMMA LogAccounted ==
  ASSUME NEW p \in Request, Judged(p), Accounted(p), AddMatchLog(p)
  PROVE  Accounted(p)'
<1> DEFINE r == req[p]
           n == req'[p]
<1>1. /\ r.pc = "log" /\ r.kind \in Edits /\ Fields(r) /\ Carries(r) /\ n = Conclude(r) /\ UNCHANGED db
      /\ \E e \in LogRow : log' = Append(log, e) /\ Alike(r.entry, e)
  BY JudgedFacts, Logged1 DEF Logs, Alike
<1>2. Books(log, r) = Append(log, r.entry) /\ log \in Seq(LogRow) /\ r.entry \in LogRow /\ Explains(db, Append(log, r.entry))
  <2>1. Books(log, r) = Append(log, r.entry)
    BY <1>1, PlainBooks DEF Unwritten
  <2> QED BY <2>1, JudgedFacts DEF Accounted
<1>3. Plain(n) /\ Draft(n)
  <2>1. n = Blank \/ (n.pc = "sum" /\ n.tally)
    BY <1>1, ConcludeFacts
  <2> QED BY <2>1, BlankDraft, PlainBooks DEF Draft, Unwritten
<1>4. PICK e \in LogRow : log' = Append(log, e) /\ Alike(r.entry, e)
  BY <1>1
<1>5. PICK l, x, d : l = log /\ x = r.entry /\ d = db
  OBVIOUS
<1>6. SameRows(Append(l, x), Append(l, e))
  <2>1. l \in Seq(LogRow) /\ x \in LogRow /\ Alike(x, e) /\ Len(l) \in Nat
    BY <1>2, <1>4, <1>5
  <2>2. /\ Append(l, x) \in Seq(LogRow) /\ Append(l, e) \in Seq(LogRow)
        /\ Len(Append(l, x)) = Len(l) + 1 /\ Len(Append(l, e)) = Len(l) + 1
        /\ \A i \in 1..Len(l) : Append(l, x)[i] = l[i] /\ Append(l, e)[i] = l[i]
        /\ Append(l, x)[Len(l) + 1] = x /\ Append(l, e)[Len(l) + 1] = e
    BY <2>1, AppendProperties
  <2>3. ASSUME NEW i \in 1..(Len(l) + 1) PROVE Alike(Append(l, x)[i], Append(l, e)[i])
    <3>1. i \in 1..Len(l) \/ i = Len(l) + 1
      BY <2>1
    <3>2. CASE i \in 1..Len(l)
      BY <2>2, <3>2 DEF Alike
    <3>3. CASE i = Len(l) + 1
      BY <2>1, <2>2, <3>3
    <3> QED BY <3>1, <3>2, <3>3
  <2> QED BY <2>2, <2>3 DEF SameRows
<1>7. Explains(d, Append(l, e))
  <2>1. Explains(d, Append(l, x))
    BY <1>2, <1>5
  <2> QED BY <1>6, <2>1, ExplainsStays
<1>8. Books(log', n) = log'
  BY <1>3, PlainBooks
<1> QED BY <1>1, <1>3, <1>4, <1>5, <1>7, <1>8 DEF Accounted

LEMMA EraseAccounted ==
  ASSUME NEW p \in Request, Judged(p), Accounted(p), EraseLog(p)
  PROVE  Accounted(p)'
<1> DEFINE r == req[p]
           n == req'[p]
<1>1. /\ r.pc = "erase" /\ r.kind = "undo" /\ n.pc = "sum" /\ n.kind = "undo" /\ UNCHANGED db
      /\ log # <<>> /\ r.entry = log[Len(log)] =>
           Len(log') = Len(log) - 1 /\ \A i \in 1..Len(log') : log'[i] = log[i]
      /\ Typed'
  BY JudgedFacts, Erased DEF Erases, Same, Steps
<1>2. TakenBack(r) /\ log # <<>> /\ r.entry = log[Len(log)] /\ log \in Seq(LogRow) /\ log' \in Seq(LogRow)
  <2>1. TakenBack(r)
    BY <1>1 DEF TakenBack
  <2> QED BY <1>1, <2>1, JudgedFacts DEF Typed, LogTyped
<1>3. PICK l, k, b, d : l = log /\ k = log' /\ b = SubSeq(log, 1, Len(log) - 1) /\ d = db
  OBVIOUS
<1>4. Explains(d, b)
  <2>1. Books(log, r) = b
    BY <1>2, <1>3, PlainBooks
  <2> QED BY <1>3, <2>1 DEF Accounted
<1>5. SameRows(b, k)
  <2>1. b \in Seq(LogRow) /\ Len(l) = Len(b) + 1 /\ (\A i \in 1..Len(b) : l[i] = b[i]) /\ Len(b) \in Nat
    BY <1>2, <1>3, LastLonger DEF Longer
  <2>2. k \in Seq(LogRow) /\ Len(k) = Len(l) - 1 /\ \A i \in 1..Len(k) : k[i] = l[i]
    BY <1>1, <1>2, <1>3
  <2>3. Len(k) = Len(b)
    BY <2>1, <2>2
  <2> QED BY <2>1, <2>2, <2>3 DEF SameRows, Alike
<1>6. Explains(d, k)
  BY <1>4, <1>5, ExplainsStays
<1>7. Plain(n) /\ Draft(n)
  BY <1>1, PlainBooks DEF Draft, Unwritten, Edits
<1>8. Books(log', n) = log'
  BY <1>7, PlainBooks
<1> QED BY <1>1, <1>3, <1>6, <1>7, <1>8 DEF Accounted

LEMMA ProceedsAccounted ==
  ASSUME NEW p \in Request, Judged(p), Accounted(p), Proceeds(p)
  PROVE  Accounted(p)'
<1>1. ~PutEntry(p)
  BY JudgedFacts DEF PutEntry, At
<1> QED BY <1>1, ReadAccounted, SaveAccounted, LookAccounted, MarkAccounted, CompleteAccounted, AvailableAccounted,
           SumAccounted, LogAccounted, OutcomeAccounted, TakeAccounted, RestoreAccounted, HolderAccounted, DeleteAccounted,
           EraseAccounted
        DEF Proceeds

\* The others are not served.
LEMMA Handed ==
  ASSUME Typed, Typed', NEW p \in Request, Alone(p), Others(p), Accounted(p)'
  PROVE  Explained'
<1>1. \A q \in Request \ {p} : req'[q] = Blank /\ req'[q].pc = "idle"
  BY IdleIsBlank, BlankFacts DEF Typed, Alone, Others
<1>2. req'[p].pc = "idle" => req'[p] = Blank
  BY DEF Typed, ReqTyped, Carries
<1>3. \A q \in Request : Draft(req'[q])
  BY <1>1, BlankDraft DEF Accounted
<1>4. ASSUME NEW q \in Request, \A x \in Request \ {q} : req'[x].pc = "idle" PROVE req'[q] = req'[p]
  BY <1>1, <1>2, <1>4
<1>5. \A q \in Request : Alone(q)' => Explains(db', Books(log', req'[q]))
  BY <1>4 DEF Accounted, Alone, At
<1> QED BY <1>3, <1>5 DEF Explained

LEMMA ArrivesExplained ==
  ASSUME Sound, Rows, Explained, OneJudge, NewConsole, NEW p \in Request, Arrives(p)
  PROVE  Explained'
<1>1. Begun(p) /\ Typed
  BY Arrived DEF Sound, Typed
<1>2. /\ Alone(p) /\ Others(p) /\ UNCHANGED <<db, log>> /\ At(p, "idle")
      /\ req'[p].pc \in {"read", "look", "complete", "take", "put", "sum"} /\ req'[p].entry.type = "none"
      /\ req'[p].kind = "undo" => req'[p].pc = "take"
      /\ req'[p].pc = "sum" => req'[p].tally
  BY <1>1 DEF Begun, Alone
<1>3. Draft(req'[p]) /\ Plain(req'[p])
  BY <1>2, PlainBooks DEF Draft, Unwritten
<1>4. Books(log', req'[p]) = log' /\ Books(log, req[p]) = log
  <2>1. req[p].pc = "idle"
    BY <1>2 DEF At
  <2> QED BY <1>3, <2>1, PlainBooks
<1>5. Accounted(p)'
  BY <1>2, <1>3, <1>4 DEF Explained, Accounted
<1>6. Typed'
  BY ArrivesSound DEF Sound
<1> QED BY <1>1, <1>2, <1>5, <1>6, Handed

LEMMA ExplainedKept == ASSUME Sound, Rows, Explained, [Next]_vars PROVE Explained'
<1>1. CASE UNCHANGED vars
  <2>1. UNCHANGED <<db, log, req, load>>
    BY <1>1 DEF vars, bounds
  <2> QED BY <2>1 DEF Explained, OneJudge, NewConsole, Alone, At
<1>2. CASE Next
  <2>1. PICK p \in Request : Arrives(p) \/ Proceeds(p) \/ ClientGone(p)
    BY <1>2 DEF Next
  <2>2. UNCHANGED load
    BY <2>1, Accepts, ProceedsTyped DEF Sound, Steps, ClientGone
  <2>3. CASE ~(OneJudge /\ NewConsole)
    <3>1. ~(OneJudge /\ NewConsole)'
      BY <2>2, <2>3 DEF OneJudge, NewConsole
    <3> QED BY <3>1 DEF Explained
  <2>4. CASE OneJudge /\ NewConsole
    <3>1. CASE Arrives(p)
      BY <2>4, <3>1, ArrivesExplained
    <3>2. CASE Proceeds(p)
      <4>1. ~At(p, "idle")
        BY <3>2 DEF Proceeds, ReadCounts, SaveCounts, SaveMember, LookAtTask, WriteMark, InsertCompletion, MarkSpent,
             PutEntry, ReadSource, SaveTotal, NothingToAdd, AddMatchLog, CloseRounds, FinishTournament, ReadWinner, Recrown,
             Rate, TakeLast, RestoreMark, ReadHolder, DeleteCompletion, MarkAvailable, EraseLog, At
      <4>2. Alone(p)
        BY <2>4, <4>1, BusyAlone DEF Sound
      <4>3. Judged(p) /\ Accounted(p)
        BY <2>4, <4>2 DEF Judged, Accounted, Explained
      <4>4. Accounted(p)'
        BY <3>2, <4>3, ProceedsAccounted
      <4>5. Typed /\ Typed' /\ Others(p)
        BY <3>2, ProceedsTyped DEF Sound, Steps
      <4> QED BY <4>2, <4>4, <4>5, Handed
    <3>3. CASE ClientGone(p)
      BY <2>4, <3>3 DEF ClientGone, Sound, Counted, OneJudge
    <3> QED BY <2>1, <3>1, <3>2, <3>3
  <2> QED BY <2>3, <2>4
<1> QED BY <1>1, <1>2

LEMMA ExplainedBegins == Init => Explained
<1> SUFFICES ASSUME Init PROVE Explained
  OBVIOUS
<1>1. /\ \A p \in Request : req[p] = Blank
      /\ log = <<>> /\ Len(log) = 0 /\ log \in Seq(LogRow)
      /\ \A s \in Side : db.entry[s] = Zero /\ \A u \in User : db.member[s][u] = Zero
      /\ \A t \in Task : db.done[t] = NotDone
      /\ \A l \in Legendary : db.taken[l] = NoSide
  BY DEF Init
<1>2. ASSUME NEW s \in Side, NEW c \in Counter, NEW u \in Keyed(s)
      PROVE  Level(db, s, u, c) = 0 /\ Upto(log, 0, s, u, c) = 0
  <2>1. u \in User \cup {NoUser}
    BY PlayerFacts DEF Keyed
  <2>2. Row(db, s, u) = Zero
    BY <1>1, <2>1 DEF Row
  <2>3. Upto(log, 0, s, u, c) = 0
    <3>1. PICK b : b = log
      OBVIOUS
    <3>2. b \in Seq(LogRow) /\ 0 \in 0..Len(b)
      BY <1>1, <3>1
    <3>3. Upto(b, 0, s, u, c) = 0
      BY <3>2, UptoFacts
    <3> QED BY <3>1, <3>3
  <2> QED BY <2>2, <2>3, ZeroFacts DEF Level
<1>3. Balanced(db, log)
  BY <1>1, <1>2 DEF Balanced
<1>4. NeverBelow(log)
  <2>1. \A k \in 0..Len(log) : k = 0
    BY <1>1
  <2>2. \A s \in Side, c \in Counter : \A u \in Player(s) : Upto(log, 0, s, u, c) >= 0
    BY <1>2 DEF Keyed
  <2> QED BY <2>1, <2>2 DEF NeverBelow
<1>5. Contracts(db, log) /\ FirstMarks(db, log)
  <2>1. \A i \in 1..Len(log) : FALSE
    BY <1>1
  <2> QED BY <1>1, <2>1 DEF Contracts, FirstMarks, NotDone
<1>6. \A p \in Request : Draft(req[p]) /\ Books(log, req[p]) = log
  BY <1>1, BlankDraft, PlainBooks
<1> QED BY <1>3, <1>4, <1>5, <1>6 DEF Explained, Explains

LEMMA AlwaysExplained == Spec => [](Sound /\ Rows /\ Explained)
<1>1. Init => Sound /\ Rows /\ Explained
  BY SoundBegins, RowsBegin, ExplainedBegins
<1>2. Sound /\ Rows /\ Explained /\ [Next]_vars => (Sound /\ Rows /\ Explained)'
  BY SoundKept, RowsKept, ExplainedKept
<1> QED BY <1>1, <1>2, PTL DEF Spec

\* A finite set of numbers has a last one.
LEMMA LastOf ==
  ASSUME NEW S, S \subseteq Int, IsFiniteSet(S), S # {}
  PROVE  Max(S) \in S /\ \A y \in S : Max(S) >= y
<1> DEFINE From(x) == {y \in S : y >= x}
           T == {From(x) : x \in S}
<1>1. T \in SUBSET (SUBSET S) /\ T # {}
  OBVIOUS
<1>2. \A x \in S : From(x) \in T
  OBVIOUS
<1>3. \A A \in T : \E x \in S : A = From(x)
  OBVIOUS
<1> HIDE DEF T
<1>4. PICK A \in T : \A B \in T : B \subseteq A => B = A
  <2>1. T \in SUBSET (SUBSET S)
    BY <1>1
  <2>2. T # {}
    BY <1>1
  <2>3. IsFiniteSet(S)
    OBVIOUS
  <2> HIDE DEF From
  <2>4. \E A \in T : \A B \in T : B \subseteq A => B = A
    <3>1. PICK U, W : U = T /\ W = S
      OBVIOUS
    <3>2. U \in SUBSET (SUBSET W) /\ U # {} /\ IsFiniteSet(W)
      BY <2>1, <2>2, <2>3, <3>1
    <3>3. \E A \in U : \A B \in U : B \subseteq A => B = A
      BY <3>2, Least
    <3> QED BY <3>1, <3>3
  <2> QED BY <2>4
<1>5. PICK x \in S : A = From(x)
  BY <1>3
<1>6. ASSUME NEW y \in S PROVE x >= y
  <2>1. SUFFICES ASSUME ~(x >= y) PROVE FALSE
    OBVIOUS
  <2>2. x \in Int /\ y \in Int /\ y > x
    BY <2>1
  <2>3. From(y) \subseteq From(x)
    <3>1. ASSUME NEW z \in From(y) PROVE z \in From(x)
      <4>1. z \in S /\ z \in Int /\ z >= y
        OBVIOUS
      <4>2. z >= x
        BY <2>2, <4>1
      <4> QED BY <4>1, <4>2
    <3> QED BY <3>1
  <2>4. x \in From(x) /\ x \notin From(y)
    BY <2>1, <2>2
  <2>5. From(y) = From(x)
    <3> HIDE DEF From
    <3> QED BY <1>2, <1>4, <1>5, <2>3
  <2> QED BY <2>4, <2>5
<1>7. \E z \in S : \A y \in S : z >= y
  BY <1>6
<1> QED BY <1>7 DEF Max

LEMMA LogFollows == ASSUME Sound, Rows, Explained PROVE LogExplainsScore
<1>1. SUFFICES ASSUME Still, OneJudge, NewConsole PROVE LogExplainsScore
  BY DEF LogExplainsScore
<1>2. PICK p \in Request : TRUE
  BY ScoreAssumption
<1>3. /\ req[p].pc = "idle" /\ Alone(p) /\ ToldOf(db, log, req[p]) /\ Books(log, req[p]) = log
      /\ Explains(db, Books(log, req[p]))
  <2>1. req[p].pc = "idle" /\ Alone(p)
    BY <1>1, <1>2 DEF Still, At, Alone
  <2> QED BY <1>1, <2>1, PlainBooks DEF Sound, OneByOne, Told, Alone, Explained
<1>4. Explains(db, log) /\ log \in Seq(LogRow) /\ Len(log) \in Nat /\ db \in Tables
  BY <1>3 DEF Sound, Typed, LogTyped, TablesTyped
<1>5. ASSUME NEW s \in Side
      PROVE  /\ db.entry[s].knocks = Logged(s, "knock")
             /\ db.entry[s].points = Logged(s, "points") + KnockPoints * Logged(s, "knock")
  <2>1. ASSUME NEW c \in Counter PROVE Level(db, s, NoUser, c) = Logged(s, c)
    <3> DEFINE f == [i \in 1..Len(log) |-> IF log[i].type = c /\ log[i].side = s THEN log[i].applied ELSE 0]
    <3>1. Logged(s, c) = SumFunctionOnSet(f, 1..Len(log))
      BY DEF Logged, SumFunction
    <3>2. \A i \in 1..Len(log) : f[i] = Amounts(log, s, NoUser, c)[i]
      BY DEF Amounts, Amount
    <3> HIDE DEF f
    <3>3. SumFunctionOnSet(f, 1..Len(log)) = SumFunctionOnSet(Amounts(log, s, NoUser, c), 1..Len(log))
      BY <1>4, <3>2, IntervalFacts, SumSame
    <3>4. Level(db, s, NoUser, c) = Upto(log, Len(log), s, NoUser, c)
      BY <1>4 DEF Explains, Balanced, Keyed
    <3> QED BY <3>1, <3>3, <3>4 DEF Upto
  <2>2. PICK e, a, b : e = db.entry[s] /\ a = Logged(s, "knock") /\ b = Logged(s, "points")
    OBVIOUS
  <2>3. e.knocks = a /\ Spare(e) = b
    <3>1. "knock" \in Counter /\ "points" \in Counter
      BY DEF Counter
    <3>2. Level(db, s, NoUser, "knock") = a /\ Level(db, s, NoUser, "points") = b
      BY <2>1, <2>2, <3>1
    <3> QED BY <2>2, <3>2 DEF Level, Row
  <2>4. e \in Counts
    BY <1>4, <2>2, SumsOfPlayers
  <2>5. /\ e.points = Spare(e) + e.knocks * KnockPoints /\ KnockPoints \in Nat /\ e.knocks \in Nat
        /\ Spare(e) \in Int
    BY <2>4, CountFacts
  <2>6. e.points = b + KnockPoints * a
    BY <2>3, <2>5
  <2> QED BY <2>2, <2>3, <2>6
<1>6. ASSUME NEW t \in Task PROVE db.done[t].by = LastMark(t)
  <2> DEFINE marks == {i \in 1..Len(log) : log[i].type = "task" /\ log[i].task = t}
  <2>1. LastMark(t) = IF marks = {} THEN NoSide ELSE log[Max(marks)].side
    BY DEF LastMark
  <2>2. \A i \in 1..Len(log) : i \in marks <=> About(log[i], t)
    BY DEF About
  <2>3. marks \subseteq 1..Len(log) /\ marks \subseteq Int /\ IsFiniteSet(marks)
    <3>1. marks \subseteq 1..Len(log) /\ 1..Len(log) \subseteq Int
      BY <1>4
    <3>2. IsFiniteSet(1..Len(log))
      BY <1>4, IntervalFacts
    <3> QED BY <3>1, <3>2, FS_Subset
  <2>4. Latest(log, t, db.done[t].by)
    BY <1>3 DEF ToldOf, Unlogged, Unerased
  <2>5. (\A i \in 1..Len(log) : ~About(log[i], t)) => db.done[t].by = NoSide
    BY <1>4 DEF Explains, FirstMarks
  <2> HIDE DEF marks
  <2>6. CASE marks = {}
    BY <2>1, <2>2, <2>5, <2>6
  <2>7. CASE marks # {}
    <3>1. PICK m : m = Max(marks)
      OBVIOUS
    <3>2. m \in marks /\ \A y \in marks : m >= y
      BY <2>3, <2>7, <3>1, LastOf
    <3>3. m \in 1..Len(log) /\ About(log[m], t) /\ \A k \in 1..Len(log) : m < k => ~About(log[k], t)
      BY <2>2, <2>3, <3>2
    <3>4. log[m].side = db.done[t].by
      BY <2>4, <3>3 DEF Latest
    <3> QED BY <2>1, <2>7, <3>1, <3>4
  <2> QED BY <2>6, <2>7
<1>7. ASSUME NEW l \in Legendary
      PROVE  (db.taken[l] # NoSide) <=> \E i \in 1..Len(log) : log[i].leg = l
  BY <1>4 DEF Explains, Contracts
<1> QED BY <1>5, <1>6, <1>7 DEF LogExplainsScore

\* Once no request is under way on the console of one judge, the log tells how the score
\* came to be, whatever was corrected, marked and undone before: what its rows applied is
\* what each side has of points and knocks, the last mark of a task says whose it is, and
\* the contracts that somebody has are those it names (AddMatchLog, UndoLastMatchLog).
THEOREM LogTheorem == Spec => []LogExplainsScore
<1>1. Sound /\ Rows /\ Explained => LogExplainsScore
  BY LogFollows
<1> QED BY <1>1, AlwaysExplained, PTL
===============================================================================
