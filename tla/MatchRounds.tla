------------------------------ MODULE MatchRounds ------------------------------
(***************************************************************************)
(* The rounds of a match: the maps the sides veto and pick, the side that  *)
(* goes first, the start of a round with the tasks it deals, the tasks     *)
(* that are dealt again, protocols, and the side that is in its raid       *)
(* (internal/store/veto.go, matches.go, bonus_tasks.go, round_penalties.go *)
(* and the handlers of internal/api that call them).                       *)
(*                                                                         *)
(* As in MatchScore a handler is the statements it makes, and req[p] is    *)
(* the request p is serving with its program counter. A transaction of the *)
(* store is read committed: what it looks at first is a step of its own,   *)
(* what it writes is there for the others when it commits.                 *)
(***************************************************************************)
EXTENDS Integers, FiniteSets, Sequences, SequencesExt

CONSTANTS
  Request,      \* requests that may be served at the same time
  Seeds,        \* the two sides as they were drawn
  TotalRounds,  \* tournaments.total_rounds
  Map,          \* maps
  Task,         \* tasks that fit the players of the match
  Timed,        \* the tasks with the tag "timed"
  Free, Paid,   \* the tasks for the free round only, for the others only
  Rarity,       \* how rare a task is
  Wanted,       \* the rarities a side is dealt
  Protocol,     \* complications of the catalog
  NoMap, NoSide, NoTask, NoProtocol,
  Loads         \* bounds: what is asked of the server, see load

Side   == ToSet(Seeds)
Number == 1..TotalRounds

ASSUME RoundsAssumption ==
  /\ Seeds = <<Seeds[1], Seeds[2]>> /\ Seeds[1] # Seeds[2] /\ NoSide \notin Side
  /\ TotalRounds \in 1..3 /\ NoMap \notin Map /\ Map # {}
  /\ NoTask \notin Task /\ Timed \subseteq Task
  /\ IsFiniteSet(Task) /\ IsFiniteSet(Request)
  /\ Free \subseteq Task /\ Paid \subseteq Task \ Free
  /\ Rarity \in [Task -> Nat] /\ Wanted \in [Side -> SUBSET Nat]
  /\ NoProtocol \notin Protocol
  /\ Loads \subseteq [kinds : SUBSET STRING, at : Nat, made : Nat, gone : Nat,
                     maps : (SUBSET Map) \ {{}}, tasks : SUBSET Task]

VARIABLES
  load,      \* the kinds of requests that come, how many at a time and in all, how
             \* many clients go away; the maps and the tasks that are active
  round,     \* the rounds of the match, by number
  veto,      \* match_veto
  seeds,     \* participants by seed: the first of them goes first
  dealt,     \* round_bonus_tasks in the order of their ids, see Assignments
  penalty,   \* round_penalties
  match,     \* tournaments.status
  raid,      \* the side in its raid, and raid_starts
  req,       \* the requests being served
  made,      \* requests made so far
  cancelled  \* clients gone so far

tables == <<round, veto, seeds, dealt, penalty, match, raid>>
bounds == <<load, made, cancelled>>
vars   == <<tables, req, bounds>>

Rounds      == [status : {"pending", "live", "finished"}, map : Map \cup {NoMap}]
Moves       == [id : Nat, seq : Nat, map : Map]
\* A row that was deleted keeps its place with no task.
Assignments == [round : Number, side : Side, task : Task \cup {NoTask},
                by : Side \cup {NoSide}]
Penalties   == [round : Number, side : Side, protocol : Protocol, times : Nat]

\* The moves of the veto: the side (A is the first) and the round a pick is for.
VetoOrder ==
  LET ban(s)     == [side |-> s, round |-> 0]
      pick(s, n) == [side |-> s, round |-> n]
  IN  CASE TotalRounds = 1 -> <<>>
        [] TotalRounds = 3 -> <<ban("A"), ban("B"), pick("A", 1), pick("B", 2), pick("", 3)>>
        [] OTHER -> <<ban("A"), ban("B"), ban("A"), ban("B"), pick("B", 1), pick("A", 2)>>

\* A request that is not served. num: the round it is about; live: the round it
\* found going on; seen: what it read; slot: how far the deal is; row: a row of
\* dealt; todo: the contracts still to be handed out.
Blank == [kind |-> "none", pc |-> "idle", side |-> NoSide, num |-> 0, live |-> 0,
          maps |-> <<>>, seen |-> {}, count |-> 0, order |-> <<>>, slot |-> 0,
          row |-> 0, task |-> NoTask, todo |-> <<>>, protocol |-> NoProtocol,
          ticket |-> 0]

At(p, pc)    == req[p].pc = pc
Go(p, r)     == req' = [req EXCEPT ![p] = r]
Refuse(p)    == Go(p, Blank)
OnlyReads(p) == UNCHANGED <<tables, bounds>>
Still        == \A p \in Request : At(p, "idle")

\* The console of one judge: a request is answered before the next is made.
OneJudge == load.at = 1

Started == \E n \in Number : round[n].status # "pending"

-------------------------------------------------------------------------------
(* A request comes in. matchGuard and blockIfFinished let none pass to a   *)
(* finished match; the side in its raid and the marks are not guarded.     *)

Takes(p, kind) ==
  /\ At(p, "idle") /\ made < load.made /\ kind \in load.kinds
  /\ Cardinality({o \in Request : ~At(o, "idle")}) < load.at

Accept(p, r) ==
  /\ Takes(p, r.kind)
  /\ made' = made + 1
  /\ Go(p, [r EXCEPT !.ticket = made + 1])
  /\ UNCHANGED <<tables, load, cancelled>>

Ask(p, kind, pc, r) ==
  match # "finished" /\ Accept(p, [r EXCEPT !.kind = kind, !.pc = pc])

HandleVeto(p, m)          == Ask(p, "veto", "started", [Blank EXCEPT !.maps = <<m>>])
HandleVetoUndo(p)         == Ask(p, "undo", "started", Blank)
HandleSetMatchMaps(p, ms) == Ask(p, "maps", "started", [Blank EXCEPT !.maps = ms])
HandleFirstSide(p, s)     == Ask(p, "first", "started", [Blank EXCEPT !.side = s])
HandleNextRound(p)        == Ask(p, "next", "rounds", Blank)
HandleRerollTask(p, i)    == Ask(p, "reroll", "assignment", [Blank EXCEPT !.row = i])
HandleFinishMatch(p)      == Ask(p, "finish", "close", Blank)
HandleSetProtocol(p, n, s, c) ==
  Ask(p, "protocol", IF c = NoProtocol THEN "clear" ELSE "taken",
      [Blank EXCEPT !.num = n, !.side = s, !.protocol = c])
HandleAssignBonusTask(p, n, s, t) ==
  Ask(p, "assign", "dup", [Blank EXCEPT !.num = n, !.side = s, !.todo = <<t>>])
HandleDealContracts(p, n, s, k) ==
  Ask(p, "contracts", "draw", [Blank EXCEPT !.num = n, !.side = s, !.count = k])
HandleMatchFocus(p, s) ==
  Accept(p, [Blank EXCEPT !.kind = "focus", !.pc = "prev", !.side = s])

\* The handlers that make one statement, under their guard.
Console(p, kind) ==
  /\ Takes(p, kind)
  /\ made' = made + 1 /\ UNCHANGED <<req, load, cancelled>>

\* MarkTask, told in full by MatchScore.
HandleMarkTask(p, i, s) ==
  /\ dealt[i].task # NoTask /\ Console(p, "mark")
  /\ dealt' = [dealt EXCEPT ![i].by = s]
  /\ UNCHANGED <<round, veto, seeds, penalty, match, raid>>

HandleRemoveBonusTask(p, i) ==
  /\ match # "finished" /\ dealt[i].task # NoTask /\ Console(p, "remove")
  /\ dealt' = [dealt EXCEPT ![i].task = NoTask, ![i].by = NoSide]
  /\ UNCHANGED <<round, veto, seeds, penalty, match, raid>>

\* PATCH of a round sets its status and map; the number in the body is dropped.
HandleUpdateRound(p, n, status, m) ==
  /\ match # "finished" /\ Console(p, "patch")
  /\ round' = [round EXCEPT ![n] = [status |-> status, map |-> m]]
  /\ UNCHANGED <<veto, seeds, dealt, penalty, match, raid>>

HandleAdjustProtocolViolations(p, n, s, d) ==
  LET most(a) == IF a < 0 THEN 0 ELSE a IN
  /\ match # "finished" /\ Console(p, "violation")
  /\ penalty' = {IF x.round = n /\ x.side = s THEN [x EXCEPT !.times = most(@ + d)]
                                              ELSE x : x \in penalty}
  /\ UNCHANGED <<round, veto, seeds, dealt, match, raid>>

-------------------------------------------------------------------------------
(* Vetoes, maps and the first side: transactions that begin by looking     *)
(* whether a round has begun.                                              *)

Changes == [veto |-> "count", undo |-> "last", maps |-> "save", first |-> "save"]

RoundsStarted(p) ==
  /\ At(p, "started")
  /\ IF Started THEN Refuse(p) ELSE Go(p, [req[p] EXCEPT !.pc = Changes[req[p].kind]])
  /\ OnlyReads(p)

\* VetoMap counts the moves made and looks for the map among them.
CountMoves(p) ==
  LET r == req[p] IN
  /\ At(p, "count")
  /\ IF (\E v \in veto : v.map = r.maps[1]) \/ Cardinality(veto) >= Len(VetoOrder)
     THEN Refuse(p)
     ELSE Go(p, [r EXCEPT !.pc = "move", !.count = Cardinality(veto) + 1])
  /\ OnlyReads(p)

\* The move and the map of its round; a second move with the same number or map
\* breaks a unique constraint and is undone.
InsertMove(p) ==
  LET r == req[p]
      n == VetoOrder[r.count].round
  IN  /\ At(p, "move")
      /\ IF \E v \in veto : v.seq = r.count \/ v.map = r.maps[1]
         THEN UNCHANGED <<veto, round>>
         ELSE /\ veto' = veto \cup {[id |-> r.ticket, seq |-> r.count, map |-> r.maps[1]]}
              /\ round' = IF n = 0 THEN round ELSE [round EXCEPT ![n].map = r.maps[1]]
      /\ Refuse(p)
      /\ UNCHANGED <<seeds, dealt, penalty, match, raid, bounds>>

\* VetoUndo: the statement finds the last move, then deletes it if it is there.
FindLastMove(p) ==
  LET last == {v \in veto : \A x \in veto : x.seq <= v.seq} IN
  /\ At(p, "last")
  /\ Go(p, [req[p] EXCEPT !.pc = "undo", !.seen = {v.id : v \in last}])
  /\ OnlyReads(p)

DeleteMove(p) ==
  LET gone == {v \in veto : v.id \in req[p].seen} IN
  /\ At(p, "undo")
  /\ veto' = veto \ gone
  /\ round' = [n \in Number |->
       IF \E v \in gone : VetoOrder[v.seq].round = n
       THEN [round[n] EXCEPT !.map = NoMap] ELSE round[n]]
  /\ Refuse(p)
  /\ UNCHANGED <<seeds, dealt, penalty, match, raid, bounds>>

\* SetMatchMaps: the moves go, the rounds that are named get their maps.
SaveMaps(p) ==
  LET ms == req[p].maps IN
  /\ At(p, "save") /\ req[p].kind = "maps"
  /\ veto' = {}
  /\ round' = [n \in Number |->
       IF n <= Len(ms) THEN [round[n] EXCEPT !.map = ms[n]] ELSE round[n]]
  /\ Refuse(p)
  /\ UNCHANGED <<seeds, dealt, penalty, match, raid, bounds>>

SaveFirstSide(p) ==
  /\ At(p, "save") /\ req[p].kind = "first"
  /\ seeds' = IF seeds[1] = req[p].side THEN seeds ELSE Reverse(seeds)
  /\ Refuse(p)
  /\ UNCHANGED <<round, veto, dealt, penalty, match, raid, bounds>>

-------------------------------------------------------------------------------
(* StartNextRound. *)

\* The last live round, and the one after it; with none, the first pending.
LiveRound == LET live == {n \in Number : round[n].status = "live"} IN
             IF live = {} THEN 0 ELSE Max(live)

NextRound ==
  LET pending == {n \in Number : round[n].status = "pending"} IN
  IF LiveRound # 0 THEN (IF LiveRound = TotalRounds THEN 0 ELSE LiveRound + 1)
  ELSE IF pending = {} THEN 0 ELSE Min(pending)

ReadRounds(p) ==
  /\ At(p, "rounds")
  /\ IF NextRound = 0 \/ round[NextRound].map = NoMap
     THEN Refuse(p)
     ELSE Go(p, [req[p] EXCEPT !.pc = "begin", !.live = LiveRound, !.num = NextRound])
  /\ OnlyReads(p)

\* Mutant: the round before is left live.
BeginRoundOnly(p) ==
  LET r == req[p] IN
  /\ At(p, "begin")
  /\ round' = [round EXCEPT ![r.num].status = "live"]
  /\ match' = "live"
  /\ Go(p, [r EXCEPT !.pc = "dealt"])
  /\ UNCHANGED <<veto, seeds, dealt, penalty, raid, bounds>>

\* One transaction ends the live round and begins the next.
BeginRound(p) ==
  LET r == req[p] IN
  /\ At(p, "begin")
  /\ round' = [n \in Number |-> CASE n = r.num  -> [round[n] EXCEPT !.status = "live"]
                                  [] n = r.live -> [round[n] EXCEPT !.status = "finished"]
                                  [] OTHER      -> round[n]]
  /\ match' = "live"
  /\ Go(p, [r EXCEPT !.pc = "dealt"])
  /\ UNCHANGED <<veto, seeds, dealt, penalty, raid, bounds>>

\* DealRoundTasks: nothing when the round has tasks already.
LookDealt(p) ==
  LET r == req[p] IN
  /\ At(p, "dealt")
  /\ Go(p, IF \E i \in 1..Len(dealt) : dealt[i].round = r.num /\ dealt[i].task # NoTask
           THEN [r EXCEPT !.pc = "aim"]
           ELSE [r EXCEPT !.pc = "pick", !.slot = 1, !.order = seeds])
  /\ OnlyReads(p)

\* Slots go side by side: two ordinary tasks, then one on time.
SlotTimed(k)   == k % 3 = 0
SlotSide(r)    == r.order[(r.slot + 2) \div 3]
LastSlot       == 6

\* Mutant: a task may come up again in the match.
PickableAgain(num, timed, except) ==
  LET free == num = 1 /\ TotalRounds > 1 IN
  {t \in load.tasks : (t \in Timed) = timed /\ t # except
                /\ (t \in Free => free) /\ (t \in Paid => ~free)}

\* pickTask: the tasks of the wanted kind that fit the round and were not dealt
\* in the match.
Pickable(num, timed, except) ==
  LET free == num = 1 /\ TotalRounds > 1 IN
  {t \in load.tasks : /\ (t \in Timed) = timed /\ t # except
                /\ (t \in Free => free) /\ (t \in Paid => ~free)
                /\ \A i \in 1..Len(dealt) : dealt[i].task # t}

\* How far the rarity of a task is from those the side is dealt.
Distance(t, side) ==
  LET far(a, b) == IF a > b THEN a - b ELSE b - a IN
  IF Wanted[side] = {} THEN 0 ELSE Min({far(Rarity[t], k) : k \in Wanted[side]})

Nearest(S, side) == {t \in S : \A x \in S : Distance(t, side) <= Distance(x, side)}

NextSlot(r) == IF r.slot = LastSlot THEN [r EXCEPT !.pc = "aim"]
               ELSE [r EXCEPT !.pc = "pick", !.slot = @ + 1]

PickTask(p) ==
  LET r      == req[p]
      timed  == SlotTimed(r.slot) /\ Pickable(r.num, TRUE, NoTask) # {}
      choice == Nearest(Pickable(r.num, timed, NoTask), SlotSide(r))
  IN  /\ At(p, "pick")
      /\ IF choice = {} THEN Go(p, NextSlot(r))
         ELSE \E t \in choice : Go(p, [r EXCEPT !.pc = "put", !.task = t])
      /\ OnlyReads(p)

\* Mutant: the tasks of the second side are not put down.
HasRowAlways(num, side, task) == side = Seeds[2]

HasRow(num, side, task) ==
  \E i \in 1..Len(dealt) : /\ dealt[i].round = num
                           /\ dealt[i].side = side /\ dealt[i].task = task

\* ON CONFLICT DO NOTHING: the same task of the same side is not put twice.
PutRow(num, side, task) ==
  dealt' = IF HasRow(num, side, task) THEN dealt
           ELSE Append(dealt, [round |-> num, side |-> side, task |-> task, by |-> NoSide])

PutTask(p) ==
  LET r == req[p] IN
  /\ At(p, "put")
  /\ PutRow(r.num, SlotSide(r), r.task)
  /\ Go(p, [NextSlot(r) EXCEPT !.task = NoTask])
  /\ UNCHANGED <<round, veto, seeds, penalty, match, raid, bounds>>

-------------------------------------------------------------------------------
(* The side in its raid. *)

\* POST focus reads who is in the raid: pressing the same side again begins no
\* other raid.
ReadRaid(p) ==
  LET r == req[p] IN
  /\ At(p, "prev")
  /\ Go(p, [r EXCEPT !.pc = "aim", !.count = IF raid.side = r.side THEN 1 ELSE 0])
  /\ OnlyReads(p)

\* storeRaidSide: after a round has begun it is the first side.
AimRaid(p) ==
  LET r    == req[p]
      side == IF r.kind = "next" THEN seeds[1] ELSE r.side
  IN  /\ At(p, "aim")
      /\ raid' = [raid EXCEPT !.side = side]
      /\ Go(p, IF r.count = 1 THEN Blank ELSE [r EXCEPT !.pc = "raid", !.side = side])
      /\ UNCHANGED <<round, veto, seeds, dealt, penalty, match, bounds>>

\* recordRaidStart in the first live round, if there is one.
RecordRaidStart(p) ==
  LET live == {n \in Number : round[n].status = "live"} IN
  /\ At(p, "raid")
  /\ raid' = IF live = {} THEN raid
             ELSE [raid EXCEPT !.starts = Append(@, <<Min(live), req[p].side>>)]
  /\ Refuse(p)
  /\ UNCHANGED <<round, veto, seeds, dealt, penalty, match, bounds>>

-------------------------------------------------------------------------------
(* Tasks dealt again or by hand. *)

\* Mutant: a task that was done may be dealt again.
ReadAssignmentAny(p) ==
  LET r == req[p] IN
  /\ At(p, "assignment")
  /\ IF dealt[r.row].task = NoTask
     THEN Refuse(p)
     ELSE Go(p, [r EXCEPT !.pc = "other", !.num = dealt[r.row].round,
                          !.side = dealt[r.row].side, !.task = dealt[r.row].task])
  /\ OnlyReads(p)

ReadAssignment(p) ==
  LET r == req[p] IN
  /\ At(p, "assignment")
  /\ IF dealt[r.row].task = NoTask \/ dealt[r.row].by # NoSide
     THEN Refuse(p)
     ELSE Go(p, [r EXCEPT !.pc = "other", !.num = dealt[r.row].round,
                          !.side = dealt[r.row].side, !.task = dealt[r.row].task])
  /\ OnlyReads(p)

PickOther(p) ==
  LET r      == req[p]
      choice == Nearest(Pickable(r.num, r.task \in Timed, r.task), r.side)
  IN  /\ At(p, "other")
      /\ IF choice = {} THEN Refuse(p)
         ELSE \E t \in choice : Go(p, [r EXCEPT !.pc = "swap", !.task = t])
      /\ OnlyReads(p)

\* The row is updated by its id; one with the task is there already: an error.
SwapTask(p) ==
  LET r == req[p] IN
  /\ At(p, "swap")
  /\ dealt' = IF dealt[r.row].task = NoTask \/ HasRow(r.num, r.side, r.task) THEN dealt
              ELSE [dealt EXCEPT ![r.row].task = r.task]
  /\ Refuse(p)
  /\ UNCHANGED <<round, veto, seeds, penalty, match, raid, bounds>>

\* DealContracts draws up to count contracts, each assigned as by hand.
DrawContracts(p) ==
  LET r    == req[p]
      pool == Pickable(r.num, FALSE, NoTask)
      some == {q \in SetToAllKPermutations(pool) :
                 Len(q) = IF Cardinality(pool) < r.count THEN Cardinality(pool) ELSE r.count}
  IN  /\ At(p, "draw")
      /\ \E q \in some : Go(p, IF q = <<>> THEN Blank
                               ELSE [r EXCEPT !.pc = "dup", !.todo = q])
      /\ OnlyReads(p)

Assigned(r) == IF Len(r.todo) = 1 THEN Blank
               ELSE [r EXCEPT !.pc = "dup", !.todo = Tail(@)]

\* AssignBonusTask: a contract that was dealt in the match is refused.
LookDuplicate(p) ==
  LET r == req[p] IN
  /\ At(p, "dup")
  /\ Go(p, IF \E i \in 1..Len(dealt) : dealt[i].task = r.todo[1]
           THEN Assigned(r) ELSE [r EXCEPT !.pc = "assign"])
  /\ OnlyReads(p)

AssignTask(p) ==
  LET r == req[p] IN
  /\ At(p, "assign")
  /\ PutRow(r.num, r.side, r.todo[1])
  /\ Go(p, Assigned(r))
  /\ UNCHANGED <<round, veto, seeds, penalty, match, raid, bounds>>

-------------------------------------------------------------------------------
(* Protocols, the end of the match, and clients. *)

LookTaken(p) ==
  LET r == req[p] IN
  /\ At(p, "taken")
  /\ IF \E x \in penalty : x.round = r.num /\ x.protocol = r.protocol /\ x.side # r.side
     THEN Refuse(p) ELSE Go(p, [r EXCEPT !.pc = "clear"])
  /\ OnlyReads(p)

\* The delete sees the rows that are committed when it begins.
ClearProtocol(p) ==
  LET r    == req[p]
      mine == {x \in penalty : x.round = r.num /\ x.side = r.side}
  IN  /\ At(p, "clear")
      /\ IF r.protocol = NoProtocol
         THEN Refuse(p) /\ penalty' = penalty \ mine
         ELSE /\ Go(p, [r EXCEPT !.pc = "enact", !.seen = {x.protocol : x \in mine}])
              /\ UNCHANGED penalty
      /\ UNCHANGED <<round, veto, seeds, dealt, match, raid, bounds>>

\* Mutant: the protocol before is not taken off.
EnactBesides(p) ==
  LET r == req[p] IN
  /\ At(p, "enact")
  /\ penalty' = penalty \cup {[round |-> r.num, side |-> r.side,
                               protocol |-> r.protocol, times |-> 0]}
  /\ Refuse(p)
  /\ UNCHANGED <<round, veto, seeds, dealt, match, raid, bounds>>

\* The transaction commits: the rows it deleted, the row it inserted.
EnactProtocol(p) ==
  LET r    == req[p]
      left == {x \in penalty : ~(x.round = r.num /\ x.side = r.side
                                 /\ x.protocol \in r.seen)}
  IN  /\ At(p, "enact")
      /\ penalty' = IF \E x \in left : x.round = r.num /\ x.side = r.side
                                       /\ x.protocol = r.protocol
                    THEN penalty
                    ELSE left \cup {[round |-> r.num, side |-> r.side,
                                     protocol |-> r.protocol, times |-> 0]}
      /\ Refuse(p)
      /\ UNCHANGED <<round, veto, seeds, dealt, match, raid, bounds>>

\* FinishMatch: live rounds end, then the match; its score is MatchScore's.
CloseRounds(p) ==
  /\ At(p, "close")
  /\ round' = [n \in Number |-> IF round[n].status = "live"
                                THEN [round[n] EXCEPT !.status = "finished"] ELSE round[n]]
  /\ Go(p, [req[p] EXCEPT !.pc = "finish"])
  /\ UNCHANGED <<veto, seeds, dealt, penalty, match, raid, bounds>>

FinishMatch(p) ==
  /\ At(p, "finish")
  /\ match' = "finished"
  /\ Refuse(p)
  /\ UNCHANGED <<round, veto, seeds, dealt, penalty, raid, bounds>>

\* The client goes away: an open transaction is undone, the rest is not done.
ClientGone(p) ==
  /\ ~At(p, "idle") /\ cancelled < load.gone
  /\ cancelled' = cancelled + 1
  /\ Refuse(p)
  /\ UNCHANGED <<tables, load, made>>

-------------------------------------------------------------------------------
\* CreateMatch: rounds without maps; the only round gets a random one.
Init ==
  /\ load \in Loads
  /\ round \in [Number -> [status : {"pending"},
                           map : IF TotalRounds = 1 THEN load.maps ELSE {NoMap}]]
  /\ veto = {} /\ seeds = Seeds /\ dealt = <<>> /\ penalty = {}
  /\ match \in {"live", "upcoming"}
  /\ raid = [side |-> NoSide, starts |-> <<>>]
  /\ req = [p \in Request |-> Blank]
  /\ made = 0 /\ cancelled = 0

CodeLists == {q \in UNION {[1..n -> load.maps] : n \in 1..3} : IsInjective(q)}

Arrives(p) ==
  \/ \E m \in load.maps : HandleVeto(p, m)
  \/ HandleVetoUndo(p) \/ HandleNextRound(p) \/ HandleFinishMatch(p)
  \/ \E ms \in CodeLists : HandleSetMatchMaps(p, ms)
  \/ \E s \in Side : HandleFirstSide(p, s) \/ HandleMatchFocus(p, s)
  \/ \E i \in 1..Len(dealt) : \/ HandleRerollTask(p, i)
                              \/ HandleRemoveBonusTask(p, i)
                              \/ \E s \in Side \cup {NoSide} : HandleMarkTask(p, i, s)
  \/ \E n \in Number, s \in Side :
       \/ \E c \in Protocol \cup {NoProtocol} : HandleSetProtocol(p, n, s, c)
       \/ \E d \in {1, -1} : HandleAdjustProtocolViolations(p, n, s, d)
       \/ \E t \in load.tasks : HandleAssignBonusTask(p, n, s, t)
       \/ HandleDealContracts(p, n, s, 2)
  \/ \E n \in Number, st \in {"pending", "live", "finished"}, m \in load.maps :
       HandleUpdateRound(p, n, st, m)

Proceeds(p) ==
  \/ RoundsStarted(p) \/ CountMoves(p) \/ InsertMove(p) \/ FindLastMove(p)
  \/ DeleteMove(p) \/ SaveMaps(p) \/ SaveFirstSide(p)
  \/ ReadRounds(p) \/ BeginRound(p) \/ LookDealt(p) \/ PickTask(p) \/ PutTask(p)
  \/ ReadRaid(p) \/ AimRaid(p) \/ RecordRaidStart(p)
  \/ ReadAssignment(p) \/ PickOther(p) \/ SwapTask(p)
  \/ DrawContracts(p) \/ LookDuplicate(p) \/ AssignTask(p)
  \/ LookTaken(p) \/ ClearProtocol(p) \/ EnactProtocol(p)
  \/ CloseRounds(p) \/ FinishMatch(p)

Next == \E p \in Request : Arrives(p) \/ Proceeds(p) \/ ClientGone(p)

Spec == Init /\ [][Next]_vars

-------------------------------------------------------------------------------
(* Properties. Each handler looks first and writes in later statements, so *)
(* most of what its comment says holds for one judge only: with two at     *)
(* once a second start under way deals a task twice, a round that begins   *)
(* meanwhile changes its map, a finished match is set live again.          *)

\* The tables hold what their columns and unique constraints allow.
TypeOK ==
  /\ round \in [Number -> Rounds] /\ veto \subseteq Moves
  /\ \A v, w \in veto : v.seq = w.seq => v = w
  /\ dealt \in Seq(Assignments) /\ penalty \subseteq Penalties
  /\ match \in {"upcoming", "live", "finished"}

\* However moves and undos of several requests interleave, a round has the map
\* of its pick and none without one (VetoMap, VetoUndo, setRoundMap); the only
\* round of a match has a random one and no veto.
PicksAreMaps ==
  TotalRounds > 1 /\ load.kinds \subseteq {"veto", "undo", "first", "next"} => \A n \in Number :
    LET pick == {v.map : v \in {x \in veto : VetoOrder[x.seq].round = n}} IN
    IF pick = {} THEN round[n].map = NoMap ELSE pick = {round[n].map}

\* The moves made are the first moves of the order, with none left out (VetoMap:
\* "делает следующий ход").
VetoInOrder == OneJudge => {v.seq : v \in veto} = 1..Cardinality(veto)

\* After the first round began no round changes its map (roundsStarted: "после
\* этого карты не меняются"), unless the route of the old console sets it.
MapsFixed ==
  Started /\ OneJudge /\ "patch" \notin load.kinds =>
       \A n \in Number : round'[n].map = round[n].map

\* Rounds are played one after the other, one at a time, each on a map; a round
\* is not played again (StartNextRound).
RoundsInOrder ==
  OneJudge /\ "patch" \notin load.kinds => \A n \in Number :
    /\ round[n].status # "pending" =>
         /\ round[n].map # NoMap
         /\ \A k \in 1..(n - 1) : round[k].status = "finished"
    /\ round[n].status = "live" => \A k \in Number \ {n} : round[k].status # "live"

\* A task comes up once in a match (DealRoundTasks, pickTask, AssignBonusTask:
\* "повторов в матче нет").
TasksOnce ==
  OneJudge => \A i, j \in 1..Len(dealt) :
    dealt[i].task # NoTask /\ dealt[i].task = dealt[j].task => i = j

\* The requests that deal by hand or again. A round that has a task by hand when it
\* begins is dealt no others, and a task that is dealt again is free for later rounds.
ByHand == {"assign", "contracts", "remove", "reroll", "patch"}

\* With no request under way a round that began has three tasks for each side,
\* unless every ordinary task for the round was used up, a client went away or
\* tasks are dealt by hand (DealRoundTasks: "задания раунда раздаются сразу").
FullDeal ==
  Still /\ OneJudge /\ load.gone = 0 /\ load.kinds \cap ByHand = {} =>
  \A n \in Number, s \in Side : round[n].status # "pending" =>
    \/ Cardinality({i \in 1..Len(dealt) : dealt[i].round = n /\ dealt[i].side = s}) >= 3
    \/ Pickable(n, FALSE, NoTask) = {}

\* A task that was done is not dealt again ("выполненное задание не
\* перебрасывается", handleRerollTask).
DoneIsKept ==
  OneJudge => \A i \in 1..Len(dealt) :
       dealt[i].by # NoSide /\ dealt'[i].by # NoSide => dealt'[i].task = dealt[i].task

\* A finished match is not brought back by the requests of its rounds
\* (matchGuard: "не даёт править завершённый матч").
FinishedStays == OneJudge /\ match = "finished" => match' = "finished"

\* What was decided is not undone by the requests of the rounds: the maps once play began,
\* the tasks that were done, the end of the match.
NothingUndone == [][MapsFixed /\ DoneIsKept /\ FinishedStays]_vars

\* In one round a side has one protocol, and not the opponent's, while one judge sets
\* them (SetParticipantProtocol, round_penalties.go:40: one protocol in the round, no
\* repeats within the round). The head of that file, line 11, speaks of one protocol in
\* the whole match; the code asks for neither that nor for other protocols in later rounds.
OneProtocol ==
  OneJudge => \A x, y \in penalty :
    x # y /\ x.round = y.round => x.side # y.side /\ x.protocol # y.protocol

\* Two raids in a row are not of the same side in the same round (handleMatchFocus:
\* "повторное нажатие на ту же сторону рейд не начинает"), unless a client goes away
\* between the side and its raid: then the raid that was not recorded is forgotten.
RaidsAlternate ==
  OneJudge /\ load.gone = 0 /\ "patch" \notin load.kinds =>
    \A i \in 1..(Len(raid.starts) - 1) : raid.starts[i] # raid.starts[i + 1]

\* The route: moves in order, a map for every pick, rounds one by one on their maps.
RouteIsPlayed == TypeOK /\ PicksAreMaps /\ VetoInOrder /\ RoundsInOrder

\* What the sides share of a round, round by round: the protocols, and the raids in turn.
SidesShare == OneProtocol /\ RaidsAlternate
===============================================================================
