------------------------------ MODULE MatchScore ------------------------------
(***************************************************************************)
(* The score of one round of a match as the console edits it: points,      *)
(* knocks, tasks and legendary contracts, the log that undoes them, and    *)
(* the outcome of the match (internal/store/matches.go, matchstate.go,     *)
(* round_entries.go, bonus_tasks.go, legendary.go and the handlers of      *)
(* internal/api/matches_handlers.go that call them).                       *)
(*                                                                         *)
(* A handler is not one transaction: it reads rows, writes them back, adds *)
(* up the totals, writes the log and decides the outcome in statements of  *)
(* their own, each an action here. req[p] is the request p is serving: how *)
(* far it is (pc) and what it keeps in local variables. Only adjustMember  *)
(* is a transaction; it holds the player's row from its read to its        *)
(* commit, when there is a row. A client may go away at any time: the      *)
(* context of the request ends and what is left of it is not done.         *)
(***************************************************************************)
EXTENDS Integers, FiniteSets, Sequences, SequencesExt

CONSTANTS
  Request,      \* requests that may be served at the same time
  Seeds,        \* the two sides of the match, by seed
  User,         \* players of teams
  Roster,       \* the players of each side: none for a single player
  Task,         \* tasks dealt in the round
  Owner,        \* whose task it is
  Timed,        \* the tasks "on time"
  Worth,        \* the points of a task in the catalog
  Legendary,    \* legendary contracts
  NoSide, NoUser, NoTask, NoLegendary,
  Loads,        \* bounds: what is asked of the server, see load
  Deltas,       \* the corrections of points that are asked for
  KnockPoints, ContractCrossPoints, LegendaryPoints

Side == ToSet(Seeds)

ASSUME ScoreAssumption ==
  /\ Seeds \in Seq(Side) /\ Len(Seeds) = 2 /\ Seeds[1] # Seeds[2] /\ NoSide \notin Side
  /\ Roster \in [Side -> SUBSET User] /\ NoUser \notin User
  /\ Owner \in [Task -> Side] /\ Timed \subseteq Task /\ NoTask \notin Task
  /\ Worth \in [Task -> Nat] /\ NoLegendary \notin Legendary
  /\ Deltas \subseteq Int \ {0}
  /\ {KnockPoints, ContractCrossPoints, LegendaryPoints} \subseteq Nat
  /\ Loads \subseteq [kinds : SUBSET STRING, at : Nat, made : Nat, gone : Nat,
                     tasks : SUBSET Task]
  /\ Request # {} /\ \A S \in {Request, User, Task, Legendary} : IsFiniteSet(S)

VARIABLES
  load,      \* the kinds of requests that come, how many at a time and in all, how
             \* many clients go away, and the tasks of the round
  db,        \* the tables a score is made of, see Tables
  total,     \* participants.total_points
  log,       \* match_log, oldest first
  match,     \* the tournament and its round, see Matches
  req,       \* the requests being served
  made,      \* requests made so far
  cancelled  \* clients gone so far

bounds == <<load, made, cancelled>>
vars   == <<db, total, log, match, req, bounds>>

\* round_entries, round_member_entries and the pairs that have a row there, what
\* the starter tasks brought, completed_by and completed_user_id of the tasks,
\* who completed a legendary contract, and the contracts with status done.
Counts == [points : Nat, knocks : Nat]
Marks  == [by : Side \cup {NoSide}, user : User \cup {NoUser}]
Tables == [entry  : [Side -> Counts],
           member : [Side -> [User -> Counts]],
           rows   : SUBSET (Side \X User),
           main   : [Side -> Nat],
           done   : [Task -> Marks],
           taken  : [Legendary -> Side \cup {NoSide}],
           spent  : SUBSET Legendary]

\* rated: the outcome the ratings were last computed from.
Matches == [status : {"live", "finished"}, round : {"live", "finished"},
            winner : Side \cup {NoSide}, rated : Side \cup {NoSide}]

Zero    == [points |-> 0, knocks |-> 0]
NotDone == [by |-> NoSide, user |-> NoUser]
NoLog   == [id |-> 0, type |-> "none", side |-> NoSide, user |-> NoUser,
            applied |-> 0, task |-> NoTask, prev |-> NotDone, leg |-> NoLegendary]

\* A request that is not served. fin: the match was finished when it began;
\* seen, held: the counters it read and whether it locked their row; entry: the
\* log row it will write or is undoing; todo, src, sum, got: the totals being
\* added up, tally when they decide the outcome.
Blank == [kind |-> "none", pc |-> "idle", fin |-> FALSE, side |-> NoSide,
          user |-> NoUser, delta |-> 0, task |-> NoTask, by |-> "none",
          leg |-> NoLegendary, seen |-> Zero, held |-> FALSE, entry |-> NoLog,
          todo |-> <<>>, src |-> 1, sum |-> 0, got |-> [s \in Side |-> 0],
          tally |-> FALSE]

Larger(a, b) == IF a > b THEN a ELSE b
Opponent(s)  == CHOOSE x \in Side : x # s
Player(s)    == IF Roster[s] = {} THEN {NoUser} ELSE Roster[s]

\* matchWinner: the side that is ahead; nobody when the score is equal.
Ahead(score) ==
  LET a == Seeds[1]
      b == Seeds[2]
  IN  IF score[a] > score[b] THEN a
      ELSE IF score[b] > score[a] THEN b ELSE NoSide

-------------------------------------------------------------------------------
(* The sources of a side's points in the tables d: participantBreakdown    *)
(* reads them one by one.                                                  *)

TaskPoints(d, t, s) ==
  IF d.done[t].by # s THEN 0
  ELSE IF Owner[t] = s THEN Worth[t] ELSE ContractCrossPoints

Sources(d, s) ==
  << d.entry[s].points,
     d.main[s],
     SumFunction([t \in Task |-> TaskPoints(d, t, s)]),
     LegendaryPoints * Cardinality({l \in Legendary : d.taken[l] = s}) >>

Breakdown(d, s) == LET b == Sources(d, s) IN b[1] + b[2] + b[3] + b[4]

-------------------------------------------------------------------------------
(* A request comes in. *)

At(p, pc)   == req[p].pc = pc
Serve(p, r) == req' = [req EXCEPT ![p] = r]

\* What scoreRound looks at: the match goes on and its round is live, or it is
\* finished and the round was played.
Scoring == match.round = match.status

Accept(p, r) ==
  /\ At(p, "idle") /\ made < load.made /\ r.kind \in load.kinds
  /\ Cardinality({o \in Request : ~At(o, "idle")}) < load.at
  /\ Serve(p, [r EXCEPT !.fin = match.status = "finished"])
  /\ made' = made + 1
  /\ UNCHANGED <<load, db, total, log, match, cancelled>>

\* POST points and POST knocks: for a side, or for a player of a team.
HandleMatchPoints(p, s, u, d) ==
  /\ Scoring
  /\ Accept(p, [Blank EXCEPT !.kind = "points", !.pc = "read", !.side = s,
                             !.user = u, !.delta = d])

HandleMatchKnock(p, s, u, d) ==
  /\ Scoring
  /\ Accept(p, [Blank EXCEPT !.kind = "knock", !.pc = "read", !.side = s,
                             !.user = u, !.delta = d])

\* POST mark: only the owner's mark names a player.
HandleMarkTask(p, t, by, u) ==
  /\ IF by = "owner" THEN u \in Player(Owner[t]) ELSE u = NoUser
  /\ Accept(p, [Blank EXCEPT !.kind = "task", !.pc = "look", !.task = t,
                             !.by = by, !.user = u])

HandleMatchLegendary(p, l, s) ==
  /\ Scoring
  /\ Accept(p, [Blank EXCEPT !.kind = "legendary", !.pc = "complete",
                             !.leg = l, !.side = s])

HandleMatchUndo(p) ==
  Accept(p, [Blank EXCEPT !.kind = "undo", !.pc = "take"])

\* POST finish: the totals of both sides are added up first.
Tally(r) == [r EXCEPT !.pc = "sum", !.todo = Seeds, !.tally = TRUE]

HandleFinishMatch(p) ==
  /\ match.status # "finished"
  /\ Accept(p, Tally([Blank EXCEPT !.kind = "finish"]))

\* The routes of the old console: the points of a side set outright, and the
\* counter of a starter task.
HandleUpsertRoundEntry(p, s, points) ==
  /\ match.status # "finished"
  /\ Accept(p, [Blank EXCEPT !.kind = "entry", !.pc = "put", !.side = s,
                             !.delta = points])

HandleAdjustRoundTaskCount(p, s, d) ==
  /\ match.status # "finished"
  /\ Accept(p, [Blank EXCEPT !.kind = "main", !.pc = "put", !.side = s,
                             !.delta = d])

-------------------------------------------------------------------------------
(* Points and knocks. *)

\* What a correction makes of a pair of counters: points are not taken below
\* those of the knocks, knocks not below none.
AfterPoints(c, d) == [c EXCEPT !.points = Larger(c.points + d, c.knocks * KnockPoints)]

\* The knocks that are really given or taken.
AppliedKnocks(c, d) == Larger(c.knocks + d, 0) - c.knocks

AfterKnocks(c, d) ==
  [points |-> Larger(c.points + AppliedKnocks(c, d) * KnockPoints, 0),
   knocks |-> c.knocks + AppliedKnocks(c, d)]

IsKnock(r) == r.kind = "knock" \/ r.entry.type = "knock"
After(r)   == IF IsKnock(r) THEN AfterKnocks(r.seen, r.delta)
                            ELSE AfterPoints(r.seen, r.delta)
Applied(r) == IF IsKnock(r) THEN After(r).knocks - r.seen.knocks
                            ELSE After(r).points - r.seen.points

\* adjustMember reads FOR UPDATE: a row that exists is waited for, one that does
\* not exist locks nothing.
Locked(s, u) == \E p \in Request : /\ At(p, "write") /\ req[p].held
                                   /\ req[p].side = s /\ req[p].user = u

ReadCounts(p) ==
  LET r == req[p]
      s == r.side
      u == r.user
  IN  /\ At(p, "read")
      /\ u # NoUser => ~Locked(s, u)
      /\ Serve(p, [r EXCEPT
           !.pc   = "write",
           !.seen = IF u = NoUser THEN db.entry[s] ELSE db.member[s][u],
           !.held = u # NoUser /\ <<s, u>> \in db.rows])
      /\ UNCHANGED <<db, total, log, match, bounds>>

\* What follows a correction: an undo erases its log row; another one adds up
\* the side's total and writes one, unless it changed nothing.
Scored(r) ==
  LET n == [r EXCEPT !.todo = <<r.side>>, !.held = FALSE] IN
  IF r.kind = "undo" THEN [n EXCEPT !.pc = "erase"]
  ELSE IF Applied(r) = 0 THEN Blank
  ELSE [n EXCEPT !.pc = "sum",
                 !.entry = [NoLog EXCEPT !.type = r.kind, !.side = r.side,
                              !.user = r.user, !.applied = Applied(r)]]

SaveCounts(p) ==
  LET r == req[p] IN
  /\ At(p, "write") /\ r.user = NoUser
  /\ db' = IF IsKnock(r) /\ Applied(r) = 0 THEN db
           ELSE [db EXCEPT !.entry[r.side] = After(r)]
  /\ Serve(p, Scored(r))
  /\ UNCHANGED <<total, log, match, bounds>>

\* Mutant: the side gets all that the player has now, not the difference.
MoveMemberWhole(s, u, was, now) ==
  IF was = now THEN db
  ELSE [db EXCEPT
          !.member[s][u] = now,
          !.rows = @ \cup {<<s, u>>},
          !.entry[s] = [points |-> @.points + now.points, knocks |-> @.knocks + now.knocks]]

\* The transaction of adjustMember writes the player's row outright and the
\* side's by the difference: a row that appeared since the read is overwritten,
\* one that another transaction holds is waited for.
MoveMember(s, u, was, now) ==
  IF was = now THEN db
  ELSE [db EXCEPT
          !.member[s][u] = now,
          !.rows = @ \cup {<<s, u>>},
          !.entry[s] = [points |-> Larger(@.points + now.points - was.points, 0),
                        knocks |-> Larger(@.knocks + now.knocks - was.knocks, 0)]]

SaveMember(p) ==
  LET r == req[p] IN
  /\ At(p, "write") /\ r.user # NoUser
  /\ ~r.held => ~Locked(r.side, r.user)
  /\ db' = MoveMember(r.side, r.user, r.seen, After(r))
  /\ Serve(p, Scored(r))
  /\ UNCHANGED <<total, log, match, bounds>>

-------------------------------------------------------------------------------
(* Tasks, legendary contracts, the old console. *)

\* Mutant: a second player may be credited, and the opponent after the owner.
MayMarkAgain(r, mark) == r.by = "opponent" => r.task \notin Timed

\* MarkTask: a team's task is done once; the owner's mark stands against the
\* opponent's; a task on time is the owner's alone.
MayMark(r, mark) ==
  LET owner == Owner[r.task] IN
  CASE r.by = "owner"    -> ~(mark.by = owner /\ mark.user \notin {NoUser, r.user})
    [] r.by = "opponent" -> r.task \notin Timed /\ mark.by # owner
    [] r.by = "none"     -> TRUE

Marked(r) ==
  CASE r.by = "owner"    -> [by |-> Owner[r.task], user |-> r.user]
    [] r.by = "opponent" -> [by |-> Opponent(Owner[r.task]), user |-> NoUser]
    [] r.by = "none"     -> NotDone

LookAtTask(p) ==
  LET r == req[p]
      e == [NoLog EXCEPT !.type = "task", !.task = r.task, !.side = Marked(r).by,
                         !.prev = db.done[r.task]]
  IN  /\ At(p, "look")
      /\ Serve(p, IF MayMark(r, e.prev) THEN [r EXCEPT !.pc = "mark", !.entry = e]
                                        ELSE Blank)
      /\ UNCHANGED <<db, total, log, match, bounds>>

\* The totals of the sides are added up in any order, then the request goes on.
Recompute(r, sides) ==
  {[r EXCEPT !.pc = "sum", !.todo = o] :
     o \in {q \in SetToAllKPermutations(sides) : ToSet(q) = sides}}

WriteMark(p) ==
  LET r == req[p] IN
  /\ At(p, "mark")
  /\ db' = [db EXCEPT !.done[r.task] = Marked(r)]
  /\ \E n \in Recompute(r, {r.entry.prev.by, Marked(r).by} \ {NoSide}) : Serve(p, n)
  /\ UNCHANGED <<total, log, match, bounds>>

\* CompleteLegendary: the row is unique, a second one is refused; the status of
\* the contract follows in a statement of its own.
InsertCompletion(p) ==
  LET r == req[p] IN
  /\ At(p, "complete")
  /\ IF db.taken[r.leg] # NoSide
     THEN Serve(p, Blank) /\ UNCHANGED db
     ELSE /\ db' = [db EXCEPT !.taken[r.leg] = r.side]
          /\ Serve(p, [r EXCEPT !.pc = "spend",
                 !.entry = [NoLog EXCEPT !.type = "legendary", !.side = r.side,
                                         !.leg = r.leg]])
  /\ UNCHANGED <<total, log, match, bounds>>

MarkSpent(p) ==
  LET r == req[p] IN
  /\ At(p, "spend")
  /\ db' = [db EXCEPT !.spent = @ \cup {r.leg}]
  /\ Serve(p, [r EXCEPT !.pc = "sum", !.todo = <<r.side>>])
  /\ UNCHANGED <<total, log, match, bounds>>

\* UpsertRoundEntry and AdjustRoundTaskCount: one statement, then the total.
PutEntry(p) ==
  LET r == req[p] IN
  /\ At(p, "put")
  /\ db' = IF r.kind = "entry"
           THEN [db EXCEPT !.entry[r.side].points = Larger(r.delta, 0)]
           ELSE [db EXCEPT !.main[r.side] = Larger(@ + r.delta, 0)]
  /\ Serve(p, [r EXCEPT !.pc = "sum", !.todo = <<r.side>>])
  /\ UNCHANGED <<total, log, match, bounds>>

-------------------------------------------------------------------------------
(* Totals, log, outcome. *)

\* Mutant: only an edit of the score decides again, an undo does not.
ConcludeEdit(r) == IF r.fin /\ r.kind # "undo"
                   THEN Tally([r EXCEPT !.src = 1, !.sum = 0]) ELSE Blank

\* A score of a finished match was changed: its outcome is decided again.
Conclude(r) == IF r.fin THEN Tally([r EXCEPT !.src = 1, !.sum = 0]) ELSE Blank

\* All sides are added up.
Added(r) ==
  LET n == [r EXCEPT !.todo = <<>>, !.src = 1, !.sum = 0] IN
  IF r.tally THEN [n EXCEPT !.pc = IF r.kind = "finish" THEN "close" ELSE "prior"]
  ELSE IF r.kind = "undo" THEN Conclude(n)
  ELSE IF r.kind \in {"entry", "main"} THEN Blank
  ELSE [n EXCEPT !.pc = "log"]

ReadSource(p) ==
  LET r == req[p] IN
  /\ At(p, "sum") /\ r.todo # <<>> /\ r.src <= 4
  /\ Serve(p, [r EXCEPT !.src = @ + 1, !.sum = @ + Sources(db, Head(r.todo))[r.src]])
  /\ UNCHANGED <<db, total, log, match, bounds>>

SaveTotal(p) ==
  LET r == req[p]
      n == [r EXCEPT !.todo = Tail(@), !.src = 1, !.sum = 0,
                     !.got = IF r.tally THEN [@ EXCEPT ![Head(r.todo)] = r.sum] ELSE @]
  IN  /\ At(p, "sum") /\ r.todo # <<>> /\ r.src > 4
      /\ total' = [total EXCEPT ![Head(r.todo)] = r.sum]
      /\ Serve(p, IF n.todo = <<>> THEN Added(n) ELSE n)
      /\ UNCHANGED <<db, log, match, bounds>>

\* A mark that was taken off nobody and given to nobody touches no total.
NothingToAdd(p) ==
  /\ At(p, "sum") /\ req[p].todo = <<>>
  /\ Serve(p, Added(req[p]))
  /\ UNCHANGED <<db, total, log, match, bounds>>

FreshId == CHOOSE n \in 1..(Len(log) + Cardinality(Request) + 1) :
             /\ \A i \in 1..Len(log) : log[i].id # n
             /\ \A p \in Request : req[p].entry.id # n

\* AddMatchLog.
AddMatchLog(p) ==
  LET r == req[p] IN
  /\ At(p, "log")
  /\ log' = Append(log, [r.entry EXCEPT !.id = FreshId])
  /\ Serve(p, Conclude(r))
  /\ UNCHANGED <<db, total, match, bounds>>

\* FinishMatch: the round, then the tournament, then the ratings.
CloseRounds(p) ==
  /\ At(p, "close")
  /\ match' = [match EXCEPT !.round = "finished"]
  /\ Serve(p, [req[p] EXCEPT !.pc = "crown"])
  /\ UNCHANGED <<db, total, log, bounds>>

FinishTournament(p) ==
  LET r == req[p] IN
  /\ At(p, "crown") /\ r.kind = "finish"
  /\ match' = [match EXCEPT !.status = "finished", !.winner = Ahead(r.got)]
  /\ Serve(p, [r EXCEPT !.pc = "rate"])
  /\ UNCHANGED <<db, total, log, bounds>>

\* RescoreFinishedMatch: the winner so far, the new one, and the ratings when
\* they differ.
ReadWinner(p) ==
  LET r == req[p] IN
  /\ At(p, "prior")
  /\ Serve(p, [r EXCEPT !.pc = "crown", !.side = match.winner])
  /\ UNCHANGED <<db, total, log, match, bounds>>

Recrown(p) ==
  LET r == req[p] IN
  /\ At(p, "crown") /\ r.kind # "finish"
  /\ match' = [match EXCEPT !.winner = Ahead(r.got)]
  /\ Serve(p, IF Ahead(r.got) = r.side THEN Blank ELSE [r EXCEPT !.pc = "rate"])
  /\ UNCHANGED <<db, total, log, bounds>>

\* ApplyTournamentMmr or RecomputeAllMmr, which read the outcome anew.
Rate(p) ==
  /\ At(p, "rate")
  /\ match' = [match EXCEPT !.rated = match.winner]
  /\ Serve(p, Blank)
  /\ UNCHANGED <<db, total, log, bounds>>

-------------------------------------------------------------------------------
(* UndoLastMatchLog. *)

\* The last row of the log, and what its undo begins with.
TakeLast(p) ==
  LET r == req[p]
      e == log[Len(log)]
      n == [r EXCEPT !.entry = e, !.side = e.side, !.user = e.user,
                     !.delta = -e.applied, !.task = e.task, !.leg = e.leg]
  IN  /\ At(p, "take")
      /\ Serve(p, IF log = <<>> THEN Blank
                  ELSE [n EXCEPT !.pc = CASE e.type = "task"      -> "restore"
                                          [] e.type = "legendary" -> "holder"
                                          [] OTHER                -> "read"])
      /\ UNCHANGED <<db, total, log, match, bounds>>

RestoreMark(p) ==
  LET r == req[p]
      e == r.entry
  IN  /\ At(p, "restore")
      /\ db' = [db EXCEPT !.done[r.task] = e.prev]
      /\ \E n \in Recompute(r, {e.prev.by, e.side} \ {NoSide}) :
           Serve(p, [n EXCEPT !.pc = "erase"])
      /\ UNCHANGED <<total, log, match, bounds>>

\* UncompleteLegendary: who completed it, the row, the status.
ReadHolder(p) ==
  LET r == req[p]
      s == db.taken[r.leg]
  IN  /\ At(p, "holder")
      /\ Serve(p, [r EXCEPT !.pc = "release",
                            !.todo = IF s = NoSide THEN <<>> ELSE <<s>>])
      /\ UNCHANGED <<db, total, log, match, bounds>>

DeleteCompletion(p) ==
  LET r == req[p] IN
  /\ At(p, "release")
  /\ db' = [db EXCEPT !.taken[r.leg] = NoSide]
  /\ Serve(p, [r EXCEPT !.pc = "reopen"])
  /\ UNCHANGED <<total, log, match, bounds>>

MarkAvailable(p) ==
  LET r == req[p] IN
  /\ At(p, "reopen")
  /\ db' = [db EXCEPT !.spent = @ \ {r.leg}]
  /\ Serve(p, [r EXCEPT !.pc = "erase"])
  /\ UNCHANGED <<total, log, match, bounds>>

\* Mutant: the log row stays.
EraseNothing(p) ==
  /\ At(p, "erase")
  /\ Serve(p, [req[p] EXCEPT !.pc = "sum"])
  /\ UNCHANGED <<db, total, log, match, bounds>>

EraseLog(p) ==
  LET r    == req[p]
      rows == {i \in 1..Len(log) : log[i].id = r.entry.id}
  IN  /\ At(p, "erase")
      /\ log' = IF rows = {} THEN log ELSE RemoveAt(log, CHOOSE i \in rows : TRUE)
      /\ Serve(p, [r EXCEPT !.pc = "sum"])
      /\ UNCHANGED <<db, total, match, bounds>>

-------------------------------------------------------------------------------
\* The client goes away: what the request still had to do is not done.
ClientGone(p) ==
  /\ ~At(p, "idle") /\ cancelled < load.gone
  /\ cancelled' = cancelled + 1
  /\ Serve(p, Blank)
  /\ UNCHANGED <<load, db, total, log, match, made>>

Init ==
  /\ load \in Loads
  /\ db = [entry  |-> [s \in Side |-> Zero],
           member |-> [s \in Side |-> [u \in User |-> Zero]],
           rows   |-> {},
           main   |-> [s \in Side |-> 0],
           done   |-> [t \in Task |-> NotDone],
           taken  |-> [l \in Legendary |-> NoSide],
           spent  |-> {}]
  /\ total = [s \in Side |-> 0]
  /\ log = <<>>
  /\ match = [status |-> "live", round |-> "live", winner |-> NoSide, rated |-> NoSide]
  /\ req = [p \in Request |-> Blank]
  /\ made = 0
  /\ cancelled = 0

Arrives(p) ==
  \/ \E s \in Side : \E u \in Player(s) :
       \/ \E d \in Deltas : HandleMatchPoints(p, s, u, d)
       \/ \E d \in {1, -1} : HandleMatchKnock(p, s, u, d)
  \/ \E t \in load.tasks, by \in {"owner", "opponent", "none"}, u \in User \cup {NoUser} :
       HandleMarkTask(p, t, by, u)
  \/ \E l \in Legendary, s \in Side : HandleMatchLegendary(p, l, s)
  \/ HandleMatchUndo(p)
  \/ HandleFinishMatch(p)
  \/ \E s \in Side, points \in {0, 1} : HandleUpsertRoundEntry(p, s, points)
  \/ \E s \in Side, d \in {1, -1} : HandleAdjustRoundTaskCount(p, s, d)

Proceeds(p) ==
  \/ ReadCounts(p) \/ SaveCounts(p) \/ SaveMember(p)
  \/ LookAtTask(p) \/ WriteMark(p)
  \/ InsertCompletion(p) \/ MarkSpent(p) \/ PutEntry(p)
  \/ ReadSource(p) \/ SaveTotal(p) \/ NothingToAdd(p) \/ AddMatchLog(p)
  \/ CloseRounds(p) \/ FinishTournament(p) \/ ReadWinner(p) \/ Recrown(p) \/ Rate(p)
  \/ TakeLast(p) \/ RestoreMark(p) \/ ReadHolder(p) \/ DeleteCompletion(p)
  \/ MarkAvailable(p) \/ EraseLog(p)

Next == \E p \in Request : Arrives(p) \/ Proceeds(p) \/ ClientGone(p)

Spec == Init /\ [][Next]_vars

-------------------------------------------------------------------------------
(* Properties. *)

Still == \A p \in Request : At(p, "idle")

\* The console of one judge: a request is answered before the next is made, and
\* none is given up.
OneJudge == load.at = 1 /\ load.gone = 0

\* Nobody uses the routes of the old console, which write a side's points outright
\* and no log.
NewConsole == load.kinds \cap {"entry", "main"} = {}

\* The tables, the totals and the log hold what their columns may hold.
TypeOK ==
  /\ db \in Tables
  /\ total \in [Side -> Nat]
  /\ match \in Matches
  /\ \A i, j \in 1..Len(log) : log[i].id = log[j].id => i = j
  /\ made \in 0..load.made /\ cancelled \in 0..load.gone

\* However the corrections of several requests interleave, a side and a player
\* always have at least the points of their knocks (the comments of
\* AdjustRoundPoints and AdjustMemberPoints).
KnocksKeepTheirPoints ==
  NewConsole => \A s \in Side :
    /\ db.entry[s].points >= db.entry[s].knocks * KnockPoints
    /\ \A u \in User : db.member[s][u].points >= db.member[s][u].knocks * KnockPoints

\* What the players of a side have between them, and what of their points is not
\* that of knocks.
OfPlayers(f, s) == SumFunctionOnSet(f, Roster[s])
Spare(c)        == c.points - c.knocks * KnockPoints

\* The players of a team never have more knocks, nor more points beyond those of
\* knocks, than their side: what one of them gave is always there to be undone,
\* so no correction of a player meets the zero of the side's row (adjustMember).
PlayersWithinSide ==
  NewConsole => \A s \in {x \in Side : Roster[x] # {}} :
    LET knocks == [u \in User |-> db.member[s][u].knocks]
        spare  == [u \in User |-> Spare(db.member[s][u])]
    IN  /\ OfPlayers(knocks, s) <= db.entry[s].knocks
        /\ OfPlayers(spare, s) <= Spare(db.entry[s])

\* A task on time is nobody's but its owner's, under any interleaving of marks
\* and undos (MarkTask).
TimedIsPersonal == \A t \in Timed : db.done[t].by \in {Owner[t], NoSide}

\* The row of a team's side is the sum of its players' rows (adjustMember: "на
\* столько же"). Of two first edits of a player at once, which find no row to lock,
\* the later overwrites his.
SideIsItsPlayers ==
  OneJudge /\ NewConsole => \A s \in {x \in Side : Roster[x] # {}} :
    LET points == [u \in User |-> db.member[s][u].points]
        knocks == [u \in User |-> db.member[s][u].knocks]
    IN  /\ OfPlayers(points, s) = db.entry[s].points
        /\ OfPlayers(knocks, s) = db.entry[s].knocks

\* What the log says happened to a side's counters and to a task.
Logged(s, type) ==
  SumFunction([i \in 1..Len(log) |->
    IF log[i].type = type /\ log[i].side = s THEN log[i].applied ELSE 0])
LastMark(t) ==
  LET marks == {i \in 1..Len(log) : log[i].type = "task" /\ log[i].task = t}
  IN  IF marks = {} THEN NoSide ELSE log[Max(marks)].side

\* With no request under way the log, undone rows taken out of it, explains the
\* score: each edit was applied once and each undo took back exactly one
\* (AddMatchLog, UndoLastMatchLog). Two judges at once may lose an edit or undo
\* one twice.
LogExplainsScore ==
  Still /\ OneJudge /\ NewConsole =>
    /\ \A s \in Side :
         /\ db.entry[s].knocks = Logged(s, "knock")
         /\ db.entry[s].points = Logged(s, "points") + KnockPoints * Logged(s, "knock")
    /\ \A t \in Task : db.done[t].by = LastMark(t)
    /\ \A l \in Legendary :
         (db.taken[l] # NoSide) <=> \E i \in 1..Len(log) : log[i].leg = l

\* With no request under way the totals are those of the tables and a contract is
\* marked as done exactly when somebody completed it (RecomputeParticipantPoints,
\* CompleteLegendary).
TotalsAddUp ==
  Still /\ OneJudge => /\ \A s \in Side : total[s] = Breakdown(db, s)
           /\ db.spent = {l \in Legendary : db.taken[l] # NoSide}

\* With no request under way a finished match was won by the side that is ahead,
\* and the ratings were computed from that outcome (matchFinished, rescore).
OutcomeIsTheScore ==
  Still /\ OneJudge /\ match.status = "finished" =>
    /\ match.winner = Ahead([s \in Side |-> Breakdown(db, s)])
    /\ match.rated = match.winner

\* The score a page may read between two requests: the sides' rows are within their types,
\* are the sums of their players' and never less than their knocks are worth.
RowsFit == TypeOK /\ SideIsItsPlayers /\ PlayersWithinSide /\ KnocksKeepTheirPoints

\* With no request under way totals, contracts, the winner and the ratings follow the tables.
ResultFollows == TotalsAddUp /\ OutcomeIsTheScore

\* A task its owner has done does not pass to the opponent or to another player
\* of the team: it must be taken back first (MarkTask, ErrTaskTaken); one on time never does.
OwnerKeepsTask ==
  [][TimedIsPersonal' /\ (OneJudge => \A t \in Task :
       LET was == db.done[t]
           now == db'.done[t]
       IN  was.by = Owner[t] /\ now # was =>
             now = NotDone \/ \E p \in Request : At(p, "restore"))]_vars
===============================================================================
