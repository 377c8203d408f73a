-------------------------------- MODULE Rating --------------------------------
(***************************************************************************)
(* The rating: rows of history for each finished match and each reset, and *)
(* a cache of what they add up to in the season that goes on               *)
(* (internal/store/mmr.go, with the handlers that finish, correct, void,   *)
(* reopen and delete a match and that begin or change a season).           *)
(*                                                                         *)
(* Nothing of this is a transaction: a request is a sequence of statements *)
(* (todo), each of them atomic, with the rest of the server in between.    *)
(***************************************************************************)
EXTENDS Integers, Sequences, FiniteSets, SequencesExt

CONSTANTS
  Request,      \* requests that may be served at the same time
  Player, Team, \* the sides that are rated: players 1x1, pairs 2x2
  Tour,         \* matches
  Sides,        \* the two sides of each
  Season,       \* seasons, numbered in the order they begin
  NoSide, NoTour, NoRow,
  Guest,        \* sides without a rating: a guest, a pair that is not complete
  Imported,     \* by how much a match that was imported moved each side
  Loads         \* bounds: what is asked of the server, see load

Side == Player \cup Team

ASSUME RatingAssumption ==
  /\ Sides \in [Tour -> [1..2 -> Side]] /\ \A t \in Tour : Sides[t][1] # Sides[t][2]
  /\ Season \subseteq Nat \ {0}
  /\ Player \cap Team = {} /\ NoSide \notin Side /\ NoTour \notin Tour /\ NoRow \notin Int
  /\ Guest \subseteq Side /\ Imported \in [Tour -> [Side -> Int]]
  /\ Loads \subseteq [kinds : SUBSET STRING, made : Nat, gone : BOOLEAN, dirty : BOOLEAN,
                     tours : SUBSET Tour, seasons : SUBSET Season, imported : SUBSET Tour,
                     plans : SUBSET Nat]
  /\ \A l \in Loads : IsFiniteSet(l.tours) /\ (l.dirty => 1 \in Season)

VARIABLES
  load,     \* the kinds of requests that come and how many in all, whether a client may
            \* leave and its request with it, whether the first state is whatever
            \* earlier requests left, the matches and the seasons there are, which of
            \* the matches were imported, the moments a show may be planned for
  tour,     \* matches: status, winner, voided, season, at, doubled: the sides with a
            \* token x2, pinned: whether the imported changes count
  resets,   \* the tokens that were spent on a reset: side, season, at
  seasons,  \* the seasons there are
  active,   \* the one that goes on; 0: none
  start,    \* the rating a season starts with
  history,  \* mmr_history and team_mmr_history
  cache,    \* user_mmr and team_mmr
  req,      \* the requests being served
  made,     \* requests made so far
  clock,    \* matches created and resets so far
  whole,    \* no request was cut short since everything was last counted
  inTurn    \* nothing that bears on a later event was counted after it since then

tables == <<tour, resets, seasons, active, start>>
vars   == <<tour, resets, seasons, active, start, history, cache, req, made, clock, whole, inTurn, load>>

St(op, t, s) == [op |-> op, t |-> t, s |-> s]
Blank == [todo |-> <<>>, winner |-> NoSide, voided |-> FALSE, rates |-> <<0, 0>>, sum |-> 0,
          season |-> 0, doubled |-> {}, pinned |-> FALSE]

Idle(p)   == req[p].todo = <<>>
Doing(p, op) == ~Idle(p) /\ Head(req[p].todo).op = op
It(p)     == Head(req[p].todo)
Rest(p)   == Tail(req[p].todo)
\* The request goes on with these statements, having read this.
GoOn(p, todo, r) == req' = [req EXCEPT ![p] = [r EXCEPT !.todo = todo]]
Next1(p)  == GoOn(p, Rest(p), req[p])
Stop(p)   == req' = [req EXCEPT ![p] = Blank]

RowsOf(h, s, n) == {x \in h : x.side = s /\ x.season = n}
Total(rows) == MapThenSumSet(LAMBDA x : x.delta, rows)

StartOf(n) == IF n = 0 THEN 0 ELSE start[n]
\* userSeasonMmr, teamSeasonMmr.
SeasonMmr(h, s, n) == StartOf(n) + Total(RowsOf(h, s, n))

\* eloWinMagnitude, in three steps: the less expected the win, the more it moves.
Gain(w, l) == IF w > l THEN 1 ELSE IF w = l THEN 2 ELSE 3

\* tokenMult: a token x2 doubles what its side wins or loses.
Doubled(m, s, d) == IF s \in m.doubled THEN 2 * d ELSE d

\* What a match with this result changes for a side: a voided match takes nothing from
\* the loser, an imported one counts as it was imported.
Change(t, m, s, g) ==
  IF m.voided /\ s # m.winner THEN 0
  ELSE IF m.pinned THEN Imported[t][s]
  ELSE Doubled(m, s, IF s = m.winner THEN g ELSE -g)

Row(s, t, d, before, n, at) ==
  [side |-> s, tour |-> t, delta |-> d, before |-> before, season |-> n, at |-> at]

-------------------------------------------------------------------------------
(* What the handlers set out to do.                                        *)

\* ApplyTournamentMmr, RevertTournamentMmr and RecomputeAllMmr as statements.
Revert(t) == <<St("rows", t, NoSide), St("wipe", t, NoSide)>>
Apply(t)  == <<St("load", t, NoSide)>> \o Revert(t) \o <<St("award", t, NoSide)>>
Refresh   == <<St("clear", NoTour, NoSide), St("fill", NoTour, NoSide), St("teams", NoTour, NoSide)>>
All       == <<St("truncate", NoTour, NoSide), St("list", NoTour, NoSide)>>
Cached(s) == <<St("sum", NoTour, s), St("write", NoTour, s)>>

Accept(p, kind, todo) ==
  /\ Idle(p) /\ made < load.made /\ kind \in load.kinds
  /\ made' = made + 1
  /\ GoOn(p, todo, Blank)
  /\ UNCHANGED <<tables, history, cache, clock, whole, inTurn, load>>

\* Mutant: a season begins and the cache stays with the season before.
HandleStartSeasonOnly(p) == Accept(p, "season", <<St("begin", NoTour, NoSide)>>)

HandleFinishMatch(p, t) ==
  Accept(p, "finish", <<St("guard", t, NoSide), St("close", t, NoSide)>>)
HandleRescore(p, t) == Accept(p, "rescore", <<St("ended", t, NoSide), St("rescore", t, NoSide)>>)
HandleVoidMatch(p, t) == Accept(p, "void", <<St("ended", t, NoSide), St("void", t, NoSide)>>)
HandleDeleteTournament(p, t) == Accept(p, "delete", <<St("delete", t, NoSide)>>)
\* A PATCH of the status, or of the winner alone.
HandleUpdateTournament(p, t, to) == Accept(p, "patch", <<St("old", t, NoSide), St(to, t, NoSide)>>)
HandleSetWinner(p, t, s) == Accept(p, "patch", <<St("named", t, s)>>)
HandleStartSeason(p) == Accept(p, "season", <<St("begin", NoTour, NoSide)>> \o Refresh)
HandleUpdateSeason(p) == Accept(p, "rules", <<St("rules", NoTour, NoSide)>> \o All)
HandleResetRating(p, s) ==
  Accept(p, "reset", <<St("rule", NoTour, s), St("reset", NoTour, s)>> \o Cached(s))
RunPendingRecompute(p) == Accept(p, "all", All)

\* Moments: what happens now, and what is planned. No two events have the same one.
Now   == 2 * clock
Plans == {2 * k + 1 : k \in load.plans} \ {tour[x].at : x \in Tour}

NobodyLive == \A x \in Tour : tour[x].status # "live"

\* CreateMatch: a match begins at once, one at a time; a show waits for its time.
CreateMatch(t) ==
  LET New(status, at) == tour' = [tour EXCEPT ![t] =
        [status |-> status, winner |-> NoSide, voided |-> FALSE, season |-> active, at |-> at,
         doubled |-> {}, pinned |-> FALSE]] IN
  /\ tour[t].status = "none"
  /\ \/ NobodyLive /\ New("live", Now)
     \/ load.plans # {} /\ \E at \in Plans \cup {Now} : New("upcoming", at)
  /\ clock' = clock + 1
  /\ UNCHANGED <<resets, seasons, active, start, history, cache, req, made, whole, inTurn, load>>

RescheduleShowMatch(t) ==
  /\ tour[t].status = "upcoming"
  /\ \E at \in Plans : tour' = [tour EXCEPT ![t].at = at]
  /\ UNCHANGED <<resets, seasons, active, start, history, cache, req, made, clock, whole, inTurn, load>>

\* A show goes on air, before its time or after it, in the season that goes on now.
StartShowMatch(t) ==
  /\ tour[t].status = "upcoming" /\ NobodyLive
  /\ tour' = [tour EXCEPT ![t].status = "live", ![t].season = active]
  /\ UNCHANGED <<resets, seasons, active, start, history, cache, req, made, clock, whole, inTurn, load>>

\* A side places its token or takes it back; that no round may have begun and whose
\* token it is is in Tokens.
SetDoubleToken(t, s) ==
  /\ "double" \in load.kinds /\ tour[t].status \in {"live", "upcoming"}
  /\ tour' = [tour EXCEPT ![t].doubled = IF s \in @ THEN @ \ {s} ELSE @ \cup {s}]
  /\ UNCHANGED <<resets, seasons, active, start, history, cache, req, made, clock, whole, inTurn, load>>

-------------------------------------------------------------------------------
(* The statements about the matches.                                       *)

SidesOf(t) == {Sides[t][1], Sides[t][2]}
There(t)   == tour[t].status \notin {"none", "gone"}

\* What there is to count: matches that ended and resets.
Events == {[at |-> tour[t].at, t |-> t, s |-> NoSide, season |-> tour[t].season] :
             t \in {x \in Tour : tour[x].status = "finished"}}
          \cup {[at |-> x.at, t |-> NoTour, s |-> x.side, season |-> x.season] : x \in resets}
Touched(e) == IF e.t = NoTour THEN {e.s} ELSE SidesOf(e.t)

\* What becomes of a match counts in its turn when no later event has one of its sides.
Latest(t) == \A e \in Events : e.t # t /\ Touched(e) \cap SidesOf(t) # {} => e.at < tour[t].at
TakesTurn(t) == inTurn' = (inTurn /\ (There(t) => Latest(t)))

\* matchGuard: a match that ended is left alone.
MatchGuard(p) ==
  /\ Doing(p, "guard")
  /\ IF tour[It(p).t].status \in {"finished", "none", "gone"} THEN Stop(p) ELSE Next1(p)
  /\ UNCHANGED <<tables, history, cache, made, clock, whole, inTurn, load>>

\* FinishMatch: the score, which is not kept here, says who won, if anybody.
FinishMatch(p) ==
  LET t == It(p).t IN
  /\ Doing(p, "close")
  /\ IF ~There(t) THEN UNCHANGED tour /\ Stop(p)
     ELSE /\ \E w \in SidesOf(t) \cup {NoSide} :
               tour' = [tour EXCEPT ![t].status = "finished", ![t].winner = w]
          /\ GoOn(p, Apply(t), req[p])
  /\ TakesTurn(t)
  /\ UNCHANGED <<resets, seasons, active, start, history, cache, made, clock, whole, load>>

\* matchFinished, and handleVoidMatch's look: only a match that ended.
MatchFinished(p) ==
  LET t == It(p).t IN
  /\ Doing(p, "ended")
  /\ IF tour[t].status = "finished"
     THEN GoOn(p, Rest(p), [req[p] EXCEPT !.winner = tour[t].winner, !.voided = tour[t].voided])
     ELSE Stop(p)
  /\ UNCHANGED <<tables, history, cache, made, clock, whole, inTurn, load>>

\* Mutant: a corrected winner is applied to this match only.
RescoreOnlyThis(p) ==
  LET t == It(p).t IN
  /\ Doing(p, "rescore")
  /\ \E w \in SidesOf(t) \cup {NoSide} :
       /\ tour' = [tour EXCEPT ![t].winner = IF There(t) THEN w ELSE NoSide]
       /\ IF w = req[p].winner THEN Stop(p) ELSE GoOn(p, Apply(t), req[p])
  /\ UNCHANGED <<resets, seasons, active, start, history, cache, made, clock, whole, inTurn, load>>

\* RescoreFinishedMatch: with another winner the imported changes are given up and
\* everything is counted anew.
RescoreFinishedMatch(p) ==
  LET t == It(p).t IN
  /\ Doing(p, "rescore")
  /\ \E w \in SidesOf(t) \cup {NoSide} :
       /\ tour' = [tour EXCEPT ![t].winner = IF There(t) THEN w ELSE NoSide]
       /\ IF w = req[p].winner THEN Stop(p)
          ELSE GoOn(p, <<St("unpin", t, NoSide)>> \o All, req[p])
  /\ UNCHANGED <<resets, seasons, active, start, history, cache, made, clock, whole, inTurn, load>>

ClearPins(p) ==
  /\ Doing(p, "unpin")
  /\ tour' = [tour EXCEPT ![It(p).t].pinned = FALSE]
  /\ Next1(p)
  /\ UNCHANGED <<resets, seasons, active, start, history, cache, made, clock, whole, inTurn, load>>

\* SetMatchVoided: the other way round; a draw cannot be voided.
SetMatchVoided(p) ==
  LET t == It(p).t IN
  /\ Doing(p, "void")
  /\ IF ~There(t) \/ (req[p].winner = NoSide /\ ~req[p].voided)
     THEN UNCHANGED tour /\ Stop(p)
     ELSE tour' = [tour EXCEPT ![t].voided = ~req[p].voided] /\ GoOn(p, All, req[p])
  /\ UNCHANGED <<resets, seasons, active, start, history, cache, made, clock, whole, inTurn, load>>

\* The rows of history go with the match, and the cache is not asked.
DeleteTournament(p) ==
  LET t == It(p).t IN
  /\ Doing(p, "delete")
  /\ tour' = IF There(t) THEN [tour EXCEPT ![t].status = "gone", ![t].winner = NoSide] ELSE tour
  /\ history' = {x \in history : x.tour # t}
  /\ Stop(p)
  /\ TakesTurn(t)
  /\ UNCHANGED <<resets, seasons, active, start, cache, made, clock, whole, load>>

\* handleUpdateTournament: the status as it was.
OldStatus(p) ==
  /\ Doing(p, "old")
  /\ IF There(It(p).t)
     THEN GoOn(p, Rest(p), [req[p] EXCEPT !.voided = tour[It(p).t].status = "finished"])
     ELSE Stop(p)
  /\ UNCHANGED <<tables, history, cache, made, clock, whole, inTurn, load>>

\* Mutant: a match that is opened again keeps its rating.
UpdateStatusOnly(p) ==
  LET t == It(p).t IN
  /\ Doing(p, "finished") \/ Doing(p, "upcoming")
  /\ tour' = IF There(t) THEN [tour EXCEPT ![t].status = It(p).op] ELSE tour
  /\ IF It(p).op = "finished" /\ ~req[p].voided
     THEN GoOn(p, <<St("top", t, NoSide)>> \o Apply(t), req[p]) ELSE Stop(p)
  /\ UNCHANGED <<resets, seasons, active, start, history, cache, made, clock, whole, inTurn, load>>

\* The new status, and what follows from the step between the two.
UpdateStatus(p) ==
  LET t == It(p).t
      was == req[p].voided IN
  /\ Doing(p, "finished") \/ Doing(p, "upcoming")
  /\ tour' = IF There(t) THEN [tour EXCEPT ![t].status = It(p).op] ELSE tour
  /\ CASE It(p).op = "finished" /\ ~was -> GoOn(p, <<St("top", t, NoSide)>> \o Apply(t), req[p])
       [] It(p).op = "upcoming" /\ was  -> GoOn(p, Revert(t) \o <<St("unwin", t, NoSide)>>, req[p])
       [] OTHER -> Stop(p)
  /\ TakesTurn(t)
  /\ UNCHANGED <<resets, seasons, active, start, history, cache, made, clock, whole, load>>

\* SetWinnerTop: the side of most points.
SetWinnerTop(p) ==
  /\ Doing(p, "top")
  /\ \E w \in SidesOf(It(p).t) :
       tour' = IF There(It(p).t) THEN [tour EXCEPT ![It(p).t].winner = w] ELSE tour
  /\ Next1(p)
  /\ UNCHANGED <<resets, seasons, active, start, history, cache, made, clock, whole, inTurn, load>>

\* SetTournamentWinner: the side that is named; the match ends with it.
SetTournamentWinner(p) ==
  LET t == It(p).t IN
  /\ Doing(p, "named")
  /\ IF There(t)
     THEN /\ tour' = [tour EXCEPT ![t].status = "finished", ![t].winner = It(p).s]
          /\ GoOn(p, Apply(t), req[p])
     ELSE UNCHANGED tour /\ Stop(p)
  /\ TakesTurn(t)
  /\ UNCHANGED <<resets, seasons, active, start, history, cache, made, clock, whole, load>>

ClearWinner(p) ==
  /\ Doing(p, "unwin")
  /\ tour' = [tour EXCEPT ![It(p).t].winner = NoSide]
  /\ Next1(p)
  /\ UNCHANGED <<resets, seasons, active, start, history, cache, made, clock, whole, inTurn, load>>

-------------------------------------------------------------------------------
(* The statements about the rating.                                        *)

\* The match as it is now; a match that is not there ends the request, a full
\* recomputation too.
LoadTournament(p) ==
  LET t == It(p).t IN
  /\ Doing(p, "load")
  /\ IF There(t)
     THEN GoOn(p, Rest(p), [req[p] EXCEPT !.winner = tour[t].winner, !.voided = tour[t].voided])
     ELSE Stop(p)
  /\ UNCHANGED <<tables, history, cache, made, clock, whole, inTurn, load>>

\* Who has a row of the match: theirs is the cache to write when it is gone.
SelectRows(p) ==
  LET had == SetToSeq({x.side : x \in {y \in history : y.tour = It(p).t}}) IN
  /\ Doing(p, "rows")
  /\ GoOn(p, <<Head(Rest(p))>> \o FlattenSeq([i \in 1..Len(had) |-> Cached(had[i])])
               \o Tail(Rest(p)), req[p])
  /\ UNCHANGED <<tables, history, cache, made, clock, whole, inTurn, load>>

WipeRows(p) ==
  /\ Doing(p, "wipe")
  /\ history' = {x \in history : x.tour # It(p).t}
  /\ Next1(p)
  /\ UNCHANGED <<tables, cache, made, clock, whole, inTurn, load>>

\* recomputeUserMmr, recomputeTeamMmr: first the sum in the season that goes on.
ReadSum(p) ==
  LET s == It(p).s IN
  /\ Doing(p, "sum")
  /\ GoOn(p, Rest(p), [req[p] EXCEPT !.sum =
       IF s \in Player /\ \A x \in RowsOf(history, s, active) : x.tour = NoTour
       THEN NoRow ELSE SeasonMmr(history, s, active)])
  /\ UNCHANGED <<tables, history, cache, made, clock, whole, inTurn, load>>

\* Then the row: a player without a match in the season has none, a team keeps it.
WriteCache(p) ==
  LET s == It(p).s IN
  /\ Doing(p, "write")
  /\ cache' = IF s \in Team /\ cache[s] = NoRow THEN cache ELSE [cache EXCEPT ![s] = req[p].sum]
  /\ Next1(p)
  /\ UNCHANGED <<tables, history, made, clock, whole, inTurn, load>>

\* ApplyTournamentMmr goes on when somebody won and both sides have a rating, by the
\* season and the tokens of the match; ensureTeam for a match 2x2.
Award(p) ==
  LET t == It(p).t
      w == req[p].winner
      l == CHOOSE s \in SidesOf(t) : s # w IN
  /\ Doing(p, "award")
  /\ IF w = NoSide \/ SidesOf(t) \cap Guest # {} THEN Next1(p) /\ UNCHANGED cache
     ELSE /\ cache' = [s \in Side |-> IF s \in SidesOf(t) \cap Team /\ cache[s] = NoRow
                                      THEN 0 ELSE cache[s]]
          /\ GoOn(p, <<St("rate", t, w), St("rate", t, l), St("insert", t, w),
                       St("insert", t, l)>> \o Cached(w) \o Cached(l) \o Rest(p),
                  [req[p] EXCEPT !.season = tour[t].season, !.doubled = tour[t].doubled])
  /\ UNCHANGED <<tables, history, made, clock, whole, inTurn, load>>

\* The rating of a side before the match, in the season of the match; after the
\* loser's, whether imported changes count.
ReadRate(p) ==
  LET t == It(p).t
      i == IF It(p).s = req[p].winner THEN 1 ELSE 2 IN
  /\ Doing(p, "rate")
  /\ GoOn(p, Rest(p), [req[p] EXCEPT !.rates[i] = SeasonMmr(history, It(p).s, req[p].season),
                                     !.pinned = tour[t].pinned])
  /\ UNCHANGED <<tables, history, cache, made, clock, whole, inTurn, load>>

\* insertUserMmrHistory: one row for a match and a side, and none for a match that
\* is not there.
InsertHistory(p) ==
  LET t == It(p).t
      s == It(p).s
      r == req[p]
      d == Change(t, r, s, Gain(r.rates[1], r.rates[2])) IN
  /\ Doing(p, "insert")
  /\ IF ~There(t) THEN UNCHANGED history /\ Stop(p)
     ELSE /\ history' = IF \E x \in history : x.tour = t /\ x.side = s THEN history
                        ELSE history \cup {Row(s, t, d, r.rates[IF s = r.winner THEN 1 ELSE 2],
                                               r.season, tour[t].at)}
          /\ Next1(p)
  /\ UNCHANGED <<tables, cache, made, clock, whole, inTurn, load>>

\* RecomputeAllMmr: nothing is left of the rating, ...
TruncateAll(p) ==
  /\ Doing(p, "truncate")
  /\ history' = {}
  /\ cache' = [s \in Side |-> NoRow]
  /\ Next1(p)
  /\ UNCHANGED <<tables, made, clock, whole, inTurn, load>>

\* Matches and resets by their time, a show by the time it was planned for.
InOrder ==
  LET n == 1..Cardinality(Events) IN
  CHOOSE list \in [n -> Events] : \A i, j \in n : i < j => list[i].at < list[j].at

Counting(list) ==
  FlattenSeq([i \in 1..Len(list) |->
    IF list[i].t # NoTour THEN Apply(list[i].t)
    ELSE <<[op |-> "again", t |-> NoTour, s |-> list[i]]>>])
  \o Refresh \o <<St("patches", NoTour, NoSide)>>

\* ... and everything is counted again, in the order of time.
ListEvents(p) ==
  /\ Doing(p, "list")
  /\ GoOn(p, Counting(InOrder), req[p])
  /\ UNCHANGED <<tables, history, cache, made, clock, whole, inTurn, load>>

ResetRow(h, e) == Row(e.s, NoTour, StartOf(e.season) - SeasonMmr(h, e.s, e.season),
                      SeasonMmr(h, e.s, e.season), e.season, e.at)

\* applyReset.
ApplyReset(p) ==
  /\ Doing(p, "again")
  /\ history' = history \cup {ResetRow(history, It(p).s)}
  /\ Next1(p)
  /\ UNCHANGED <<tables, cache, made, clock, whole, inTurn, load>>

\* RefreshMmrCaches, three statements.
ClearCache(p) ==
  /\ Doing(p, "clear")
  /\ cache' = [s \in Side |-> IF s \in Player THEN NoRow ELSE cache[s]]
  /\ Next1(p)
  /\ UNCHANGED <<tables, history, made, clock, whole, inTurn, load>>

Played(s, n) == \E x \in RowsOf(history, s, n) : x.tour # NoTour

FillCache(p) ==
  /\ Doing(p, "fill")
  /\ cache' = [s \in Side |-> IF s \in Player /\ cache[s] = NoRow /\ Played(s, active)
                              THEN SeasonMmr(history, s, active) ELSE cache[s]]
  /\ Next1(p)
  /\ UNCHANGED <<tables, history, made, clock, whole, inTurn, load>>

FillTeams(p) ==
  /\ Doing(p, "teams")
  /\ cache' = [s \in Side |-> IF s \in Team /\ cache[s] # NoRow
                              THEN SeasonMmr(history, s, active) ELSE cache[s]]
  /\ Next1(p)
  /\ UNCHANGED <<tables, history, made, clock, whole, inTurn, load>>

\* SyncPatches, the end of a recomputation; what it writes is in Patches.
SyncPatches(p) ==
  /\ Doing(p, "patches")
  /\ Next1(p)
  /\ whole' = TRUE /\ inTurn' = TRUE
  /\ UNCHANGED <<tables, history, cache, made, clock, load>>

-------------------------------------------------------------------------------
(* The statements about the seasons and the resets.                        *)

StartNewSeason(p) ==
  /\ Doing(p, "begin")
  /\ IF active + 1 \in load.seasons
     THEN /\ active' = active + 1
          /\ seasons' = seasons \cup {active + 1}
          /\ Next1(p)
     ELSE UNCHANGED <<active, seasons>> /\ Stop(p)
  /\ UNCHANGED <<tour, resets, start, history, cache, made, clock, whole, inTurn, load>>

\* UpdateSeason with another start for the rating.
UpdateSeason(p) ==
  /\ Doing(p, "rules")
  /\ IF seasons = {} THEN UNCHANGED start /\ Stop(p)
     ELSE \E n \in seasons : start' = [start EXCEPT ![n] = 1 - @] /\ Next1(p)
  /\ UNCHANGED <<tour, resets, seasons, active, history, cache, made, clock, whole, inTurn, load>>

\* ResetRating, the rule first.
ReadRule(p) ==
  /\ Doing(p, "rule")
  /\ IF active = 0 THEN Stop(p) ELSE GoOn(p, Rest(p), [req[p] EXCEPT !.season = active])
  /\ UNCHANGED <<tables, history, cache, made, clock, whole, inTurn, load>>

\* Its transaction: once a season, not in a match, and only when there is something.
ResetRating(p) ==
  LET s == It(p).s
      n == req[p].season
      e == [at |-> Now, t |-> NoTour, s |-> s, season |-> n] IN
  /\ Doing(p, "reset")
  /\ IF \/ \E x \in resets : x.side = s /\ x.season = n
        \/ \E t \in Tour : tour[t].status \in {"live", "upcoming"} /\ s \in SidesOf(t)
        \/ Total(RowsOf(history, s, n)) = 0
     THEN UNCHANGED <<resets, history, clock, inTurn>> /\ Stop(p)
     ELSE /\ resets' = resets \cup {[side |-> s, season |-> n, at |-> Now]}
          /\ history' = history \cup {ResetRow(history, e)}
          /\ clock' = clock + 1
          /\ inTurn' = (inTurn /\ \A x \in Events : s \in Touched(x) => x.at < Now)
          /\ Next1(p)
  /\ UNCHANGED <<tour, seasons, active, start, cache, made, whole, load>>

\* The client leaves and the context of its request ends: no more statements.
ClientGone(p) ==
  /\ load.gone /\ ~Idle(p)
  /\ Stop(p)
  /\ whole' = FALSE
  /\ UNCHANGED <<tables, history, cache, made, clock, inTurn, load>>

-------------------------------------------------------------------------------
NoMatchYet == [status |-> "none", winner |-> NoSide, voided |-> FALSE, season |-> 0, at |-> 0,
               doubled |-> {}, pinned |-> FALSE]

\* Dirty: matches that ended and whatever rows requests that met left of them.
Init ==
  /\ load \in Loads
  /\ resets = {} /\ made = 0 /\ whole = ~load.dirty /\ inTurn = whole
  /\ start = [n \in Season |-> 0]
  /\ req = [p \in Request |-> Blank]
  /\ IF load.dirty
     THEN /\ active = 1 /\ seasons = {1} /\ clock = Cardinality(load.tours)
          /\ \E time \in {f \in [load.tours -> 0..clock-1] :
                        \A t, u \in load.tours : f[t] = f[u] => t = u},
                won \in [load.tours -> 1..2], void \in [load.tours -> BOOLEAN] :
               tour = [t \in Tour |->
                 IF t \notin load.tours THEN NoMatchYet
                 ELSE [status |-> "finished", winner |-> Sides[t][won[t]],
                       voided |-> void[t], season |-> 1, at |-> 2 * time[t],
                       doubled |-> {}, pinned |-> t \in load.imported]]
          /\ \E t \in load.tours, d \in {-1, 2} : \E s \in SidesOf(t) :
               history \in {{}, {Row(s, t, d, 1, 1, tour[t].at)}}
          /\ \E s \in Side : cache = [x \in Side |-> IF x = s THEN 3 ELSE NoRow]
     ELSE /\ active = 0 /\ seasons = {} /\ clock = 0
          /\ tour = [t \in Tour |-> NoMatchYet]
          /\ history = {} /\ cache = [s \in Side |-> NoRow]

Arrives(p) ==
  \/ \E t \in load.tours : \/ HandleFinishMatch(p, t) \/ HandleRescore(p, t) \/ HandleVoidMatch(p, t)
                     \/ HandleDeleteTournament(p, t)
                     \/ \E to \in {"finished", "upcoming"} : HandleUpdateTournament(p, t, to)
                     \/ \E s \in SidesOf(t) : HandleSetWinner(p, t, s)
  \/ HandleStartSeason(p) \/ HandleUpdateSeason(p) \/ RunPendingRecompute(p)
  \/ \E s \in Player : HandleResetRating(p, s)

Proceeds(p) ==
  \/ MatchGuard(p) \/ FinishMatch(p) \/ MatchFinished(p) \/ RescoreFinishedMatch(p) \/ ClearPins(p)
  \/ SetMatchVoided(p) \/ DeleteTournament(p) \/ OldStatus(p) \/ UpdateStatus(p)
  \/ SetWinnerTop(p) \/ SetTournamentWinner(p) \/ ClearWinner(p)
  \/ LoadTournament(p) \/ SelectRows(p) \/ WipeRows(p) \/ ReadSum(p) \/ WriteCache(p)
  \/ Award(p) \/ ReadRate(p) \/ InsertHistory(p) \/ TruncateAll(p) \/ ListEvents(p)
  \/ ApplyReset(p) \/ ClearCache(p) \/ FillCache(p) \/ FillTeams(p) \/ SyncPatches(p)
  \/ StartNewSeason(p) \/ UpdateSeason(p) \/ ReadRule(p) \/ ResetRating(p)

\* What is one statement of its own.
Prepares(t) ==
  CreateMatch(t) \/ RescheduleShowMatch(t) \/ StartShowMatch(t) \/ \E s \in SidesOf(t) : SetDoubleToken(t, s)

Next == (\E p \in Request : Arrives(p) \/ Proceeds(p) \/ ClientGone(p)) \/ \E t \in load.tours : Prepares(t)

Spec == Init /\ [][Next]_vars

-------------------------------------------------------------------------------
(* Properties. *)

AllIdle == \A p \in Request : Idle(p)
\* Nothing is under way and nothing was cut short that was not counted anew.
Quiet == AllIdle /\ whole

\* The tables hold what they may; a side has one row of a match at most.
TypeOK ==
  /\ \A t \in Tour : /\ tour[t].status \in {"none", "live", "upcoming", "finished", "gone"}
                     /\ tour[t].winner \in SidesOf(t) \cup {NoSide}
                     /\ tour[t].season \in Season \cup {0}
  /\ active \in seasons \cup {0} /\ seasons \subseteq Season
  /\ \A x \in history : x.side \in Side /\ x.tour \in Tour \cup {NoTour} /\ x.delta \in Int
  /\ \A x, y \in history : x.tour = y.tour /\ x.side = y.side /\ x.tour # NoTour => x = y

\* What the cache shows is what the history of the season that goes on adds up to
\* (recomputeUserMmr: "кэш user_mmr - MMR игрока в текущем сезоне. Строка есть только
\* у тех, кто в этом сезоне играл"; recomputeTeamMmr), unless a match is deleted, which
\* leaves the cache as it was.
CacheIsHistory ==
  Quiet /\ "delete" \notin load.kinds => \A s \in Side :
    IF s \in Player THEN cache[s] = IF Played(s, active) THEN SeasonMmr(history, s, active)
                                    ELSE NoRow
    ELSE cache[s] # NoRow => cache[s] = SeasonMmr(history, s, active)

\* The tables are well formed and the cache is what they add up to.
RatingsAgree == TypeOK /\ CacheIsHistory

\* A match with a winner moves the rating of its two sides and of nobody else, if both
\* have one: the loser loses what the winner wins by the ratings the two had, each of
\* them twice that if its side placed a token x2; a voided match costs the loser
\* nothing; an imported one, until its winner is corrected, counts as it was imported.
\* Other matches move nothing.
Counts(t) ==
  LET m == tour[t]
      rows == {x \in history : x.tour = t} IN
  IF m.status = "finished" /\ m.winner # NoSide /\ SidesOf(t) \cap Guest = {}
  THEN /\ {x.side : x \in rows} = SidesOf(t) /\ Cardinality(rows) = 2
       /\ \A x, y \in rows : x.side = m.winner /\ y.side # x.side =>
            LET g == Gain(x.before, y.before) IN
            IF m.pinned
            THEN /\ x.delta = Imported[t][x.side]
                 /\ y.delta = IF m.voided THEN 0 ELSE Imported[t][y.side]
            ELSE /\ x.delta = Doubled(m, x.side, g)
                 /\ y.delta = IF m.voided THEN 0 ELSE Doubled(m, y.side, -g)
  ELSE rows = {}

\* Every match counts once, for what it ended with (ApplyTournamentMmr:
\* "выдерживает повторный finished и смену победителя").
ResultsCount == Quiet => \A t \in Tour : Counts(t)

\* One more event counted on top of a history.
Count(h, e) ==
  IF e.t = NoTour THEN h \cup {ResetRow(h, e)}
  ELSE LET w == tour[e.t].winner
           l == CHOOSE s \in SidesOf(e.t) : s # w
           before == [s \in SidesOf(e.t) |-> SeasonMmr(h, s, e.season)]
           g == Gain(before[w], before[l])
       IN IF w = NoSide \/ SidesOf(e.t) \cap Guest # {} THEN h
          ELSE h \cup {Row(s, e.t, Change(e.t, tour[e.t], s, g), before[s], e.season, e.at) :
                          s \in SidesOf(e.t)}
Replay == FoldLeft(Count, {}, InOrder)

\* The history is what the matches and resets, counted in the order of their times, make
\* it: every rating before a match is the one after the match before
\* (RecomputeAllMmr: "в хронологическом порядке"; RescoreFinishedMatch: "от исхода
\* зависит рейтинг перед каждым следующим"). Until the next recount it need not be so
\* once a show played before or after the time it was planned for, or a PATCH or a
\* DELETE, changed what a later event of the same sides was counted from.
HistoryIsReplay == Quiet /\ inTurn => history = Replay
===============================================================================
