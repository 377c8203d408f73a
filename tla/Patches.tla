------------------------------- MODULE Patches -------------------------------
(***************************************************************************)
(* The patches players earn in matches 1x1 (internal/store/patches.go):    *)
(* they are counted anew for every season after each change of a match,    *)
(* and the table is replaced; the overlay shows the new ones.              *)
(*                                                                         *)
(* What a match gives to count is its card: per side the points, the       *)
(* knocks of each raid, the tasks done, the points of the first raid and   *)
(* the lowest chance in per cent.  A match counts once: games is left out. *)
(***************************************************************************)
EXTENDS Belt

CONSTANTS
  Map,
  Syncer,    \* requests that change matches and count the patches at the same time
  Need       \* patchStreakWins and the other thresholds; from: patchChanceFrom and
             \* patchKnocksKept; gap: how much stronger the loser is against the odds

VARIABLES
  patches,  \* player_patches
  honor,    \* who has the tag of the honoured
  shown,    \* how often the overlay has shown a patch
  sync,     \* what the requests are at: step, the match they are about, the season that
            \* went on when they listed the seasons, what they counted
  earned    \* what a count would give at present, by the last season it knows of

patchVars == <<patches, honor, shown, sync>>


-------------------------------------------------------------------------------
(* computeSeasonPatches.                                                   *)

Kn(m, i)    == SumOf(Card(m).knocks[i])
Live(m)     == m.st = "live"
Both        == 1..2
Known(m)    == {i \in Both : m.side[i] \notin Guest}

Novice == [wins |-> 0, losses |-> 0, played |-> 0, streak |-> 0, knocks |-> 0, tasks |-> 0,
           lost |-> {}, maps |-> <<>>]
NoPatches == [got |-> {}, of |-> [p \in Player |-> Novice],
              mmr |-> [p \in Player |-> [in |-> FALSE, mmr |-> 0]]]

\* tiersReached: the steps a count goes past.
TiersReached(tiers, before, after) == {t \in DOMAIN tiers : before < tiers[t] /\ tiers[t] <= after}

\* award: a patch is earned once, in the first match that gives it.
Award(got, keys, match) ==
  got \cup {[user |-> k[1], code |-> k[2], tier |-> k[3], match |-> match, prov |-> FALSE] :
              k \in {l \in keys : ~\E a \in got : <<a.user, a.code, a.tier>> = l}}

\* Knocks and tasks count while the match goes on.
OnAirKeys(b, m) ==
  UNION {LET u == m.side[i]
             x == b.of[u]
             Of(code, T) == {<<u, code, t>> : t \in T} IN
         Of("executor", TiersReached(Need.executor, x.tasks, x.tasks + Card(m).tasks[i]))
         \cup Of("hunter", TiersReached(Need.hunter, x.knocks, x.knocks + Kn(m, i)))
         \cup (IF \E k \in ToSet(Card(m).knocks[i]) : k >= Need.clear THEN {<<u, "clear", 1>>} ELSE {})
         : i \in Known(m)}

\* Who played it, whatever came out.
PlayedKeys(b, m, firstDay, veterans) ==
  UNION {LET u == m.side[i]
             n == b.of[u].played IN
         (IF n = 0 /\ u \in veterans THEN {<<u, "veteran", 1>>} ELSE {})
         \cup (IF m.day = firstDay /\ ~m.show THEN {<<u, "first", 1>>} ELSE {})
         \cup (IF n + 1 = Need.marathon THEN {<<u, "marathon", 1>>} ELSE {})
         : i \in Known(m)}

\* leaders: of the rating alone.
Leaders(b) == {p \in Player : b.mmr[p].in /\ \A q \in Player : b.mmr[q].in => b.mmr[q].mmr <= b.mmr[p].mmr}
Before(m, i) == m.after[i] - m.delta[i]

\* What a win gives, over somebody with an account.
WinKeys(b, m, s, takes) ==
  LET w == m.win
      l == 3 - w
      u == m.side[w]
      v == m.side[l]
      c == Card(m)
      Give(code, cond) == IF cond THEN {<<u, code, 1>>} ELSE {}
      points == c.total[w] > 0 \/ c.total[l] > 0
  IN Give("streak", b.of[u].streak + 1 = Need.streak)
     \cup Give("regicide", v \in Leaders(b) /\ u \notin Leaders(b))
     \cup (IF s >= Need.from THEN {<<u, "david", t>> : t \in {t \in DOMAIN Need.david : c.low[w] <= Need.david[t]}}
           ELSE Give("david", Rated(m) /\ Before(m, l) - Before(m, w) >= Need.gap))
     \cup Give("double", c.double)
     \cup Give("photo", points /\ c.total[w] - c.total[l] = 1)
     \cup Give("shutout", points /\ c.total[l] = 0)
     \cup Give("pacifist", points /\ Kn(m, w) = 0 /\ (s >= Need.from \/ Kn(m, l) > 0))
     \cup Give("comeback", c.round1[w] < c.round1[l])
     \cup Give("revenge", v \in b.of[u].lost)
     \cup Give("belt", takes[m.id] = u)

Won(m) == m.win # 0 /\ ~m.void /\ Known(m) = Both

\* The counts of a player after a match.
CountedFor(x, m, i) ==
  LET w == Won(m) /\ m.win = i
      l == Won(m) /\ m.win = 3 - i
      y == [x EXCEPT !.knocks = @ + Kn(m, i), !.tasks = @ + Card(m).tasks[i]] IN
  IF m.side[i] \in Guest THEN x ELSE IF Live(m) THEN y
  ELSE [y EXCEPT !.played = @ + 1, !.wins = @ + (IF w THEN 1 ELSE 0), !.losses = @ + (IF l THEN 1 ELSE 0),
                 !.streak = IF w THEN @ + 1 ELSE IF l \/ (m.win = 0 /\ ~m.void) THEN 0 ELSE @,
                 !.lost = IF l THEN @ \cup {m.side[m.win]} ELSE @,
                 !.maps = IF w THEN Append(@, Card(m).maps) ELSE @]

Counted(b, m) ==
  [b.of EXCEPT ![m.side[1]] = CountedFor(@, m, 1), ![m.side[2]] = CountedFor(@, m, 2)]

RatedFor(m, i)  == [in |-> TRUE, mmr |-> m.after[i]]
RatedNow(b, m) ==
  IF Rated(m) THEN [b.mmr EXCEPT ![m.side[1]] = RatedFor(m, 1), ![m.side[2]] = RatedFor(m, 2)] ELSE b.mmr

OneMatch(b, m, s, firstDay, veterans, takes) ==
  LET keys == OnAirKeys(b, m)
              \cup (IF Live(m) THEN {} ELSE PlayedKeys(b, m, firstDay, veterans))
              \cup (IF ~Live(m) /\ Won(m) THEN WinKeys(b, m, s, takes) ELSE {})
  IN [got |-> Award(b.got, keys, m.id), of |-> Counted(b, m), mmr |-> RatedNow(b, m)]

\* forSeason: who came into the season with the belt, and who took it in its matches.
SeasonBelt(rs, ms, s, start) ==
  LET Of == {i \in 1..Len(ms) : ms[i].st = "finished" /\ ms[i].season = s /\ ~ms[i].show}
      begin == Min({start} \cup {ms[i].at : i \in Of})   \* before the date it was given
      Start == {i \in 1..Len(rs) : rs[i].season # s /\ rs[i].from < begin
                                   /\ (rs[i].end = "" \/ rs[i].to > begin)}
  IN [start |-> IF Start = {} THEN NoPlayer ELSE rs[Max(Start)].holder,
      takes |-> [i \in 1..Len(ms) |->
        IF \E r \in ToSet(rs) : r.season = s /\ r.match = i
        THEN (CHOOSE r \in ToSet(rs) : r.season = s /\ r.match = i).holder ELSE NoPlayer]]

\* The patches of the season as a whole; of several leaders the site takes one.
SeasonalKeys(all, fs, b, s) ==
  LET tops == Tops(TableOf(all, fs, s))
      most == Max({b.of[p].knocks : p \in Player})
      On(p, z) == Cardinality({i \in 1..Len(b.of[p].maps) : z \in b.of[p].maps[i]})
      Best(z) == Max({On(p, z) : p \in Player})
  IN {<<p, "top1", 1>> : p \in {q \in tops : \A o \in tops : q <= o}}
     \cup {<<p, "flawless", 1>> : p \in {q \in Player : b.of[q].wins >= Need.flawless /\ b.of[q].losses = 0}}
     \cup {<<p, "topknock", 1>> : p \in {q \in Player : most > 0 /\ b.of[q].knocks = most}}
     \cup {<<p, "king", 1>> : p \in {q \in Player : \E z \in Map : On(q, z) = Best(z) /\ Best(z) >= Need.king}}

\* The winners of the last game day, once the season is over.
FinalKeys(ms, i, finalDay) ==
  IF ~Live(ms[i]) /\ ~ms[i].show /\ Winner(ms[i]) # NoPlayer /\ ms[i].day = finalDay
  THEN {<<Winner(ms[i]), "final", 1>>} \ (Guest \X {"final"} \X {1}) ELSE {}

\* The patches of a season, which is over or goes on.
SeasonPatches(all, fs, rs, s, start, over) ==
  LET ms == SelectSeq(all, LAMBDA m : m.season = s /\ m.st \in {"live", "finished"})
      regular == {m.day : m \in {n \in ToSet(ms) : ~Live(n) /\ ~n.show}}
      held == SeasonBelt(rs, all, s, start)
      veterans == {p \in Player : \E m \in ToSet(all) : m.season = s - 1 /\ m.st = "finished" /\ p \in Sides(m)}
      none == [NoPatches EXCEPT !.got = Award({}, IF held.start = NoPlayer THEN {} ELSE {<<held.start, "belt", 1>>}, 0)]
      firstDay == IF regular = {} THEN 0 ELSE Min(regular)
      One(b, e) == IF IsFix(e) THEN [b EXCEPT !.mmr[e.user] = [in |-> TRUE, mmr |-> e.after]]
                   ELSE OneMatch(b, e, s, firstDay, veterans, held.takes)
      b == FoldLeft(One, none, InOrder(ms, {f \in fs : f.season = s}))
      played == \E m \in ToSet(ms) : ~Live(m)
      seasonal == {a \in Award(b.got, IF played THEN SeasonalKeys(all, fs, b, s) ELSE {}, 0) : a \notin b.got}
      ofSeason == b.got \cup {[a EXCEPT !.prov = ~over] : a \in seasonal}
      Closing(got, i) == Award(got, FinalKeys(ms, i, Max(regular)), ms[i].id)
  IN IF over /\ regular # {} THEN FoldLeft(Closing, ofSeason, [i \in 1..Len(ms) |-> i]) ELSE ofSeason

\* The patches of all seasons up to one that goes on.
CountPatches(all, fs, rs, starts, upto) ==
  UNION {{[season |-> s, patch |-> a] : a \in SeasonPatches(all, fs, rs, s, starts[s], s < upto)} : s \in 1..upto}
Earned ==
  earned' = [upto \in 1..season' |->
              IF Kind("patches") THEN CountPatches(matches', fixes', belt'.reigns, began', upto) ELSE {}]

-------------------------------------------------------------------------------
(* SyncPatches, after a request has changed a match or a season.           *)

Idle    == [at |-> "rest", match |-> 0, upto |-> 0, got |-> {}, honored |-> {}]
Here(p, step) == sync[p].at = step
\* Connections of the pool that are free: a transaction holds one.
Free    == load.conns - Cardinality({p \in Syncer : sync[p].at \in {"lock", "read", "write"}})

Serve(p, i) ==
  /\ p \in load.syncers /\ Here(p, "rest")
  /\ sync' = [sync EXCEPT ![p] = [Idle EXCEPT !.at = "list", !.match = i]]
  /\ UNCHANGED <<patches, honor, shown>>

\* What the console enters: points and tasks are not counted before the next knock.
Knocks(i) == load.cards[matches'[i].card].knocks # Card(matches[i]).knocks
HandleTask(i) ==
  /\ \E c \in matches[i].card..Len(load.cards) : Judge(i, c)
  /\ ~Knocks(i)
  /\ UNCHANGED patchVars
\* What is shown: a knock, and the end of a match.
HandleKnock(p, i) ==
  /\ \E c \in matches[i].card..Len(load.cards) : Judge(i, c)
  /\ Knocks(i) /\ Serve(p, i)
HandleMatchUndo(p, i)   == (\E c \in 1..(matches[i].card - 1) : Judge(i, c)) /\ Serve(p, 0)
HandleFinishMatch(p, i) == FinishMatch(i) /\ Serve(p, i)
\* The match first; the patches are counted after the recount of the ratings.
HandleVoidMatch(i) == VoidMatch(i) /\ UNCHANGED patchVars
HandleRecompute(p) == RecomputeAllMmr /\ Serve(p, 0)
HandleResetRating(p) == ResetRating(p) /\ UNCHANGED patchVars
HandleDeleteTournament(p, i) == DeleteMatch(i) /\ Serve(p, 0)
HandleStartSeason(p)  == StartNewSeason /\ Serve(p, 0)

\* Before the transaction and its lock.
ListSeasons(p) ==
  /\ Here(p, "list") /\ Free > 0
  /\ sync' = [sync EXCEPT ![p].at = "begin", ![p].upto = season]
  /\ UNCHANGED <<patches, honor, shown>>

Begin(p) ==
  /\ Here(p, "begin") /\ Free > 0
  /\ sync' = [sync EXCEPT ![p].at = "lock"]
  /\ UNCHANGED <<patches, honor, shown>>

\* Mutant: nothing keeps two counts apart.
LockNothing(p) ==
  /\ Here(p, "lock")
  /\ sync' = [sync EXCEPT ![p].at = "read"]
  /\ UNCHANGED <<patches, honor, shown>>

\* pg_advisory_xact_lock(patchSyncLock).
LockSync(p) ==
  /\ Here(p, "lock") /\ ~\E q \in Syncer : sync[q].at \in {"read", "write"}
  /\ sync' = [sync EXCEPT ![p].at = "read"]
  /\ UNCHANGED <<patches, honor, shown>>

\* Mutant: the count needs two connections more.
CountWithTwo(p) ==
  /\ Here(p, "read") /\ Free > 1
  /\ sync' = [sync EXCEPT ![p].at = "write", ![p].honored = Honored(belt.reigns),
             ![p].got = earned[sync[p].upto]]
  /\ UNCHANGED <<patches, honor, shown>>

\* The count reads by another connection than the transaction's.
Count(p) ==
  /\ Here(p, "read") /\ Free > 0
  /\ sync' = [sync EXCEPT ![p].at = "write", ![p].honored = Honored(belt.reigns),
             ![p].got = earned[sync[p].upto]]
  /\ UNCHANGED <<patches, honor, shown>>

Key(a) == <<a.season, a.patch.user, a.patch.code, a.patch.tier>>
Firm(S) == {a \in S : ~a.patch.prov}

\* What the overlay is to show: what is new and earned in the match of the request.
Flash(p) == {Key(a) : a \in {x \in Firm(sync[p].got) :
               x.patch.match = sync[p].match /\ \A o \in Firm(patches) : Key(o) # Key(x)}}

\* The table is replaced and committed.
Replace(p) ==
  /\ Here(p, "write")
  /\ patches' = sync[p].got /\ honor' = sync[p].honored
  /\ sync' = [sync EXCEPT ![p] = [Idle EXCEPT !.at = "flash", !.got = Flash(p)]]
  /\ UNCHANGED shown

\* flashPatches: the overlay gets them after the commit.
FlashPatches(p) ==
  /\ Here(p, "flash")
  /\ shown' = shown (+) SetToBag(sync[p].got)
  /\ sync' = [sync EXCEPT ![p] = Idle]
  /\ UNCHANGED <<patches, honor>>

\* The request ends early, and its transaction with it; the next one makes up for it.
Fails(p) ==
  /\ Kind("gone") /\ ~Here(p, "rest")
  /\ sync' = [sync EXCEPT ![p] = Idle]
  /\ UNCHANGED <<patches, honor, shown>>

PatchInit == earned = <<{}>> /\ patches = {} /\ honor = {} /\ shown = EmptyBag /\ sync = [p \in Syncer |-> Idle]

Counts(p) == ListSeasons(p) \/ Begin(p) \/ LockSync(p) \/ Count(p) \/ Replace(p) \/ FlashPatches(p)
Requests(p, i) == \/ HandleKnock(p, i) \/ HandleMatchUndo(p, i) \/ HandleFinishMatch(p, i)
                  \/ HandleDeleteTournament(p, i)

-------------------------------------------------------------------------------
(* Properties. *)

Now == earned[season]

\* A patch earned in a match is neither lost nor moved by what is played later ("поэтому
\* дата и матч нашивки от пересчёта к пересчёту не меняются"), unless results are
\* corrected; the last game day of a season that is closed during a match moves with it.
EarnedStays ==
  Kind("patches") /\ load.kinds \cap {"undo", "void", "delete"} = {} =>
       \A a \in Firm(Now) : a.patch.match # 0 /\ a.patch.code # "final" => a \in Now'

\* The belt patch of a season is theirs who held the belt at some time of it, which the
\* reigns tell: those of the season, and one that came into it.
HeldIn(i, s) ==
  LET rs == belt.reigns
      over == CASE rs[i].end = "lost" -> rs[i + 1].season < s
                [] rs[i].end = "drop" -> rs[i].to <= began[s]
                [] OTHER -> FALSE
  IN rs[i].season = s \/ (rs[i].season < s /\ ~over)
BeltPatchIsReign ==
  Kind("patches") =>
    \A s \in 1..season :
      {a.patch.user : a \in {x \in Now : x.season = s /\ x.patch.code = "belt"}}
        = {belt.reigns[i].holder : i \in {j \in 1..Len(belt.reigns) : HeldIn(j, s)}}

\* When no request is under way the tables are what the matches give, whatever came
\* between ("нашивки догонит следующий пересчёт").  Left out are tasks, which the next
\* knock counts; clients that leave; resets of a rating, which count no patches: the first
\* place of the table waits for the next request that does; and a season that begins while
\* another request has listed the seasons already: its count, replaced last, knows nothing
\* of the new one.
TableIsCurrent ==
  LET Sure(S) == {a \in S : a.patch.code # "executor"}
      alone == Cardinality(load.syncers) = 1 \/ ~Kind("season") IN
  load.syncers # {} /\ ~Kind("gone") /\ alone /\ ~owed /\ (\A p \in Syncer : Here(p, "rest"))
  /\ ~(\E f \in fixes : f.how = "reset") =>
    Sure(patches) = Sure(Now) /\ honor = Honored(belt.reigns)

\* The overlay shows a patch once ("новые нашивки - их не было до пересчёта"), with any
\* number of requests at a time, unless it was taken back in between.
ShownOnce ==
  load.kinds \cap {"undo", "void", "delete"} = {} /\ (Cardinality(load.syncers) = 1 \/ ~Kind("season")) =>
    \A k \in BagToSet(shown) : CopiesIn(k, shown) = 1

\* Every count comes to its end, as long as there is a connection more than requests: a
\* transaction that waits for the lock keeps one, and that which has the lock needs two.
SyncEnds ==
  load.conns > Cardinality(load.syncers) => <>[](\A p \in Syncer : Here(p, "rest"))
===============================================================================
