-------------------------------- MODULE Belt --------------------------------
(***************************************************************************)
(* The belt of the league, which the site reads off the matches 1x1 each   *)
(* time anew (internal/store/belt.go, computeBelt), and what it is read    *)
(* off: matches, ratings and seasons as the other modules leave them.      *)
(*                                                                         *)
(* A match stands where it began; time goes by days, and ratings in steps  *)
(* of one, for only who leads the table matters here (Rating counts them). *)
(***************************************************************************)
EXTENDS Integers, Sequences, FiniteSets, Bags, SequencesExt, FiniteSetsExt, TLC

CONSTANTS
  Player,      \* those who play, numbered
  Guest,       \* of them, those with no account
  Season,      \* seasons, numbered as they begin
  HonorAt,     \* BeltHonorDefenses
  Loads        \* bounds: what happens, see load

NoPlayer == 0
\* Moments: a day has room for all changes.
DayLength == 1000
Day(moment)    == moment \div DayLength
MidnightOf(day) == day * DayLength

ASSUME BeltAssumption ==
  /\ Player \subseteq Nat \ {0} /\ Guest \subseteq Player
  /\ Season = 1..Cardinality(Season) /\ 1 \in Season
  /\ HonorAt \in Nat \ {0}

VARIABLES
  load,     \* what happens: kinds of events, the most matches, days and changes, who
            \* meets whom, cards, the scores a match goes through; rust, BeltRustDays; conns,
            \* the connections of the pool; readers, who reads the belt; syncers, who
            \* counts the patches
  matches,  \* the matches 1x1 in the order they began
  today,    \* the day it is
  season,   \* the season that goes on
  began,    \* started_at of the seasons, a moment
  ends,     \* ended_at, a day; 0: none
  fixes,    \* the rows of the rating without a match: resets and corrections
  owed,     \* a recount of the rating is still to come
  clock,    \* changes so far, which is what updated_at tells
  belt      \* what computeBelt gives at present; nobody keeps it but for a while

ratings == <<fixes, owed>>
world == <<load, matches, today, season, began, ends, ratings, clock, belt>>

Finished(ms) == SelectSeq(ms, LAMBDA m : m.st = "finished")
Sides(m)  == {m.side[1], m.side[2]}
\* The winner of a match for the belt: a match that is voided has none.
Winner(m) == IF m.win = 0 \/ m.void THEN NoPlayer ELSE m.side[m.win]
ForBelt(m) == ~m.show /\ Sides(m) \cap Guest = {}
\* applyUserMatch: a draw is not rated, nor a match with a guest.
Rated(m)  == m.st = "finished" /\ m.win # 0 /\ Sides(m) \cap Guest = {}
SumOf(s)  == FoldLeft(LAMBDA x, y : x + y, 0, s)

-------------------------------------------------------------------------------
(* computeBelt.                                                            *)

\* Game days: those of regular matches, of the belt or not.
GameDays(ms) == {ms[i].day : i \in {j \in 1..Len(ms) : ~ms[j].show}}
\* Game days after one day and before another.
IdleDays(ms, last, upto) == Cardinality({d \in GameDays(ms) : last < d /\ d < upto})
\* Midnight after the last of the idle days.
DropDay(ms, last) ==
  1 + CHOOSE d \in GameDays(ms) : d > last /\ IdleDays(ms, last, d) = load.rust - 1

NoTable == [s \in Season |-> [p \in Player |-> [in |-> FALSE, mmr |-> 0, wins |-> 0]]]

\* A row of the rating without a match counts for its player from its moment on.
IsFix(e)  == "user" \in DOMAIN e
Earlier(a, b) == a.at < b.at \/ (a.at = b.at /\ IsFix(a) /\ ~IsFix(b))
\* Matches and corrections in the order of time, a correction before the match it meets.
InOrder(ms, fs) == SortSeq(ms \o SetToSeq({f \in fs : f.counted}), Earlier)
Fixed(t, f) == [t EXCEPT ![f.season][f.user] = [@ EXCEPT !.in = TRUE, !.mmr = f.after]]

\* The first of a table: the highest rating, then the most wins.
Tops(t) ==
  LET In == {p \in Player : t[p].in}
      Beats(p, q) == t[p].mmr > t[q].mmr \/ (t[p].mmr = t[q].mmr /\ t[p].wins > t[q].wins)
  IN {p \in In : \A q \in In : ~Beats(q, p)}

\* What a match does to the table of its season, a show match too.
TabledFor(r, m, s) ==
  IF m.side[s] \in Guest THEN r
  ELSE [in   |-> r.in \/ Rated(m), mmr |-> IF Rated(m) THEN m.after[s] ELSE r.mmr,
        wins |-> r.wins + IF Winner(m) = m.side[s] THEN 1 ELSE 0]
Tabled(t, m) == [t EXCEPT ![m.side[1]] = TabledFor(@, m, 1), ![m.side[2]] = TabledFor(@, m, 2)]

Reign(m, how) == [holder |-> Winner(m), from |-> m.at, how |-> how, match |-> m.id,
                  season |-> m.season, defs |-> <<>>, end |-> "", to |-> 0]
EndReign(rs, end, moment) == [rs EXCEPT ![Len(rs)].end = end, ![Len(rs)].to = moment]

\* Mutant: the reign goes on in the history.
RustedUnmarked(ms, b, day) ==
  IF b.holder # NoPlayer /\ IdleDays(ms, b.last, day) >= load.rust THEN [b EXCEPT !.holder = NoPlayer] ELSE b

\* The belt falls when its holder has been idle for too long.
Rusted(ms, b, day) ==
  IF b.holder # NoPlayer /\ IdleDays(ms, b.last, day) >= load.rust
  THEN [b EXCEPT !.holder = NoPlayer, !.reigns = EndReign(b.reigns, "drop", MidnightOf(DropDay(ms, b.last)))]
  ELSE b

\* The holder plays: a draw leaves him the belt, a win is a defence, a loss hands it over.
Fought(b, m) ==
  LET w == Winner(m)
      seen == [b EXCEPT !.last = m.day] IN
  IF w = NoPlayer THEN seen
  ELSE IF w = b.holder THEN [seen EXCEPT !.reigns[Len(b.reigns)].defs = Append(@, m)]
  ELSE [seen EXCEPT !.holder = w, !.reigns = Append(EndReign(@, "lost", m.at), Reign(m, "take"))]

\* Nobody holds the belt: it goes to the winner of the first match of the league, and
\* later to that of a match with a leader of the table.
PickedUp(b, m) ==
  LET lead == Tops(b.tables[m.season])
      how == IF b.reigns = <<>> THEN "first" ELSE "pick" IN
  IF Winner(m) # NoPlayer /\ (b.reigns = <<>> \/ lead = {} \/ lead \cap Sides(m) # {})
  THEN [b EXCEPT !.holder = Winner(m), !.last = m.day, !.reigns = Append(@, Reign(m, how))]
  ELSE b

Passed(b, m) == IF b.holder \in Sides(m) THEN Fought(b, m)
                ELSE IF b.holder = NoPlayer THEN PickedUp(b, m) ELSE b

AfterMatch(ms, b, m) ==
  LET c == IF ForBelt(m) THEN Passed(Rusted(ms, b, m.day), m) ELSE b
  IN [c EXCEPT !.tables[m.season] = Tabled(@, m)]
AfterEvent(ms, b, e) == IF IsFix(e) THEN [b EXCEPT !.tables = Fixed(@, e)] ELSE AfterMatch(ms, b, e)

NoBelt == [holder |-> NoPlayer, last |-> 0, reigns |-> <<>>, tables |-> NoTable]

\* computeBelt; leaders: who may pick it up, while nobody holds it.
ComputeBelt(all, fs, now, current) ==
  LET ms == Finished(all)
      Over(b, e) == AfterEvent(ms, b, e)
      b == Rusted(ms, FoldLeft(Over, NoBelt, InOrder(ms, fs)), now)
  IN [holder |-> b.holder, reigns |-> b.reigns,
      leaders |-> IF b.holder = NoPlayer /\ b.reigns # <<>> THEN Tops(b.tables[current]) ELSE {}]

ReadOff == belt' = ComputeBelt(matches', fixes', today', season')

\* honored: who has defended it often enough in all his reigns.
Defences(rs, p) == SumOf([i \in 1..Len(rs) |-> IF rs[i].holder = p THEN Len(rs[i].defs) ELSE 0])
Honored(rs)     == {p \in Player : Defences(rs, p) >= HonorAt}

-------------------------------------------------------------------------------
(* The matches and the seasons.                                            *)

Kind(k)   == k \in load.kinds
There(i)  == i \in 1..Len(matches) /\ matches[i].st # "gone"
Tick      == clock < load.changes /\ clock' = clock + 1
Card(m)   == load.cards[m.card]
\* SetWinnerTop: the side with the most points.
TopSide(card) == IF card.total[1] > card.total[2] THEN 1
                 ELSE IF card.total[2] > card.total[1] THEN 2 ELSE 0

\* CreateMatch, StartShowMatch: one match at a time is on air.
StartMatch(a, b, show) ==
  /\ <<a, b>> \in load.pairs
  /\ (show => Kind("show")) /\ Len(matches) < load.matches
  /\ \A i \in 1..Len(matches) : matches[i].st # "live"
  /\ matches' = Append(matches, [id |-> Len(matches) + 1, day |-> today, at |-> MidnightOf(today) + clock, season |-> season,
       side |-> <<a, b>>, show |-> show, st |-> "live", card |-> 1, win |-> 0, void |-> FALSE,
       delta |-> <<0, 0>>, after |-> <<0, 0>>, upd |-> clock])
  /\ Tick
  /\ UNCHANGED <<load, today, season, began, ends, ratings>>

\* The console enters what happens, and corrects it ("undo").
Judge(i, c) ==
  /\ There(i) /\ matches[i].st = "live" /\ c # matches[i].card
  /\ IF c > matches[i].card THEN UNCHANGED clock ELSE Kind("undo") /\ Tick
  /\ matches' = [matches EXCEPT ![i].card = c]
  /\ UNCHANGED <<load, today, season, began, ends, ratings>>

\* The rating of a player in a season: what the rows add up to.
DeltaOf(m, p) == IF m.st = "finished" /\ p \in Sides(m) THEN m.delta[IF m.side[1] = p THEN 1 ELSE 2] ELSE 0
RatingOf(ms, fs, s, p) ==
  SumOf([i \in 1..Len(ms) |-> IF ms[i].season = s THEN DeltaOf(ms[i], p) ELSE 0])
  + MapThenSumSet(LAMBDA f : f.delta, {f \in fs : f.counted /\ f.season = s /\ f.user = p})

\* applyUserMatch: the row of a match is made by what the rating is by now.
Delta(m, i) == IF ~Rated(m) THEN 0 ELSE IF m.win = i THEN 1 ELSE IF m.void THEN 0 ELSE -1
WithRows(ms, fs, i) ==
  [ms EXCEPT ![i].delta = [s \in 1..2 |-> Delta(ms[i], s)],
             ![i].after = [s \in 1..2 |-> RatingOf(ms, fs, ms[i].season, ms[i].side[s]) + Delta(ms[i], s)]]

\* applyReset, applyCorrection: the row without a match.
Counted1(ms, fs, f) ==
  LET now == RatingOf(ms, fs, f.season, f.user)
      d == IF f.how = "reset" THEN -now ELSE f.delta
  IN [f EXCEPT !.delta = d, !.after = now + d, !.counted = TRUE]

FinishMatch(i) ==
  LET m == [matches[i] EXCEPT !.st = "finished", !.win = TopSide(Card(matches[i])), !.upd = clock] IN
  /\ There(i) /\ matches[i].st = "live"
  /\ matches' = WithRows([matches EXCEPT ![i] = m], fixes, i)
  /\ Tick
  /\ UNCHANGED <<load, today, season, began, ends, ratings>>

\* SetMatchVoided: the recount is a statement of its own.
VoidMatch(i) ==
  /\ Kind("void") /\ There(i) /\ matches[i].st = "finished" /\ (matches[i].win # 0 \/ matches[i].void)
  /\ matches' = [matches EXCEPT ![i].void = ~@, ![i].upd = clock]
  /\ owed' = TRUE
  /\ Tick
  /\ UNCHANGED <<load, today, season, began, ends, fixes>>

\* RecomputeAllMmr, in one step: every row anew in the order of time.
RecomputeAllMmr ==
  LET Rated0(m) == [m EXCEPT !.delta = <<0, 0>>, !.after = <<0, 0>>]
      none == [ms |-> [i \in 1..Len(matches) |-> Rated0(matches[i])], fs |-> {}]
      Over(w, e) == IF IsFix(e) THEN [w EXCEPT !.fs = @ \cup {Counted1(w.ms, w.fs, e)}]
                    ELSE [w EXCEPT !.ms = WithRows(@, w.fs, e.id)]
      all == FoldLeft(Over, none, InOrder(Finished(matches), {[f EXCEPT !.counted = TRUE] : f \in fixes})) IN
  /\ owed /\ owed' = FALSE
  /\ matches' = all.ms /\ fixes' = all.fs
  /\ UNCHANGED <<load, today, season, began, ends, clock>>

Fix(p, how, at, d) == [user |-> p, season |-> season, at |-> at, how |-> how, delta |-> d, after |-> 0, counted |-> FALSE]

\* ResetRating: once a season, not in a match, and only when there is something.
ResetRating(p) ==
  /\ Kind("reset") /\ p \notin Guest
  /\ ~\E f \in fixes : f.user = p /\ f.season = season /\ f.how = "reset"
  /\ ~\E i \in 1..Len(matches) : matches[i].st = "live" /\ p \in Sides(matches[i])
  /\ RatingOf(matches, fixes, season, p) # 0
  /\ fixes' = fixes \cup {Counted1(matches, fixes, Fix(p, "reset", MidnightOf(today) + clock, 0))}
  /\ Tick
  /\ UNCHANGED <<load, matches, today, season, began, ends, owed>>

\* ReplaceMmrCorrections: a correction dated as a match the player was in, or a later one;
\* it counts from the recount on.
CorrectRating(p, i) ==
  /\ Kind("correct") /\ p \notin Guest /\ fixes = {}
  /\ There(i) /\ matches[i].season = season
  /\ \E j \in 1..i : matches[j].st = "finished" /\ matches[j].season = season /\ p \in Sides(matches[j])
  /\ \E d \in {-2, 2} : fixes' = {Fix(p, "correction", matches[i].at, d)}
  /\ owed' = TRUE
  /\ Tick
  /\ UNCHANGED <<load, matches, today, season, began, ends>>

\* DeleteTournament: the later ratings stay as they were counted.
DeleteMatch(i) ==
  /\ Kind("delete") /\ There(i)
  /\ matches' = [matches EXCEPT ![i].st = "gone"]
  /\ UNCHANGED <<load, today, season, began, ends, ratings, clock>>

Midnight ==
  /\ today < load.days /\ today' = today + 1
  /\ UNCHANGED <<load, matches, season, began, ends, ratings, clock>>

\* StartNewSeason: the end that was set stays unless it lies ahead.
StartNewSeason ==
  /\ Kind("season") /\ season + 1 \in Season
  /\ season' = season + 1
  /\ began' = [began EXCEPT ![season + 1] = MidnightOf(today) + clock]
  /\ Tick
  /\ ends' = [ends EXCEPT ![season] = IF @ = 0 \/ @ > today THEN today ELSE @]
  /\ UNCHANGED <<load, matches, today, ratings>>

WorldInit ==
  /\ load \in Loads
  /\ matches = <<>> /\ today = 1 /\ season = 1 /\ clock = 1
  /\ began = [s \in Season |-> 0] /\ ends = [s \in Season |-> 0]
  /\ fixes = {} /\ owed = FALSE
  /\ belt = ComputeBelt(matches, fixes, today, season)

Rates  == RecomputeAllMmr \/ \E p \in Player : ResetRating(p) \/ \E i \in 1..Len(matches) : CorrectRating(p, i)
Begins == \E a, b \in Player, show \in BOOLEAN : StartMatch(a, b, show)
Play(i) == (\E c \in 1..Len(load.cards) : Judge(i, c)) \/ FinishMatch(i) \/ VoidMatch(i) \/ DeleteMatch(i)

-------------------------------------------------------------------------------
(* Properties. *)

\* The rule of the belt told by the calendar: every day its matches are played, and at
\* midnight a game day that its holder sat out is one idle day more.
DayOf(ms, day) == SelectSeq(ms, LAMBDA e : ~IsFix(e) /\ e.day = day)
PlayedOn(ms, b, day) ==
  LET One(c, e) == IF IsFix(e) THEN [c EXCEPT !.tables = Fixed(@, e)]
                   ELSE [(IF ForBelt(e) THEN Passed(c, e) ELSE c) EXCEPT !.tables[e.season] = Tabled(@, e)]
  IN FoldLeft(One, b, SelectSeq(ms, LAMBDA e : Day(e.at) = day))
OneDay(ms, c, day) ==
  LET Of == DayOf(ms, day)
      b == PlayedOn(ms, c.belt, day)
      game == \E i \in 1..Len(Of) : ~Of[i].show
      sat == b.holder = c.belt.holder /\ ~\E i \in 1..Len(Of) : ForBelt(Of[i]) /\ b.holder \in Sides(Of[i])
      idle == IF sat THEN c.idle + IF game THEN 1 ELSE 0 ELSE 0
  IN IF b.holder # NoPlayer /\ idle = load.rust
     THEN [idle |-> 0, belt |-> [b EXCEPT !.holder = NoPlayer,
                                          !.reigns = EndReign(b.reigns, "drop", MidnightOf(day + 1))]]
     ELSE [idle |-> idle, belt |-> b]
Calendar(all, fs, now) ==
  LET ms == InOrder(Finished(all), fs)
      Over(c, d) == OneDay(ms, c, d)
      before == FoldLeft(Over, [idle |-> 0, belt |-> NoBelt], [d \in 1..(now - 1) |-> d])
  IN PlayedOn(ms, before.belt, now).reigns

\* What is read off the matches is what the rule, told day by day, gives
\* (computeBelt: "Носитель, пропустивший BeltRustDays игровых дней подряд, теряет пояс
\* в полночь после последнего из них").
BeltIsCalendar == belt.reigns = Calendar(matches, fixes, today)

\* The belt passes from hand to hand without a gap: whoever takes it beat its holder
\* that day, it is picked up only after it fell, and its holder is that of the one open reign.
ReignsLink ==
  LET rs == belt.reigns IN
  /\ \A i \in 1..Len(rs) :
       /\ rs[i].how = "first" <=> i = 1
       /\ rs[i].how = "take" => /\ rs[i-1].end = "lost" /\ rs[i-1].to = rs[i].from
                                /\ Sides(matches[rs[i].match]) = {rs[i-1].holder, rs[i].holder}
       /\ rs[i].how = "pick" => rs[i-1].end = "drop" /\ rs[i-1].to <= rs[i].from
       /\ rs[i].end = "" <=> i = Len(rs) /\ belt.holder = rs[i].holder
  /\ belt.holder # NoPlayer => rs # <<>>

\* Leaderboard: sums of the changes of a season, and wins, over those who played.
TableOf(ms, fs, s) ==
  [p \in Player |->
    [in   |-> p \notin Guest /\ \E i \in 1..Len(ms) : /\ ms[i].st = "finished"
                                                      /\ ms[i].season = s /\ p \in Sides(ms[i]),
     mmr  |-> RatingOf(ms, fs, s, p),
     wins |-> Cardinality({i \in 1..Len(ms) : /\ ms[i].st = "finished" /\ ms[i].season = s
                                              /\ Winner(ms[i]) = p})]]

\* Those who may pick the belt up are at the top of the table of the season on the site
\* (computeBelt: "Лидер - как в таблице сезона"), unless a match was deleted: the
\* ratings counted after it stay as they are; or a recount is still to come.
LeadersAreTop ==
  ~Kind("delete") /\ ~owed => belt.leaders \subseteq Tops(TableOf(matches, fixes, season))
===============================================================================
