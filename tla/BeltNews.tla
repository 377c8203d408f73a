------------------------------ MODULE BeltNews ------------------------------
(***************************************************************************)
(* Who reads the belt off: the copy the server keeps while nothing has     *)
(* changed (store/belt.go, Belt), and the check that writes the news of    *)
(* the belt once a minute (api/belt_news.go, store/belt_news.go).          *)
(***************************************************************************)
EXTENDS Belt

CONSTANTS
  Reader,    \* pages and checks that read the belt at the same time
  Checker,   \* of them, the checks: one of each server, while one takes over
  Fresh      \* beltNewsFresh, in days

ASSUME BeltNewsAssumption == Checker \subseteq Reader /\ Fresh \in Nat

VARIABLES
  cache,   \* the copy: the belt and its version
  known,   \* keys of belt_news
  news,    \* how many news there are of a key
  check    \* what the readers are at: step, the version and the belt they have read,
           \* the events to do, the keys of those that are too old, reads so far

newsVars == <<cache, known, news, check>>

Resting  == [at |-> "rest", ver |-> <<>>, belt |-> <<>>, todo |-> <<>>, old |-> {}]
NoCopy   == [ver |-> <<>>, belt |-> <<>>]
At(v, step) == check[v].at = step

-------------------------------------------------------------------------------
(* The copy.                                                               *)

\* Mutant: a belt that falls at midnight stays in the copy.
VersionOfAnyDay(ms, fs, s, day) ==
  LET I == {i \in 1..Len(ms) : ms[i].st # "gone"} IN
  <<Cardinality(I), IF I = {} THEN 0 ELSE Max({ms[i].upd : i \in I}), s>>

\* beltVersion: matches and their last change, changes of the rating and their sums,
\* seasons, and the day.
Version(ms, fs, s, day) ==
  LET I == {i \in 1..Len(ms) : ms[i].st # "gone"}
      F == {f \in fs : f.counted}
      R == {i \in I : Rated(ms[i])}
      Sum(f(_)) == FoldFunction(LAMBDA x, y : x + y, 0, [i \in R |-> f(ms[i])])
  IN <<Cardinality(I), IF I = {} THEN 0 ELSE Max({ms[i].upd : i \in I}),
       Cardinality(R) + Cardinality(F),
       Sum(LAMBDA m : m.delta[1] + m.delta[2]) + MapThenSumSet(LAMBDA f : f.delta, F),
       Sum(LAMBDA m : m.after[1] + m.after[2]) + MapThenSumSet(LAMBDA f : f.after, F), s, day>>

\* The version comes first: with the same one the copy is served.
ReadVersion(v) ==
  LET ver == Version(matches, fixes, season, today) IN
  /\ At(v, "rest")
  /\ check' = [check EXCEPT ![v] =
       IF cache.ver = ver THEN [Resting EXCEPT !.at = "read", !.belt = cache.belt]
       ELSE [Resting EXCEPT !.at = "load", !.ver = ver]]
  /\ UNCHANGED <<cache, known, news>>

\* What has been read by now goes by the version that was read before.
LoadBelt(v) ==
  /\ At(v, "load")
  /\ check' = [check EXCEPT ![v].at = "keep", ![v].belt = belt]
  /\ UNCHANGED <<cache, known, news>>

KeepBelt(v) ==
  /\ At(v, "keep")
  /\ cache' = [ver |-> check[v].ver, belt |-> check[v].belt]
  /\ check' = [check EXCEPT ![v].at = "read", ![v].ver = <<>>]
  /\ UNCHANGED <<known, news>>

\* A page has what it wanted.
ServeBelt(v) ==
  /\ At(v, "read") /\ v \notin Checker
  /\ check' = [check EXCEPT ![v] = Resting]
  /\ UNCHANGED <<cache, known, news>>

-------------------------------------------------------------------------------
(* SyncBeltNews.                                                           *)

Event(kind, id, moment, p) == [key |-> <<kind, id>>, day |-> Day(moment), holder |-> p]

\* BeltEvents: the first holder is no news; a honoured one is, when he gets there.
EventsOfReign(rs, i) ==
  LET r == rs[i]
      before == Defences(SubSeq(rs, 1, i - 1), r.holder)
      n == HonorAt - before
  IN (IF r.how = "first" THEN <<>> ELSE <<Event(r.how, r.match, r.from, r.holder)>>)
     \o (IF n \in 1..Len(r.defs) THEN <<Event("honor", r.holder, r.defs[n].at, r.holder)>> ELSE <<>>)
     \o (IF r.end = "drop" THEN <<Event("drop", r.match, r.to, r.holder)>> ELSE <<>>)
BeltEvents(b) == FoldLeft(LAMBDA es, i : es \o EventsOfReign(b.reigns, i), <<>>,
                          [i \in 1..Len(b.reigns) |-> i])

KnownBeltEvents(v) ==
  /\ At(v, "read") /\ v \in Checker
  /\ check' = [check EXCEPT ![v].at = "event", ![v].belt = <<>>,
       ![v].todo = SelectSeq(BeltEvents(check[v].belt), LAMBDA e : e.key \notin known)]
  /\ UNCHANGED <<cache, known, news>>

Old(e) == today - e.day > Fresh

\* The next event: too old, or a fall that is looked at twice, or to be written of.
TakeEvent(v) ==
  /\ At(v, "event") /\ check[v].todo # <<>>
  /\ LET e == Head(check[v].todo) IN
     check' = IF Old(e) THEN [check EXCEPT ![v].todo = Tail(@), ![v].old = @ \cup {e.key}]
              ELSE [check EXCEPT ![v].at = IF e.key[1] = "drop" THEN "live" ELSE "write"]
  /\ UNCHANGED <<cache, known, news>>

PlaysNow(p) == \E i \in 1..Len(matches) : matches[i].st = "live" /\ ~matches[i].show /\ p \in Sides(matches[i])

\* Mutant: nobody looks.
LookAway(v) ==
  /\ At(v, "live")
  /\ check' = [check EXCEPT ![v].at = "write"]
  /\ UNCHANGED <<cache, known, news>>

\* The holder has begun a match that may still leave him the belt.
InLiveMatch(v) ==
  /\ At(v, "live")
  /\ check' = IF PlaysNow(Head(check[v].todo).holder)
              THEN [check EXCEPT ![v].at = "event", ![v].todo = Tail(@)]
              ELSE [check EXCEPT ![v].at = "write"]
  /\ UNCHANGED <<cache, known, news>>

\* One transaction: the key, if it is new, and the news.
AddBeltNews(v) ==
  LET key == Head(check[v].todo).key IN
  /\ At(v, "write")
  /\ known' = known \cup {key} /\ news' = news (+) SetToBag({key} \ known)
  /\ check' = [check EXCEPT ![v].at = "event", ![v].todo = Tail(@)]
  /\ UNCHANGED cache

SkipBeltEvents(v) ==
  /\ At(v, "event") /\ check[v].todo = <<>>
  /\ known' = known \cup check[v].old
  /\ check' = [check EXCEPT ![v] = Resting]
  /\ UNCHANGED <<cache, news>>

\* The server is started anew: its copy is lost and its check begins from the start.
Restart ==
  /\ Kind("crash") /\ \E v \in Reader : check[v].at # "rest"
  /\ cache' = NoCopy /\ check' = [v \in Reader |-> Resting]
  /\ UNCHANGED <<known, news>>

NewsInit == cache = NoCopy /\ known = {} /\ news = EmptyBag /\ check = [v \in Reader |-> Resting]

Reads(v) == \/ ReadVersion(v) \/ LoadBelt(v) \/ KeepBelt(v) \/ ServeBelt(v) \/ KnownBeltEvents(v)
            \/ TakeEvent(v) \/ InLiveMatch(v) \/ AddBeltNews(v) \/ SkipBeltEvents(v)

-------------------------------------------------------------------------------
(* Properties. *)

\* The copy is the belt as long as its version is the present one, whatever pages, checks
\* and changes came between (Belt: "Пересчитывается, когда изменились матчи, рейтинг,
\* сезоны или наступил новый день").
CopyIsBelt == cache.ver = Version(matches, fixes, season, today) => cache.belt = belt

\* Of an event there is one news at most, also with two checks at a time
\* (AddBeltNews: "две проверки, сошедшиеся по времени, не напишут её дважды").
NewsOnce == \A k \in BagToSet(news) : CopiesIn(k, news) = 1

Stands(key) == \E e \in ToSet(BeltEvents(belt)) : e.key = key
\* What is news and true stays true: no match played on takes it back, not even one the
\* holder began before the midnight at which his belt fell (SyncBeltNews: "с его итогом
\* пояс останется").  Of a fall read before such a match ended and written of after it
\* the news is false already; matches that are voided or deleted change everything.
NewsStand ==
  ~Kind("void") /\ ~Kind("delete") =>
    \A k \in BagToSet(news) : Stands(k) => Stands(k)'

\* Once nothing changes any more, whatever happened to the belt is known to the news
\* ("проверка повторится через минуту"), if the server is not restarted for ever; a fall
\* has to wait for the match that its holder plays.
HappensNow == {e \in ToSet(BeltEvents(belt)) : e.key[1] # "drop" \/ ~PlaysNow(e.holder)}
NewsInTheEnd ==
  <>[][~Restart]_newsVars =>
    <>[](load.readers \cap Checker # {} => \A e \in HappensNow : e.key \in known)
===============================================================================
