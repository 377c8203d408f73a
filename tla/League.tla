------------------------------- MODULE League -------------------------------
(***************************************************************************)
(* The league as a whole: the matches 1x1, the belt and its news, the      *)
(* patches and the champions, which are all read off the same matches by   *)
(* requests, pages and the checks of every minute (cmd/server/main.go).    *)
(***************************************************************************)
EXTENDS BeltNews, Patches, Champions

vars == <<world, newsVars, patchVars, earned, tagVars>>

Init == WorldInit /\ NewsInit /\ PatchInit /\ TagInit

\* What changes the matches and the seasons: requests that count the patches afterwards,
\* where these are asked about.
Changes ==
  \/ (Begins \/ Midnight \/ \E s \in Season, d \in 0..load.days : UpdateSeason(s, d))
     /\ UNCHANGED patchVars
  \/ load.syncers # {} /\ \E i \in 1..Len(matches) : HandleTask(i) \/ HandleVoidMatch(i)
  \/ load.syncers # {} /\ \E p \in Player : HandleResetRating(p)
  \/ \E p \in Syncer : \/ HandleStartSeason(p) \/ HandleRecompute(p)
                      \/ \E i \in 1..Len(matches) : Requests(p, i)
  \/ load.syncers = {} /\ (StartNewSeason \/ Rates \/ \E i \in 1..Len(matches) : Play(i))
     /\ UNCHANGED patchVars

ReadBelt(v)  == v \in load.readers /\ Reads(v) /\ UNCHANGED <<world, patchVars, earned, tagVars>>
SyncStep(p)  == p \in load.syncers /\ Counts(p) /\ UNCHANGED <<world, earned, newsVars, tagVars>>
CrownStep(c) == Kind("tags") /\ Crowns(c) /\ UNCHANGED <<world, earned, newsVars, patchVars>>

Fail ==
  \/ Restart /\ UNCHANGED <<world, patchVars, earned, tagVars>>
  \/ (\E p \in Syncer : Fails(p)) /\ UNCHANGED <<world, earned, newsVars, tagVars>>
  \/ (\E c \in Crowner : TagsFail(c)) /\ UNCHANGED <<world, earned, newsVars, patchVars>>

Next ==
  \/ Changes /\ ReadOff /\ Earned /\ UNCHANGED <<newsVars, tagVars>>
  \/ \E v \in Reader : ReadBelt(v)
  \/ \E p \in Syncer : SyncStep(p)
  \/ \E c \in Crowner : CrownStep(c)
  \/ Fail

\* The checks of every minute go on for ever, and a request that is served goes on.
Spec ==
  /\ Init /\ [][Next]_vars
  /\ \A v \in Reader : WF_vars(ReadBelt(v))
  /\ \A p \in Syncer : WF_vars(SyncStep(p))
  /\ \A c \in Crowner : WF_vars(CrownStep(c))

\* The tables hold what they may; a patch is there once, as its key demands.
TypeOK ==
  /\ \A i \in 1..Len(matches) : /\ matches[i].day \in 1..today /\ matches[i].season \in 1..season
                                /\ matches[i].win \in 0..2 /\ matches[i].st \in {"live", "finished", "gone"}
  /\ honor \subseteq Player \ Guest /\ champion \in [Season -> (Player \ Guest) \cup {NoPlayer}]
  /\ \A a, b \in patches : Key(a) = Key(b) => a = b
  /\ \A a \in patches : a.patch.user \in Player \ Guest

\* The belt as it is read: that of the calendar, passed from hand to hand, picked up by the
\* leaders of the table, the same in its copy, and told of once in the news.
BeltSound == TypeOK /\ BeltIsCalendar /\ ReignsLink /\ LeadersAreTop /\ CopyIsBelt /\ NewsOnce

\* The patches as they are counted, those of the belt among them, and shown once.
PatchesAgree == BeltPatchIsReign /\ TableIsCurrent /\ ShownOnce

\* What was told of a match stays true as further matches are played: news that stand and
\* patches that are earned.
ToldStaysTrue == [][NewsStand /\ EarnedStays]_<<matches, today, earned>>
===============================================================================
