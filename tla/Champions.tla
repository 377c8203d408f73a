------------------------------ MODULE Champions ------------------------------
(***************************************************************************)
(* The tag of the champion of a season (internal/store/tags.go,            *)
(* SyncSeasonWinnerTags): once the season's end has come, the first of its *)
(* table holds it.  A check a minute, and one after every change of the    *)
(* dates or of the ratings.                                                *)
(***************************************************************************)
EXTENDS Belt

CONSTANT Crowner   \* the checks that may run at the same time

VARIABLES
  champion,  \* the tag of a season: nobody has it, or one player
  crown      \* what the checks are at: step, the seasons left, those whose end has come
             \* and who is to have the tag of each

tagVars == <<champion, crown>>

AtRest == [at |-> "rest", left |-> {}, due |-> {}, of |-> <<>>]

\* handleUpdateSeason: the end of a season may be moved, whether it has come or not.
UpdateSeason(s, day) ==
  /\ Kind("ends") /\ s <= season
  /\ ends' = [ends EXCEPT ![s] = day]
  /\ Tick
  /\ UNCHANGED <<load, matches, today, season, began, ratings>>

\* The transaction, the lock and the list of the seasons whose end is not ahead.
LockTags(c) ==
  /\ \A o \in Crowner : crown[o].at = "rest"
  /\ crown' = [crown EXCEPT ![c] =
       [at |-> "table", left |-> {s \in 1..season : ends[s] # 0 /\ ends[s] <= today},
        due |-> {}, of |-> champion]]
  /\ UNCHANGED champion

\* Leaderboard: of several at the top any one comes first; a table nobody is in gives no tag.
LookAtTable(c, s) ==
  LET tops == Tops(TableOf(matches, fixes, s)) IN
  /\ crown[c].at = "table" /\ s \in crown[c].left
  /\ IF tops = {} THEN crown' = [crown EXCEPT ![c].left = @ \ {s}]
     ELSE \E p \in tops : crown' = [crown EXCEPT ![c].left = @ \ {s}, ![c].due = @ \cup {s},
                                                ![c].of[s] = p]
  /\ UNCHANGED champion

\* Mutant: a tag that has been given stays.
CommitNewTags(c) ==
  /\ crown[c].at = "table" /\ crown[c].left = {}
  /\ champion' = [s \in Season |-> IF s \in crown[c].due THEN crown[c].of[s] ELSE champion[s]]
  /\ crown' = [crown EXCEPT ![c] = AtRest]

\* The commit: seasons whose end has been moved ahead lose their tag.
CommitTags(c) ==
  /\ crown[c].at = "table" /\ crown[c].left = {}
  /\ champion' = [s \in Season |-> IF s \in crown[c].due THEN crown[c].of[s] ELSE NoPlayer]
  /\ crown' = [crown EXCEPT ![c] = AtRest]

\* The request ends early, or the server.
TagsFail(c) ==
  /\ Kind("gone") /\ crown[c].at # "rest"
  /\ crown' = [crown EXCEPT ![c] = AtRest]
  /\ UNCHANGED champion

TagInit == champion = [s \in Season |-> NoPlayer] /\ crown = [c \in Crowner |-> AtRest]

Crowns(c) == LockTags(c) \/ (\E s \in Season : LookAtTable(c, s)) \/ CommitTags(c)

-------------------------------------------------------------------------------
(* Properties. *)

Crowned ==
  \A s \in Season :
    IF s <= season /\ ends[s] # 0 /\ ends[s] <= today /\ Tops(TableOf(matches, fixes, s)) # {}
    THEN champion[s] \in Tops(TableOf(matches, fixes, s)) ELSE champion[s] = NoPlayer

\* Once nothing changes any more, every season that is over has its champion, who leads
\* its table, and no other season has one ("держатель тега - всегда первое место таблицы
\* 1×1 сезона"), whatever changes the checks met between their statements, unless they
\* fail for ever.
ChampionInTheEnd ==
  <>[][\A c \in Crowner : ~TagsFail(c)]_tagVars => <>[](Kind("tags") => Crowned)
===============================================================================
