------------------------------- MODULE People -------------------------------
(***************************************************************************)
(* Players with all that is kept of them: accounts, teams and matches,     *)
(* clips and screenshots.  They meet when an account gets a new nick, when *)
(* it is deleted, and when the server starts.                              *)
(***************************************************************************)
EXTENDS Media

vars == <<load, account, alias, link, session, now, req, made, team, match, clip, job, claim, disk>>

\* DeleteEmptyUser looks for what the account has while it holds its row.
CheckEmpty(p) ==
  LET u == req[p].user IN
  /\ At(p, "locked")
  /\ GoIf(p, ~HasTeamHistory(u) /\ ~HasMedia(u), "clear")
  /\ UNCHANGED <<load, made, accountVars, teamVars, mediaVars>>

DeleteEmptyUser(p) ==
  DeleteUser(p) /\ CascadeTeams(req[p].user) /\ CascadeMedia(req[p].user)

Start == Boot /\ LightenExisting /\ UNCHANGED teamVars

Init ==
  /\ load \in Loads /\ AccountsInit /\ TeamsInit /\ MediaInit
  /\ req = [p \in Request |-> Blank] /\ made = 0

\* Goroutines, and uploads, go on.
GoOn(c) == ~Working(c, "none") /\ JobStep(c) /\ UNCHANGED <<load, made, req, accountVars, teamVars>>

Jobs == \E c \in {k \in Clip : job[k] # "none"} : (JobStep(c) \/ ClientGone(c)) /\ UNCHANGED <<load, made, req>>
Next ==
  \/ AccountsStep /\ UNCHANGED <<teamVars, mediaVars>>
  \/ TeamsStep /\ UNCHANGED <<accountVars, mediaVars>>
  \/ (MediaStep \/ Jobs) /\ UNCHANGED <<accountVars, teamVars>>
  \/ \E p \in Request \ Idle : RenameEverywhere(p) /\ UNCHANGED mediaVars
  \/ \E p \in Request \ Idle : CheckEmpty(p) \/ DeleteEmptyUser(p)
  \/ Start

Spec ==
  /\ Init /\ [][Next]_vars
  /\ \A c \in Clip : WF_vars(GoOn(c))

\* Accounts that can be told apart, with somebody to run the site, and links that serve.
AccountsSound == AccountsTyped /\ NamesApart /\ OrganizerLeft /\ LinksServe /\ SessionsEnd

\* Matches keep who played, in whose team and under what name.
HistoryKept == PlayersStay /\ TeamsStay /\ NamesAgree

\* Rows and files agree.
MediaSound == FilesAreThere /\ OnePending
===============================================================================
