-------------------------------- MODULE Teams --------------------------------
(***************************************************************************)
(* Pairs of players and their matches: a team is made, named anew, gets    *)
(* other players and is removed while matches are made of players and of   *)
(* teams (internal/store/teams.go, CreateMatch in matches.go, what         *)
(* RenameUser and DeleteEmptyUser in user_admin.go do about matches).      *)
(*                                                                         *)
(* A side of a match keeps copies: who plays, how the side is named and    *)
(* how its players are.  Upcoming and live matches are alike here          *)
(* (coming), what is on air being SiteMatch's; the rating is Rating's.     *)
(* The routes of participants add sides to a match and rewrite those it    *)
(* has, with any name and players: it is made by hand from then on (hand). *)
(* A side has its player's account in a 1x1 match and a list of players in *)
(* a 2x2 match (at most a pair here); the other of the two fields, the     *)
(* removal of a side (SiteMatch) and points are left out.                  *)
(***************************************************************************)
EXTENDS Accounts

CONSTANTS TeamName, Own   \* Own: a title that somebody wrote himself

VARIABLES
  team,    \* teams: whose pair it is and its name
  match    \* tournaments with their participants, and whether those were made by hand

teamVars == <<team, match>>
Pairs    == {pair \in SUBSET User : Cardinality(pair) = 2}

\* The teams there are at first: pairs of players there are, each once.
ASSUME TeamsAssumption ==
  \A l \in Loads :
    /\ l.teams \subseteq [pair : Pairs, name : TeamName]
    /\ \A t \in l.teams : t.pair \subseteq DOMAIN l.first
    /\ \A t, o \in l.teams : t.pair = o.pair => t = o

Title(sides) == [i \in DOMAIN sides |-> sides[i].name]
Matches  == {m \in DOMAIN match : match[m].st # "gone"}
Coming(m) == match[m].st = "coming"
TeamOf(pair) == {t \in team : t.pair = pair}
SidesOf(m) == DOMAIN match[m].sides
\* teamPlayed: a match of the pair, also one that is only planned.
Played(pair) == \E m \in Matches : match[m].mode = "2x2" /\ \E i \in SidesOf(m) : match[m].sides[i].who = pair
TeamLocked(pair) == \E p \in Request : req[p].at \in {"update", "drop"} /\ req[p].args[1] = pair
\* A row may refer to these accounts: nobody is deleting them.
Free(us) == \A u \in us : ~Locked(u)

-------------------------------------------------------------------------------
(* Teams.                                                                  *)

HandleCreateTeam(p, pair, n) ==
  /\ pair \subseteq Here
  /\ Arrive(p, "team", [Blank EXCEPT !.at = "team", !.args = <<pair>>, !.name = n])
  /\ UNCHANGED teamVars

CreateTeam(p) ==
  LET pair == req[p].args[1] IN
  /\ At(p, "team") /\ Free(pair)
  /\ team' = IF TeamOf(pair) = {} /\ pair \subseteq Here
             THEN team \cup {[pair |-> pair, name |-> req[p].name]} ELSE team
  /\ Done(p) /\ UNCHANGED <<load, made, match>>

\* The row of the team is locked; other players only before the first match.
HandleUpdateTeam(p, t, to, n) ==
  /\ ~TeamLocked(t.pair)
  /\ to # t.pair => to \subseteq Here /\ ~Played(t.pair)
  /\ Arrive(p, "update", [Blank EXCEPT !.at = "update", !.args = <<t.pair, to>>, !.name = n])
  /\ UNCHANGED teamVars

\* A match that still comes gets the name, and its title if it was made of the names.
RenameComing(m, pair, n) ==
  LET sides == [i \in DOMAIN m.sides |-> IF m.sides[i].who = pair THEN [m.sides[i] EXCEPT !.name = n]
                                          ELSE m.sides[i]] IN
  IF m.mode = "2x2" /\ m.st = "coming"
  THEN [m EXCEPT !.sides = sides, !.title = IF @ = Title(m.sides) THEN Title(sides) ELSE @]
  ELSE m

UpdateTeam(p) ==
  LET from == req[p].args[1]  to == req[p].args[2]  n == req[p].name
      old  == CHOOSE t \in TeamOf(from) : TRUE
  IN
  /\ At(p, "update") /\ (to # from => Free(to))
  /\ IF TeamOf(from) # {} /\ (to = from \/ (TeamOf(to) = {} /\ to \subseteq Here))
     THEN /\ team' = (team \ {old}) \cup {[pair |-> to, name |-> n]}
          /\ match' = IF n = old.name THEN match ELSE [m \in DOMAIN match |-> RenameComing(match[m], to, n)]
     ELSE UNCHANGED teamVars
  /\ Done(p) /\ UNCHANGED <<load, made>>

HandleDeleteTeam(p, t) ==
  /\ ~TeamLocked(t.pair) /\ ~Played(t.pair)
  /\ Arrive(p, "drop", [Blank EXCEPT !.at = "drop", !.args = <<t.pair>>])
  /\ UNCHANGED teamVars

DeleteTeam(p) ==
  /\ At(p, "drop")
  /\ team' = team \ TeamOf(req[p].args[1])
  /\ Done(p) /\ UNCHANGED <<load, made, match>>

-------------------------------------------------------------------------------
(* Matches.                                                                *)

CalledNow(us) == [u \in us |-> account[u].name]
PlayerSide(u) == [who |-> {u}, name |-> account[u].name, called |-> CalledNow({u})]
TeamSide(t)   == [who |-> t.pair, name |-> t.name, called |-> CalledNow(t.pair)]

\* describeSide, twice, and sharePlayers; aGoesFirst puts them in either order.
HandleCreateMatch(p, kind, a, b) ==
  /\ a.who \cap b.who = {}
  /\ Arrive(p, kind, [Blank EXCEPT !.at = kind, !.args = <<a, b>>])
  /\ UNCHANGED teamVars

\* One transaction.  The row of a player refers to his account, those of a pair are a list
\* of keys that refers to nothing.
CreateMatch(p) ==
  LET sides == req[p].args  singles == sides[1].who \cup sides[2].who IN
  /\ \E kind \in {"1x1", "2x2"} :
       /\ At(p, kind) /\ (kind = "1x1" => Free(singles))
       /\ match' = IF kind = "1x1" /\ ~(singles \subseteq Here) THEN match
                   ELSE Append(match, [mode |-> kind, st |-> "coming", sides |-> sides, title |-> Title(sides),
                                       hand |-> FALSE])
  /\ Done(p) /\ UNCHANGED <<load, made, team>>

\* PATCH of status and title, and the deletion.
HandleUpdateMatch(p, m, kind, st) ==
  /\ match[m].st # st
  /\ Arrive(p, kind, Blank)
  /\ match' = [match EXCEPT ![m].st = st]
  /\ UNCHANGED team

HandleRetitle(p, m) ==
  /\ match[m].title # Own
  /\ Arrive(p, "retitle", Blank)
  /\ match' = [match EXCEPT ![m].title = Own]
  /\ UNCHANGED team

\* The participants' routes look whether the match is over, then write.  Nobody's name is
\* looked up, and the players of a pair are any keys.
HandleAddParticipant(p, m, us, n) ==
  /\ Coming(m)
  /\ Arrive(p, "hand", [Blank EXCEPT !.at = "add", !.args = <<m, us>>, !.name = n])
  /\ UNCHANGED teamVars

\* fields: what the body has of a name and of players.
HandleUpdateParticipant(p, m, i, us, n, fields) ==
  /\ Coming(m)
  /\ Arrive(p, "hand", [Blank EXCEPT !.at = "edit", !.args = <<m, us, i, fields>>, !.name = n])
  /\ UNCHANGED teamVars

SideByHand(us, n) == [who |-> us, name |-> n, called |-> [u \in us |-> NoName]]
\* Account there is or not, the list of a pair takes it.
Seats(m, us) == match[m].mode = "1x1" => Free(us)
Holds1x1(m, us) == match[m].mode = "1x1" => us \subseteq Here

AddParticipant(p) ==
  LET m == req[p].args[1]  us == req[p].args[2] IN
  /\ At(p, "add") /\ Seats(m, us)
  /\ match' = IF m \in Matches /\ Holds1x1(m, us)
              THEN [match EXCEPT ![m].sides = Append(@, SideByHand(us, req[p].name)), ![m].hand = TRUE]
              ELSE match
  /\ Done(p) /\ UNCHANGED <<load, made, team>>

UpdateParticipant(p) ==
  LET m == req[p].args[1]  us == req[p].args[2]  i == req[p].args[3]  fields == req[p].args[4]
      side == match[m].sides[i]
      new  == SideByHand(us, req[p].name)
  IN
  /\ At(p, "edit") /\ ("players" \in fields => Seats(m, us))
  /\ match' = IF m \in Matches /\ ("players" \in fields => Holds1x1(m, us))
              THEN [match EXCEPT ![m].hand = TRUE, ![m].sides[i] =
                     [who    |-> IF "players" \in fields THEN us ELSE side.who,
                      name   |-> IF "name" \in fields THEN req[p].name ELSE side.name,
                      called |-> IF "players" \in fields THEN new.called ELSE side.called]]
              ELSE match
  /\ Done(p) /\ UNCHANGED <<load, made, team>>

-------------------------------------------------------------------------------
(* What accounts do to matches.                                            *)

\* RenameUser: all copies of the name of a player, not the titles made of it.
RenameParticipants(u, n) ==
  match' = [m \in DOMAIN match |->
    [match[m] EXCEPT !.sides = [i \in SidesOf(m) |->
       LET s == match[m].sides[i] IN
       IF u \notin s.who THEN s
       ELSE [s EXCEPT !.called = [@ EXCEPT ![u] = n],
                      !.name = IF match[m].mode = "1x1" THEN n ELSE @]]]]

RenameEverywhere(p) ==
  /\ RenameUser(p)
  /\ IF Renames(p) THEN RenameParticipants(req[p].user, req[p].name) ELSE UNCHANGED match
  /\ UNCHANGED team

\* DeleteEmptyUser looks for these, and its DELETE cascades to them.
HasTeamHistory(u) ==
  \/ \E m \in Matches : \E i \in SidesOf(m) : u \in match[m].sides[i].who
  \/ \E t \in team : u \in t.pair
CascadeTeams(u) ==
  /\ team' = {t \in team : u \notin t.pair}
  /\ match' = [m \in DOMAIN match |->
       IF match[m].mode = "2x2" THEN match[m]
       ELSE [match[m] EXCEPT !.sides = [i \in SidesOf(m) |-> [match[m].sides[i] EXCEPT !.who = @ \ {u}]]]]

\* Who may be written into a side: at most one player, or a pair.
Lists(mode) == {us \in SUBSET Here : Cardinality(us) <= IF mode = "1x1" THEN 1 ELSE 2}

TeamsInit == match = <<>> /\ team = load.teams

TeamsStep ==
  \/ \E p \in Request \ Idle : 
       \/ CreateTeam(p) \/ UpdateTeam(p) \/ DeleteTeam(p) \/ CreateMatch(p)
       \/ AddParticipant(p) \/ UpdateParticipant(p)
  \/ \E p \in Server :
       \/ Kind("team")   /\ \E pair \in Pairs, n \in TeamName : HandleCreateTeam(p, pair, n)
       \/ Kind("update") /\ \E t \in team, pair \in Pairs, n \in TeamName : HandleUpdateTeam(p, t, pair, n)
       \/ Kind("drop")   /\ \E t \in team : HandleDeleteTeam(p, t)
       \/ Kind("2x2")    /\ \E t, o \in team : HandleCreateMatch(p, "2x2", TeamSide(t), TeamSide(o))
       \/ Kind("1x1")    /\ \E u, v \in Here : HandleCreateMatch(p, "1x1", PlayerSide(u), PlayerSide(v))
       \/ \E m \in Matches :
            \/ HandleUpdateMatch(p, m, "finish", "finished") \/ HandleUpdateMatch(p, m, "reopen", "coming")
            \/ HandleUpdateMatch(p, m, "cancel", "gone") \/ HandleRetitle(p, m)
            \/ Kind("hand") /\ \E us \in Lists(match[m].mode), n \in TeamName :
                 \/ HandleAddParticipant(p, m, us, n)
                 \/ \E i \in SidesOf(m), fields \in {{"name"}, {"players"}, {"name", "players"}} :
                      HandleUpdateParticipant(p, m, i, us, n, fields)

-------------------------------------------------------------------------------
(* Properties.                                                             *)

\* Who is written into a side stays there with his account, however requests meet ("Блокируем
\* строку, чтобы за время проверки игрока не успели записать в матч"): for 1x1 the rows see
\* to it, for pairs only requests that come one by one.
PlayersStay ==
  \A m \in Matches : match[m].mode = "1x1" \/ Alone =>
    \A i \in SidesOf(m) :
      LET s == match[m].sides[i] IN s.who = DOMAIN s.called /\ s.who \subseteq Here

\* One request at a time, a pair that has a match is a team ("её состав и она сама остаются
\* такими, как в них"), unless the match was made by hand: then a pair may have played
\* without being a team ("Пара могла играть и до списка команд").
TeamsStay ==
  Alone => \A m \in Matches : match[m].mode = "2x2" /\ ~match[m].hand =>
    \A i \in SidesOf(m) : TeamOf(match[m].sides[i].who) # {}

\* Nick and name are the same everywhere ("чтобы ник был один везде", "Ещё не сыгранные матчи
\* команды идут под новым названием"), but where they were written by hand: of players in
\* every match, of teams in those to come, and in their titles, unless somebody wrote his
\* own.  A match reopened keeps its old names.
NamesAgree ==
  Alone => \A m \in {k \in Matches : ~match[k].hand} : \A i \in SidesOf(m) :
    LET s == match[m].sides[i] IN
    /\ \A u \in s.who : s.called[u] = account[u].name
    /\ match[m].mode = "2x2" /\ Coming(m) /\ ~Kind("reopen") =>
         /\ \A t \in TeamOf(s.who) : s.name = t.name
         /\ match[m].title \in {Own, Title(match[m].sides)}
===============================================================================
