------------------------------ MODULE SiteMatch ------------------------------
(***************************************************************************)
(* The matches of the site and who plays them: how a match is made, goes   *)
(* on air, ends, is reopened or called off, and what that does to the      *)
(* applications of the players in the pool (internal/store/matches.go,     *)
(* tournaments.go, participants.go, registrations.go and their handlers).  *)
(*                                                                         *)
(* A request is a sequence of statements (todo); only what the code puts   *)
(* in one statement or one transaction is one step.  Rounds are those of   *)
(* MatchRounds, the score MatchScore's, the rating Rating's.               *)
(***************************************************************************)
EXTENDS Naturals, Sequences, FiniteSets

CONSTANTS
  Request,     \* requests that may be served at the same time
  Match, User,
  NoMatch, NoUser,
  Loads        \* bounds: what is asked of the server, see load

ASSUME SiteAssumption ==
  /\ NoMatch \notin Match /\ NoUser \notin User
  /\ IsFiniteSet(Request)
  /\ Loads \subseteq [kinds : SUBSET STRING, at : Nat, made : Nat, gone : BOOLEAN,
                     applied : BOOLEAN, matches : SUBSET Match, users : SUBSET User]

VARIABLES
  load,    \* the kinds of requests that come, how many at a time and in all, whether a
           \* client may leave and its request with it, whether everybody has applied in
           \* the first state, the matches and users there are
  status,  \* tournaments.status; "none": there is no such match
  parts,   \* its participants: two seats, each with a player or nobody
  reg,     \* registrations: one row for a player
  req,     \* the requests being served
  made     \* requests made so far

vars == <<load, status, parts, reg, req, made>>

Seat   == 1..2
Status == {"none", "upcoming", "live", "finished"}
St(op, m, u, x) == [op |-> op, m |-> m, u |-> u, x |-> x]
Blank   == [todo |-> <<>>, held |-> {}]
Idle(p) == req[p].todo = <<>>
It(p)   == Head(req[p].todo)
Doing(p, op) == ~Idle(p) /\ It(p).op = op
GoOn(p) == req' = [req EXCEPT ![p].todo = Tail(@)]
Stop(p) == req' = [req EXCEPT ![p] = Blank]
GoOnIf(p, ok) == IF ok THEN GoOn(p) ELSE Stop(p)

Exists(m) == status[m] # "none"
Live      == {m \in Match : status[m] = "live"}
PlayersOf(m) == {parts[m][i] : i \in Seat} \ {NoUser}
Nobody    == [i \in Seat |-> NoUser]
\* An application that a deletion has returned, before it is committed.
Held(u)   == \E p \in Request : u \in req[p].held

-------------------------------------------------------------------------------
(* The requests.                                                           *)

Accept(p, kind, todo) ==
  /\ kind \in load.kinds /\ Idle(p) /\ made < load.made
  /\ Cardinality({o \in Request : ~Idle(o)}) < load.at
  /\ made' = made + 1
  /\ req' = [req EXCEPT ![p].todo = todo]
  /\ UNCHANGED <<load, status, parts, reg>>

\* The key of a new match is nobody else's.
Fresh(m) == m \in load.matches /\ ~Exists(m) /\ \A p \in Request : \A i \in DOMAIN req[p].todo : req[p].todo[i].m # m

Place(m, u) == St("place", m, u, 0)

HandleCreateMatch(p, m, a, b) ==
  /\ Fresh(m) /\ a # b
  /\ Accept(p, "create", <<St("current", NoMatch, NoUser, 0), St("insert", m, <<a, b>>, "live"),
                           Place(m, a), Place(m, b)>>)

\* The same with format show: no look at what is on air, and a date.
HandleCreateShow(p, m, a, b) ==
  /\ Fresh(m) /\ a # b
  /\ Accept(p, "show", <<St("insert", m, <<a, b>>, "upcoming"), Place(m, a), Place(m, b)>>)

HandleCreateTournament(p, m) ==
  Fresh(m) /\ Accept(p, "tournament", <<St("insert", m, Nobody, "upcoming")>>)

HandleStartMatch(p, m) ==
  Accept(p, "start", <<St("guard", m, NoUser, 0), St("current", m, NoUser, 0),
                       St("start", m, NoUser, 0)>>)

HandleNextRound(p, m) ==
  Accept(p, "round", <<St("guard", m, NoUser, 0), St("choose", m, NoUser, 0),
                       St("round", m, NoUser, 0)>>)

HandleFinishMatch(p, m) ==
  Accept(p, "finish", <<St("guard", m, NoUser, 0), St("set", m, NoUser, "finished")>>)

Deletion(m) == <<St("return", m, NoUser, 0), St("delete", m, NoUser, 0)>>

HandleCancelMatch(p, m) ==
  Accept(p, "cancel", <<St("guard", m, NoUser, 0)>> \o Deletion(m))

HandleDeleteTournament(p, m) == Accept(p, "delete", Deletion(m))

\* PATCH with a status, any of them, from any other.
HandleUpdateTournament(p, m, to) ==
  Accept(p, "patch", (IF to = "live" THEN <<St("demote", m, NoUser, 0)>> ELSE <<>>)
                     \o <<St("set", m, NoUser, to)>>)

HandleAddParticipant(p, m, u) ==
  Accept(p, "add", <<St("open", m, NoUser, 0), St("add", m, u, 0), Place(m, u)>>)

HandleUpdateParticipant(p, m, i, u) ==
  Accept(p, "update", <<St("open", m, NoUser, 0), St("change", m, u, i)>>)

HandleRemoveParticipant(p, m, i) ==
  Accept(p, "remove", <<St("open", m, NoUser, 0), St("who", m, NoUser, i),
                        St("remove", m, NoUser, i)>>)

HandleRegister(p, u) == Accept(p, "register", <<St("apply", NoMatch, u, 0)>>)

HandleDecideRegistration(p, u, to) == Accept(p, "decide", <<St("decide", NoMatch, u, to)>>)

-------------------------------------------------------------------------------
(* The statements about matches.                                           *)

\* matchGuard: the match is there and is not finished.
MatchGuard(p) ==
  /\ Doing(p, "guard")
  /\ GoOnIf(p, status[It(p).m] \in {"upcoming", "live"})
  /\ UNCHANGED <<load, status, parts, reg, made>>

\* Mutant: nothing is closed.
BlockNothing(p) ==
  /\ Doing(p, "open")
  /\ GoOn(p)
  /\ UNCHANGED <<load, status, parts, reg, made>>

\* blockIfFinished, in the handlers of participants: a match that is not there passes.
BlockIfFinished(p) ==
  /\ Doing(p, "open")
  /\ GoOnIf(p, status[It(p).m] # "finished")
  /\ UNCHANGED <<load, status, parts, reg, made>>

\* Mutant: only the match that is to start is looked at.
CurrentMatchMine(p) ==
  /\ Doing(p, "current")
  /\ GoOnIf(p, It(p).m \notin Live)
  /\ UNCHANGED <<load, status, parts, reg, made>>

\* CurrentMatchID in CreateMatch and StartShowMatch: another match is on air.
CurrentMatchID(p) ==
  /\ Doing(p, "current")
  /\ GoOnIf(p, Live \subseteq {It(p).m})
  /\ UNCHANGED <<load, status, parts, reg, made>>

\* The transaction of CreateMatch; CreateTournament.
Insert(p) ==
  LET m == It(p).m IN
  /\ Doing(p, "insert")
  /\ status' = [status EXCEPT ![m] = It(p).x]
  /\ parts' = [parts EXCEPT ![m] = It(p).u]
  /\ GoOn(p)
  /\ UNCHANGED <<load, reg, made>>

\* The update of StartShowMatch, whatever the format: only what has not begun.
StartShowMatch(p) ==
  LET m == It(p).m IN
  /\ Doing(p, "start")
  /\ IF status[m] = "upcoming" THEN status' = [status EXCEPT ![m] = "live"] ELSE UNCHANGED status
  /\ GoOn(p)
  /\ UNCHANGED <<load, parts, reg, made>>

\* StartNextRound chooses the round; there may be none, or none with a map.
ChooseRound(p) ==
  /\ Doing(p, "choose")
  /\ GoOn(p) \/ Stop(p)
  /\ UNCHANGED <<load, status, parts, reg, made>>

\* Its transaction makes the round and the match live, and looks at no other match.
StartNextRound(p) ==
  LET m == It(p).m IN
  /\ Doing(p, "round")
  /\ IF Exists(m) THEN status' = [status EXCEPT ![m] = "live"] ELSE UNCHANGED status
  /\ GoOn(p)
  /\ UNCHANGED <<load, parts, reg, made>>

DemoteLiveExcept(p) ==
  /\ Doing(p, "demote")
  /\ status' = [m \in Match |-> IF m \in Live \ {It(p).m} THEN "upcoming" ELSE status[m]]
  /\ GoOn(p)
  /\ UNCHANGED <<load, parts, reg, made>>

\* UpdateTournamentStatus, and the update of FinishMatch.
UpdateTournamentStatus(p) ==
  LET m == It(p).m IN
  /\ Doing(p, "set")
  /\ IF Exists(m) THEN status' = [status EXCEPT ![m] = It(p).x] ELSE UNCHANGED status
  /\ GoOn(p)
  /\ UNCHANGED <<load, parts, reg, made>>

\* DeleteTournament, the first statement of its transaction: the rows it changes are
\* locked, and nobody sees the change yet.
ReturnRegistrations(p) ==
  LET mine == {u \in User : reg[u].status = "accepted" /\ reg[u].match = It(p).m} IN
  /\ Doing(p, "return")
  /\ \A u \in mine : ~Held(u)
  /\ req' = [req EXCEPT ![p].todo = Tail(@), ![p].held = mine]
  /\ UNCHANGED <<load, status, parts, reg, made>>

\* The second, and the commit: the match goes with its participants, and an
\* application that still points at it points nowhere (ON DELETE SET NULL).
DeleteTournament(p) ==
  LET m == It(p).m IN
  /\ Doing(p, "delete")
  /\ IF Exists(m)
     THEN /\ status' = [status EXCEPT ![m] = "none"]
          /\ parts' = [parts EXCEPT ![m] = Nobody]
          /\ reg' = [u \in User |->
                       IF u \in req[p].held THEN [status |-> "pending", match |-> NoMatch]
                       ELSE IF reg[u].match = m THEN [reg[u] EXCEPT !.match = NoMatch] ELSE reg[u]]
     ELSE UNCHANGED <<status, parts, reg>>
  /\ Stop(p)
  /\ UNCHANGED <<load, made>>

-------------------------------------------------------------------------------
(* The statements about participants and applications.                     *)

\* Seat is a bound: the table takes any number of rows, here a match has as many as Seat
\* has members, and a further one is not tried.
AddParticipant(p) ==
  LET m == It(p).m IN
  /\ Doing(p, "add")
  /\ IF ~Exists(m) THEN UNCHANGED parts /\ Stop(p)
     ELSE \E i \in Seat : /\ parts[m][i] = NoUser
                          /\ parts' = [parts EXCEPT ![m][i] = It(p).u]
                          /\ GoOn(p)
  /\ UNCHANGED <<load, status, reg, made>>

\* UpdateParticipant with another player.
UpdateParticipant(p) ==
  LET m == It(p).m IN
  /\ Doing(p, "change")
  /\ IF parts[m][It(p).x] = NoUser THEN UNCHANGED parts
     ELSE parts' = [parts EXCEPT ![m][It(p).x] = It(p).u]
  /\ GoOn(p)
  /\ UNCHANGED <<load, status, reg, made>>

\* GetParticipant: whose application is to go back.
GetParticipant(p) ==
  LET u == parts[It(p).m][It(p).x] IN
  /\ Doing(p, "who")
  /\ req' = [req EXCEPT ![p].todo = Tail(@) \o
               IF u = NoUser THEN <<>> ELSE <<St("revert", It(p).m, u, 0)>>]
  /\ UNCHANGED <<load, status, parts, reg, made>>

RemoveParticipant(p) ==
  /\ Doing(p, "remove")
  /\ parts' = [parts EXCEPT ![It(p).m][It(p).x] = NoUser]
  /\ GoOn(p)
  /\ UNCHANGED <<load, status, reg, made>>

\* Mutant: only the first of the two leaves the pool.
MarkFirstPlaced(p) ==
  LET m == It(p).m
      u == It(p).u IN
  /\ Doing(p, "place")
  /\ reg' = IF reg[u].status = "pending" /\ Exists(m) /\ parts[m][1] = u
            THEN [reg EXCEPT ![u] = [status |-> "accepted", match |-> m]] ELSE reg
  /\ GoOn(p)
  /\ UNCHANGED <<load, status, parts, made>>

\* MarkRegistrationPlaced; its error, when the match is gone, is not looked at.
MarkRegistrationPlaced(p) ==
  LET m == It(p).m
      u == It(p).u IN
  /\ Doing(p, "place")
  /\ reg' = IF reg[u].status = "pending" /\ Exists(m)
            THEN [reg EXCEPT ![u] = [status |-> "accepted", match |-> m]] ELSE reg
  /\ GoOn(p)
  /\ UNCHANGED <<load, status, parts, made>>

\* Mutant: the application of somebody who was removed stays accepted.
RevertNothing(p) ==
  /\ Doing(p, "revert")
  /\ GoOn(p)
  /\ UNCHANGED <<load, status, parts, reg, made>>

RevertRegistrationToPool(p) ==
  LET m == It(p).m
      u == It(p).u IN
  /\ Doing(p, "revert") /\ ~Held(u)
  /\ reg' = IF reg[u] = [status |-> "accepted", match |-> m]
            THEN [reg EXCEPT ![u] = [status |-> "pending", match |-> NoMatch]] ELSE reg
  /\ GoOn(p)
  /\ UNCHANGED <<load, status, parts, made>>

\* CreateRegistration: one row for a player, and a second application renews it.
CreateRegistration(p) ==
  /\ Doing(p, "apply") /\ ~Held(It(p).u)
  /\ reg' = [reg EXCEPT ![It(p).u] = [status |-> "pending", match |-> NoMatch]]
  /\ GoOn(p)
  /\ UNCHANGED <<load, status, parts, made>>

\* DecideRegistration changes the status and nothing else.
DecideRegistration(p) ==
  LET u == It(p).u IN
  /\ Doing(p, "decide") /\ ~Held(u)
  /\ reg' = IF reg[u].status = "none" THEN reg ELSE [reg EXCEPT ![u].status = It(p).x]
  /\ GoOn(p)
  /\ UNCHANGED <<load, status, parts, made>>

\* The client leaves, and the context of its request with it: a transaction rolls back.
ClientGone(p) == load.gone /\ ~Idle(p) /\ Stop(p) /\ UNCHANGED <<load, status, parts, reg, made>>

-------------------------------------------------------------------------------
Init ==
  /\ load \in Loads
  /\ status = [m \in Match |-> "none"] /\ parts = [m \in Match |-> Nobody]
  /\ reg = [u \in User |-> [status |-> IF load.applied THEN "pending" ELSE "none", match |-> NoMatch]]
  /\ req = [p \in Request |-> Blank] /\ made = 0

Arrives(p) ==
  \/ \E m \in Match :
       \/ HandleStartMatch(p, m) \/ HandleNextRound(p, m) \/ HandleFinishMatch(p, m)
       \/ HandleCancelMatch(p, m) \/ HandleDeleteTournament(p, m) \/ HandleCreateTournament(p, m)
       \/ \E to \in Status \ {"none"} : HandleUpdateTournament(p, m, to)
       \/ \E i \in Seat : HandleRemoveParticipant(p, m, i)
       \/ \E u \in load.users : \/ HandleAddParticipant(p, m, u)
                          \/ \E i \in Seat : HandleUpdateParticipant(p, m, i, u)
                          \/ \E b \in load.users : HandleCreateMatch(p, m, u, b) \/ HandleCreateShow(p, m, u, b)
  \/ \E u \in load.users : \/ HandleRegister(p, u)
                     \/ \E to \in {"declined", "pending"} : HandleDecideRegistration(p, u, to)

Proceeds(p) ==
  \/ MatchGuard(p) \/ BlockIfFinished(p) \/ CurrentMatchID(p) \/ Insert(p) \/ StartShowMatch(p)
  \/ ChooseRound(p) \/ StartNextRound(p) \/ DemoteLiveExcept(p) \/ UpdateTournamentStatus(p)
  \/ ReturnRegistrations(p) \/ DeleteTournament(p) \/ AddParticipant(p) \/ UpdateParticipant(p)
  \/ GetParticipant(p) \/ RemoveParticipant(p) \/ MarkRegistrationPlaced(p)
  \/ RevertRegistrationToPool(p) \/ CreateRegistration(p) \/ DecideRegistration(p)

Next == \E p \in Request : Arrives(p) \/ Proceeds(p) \/ ClientGone(p)

\* The server goes on with a request it has begun, as every goroutine does.
Spec == Init /\ [][Next]_vars /\ \A p \in Request : WF_vars(Proceeds(p))

-------------------------------------------------------------------------------
(* Properties. *)

\* The tables hold what they may, and a match that is gone leaves no participants.
TypeOK ==
  /\ status \in [Match -> Status]
  /\ parts \in [Match -> [Seat -> User \cup {NoUser}]]
  /\ reg \in [User -> [status : {"none", "pending", "accepted", "declined"},
                       match : Match \cup {NoMatch}]]
  /\ \A m \in Match : ~Exists(m) => parts[m] = Nobody

\* One request at a time, each to its end.
OneByOne == load.at = 1 /\ ~load.gone

\* The site keeps the promise of OnAir, step by step (CurrentMatchID, DemoteLiveExcept:
\* "одновременно в эфире может быть только один турнир"), while requests come one by
\* one and a planned match is begun by its start, not by its first round: two creations
\* at once both find nothing on air, and StartNextRound looks at no other match.
Promised == OneByOne /\ "round" \notin load.kinds
Promise == INSTANCE OnAir WITH
  plan <- {m \in Match : Promised /\ status[m] = "upcoming"},
  air  <- {m \in Live : Promised},
  over <- {m \in Match : Promised /\ status[m] = "finished"}
AirPromise == Promise!Spec

\* With no request under way, whoever was accepted plays the match that took him
\* (Registration.TournamentID: "куда поставлен"), unless a seat is given to another by
\* an update, which leaves the first application as it was.
AcceptedPlays ==
  OneByOne /\ "update" \notin load.kinds /\ (\A p \in Request : Idle(p)) =>
    \A u \in User : reg[u].status = "accepted" => reg[u].match \in Match /\ u \in PlayersOf(reg[u].match)

\* The tables are well formed, and applications and seats tell the same.
SeatsAgree == TypeOK /\ AcceptedPlays

\* The participants of a finished match stay as they are until it is reopened
\* (blockIfFinished: "правки его данных ... закрыты"); of requests at once one may pass
\* the guard before the other ends the match.
FinishedClosed ==
  [][load.at = 1 => \A m \in Match :
       status[m] = "finished" /\ status'[m] = "finished" => parts'[m] = parts[m]]_vars

\* A player who was put in a match leaves the pool (MarkRegistrationPlaced: "заявка
\* принята и уходит из пула"), unless he applies again or is sent back by hand, another
\* match of his is deleted, or the client left before his turn.
Unreturned == load.kinds \cap {"register", "decide", "update", "remove", "cancel", "delete"} = {} /\ ~load.gone
LeavesPool ==
  \A u \in User :
    (Unreturned /\ reg[u].status = "pending" /\ \E m \in Match : u \in PlayersOf(m))
      ~> (reg[u].status # "pending" \/ \A m \in Match : u \notin PlayersOf(m))
===============================================================================
