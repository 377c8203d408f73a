----------------------------- MODULE QueueSession -----------------------------
(***************************************************************************)
(* One session of the performance queue: internal/store/queue_ops.go over  *)
(* the tables of migration 0047_queue.sql.                                 *)
(*                                                                         *)
(* Every operation of the code runs in queueTx: one transaction that holds *)
(* the session row FOR UPDATE, so a whole operation is one action here. A  *)
(* call the code refuses rolls back and is no step at all. What happens    *)
(* outside that lock is an action of its own: the console finishes or      *)
(* deletes the site match, settles the queue later (or never), a player    *)
(* activates a token and is promoted later (or never), the day turns, an   *)
(* unused imported account is dropped.                                     *)
(*                                                                         *)
(* The rows a transaction changes are one record, q, and each helper of    *)
(* qtx is an operator from such a record to the next one.                  *)
(***************************************************************************)
EXTENDS QueueOrder

CONSTANTS
  User,            \* accounts
  Team,            \* rows of teams: pairs of users
  Entry,           \* ids of queue_entries rows, handed out once each
  MatchId,         \* ids of queue_matches rows
  NoEntry,         \* an empty side
  NoMatch,         \* no open match
  Vetted,          \* users whose hours and knocks a moderator approved
  Stub,            \* accounts made by an import, which another import may drop
  Holder,          \* users who own a token
  Guest,           \* users who play site matches outside this queue
  Formats,         \* the formats an organizer asks for
  Modes,           \* the switches an organizer uses
  QueueMaxEntries, \* how many entries a queue takes
  MaxSettling      \* bound: console requests under way at a time

ASSUME ConstantsAssumption ==
  /\ Team \subseteq SUBSET User
  /\ NoEntry \notin Entry
  /\ NoMatch \notin MatchId
  /\ Vetted \subseteq User
  /\ Stub \subseteq User
  /\ Holder \subseteq User
  /\ Guest \subseteq User
  /\ Formats \subseteq {"1x1", "2x2"}
  /\ Modes \subseteq {"open", "close", "pause", "resume"}
  /\ QueueMaxEntries \in Nat
  /\ MaxSettling \in Nat
  /\ IsFiniteSet(User)

\* A team is a pair: none is a part of another.
ASSUME TeamsAreApart == \A s, t \in Team : s \subseteq t => s = t

VARIABLES
  session,    \* the queue_sessions row
  q,          \* the session's entries, members, order and open match
  users,      \* accounts that exist
  played,     \* users with a finished site match this game day
  prioAt,     \* when a user activated the token today (0: not)
  siteToday,  \* the linked site match started this game day
  settling,   \* console requests that have yet to settle the queue
  promoting   \* how far PromotePriority is for a user: no, spent, chosen

env  == <<users, played, prioAt, siteToday>>
vars == <<session, q, env, settling, promoting>>

EntryStatus == {"none", "waiting", "invited", "ready", "performing",
                "skipped", "left", "removed"}
Side        == {1, 2}

Queued(status) == status \notin {"none", "left", "removed"}

\* The ids of the entries that hold a position.
InQueue(s) == {e \in Entry : Queued(s.status[e])}

\* The entries on the sides of the open match.
Taken(s) == {s.side[i] : i \in Side} \ {NoEntry}

-------------------------------------------------------------------------------
(* Helpers of qtx. *)

\* load: today and the token of an entry are those of its players.
EarliestPrio(members) ==
  LET times == {prioAt[u] : u \in members} \ {0}
  IN  IF times = {} THEN 0 ELSE Min(times)

Load(s) ==
  [e \in Entry |->
     LET today == IF s.members[e] \cap played # {} THEN 1 ELSE 0
     IN  [status |-> s.status[e],
          today  |-> today,
          prio   |-> IF today = 0 /\ qEligible(s.status[e])
                     THEN EarliestPrio(s.members[e]) ELSE 0]]

NoSides == [i \in Side |-> NoEntry]

\* The players of the open match.
OnAir(s) == UNION {s.members[e] : e \in Taken(s)}

\* The open match is gone: closed, or dropped while it was empty.
ForgetMatch(s) ==
  [s EXCEPT !.match = "none", !.matchId = NoMatch, !.side = NoSides,
            !.site = "none"]

DropEmptyMatch(s) ==
  IF s.match = "preparing" /\ Taken(s) = {} THEN ForgetMatch(s) ELSE s

\* The entries of gone leave a match in preparation.
DetachAll(s, gone) ==
  IF s.match = "preparing"
  THEN DropEmptyMatch([s EXCEPT !.side =
         [i \in Side |-> IF s.side[i] \in gone THEN NoEntry ELSE s.side[i]]])
  ELSE s

Detach(s, e) == DetachAll(s, {e})

ResetEntry(s, e, status) ==
  [s EXCEPT !.status[e] = status, !.ready[e] = {}]

\* Mutant: the entry stays on the side of the match in preparation.
CloseAttached(s, e, status) ==
  [s EXCEPT !.status[e] = status, !.order = qWithout(s.order, e)]

\* closeEntry with the removal from the order that every caller does after it.
CloseEntry(s, e, status) ==
  LET d == Detach(s, e)
  IN  [d EXCEPT !.status[e] = status, !.order = qWithout(d.order, e)]

\* Entries without players are closed before every operation.
Ghosts(s) == {e \in InQueue(s) : s.members[e] = {}}

SweepGhosts(s) ==
  LET gone == Ghosts(s)
      d    == DetachAll(s, gone)
  IN  [d EXCEPT !.status = [e \in Entry |-> IF e \in gone THEN "removed"
                                                         ELSE s.status[e]],
                !.order  = qAllBut(s.order, gone)]

\* Mutant: the first confirmation speaks for the whole team.
RefreshOnFirst(s, e, confirmed) ==
  [s EXCEPT !.ready[e] = confirmed, !.status[e] = "ready"]

\* refreshReady, after the rows of confirmed have been marked.
RefreshReady(s, e, confirmed) ==
  [s EXCEPT !.ready[e] = confirmed,
            !.status[e] = IF s.members[e] \subseteq confirmed THEN "ready"
                                                             ELSE s.status[e]]

\* finishMatch: who is still queued has performed and leaves the queue.
FinishMatch(s) ==
  LET alive == Taken(s) \cap InQueue(s)
  IN  ForgetMatch(
        [s EXCEPT !.performed = [e \in Entry |-> s.performed[e] +
                                    (IF e \in alive THEN 1 ELSE 0)],
                  !.status    = [e \in Entry |-> IF e \in alive THEN "left"
                                                 ELSE s.status[e]],
                  !.order     = qAllBut(s.order, alive),
                  !.finished  = s.finished \cup {Taken(s)}])

\* Mutant: the entries of the match are not compared with the queue.
CancelForAll(s) ==
  ForgetMatch(
    [s EXCEPT !.status = [e \in Entry |-> IF e \in Taken(s) THEN "waiting"
                                          ELSE s.status[e]],
              !.ready  = [e \in Entry |-> IF e \in Taken(s) THEN {}
                                          ELSE s.ready[e]]])

\* cancelMatch: who is still queued waits again, where it stands.
CancelMatch(s) ==
  LET alive == Taken(s) \cap InQueue(s)
  IN  ForgetMatch(
        [s EXCEPT !.status = [e \in Entry |-> IF e \in alive THEN "waiting"
                                              ELSE s.status[e]],
                  !.ready  = [e \in Entry |-> IF e \in alive THEN {}
                                              ELSE s.ready[e]]])

\* linkedSiteMatchOpen
LinkedSiteMatchOpen(s) == s.site = "open"

-------------------------------------------------------------------------------
(* The operations. queueTx sweeps first, then runs the operation on the    *)
(* swept rows, then moves the revision.                                    *)

Swept == SweepGhosts(q)

Commit(s) ==
  /\ q' = s
  /\ session' = [session EXCEPT !.rev = @ + 1]
  /\ UNCHANGED <<env, settling, promoting>>

NeedActive == session.status = "active"

\* Who may stand in one entry: a player alone or a team that still exists.
Parties ==
  IF session.format = "1x1" THEN {{u} : u \in users}
                            ELSE {t \in Team : t \subseteq users}

\* Finished matches of the session that one of these players was on.
Performances(s, players) ==
  Cardinality({f \in s.finished :
                 \E e \in f : s.members[e] \cap players # {}})

\* Mutant: a player who comes back starts from zero.
EnqueueAnew(s, e, party) ==
  LET n == [s EXCEPT !.status[e] = "waiting", !.members[e] = party]
  IN  [n EXCEPT !.order =
         qPlacePriority(Load(n), qPlaceNew(Load(n), s.order, e), e)]

Enqueue(s, e, party) ==
  LET n == [s EXCEPT !.status[e] = "waiting", !.members[e] = party,
                     !.performed[e] = Performances(s, party)]
  IN  [n EXCEPT !.order =
         qPlacePriority(Load(n), qPlaceNew(Load(n), s.order, e), e)]

\* Mutant: only the same team counts as standing already.
BusyTeam(s, party) == \E e \in InQueue(s) : s.members[e] = party

\* One of the players stands in the queue already.
Busy(s, party) == \E e \in InQueue(s) : s.members[e] \cap party # {}

\* JoinQueue, by one of the party or by the organizer.
JoinQueue(party, byOrganizer) ==
  LET s == Swept IN
  /\ NeedActive
  /\ byOrganizer \/ (~session.paused /\ session.registrationOpen)
  /\ Len(s.order) < QueueMaxEntries
  /\ party \in Parties
  /\ ~Busy(s, party)
  /\ byOrganizer \/ party \subseteq Vetted
  /\ \E e \in Entry : s.status[e] = "none" /\ Commit(Enqueue(s, e, party))

\* The entry u stands in.
EntryOf(s, u) == {e \in InQueue(s) : u \in s.members[e]}

LeaveQueue(u) ==
  LET s == Swept IN
  /\ NeedActive
  /\ \E e \in EntryOf(s, u) :
        /\ s.status[e] # "performing"
        /\ Commit(CloseEntry(s, e, "left"))

ConfirmReady(u) ==
  LET s == Swept IN
  /\ NeedActive
  /\ \E e \in EntryOf(s, u) :
        \/ /\ s.status[e] = "invited"
           /\ Commit(RefreshReady(s, e, s.ready[e] \cup {u}))
        \/ /\ s.status[e] = "ready"
           /\ Commit(s)

ConfirmEntry(e) ==
  LET s == Swept IN
  /\ NeedActive
  /\ s.status[e] \in {"invited", "ready"}
  /\ Commit(RefreshReady(s, e, s.members[e]))

\* The side a called entry takes: the first unless the first is taken.
FreeSide(s) == IF s.side[1] = NoEntry THEN 1 ELSE 2

Invite(s, e, id) ==
  [s EXCEPT !.match   = "preparing",
            !.matchId = id,
            !.side[FreeSide(s)] = e,
            !.status[e] = "invited",
            !.ready[e]  = {},
            !.order     = qPlaceCalled(Load(s), s.order, e)]

\* A new match row has an id that nothing refers to.
CalledMatchIds(s) ==
  IF s.match = "preparing" THEN {s.matchId}
                           ELSE MatchId \ {r.match : r \in settling}

Call(s, e) ==
  /\ NeedActive
  /\ ~session.paused
  /\ s.match # "live"
  /\ \E i \in Side : s.side[i] = NoEntry
  /\ qEligible(s.status[e])
  /\ \E id \in CalledMatchIds(s) : Commit(Invite(s, e, id))

\* CallEntry with an entry id, and without one.
CallEntry(e) == LET s == Swept IN Call(s, e)

CallNext ==
  LET s == Swept
  IN  \E e \in InQueue(s) : qIsNext(Load(s), s.order, e) /\ Call(s, e)

GoLive(s, siteStatus) ==
  [s EXCEPT !.match  = "live",
            !.site   = siteStatus,
            !.status = [e \in Entry |-> IF e \in Taken(s) THEN "performing"
                                        ELSE s.status[e]]]

\* StartQueueMatch. CreateMatch commits on another connection before the
\* queue does, so the console may have finished the site match by then; one
\* it has deleted fails the queue's transaction.
StartQueueMatch(force) ==
  LET s == Swept IN
  /\ NeedActive
  /\ ~session.paused
  /\ s.match = "preparing"
  /\ \A i \in Side : s.side[i] # NoEntry
  /\ \A e \in Taken(s) : /\ e \in InQueue(s)
                         /\ force \/ s.status[e] = "ready"
                         /\ s.members[e] \in Parties
  /\ \E siteStatus \in {"open", "finished"} : q' = GoLive(s, siteStatus)
  /\ session' = [session EXCEPT !.rev = @ + 1]
  /\ siteToday' = TRUE
  /\ UNCHANGED <<users, played, prioAt, settling, promoting>>

FinishQueueMatch ==
  LET s == Swept IN
  /\ NeedActive
  /\ s.match = "live"
  /\ ~LinkedSiteMatchOpen(s)
  /\ Commit(FinishMatch(s))

CancelQueueMatch ==
  LET s == Swept IN
  /\ NeedActive
  /\ s.match # "none"
  /\ ~LinkedSiteMatchOpen(s)
  /\ Commit(CancelMatch(s))

SkipEntry(e, mode) ==
  LET s == Swept IN
  /\ NeedActive
  /\ e \in InQueue(s)
  /\ s.status[e] # "performing"
  /\ \/ /\ mode = "remove"
        /\ Commit(CloseEntry(s, e, "removed"))
     \/ /\ mode = "end"
        /\ LET t == ResetEntry(Detach(s, e), e, "skipped")
           IN  Commit([t EXCEPT !.order = qPlaceSkipped(Load(t), t.order, e)])

ReturnEntry(e, position) ==
  LET s == Swept
      t == ResetEntry(s, e, "waiting")
      at == IF position <= 0 THEN qInflight(Load(t), t.order) + 1 ELSE position
  IN
  /\ NeedActive
  /\ s.status[e] = "skipped"
  /\ Commit([t EXCEPT !.order = qMoveTo(Load(t), t.order, e, at)])

\* MoveEntry; expectedRev is 0 when the client sends none.
MoveEntry(e, toPosition, expectedRev) ==
  LET s == Swept IN
  /\ NeedActive
  /\ expectedRev > 0 => expectedRev = session.rev
  /\ e \in InQueue(s)
  /\ ~qInMatch(s.status[e])
  /\ toPosition \in 1..Len(s.order)
  /\ Commit([s EXCEPT !.order = qMoveTo(Load(s), s.order, e, toPosition)])

RemoveEntry(e) ==
  LET s == Swept IN
  /\ NeedActive
  /\ e \in InQueue(s)
  /\ s.status[e] # "performing"
  /\ Commit(CloseEntry(s, e, "removed"))

SetQueueMode(action) ==
  /\ NeedActive
  /\ q' = Swept
  /\ session' = [session EXCEPT !.rev = @ + 1,
       !.registrationOpen = IF action \in {"open", "close"}
                            THEN action = "open" ELSE @,
       !.paused = IF action \in {"pause", "resume"}
                  THEN action = "pause" ELSE @]
  /\ UNCHANGED <<env, settling, promoting>>

\* UpdateQueueSession, as far as the format goes.
UpdateQueueSession(format) ==
  /\ NeedActive
  /\ format # session.format => Swept.order = <<>> /\ Swept.match = "none"
  /\ q' = Swept
  /\ session' = [session EXCEPT !.rev = @ + 1, !.format = format]
  /\ UNCHANGED <<env, settling, promoting>>

FinishQueueSession ==
  LET s == Swept IN
  /\ NeedActive
  /\ s.match # "live"
  /\ q' = IF s.match = "preparing" THEN CancelMatch(s) ELSE s
  /\ session' = [session EXCEPT !.rev = @ + 1, !.status = "finished",
                                !.registrationOpen = FALSE, !.paused = FALSE]
  /\ UNCHANGED <<env, settling, promoting>>

-------------------------------------------------------------------------------
(* What reaches the queue from the outside. *)

\* Mutant: any live match will do.
AnyLive(s, r) == s.match = "live"

StillLive(s, r) == s.match = "live" /\ s.matchId = r.match

\* SettleQueueMatch for a request of the console; nothing when the match it
\* refers to is not the live one any more.
SettleQueueMatch(r) ==
  LET s == Swept IN
  /\ r \in settling
  /\ settling' = settling \ {r}
  /\ IF StillLive(s, r)
     THEN /\ q' = IF r.finished THEN FinishMatch(s) ELSE CancelMatch(s)
          /\ session' = [session EXCEPT !.rev = @ + 1]
     ELSE UNCHANGED <<session, q>>
  /\ UNCHANGED <<env, promoting>>

\* The server stops, or the settling fails: nobody tries again.
SettleLost(r) ==
  /\ r \in settling
  /\ settling' = settling \ {r}
  /\ UNCHANGED <<session, q, env, promoting>>

\* The requests under way after one more, if it settles.
Asked(settles, finished) ==
  IF settles
  THEN {s \in {settling \cup {[match |-> q.matchId, finished |-> finished]}} :
          Cardinality(s) <= MaxSettling}
  ELSE {settling}

\* handleFinishMatch read the live queue match of the tournament and then
\* finished it; PATCH status=finished does the latter alone (settles = FALSE).
ConsoleFinishes(settles) ==
  /\ q.match = "live"
  /\ q.site = "open"
  /\ q' = [q EXCEPT !.site = "finished"]
  /\ played' = IF siteToday THEN played \cup OnAir(q) ELSE played
  /\ settling' \in Asked(settles, TRUE)
  /\ UNCHANGED <<session, users, prioAt, siteToday, promoting>>

\* A finished site match that stops being one is not counted today any more;
\* its players may have others.
Uncounted(s) == IF s.site = "finished" THEN {played, played \ OnAir(s)}
                                       ELSE {played}

\* handleCancelMatch, whose guard may have been read before the match was
\* finished; DELETE /tournaments/{id} does not settle.
ConsoleDeletes(settles) ==
  /\ q.match = "live"
  /\ q.site # "none"
  /\ q' = [q EXCEPT !.site = "none"]
  /\ played' \in Uncounted(q)
  /\ settling' \in Asked(settles, FALSE)
  /\ UNCHANGED <<session, users, prioAt, siteToday, promoting>>

\* PATCH takes a finished tournament back to live or upcoming.
ConsoleReopens ==
  /\ q.match = "live"
  /\ q.site = "finished"
  /\ q' = [q EXCEPT !.site = "open"]
  /\ played' \in Uncounted(q)
  /\ UNCHANGED <<session, users, prioAt, siteToday, settling, promoting>>

\* A site match other than the linked one is finished today, or the last such
\* one of the player is reopened or deleted.
PlaysElsewhere(u) ==
  /\ u \in users \cap Guest
  /\ played' = IF u \in played THEN played \ {u} ELSE played \cup {u}
  /\ u \in played => ~(q.site = "finished" /\ siteToday /\ u \in OnAir(q))
  /\ UNCHANGED <<session, q, users, prioAt, siteToday, settling, promoting>>

\* ActivatePriority commits; PromotePriority follows in other transactions.
ActivatePriority(u) ==
  /\ u \in users \cap Holder
  /\ prioAt[u] = 0
  /\ prioAt' = [prioAt EXCEPT ![u] =
                  1 + Cardinality({v \in User : prioAt[v] # 0})]
  /\ promoting' = [promoting EXCEPT ![u] = "spent"]
  /\ UNCHANGED <<session, q, users, played, siteToday, settling>>

\* The activation times without the one of u: only their order counts.
WithoutToken(u) ==
  [v \in User |-> IF v = u THEN 0
                  ELSE IF 0 < prioAt[u] /\ prioAt[u] < prioAt[v] THEN prioAt[v] - 1
                  ELSE prioAt[v]]

\* A moderator takes a token of today back; the entry stays where it is.
CancelPriority(u) ==
  /\ prioAt[u] # 0
  /\ prioAt' = WithoutToken(u)
  /\ UNCHANGED <<session, q, users, played, siteToday, settling, promoting>>

Promoted(s, e) ==
  [s EXCEPT !.order = qPlacePriority(Load(s), s.order, e)]

\* PromotePriority lists the active sessions the player stands in...
ChooseSessions(u) ==
  /\ promoting[u] = "spent"
  /\ NeedActive
  /\ EntryOf(q, u) # {}
  /\ promoting' = [promoting EXCEPT ![u] = "chosen"]
  /\ UNCHANGED <<session, q, env, settling>>

\* ... and moves the entry without another look at the session's status.
PromotePriority(u) ==
  LET s == Swept IN
  /\ promoting[u] = "chosen"
  /\ promoting' = [promoting EXCEPT ![u] = "no"]
  /\ \E e \in EntryOf(s, u) : q' = Promoted(s, e)
  /\ session' = [session EXCEPT !.rev = @ + 1]
  /\ UNCHANGED <<env, settling>>

\* The player is in no queue, or the promotion fails: the token stays spent.
PromotionLost(u) ==
  /\ promoting[u] # "no"
  /\ promoting' = [promoting EXCEPT ![u] = "no"]
  /\ UNCHANGED <<session, q, env, settling>>

\* The next game day.
NewDay ==
  /\ played' = {}
  /\ prioAt' = [u \in User |-> 0]
  /\ siteToday' = FALSE
  /\ UNCHANGED <<session, q, users, settling, promoting>>

\* The imports drop imported accounts that no row of participants names; the
\* member rows go with them. Whether a player has rows of other matches is
\* left open.
DropStub(u) ==
  /\ u \in users \cap Stub
  /\ q.site # "none" => u \notin OnAir(q)
  /\ users' = users \ {u}
  /\ q' = [q EXCEPT !.members = [e \in Entry |-> q.members[e] \ {u}],
                    !.ready   = [e \in Entry |-> q.ready[e] \ {u}]]
  /\ played' = played \ {u}
  /\ prioAt' = WithoutToken(u)
  /\ promoting' = [promoting EXCEPT ![u] = "no"]
  /\ UNCHANGED <<session, siteToday, settling>>

-------------------------------------------------------------------------------
(* The session from its creation on. *)

FreshSession(format) ==
  [status |-> "active", format |-> format, registrationOpen |-> TRUE,
   paused |-> FALSE, rev |-> 1]

EmptyQueue ==
  [status    |-> [e \in Entry |-> "none"],
   members   |-> [e \in Entry |-> {}],
   ready     |-> [e \in Entry |-> {}],
   performed |-> [e \in Entry |-> 0],
   order     |-> <<>>,
   match     |-> "none",
   matchId   |-> NoMatch,
   side      |-> NoSides,
   site      |-> "none",
   finished  |-> {}]

\* The finished session stays in the database and out of this module's sight.
CreateQueueSession(format) ==
  /\ session.status = "finished"
  /\ session' = FreshSession(format)
  /\ q' = EmptyQueue
  /\ promoting' = [u \in User |-> IF promoting[u] = "chosen" THEN "no"
                                                             ELSE promoting[u]]
  /\ UNCHANGED <<env, settling>>

Init ==
  /\ session \in {FreshSession(format) : format \in Formats}
  /\ q = EmptyQueue
  /\ users = User
  /\ played = {}
  /\ prioAt = [u \in User |-> 0]
  /\ siteToday = FALSE
  /\ settling = {}
  /\ promoting = [u \in User |-> "no"]

PlayerNext ==
  \/ \E party \in Parties : JoinQueue(party, FALSE)
  \/ \E u \in User : LeaveQueue(u) \/ ConfirmReady(u)
  \/ \E u \in User : ActivatePriority(u)

EntryNext(e) ==
  \/ ConfirmEntry(e)
  \/ CallEntry(e)
  \/ \E mode \in {"end", "remove"} : SkipEntry(e, mode)
  \/ \E position \in 0..QueueMaxEntries : ReturnEntry(e, position)
  \/ \E toPosition \in 1..QueueMaxEntries, rev \in {session.rev, session.rev - 1} :
        MoveEntry(e, toPosition, rev)
  \/ RemoveEntry(e)

OrganizerNext ==
  \/ \E party \in Parties : JoinQueue(party, TRUE)
  \/ CallNext
  \/ \E force \in BOOLEAN : StartQueueMatch(force)
  \/ FinishQueueMatch
  \/ CancelQueueMatch
  \/ \E e \in Entry : EntryNext(e)
  \/ \E action \in Modes : SetQueueMode(action)
  \/ \E format \in Formats : UpdateQueueSession(format)
  \/ FinishQueueSession
  \/ \E format \in Formats : CreateQueueSession(format)

ConsoleNext ==
  \/ \E settles \in BOOLEAN : ConsoleFinishes(settles) \/ ConsoleDeletes(settles)
  \/ ConsoleReopens
  \/ \E r \in settling : SettleQueueMatch(r) \/ SettleLost(r)

OutsideNext ==
  \/ \E u \in User : PlaysElsewhere(u) \/ CancelPriority(u) \/ DropStub(u)
  \/ \E u \in User : ChooseSessions(u) \/ PromotePriority(u) \/ PromotionLost(u)
  \/ NewDay

Next == PlayerNext \/ OrganizerNext \/ ConsoleNext \/ OutsideNext

Spec == Init /\ [][Next]_vars

-------------------------------------------------------------------------------
(* Properties. *)

SessionType ==
  [status : {"active", "finished"}, format : Formats,
   registrationOpen : BOOLEAN, paused : BOOLEAN, rev : Nat \ {0}]

QueueType ==
  [status    : [Entry -> EntryStatus],
   members   : [Entry -> SUBSET User],
   ready     : [Entry -> SUBSET User],
   performed : [Entry -> Nat],
   order     : Seq(Entry),
   match     : {"none", "preparing", "live"},
   matchId   : MatchId \cup {NoMatch},
   side      : [Side -> Entry \cup {NoEntry}],
   site      : {"none", "open", "finished"},
   finished  : SUBSET SUBSET Entry]

\* Every row keeps the shape its table gives it.
TypeOK ==
  /\ session \in SessionType
  /\ q \in QueueType
  /\ users \in SUBSET User
  /\ played \in SUBSET User
  /\ prioAt \in [User -> Nat]
  /\ siteToday \in BOOLEAN
  /\ settling \in SUBSET [match : MatchId, finished : BOOLEAN]
  /\ promoting \in [User -> {"no", "spent", "chosen"}]

\* The order lists the entries that stand in the queue, each of them once, and
\* no more of them than the queue takes: writeOrder numbers them 1..N without
\* gaps, whichever operation moved, called, skipped or closed what.
Listed(s) ==
  /\ IsInjective(s.order)
  /\ Range(s.order) = InQueue(s)
  /\ Len(s.order) <= QueueMaxEntries

OrderIsQueue == Listed(q)

\* A player stands in the queue in one entry at most, alone or with any of
\* several teams (the check of JoinQueue and the index queue_member_once).
Single(s) ==
  \A e, f \in InQueue(s) : e # f => s.members[e] \cap s.members[f] = {}

OnePlacePerPlayer == Single(q)

\* The sides of the open match and the statuses of the entries tell the same
\* story: exactly the sides of a match in preparation are called, a live match
\* has two different sides, and who performs in it is on one of them. Only an
\* entry that lost its players may be closed while its match is live.
Matched(s) ==
  /\ s.match = "none" <=> Taken(s) = {}
  /\ s.match = "none" <=> s.matchId = NoMatch
  /\ s.match # "live" => s.site = "none"
  /\ s.side[1] = s.side[2] => s.side[1] = NoEntry
  /\ s.match = "live" => NoEntry \notin {s.side[i] : i \in Side}
  /\ \A e \in Entry :
        /\ s.status[e] \in {"invited", "ready"} <=>
              s.match = "preparing" /\ e \in Taken(s)
        /\ s.status[e] = "performing" => s.match = "live" /\ e \in Taken(s)
        /\ s.match = "live" /\ e \in Taken(s) =>
              \/ s.status[e] = "performing"
              \/ s.status[e] = "removed" /\ s.members[e] = {}

MatchAgrees == Matched(q)

\* An entry is ready only while all its players have confirmed this call, and
\* no confirmation of an earlier call survives into the next one.
Confirmed(s) ==
  \A e \in Entry :
     /\ s.status[e] = "ready" => s.members[e] \subseteq s.ready[e]
     /\ qEligible(s.status[e]) => s.ready[e] = {}

ConfirmedForThisCall == Confirmed(q)

\* performed_count of a standing entry is the number of finished matches its
\* players have been on in this session, however often they left and joined
\* again (finishMatch counts up, JoinQueue counts anew).
PerformedCounts ==
  \A e \in InQueue(q) :
     q.members[e] \in Parties => q.performed[e] = Performances(q, q.members[e])

SameSession == ~(session.status = "finished" /\ session'.status = "active")

\* Who left or was removed never comes back under the same entry: no settling
\* or cancelling of a match revives an entry closed in the meantime.
ClosedStaysClosed ==
  [][SameSession => \A e \in Entry :
        q.status[e] \in {"left", "removed"} => q'.status[e] = q.status[e]]_vars

Before(order, a, b) ==
  {a, b} \subseteq Range(order) /\ qIndex(order, a) < qIndex(order, b)

\* b stands before a now and did not (it stood behind, or was not there).
Overtakes(b, a) ==
  /\ a \in InQueue(q)
  /\ Before(q'.order, b, a)
  /\ ~Before(q.order, b, a)

\* Nobody gets past another without one of the reasons the rules name: he is
\* called, now or earlier, the other is skipped, the other has played today and he has not, he
\* holds the token, or the organizer moves entries by hand.
OvertakingHasReason ==
  [][q'.order # q.order => \A a, b \in Range(q'.order) : Overtakes(b, a) =>
        \/ qInMatch(q'.status[b])
        \/ SkipEntry(a, "end")
        \/ Load(q')[a].today > 0 /\ Load(q')[b].today = 0
        \/ Load(q')[b].prio # 0
        \/ \E e \in {a, b} : \/ \E at \in 0..QueueMaxEntries : ReturnEntry(e, at)
                             \/ \E at \in 1..QueueMaxEntries : MoveEntry(e, at, 0)
    ]_vars

\* While the site match runs and nobody has asked to settle this very match,
\* the queue match stays on the air with its pair: no manual finish or cancel,
\* no late settling of an earlier match takes it down.
LiveMatchIsSafe ==
  [][/\ q.match = "live"
     /\ q.site = "open"
     /\ \A r \in settling : r.match # q.matchId
     => /\ q'.match = "live"
        /\ q'.matchId = q.matchId
        /\ q'.side = q.side]_vars

-------------------------------------------------------------------------------
(* What the comments and QUEUE.md say and the code does not do. *)

\* "вызван на матч или выступает: она стоит в начале списка": the called
\* entries are the head of the order (queue_order.go:29, QUEUE.md:18).
CalledStandFirst ==
  \A i, j \in 1..Len(q.order) :
     i < j /\ qInMatch(q.status[q.order[j]]) => qInMatch(q.status[q.order[i]])

\* "за теми, кто активировал жетон раньше": whoever the token moves to the
\* front stays behind the waiting holders of an older one whose own promotion
\* is over (queue_order.go:104, 114).
OlderTokenFirst ==
  [][\A u \in User : PromotePriority(u) =>
        \A e \in EntryOf(q', u), a \in InQueue(q') :
           /\ Load(q')[e].prio # 0
           /\ Load(q')[a].prio \in 1..(Load(q')[e].prio - 1)
           /\ \A v \in q'.members[a] : promoting[v] = "no"
           => Before(q'.order, a, e)]_vars
===============================================================================
