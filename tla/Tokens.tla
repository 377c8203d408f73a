-------------------------------- MODULE Tokens --------------------------------
(***************************************************************************)
(* The tokens of the players: granted and taken back by a moderator, spent *)
(* on a doubled match, on a day without queueing and on a reset of the     *)
(* rating (internal/store/tokens.go, internal/api/tokens_handlers.go).     *)
(*                                                                         *)
(* token_ledger is what was granted, added up, and one row for each use: a *)
(* use is taken back by deleting its row. A spending is a transaction that *)
(* locks the row of its player first, looks, and writes; the rows of the   *)
(* match and of the season are locked by nobody.                           *)
(***************************************************************************)
EXTENDS Integers, FiniteSets

CONSTANTS
  Request,      \* requests that may be served at the same time
  User,         \* players
  Match,        \* matches 1x1 and 2x2
  Team,         \* the sides of a match: sets of players
  Season,       \* seasons, numbered in the order they begin
  NoRequest, NoMatch,
  Deltas,       \* the numbers of tokens that are granted or taken back
  Loads         \* bounds: what is asked of the server, see load

Token == {"double", "priority", "reset"}

ASSUME TokensAssumption ==
  /\ NoRequest \notin Request /\ IsFiniteSet(Request)
  /\ NoMatch \notin Match /\ User # {}
  /\ Team \in [Match -> SUBSET SUBSET User]
  /\ Deltas \subseteq Int /\ Season \subseteq Nat \ {0}
  /\ Loads \subseteq [kinds : SUBSET STRING, at : Nat, made : Nat, halves : Nat,
                     users : SUBSET User, matches : SUBSET Match, seasons : SUBSET Season]

VARIABLES
  load,     \* the kinds of requests that come, how many at a time and in all, the half
            \* days that pass, the players, matches and seasons they are about
  granted,  \* the sum of the rows "grant", by player and kind
  uses,     \* the rows "use", see Uses
  lock,     \* who holds the row of a player
  match,    \* how far a match is
  season,   \* the active season, 0 when there is none
  rating,   \* what the matches and resets of a season add up to, 1x1
  now,      \* half days since the first morning
  req,      \* the requests being served
  made      \* requests made so far

vars == <<granted, uses, lock, match, season, rating, now, req, made, load>>

Uses == [id : Nat, user : User, kind : Token, match : Match \cup {NoMatch},
         season : Season \cup {0}, at : Nat, wrote : Nat]

\* A request that is not served; no: its number; begun: when its transaction began;
\* delta: tokens granted; season: the one whose rule it read; on: whether the doubling
\* token is put or taken.
Blank == [kind |-> "none", pc |-> "idle", user |-> CHOOSE u \in User : TRUE,
          token |-> "double", delta |-> 0, match |-> NoMatch, on |-> TRUE, season |-> 0,
          no |-> 0, begun |-> 0]

At(p, pc) == req[p].pc = pc
Go(p, r)  == req' = [req EXCEPT ![p] = r]

UsesOf(u, k)  == {x \in uses : x.user = u /\ x.kind = k}
\* tokenBalance: the sum of the ledger of a player, by kind.
Balance(u, k) == granted[u][k] - Cardinality(UsesOf(u, k))

\* Half days into calendar days, and the cooldown of a day.
Day(t)   == t \div 2
Cooldown == 2

-------------------------------------------------------------------------------
(* A request comes in, begins its transaction and waits for the row of its *)
(* player.                                                                 *)

Accept(p, r) ==
  /\ At(p, "idle") /\ made < load.made /\ r.kind \in load.kinds
  /\ Cardinality({o \in Request : ~At(o, "idle")}) < load.at
  /\ made' = made + 1
  /\ Go(p, r)
  /\ UNCHANGED <<granted, uses, lock, match, season, rating, now, load>>

Spend(kind, pc, u, k) == [Blank EXCEPT !.kind = kind, !.pc = pc, !.user = u, !.token = k,
                                       !.no = made + 1, !.begun = now]

HandleGrantTokens(p, u, k, d) ==
  Accept(p, [Spend("grant", "lock", u, k) EXCEPT !.delta = d])

HandleActivatePriority(p, u) == Accept(p, Spend("activate", "lock", u, "priority"))

\* sideOf: only a player of the match.
HandleMatchDouble(p, u, m, on) ==
  /\ match[m] # "none" /\ \E side \in Team[m] : u \in side
  /\ Accept(p, [Spend("double", "lock", u, "double") EXCEPT !.match = m, !.on = on])

HandleResetRating(p, u) == Accept(p, Spend("reset", "rule", u, "reset"))

\* Mutant: nothing is locked.
LockNobody(p) ==
  /\ At(p, "lock")
  /\ Go(p, [req[p] EXCEPT !.pc = IF req[p].kind = "double" THEN "status" ELSE "check"])
  /\ UNCHANGED <<granted, uses, lock, match, season, rating, now, made, load>>

LockUser(p) ==
  LET r == req[p] IN
  /\ At(p, "lock") /\ lock[r.user] = NoRequest
  /\ lock' = [lock EXCEPT ![r.user] = p]
  /\ Go(p, [r EXCEPT !.pc = IF r.kind = "double" THEN "status" ELSE "check"])
  /\ UNCHANGED <<granted, uses, match, season, rating, now, made, load>>

\* The transaction ends and the row is free.
Unlock(p) == lock' = [u \in User |-> IF lock[u] = p THEN NoRequest ELSE lock[u]]

Refuse(p) == Unlock(p) /\ Go(p, Blank)

\* ResetRating reads the rule of the active season before it begins its transaction.
ReadRule(p) ==
  /\ At(p, "rule")
  /\ Go(p, [req[p] EXCEPT !.pc = "lock", !.season = season, !.begun = now])
  /\ UNCHANGED <<granted, uses, lock, match, season, rating, now, made, load>>

-------------------------------------------------------------------------------
(* Looking, and writing. *)

\* resetCheck: a player whose match 1x1 goes on may not reset.
InMatch(u) == \E m \in Match : match[m] \in {"live", "started"} /\ {u} \in Team[m]

\* Mutant: tokens are taken back without looking whether they are there.
MayTakeBack(r) ==
  CASE r.kind = "grant"    -> Balance(r.user, r.token) >= 0
    [] r.kind = "activate" -> /\ Balance(r.user, r.token) >= 1
                              /\ \A x \in UsesOf(r.user, "priority") : now - x.at >= Cooldown
    [] r.kind = "reset"    -> /\ r.season # 0 /\ Balance(r.user, r.token) >= 1
                              /\ \A x \in UsesOf(r.user, "reset") : x.season # r.season
                              /\ ~InMatch(r.user) /\ rating[r.user][r.season] # 0
    [] r.kind = "double"   -> Balance(r.user, r.token) >= 1

\* What each spending asks of the ledger.
May(r) ==
  CASE r.kind = "grant"    -> Balance(r.user, r.token) + r.delta >= 0
    [] r.kind = "activate" -> /\ Balance(r.user, r.token) >= 1
                              /\ \A x \in UsesOf(r.user, "priority") : now - x.at >= Cooldown
    [] r.kind = "reset"    -> /\ r.season # 0 /\ Balance(r.user, r.token) >= 1
                              /\ \A x \in UsesOf(r.user, "reset") : x.season # r.season
                              /\ ~InMatch(r.user) /\ rating[r.user][r.season] # 0
    [] r.kind = "double"   -> Balance(r.user, r.token) >= 1

Check(p) ==
  LET r == req[p] IN
  /\ At(p, "check")
  /\ IF May(r) THEN Go(p, [r EXCEPT !.pc = "save"]) /\ UNCHANGED lock ELSE Refuse(p)
  /\ UNCHANGED <<granted, uses, match, season, rating, now, made, load>>

\* SetDoubleToken: only before the first round; a token taken off needs no more.
LookAtMatch(p) ==
  LET r == req[p] IN
  /\ At(p, "status")
  /\ IF match[r.match] = "live"
     THEN Go(p, [r EXCEPT !.pc = IF r.on THEN "side" ELSE "save"]) /\ UNCHANGED lock
     ELSE Refuse(p)
  /\ UNCHANGED <<granted, uses, match, season, rating, now, made, load>>

Mates(u, m) == UNION {side \in Team[m] : u \in side}

\* Mutant: the tokens of the team are not looked at.
LookAtNoSide(p) ==
  LET r == req[p] IN
  /\ At(p, "side")
  /\ Go(p, [r EXCEPT !.pc = "check"])
  /\ UNCHANGED <<granted, uses, lock, match, season, rating, now, made, load>>

\* The side has one token, whoever put it.
LookAtSide(p) ==
  LET r == req[p] IN
  /\ At(p, "side")
  /\ IF \E x \in uses : /\ x.kind = "double" /\ x.match = r.match
                        /\ x.user \in Mates(r.user, r.match)
     THEN Refuse(p) ELSE Go(p, [r EXCEPT !.pc = "check"]) /\ UNCHANGED lock
  /\ UNCHANGED <<granted, uses, match, season, rating, now, made, load>>

Grant(p) ==
  LET r == req[p] IN
  /\ At(p, "save") /\ r.kind = "grant"
  /\ granted' = [granted EXCEPT ![r.user][r.token] = @ + r.delta]
  /\ Refuse(p)
  /\ UNCHANGED <<uses, match, season, rating, now, made, load>>

\* created_at is DEFAULT now(): when the transaction began, before it waited for the
\* row of its player.  The model keeps when the row was written as well.
NewUse(r) == [id |-> r.no, user |-> r.user, kind |-> r.token, match |-> r.match,
              season |-> r.season, at |-> r.begun, wrote |-> now]

\* The row of a use: its key refuses a second token of the player on the match,
\* and the match must still be there.
Use(p) ==
  LET r == req[p] IN
  /\ At(p, "save") /\ r.kind # "grant" /\ r.on
  /\ IF r.match # NoMatch /\ match[r.match] = "none" THEN UNCHANGED <<uses, rating>>
     ELSE /\ uses' = uses \cup {NewUse(r)}
          /\ rating' = IF r.kind = "reset" THEN [rating EXCEPT ![r.user][r.season] = 0]
                                           ELSE rating
  /\ Refuse(p)
  /\ UNCHANGED <<granted, match, season, now, made, load>>

TakeOff(p) ==
  LET r == req[p] IN
  /\ At(p, "save") /\ ~r.on
  /\ uses' = {x \in uses : ~(x.kind = "double" /\ x.match = r.match /\ x.user = r.user)}
  /\ Refuse(p)
  /\ UNCHANGED <<granted, match, season, rating, now, made, load>>

\* CancelPriority: one statement, no lock; the last use of this day is deleted.
HandleCancelPriority(p, u) ==
  LET today == {x \in UsesOf(u, "priority") : Day(x.at) = Day(now)} IN
  /\ At(p, "idle") /\ made < load.made /\ "cancel" \in load.kinds /\ today # {}
  /\ \E x \in today : /\ \A y \in today : y.at <= x.at
                      /\ uses' = uses \ {x}
  /\ made' = made + 1
  /\ UNCHANGED <<granted, lock, match, season, rating, now, req, load>>

-------------------------------------------------------------------------------
(* What goes on around the tokens. *)

CreateMatch(m) ==
  /\ m \in load.matches /\ match[m] = "none" /\ \A x \in Match : match[x] \notin {"live", "started"}
  /\ match' = [match EXCEPT ![m] = "live"]
  /\ UNCHANGED <<granted, uses, lock, season, rating, now, req, made, load>>

StartRound(m) ==
  /\ match[m] = "live"
  /\ match' = [match EXCEPT ![m] = "started"]
  /\ UNCHANGED <<granted, uses, lock, season, rating, now, req, made, load>>

\* tokenMult: a token counts for the whole side.
Mult(m, side) ==
  IF \E x \in uses : x.kind = "double" /\ x.match = m /\ x.user \in side THEN 2 ELSE 1

\* FinishMatch and the change of the rating 1x1, which Rating tells in full.
FinishMatch(m, side) ==
  /\ match[m] \in {"live", "started"} /\ season # 0 /\ side \in Team[m]
  /\ match' = [match EXCEPT ![m] = "finished"]
  /\ rating' = [u \in User |->
       IF {u} \in Team[m]
       THEN [rating[u] EXCEPT ![season] = @ + (IF u \in side THEN 1 ELSE -1) * Mult(m, {u})]
       ELSE rating[u]]
  /\ UNCHANGED <<granted, uses, lock, season, now, req, made, load>>

\* Mutant: the tokens of a match that is cancelled stay spent.
CancelMatchOnly(m) ==
  /\ match[m] \in {"live", "started"}
  /\ match' = [match EXCEPT ![m] = "none"]
  /\ UNCHANGED <<granted, uses, lock, season, rating, now, req, made, load>>

\* A match that is cancelled is deleted, and its tokens with it.
CancelMatch(m) ==
  /\ match[m] \in {"live", "started"}
  /\ match' = [match EXCEPT ![m] = "none"]
  /\ uses' = {x \in uses : x.match # m}
  /\ UNCHANGED <<granted, lock, season, rating, now, req, made, load>>

\* A season begins: everybody's rating starts anew.
StartNewSeason ==
  /\ season + 1 \in Season \cap load.seasons
  /\ season' = season + 1
  /\ UNCHANGED <<granted, uses, lock, match, rating, now, req, made, load>>

HalfDayPasses ==
  /\ now < load.halves
  /\ now' = now + 1
  /\ UNCHANGED <<granted, uses, lock, match, season, rating, req, made, load>>

Init ==
  /\ load \in Loads
  /\ granted = [u \in User |-> [k \in Token |-> 0]]
  /\ uses = {}
  /\ lock = [u \in User |-> NoRequest]
  /\ match = [m \in Match |-> "none"]
  /\ season = 0
  /\ rating = [u \in User |-> [s \in Season \cup {0} |-> 0]]
  /\ now = 0
  /\ req = [p \in Request |-> Blank]
  /\ made = 0

Arrives(p) ==
  \E u \in User : u \in load.users /\
    ( \/ \E k \in Token, d \in Deltas : HandleGrantTokens(p, u, k, d)
      \/ HandleActivatePriority(p, u) \/ HandleCancelPriority(p, u)
      \/ \E m \in Match, on \in BOOLEAN : HandleMatchDouble(p, u, m, on)
      \/ HandleResetRating(p, u) )

Proceeds(p) ==
  \/ LockUser(p) \/ ReadRule(p) \/ Check(p) \/ LookAtMatch(p) \/ LookAtSide(p)
  \/ Grant(p) \/ Use(p) \/ TakeOff(p)

Around ==
  \/ \E m \in Match : \/ CreateMatch(m) \/ StartRound(m) \/ CancelMatch(m)
                      \/ \E side \in Team[m] : FinishMatch(m, side)
  \/ StartNewSeason \/ HalfDayPasses

Next == (\E p \in Request : Arrives(p) \/ Proceeds(p)) \/ Around

Spec == Init /\ [][Next]_vars

-------------------------------------------------------------------------------
(* Properties. *)

Requests == [kind : {"none", "grant", "activate", "double", "reset"},
             pc : {"idle", "rule", "lock", "status", "side", "check", "save"},
             user : User, token : Token, delta : Int, match : Match \cup {NoMatch},
             on : BOOLEAN, season : Season \cup {0}, no : Nat, begun : Nat]

\* The steps of a transaction that has the row of its player.
Holds(p) == req[p].pc \in {"status", "side", "check", "save"}

\* The tables hold what they may, and the row of a player is locked by a
\* transaction of that player that has not ended.
TypeOK ==
  /\ granted \in [User -> [Token -> Int]]
  /\ uses \subseteq Uses /\ IsFiniteSet(uses)
  /\ lock \in [User -> Request \cup {NoRequest}]
  /\ match \in [Match -> {"none", "live", "started", "finished"}]
  /\ season \in Season \cup {0}
  /\ rating \in [User -> [Season \cup {0} -> Int]]
  /\ now \in Nat /\ made \in Nat
  /\ req \in [Request -> Requests]
  /\ \A u \in User : lock[u] # NoRequest => Holds(lock[u]) /\ req[lock[u]].user = u

\* However grants, corrections, uses and returns interleave, nobody has less than
\* no tokens of a kind (GrantTokens: "меньше нуля их не станет"; lockUser).
NeverInDebt == \A u \in User, k \in Token : Balance(u, k) >= 0

\* How long the transaction of a use waited for the row of its player.
Wait(x) == x.wrote - x.at

\* y was written after x, a day after the date of x: their dates are a day apart, less
\* what the transaction of y waited.
DayAfter(x, y) == x.wrote <= y.wrote /\ y.at - x.at >= Cooldown - Wait(y)

\* Of two days without queueing of one player the one that was written last was written
\* a day or more after the date of the other (priorityCooldown: "не чаще раза в сутки").
PriorityDayApart ==
  \A x, y \in uses : x # y /\ x.kind = "priority" /\ y.kind = "priority" /\ x.user = y.user
    => DayAfter(x, y) \/ DayAfter(y, x)

\* A player resets the rating once in a season (TokenReset: "раз в сезон").
OneResetASeason ==
  \A x, y \in uses :
    x.kind = "reset" /\ y.kind = "reset" /\ x.user = y.user /\ x.season = y.season => x = y

\* The tokens that have a time: a reset once in a season, and days without queueing a day
\* apart, though their dates are those of the beginnings of transactions that wait.
TimesApart == TypeOK /\ PriorityDayApart /\ OneResetASeason

\* Every doubling token that is spent stands on a match that exists: a cancelled
\* match gives its tokens back (token_ledger: "отменённый матч удаляется, и жетон
\* возвращается сам").
SpentIsPlaced ==
  \A x \in uses : x.kind = "double" => match[x.match] # "none"

\* One doubling token for a side (SetDoubleToken: "на сторону ставится один"), unless
\* two teammates put theirs at once: each transaction locks its own player's row and
\* does not see the other's token.
OneTokenASide ==
  load.at = 1 => \A x, y \in uses :
    x.kind = "double" /\ y.kind = "double" /\ x.match = y.match
      /\ y.user \in Mates(x.user, x.match) => x = y
===============================================================================
