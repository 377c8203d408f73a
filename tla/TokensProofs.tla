----------------------------- MODULE TokensProofs -----------------------------
(***************************************************************************)
(* Nobody is ever in debt of tokens, for any number of requests, players,  *)
(* matches and seasons. The invariant says why: what a transaction read of *)
(* the balance is still covered when it writes, because only the holder of *)
(* the player's row makes the balance smaller.                             *)
(***************************************************************************)
EXTENDS Tokens, TLAPS, FiniteSetTheorems

\* What a request that is about to write read still covers what it writes.
Covered(p) ==
  At(p, "save") =>
    /\ req[p].kind = "grant" => Balance(req[p].user, req[p].token) + req[p].delta >= 0
    /\ req[p].kind # "grant" /\ req[p].on => Balance(req[p].user, req[p].token) >= 1

\* The steps of a transaction hold the row of its player.
HasRow(p) == Holds(p) => lock[req[p].user] = p

\* A request that is served has a kind, and only a doubling looks at its match.
Fits(p) ==
  /\ ~At(p, "idle") => req[p].kind # "none"
  /\ At(p, "status") \/ At(p, "side") => req[p].kind = "double"

Inv ==
  /\ TypeOK
  /\ \A p \in Request : HasRow(p) /\ Covered(p) /\ Fits(p)
  /\ NeverInDebt

\* A part of a finite set is finite and not larger.
LEMMA SmallerSet ==
  ASSUME NEW S, NEW T, IsFiniteSet(S), T \subseteq S
  PROVE  /\ IsFiniteSet(T) /\ Cardinality(T) \in Nat /\ Cardinality(S) \in Nat
         /\ Cardinality(T) <= Cardinality(S)
  BY FS_Subset, FS_CardinalityType

\* The balance is a number.
LEMMA BalanceType ==
  ASSUME TypeOK, NEW u \in User, NEW k \in Token
  PROVE  Balance(u, k) \in Int /\ IsFiniteSet(UsesOf(u, k))
<1>1. UsesOf(u, k) \subseteq uses
  BY DEF UsesOf
<1>2. IsFiniteSet(UsesOf(u, k)) /\ Cardinality(UsesOf(u, k)) \in Nat
  BY <1>1, SmallerSet DEF TypeOK
<1>3. granted[u][k] \in Int
  BY DEF TypeOK
<1> QED BY <1>2, <1>3 DEF Balance

\* Rows that are deleted make no balance smaller.
LEMMA ReturnedIsMore ==
  ASSUME TypeOK, uses' \subseteq uses, granted' = granted, NEW u \in User, NEW k \in Token
  PROVE  Balance(u, k)' \in Int /\ Balance(u, k)' >= Balance(u, k)
<1>1. UsesOf(u, k)' \subseteq UsesOf(u, k)
  BY DEF UsesOf
<1>2. IsFiniteSet(UsesOf(u, k))
  BY BalanceType
<1>3. /\ Cardinality(UsesOf(u, k)') \in Nat /\ Cardinality(UsesOf(u, k)) \in Nat
      /\ Cardinality(UsesOf(u, k)') <= Cardinality(UsesOf(u, k))
  BY <1>1, <1>2, SmallerSet
<1>4. granted[u][k] \in Int
  BY DEF TypeOK
<1> QED BY <1>3, <1>4 DEF Balance

\* A new row takes one token of its kind from its player and nothing else.
LEMMA UsedIsOne ==
  ASSUME TypeOK, NEW x, uses' = uses \cup {x}, granted' = granted,
         NEW u \in User, NEW k \in Token
  PROVE  /\ Balance(u, k)' \in Int
         /\ Balance(u, k)' >= Balance(u, k) - 1
         /\ x.user # u \/ x.kind # k => Balance(u, k)' = Balance(u, k)
<1>1. IsFiniteSet(UsesOf(u, k)) /\ granted[u][k] \in Int
  BY BalanceType DEF TypeOK
<1>2. Cardinality(UsesOf(u, k)) \in Nat
  BY <1>1, FS_CardinalityType
<1>3. CASE x.user # u \/ x.kind # k
  <2>1. UsesOf(u, k)' = UsesOf(u, k)
    BY <1>3 DEF UsesOf
  <2> QED BY <1>1, <1>2, <2>1 DEF Balance
<1>4. CASE x.user = u /\ x.kind = k
  <2>1. UsesOf(u, k)' = UsesOf(u, k) \cup {x}
    BY <1>4 DEF UsesOf
  <2>2. \/ Cardinality(UsesOf(u, k) \cup {x}) = Cardinality(UsesOf(u, k))
        \/ Cardinality(UsesOf(u, k) \cup {x}) = Cardinality(UsesOf(u, k)) + 1
    BY <1>1, FS_AddElement
  <2> QED BY <1>1, <1>2, <1>4, <2>1, <2>2 DEF Balance
<1> QED BY <1>3, <1>4

-------------------------------------------------------------------------------
\* The requests as records.
LEMMA RequestFields ==
  ASSUME TypeOK, NEW p \in Request
  PROVE  /\ req[p] \in Requests /\ req[p].user \in User /\ req[p].token \in Token
         /\ req[p].delta \in Int /\ req[p].season \in Season \cup {0}
         /\ req[p].match \in Match \cup {NoMatch} /\ req[p].on \in BOOLEAN
         /\ req[p].no \in Nat /\ req[p].begun \in Nat
  BY DEF TypeOK, Requests

LEMMA BlankType == Blank \in Requests
<1>1. (CHOOSE u \in User : TRUE) \in User
  BY TokensAssumption
<1> QED BY <1>1 DEF Blank, Requests, Token

\* A step in which one request goes on: TypeOK is kept when the new record is a
\* request and the rows stay with transactions.
LEMMA GoesOn ==
  ASSUME TypeOK, NEW p \in Request, NEW r \in Requests, Go(p, r),
         \/ lock' = lock /\ (\A u \in User : lock[u] # p)
         \/ lock' = lock /\ r.pc \in {"status", "side", "check", "save"} /\ r.user = req[p].user
         \/ Unlock(p)
         \/ /\ lock[r.user] = NoRequest /\ lock' = [lock EXCEPT ![r.user] = p]
            /\ r.pc \in {"status", "side", "check", "save"}
            /\ \A u \in User : lock[u] # p
  PROVE  /\ req' \in [Request -> Requests]
         /\ lock' \in [User -> Request \cup {NoRequest}]
         /\ \A u \in User : lock'[u] # NoRequest =>
              Holds(lock[u])' /\ req'[lock'[u]].user = u
<1>1. /\ req' \in [Request -> Requests] /\ req'[p] = r
      /\ \A q \in Request : q # p => req'[q] = req[q]
  BY DEF TypeOK, Go
<1>2. \A u \in User : lock[u] # NoRequest => lock[u] \in Request
  BY DEF TypeOK
<1>3. lock' \in [User -> Request \cup {NoRequest}]
  BY DEF TypeOK, Unlock
<1>4. ASSUME NEW u \in User, lock'[u] # NoRequest
      PROVE  Holds(lock[u])' /\ req'[lock'[u]].user = u
  <2>1. lock'[u] \in Request
    BY <1>3, <1>4
  <2>2. CASE lock'[u] # p
    <3>1. lock'[u] = lock[u] /\ lock[u] # NoRequest /\ lock[u] # p
      BY <1>4, <2>2 DEF TypeOK, Unlock
    <3>2. req'[lock[u]] = req[lock[u]] /\ Holds(lock[u]) /\ req[lock[u]].user = u
      BY <1>1, <1>2, <3>1 DEF TypeOK
    <3> QED BY <3>1, <3>2 DEF Holds
  <2>3. CASE lock'[u] = p
    <3>1. r.pc \in {"status", "side", "check", "save"} /\ r.user = u
      BY <1>2, <1>4, <2>3, TokensAssumption DEF TypeOK, Unlock
    <3> QED BY <1>1, <2>3, <3>1 DEF Holds
  <2> QED BY <2>2, <2>3
<1> QED BY <1>1, <1>3, <1>4

\* No row is held by a request that is not in its transaction.
LEMMA HoldsNothing ==
  ASSUME TypeOK, NEW p \in Request, ~Holds(p)
  PROVE  \A u \in User : lock[u] # p
  BY TokensAssumption DEF TypeOK

\* A new request: nothing of the tables changes.
LEMMA AcceptType ==
  ASSUME TypeOK, NEW p \in Request, NEW r \in Requests, Accept(p, r)
  PROVE  TypeOK'
<1>1. Go(p, r) /\ At(p, "idle") /\ lock' = lock
  BY DEF Accept
<1>2. \A u \in User : lock[u] # p
  BY <1>1, HoldsNothing DEF At, Holds
<1>3. /\ req' \in [Request -> Requests] /\ lock' \in [User -> Request \cup {NoRequest}]
      /\ \A u \in User : lock'[u] # NoRequest => Holds(lock[u])' /\ req'[lock'[u]].user = u
  BY <1>1, <1>2, GoesOn
<1>4. UNCHANGED <<granted, uses, match, season, rating, now>> /\ made' \in Nat
  BY DEF Accept, TypeOK
<1> QED BY <1>3, <1>4 DEF TypeOK

\* The type invariant is kept by every request that comes in.
LEMMA ArrivesType ==
  ASSUME TypeOK, NEW p \in Request, Arrives(p)
  PROVE  TypeOK'
<1>1. PICK u \in User :
        \/ \E k \in Token, d \in Deltas : HandleGrantTokens(p, u, k, d)
        \/ HandleActivatePriority(p, u) \/ HandleCancelPriority(p, u)
        \/ \E m \in Match, on \in BOOLEAN : HandleMatchDouble(p, u, m, on)
        \/ HandleResetRating(p, u)
  BY DEF Arrives
<1>2. \A kind \in {"grant", "activate", "double", "reset"}, pc \in {"rule", "lock"}, k \in Token :
        Spend(kind, pc, u, k) \in Requests
  <2>1. made + 1 \in Nat /\ now \in Nat
    BY DEF TypeOK
  <2> QED BY <2>1, BlankType DEF Spend, Requests
<1>3. ASSUME NEW k \in Token, NEW d \in Deltas, HandleGrantTokens(p, u, k, d)
      PROVE  TypeOK'
  <2>1. [Spend("grant", "lock", u, k) EXCEPT !.delta = d] \in Requests
    BY <1>2, TokensAssumption DEF Requests
  <2> QED BY <1>3, <2>1, AcceptType DEF HandleGrantTokens
<1>4. CASE HandleActivatePriority(p, u)
  BY <1>2, <1>4, AcceptType DEF HandleActivatePriority, Token
<1>5. ASSUME NEW m \in Match, NEW on \in BOOLEAN, HandleMatchDouble(p, u, m, on)
      PROVE  TypeOK'
  <2> DEFINE s == Spend("double", "lock", u, "double")
  <2>1. s \in Requests
    BY <1>2 DEF Token
  <2> HIDE DEF s
  <2>2. [s EXCEPT !.match = m, !.on = on] \in Requests
    BY <2>1 DEF Requests
  <2> QED BY <1>5, <2>2, AcceptType DEF HandleMatchDouble, s
<1>6. CASE HandleResetRating(p, u)
  BY <1>2, <1>6, AcceptType DEF HandleResetRating, Token
<1>7. CASE HandleCancelPriority(p, u)
  <2>1. uses' \subseteq uses /\ IsFiniteSet(uses')
    BY <1>7, SmallerSet DEF HandleCancelPriority, TypeOK
  <2>2. UNCHANGED <<granted, lock, match, season, rating, now, req>> /\ made' \in Nat
    BY <1>7 DEF HandleCancelPriority, TypeOK
  <2> QED BY <2>1, <2>2 DEF TypeOK, Holds
<1> QED BY <1>1, <1>3, <1>4, <1>5, <1>6, <1>7

\* The type invariant is kept by the steps of a request that write nothing.
LEMMA LooksType ==
  ASSUME TypeOK, NEW p \in Request,
         LockUser(p) \/ ReadRule(p) \/ Check(p) \/ LookAtMatch(p) \/ LookAtSide(p)
  PROVE  TypeOK'
<1> DEFINE r == req[p]
<1>1. /\ UNCHANGED <<granted, uses, match, season, rating, now, made>>
  BY DEF LockUser, ReadRule, Check, LookAtMatch, LookAtSide
<1>2. r \in Requests /\ r.user \in User
  BY RequestFields
<1> SUFFICES /\ req' \in [Request -> Requests] /\ lock' \in [User -> Request \cup {NoRequest}]
             /\ \A u \in User : lock'[u] # NoRequest => Holds(lock[u])' /\ req'[lock'[u]].user = u
  BY <1>1 DEF TypeOK
<1>3. CASE LockUser(p)
  <2> DEFINE n == [r EXCEPT !.pc = IF r.kind = "double" THEN "status" ELSE "check"]
  <2>1. n \in Requests /\ n.user = r.user /\ n.pc \in {"status", "side", "check", "save"}
    BY <1>2 DEF Requests
  <2>2. Go(p, n) /\ lock[n.user] = NoRequest /\ lock' = [lock EXCEPT ![n.user] = p]
    BY <1>3, <2>1 DEF LockUser
  <2>3. \A u \in User : lock[u] # p
    BY <1>3, HoldsNothing DEF LockUser, At, Holds
  <2> HIDE DEF n
  <2> QED BY <2>1, <2>2, <2>3, GoesOn
<1>4. CASE ReadRule(p)
  <2> DEFINE n == [r EXCEPT !.pc = "lock", !.season = season, !.begun = now]
  <2>1. n \in Requests
    BY <1>2 DEF Requests, TypeOK
  <2>2. Go(p, n) /\ lock' = lock /\ \A u \in User : lock[u] # p
    BY <1>4, HoldsNothing DEF ReadRule, At, Holds
  <2> HIDE DEF n
  <2> QED BY <2>1, <2>2, GoesOn
<1>5. CASE Check(p)
  <2> DEFINE n == [r EXCEPT !.pc = "save"]
  <2>1. n \in Requests /\ n.user = r.user /\ n.pc = "save"
    BY <1>2 DEF Requests
  <2>2. (Go(p, n) /\ lock' = lock) \/ (Unlock(p) /\ Go(p, Blank))
    BY <1>5 DEF Check, Refuse
  <2> HIDE DEF n
  <2> QED BY <2>1, <2>2, GoesOn, BlankType
<1>6. CASE LookAtMatch(p)
  <2> DEFINE n == [r EXCEPT !.pc = IF r.on THEN "side" ELSE "save"]
  <2>1. n \in Requests /\ n.user = r.user /\ n.pc \in {"side", "save"}
    BY <1>2 DEF Requests
  <2>2. (Go(p, n) /\ lock' = lock) \/ (Unlock(p) /\ Go(p, Blank))
    BY <1>6 DEF LookAtMatch, Refuse
  <2> HIDE DEF n
  <2> QED BY <2>1, <2>2, GoesOn, BlankType
<1>7. CASE LookAtSide(p)
  <2> DEFINE n == [r EXCEPT !.pc = "check"]
  <2>1. n \in Requests /\ n.user = r.user /\ n.pc = "check"
    BY <1>2 DEF Requests
  <2>2. (Go(p, n) /\ lock' = lock) \/ (Unlock(p) /\ Go(p, Blank))
    BY <1>7 DEF LookAtSide, Refuse
  <2> HIDE DEF n
  <2> QED BY <2>1, <2>2, GoesOn, BlankType
<1> QED BY <1>3, <1>4, <1>5, <1>6, <1>7

\* The type invariant is kept by the steps that write.
LEMMA WritesType ==
  ASSUME TypeOK, NEW p \in Request, Grant(p) \/ Use(p) \/ TakeOff(p)
  PROVE  TypeOK'
<1>1. Unlock(p) /\ Go(p, Blank) /\ UNCHANGED <<match, season, now, made>>
  BY DEF Grant, Use, TakeOff, Refuse
<1>2. /\ req' \in [Request -> Requests] /\ lock' \in [User -> Request \cup {NoRequest}]
      /\ \A u \in User : lock'[u] # NoRequest => Holds(lock[u])' /\ req'[lock'[u]].user = u
  BY <1>1, GoesOn, BlankType
<1>3. /\ granted' \in [User -> [Token -> Int]]
      /\ uses' \subseteq Uses /\ IsFiniteSet(uses')
      /\ rating' \in [User -> [Season \cup {0} -> Int]]
  <2>1. CASE Grant(p)
    <3> DEFINE u == req[p].user  k == req[p].token
    <3>1. u \in User /\ k \in Token /\ req[p].delta \in Int
      BY RequestFields
    <3>2. granted[u] \in [Token -> Int] /\ granted[u][k] + req[p].delta \in Int
      BY <3>1 DEF TypeOK
    <3>3. granted' = [granted EXCEPT ![u] = [granted[u] EXCEPT ![k] = granted[u][k] + req[p].delta]]
      BY <2>1 DEF Grant
    <3> HIDE DEF u, k
    <3>4. [granted[u] EXCEPT ![k] = granted[u][k] + req[p].delta] \in [Token -> Int]
      BY <3>2
    <3> QED BY <2>1, <3>1, <3>3, <3>4 DEF Grant, TypeOK
  <2>2. CASE Use(p)
    <3>1. NewUse(req[p]) \in Uses
      BY RequestFields DEF NewUse, Uses, TypeOK
    <3>2. IsFiniteSet(uses \cup {NewUse(req[p])})
      BY FS_AddElement DEF TypeOK
    <3>3. rating' \in [User -> [Season \cup {0} -> Int]]
      <4> DEFINE u == req[p].user  n == req[p].season
      <4>1. u \in User /\ n \in Season \cup {0}
        BY RequestFields
      <4>2. rating' = [rating EXCEPT ![u] = [rating[u] EXCEPT ![n] = 0]] \/ rating' = rating
        BY <2>2 DEF Use
      <4> HIDE DEF u, n
      <4>3. [rating[u] EXCEPT ![n] = 0] \in [Season \cup {0} -> Int]
        BY <4>1 DEF TypeOK
      <4> QED BY <4>1, <4>2, <4>3 DEF TypeOK
    <3> QED BY <2>2, <3>1, <3>2, <3>3 DEF Use, TypeOK
  <2>3. CASE TakeOff(p)
    <3>1. uses' \subseteq uses
      BY <2>3 DEF TakeOff
    <3> QED BY <2>3, <3>1, SmallerSet DEF TakeOff, TypeOK
  <2> QED BY <2>1, <2>2, <2>3
<1> QED BY <1>1, <1>2, <1>3 DEF TypeOK

\* The type invariant is kept by what goes on around the tokens.
LEMMA AroundType ==
  ASSUME TypeOK, Around
  PROVE  TypeOK'
<1>1. UNCHANGED <<granted, lock, req, made>>
  BY DEF Around, CreateMatch, StartRound, CancelMatch, FinishMatch, StartNewSeason, HalfDayPasses
<1>2. uses' \subseteq uses /\ IsFiniteSet(uses')
  <2>1. uses' \subseteq uses
    BY DEF Around, CreateMatch, StartRound, CancelMatch, FinishMatch, StartNewSeason, HalfDayPasses
  <2> QED BY <2>1, SmallerSet DEF TypeOK
<1>3. match' \in [Match -> {"none", "live", "started", "finished"}]
  BY DEF Around, CreateMatch, StartRound, CancelMatch, FinishMatch, StartNewSeason,
         HalfDayPasses, TypeOK
<1>4. season' \in Season \cup {0} /\ now' \in Nat
  BY DEF Around, CreateMatch, StartRound, CancelMatch, FinishMatch, StartNewSeason,
         HalfDayPasses, TypeOK
<1>5. rating' \in [User -> [Season \cup {0} -> Int]]
  <2>1. ASSUME NEW m \in Match, NEW side \in Team[m], FinishMatch(m, side)
        PROVE  rating' \in [User -> [Season \cup {0} -> Int]]
    <3>1. \A u \in User : Mult(m, {u}) \in {1, 2}
      BY DEF Mult
    <3>2. ASSUME NEW u \in User
          PROVE  [rating[u] EXCEPT ![season] = @ + (IF u \in side THEN 1 ELSE -1) * Mult(m, {u})]
                   \in [Season \cup {0} -> Int]
      BY <3>1 DEF TypeOK
    <3> QED BY <2>1, <3>2 DEF FinishMatch, TypeOK
  <2>2. CASE UNCHANGED rating
    BY <2>2 DEF TypeOK
  <2>3. \/ UNCHANGED rating
        \/ \E m \in Match : \E side \in Team[m] : FinishMatch(m, side)
    BY DEF Around, CreateMatch, StartRound, CancelMatch, StartNewSeason, HalfDayPasses
  <2> QED BY <2>1, <2>2, <2>3
<1> QED BY <1>1, <1>2, <1>3, <1>4, <1>5 DEF TypeOK, Holds

-------------------------------------------------------------------------------
\* Every step keeps the types.
LEMMA TypeStep ==
  ASSUME TypeOK, [Next]_vars
  PROVE  TypeOK'
<1>1. CASE \E p \in Request : Arrives(p)
  BY <1>1, ArrivesType
<1>2. ASSUME NEW p \in Request, Proceeds(p)
      PROVE  TypeOK'
  BY <1>2, LooksType, WritesType DEF Proceeds
<1>3. CASE Around
  BY <1>3, AroundType
<1>4. CASE UNCHANGED vars
  BY <1>4 DEF vars, TypeOK, Holds
<1> QED BY <1>1, <1>2, <1>3, <1>4 DEF Next

\* The first state.
LEMMA InitInv == Init => Inv
<1> SUFFICES ASSUME Init
             PROVE  Inv
  OBVIOUS
<1>1. IsFiniteSet({}) /\ Cardinality({}) = 0
  BY FS_EmptySet
<1>2. TypeOK
  BY <1>1, BlankType DEF Init, TypeOK, Uses
<1>3. \A p \in Request : HasRow(p) /\ Covered(p) /\ Fits(p)
  BY DEF Init, HasRow, Covered, Fits, Holds, At, Blank
<1>4. ASSUME NEW u \in User, NEW k \in Token
      PROVE  Balance(u, k) >= 0
  <2>1. UsesOf(u, k) = {} /\ granted[u][k] = 0
    BY DEF Init, UsesOf
  <2> QED BY <1>1, <2>1 DEF Balance
<1> QED BY <1>2, <1>3, <1>4 DEF Inv, NeverInDebt

\* A step that only deletes rows and leaves the locks, and the requests that hold
\* one, as they are keeps the invariant.
LEMMA ReturnsInv ==
  ASSUME Inv, TypeOK', uses' \subseteq uses, granted' = granted, lock' = lock,
         \A q \in Request : Fits(q)' /\ (Holds(q)' => req'[q] = req[q])
  PROVE  Inv'
<1>1. \A u \in User, k \in Token : Balance(u, k)' \in Int /\ Balance(u, k) \in Int
                                   /\ Balance(u, k)' >= Balance(u, k)
  BY ReturnedIsMore, BalanceType DEF Inv
<1>2. ASSUME NEW q \in Request
      PROVE  HasRow(q)'
  BY <1>2 DEF Inv, HasRow, Holds
<1>3. ASSUME NEW q \in Request
      PROVE  Covered(q)'
  <2> SUFFICES ASSUME At(q, "save")'
               PROVE  Covered(q)'
    BY DEF Covered
  <2>1. req'[q] = req[q] /\ At(q, "save")
    BY DEF At, Holds
  <2>2. req[q].user \in User /\ req[q].token \in Token /\ req[q].delta \in Int
    BY RequestFields DEF Inv
  <2>3. Covered(q)
    BY DEF Inv
  <2>4. /\ Balance(req[q].user, req[q].token)' \in Int
        /\ Balance(req[q].user, req[q].token) \in Int
        /\ Balance(req[q].user, req[q].token)' >= Balance(req[q].user, req[q].token)
    BY <1>1, <2>2, <2>1 DEF Balance, UsesOf
  <2> QED BY <2>1, <2>2, <2>3, <2>4 DEF Covered, Balance, UsesOf
<1>4. NeverInDebt'
  BY <1>1 DEF Inv, NeverInDebt
<1> QED BY <1>2, <1>3, <1>4 DEF Inv


\* What one request does, the row of its player locked, leaves the others alone.
LEMMA OthersInv ==
  ASSUME Inv, NEW p \in Request, NEW r, Go(p, r),
         \/ lock' = lock
         \/ Unlock(p)
         \/ lock[req[p].user] = NoRequest /\ lock' = [lock EXCEPT ![req[p].user] = p],
         \A u \in User, k \in Token :
           Balance(u, k)' \in Int /\ (lock[u] # p => Balance(u, k)' >= Balance(u, k)),
         NEW q \in Request, q # p
  PROVE  HasRow(q)' /\ Covered(q)' /\ Fits(q)'
<1>1. req'[q] = req[q]
  BY DEF Go, Inv, TypeOK
<1>2. req[q].user \in User /\ req[q].token \in Token /\ req[q].delta \in Int
  BY RequestFields DEF Inv
<1>3. ASSUME Holds(q)
      PROVE  lock[req[q].user] = q /\ lock'[req[q].user] = q
  <2>1. lock[req[q].user] = q
    BY <1>3 DEF Inv, HasRow
  <2> QED BY <1>2, <2>1, TokensAssumption DEF Inv, TypeOK, Unlock
<1>4. HasRow(q)'
  BY <1>1, <1>3 DEF HasRow, Holds
<1>5. Covered(q)'
  <2> SUFFICES ASSUME At(q, "save")
               PROVE  Covered(q)'
    BY <1>1 DEF Covered, At
  <2>1. lock[req[q].user] = q
    BY <1>3 DEF At, Holds
  <2> PICK u \in User, k \in Token : u = req[q].user /\ k = req[q].token
    BY <1>2
  <2>2. Balance(u, k) \in Int
    BY BalanceType DEF Inv
  <2>3. Balance(u, k)' \in Int /\ Balance(u, k)' >= Balance(u, k)
    BY <2>1
  <2>4. /\ req[q].kind = "grant" => Balance(u, k) + req[q].delta >= 0
        /\ req[q].kind # "grant" /\ req[q].on => Balance(u, k) >= 1
    BY DEF Inv, Covered
  <2>5. /\ req'[q].kind = "grant" => Balance(u, k)' + req'[q].delta >= 0
        /\ req'[q].kind # "grant" /\ req'[q].on => Balance(u, k)' >= 1
    BY <1>1, <1>2, <2>2, <2>3, <2>4
  <2>6. u = req'[q].user /\ k = req'[q].token
    BY <1>1
  <2> QED BY <2>5, <2>6 DEF Covered, Balance, UsesOf
<1>6. Fits(q)'
  BY <1>1 DEF Inv, Fits, At
<1> QED BY <1>4, <1>5, <1>6

\* Nothing is spent: the balances stay.
LEMMA SameBalances ==
  ASSUME TypeOK, UNCHANGED <<uses, granted>>
  PROVE  /\ \A u \in User, k \in Token : Balance(u, k)' \in Int /\ Balance(u, k)' = Balance(u, k)
<1>1. \A u \in User, k \in Token : Balance(u, k)' = Balance(u, k)
  BY DEF Balance, UsesOf
<1> QED BY <1>1, BalanceType


\* The steps of a request that look only; Check is the one that covers.
LEMMA LooksInv ==
  ASSUME Inv, TypeOK', NEW p \in Request,
         LockUser(p) \/ ReadRule(p) \/ Check(p) \/ LookAtMatch(p) \/ LookAtSide(p)
  PROVE  Inv'
<1>1. UNCHANGED <<uses, granted>>
  BY DEF LockUser, ReadRule, Check, LookAtMatch, LookAtSide
<1>2. \A u \in User, k \in Token : Balance(u, k)' \in Int /\ Balance(u, k)' = Balance(u, k)
                                   /\ Balance(u, k) \in Int
  BY <1>1, SameBalances, BalanceType DEF Inv
<1>3. NeverInDebt'
  BY <1>2 DEF Inv, NeverInDebt
<1>4. \E r : /\ Go(p, r)
             /\ \/ lock' = lock
                \/ Unlock(p)
                \/ lock[req[p].user] = NoRequest /\ lock' = [lock EXCEPT ![req[p].user] = p]
  BY DEF LockUser, ReadRule, Check, LookAtMatch, LookAtSide, Refuse
<1>5. \A q \in Request : q # p => HasRow(q)' /\ Covered(q)' /\ Fits(q)'
  BY <1>2, <1>4, OthersInv
<1>6. /\ req[p] \in Requests /\ req[p].user \in User /\ req[p].token \in Token
      /\ lock \in [User -> Request \cup {NoRequest}] /\ req \in [Request -> Requests]
      /\ req[p].kind \in {"none", "grant", "activate", "double", "reset"}
      /\ HasRow(p) /\ Fits(p)
  BY RequestFields DEF Inv, TypeOK, Requests
<1>7. HasRow(p)' /\ Fits(p)'
  <2> USE DEF HasRow, Fits, Holds, At, Go, Blank, Unlock, Requests
  <2>1. CASE LockUser(p)
    BY <1>6, <2>1 DEF LockUser
  <2>2. CASE ReadRule(p)
    BY <1>6, <2>2 DEF ReadRule
  <2>3. CASE Check(p)
    BY <1>6, <2>3 DEF Check, Refuse
  <2>4. CASE LookAtMatch(p)
    BY <1>6, <2>4 DEF LookAtMatch, Refuse
  <2>5. CASE LookAtSide(p)
    BY <1>6, <2>5 DEF LookAtSide, Refuse
  <2> QED BY <2>1, <2>2, <2>3, <2>4, <2>5
<1>8. Covered(p)'
  <2>1. CASE ~At(p, "save")'
    BY <2>1 DEF Covered
  <2>2. CASE At(p, "save")' /\ Check(p)
    <3>1. May(req[p]) /\ req' = [req EXCEPT ![p] = [req[p] EXCEPT !.pc = "save"]]
      BY <1>6, <2>2 DEF Check, Refuse, Go, At, Blank
    <3>2. /\ req'[p].kind = req[p].kind /\ req'[p].user = req[p].user
          /\ req'[p].token = req[p].token /\ req'[p].delta = req[p].delta
      BY <1>6, <3>1 DEF Requests
    <3>3. req[p].kind # "none"
      BY <1>6, <2>2 DEF Fits, Check, At
    <3> PICK u \in User, k \in Token : u = req[p].user /\ k = req[p].token
      BY <1>6
    <3>4. /\ req[p].kind = "grant" => Balance(u, k) + req[p].delta >= 0
          /\ req[p].kind # "grant" => Balance(u, k) >= 1
      BY <1>6, <3>1, <3>3 DEF May
    <3>5. Balance(u, k)' = Balance(u, k)
      BY <1>2
    <3>6. /\ req'[p].kind = "grant" => Balance(u, k)' + req'[p].delta >= 0
          /\ req'[p].kind # "grant" => Balance(u, k)' >= 1
      BY <3>2, <3>4, <3>5
    <3>7. u = req'[p].user /\ k = req'[p].token
      BY <3>2
    <3> QED BY <3>6, <3>7 DEF Covered, Balance, UsesOf
  <2>3. CASE At(p, "save")' /\ LookAtMatch(p)
    <3>1. req[p].kind = "double" /\ ~req[p].on /\ req' = [req EXCEPT ![p] = [req[p] EXCEPT !.pc = "save"]]
      <4>1. At(p, "status") /\ req[p].kind = "double"
        BY <1>6, <2>3 DEF LookAtMatch, Fits
      <4>2. req[p].on \in BOOLEAN
        BY <1>6 DEF Requests
      <4>3. /\ ~ req' = [req EXCEPT ![p] = Blank]
            /\ ~ req' = [req EXCEPT ![p] = [req[p] EXCEPT !.pc = "side"]]
        BY <1>6, <2>3 DEF At, Blank, Requests
      <4>4. \/ Go(p, Blank)
            \/ req[p].on /\ Go(p, [req[p] EXCEPT !.pc = "side"])
            \/ ~req[p].on /\ Go(p, [req[p] EXCEPT !.pc = "save"])
        BY <2>3, <4>2 DEF LookAtMatch, Refuse
      <4> QED BY <4>1, <4>3, <4>4 DEF Go
    <3>2. req'[p].kind = "double" /\ ~req'[p].on
      BY <1>6, <3>1 DEF Requests
    <3> QED BY <3>2 DEF Covered
  <2>4. CASE LockUser(p) \/ ReadRule(p) \/ LookAtSide(p)
    <3>1. CASE LockUser(p)
      BY <1>6, <2>1, <3>1 DEF LockUser, At, Go, Requests
    <3>2. CASE ReadRule(p)
      BY <1>6, <2>1, <3>2 DEF ReadRule, At, Go, Requests
    <3>3. CASE LookAtSide(p)
      BY <1>6, <2>1, <3>3 DEF LookAtSide, At, Go, Refuse, Blank, Requests
    <3> QED BY <2>4, <3>1, <3>2, <3>3
  <2> QED BY <2>1, <2>2, <2>3, <2>4
<1> QED BY <1>3, <1>5, <1>7, <1>8 DEF Inv

\* The steps that write: what was looked at while the row was locked still covers them.
LEMMA WritesInv ==
  ASSUME Inv, TypeOK', NEW p \in Request, Grant(p) \/ Use(p) \/ TakeOff(p)
  PROVE  Inv'
<1>1. Unlock(p) /\ Go(p, Blank) /\ At(p, "save")
  BY DEF Grant, Use, TakeOff, Refuse
<1>2. /\ req[p].user \in User /\ req[p].token \in Token /\ req[p].delta \in Int
      /\ Covered(p) /\ lock[req[p].user] = p /\ req \in [Request -> Requests]
  BY <1>1, RequestFields DEF Inv, HasRow, Holds, At, TypeOK
<1>3. ASSUME NEW u \in User, NEW k \in Token
      PROVE  /\ Balance(u, k)' \in Int /\ Balance(u, k)' >= 0
             /\ lock[u] # p => Balance(u, k)' >= Balance(u, k)
  <2>1. Balance(u, k) \in Int /\ Balance(u, k) >= 0
    BY BalanceType DEF Inv, NeverInDebt
  <2>2. CASE Grant(p)
    <3>1. UsesOf(u, k)' = UsesOf(u, k) /\ granted[u][k] \in Int /\ granted[u] \in [Token -> Int]
      BY <2>2 DEF Grant, UsesOf, Inv, TypeOK
    <3>2. Cardinality(UsesOf(u, k)) \in Nat
      BY BalanceType, FS_CardinalityType DEF Inv
    <3>3. CASE u = req[p].user /\ k = req[p].token
      <4>1. granted'[u][k] = granted[u][k] + req[p].delta
        BY <2>2, <3>1, <3>3 DEF Grant, Inv, TypeOK
      <4>2. Balance(u, k) + req[p].delta >= 0
        BY <1>1, <1>2, <2>2, <3>3 DEF Covered, Grant
      <4>3. Balance(u, k)' = Balance(u, k) + req[p].delta
        BY <1>2, <3>1, <3>2, <4>1 DEF Balance
      <4> QED BY <1>2, <2>1, <3>3, <4>2, <4>3
    <3>4. CASE u # req[p].user \/ k # req[p].token
      <4>1. granted'[u][k] = granted[u][k]
        BY <2>2, <3>1, <3>4 DEF Grant, Inv, TypeOK
      <4>2. Balance(u, k)' = Balance(u, k)
        BY <3>1, <4>1 DEF Balance
      <4> QED BY <2>1, <4>2
    <3> QED BY <3>3, <3>4
  <2>3. CASE uses' \subseteq uses /\ granted' = granted
    BY <2>1, <2>3, ReturnedIsMore DEF Inv
  <2>4. CASE Use(p) /\ uses' = uses \cup {NewUse(req[p])}
    <3> DEFINE x == NewUse(req[p])
    <3>1. x.user = req[p].user /\ x.kind = req[p].token
      BY DEF NewUse
    <3>2. granted' = granted /\ uses' = uses \cup {x}
      BY <2>4 DEF Use
    <3> HIDE DEF x
    <3>3. /\ Balance(u, k)' \in Int /\ Balance(u, k)' >= Balance(u, k) - 1
          /\ x.user # u \/ x.kind # k => Balance(u, k)' = Balance(u, k)
      BY <3>2, UsedIsOne DEF Inv
    <3>4. CASE u = req[p].user /\ k = req[p].token
      <4>1. Balance(u, k) >= 1
        BY <1>1, <1>2, <2>4, <3>4 DEF Covered, Use
      <4> QED BY <1>2, <2>1, <3>3, <3>4, <4>1
    <3>5. CASE u # req[p].user \/ k # req[p].token
      BY <2>1, <3>1, <3>3, <3>5
    <3> QED BY <3>4, <3>5
  <2> QED BY <2>2, <2>3, <2>4 DEF Use, TakeOff
<1>4. \A q \in Request : q # p => HasRow(q)' /\ Covered(q)' /\ Fits(q)'
  BY <1>1, <1>3, OthersInv
<1>5. req'[p] = Blank
  BY <1>1, <1>2 DEF Go
<1>6. HasRow(p)' /\ Covered(p)' /\ Fits(p)'
  BY <1>5 DEF HasRow, Covered, Fits, Holds, At, Blank
<1> QED BY <1>3, <1>4, <1>6 DEF Inv, NeverInDebt

\* A request that comes in; a day without queueing that is cancelled gives back.
LEMMA ArrivesInv ==
  ASSUME Inv, TypeOK', NEW p \in Request, Arrives(p)
  PROVE  Inv'
<1>1. PICK u \in User :
        \/ \E k \in Token, d \in Deltas : HandleGrantTokens(p, u, k, d)
        \/ HandleActivatePriority(p, u) \/ HandleCancelPriority(p, u)
        \/ \E m \in Match, on \in BOOLEAN : HandleMatchDouble(p, u, m, on)
        \/ HandleResetRating(p, u)
  BY DEF Arrives
<1>2. CASE HandleCancelPriority(p, u)
  <2>1. uses' \subseteq uses /\ UNCHANGED <<granted, lock, req>>
    BY <1>2 DEF HandleCancelPriority
  <2>2. \A q \in Request : Fits(q)' /\ req'[q] = req[q]
    BY <2>1 DEF Inv, Fits, At
  <2> QED BY <2>1, <2>2, ReturnsInv
<1>3. CASE ~HandleCancelPriority(p, u)
  <2>1. \E r : Accept(p, r) /\ r.pc \in {"rule", "lock"} /\ r.kind # "none"
    <3>1. ASSUME NEW k \in Token, NEW d \in Deltas, HandleGrantTokens(p, u, k, d)
          PROVE  \E r : Accept(p, r) /\ r.pc \in {"rule", "lock"} /\ r.kind # "none"
      <4> DEFINE r == [Spend("grant", "lock", u, k) EXCEPT !.delta = d]
      <4>1. r.pc = "lock" /\ r.kind = "grant"
        BY DEF Spend, Blank
      <4>2. Accept(p, r)
        BY <3>1 DEF HandleGrantTokens
      <4> HIDE DEF r
      <4> QED BY <4>1, <4>2
    <3>2. ASSUME NEW m \in Match, NEW on \in BOOLEAN, HandleMatchDouble(p, u, m, on)
          PROVE  \E r : Accept(p, r) /\ r.pc \in {"rule", "lock"} /\ r.kind # "none"
      <4> DEFINE r == [Spend("double", "lock", u, "double") EXCEPT !.match = m, !.on = on]
      <4>1. r.pc = "lock" /\ r.kind = "double"
        BY DEF Spend, Blank
      <4>2. Accept(p, r)
        BY <3>2 DEF HandleMatchDouble
      <4> HIDE DEF r
      <4> QED BY <4>1, <4>2
    <3>3. ASSUME NEW kind \in {"activate", "reset"}, NEW pc \in {"rule", "lock"}, NEW k \in Token,
                 Accept(p, Spend(kind, pc, u, k))
          PROVE  \E r : Accept(p, r) /\ r.pc \in {"rule", "lock"} /\ r.kind # "none"
      <4> DEFINE r == Spend(kind, pc, u, k)
      <4>1. r.pc = pc /\ r.kind = kind
        BY DEF Spend, Blank
      <4> HIDE DEF r
      <4>2. Accept(p, r)
        BY <3>3 DEF r
      <4> QED BY <4>1, <4>2
    <3> QED BY <1>1, <1>3, <3>1, <3>2, <3>3 DEF HandleActivatePriority, HandleResetRating, Token
  <2>2. PICK r : Accept(p, r) /\ r.pc \in {"rule", "lock"} /\ r.kind # "none"
    BY <2>1
  <2>3. /\ UNCHANGED <<granted, uses, lock>>
        /\ \A q \in Request : q # p => req'[q] = req[q]
        /\ req'[p] = r
    BY <2>2 DEF Accept, Go, Inv, TypeOK
  <2>4. \A q \in Request : Fits(q)' /\ (Holds(q)' => req'[q] = req[q])
    BY <2>2, <2>3 DEF Inv, Fits, At, Holds
  <2> QED BY <2>3, <2>4, ReturnsInv
<1> QED BY <1>2, <1>3

\* The invariant is inductive.
LEMMA InvStep ==
  ASSUME Inv, [Next]_vars
  PROVE  Inv'
<1>1. TypeOK'
  BY TypeStep DEF Inv
<1>2. CASE \E p \in Request : Arrives(p)
  BY <1>1, <1>2, ArrivesInv
<1>3. ASSUME NEW p \in Request, Proceeds(p)
      PROVE  Inv'
  BY <1>1, <1>3, LooksInv, WritesInv DEF Proceeds
<1>4. ASSUME Around \/ UNCHANGED vars
      PROVE  Inv'
  <2>1. uses' \subseteq uses /\ UNCHANGED <<granted, lock, req>>
    BY <1>4 DEF Around, CreateMatch, StartRound, CancelMatch, FinishMatch, StartNewSeason,
         HalfDayPasses, vars
  <2>2. \A q \in Request : Fits(q)' /\ req'[q] = req[q]
    BY <2>1 DEF Inv, Fits, At
  <2> QED BY <1>1, <2>1, <2>2, ReturnsInv
<1> QED BY <1>2, <1>3, <1>4 DEF Next

\* The tables hold what they may, and a locked row belongs to a transaction that
\* goes on (lockUser), whatever requests interleave.
THEOREM TokensAreTyped == Spec => []TypeOK
<1>1. Inv => TypeOK
  BY DEF Inv
<1> QED BY <1>1, InitInv, InvStep, PTL DEF Spec

\* Nobody ever has less than no tokens (tokenBalance), whatever grants, uses and
\* returns interleave.
THEOREM NobodyInDebt == Spec => []NeverInDebt
<1>1. Inv => NeverInDebt
  BY DEF Inv
<1> QED BY <1>1, InitInv, InvStep, PTL DEF Spec

-------------------------------------------------------------------------------
(* A day without queueing is written a day or more after the date of any   *)
(* other of the player, however long transactions wait for the row, and a  *)
(* rating is reset once a season, for any number of requests and seasons.  *)
(* As with the balance, what a transaction read of the earlier uses still  *)
(* holds when it writes: only the holder of the player's row adds a use,   *)
(* and time does not run back.                                             *)

\* A request spends the token of its kind.
Suits(p) ==
  /\ req[p].kind = "activate" => req[p].token = "priority"
  /\ req[p].kind = "reset"    => req[p].token = "reset"
  /\ req[p].kind = "double"   => req[p].token = "double"

\* What a request that is about to write read of the earlier uses is still so.
Timed(p) ==
  At(p, "save") =>
    /\ req[p].kind = "activate" =>
         \A x \in UsesOf(req[p].user, "priority") : now - x.at >= Cooldown
    /\ req[p].kind = "reset" =>
         \A x \in UsesOf(req[p].user, "reset") : x.season # req[p].season

TimesInv ==
  /\ Inv
  /\ \A p \in Request : Suits(p) /\ Timed(p)
  /\ \A x \in uses : x.wrote <= now
  /\ PriorityDayApart
  /\ OneResetASeason

\* The request has just looked at the ledger.
HasLooked(q) ==
  /\ May(req[q]) /\ UNCHANGED <<uses, now>>
  /\ req[q].kind # "none" /\ req'[q] = [req[q] EXCEPT !.pc = "save"]

\* A request that is about to write was so before, has just looked, or need not look.
WritesSoundly(q) ==
  At(q, "save")' => req'[q] = req[q] \/ HasLooked(q) \/ req'[q].kind = "double"

\* No use is added and time does not run back: the uses stay apart.
LEMMA TimesKept ==
  ASSUME TimesInv, TypeOK', uses' \subseteq uses, now' >= now,
         \A q \in Request : Suits(q)' /\ WritesSoundly(q)
  PROVE  /\ \A q \in Request : Suits(q)' /\ Timed(q)'
         /\ (\A x \in uses : x.wrote <= now)'
         /\ PriorityDayApart' /\ OneResetASeason'
<1>1. ASSUME NEW q \in Request
      PROVE  Timed(q)'
  <2>1. now \in Nat /\ now' \in Nat /\ \A x \in uses : x.at \in Nat
    BY DEF TimesInv, Inv, TypeOK, Uses
  <2>2. \A u \in User, k \in Token : UsesOf(u, k)' \subseteq UsesOf(u, k) /\ UsesOf(u, k) \subseteq uses
    BY DEF UsesOf
  <2>3. req[q] \in Requests /\ req[q].user \in User
    BY RequestFields DEF TimesInv, Inv
  <2>4. CASE At(q, "save")' /\ req'[q] = req[q]
    <3>1. At(q, "save") /\ Timed(q)
      BY <2>4 DEF At, TimesInv
    <3>2. ASSUME req[q].kind = "activate"
          PROVE  \A x \in UsesOf(req[q].user, "priority")' : now' - x.at >= Cooldown
      <4> TAKE x \in UsesOf(req[q].user, "priority")'
      <4>1. x \in uses /\ x \in UsesOf(req[q].user, "priority")
        BY <2>4 DEF UsesOf
      <4>2. now - x.at >= Cooldown
        BY <3>1, <3>2, <4>1 DEF Timed
      <4> QED BY <2>1, <4>1, <4>2 DEF Cooldown
    <3>3. ASSUME req[q].kind = "reset"
          PROVE  \A x \in UsesOf(req[q].user, "reset")' : x.season # req[q].season
      BY <2>4, <3>1, <3>3 DEF Timed, UsesOf
    <3> QED BY <2>4, <3>2, <3>3 DEF Timed, UsesOf
  <2>5. CASE At(q, "save")' /\ HasLooked(q)
    <3>1. req'[q].kind = req[q].kind /\ req'[q].user = req[q].user /\ req'[q].season = req[q].season
      BY <2>3, <2>5 DEF HasLooked, Requests
    <3>2. Suits(q) /\ UNCHANGED <<uses, now>> /\ May(req[q])
      BY <2>5 DEF HasLooked, TimesInv
    <3>3. /\ req[q].kind = "activate" =>
               \A x \in UsesOf(req[q].user, "priority") : now - x.at >= Cooldown
          /\ req[q].kind = "reset" =>
               \A x \in UsesOf(req[q].user, "reset") : x.season # req[q].season
      BY <3>2 DEF May
    <3> QED BY <3>1, <3>2, <3>3 DEF Timed, UsesOf
  <2> QED BY <2>4, <2>5 DEF Timed, WritesSoundly
<1>2. PriorityDayApart'
  BY DEF TimesInv, PriorityDayApart
<1>3. OneResetASeason'
  BY DEF TimesInv, OneResetASeason
<1>4. ASSUME NEW x \in uses'
      PROVE  x.wrote <= now'
  <2>1. x.wrote <= now /\ x.wrote \in Nat /\ now \in Nat /\ now' \in Nat
    BY <1>4 DEF TimesInv, Inv, TypeOK, Uses
  <2> QED BY <2>1
<1> QED BY <1>1, <1>2, <1>3, <1>4

\* A use is added by the transaction that holds the row of its player.
LEMMA TimesUsed ==
  ASSUME TimesInv, NEW p \in Request, Use(p), uses' = uses \cup {NewUse(req[p])}
  PROVE  /\ \A q \in Request : Suits(q)' /\ Timed(q)'
         /\ (\A x \in uses : x.wrote <= now)'
         /\ PriorityDayApart' /\ OneResetASeason'
<1> DEFINE n == NewUse(req[p])
<1>1. /\ n.user = req[p].user /\ n.kind = req[p].token /\ n.season = req[p].season
      /\ n.wrote = now /\ n.at = req[p].begun
  BY DEF NewUse
<1>2. /\ uses' = uses \cup {n} /\ now' = now /\ req' = [req EXCEPT ![p] = Blank]
      /\ At(p, "save") /\ req[p].kind # "grant"
  BY DEF Use, Refuse, Go
<1> HIDE DEF n
<1>3. /\ req[p].kind \in {"activate", "double", "reset"} /\ Suits(p) /\ Timed(p)
      /\ req[p].user \in User /\ req \in [Request -> Requests] /\ now \in Nat
      /\ req[p].begun \in Nat
      /\ \A x \in uses : x.at \in Nat /\ x.wrote \in Nat /\ x.wrote <= now
  BY <1>2, RequestFields DEF TimesInv, Inv, Fits, At, TypeOK, Requests, Uses
<1>4. ASSUME NEW q \in Request
      PROVE  Suits(q)' /\ Timed(q)'
  <2>1. CASE q = p
    <3>1. req'[q] = Blank
      BY <1>2, <1>3, <2>1
    <3> QED BY <3>1 DEF Blank, Suits, Timed, At
  <2>2. CASE q # p
    <3>1. req'[q] = req[q] /\ Suits(q) /\ Timed(q)
      BY <1>2, <1>3, <2>2 DEF TimesInv
    <3>2. CASE At(q, "save")
      <4>1. lock[req[q].user] = q /\ lock[req[p].user] = p
        BY <1>2, <3>2 DEF TimesInv, Inv, HasRow, Holds, At
      <4>2. n.user # req[q].user
        BY <1>1, <2>2, <4>1
      <4>3. \A k \in Token : {x \in uses' : x.user = req[q].user /\ x.kind = k} = UsesOf(req[q].user, k)
        BY <1>2, <4>2 DEF UsesOf
      <4> QED BY <1>2, <3>1, <4>3 DEF Suits, Timed, UsesOf, At, Token
    <3> QED BY <3>1, <3>2 DEF Suits, Timed, At
  <2> QED BY <2>1, <2>2
<1>5. ASSUME NEW x \in uses, x.user = n.user, x.kind = "priority", n.kind = "priority"
      PROVE  now - x.at >= Cooldown
  <2>1. req[p].kind = "activate" /\ x \in UsesOf(req[p].user, "priority")
    BY <1>1, <1>3, <1>5 DEF Suits, UsesOf
  <2> QED BY <1>2, <1>3, <2>1 DEF Timed
<1>6. ASSUME NEW x \in uses, x.user = n.user, x.kind = "reset", n.kind = "reset"
      PROVE  x.season # n.season
  <2>1. req[p].kind = "reset" /\ x \in UsesOf(req[p].user, "reset")
    BY <1>1, <1>3, <1>6 DEF Suits, UsesOf
  <2> QED BY <1>1, <1>2, <1>3, <2>1 DEF Timed
<1>7. ASSUME NEW x \in uses, x.user = n.user, x.kind = "priority", n.kind = "priority"
      PROVE  DayAfter(x, n)
  <2>1. now - x.at >= Cooldown
    BY <1>5, <1>7
  <2>2. n.at - x.at >= Cooldown - (n.wrote - n.at)
    BY <1>1, <1>3, <2>1 DEF Cooldown
  <2> QED BY <1>1, <1>3, <2>2 DEF DayAfter, Wait
<1>8. PriorityDayApart'
  <2> SUFFICES ASSUME NEW x \in uses', NEW y \in uses', x # y, x.kind = "priority",
                      y.kind = "priority", x.user = y.user
               PROVE  DayAfter(x, y) \/ DayAfter(y, x)
    BY DEF PriorityDayApart
  <2>1. CASE x \in uses /\ y \in uses
    BY <2>1 DEF TimesInv, PriorityDayApart
  <2>2. CASE x = n /\ y \in uses
    BY <1>7, <2>2
  <2>3. CASE y = n /\ x \in uses
    BY <1>7, <2>3
  <2> QED BY <1>2, <2>1, <2>2, <2>3
<1>9. OneResetASeason'
  <2> SUFFICES ASSUME NEW x \in uses', NEW y \in uses', x.kind = "reset", y.kind = "reset",
                      x.user = y.user, x.season = y.season
               PROVE  x = y
    BY DEF OneResetASeason
  <2>1. CASE x \in uses /\ y \in uses
    BY <2>1 DEF TimesInv, OneResetASeason
  <2>2. CASE x = n /\ y \in uses
    BY <1>6, <2>2
  <2>3. CASE y = n /\ x \in uses
    BY <1>6, <2>3
  <2> QED BY <1>2, <2>1, <2>2, <2>3
<1>10. ASSUME NEW x \in uses'
       PROVE  x.wrote <= now'
  BY <1>1, <1>2, <1>3, <1>10
<1> QED BY <1>4, <1>8, <1>9, <1>10

\* A new request asks for the token of its kind.
LEMMA ArrivesSuit ==
  ASSUME TimesInv, NEW p \in Request, Arrives(p)
  PROVE  \A q \in Request : Suits(q)' /\ WritesSoundly(q)
<1>1. PICK u \in User :
        \/ \E k \in Token, d \in Deltas : HandleGrantTokens(p, u, k, d)
        \/ HandleActivatePriority(p, u) \/ HandleCancelPriority(p, u)
        \/ \E m \in Match, on \in BOOLEAN : HandleMatchDouble(p, u, m, on)
        \/ HandleResetRating(p, u)
  BY DEF Arrives
<1>2. req \in [Request -> Requests] /\ \A q \in Request : Suits(q)
  BY DEF TimesInv, Inv, TypeOK
<1>3. ASSUME NEW r, Accept(p, r), r.pc # "save",
             r.kind = "activate" => r.token = "priority",
             r.kind = "reset" => r.token = "reset",
             r.kind = "double" => r.token = "double"
      PROVE  \A q \in Request : Suits(q)' /\ WritesSoundly(q)
  <2>1. req' = [req EXCEPT ![p] = r]
    BY <1>3 DEF Accept, Go
  <2> QED BY <1>2, <1>3, <2>1 DEF Suits, WritesSoundly, At
<1>4. CASE HandleCancelPriority(p, u)
  <2>1. req' = req
    BY <1>4 DEF HandleCancelPriority
  <2> QED BY <1>2, <2>1 DEF Suits, WritesSoundly
<1>5. ASSUME NEW k \in Token, NEW d \in Deltas, HandleGrantTokens(p, u, k, d)
      PROVE  \A q \in Request : Suits(q)' /\ WritesSoundly(q)
  <2> DEFINE r == [Spend("grant", "lock", u, k) EXCEPT !.delta = d]
  <2>1. r.pc = "lock" /\ r.kind = "grant"
    BY DEF Spend, Blank
  <2>2. Accept(p, r)
    BY <1>5 DEF HandleGrantTokens
  <2> HIDE DEF r
  <2> QED BY <1>3, <2>1, <2>2
<1>6. ASSUME NEW m \in Match, NEW on \in BOOLEAN, HandleMatchDouble(p, u, m, on)
      PROVE  \A q \in Request : Suits(q)' /\ WritesSoundly(q)
  <2> DEFINE r == [Spend("double", "lock", u, "double") EXCEPT !.match = m, !.on = on]
  <2>1. r.pc = "lock" /\ r.kind = "double" /\ r.token = "double"
    BY DEF Spend, Blank
  <2>2. Accept(p, r)
    BY <1>6 DEF HandleMatchDouble
  <2> HIDE DEF r
  <2> QED BY <1>3, <2>1, <2>2
<1>7. CASE HandleActivatePriority(p, u)
  <2> DEFINE r == Spend("activate", "lock", u, "priority")
  <2>1. r.pc = "lock" /\ r.kind = "activate" /\ r.token = "priority"
    BY DEF Spend, Blank
  <2>2. Accept(p, r)
    BY <1>7 DEF HandleActivatePriority
  <2> HIDE DEF r
  <2> QED BY <1>3, <2>1, <2>2
<1>8. CASE HandleResetRating(p, u)
  <2> DEFINE r == Spend("reset", "rule", u, "reset")
  <2>1. r.pc = "rule" /\ r.kind = "reset" /\ r.token = "reset"
    BY DEF Spend, Blank
  <2>2. Accept(p, r)
    BY <1>8 DEF HandleResetRating
  <2> HIDE DEF r
  <2> QED BY <1>3, <2>1, <2>2
<1> QED BY <1>1, <1>4, <1>5, <1>6, <1>7, <1>8

\* A request that is served goes on with the token it has, and is about to write only
\* after it has looked; a doubling that is taken off writes without.
LEMMA ProceedsSuit ==
  ASSUME TimesInv, NEW p \in Request, Proceeds(p), NEW q \in Request
  PROVE  Suits(q)' /\ WritesSoundly(q)
<1>1. /\ req \in [Request -> Requests] /\ req[p] \in Requests /\ Suits(q) /\ Suits(p) /\ Fits(p)
  BY DEF TimesInv, Inv, TypeOK
<1>2. CASE q # p
  <2>1. req'[q] = req[q]
    BY <1>1, <1>2 DEF Proceeds, LockUser, ReadRule, Check, LookAtMatch, LookAtSide, Grant, Use,
         TakeOff, Refuse, Go
  <2> QED BY <1>1, <2>1 DEF Suits, WritesSoundly
<1>3. ASSUME q = p, req' = [req EXCEPT ![p] = Blank]
      PROVE  Suits(q)' /\ WritesSoundly(q)
  BY <1>1, <1>3 DEF Suits, WritesSoundly, At, Blank
<1>4. ASSUME q = p, NEW s \in {"lock", "status", "side", "check", "save"}, NEW n \in Season \cup {0},
             req' = [req EXCEPT ![p] = [req[p] EXCEPT !.pc = s, !.season = n, !.begun = now]]
      PROVE  Suits(q)' /\ req'[q].pc = s /\ req'[q].kind = req[p].kind /\ req'[q].token = req[p].token
  BY <1>1, <1>4 DEF Suits, Requests
<1>5. ASSUME q = p, NEW s \in {"lock", "status", "side", "check", "save"},
             req' = [req EXCEPT ![p] = [req[p] EXCEPT !.pc = s]]
      PROVE  Suits(q)' /\ req'[q].pc = s /\ req'[q].kind = req[p].kind /\ req'[q].token = req[p].token
  BY <1>1, <1>5 DEF Suits, Requests
<1>6. CASE q = p /\ LockUser(p)
  BY <1>5, <1>6 DEF LockUser, Go, At, WritesSoundly
<1>7. CASE q = p /\ ReadRule(p)
  <2>1. season \in Season \cup {0}
    BY DEF TimesInv, Inv, TypeOK
  <2>2. req' = [req EXCEPT ![p] = [req[p] EXCEPT !.pc = "lock", !.season = season, !.begun = now]]
    BY <1>7 DEF ReadRule, Go
  <2> QED BY <1>4, <1>7, <2>1, <2>2 DEF At, WritesSoundly
<1>8. CASE q = p /\ Check(p)
  <2>1. CASE Refuse(p)
    BY <1>3, <1>8, <2>1 DEF Refuse, Go
  <2>2. CASE May(req[p]) /\ Go(p, [req[p] EXCEPT !.pc = "save"])
    <3>1. HasLooked(q)
      BY <1>1, <1>8, <2>2 DEF HasLooked, Check, Go, Fits, At
    <3> QED BY <1>5, <1>8, <2>2, <3>1 DEF Go, WritesSoundly
  <2> QED BY <1>8, <2>1, <2>2 DEF Check
<1>9. CASE q = p /\ LookAtMatch(p)
  <2>1. req[p].kind = "double" /\ req[p].token = "double"
    BY <1>1, <1>9 DEF LookAtMatch, Fits, Suits
  <2>2. CASE Refuse(p)
    BY <1>3, <1>9, <2>2 DEF Refuse, Go
  <2>3. CASE Go(p, [req[p] EXCEPT !.pc = "side"])
    BY <1>5, <1>9, <2>1, <2>3 DEF Go, WritesSoundly
  <2>4. CASE Go(p, [req[p] EXCEPT !.pc = "save"])
    BY <1>5, <1>9, <2>1, <2>4 DEF Go, WritesSoundly
  <2>5. \/ Refuse(p)
        \/ Go(p, [req[p] EXCEPT !.pc = IF req[p].on THEN "side" ELSE "save"])
    BY <1>9 DEF LookAtMatch
  <2> QED BY <2>2, <2>3, <2>4, <2>5
<1>10. CASE q = p /\ LookAtSide(p)
  <2>1. CASE Refuse(p)
    BY <1>3, <1>10, <2>1 DEF Refuse, Go
  <2>2. CASE Go(p, [req[p] EXCEPT !.pc = "check"])
    BY <1>5, <1>10, <2>2 DEF Go, At, WritesSoundly
  <2> QED BY <1>10, <2>1, <2>2 DEF LookAtSide
<1>11. CASE q = p /\ (Grant(p) \/ Use(p) \/ TakeOff(p))
  BY <1>3, <1>11 DEF Grant, Use, TakeOff, Refuse, Go
<1> QED BY <1>2, <1>6, <1>7, <1>8, <1>9, <1>10, <1>11 DEF Proceeds

\* The first state.
LEMMA TimesInit == Init => TimesInv
<1> SUFFICES ASSUME Init
             PROVE  TimesInv
  OBVIOUS
<1>1. Inv
  BY InitInv
<1>2. \A p \in Request : Suits(p) /\ Timed(p)
  BY DEF Init, Suits, Timed, At, Blank
<1>3. PriorityDayApart /\ OneResetASeason
  BY DEF Init, PriorityDayApart, OneResetASeason
<1>4. \A x \in uses : x.wrote <= now
  BY DEF Init
<1> QED BY <1>1, <1>2, <1>3, <1>4 DEF TimesInv

\* The uses stay apart, whatever comes next.
LEMMA TimesStep ==
  ASSUME TimesInv, [Next]_vars
  PROVE  TimesInv'
<1>1. Inv' /\ TypeOK'
  BY InvStep DEF TimesInv, Inv
<1>2. now \in Nat /\ now' \in Nat
  BY <1>1 DEF TimesInv, Inv, TypeOK
<1>3. ASSUME NEW p \in Request, Arrives(p)
      PROVE  TimesInv'
  <2>1. uses' \subseteq uses /\ now' = now
    BY <1>3 DEF Arrives, Accept, HandleGrantTokens, HandleActivatePriority, HandleCancelPriority,
         HandleMatchDouble, HandleResetRating
  <2> QED BY <1>1, <1>2, <1>3, <2>1, ArrivesSuit, TimesKept DEF TimesInv
<1>4. ASSUME NEW p \in Request, Proceeds(p)
      PROVE  TimesInv'
  <2>1. now' = now
    BY <1>4 DEF Proceeds, LockUser, ReadRule, Check, LookAtMatch, LookAtSide, Grant, Use, TakeOff
  <2>2. CASE uses' \subseteq uses
    BY <1>1, <1>2, <1>4, <2>1, <2>2, ProceedsSuit, TimesKept DEF TimesInv
  <2>3. CASE Use(p) /\ uses' = uses \cup {NewUse(req[p])}
    BY <1>1, <2>3, TimesUsed DEF TimesInv
  <2>4. uses' \subseteq uses \/ (Use(p) /\ uses' = uses \cup {NewUse(req[p])})
    BY <1>4 DEF Proceeds, LockUser, ReadRule, Check, LookAtMatch, LookAtSide, Grant, Use, TakeOff
  <2> QED BY <2>2, <2>3, <2>4
<1>5. ASSUME Around \/ UNCHANGED vars
      PROVE  TimesInv'
  <2>1. uses' \subseteq uses /\ UNCHANGED req /\ now' \in {now, now + 1}
    BY <1>5 DEF Around, CreateMatch, StartRound, CancelMatch, FinishMatch, StartNewSeason,
         HalfDayPasses, vars
  <2>2. \A q \in Request : Suits(q)' /\ WritesSoundly(q)
    BY <2>1 DEF TimesInv, Suits, WritesSoundly
  <2>3. now' >= now
    BY <1>2, <2>1
  <2> QED BY <1>1, <2>1, <2>2, <2>3, TimesKept DEF TimesInv
<1> QED BY <1>3, <1>4, <1>5 DEF Next

\* Two days without queueing of a player are dated a day apart, less what the later one
\* waited for the row of the player (priorityCooldown, created_at), and a player resets
\* the rating once in a season (TokenReset), whatever interleaves.
THEOREM UsesStayApart == Spec => []TimesApart
<1>1. TimesInv => TimesApart
  BY DEF TimesInv, Inv, TimesApart
<1> QED BY <1>1, TimesInit, TimesStep, PTL DEF Spec
-------------------------------------------------------------------------------
(* A doubling token that is spent stands on a match that exists, and while *)
(* requests come one at a time a side has one of them.  The transactions   *)
(* of two teammates lock different rows, so the side stays as it was read  *)
(* only for want of a second request: that is all load.at = 1 is for.      *)

\* A doubling is for a match its player is of.
Doubles(p) ==
  req[p].kind = "double" =>
    req[p].match \in Match /\ req[p].user \in Mates(req[p].user, req[p].match)

\* No token of the side of a player is on the match.
FreeSide(u, m) == \A x \in uses : x.kind = "double" /\ x.match = m => x.user \notin Mates(u, m)

\* A doubling that is past the look at its side.
PastSide(p) ==
  load.at = 1 /\ req[p].kind = "double" /\ req[p].on /\ (At(p, "check") \/ At(p, "save"))

\* What it saw of the side is still so.
SawFree(p) == PastSide(p) => FreeSide(req[p].user, req[p].match)

OneServed == load.at = 1 => \A p, q \in Request : ~At(p, "idle") /\ ~At(q, "idle") => p = q

\* The match of a doubling token is there.
Placed == \A x \in uses : x.kind = "double" => x.match \in Match /\ match[x.match] # "none"

SidesInv ==
  /\ TimesInv
  /\ \A p \in Request : Doubles(p) /\ SawFree(p)
  /\ OneServed /\ Placed /\ OneTokenASide

\* A step that goes past the look at the side has seen it free.
SeesFree(q) == PastSide(q)' => FreeSide(req'[q].user, req'[q].match)

\* No token is spent: what is on the matches gets less.
LEMMA SidesKept ==
  ASSUME SidesInv, TimesInv', uses' \subseteq uses, load' = load, OneServed', Placed',
         \A q \in Request : Doubles(q)' /\ SeesFree(q)
  PROVE  SidesInv'
<1>1. \A q \in Request : SawFree(q)'
  BY DEF SeesFree, SawFree, FreeSide
<1>2. OneTokenASide'
  BY DEF SidesInv, OneTokenASide
<1> QED BY <1>1, <1>2 DEF SidesInv

\* One request goes on: the others stay as they are, and none is served that was not.
LEMMA OneGoesOn ==
  ASSUME SidesInv, NEW p \in Request, Proceeds(p)
  PROVE  /\ UNCHANGED <<load, match>> /\ ~At(p, "idle")
         /\ \A q \in Request : q # p => req'[q] = req[q]
         /\ OneServed'
<1>1. /\ UNCHANGED <<load, match>> /\ ~At(p, "idle")
  BY DEF Proceeds, LockUser, ReadRule, Check, LookAtMatch, LookAtSide, Grant, Use, TakeOff, At
<1>2. \E r : req' = [req EXCEPT ![p] = r]
  BY DEF Proceeds, LockUser, ReadRule, Check, LookAtMatch, LookAtSide, Grant, Use, TakeOff,
         Refuse, Go
<1>3. req \in [Request -> Requests]
  BY DEF SidesInv, TimesInv, Inv, TypeOK
<1>4. \A q \in Request : q # p => req'[q] = req[q]
  BY <1>2, <1>3
<1>5. \A q \in Request : ~At(q, "idle")' => ~At(q, "idle")
  BY <1>1, <1>4 DEF At
<1> QED BY <1>1, <1>4, <1>5 DEF SidesInv, OneServed

\* A request that goes on is for the match it was for, and passes the look at its side
\* only when the side is free.
LEMMA ProceedsFree ==
  ASSUME SidesInv, NEW p \in Request, Proceeds(p), NEW q \in Request
  PROVE  Doubles(q)' /\ SeesFree(q)
<1>1. /\ req \in [Request -> Requests] /\ req[p] \in Requests
      /\ Doubles(q) /\ SawFree(q) /\ Fits(p) /\ load' = load
  BY OneGoesOn DEF SidesInv, TimesInv, Inv, TypeOK
<1>0. 0 \in Season \cup {0} /\ season \in Season \cup {0}
  BY DEF SidesInv, TimesInv, Inv, TypeOK
<1>2. CASE q # p
  <2>1. req'[q] = req[q]
    BY <1>2, OneGoesOn
  <2> QED BY <1>1, <2>1 DEF Doubles, SeesFree, SawFree, PastSide, FreeSide, At
<1>3. ASSUME q = p, req' = [req EXCEPT ![p] = Blank]
      PROVE  Doubles(q)' /\ SeesFree(q)
  BY <1>1, <1>3 DEF Doubles, SeesFree, PastSide, Blank
<1>4. ASSUME q = p, NEW s \in {"lock", "status", "side", "check", "save"}, NEW n \in Season \cup {0},
             \/ req' = [req EXCEPT ![p] = [req[p] EXCEPT !.pc = s, !.season = n, !.begun = now]]
             \/ req' = [req EXCEPT ![p] = [req[p] EXCEPT !.pc = s]]
      PROVE  /\ Doubles(q)' /\ req'[q].pc = s /\ req'[q].kind = req[p].kind /\ req'[q].on = req[p].on
             /\ req'[q].user = req[p].user /\ req'[q].match = req[p].match
  <2>1. /\ req'[q].pc = s /\ req'[q].kind = req[p].kind /\ req'[q].on = req[p].on
        /\ req'[q].user = req[p].user /\ req'[q].match = req[p].match
    <3>1. CASE req' = [req EXCEPT ![p] = [req[p] EXCEPT !.pc = s, !.season = n, !.begun = now]]
      BY <1>1, <1>4, <3>1 DEF Requests
    <3>2. CASE req' = [req EXCEPT ![p] = [req[p] EXCEPT !.pc = s]]
      BY <1>1, <1>4, <3>2 DEF Requests
    <3> QED BY <1>4, <3>1, <3>2
  <2> QED BY <1>1, <1>4, <2>1 DEF Doubles
<1>5. CASE q = p /\ LockUser(p)
  <2>1. req' = [req EXCEPT ![p] = [req[p] EXCEPT !.pc = IF req[p].kind = "double" THEN "status" ELSE "check"]]
    BY <1>5 DEF LockUser, Go
  <2>2. CASE req[p].kind = "double"
    <3>1. req' = [req EXCEPT ![p] = [req[p] EXCEPT !.pc = "status"]]
      BY <2>1, <2>2
    <3>2. Doubles(q)' /\ req'[q].pc = "status"
      BY <1>0, <1>4, <1>5, <3>1
    <3> QED BY <3>2 DEF SeesFree, PastSide, At
  <2>3. CASE req[p].kind # "double"
    <3>1. req' = [req EXCEPT ![p] = [req[p] EXCEPT !.pc = "check"]]
      BY <2>1, <2>3
    <3>2. Doubles(q)' /\ req'[q].kind = req[p].kind
      BY <1>0, <1>4, <1>5, <3>1
    <3> QED BY <2>3, <3>2 DEF SeesFree, PastSide
  <2> QED BY <2>2, <2>3
<1>6. CASE q = p /\ ReadRule(p)
  <2>1. req' = [req EXCEPT ![p] = [req[p] EXCEPT !.pc = "lock", !.season = season, !.begun = now]]
    BY <1>6 DEF ReadRule, Go
  <2>2. Doubles(q)' /\ req'[q].pc = "lock"
    BY <1>0, <1>4, <1>6, <2>1
  <2> QED BY <2>2 DEF SeesFree, PastSide, At
<1>7. CASE q = p /\ Check(p)
  <2>1. CASE Refuse(p)
    BY <1>3, <1>7, <2>1 DEF Refuse, Go
  <2>2. CASE Go(p, [req[p] EXCEPT !.pc = "save"])
    <3>1. req' = [req EXCEPT ![p] = [req[p] EXCEPT !.pc = "save"]] /\ At(p, "check")
      BY <1>7, <2>2 DEF Go, Check
    <3>2. /\ Doubles(q)' /\ req'[q].kind = req[p].kind /\ req'[q].on = req[p].on
          /\ req'[q].user = req[p].user /\ req'[q].match = req[p].match
      BY <1>0, <1>4, <1>7, <3>1
    <3> QED BY <1>1, <1>7, <3>1, <3>2 DEF SeesFree, SawFree, PastSide
  <2> QED BY <1>7, <2>1, <2>2 DEF Check
<1>8. CASE q = p /\ LookAtMatch(p)
  <2>1. CASE Refuse(p)
    BY <1>3, <1>8, <2>1 DEF Refuse, Go
  <2>2. CASE Go(p, [req[p] EXCEPT !.pc = "side"])
    <3>1. Doubles(q)' /\ req'[q].pc = "side"
      BY <1>0, <1>4, <1>8, <2>2 DEF Go
    <3> QED BY <3>1 DEF SeesFree, PastSide, At
  <2>3. CASE Go(p, [req[p] EXCEPT !.pc = "save"]) /\ ~req[p].on
    <3>1. Doubles(q)' /\ req'[q].on = req[p].on
      BY <1>0, <1>4, <1>8, <2>3 DEF Go
    <3> QED BY <2>3, <3>1 DEF SeesFree, PastSide
  <2>4. \/ Refuse(p)
        \/ Go(p, [req[p] EXCEPT !.pc = IF req[p].on THEN "side" ELSE "save"])
    BY <1>8 DEF LookAtMatch
  <2> QED BY <2>1, <2>2, <2>3, <2>4
<1>9. CASE q = p /\ LookAtSide(p)
  <2>1. CASE Refuse(p)
    BY <1>3, <1>9, <2>1 DEF Refuse, Go
  <2>2. CASE Go(p, [req[p] EXCEPT !.pc = "check"]) /\ FreeSide(req[p].user, req[p].match)
    <3>1. /\ Doubles(q)' /\ req'[q].user = req[p].user /\ req'[q].match = req[p].match
      BY <1>0, <1>4, <1>9, <2>2 DEF Go
    <3> QED BY <2>2, <3>1 DEF SeesFree
  <2>3. Refuse(p) \/ (Go(p, [req[p] EXCEPT !.pc = "check"]) /\ FreeSide(req[p].user, req[p].match))
    BY <1>9 DEF LookAtSide, FreeSide
  <2> QED BY <2>1, <2>2, <2>3
<1>10. CASE q = p /\ (Grant(p) \/ Use(p) \/ TakeOff(p))
  BY <1>3, <1>10 DEF Grant, Use, TakeOff, Refuse, Go
<1> QED BY <1>2, <1>5, <1>6, <1>7, <1>8, <1>9, <1>10 DEF Proceeds

\* A player of a side is a mate of everybody who is a mate of the player.
LEMMA MatesMutual ==
  ASSUME NEW m \in Match, NEW u, NEW v
  PROVE  v \in Mates(u, m) <=> u \in Mates(v, m)
BY DEF Mates

\* A token is spent: the match is there, and the side was free.
LEMMA SidesUsed ==
  ASSUME SidesInv, TimesInv', NEW p \in Request, Use(p), uses' = uses \cup {NewUse(req[p])},
         req[p].match = NoMatch \/ match[req[p].match] # "none"
  PROVE  SidesInv'
<1> DEFINE n == NewUse(req[p])
<1>1. n.user = req[p].user /\ n.kind = req[p].token /\ n.match = req[p].match
  BY DEF NewUse
<1>2. /\ uses' = uses \cup {n} /\ At(p, "save") /\ req[p].kind # "grant" /\ req[p].on
      /\ UNCHANGED <<match, load>>
  BY DEF Use
<1> HIDE DEF n
<1>3. /\ req[p].kind \in {"activate", "double", "reset"} /\ Suits(p) /\ Doubles(p) /\ SawFree(p)
      /\ Proceeds(p)
  BY <1>2, RequestFields DEF SidesInv, TimesInv, Inv, Fits, At, Requests, Proceeds
<1>4. n.kind = "double" =>
        /\ req[p].kind = "double" /\ n.match \in Match /\ match[n.match] # "none"
        /\ n.user \in Mates(n.user, n.match)
        /\ load.at = 1 => \A x \in uses : x.kind = "double" /\ x.match = n.match
                                            => x.user \notin Mates(n.user, n.match)
  <2> SUFFICES ASSUME n.kind = "double"
               PROVE  /\ req[p].kind = "double" /\ n.match \in Match /\ match[n.match] # "none"
                      /\ n.user \in Mates(n.user, n.match)
                      /\ load.at = 1 => \A x \in uses : x.kind = "double" /\ x.match = n.match
                                            => x.user \notin Mates(n.user, n.match)
    OBVIOUS
  <2>1. req[p].kind = "double"
    BY <1>1, <1>3 DEF Suits
  <2>2. req[p].match \in Match /\ req[p].match # NoMatch
    BY <1>3, <2>1, TokensAssumption DEF Doubles
  <2>3. load.at = 1 => FreeSide(n.user, n.match)
    BY <1>1, <1>2, <1>3, <2>1 DEF SawFree, PastSide
  <2> QED BY <1>1, <1>3, <2>1, <2>2, <2>3 DEF Doubles, FreeSide
<1>5. Placed'
  BY <1>2, <1>4 DEF SidesInv, Placed
<1>6. OneTokenASide'
  <2> SUFFICES ASSUME load.at = 1, NEW x \in uses', NEW y \in uses', x.kind = "double",
                      y.kind = "double", x.match = y.match, y.user \in Mates(x.user, x.match)
               PROVE  x = y
    BY <1>2 DEF OneTokenASide
  <2>1. CASE x \in uses /\ y \in uses
    BY <2>1 DEF SidesInv, OneTokenASide
  <2>2. CASE x = n /\ y \in uses
    BY <1>4, <2>2
  <2>3. CASE y = n /\ x \in uses
    BY <1>4, <2>3, MatesMutual
  <2> QED BY <1>2, <2>1, <2>2, <2>3
<1>7. \A q \in Request : Doubles(q)'
  BY <1>3, ProceedsFree
<1>8. ASSUME NEW q \in Request
      PROVE  SawFree(q)'
  <2>1. CASE q = p
    <3>1. req'[q] = Blank
      BY <2>1 DEF Use, Refuse, Go, SidesInv, TimesInv, Inv, TypeOK
    <3> QED BY <3>1 DEF SawFree, PastSide, Blank
  <2>2. CASE q # p
    <3>1. load.at = 1 => At(q, "idle")
      BY <1>2, <2>2 DEF SidesInv, OneServed, At
    <3>2. req'[q] = req[q]
      BY <1>3, <2>2, OneGoesOn
    <3> QED BY <1>2, <3>1, <3>2 DEF SawFree, PastSide, At
  <2> QED BY <2>1, <2>2
<1>9. OneServed'
  BY <1>3, OneGoesOn
<1> QED BY <1>5, <1>6, <1>7, <1>8, <1>9 DEF SidesInv

\* With requests one at a time, one comes in when none is served.
LEMMA AcceptServed ==
  ASSUME SidesInv, NEW p \in Request, NEW r, Accept(p, r)
  PROVE  OneServed'
<1> DEFINE S == {o \in Request : ~At(o, "idle")}
<1>1. req' = [req EXCEPT ![p] = r] /\ load' = load /\ Cardinality(S) < load.at
  BY DEF Accept, Go
<1>2. IsFiniteSet(S) /\ Cardinality(S) \in Nat
  BY TokensAssumption, SmallerSet
<1>3. load.at = 1 => S = {}
  BY <1>1, <1>2, FS_EmptySet
<1>4. \A q \in Request : q # p => req'[q] = req[q]
  BY <1>1 DEF SidesInv, TimesInv, Inv, TypeOK
<1> QED BY <1>1, <1>3, <1>4 DEF OneServed, At

\* A request that comes in has seen nothing yet, and is for a match of its player.
LEMMA ArrivesFree ==
  ASSUME SidesInv, NEW p \in Request, Arrives(p)
  PROVE  /\ OneServed' /\ UNCHANGED <<load, match>> /\ uses' \subseteq uses
         /\ \A q \in Request : Doubles(q)' /\ SeesFree(q)
<1>1. PICK u \in User :
        \/ \E k \in Token, d \in Deltas : HandleGrantTokens(p, u, k, d)
        \/ HandleActivatePriority(p, u) \/ HandleCancelPriority(p, u)
        \/ \E m \in Match, on \in BOOLEAN : HandleMatchDouble(p, u, m, on)
        \/ HandleResetRating(p, u)
  BY DEF Arrives
<1>2. req \in [Request -> Requests] /\ \A q \in Request : Doubles(q) /\ SawFree(q)
  BY DEF SidesInv, TimesInv, Inv, TypeOK
<1>3. ASSUME NEW r, Accept(p, r), r.pc \in {"lock", "rule"},
             r.kind = "double" => r.match \in Match /\ r.user \in Mates(r.user, r.match)
      PROVE  /\ OneServed' /\ UNCHANGED <<load, match, uses>>
             /\ \A q \in Request : Doubles(q)' /\ SeesFree(q)
  <2>1. req' = [req EXCEPT ![p] = r] /\ UNCHANGED <<load, match, uses>>
    BY <1>3 DEF Accept, Go
  <2>2. req'[p] = r /\ \A q \in Request : q # p => req'[q] = req[q]
    BY <1>2, <2>1
  <2>3. \A q \in Request : Doubles(q)'
    BY <1>2, <1>3, <2>2 DEF Doubles
  <2>4. \A q \in Request : SeesFree(q)
    BY <1>2, <1>3, <2>1, <2>2 DEF SeesFree, SawFree, PastSide, At
  <2> QED BY <1>3, <2>1, <2>3, <2>4, AcceptServed
<1>4. CASE HandleCancelPriority(p, u)
  <2>1. UNCHANGED <<req, load, match>> /\ uses' \subseteq uses
    BY <1>4 DEF HandleCancelPriority
  <2> QED BY <1>2, <2>1 DEF Doubles, SeesFree, SawFree, PastSide, OneServed, SidesInv, At
<1>5. ASSUME NEW k \in Token, NEW d \in Deltas, HandleGrantTokens(p, u, k, d)
      PROVE  /\ OneServed' /\ UNCHANGED <<load, match, uses>>
             /\ \A q \in Request : Doubles(q)' /\ SeesFree(q)
  <2> DEFINE r == [Spend("grant", "lock", u, k) EXCEPT !.delta = d]
  <2>1. r.pc = "lock" /\ r.kind = "grant"
    BY DEF Spend, Blank
  <2>2. Accept(p, r)
    BY <1>5 DEF HandleGrantTokens
  <2> HIDE DEF r
  <2> QED BY <1>3, <2>1, <2>2
<1>6. ASSUME NEW m \in Match, NEW on \in BOOLEAN, HandleMatchDouble(p, u, m, on)
      PROVE  /\ OneServed' /\ UNCHANGED <<load, match, uses>>
             /\ \A q \in Request : Doubles(q)' /\ SeesFree(q)
  <2> DEFINE r == [Spend("double", "lock", u, "double") EXCEPT !.match = m, !.on = on]
  <2>1. r.pc = "lock" /\ r.match = m /\ r.user = u
    BY DEF Spend, Blank
  <2>2. Accept(p, r) /\ u \in Mates(u, m)
    BY <1>6 DEF HandleMatchDouble, Mates
  <2> HIDE DEF r
  <2> QED BY <1>3, <2>1, <2>2
<1>7. CASE HandleActivatePriority(p, u)
  <2> DEFINE r == Spend("activate", "lock", u, "priority")
  <2>1. r.pc = "lock" /\ r.kind = "activate"
    BY DEF Spend, Blank
  <2>2. Accept(p, r)
    BY <1>7 DEF HandleActivatePriority
  <2> HIDE DEF r
  <2> QED BY <1>3, <2>1, <2>2
<1>8. CASE HandleResetRating(p, u)
  <2> DEFINE r == Spend("reset", "rule", u, "reset")
  <2>1. r.pc = "rule" /\ r.kind = "reset"
    BY DEF Spend, Blank
  <2>2. Accept(p, r)
    BY <1>8 DEF HandleResetRating
  <2> HIDE DEF r
  <2> QED BY <1>3, <2>1, <2>2
<1> QED BY <1>1, <1>4, <1>5, <1>6, <1>7, <1>8

\* The matches go on around the tokens; one that is cancelled gives its tokens back.
LEMMA AroundPlaced ==
  ASSUME SidesInv, Around \/ UNCHANGED vars
  PROVE  UNCHANGED <<req, load>> /\ uses' \subseteq uses /\ Placed'
<1>1. UNCHANGED <<req, load>> /\ uses' \subseteq uses
  BY DEF Around, CreateMatch, StartRound, CancelMatch, FinishMatch, StartNewSeason,
         HalfDayPasses, vars
<1>2. match \in [Match -> {"none", "live", "started", "finished"}] /\ Placed
  BY DEF SidesInv, TimesInv, Inv, TypeOK
<1>3. ASSUME NEW m \in Match, CancelMatch(m)
      PROVE  Placed'
  BY <1>2, <1>3 DEF CancelMatch, Placed
<1>4. ASSUME NEW m \in Match, NEW s \in {"live", "started", "finished"},
             match' = [match EXCEPT ![m] = s], uses' = uses
      PROVE  Placed'
  BY <1>2, <1>4 DEF Placed
<1>5. ASSUME match' = match, uses' = uses
      PROVE  Placed'
  BY <1>2, <1>5 DEF Placed
<1>6. ASSUME NEW m \in Match, CreateMatch(m) \/ StartRound(m) \/ \E side \in Team[m] : FinishMatch(m, side)
      PROVE  Placed'
  <2>1. uses' = uses /\ \E s \in {"live", "started", "finished"} : match' = [match EXCEPT ![m] = s]
    BY <1>6 DEF CreateMatch, StartRound, FinishMatch
  <2> QED BY <1>4, <2>1
<1>7. CASE StartNewSeason \/ HalfDayPasses \/ UNCHANGED vars
  BY <1>5, <1>7 DEF StartNewSeason, HalfDayPasses, vars
<1> QED BY <1>1, <1>3, <1>6, <1>7 DEF Around

\* The first state.
LEMMA SidesInit == Init => SidesInv
<1> SUFFICES ASSUME Init
             PROVE  SidesInv
  OBVIOUS
<1>1. TimesInv
  BY TimesInit
<1>2. \A p \in Request : At(p, "idle") /\ Doubles(p) /\ SawFree(p)
  BY DEF Init, Doubles, SawFree, PastSide, At, Blank
<1>3. OneServed /\ Placed /\ OneTokenASide
  BY <1>2 DEF Init, OneServed, Placed, OneTokenASide
<1> QED BY <1>1, <1>2, <1>3 DEF SidesInv

\* The tokens stay placed, whatever comes next.
LEMMA SidesStep ==
  ASSUME SidesInv, [Next]_vars
  PROVE  SidesInv'
<1>1. TimesInv'
  BY TimesStep DEF SidesInv
<1>2. ASSUME NEW p \in Request, Arrives(p)
      PROVE  SidesInv'
  <2>1. /\ OneServed' /\ UNCHANGED <<load, match>> /\ uses' \subseteq uses
        /\ \A q \in Request : Doubles(q)' /\ SeesFree(q)
    BY <1>2, ArrivesFree
  <2>2. Placed'
    BY <2>1 DEF SidesInv, Placed
  <2> QED BY <1>1, <2>1, <2>2, SidesKept
<1>3. ASSUME NEW p \in Request, Proceeds(p)
      PROVE  SidesInv'
  <2>1. /\ OneServed' /\ UNCHANGED <<load, match>>
        /\ \A q \in Request : Doubles(q)' /\ SeesFree(q)
    BY <1>3, OneGoesOn, ProceedsFree
  <2>2. CASE uses' \subseteq uses
    <3>1. Placed'
      BY <2>1, <2>2 DEF SidesInv, Placed
    <3> QED BY <1>1, <2>1, <2>2, <3>1, SidesKept
  <2>3. CASE /\ Use(p) /\ uses' = uses \cup {NewUse(req[p])}
             /\ req[p].match = NoMatch \/ match[req[p].match] # "none"
    BY <1>1, <2>3, SidesUsed
  <2>4. \/ uses' \subseteq uses
        \/ /\ Use(p) /\ uses' = uses \cup {NewUse(req[p])}
           /\ req[p].match = NoMatch \/ match[req[p].match] # "none"
    BY <1>3 DEF Proceeds, LockUser, ReadRule, Check, LookAtMatch, LookAtSide, Grant, Use, TakeOff
  <2> QED BY <2>2, <2>3, <2>4
<1>4. ASSUME Around \/ UNCHANGED vars
      PROVE  SidesInv'
  <2>1. UNCHANGED <<req, load>> /\ uses' \subseteq uses /\ Placed'
    BY <1>4, AroundPlaced
  <2>2. OneServed' /\ \A q \in Request : Doubles(q)' /\ SeesFree(q)
    BY <2>1 DEF SidesInv, OneServed, Doubles, SeesFree, SawFree, PastSide, At
  <2> QED BY <1>1, <2>1, <2>2, SidesKept
<1> QED BY <1>2, <1>3, <1>4 DEF Next

\* Every doubling token that is spent stands on a match that exists: a match that is
\* cancelled takes its tokens with it (token_ledger), whatever request is under way.
THEOREM TokensArePlaced == Spec => []SpentIsPlaced
<1>1. SidesInv => SpentIsPlaced
  BY DEF SidesInv, Placed, SpentIsPlaced
<1> QED BY <1>1, SidesInit, SidesStep, PTL DEF Spec

\* A side has one doubling token (SetDoubleToken) as long as requests come one at a time,
\* for any number of players, sides and matches.
THEOREM SideHasOneToken == Spec => []OneTokenASide
<1>1. SidesInv => OneTokenASide
  BY DEF SidesInv
<1> QED BY <1>1, SidesInit, SidesStep, PTL DEF Spec
===============================================================================
