--------------------------- MODULE SiteMatchProofs ---------------------------
(***************************************************************************)
(* Theorems about the matches of the site, for any number of them.  The    *)
(* invariant is a list of what may be left of a request (Left) and what    *)
(* the request then knows of the tables (Knows): with one request at a     *)
(* time, whatever a statement relied on when it was read is still so when  *)
(* the next one writes.                                                    *)
(***************************************************************************)
EXTENDS SiteMatch, TLAPS, FiniteSetTheorems, SequenceTheorems

-------------------------------------------------------------------------------
(* Short sequences. *)

LEMMA Tails1 == ASSUME NEW a PROVE Tail(<<a>>) = <<>> /\ Head(<<a>>) = a /\ <<a>> # <<>>
  OBVIOUS

LEMMA Tails2 ==
  ASSUME NEW a, NEW b
  PROVE  Tail(<<a, b>>) = <<b>> /\ Head(<<a, b>>) = a /\ <<a, b>> # <<>>
  OBVIOUS

LEMMA Tails3 ==
  ASSUME NEW a, NEW b, NEW c
  PROVE  Tail(<<a, b, c>>) = <<b, c>> /\ Head(<<a, b, c>>) = a /\ <<a, b, c>> # <<>>
  OBVIOUS

LEMMA Tails4 ==
  ASSUME NEW a, NEW b, NEW c, NEW d
  PROVE  /\ Tail(<<a, b, c, d>>) = <<b, c, d>> /\ Head(<<a, b, c, d>>) = a
         /\ <<a, b, c, d>> # <<>>
  OBVIOUS

LEMMA Joins ==
  ASSUME NEW a, NEW b, NEW c
  PROVE  /\ <<a>> \o <<b, c>> = <<a, b, c>> /\ <<a>> \o <<b>> = <<a, b>>
         /\ <<>> \o <<a>> = <<a>> /\ <<a>> \o <<>> = <<a>>
<1> DEFINE S == {a, b, c}
<1>1. /\ <<>> \in Seq(S) /\ <<a>> \in Seq(S) /\ <<b>> \in Seq(S) /\ <<b, c>> \in Seq(S)
      /\ <<a, b>> \in Seq(S) /\ <<a, b, c>> \in Seq(S)
  OBVIOUS
<1>2. <<a>> \o <<b, c>> = <<a, b, c>>
  <2>1. <<a>> \o <<b, c>> \in Seq(S) /\ Len(<<a>> \o <<b, c>>) = 3
    BY <1>1
  <2>2. \A i \in 1..3 : (<<a>> \o <<b, c>>)[i] = <<a, b, c>>[i]
    BY <1>1
  <2> QED
    BY ONLY <1>1, <2>1, <2>2, SeqEqual
<1>3. <<a>> \o <<b>> = <<a, b>>
  <2>1. <<a>> \o <<b>> \in Seq(S) /\ Len(<<a>> \o <<b>>) = 2
    BY <1>1
  <2>2. \A i \in 1..2 : (<<a>> \o <<b>>)[i] = <<a, b>>[i]
    BY <1>1
  <2> QED
    BY ONLY <1>1, <2>1, <2>2, SeqEqual
<1>4. <<>> \o <<a>> = <<a>> /\ <<a>> \o <<>> = <<a>>
  BY <1>1, ConcatEmptySeq
<1> QED
  BY <1>2, <1>3, <1>4

-------------------------------------------------------------------------------
(* What may be left of a request.                                          *)

AtCurrent(t) ==
  \E m \in Match :
    \/ t = <<St("current", m, NoUser, 0), St("start", m, NoUser, 0)>>
    \/ \E a, b \in User : t = <<St("current", NoMatch, NoUser, 0), St("insert", m, <<a, b>>, "live"),
                                Place(m, a), Place(m, b)>>

AtInsert(t) ==
  \E m \in Match :
    \/ t = <<St("insert", m, Nobody, "upcoming")>>
    \/ \E a, b \in User : \E x \in {"upcoming", "live"} :
         t = <<St("insert", m, <<a, b>>, x), Place(m, a), Place(m, b)>>

AtPlace(t) ==
  \E m \in Match, a \in User :
    t = <<Place(m, a)>> \/ \E b \in User : t = <<Place(m, a), Place(m, b)>>

AtGuard(t, kinds) ==
  \E m \in Match :
    \/ t = <<St("guard", m, NoUser, 0), St("current", m, NoUser, 0), St("start", m, NoUser, 0)>>
    \/ /\ "round" \in kinds
       /\ t = <<St("guard", m, NoUser, 0), St("choose", m, NoUser, 0), St("round", m, NoUser, 0)>>
    \/ t = <<St("guard", m, NoUser, 0), St("set", m, NoUser, "finished")>>
    \/ t = <<St("guard", m, NoUser, 0), St("return", m, NoUser, 0), St("delete", m, NoUser, 0)>>

AtChoose(t, kinds) ==
  /\ "round" \in kinds
  /\ \E m \in Match : t = <<St("choose", m, NoUser, 0), St("round", m, NoUser, 0)>>

AtRound(t, kinds) == "round" \in kinds /\ \E m \in Match : t = <<St("round", m, NoUser, 0)>>

AtStart(t) == \E m \in Match : t = <<St("start", m, NoUser, 0)>>

AtDemote(t) == \E m \in Match : t = <<St("demote", m, NoUser, 0), St("set", m, NoUser, "live")>>

AtSet(t) == \E m \in Match : \E x \in Status \ {"none"} : t = <<St("set", m, NoUser, x)>>

AtReturn(t) == \E m \in Match : t = <<St("return", m, NoUser, 0), St("delete", m, NoUser, 0)>>

AtDelete(t) == \E m \in Match : t = <<St("delete", m, NoUser, 0)>>

AtOpen(t, kinds) ==
  \E m \in Match :
    \/ \E u \in User : t = <<St("open", m, NoUser, 0), St("add", m, u, 0), Place(m, u)>>
    \/ /\ "update" \in kinds
       /\ \E u \in User, i \in Seat : t = <<St("open", m, NoUser, 0), St("change", m, u, i)>>
    \/ \E i \in Seat : t = <<St("open", m, NoUser, 0), St("who", m, NoUser, i), St("remove", m, NoUser, i)>>

AtAdd(t) == \E m \in Match, u \in User : t = <<St("add", m, u, 0), Place(m, u)>>

AtChange(t, kinds) ==
  "update" \in kinds /\ \E m \in Match, u \in User, i \in Seat : t = <<St("change", m, u, i)>>

AtWho(t) == \E m \in Match, i \in Seat : t = <<St("who", m, NoUser, i), St("remove", m, NoUser, i)>>

AtRemove(t) ==
  \E m \in Match, i \in Seat :
    \/ t = <<St("remove", m, NoUser, i)>>
    \/ \E u \in User : t = <<St("remove", m, NoUser, i), St("revert", m, u, 0)>>

AtRevert(t) == \E m \in Match, u \in User : t = <<St("revert", m, u, 0)>>

AtApply(t) == \E u \in User : t = <<St("apply", NoMatch, u, 0)>>

AtDecide(t) == \E u \in User : \E x \in {"declined", "pending"} : t = <<St("decide", NoMatch, u, x)>>

Left(t, kinds) ==
  \/ t = <<>>
  \/ Head(t).op = "current" /\ AtCurrent(t)
  \/ Head(t).op = "insert"  /\ AtInsert(t)
  \/ Head(t).op = "place"   /\ AtPlace(t)
  \/ Head(t).op = "guard"   /\ AtGuard(t, kinds)
  \/ Head(t).op = "choose"  /\ AtChoose(t, kinds)
  \/ Head(t).op = "round"   /\ AtRound(t, kinds)
  \/ Head(t).op = "start"   /\ AtStart(t)
  \/ Head(t).op = "demote"  /\ AtDemote(t)
  \/ Head(t).op = "set"     /\ AtSet(t)
  \/ Head(t).op = "return"  /\ AtReturn(t)
  \/ Head(t).op = "delete"  /\ AtDelete(t)
  \/ Head(t).op = "open"    /\ AtOpen(t, kinds)
  \/ Head(t).op = "add"     /\ AtAdd(t)
  \/ Head(t).op = "change"  /\ AtChange(t, kinds)
  \/ Head(t).op = "who"     /\ AtWho(t)
  \/ Head(t).op = "remove"  /\ AtRemove(t)
  \/ Head(t).op = "revert"  /\ AtRevert(t)
  \/ Head(t).op = "apply"   /\ AtApply(t)
  \/ Head(t).op = "decide"  /\ AtDecide(t)

-------------------------------------------------------------------------------
(* What a request that is alone knows when it writes.                      *)

Accepted(u) == reg[u].status = "accepted"

Knows(p) ==
  LET t == req[p].todo IN
  /\ \A i \in DOMAIN t : t[i].op = "insert" => ~Exists(t[i].m)
  /\ Doing(p, "insert") /\ It(p).x = "live" => Live = {}
  /\ Doing(p, "start") => Live \subseteq {It(p).m}
  /\ Doing(p, "set") /\ It(p).x = "live" => Live \subseteq {It(p).m}
  /\ \A op \in {"add", "change", "who", "remove"} : Doing(p, op) => status[It(p).m] # "finished"
  /\ Doing(p, "place") => \A i \in DOMAIN t : t[i].u \in PlayersOf(t[i].m)
  /\ Doing(p, "remove") => parts[It(p).m][It(p).x] = IF Len(t) = 1 THEN NoUser ELSE t[2].u
  /\ Doing(p, "delete") => \A u \in User : Accepted(u) /\ reg[u].match = It(p).m => u \in req[p].held

\* The application that a removal is about to send back.
Reverting(u) == \E p \in Request : req[p].todo = <<St("revert", reg[u].match, u, 0)>>

\* The rows of requests.
Served ==
  /\ load \in Loads
  /\ req = [p \in Request |-> req[p]]
  /\ \A p \in Request : req[p] = [todo |-> req[p].todo, held |-> req[p].held]
  /\ \A p \in Request : req[p].held \subseteq User
  /\ \A p \in Request : Left(req[p].todo, load.kinds)

Alone == load.at = 1 => \A p, o \in Request : ~Idle(p) /\ ~Idle(o) => p = o

Known == load.at = 1 => \A p \in Request : Knows(p)

OneOnAir == Promised => \A m, n \in Live : m = n

AcceptedStand ==
  OneByOne /\ "update" \notin load.kinds =>
    \A u \in User : Accepted(u) =>
      reg[u].match \in Match /\ (u \in PlayersOf(reg[u].match) \/ Reverting(u))

IInv == TypeOK /\ Served /\ Alone /\ Known /\ OneOnAir /\ AcceptedStand

-------------------------------------------------------------------------------
(* A request goes on.                                                      *)

LEMMA LoadIs ==
  ASSUME load \in Loads
  PROVE  /\ load.at \in Nat /\ load.users \subseteq User /\ load.gone \in BOOLEAN
         /\ load.kinds \subseteq STRING
  BY SiteAssumption

LEMMA RowExcept ==
  ASSUME NEW r, NEW a, NEW h, NEW t, r = [todo |-> a, held |-> h]
  PROVE  [r EXCEPT !.todo = t] = [todo |-> t, held |-> h]
  OBVIOUS

LEMMA GoesOn ==
  ASSUME Served, NEW p \in Request, GoOn(p)
  PROVE  req' = [req EXCEPT ![p] = [todo |-> Tail(req[p].todo), held |-> req[p].held]]
<1> DEFINE t == Tail(req[p].todo)
<1>1. req[p] = [todo |-> req[p].todo, held |-> req[p].held]
  BY DEF Served
<1>2. req' = [req EXCEPT ![p] = [req[p] EXCEPT !.todo = t]]
  BY DEF GoOn
<1>3. [req[p] EXCEPT !.todo = t] = [todo |-> t, held |-> req[p].held]
  <2> HIDE DEF t
  <2> QED
    BY <1>1, RowExcept
<1> QED
  BY <1>2, <1>3

LEMMA Stops ==
  ASSUME Served, NEW p \in Request, Stop(p)
  PROVE  req' = [req EXCEPT ![p] = [todo |-> <<>>, held |-> {}]]
  BY DEF Served, Stop, Blank

\* The row of one request changes.
LEMMA RowOf ==
  ASSUME Served, load' = load, NEW p \in Request, NEW t, NEW h \in SUBSET User,
         Left(t, load.kinds), req' = [req EXCEPT ![p] = [todo |-> t, held |-> h]]
  PROVE  /\ Served' /\ req'[p].todo = t /\ req'[p].held = h
         /\ \A o \in Request \ {p} : req'[o] = req[o]
<1>1. /\ req'[p] = [todo |-> t, held |-> h]
      /\ \A o \in Request \ {p} : req'[o] = req[o]
      /\ req' = [o \in Request |-> req'[o]]
  BY DEF Served
<1>2. \A o \in Request : Left(req'[o].todo, load'.kinds)
  BY <1>1 DEF Served
<1>3. \A o \in Request : req'[o] = [todo |-> req'[o].todo, held |-> req'[o].held]
  BY <1>1 DEF Served
<1>4. \A o \in Request : req'[o].held \subseteq User
  BY <1>1 DEF Served
<1> QED
  BY <1>1, <1>2, <1>3, <1>4 DEF Served

LEMMA IdleKnows == ASSUME NEW p, Idle(p)' PROVE Knows(p)'
  BY DEF Idle, Knows, Doing

\* A request that is alone goes on: it alone has to know.
LEMMA Proceeding ==
  ASSUME IInv, load' = load, NEW p \in Request, ~Idle(p), NEW t, NEW h \in SUBSET User,
         Left(t, load.kinds), req' = [req EXCEPT ![p] = [todo |-> t, held |-> h]],
         load.at = 1 => Knows(p)'
  PROVE  /\ Served' /\ Alone' /\ Known' /\ req'[p].todo = t /\ req'[p].held = h
         /\ \A o \in Request \ {p} : req'[o] = req[o]
<1>1. /\ Served' /\ req'[p].todo = t /\ req'[p].held = h
      /\ \A o \in Request \ {p} : req'[o] = req[o]
  BY RowOf DEF IInv
<1>2. load.at = 1 => \A o \in Request \ {p} : Idle(o) /\ Idle(o)'
  BY <1>1 DEF IInv, Alone, Idle
<1>3. Alone'
  BY <1>2 DEF Alone
<1>4. load.at = 1 => \A o \in Request \ {p} : Knows(o)'
  <2> SUFFICES ASSUME load.at = 1, NEW o \in Request \ {p} PROVE Knows(o)'
    OBVIOUS
  <2>1. Idle(o)'
    BY <1>2
  <2> QED
    BY <2>1, IdleKnows
<1>5. Known'
  BY <1>4 DEF Known
<1> QED
  BY <1>1, <1>3, <1>5

\* With one request at a time, nobody is served when another comes.
LEMMA Accepting ==
  ASSUME IInv, NEW p \in Request, NEW kind, NEW t, Accept(p, kind, t), t # <<>>,
         kind \in load.kinds => Left(t, load.kinds), load.at = 1 => Knows(p)'
  PROVE  /\ kind \in load.kinds
         /\ Served' /\ Alone' /\ Known' /\ AcceptedStand'
         /\ UNCHANGED <<load, status, parts, reg>>
<1>1. /\ kind \in load.kinds /\ Idle(p) /\ Cardinality({o \in Request : ~Idle(o)}) < load.at
      /\ req' = [req EXCEPT ![p].todo = t] /\ UNCHANGED <<load, status, parts, reg>>
  BY DEF Accept
<1>2. load.at = 1 => \A o \in Request : Idle(o)
  <2> SUFFICES ASSUME load.at = 1 PROVE {o \in Request : ~Idle(o)} = {}
    OBVIOUS
  <2> DEFINE busy == {o \in Request : ~Idle(o)}
  <2>1. IsFiniteSet(busy)
    BY FS_Subset, SiteAssumption
  <2>2. Cardinality(busy) \in Nat
    BY <2>1, FS_CardinalityType
  <2>3. Cardinality(busy) = 0
    BY <1>1, <2>2
  <2> QED
    BY <2>1, <2>3, FS_EmptySet
<1>3. req' = [req EXCEPT ![p] = [todo |-> t, held |-> req[p].held]]
  <2>1. req[p] = [todo |-> req[p].todo, held |-> req[p].held]
    BY DEF IInv, Served
  <2>2. [req[p] EXCEPT !.todo = t] = [todo |-> t, held |-> req[p].held]
    BY <2>1, RowExcept
  <2> QED
    BY <1>1, <2>2
<1>4. req[p].held \in SUBSET User
  BY DEF IInv, Served
<1>5. /\ Served' /\ req'[p].todo = t
      /\ \A o \in Request \ {p} : req'[o] = req[o]
  BY <1>1, <1>3, <1>4, RowOf DEF IInv
<1>6. load.at = 1 => \A o \in Request \ {p} : Idle(o)'
  BY <1>2, <1>5 DEF Idle
<1>7. Alone'
  BY <1>1, <1>6 DEF Alone
<1>8. load.at = 1 => \A o \in Request \ {p} : Knows(o)'
  <2> SUFFICES ASSUME load.at = 1, NEW o \in Request \ {p} PROVE Knows(o)'
    OBVIOUS
  <2>1. Idle(o)'
    BY <1>6
  <2> QED
    BY <2>1, IdleKnows
<1>9. Known'
  BY <1>1, <1>8 DEF Known
<1>10. load.at = 1 => \A u \in User : ~Reverting(u)
  BY <1>2 DEF Reverting, Idle
<1>11. AcceptedStand'
  BY <1>1, <1>10 DEF IInv, AcceptedStand, OneByOne, Accepted, PlayersOf
<1> QED
  BY <1>1, <1>5, <1>7, <1>9, <1>11

-------------------------------------------------------------------------------
(* What a step keeps.                                                      *)

AirStep == [Promise!Next]_(Promise!Vars)

FinishedStep ==
  load.at = 1 => \A m \in Match :
    status[m] = "finished" /\ status'[m] = "finished" => parts'[m] = parts[m]

Kept == IInv' /\ AirStep /\ FinishedStep

LEMMA AirStays ==
  ASSUME OneOnAir, load' = load, status' = status
  PROVE  OneOnAir' /\ AirStep
BY DEF OneOnAir, AirStep, Promised, OneByOne, Live, Promise!Vars

\* One match changes its status.
LEMMA StatusSteps ==
  ASSUME TypeOK, OneOnAir, load' = load, NEW m \in Match, NEW x \in Status,
         status' = [status EXCEPT ![m] = x],
         Promised /\ x = "live" => Live \subseteq {m},
         x = "finished" => Exists(m)
  PROVE  OneOnAir' /\ AirStep
<1>1. CASE ~Promised
  BY <1>1 DEF OneOnAir, AirStep, Promised, OneByOne, Promise!Vars
<1>2. CASE Promised
  <2> DEFINE plan == {n \in Match : Promised /\ status[n] = "upcoming"}
             air  == {n \in Live : Promised}
             over == {n \in Match : Promised /\ status[n] = "finished"}
  <2>1. status \in [Match -> Status] /\ Promised'
    BY <1>2 DEF TypeOK, Promised, OneByOne
  <2>2. /\ plan = {n \in Match : status[n] = "upcoming"} /\ plan' = {n \in Match : status'[n] = "upcoming"}
        /\ air = {n \in Match : status[n] = "live"} /\ air' = {n \in Match : status'[n] = "live"}
        /\ over = {n \in Match : status[n] = "finished"} /\ over' = {n \in Match : status'[n] = "finished"}
    BY <1>2, <2>1 DEF Live
  <2>3. /\ status'[m] = x
        /\ \A n \in Match \ {m} : status'[n] = status[n]
    BY <2>1
  <2>4. \A n \in air, k \in air : n = k
    BY <1>2 DEF OneOnAir
  <2>5. x = "live" => air \subseteq {m}
    BY <1>2
  <2>6. x = "finished" => status[m] # "none"
    BY DEF Exists
  <2> HIDE DEF plan, air, over
  <2>7. OneOnAir'
    <3>1. \A n \in air', k \in air' : n = k
      BY <2>2, <2>3, <2>4, <2>5
    <3>2. Live' = air'
      BY <2>2 DEF Live
    <3> QED
      BY <3>1, <3>2 DEF OneOnAir
  <2>8. status[m] = x => UNCHANGED <<plan, air, over>>
    BY <2>2, <2>3
  <2>9. ASSUME status[m] # x
        PROVE  \/ air' = {} /\ plan' = plan \cup air /\ over' = over
               \/ \E n \in Match :
                    \/ /\ n \in (Match \ (plan \cup over \cup air)) \cup over
                       /\ plan' = plan \cup {n} /\ over' = over \ {n} /\ air' = air
                    \/ /\ air = {} /\ air' = {n} /\ plan' = plan \ {n} /\ over' = over \ {n}
                    \/ /\ n \in plan \cup air
                       /\ over' = over \cup {n} /\ plan' = plan \ {n} /\ air' = air \ {n}
                    \/ /\ n \in plan \cup over \cup air
                       /\ plan' = plan \ {n} /\ over' = over \ {n} /\ air' = air \ {n}
    <3>1. CASE x = "live"
      <4>1. air = {} /\ air' = {m} /\ plan' = plan \ {m} /\ over' = over \ {m}
        BY <2>2, <2>3, <2>5, <2>9, <3>1
      <4> QED
        BY <4>1
    <3>2. CASE x = "upcoming" /\ status[m] = "live"
      <4>1. air = {m}
        BY <2>2, <2>4, <3>2
      <4>2. air' = {} /\ plan' = plan \cup air /\ over' = over
        BY <2>2, <2>3, <3>2, <4>1
      <4> QED
        BY <4>2
    <3>3. CASE x = "upcoming" /\ status[m] # "live"
      <4>1. m \in (Match \ (plan \cup over \cup air)) \cup over
        BY <2>1, <2>2, <2>9, <3>3
      <4>2. plan' = plan \cup {m} /\ over' = over \ {m} /\ air' = air
        BY <2>2, <2>3, <3>3
      <4> QED
        BY <4>1, <4>2
    <3>4. CASE x = "finished"
      <4>1. m \in plan \cup air
        BY <2>1, <2>2, <2>6, <2>9, <3>4 DEF Status
      <4>2. over' = over \cup {m} /\ plan' = plan \ {m} /\ air' = air \ {m}
        BY <2>2, <2>3, <3>4
      <4> QED
        BY <4>1, <4>2
    <3>5. CASE x = "none"
      <4>1. m \in plan \cup over \cup air
        BY <2>1, <2>2, <2>9, <3>5 DEF Status
      <4>2. plan' = plan \ {m} /\ over' = over \ {m} /\ air' = air \ {m}
        BY <2>2, <2>3, <3>5
      <4> QED
        BY <4>1, <4>2
    <3> QED
      BY <3>1, <3>2, <3>3, <3>4, <3>5 DEF Status
  <2>10. [Promise!Next]_(<<plan, air, over>>)
    <3>1. CASE status[m] = x
      BY <2>8, <3>1
    <3>2. CASE status[m] # x
      BY <2>9, <3>2 DEF plan, air, over, Promise!Next, Promise!PutOff, Promise!Book, Promise!Begin,
         Promise!Close, Promise!CallOff, Promise!New
    <3> QED
      BY <3>1, <3>2
  <2>11. AirStep
    BY <2>10 DEF plan, air, over, AirStep, Promise!Vars
  <2> QED
    BY <2>7, <2>11
<1> QED
  BY <1>1, <1>2

-------------------------------------------------------------------------------
(* The requests come.                                                      *)

LEMMA TodoIs ==
  ASSUME IInv, NEW p \in Request, NEW kind, NEW t, Accept(p, kind, t)
  PROVE  req'[p].todo = t /\ UNCHANGED <<load, status, parts, reg>>
<1>1. req' = [req EXCEPT ![p] = [req[p] EXCEPT !.todo = t]] /\ UNCHANGED <<load, status, parts, reg>>
  BY DEF Accept
<1>2. [req[p] EXCEPT !.todo = t] = [todo |-> t, held |-> req[p].held]
  BY RowExcept DEF IInv, Served
<1>3. req'[p] = [todo |-> t, held |-> req[p].held]
  BY <1>1, <1>2 DEF IInv, Served
<1> QED
  BY <1>1, <1>3

LEMMA Comes ==
  ASSUME IInv, NEW p \in Request, NEW kind, NEW t, Accept(p, kind, t), t # <<>>,
         kind \in load.kinds => Left(t, load.kinds), load.at = 1 => Knows(p)'
  PROVE  Kept
<1>1. Served' /\ Alone' /\ Known' /\ AcceptedStand' /\ UNCHANGED <<load, status, parts, reg>>
  BY Accepting
<1>2. TypeOK'
  BY <1>1 DEF IInv, TypeOK, Exists
<1>3. OneOnAir' /\ AirStep
  BY <1>1, AirStays DEF IInv
<1>4. FinishedStep
  BY <1>1 DEF FinishedStep
<1> QED
  BY <1>1, <1>2, <1>3, <1>4 DEF Kept, IInv

LEMMA ComesCreateMatch ==
  ASSUME IInv, NEW p \in Request, NEW m \in Match, NEW a \in User, NEW b \in User,
         HandleCreateMatch(p, m, a, b)
  PROVE  Kept
<1> DEFINE t == <<St("current", NoMatch, NoUser, 0), St("insert", m, <<a, b>>, "live"), Place(m, a), Place(m, b)>>
<1>1. Accept(p, "create", t)
  BY DEF HandleCreateMatch
<1>2. t # <<>> /\ ("create" \in load.kinds => Left(t, load.kinds))
  BY Tails4 DEF Left, AtCurrent, St, Place, HandleCreateMatch, Fresh, Exists
<1>3. req'[p].todo = t /\ status' = status
  BY <1>1, TodoIs
<1>4. Knows(p)'
  BY <1>3, Tails4 DEF Knows, Doing, It, Idle, St, Place, HandleCreateMatch, Fresh, Exists
<1> QED
  <2> HIDE DEF t
  <2> QED
    BY <1>1, <1>2, <1>4, Comes

LEMMA ComesCreateShow ==
  ASSUME IInv, NEW p \in Request, NEW m \in Match, NEW a \in User, NEW b \in User,
         HandleCreateShow(p, m, a, b)
  PROVE  Kept
<1> DEFINE t == <<St("insert", m, <<a, b>>, "upcoming"), Place(m, a), Place(m, b)>>
<1>1. Accept(p, "show", t)
  BY DEF HandleCreateShow
<1>2. t # <<>> /\ ("show" \in load.kinds => Left(t, load.kinds))
  BY Tails3 DEF Left, AtInsert, St, Place, HandleCreateShow, Fresh, Exists
<1>3. req'[p].todo = t /\ status' = status
  BY <1>1, TodoIs
<1>4. Knows(p)'
  BY <1>3, Tails3 DEF Knows, Doing, It, Idle, St, Place, HandleCreateShow, Fresh, Exists
<1> QED
  <2> HIDE DEF t
  <2> QED
    BY <1>1, <1>2, <1>4, Comes

LEMMA ComesCreateTournament ==
  ASSUME IInv, NEW p \in Request, NEW m \in Match,
         HandleCreateTournament(p, m)
  PROVE  Kept
<1> DEFINE t == <<St("insert", m, Nobody, "upcoming")>>
<1>1. Accept(p, "tournament", t)
  BY DEF HandleCreateTournament
<1>2. t # <<>> /\ ("tournament" \in load.kinds => Left(t, load.kinds))
  BY Tails1 DEF Left, AtInsert, St, HandleCreateTournament, Fresh, Exists
<1>3. req'[p].todo = t /\ status' = status
  BY <1>1, TodoIs
<1>4. Knows(p)'
  BY <1>3, Tails1 DEF Knows, Doing, It, Idle, St, HandleCreateTournament, Fresh, Exists
<1> QED
  <2> HIDE DEF t
  <2> QED
    BY <1>1, <1>2, <1>4, Comes

LEMMA ComesStartMatch ==
  ASSUME IInv, NEW p \in Request, NEW m \in Match,
         HandleStartMatch(p, m)
  PROVE  Kept
<1> DEFINE t == <<St("guard", m, NoUser, 0), St("current", m, NoUser, 0), St("start", m, NoUser, 0)>>
<1>1. Accept(p, "start", t)
  BY DEF HandleStartMatch
<1>2. t # <<>> /\ ("start" \in load.kinds => Left(t, load.kinds))
  BY Tails3 DEF Left, AtGuard, St
<1>3. req'[p].todo = t /\ status' = status
  BY <1>1, TodoIs
<1>4. Knows(p)'
  BY <1>3, Tails3 DEF Knows, Doing, It, Idle, St
<1> QED
  <2> HIDE DEF t
  <2> QED
    BY <1>1, <1>2, <1>4, Comes

LEMMA ComesNextRound ==
  ASSUME IInv, NEW p \in Request, NEW m \in Match,
         HandleNextRound(p, m)
  PROVE  Kept
<1> DEFINE t == <<St("guard", m, NoUser, 0), St("choose", m, NoUser, 0), St("round", m, NoUser, 0)>>
<1>1. Accept(p, "round", t)
  BY DEF HandleNextRound
<1>2. t # <<>> /\ ("round" \in load.kinds => Left(t, load.kinds))
  BY Tails3 DEF Left, AtGuard, St
<1>3. req'[p].todo = t /\ status' = status
  BY <1>1, TodoIs
<1>4. Knows(p)'
  BY <1>3, Tails3 DEF Knows, Doing, It, Idle, St
<1> QED
  <2> HIDE DEF t
  <2> QED
    BY <1>1, <1>2, <1>4, Comes

LEMMA ComesFinishMatch ==
  ASSUME IInv, NEW p \in Request, NEW m \in Match,
         HandleFinishMatch(p, m)
  PROVE  Kept
<1> DEFINE t == <<St("guard", m, NoUser, 0), St("set", m, NoUser, "finished")>>
<1>1. Accept(p, "finish", t)
  BY DEF HandleFinishMatch
<1>2. t # <<>> /\ ("finish" \in load.kinds => Left(t, load.kinds))
  BY Tails2 DEF Left, AtGuard, St
<1>3. req'[p].todo = t /\ status' = status
  BY <1>1, TodoIs
<1>4. Knows(p)'
  BY <1>3, Tails2 DEF Knows, Doing, It, Idle, St
<1> QED
  <2> HIDE DEF t
  <2> QED
    BY <1>1, <1>2, <1>4, Comes

LEMMA ComesCancelMatch ==
  ASSUME IInv, NEW p \in Request, NEW m \in Match,
         HandleCancelMatch(p, m)
  PROVE  Kept
<1> DEFINE t == <<St("guard", m, NoUser, 0), St("return", m, NoUser, 0), St("delete", m, NoUser, 0)>>
<1>1. Accept(p, "cancel", t)
  BY Joins DEF HandleCancelMatch, Deletion
<1>2. t # <<>> /\ ("cancel" \in load.kinds => Left(t, load.kinds))
  BY Tails3 DEF Left, AtGuard, St
<1>3. req'[p].todo = t /\ status' = status
  BY <1>1, TodoIs
<1>4. Knows(p)'
  BY <1>3, Tails3 DEF Knows, Doing, It, Idle, St
<1> QED
  <2> HIDE DEF t
  <2> QED
    BY <1>1, <1>2, <1>4, Comes

LEMMA ComesDelete ==
  ASSUME IInv, NEW p \in Request, NEW m \in Match,
         HandleDeleteTournament(p, m)
  PROVE  Kept
<1> DEFINE t == <<St("return", m, NoUser, 0), St("delete", m, NoUser, 0)>>
<1>1. Accept(p, "delete", t)
  BY DEF HandleDeleteTournament, Deletion
<1>2. t # <<>> /\ ("delete" \in load.kinds => Left(t, load.kinds))
  BY Tails2 DEF Left, AtReturn, St
<1>3. req'[p].todo = t /\ status' = status
  BY <1>1, TodoIs
<1>4. Knows(p)'
  BY <1>3, Tails2 DEF Knows, Doing, It, Idle, St
<1> QED
  <2> HIDE DEF t
  <2> QED
    BY <1>1, <1>2, <1>4, Comes

LEMMA ComesAdd ==
  ASSUME IInv, NEW p \in Request, NEW m \in Match, NEW u \in User,
         HandleAddParticipant(p, m, u)
  PROVE  Kept
<1> DEFINE t == <<St("open", m, NoUser, 0), St("add", m, u, 0), Place(m, u)>>
<1>1. Accept(p, "add", t)
  BY DEF HandleAddParticipant
<1>2. t # <<>> /\ ("add" \in load.kinds => Left(t, load.kinds))
  BY Tails3 DEF Left, AtOpen, St, Place
<1>3. req'[p].todo = t /\ status' = status
  BY <1>1, TodoIs
<1>4. Knows(p)'
  BY <1>3, Tails3 DEF Knows, Doing, It, Idle, St, Place
<1> QED
  <2> HIDE DEF t
  <2> QED
    BY <1>1, <1>2, <1>4, Comes

LEMMA ComesUpdate ==
  ASSUME IInv, NEW p \in Request, NEW m \in Match, NEW i \in Seat, NEW u \in User,
         HandleUpdateParticipant(p, m, i, u)
  PROVE  Kept
<1> DEFINE t == <<St("open", m, NoUser, 0), St("change", m, u, i)>>
<1>1. Accept(p, "update", t)
  BY DEF HandleUpdateParticipant
<1>2. t # <<>> /\ ("update" \in load.kinds => Left(t, load.kinds))
  BY Tails2 DEF Left, AtOpen, St
<1>3. req'[p].todo = t /\ status' = status
  BY <1>1, TodoIs
<1>4. Knows(p)'
  BY <1>3, Tails2 DEF Knows, Doing, It, Idle, St
<1> QED
  <2> HIDE DEF t
  <2> QED
    BY <1>1, <1>2, <1>4, Comes

LEMMA ComesRemove ==
  ASSUME IInv, NEW p \in Request, NEW m \in Match, NEW i \in Seat,
         HandleRemoveParticipant(p, m, i)
  PROVE  Kept
<1> DEFINE t == <<St("open", m, NoUser, 0), St("who", m, NoUser, i), St("remove", m, NoUser, i)>>
<1>1. Accept(p, "remove", t)
  BY DEF HandleRemoveParticipant
<1>2. t # <<>> /\ ("remove" \in load.kinds => Left(t, load.kinds))
  BY Tails3 DEF Left, AtOpen, St
<1>3. req'[p].todo = t /\ status' = status
  BY <1>1, TodoIs
<1>4. Knows(p)'
  BY <1>3, Tails3 DEF Knows, Doing, It, Idle, St
<1> QED
  <2> HIDE DEF t
  <2> QED
    BY <1>1, <1>2, <1>4, Comes

LEMMA ComesRegister ==
  ASSUME IInv, NEW p \in Request, NEW u \in User,
         HandleRegister(p, u)
  PROVE  Kept
<1> DEFINE t == <<St("apply", NoMatch, u, 0)>>
<1>1. Accept(p, "register", t)
  BY DEF HandleRegister
<1>2. t # <<>> /\ ("register" \in load.kinds => Left(t, load.kinds))
  BY Tails1 DEF Left, AtApply, St
<1>3. req'[p].todo = t /\ status' = status
  BY <1>1, TodoIs
<1>4. Knows(p)'
  BY <1>3, Tails1 DEF Knows, Doing, It, Idle, St
<1> QED
  <2> HIDE DEF t
  <2> QED
    BY <1>1, <1>2, <1>4, Comes

LEMMA ComesDecide ==
  ASSUME IInv, NEW p \in Request, NEW u \in User, NEW to \in {"declined", "pending"},
         HandleDecideRegistration(p, u, to)
  PROVE  Kept
<1> DEFINE t == <<St("decide", NoMatch, u, to)>>
<1>1. Accept(p, "decide", t)
  BY DEF HandleDecideRegistration
<1>2. t # <<>> /\ ("decide" \in load.kinds => Left(t, load.kinds))
  BY Tails1 DEF Left, AtDecide, St
<1>3. req'[p].todo = t /\ status' = status
  BY <1>1, TodoIs
<1>4. Knows(p)'
  BY <1>3, Tails1 DEF Knows, Doing, It, Idle, St
<1> QED
  <2> HIDE DEF t
  <2> QED
    BY <1>1, <1>2, <1>4, Comes

LEMMA ComesPatch ==
  ASSUME IInv, NEW p \in Request, NEW m \in Match, NEW to \in Status \ {"none"},
         HandleUpdateTournament(p, m, to)
  PROVE  Kept
<1>1. CASE to = "live"
  <2> DEFINE t == <<St("demote", m, NoUser, 0), St("set", m, NoUser, "live")>>
  <2>1. Accept(p, "patch", t)
    BY <1>1, Joins DEF HandleUpdateTournament
  <2>2. t # <<>> /\ Left(t, load.kinds)
    BY Tails2 DEF Left, AtDemote, St
  <2>3. req'[p].todo = t /\ status' = status
    BY <2>1, TodoIs
  <2>4. Knows(p)'
    BY <2>3, Tails2 DEF Knows, Doing, It, Idle, St
  <2> QED
    <3> HIDE DEF t
    <3> QED
      BY <2>1, <2>2, <2>4, Comes
<1>2. CASE to # "live"
  <2> DEFINE t == <<St("set", m, NoUser, to)>>
  <2>1. Accept(p, "patch", t)
    BY <1>2, Joins DEF HandleUpdateTournament
  <2>2. t # <<>> /\ Left(t, load.kinds)
    BY Tails1 DEF Left, AtSet, St
  <2>3. req'[p].todo = t /\ status' = status
    BY <2>1, TodoIs
  <2>4. Knows(p)'
    BY <1>2, <2>3, Tails1 DEF Knows, Doing, It, Idle, St
  <2> QED
    <3> HIDE DEF t
    <3> QED
      BY <2>1, <2>2, <2>4, Comes
<1> QED
  BY <1>1, <1>2

LEMMA ArrivesKeeps ==
  ASSUME IInv, NEW p \in Request, Arrives(p)
  PROVE  Kept
<1>1. \A u \in load.users : u \in User
  BY LoadIs DEF IInv, Served
<1>2. ASSUME NEW m \in Match,
             \/ HandleStartMatch(p, m) \/ HandleNextRound(p, m) \/ HandleFinishMatch(p, m)
             \/ HandleCancelMatch(p, m) \/ HandleDeleteTournament(p, m) \/ HandleCreateTournament(p, m)
      PROVE  Kept
  BY <1>2, ComesStartMatch, ComesNextRound, ComesFinishMatch, ComesCancelMatch, ComesDelete,
     ComesCreateTournament
<1>3. ASSUME NEW m \in Match, NEW to \in Status \ {"none"}, HandleUpdateTournament(p, m, to)
      PROVE  Kept
  BY <1>3, ComesPatch
<1>4. ASSUME NEW m \in Match, NEW i \in Seat, HandleRemoveParticipant(p, m, i)
      PROVE  Kept
  BY <1>4, ComesRemove
<1>5. ASSUME NEW m \in Match, NEW u \in User, HandleAddParticipant(p, m, u)
      PROVE  Kept
  BY <1>5, ComesAdd
<1>6. ASSUME NEW m \in Match, NEW u \in User, NEW i \in Seat, HandleUpdateParticipant(p, m, i, u)
      PROVE  Kept
  BY <1>6, ComesUpdate
<1>7. ASSUME NEW m \in Match, NEW u \in User, NEW b \in User,
             HandleCreateMatch(p, m, u, b) \/ HandleCreateShow(p, m, u, b)
      PROVE  Kept
  BY <1>7, ComesCreateMatch, ComesCreateShow
<1>8. ASSUME NEW u \in User, HandleRegister(p, u)
      PROVE  Kept
  BY <1>8, ComesRegister
<1>9. ASSUME NEW u \in User, NEW to \in {"declined", "pending"}, HandleDecideRegistration(p, u, to)
      PROVE  Kept
  BY <1>9, ComesDecide
<1> QED
  BY <1>1, <1>2, <1>3, <1>4, <1>5, <1>6, <1>7, <1>8, <1>9 DEF Arrives

-------------------------------------------------------------------------------
(* The requests proceed.                                                   *)

LEMMA LeftIs ==
  ASSUME NEW t, NEW kinds, Left(t, kinds), t # <<>>
  PROVE  /\ Head(t).op = "current" => AtCurrent(t)
         /\ Head(t).op = "insert"  => AtInsert(t)
         /\ Head(t).op = "place"   => AtPlace(t)
         /\ Head(t).op = "guard"   => AtGuard(t, kinds)
         /\ Head(t).op = "choose"  => AtChoose(t, kinds)
         /\ Head(t).op = "round"   => AtRound(t, kinds)
         /\ Head(t).op = "start"   => AtStart(t)
         /\ Head(t).op = "demote"  => AtDemote(t)
         /\ Head(t).op = "set"     => AtSet(t)
         /\ Head(t).op = "return"  => AtReturn(t)
         /\ Head(t).op = "delete"  => AtDelete(t)
         /\ Head(t).op = "open"    => AtOpen(t, kinds)
         /\ Head(t).op = "add"     => AtAdd(t)
         /\ Head(t).op = "change"  => AtChange(t, kinds)
         /\ Head(t).op = "who"     => AtWho(t)
         /\ Head(t).op = "remove"  => AtRemove(t)
         /\ Head(t).op = "revert"  => AtRevert(t)
         /\ Head(t).op = "apply"   => AtApply(t)
         /\ Head(t).op = "decide"  => AtDecide(t)
  BY DEF Left

LEMMA GoesTo ==
  ASSUME IInv, NEW p \in Request, GoOn(p)
  PROVE  req'[p].todo = Tail(req[p].todo) /\ req'[p].held = req[p].held
<1> DEFINE t == Tail(req[p].todo)
<1>1. req' = [req EXCEPT ![p] = [todo |-> t, held |-> req[p].held]]
  BY GoesOn DEF IInv
<1>2. req = [o \in Request |-> req[o]]
  BY DEF IInv, Served
<1> HIDE DEF t
<1>3. req'[p] = [todo |-> t, held |-> req[p].held]
  BY <1>1, <1>2
<1> QED
  BY <1>3 DEF t

LEMMA Goes ==
  ASSUME IInv, NEW p \in Request, ~Idle(p), GoOn(p), load' = load,
         Left(Tail(req[p].todo), load.kinds), load.at = 1 => Knows(p)',
         TypeOK', OneOnAir', AirStep, FinishedStep, AcceptedStand'
  PROVE  Kept
<1> DEFINE t == Tail(req[p].todo)
<1>1. req' = [req EXCEPT ![p] = [todo |-> t, held |-> req[p].held]]
  BY GoesOn DEF IInv
<1>2. req[p].held \in SUBSET User
  BY DEF IInv, Served
<1>3. Left(t, load.kinds)
  OBVIOUS
<1>4. Served' /\ Alone' /\ Known'
  <2> HIDE DEF t
  <2> QED
    BY <1>1, <1>2, <1>3, Proceeding
<1> QED
  BY <1>4 DEF Kept, IInv

\* With one request at a time, who was accepted plays, unless his application is about
\* to go back.
LEMMA Seated ==
  ASSUME IInv, OneByOne, "update" \notin load.kinds, NEW p \in Request, ~Idle(p), It(p).op # "revert"
  PROVE  \A u \in User : Accepted(u) => reg[u].match \in Match /\ u \in PlayersOf(reg[u].match)
<1>1. \A u \in User : ~Reverting(u)
  <2> SUFFICES ASSUME NEW o \in Request, NEW u \in User,
                      req[o].todo = <<St("revert", reg[u].match, u, 0)>>
               PROVE  FALSE
    BY DEF Reverting
  <2>1. ~Idle(o) /\ It(o).op = "revert"
    BY Tails1 DEF Idle, It, St
  <2> QED
    BY <2>1 DEF IInv, Alone, OneByOne
<1> QED
  BY <1>1 DEF IInv, AcceptedStand

LEMMA StandStays ==
  ASSUME IInv, NEW p \in Request, ~Idle(p), It(p).op # "revert" \/ ~OneByOne,
         UNCHANGED <<load, parts, reg>>
  PROVE  AcceptedStand'
  BY Seated DEF AcceptedStand, OneByOne, Accepted, PlayersOf

\* A request that ends early changes nothing.
LEMMA StopKeeps ==
  ASSUME IInv, NEW p \in Request, ~Idle(p), Stop(p), It(p).op # "revert" \/ ~OneByOne,
         UNCHANGED <<load, status, parts, reg>>
  PROVE  Kept
<1>1. req' = [req EXCEPT ![p] = [todo |-> <<>>, held |-> {}]]
  BY Stops DEF IInv
<1>2. Idle(p)'
  BY <1>1 DEF Idle, IInv, Served
<1>3. Knows(p)'
  BY <1>2, IdleKnows
<1>4. Left(<<>>, load.kinds)
  BY DEF Left
<1>5. Served' /\ Alone' /\ Known'
  <2> DEFINE t == <<>>
             h == {}
  <2>1. h \in SUBSET User /\ req' = [req EXCEPT ![p] = [todo |-> t, held |-> h]] /\ Left(t, load.kinds)
    BY <1>1, <1>4
  <2> HIDE DEF t, h
  <2> QED
    BY <1>3, <2>1, Proceeding
<1>6. TypeOK'
  BY DEF IInv, TypeOK, Exists
<1>7. OneOnAir' /\ AirStep
  BY AirStays DEF IInv
<1>8. FinishedStep
  BY DEF FinishedStep
<1>9. AcceptedStand'
  BY StandStays
<1> QED
  BY <1>5, <1>6, <1>7, <1>8, <1>9 DEF Kept, IInv

\* A statement that only looks.
LEMMA LookKeeps ==
  ASSUME IInv, NEW p \in Request, ~Idle(p), GoOn(p), It(p).op # "revert",
         UNCHANGED <<load, status, parts, reg>>,
         Left(Tail(req[p].todo), load.kinds), load.at = 1 => Knows(p)'
  PROVE  Kept
<1>1. TypeOK'
  BY DEF IInv, TypeOK, Exists
<1>2. OneOnAir' /\ AirStep
  BY AirStays DEF IInv
<1>3. FinishedStep
  BY DEF FinishedStep
<1>4. AcceptedStand'
  BY StandStays
<1> QED
  BY <1>1, <1>2, <1>3, <1>4, Goes

\* A statement that changes the status of matches that stay.
LEMMA StatusKeeps ==
  ASSUME IInv, NEW p \in Request, ~Idle(p), GoOn(p), It(p).op # "revert",
         UNCHANGED <<load, parts, reg>>,
         status' \in [Match -> Status], \A m \in Match : status'[m] = "none" <=> status[m] = "none",
         OneOnAir', AirStep,
         Left(Tail(req[p].todo), load.kinds), load.at = 1 => Knows(p)'
  PROVE  Kept
<1>1. TypeOK'
  BY DEF IInv, TypeOK, Exists
<1>2. FinishedStep
  BY DEF FinishedStep
<1>3. AcceptedStand'
  BY StandStays
<1> QED
  BY <1>1, <1>2, <1>3, Goes

LEMMA MatchGuardKeeps ==
  ASSUME IInv, NEW p \in Request, MatchGuard(p)
  PROVE  Kept
<1>1. /\ ~Idle(p) /\ It(p).op = "guard" /\ UNCHANGED <<load, status, parts, reg>>
      /\ GoOn(p) \/ Stop(p)
  BY DEF MatchGuard, Doing, GoOnIf
<1>2. CASE Stop(p)
  BY <1>1, <1>2, StopKeeps
<1>3. CASE GoOn(p)
  <2>1. PICK m \in Match :
          \/ req[p].todo = <<St("guard", m, NoUser, 0), St("current", m, NoUser, 0), St("start", m, NoUser, 0)>>
          \/ /\ "round" \in load.kinds
             /\ req[p].todo = <<St("guard", m, NoUser, 0), St("choose", m, NoUser, 0), St("round", m, NoUser, 0)>>
          \/ req[p].todo = <<St("guard", m, NoUser, 0), St("set", m, NoUser, "finished")>>
          \/ req[p].todo = <<St("guard", m, NoUser, 0), St("return", m, NoUser, 0), St("delete", m, NoUser, 0)>>
    BY <1>1, LeftIs DEF IInv, Served, Idle, It, AtGuard
  <2>2. req'[p].todo = Tail(req[p].todo)
    BY <1>3, GoesTo
  <2>3. CASE req[p].todo = <<St("guard", m, NoUser, 0), St("current", m, NoUser, 0), St("start", m, NoUser, 0)>>
    <3>1. Tail(req[p].todo) = <<St("current", m, NoUser, 0), St("start", m, NoUser, 0)>>
      BY <2>3, Tails3
    <3>2. Left(Tail(req[p].todo), load.kinds)
      BY <2>3, <3>1, Tails2 DEF Left, AtCurrent, St, Place, Status
    <3>3. load.at = 1 => Knows(p)'
      BY <2>3, <3>1, <2>2, Tails3, Tails2 DEF Knows, Doing, It, Idle, St, Place
    <3> QED
      BY <1>1, <1>3, <3>2, <3>3, LookKeeps
  <2>4. CASE "round" \in load.kinds /\ req[p].todo = <<St("guard", m, NoUser, 0), St("choose", m, NoUser, 0), St("round", m, NoUser, 0)>>
    <3>1. Tail(req[p].todo) = <<St("choose", m, NoUser, 0), St("round", m, NoUser, 0)>>
      BY <2>4, Tails3
    <3>2. Left(Tail(req[p].todo), load.kinds)
      BY <2>4, <3>1, Tails2 DEF Left, AtChoose, St, Place, Status
    <3>3. load.at = 1 => Knows(p)'
      BY <2>4, <3>1, <2>2, Tails3, Tails2 DEF Knows, Doing, It, Idle, St, Place
    <3> QED
      BY <1>1, <1>3, <3>2, <3>3, LookKeeps
  <2>5. CASE req[p].todo = <<St("guard", m, NoUser, 0), St("set", m, NoUser, "finished")>>
    <3>1. Tail(req[p].todo) = <<St("set", m, NoUser, "finished")>>
      BY <2>5, Tails2
    <3>2. Left(Tail(req[p].todo), load.kinds)
      BY <2>5, <3>1, Tails1 DEF Left, AtSet, St, Place, Status
    <3>3. load.at = 1 => Knows(p)'
      BY <2>5, <3>1, <2>2, Tails2, Tails1 DEF Knows, Doing, It, Idle, St, Place
    <3> QED
      BY <1>1, <1>3, <3>2, <3>3, LookKeeps
  <2>6. CASE req[p].todo = <<St("guard", m, NoUser, 0), St("return", m, NoUser, 0), St("delete", m, NoUser, 0)>>
    <3>1. Tail(req[p].todo) = <<St("return", m, NoUser, 0), St("delete", m, NoUser, 0)>>
      BY <2>6, Tails3
    <3>2. Left(Tail(req[p].todo), load.kinds)
      BY <2>6, <3>1, Tails2 DEF Left, AtReturn, St, Place, Status
    <3>3. load.at = 1 => Knows(p)'
      BY <2>6, <3>1, <2>2, Tails3, Tails2 DEF Knows, Doing, It, Idle, St, Place
    <3> QED
      BY <1>1, <1>3, <3>2, <3>3, LookKeeps
  <2> QED
    BY <2>1, <2>3, <2>4, <2>5, <2>6
<1> QED
  BY <1>1, <1>2, <1>3

LEMMA BlockIfFinishedKeeps ==
  ASSUME IInv, NEW p \in Request, BlockIfFinished(p)
  PROVE  Kept
<1>1. /\ ~Idle(p) /\ It(p).op = "open" /\ UNCHANGED <<load, status, parts, reg>>
      /\ (GoOn(p) /\ status[It(p).m] # "finished") \/ Stop(p)
  BY DEF BlockIfFinished, Doing, GoOnIf
<1>2. CASE Stop(p)
  BY <1>1, <1>2, StopKeeps
<1>3. CASE GoOn(p) /\ status[It(p).m] # "finished"
  <2>1. PICK m \in Match, u \in User \cup {NoUser}, i \in Seat :
          \/ u \in User /\ req[p].todo = <<St("open", m, NoUser, 0), St("add", m, u, 0), Place(m, u)>>
          \/ /\ "update" \in load.kinds /\ u \in User
             /\ req[p].todo = <<St("open", m, NoUser, 0), St("change", m, u, i)>>
          \/ req[p].todo = <<St("open", m, NoUser, 0), St("who", m, NoUser, i), St("remove", m, NoUser, i)>>
    <3>1. 1 \in Seat
      BY DEF Seat
    <3>2. AtOpen(req[p].todo, load.kinds)
      BY <1>1, LeftIs DEF IInv, Served, Idle, It
    <3> QED
      BY <3>1, <3>2 DEF AtOpen
  <2>2. req'[p].todo = Tail(req[p].todo)
    BY <1>3, GoesTo
  <2>3. CASE u \in User /\ req[p].todo = <<St("open", m, NoUser, 0), St("add", m, u, 0), Place(m, u)>>
    <3>1. Tail(req[p].todo) = <<St("add", m, u, 0), Place(m, u)>>
      BY <2>3, Tails3
    <3>2. Left(Tail(req[p].todo), load.kinds)
      BY <2>3, <3>1, Tails2 DEF Left, AtAdd, St, Place, Status
    <3>3. load.at = 1 => Knows(p)'
      BY <2>3, <3>1, <2>2, Tails3, Tails2, <1>1, <1>3 DEF Knows, Doing, It, Idle, St, Place
    <3> QED
      BY <1>1, <1>3, <3>2, <3>3, LookKeeps
  <2>4. CASE "update" \in load.kinds /\ u \in User /\ req[p].todo = <<St("open", m, NoUser, 0), St("change", m, u, i)>>
    <3>1. Tail(req[p].todo) = <<St("change", m, u, i)>>
      BY <2>4, Tails2
    <3>2. Left(Tail(req[p].todo), load.kinds)
      BY <2>4, <3>1, Tails1 DEF Left, AtChange, St, Place, Status
    <3>3. load.at = 1 => Knows(p)'
      BY <2>4, <3>1, <2>2, Tails2, Tails1, <1>1, <1>3 DEF Knows, Doing, It, Idle, St, Place
    <3> QED
      BY <1>1, <1>3, <3>2, <3>3, LookKeeps
  <2>5. CASE req[p].todo = <<St("open", m, NoUser, 0), St("who", m, NoUser, i), St("remove", m, NoUser, i)>>
    <3>1. Tail(req[p].todo) = <<St("who", m, NoUser, i), St("remove", m, NoUser, i)>>
      BY <2>5, Tails3
    <3>2. Left(Tail(req[p].todo), load.kinds)
      BY <2>5, <3>1, Tails2 DEF Left, AtWho, St, Place, Status
    <3>3. load.at = 1 => Knows(p)'
      BY <2>5, <3>1, <2>2, Tails3, Tails2, <1>1, <1>3 DEF Knows, Doing, It, Idle, St, Place
    <3> QED
      BY <1>1, <1>3, <3>2, <3>3, LookKeeps
  <2> QED
    BY <2>1, <2>3, <2>4, <2>5
<1> QED
  BY <1>1, <1>2, <1>3

LEMMA CurrentMatchIDKeeps ==
  ASSUME IInv, NEW p \in Request, CurrentMatchID(p)
  PROVE  Kept
<1>1. /\ ~Idle(p) /\ It(p).op = "current" /\ UNCHANGED <<load, status, parts, reg>>
      /\ (GoOn(p) /\ Live \subseteq {It(p).m}) \/ Stop(p)
  BY DEF CurrentMatchID, Doing, GoOnIf
<1>2. CASE Stop(p)
  BY <1>1, <1>2, StopKeeps
<1>3. CASE GoOn(p) /\ Live \subseteq {It(p).m}
  <2>1. PICK m \in Match :
          \/ req[p].todo = <<St("current", m, NoUser, 0), St("start", m, NoUser, 0)>>
          \/ \E a, b \in User : req[p].todo = <<St("current", NoMatch, NoUser, 0),
               St("insert", m, <<a, b>>, "live"), Place(m, a), Place(m, b)>>
    <3>1. AtCurrent(req[p].todo)
      BY <1>1, LeftIs DEF IInv, Served, Idle, It
    <3> QED
      BY <3>1 DEF AtCurrent
  <2>2. req'[p].todo = Tail(req[p].todo)
    BY <1>3, GoesTo
  <2>3. CASE req[p].todo = <<St("current", m, NoUser, 0), St("start", m, NoUser, 0)>>
    <3>1. Tail(req[p].todo) = <<St("start", m, NoUser, 0)>>
      BY <2>3, Tails2
    <3>2. Left(Tail(req[p].todo), load.kinds)
      BY <2>3, <3>1, Tails1 DEF Left, AtStart, St, Place, Status
    <3>3. load.at = 1 => Knows(p)'
      BY <2>3, <3>1, <2>2, Tails2, Tails1, <1>1, <1>3 DEF Knows, Doing, It, Idle, St, Place, Live
    <3> QED
      BY <1>1, <1>3, <3>2, <3>3, LookKeeps
  <2>4. CASE \E a, b \in User : req[p].todo = <<St("current", NoMatch, NoUser, 0),
               St("insert", m, <<a, b>>, "live"), Place(m, a), Place(m, b)>>
    <3>0. PICK a \in User, b \in User :
            req[p].todo = <<St("current", NoMatch, NoUser, 0),
                            St("insert", m, <<a, b>>, "live"), Place(m, a), Place(m, b)>>
      BY <2>4
    <3>1. Tail(req[p].todo) = <<St("insert", m, <<a, b>>, "live"), Place(m, a), Place(m, b)>>
      BY <3>0, Tails4
    <3>2. Left(Tail(req[p].todo), load.kinds)
      <4> DEFINE t == Tail(req[p].todo)
      <4>0. t = <<St("insert", m, <<a, b>>, "live"), Place(m, a), Place(m, b)>>
        BY <3>1
      <4> HIDE DEF t
      <4>1. AtInsert(t)
        <5>1. \E x \in {"upcoming", "live"} :
                t = <<St("insert", m, <<a, b>>, x), Place(m, a), Place(m, b)>>
          BY <4>0
        <5> QED
          BY <5>1, Zenon DEF AtInsert
      <4>2. Head(t) = St("insert", m, <<a, b>>, "live")
        BY <4>0, Tails3
      <4>3. Left(t, load.kinds)
        BY <4>1, <4>2 DEF Left, St
      <4> QED
        BY <4>3 DEF t
    <3>3. It(p).m = NoMatch
      BY <3>0, Tails4 DEF It, St, Place
    <3>4. Live = {} /\ Live' = {}
      BY <1>1, <1>3, <3>3, SiteAssumption DEF Live
    <3>5. load.at = 1 => status[m] = "none"
      <4>1. 2 \in DOMAIN req[p].todo /\ req[p].todo[2].op = "insert" /\ req[p].todo[2].m = m
        BY <3>0 DEF St
      <4> QED
        BY <4>1 DEF IInv, Known, Knows, Exists
    <3>6. req'[p].todo = <<St("insert", m, <<a, b>>, "live"), Place(m, a), Place(m, b)>>
      BY <2>2, <3>1
    <3>7. /\ DOMAIN req'[p].todo = 1..3 /\ req'[p].todo[1].m = m
          /\ req'[p].todo[2].op = "place" /\ req'[p].todo[3].op = "place"
          /\ Head(req'[p].todo).op = "insert"
      BY <3>6, Tails3 DEF St, Place
    <3>8. load.at = 1 => Knows(p)'
      BY <1>1, <3>4, <3>5, <3>7 DEF Knows, Doing, It, Idle, Exists
    <3> QED
      BY <1>1, <1>3, <3>2, <3>8, LookKeeps
  <2> QED
    BY <2>1, <2>3, <2>4
<1> QED
  BY <1>1, <1>2, <1>3

LEMMA ChooseRoundKeeps ==
  ASSUME IInv, NEW p \in Request, ChooseRound(p)
  PROVE  Kept
<1>1. /\ ~Idle(p) /\ It(p).op = "choose" /\ UNCHANGED <<load, status, parts, reg>>
      /\ GoOn(p) \/ Stop(p)
  BY DEF ChooseRound, Doing
<1>2. CASE Stop(p)
  BY <1>1, <1>2, StopKeeps
<1>3. CASE GoOn(p)
  <2>1. PICK m \in Match : /\ "round" \in load.kinds
                           /\ req[p].todo = <<St("choose", m, NoUser, 0), St("round", m, NoUser, 0)>>
    BY <1>1, LeftIs DEF IInv, Served, Idle, It, AtChoose
  <2>2. req'[p].todo = Tail(req[p].todo)
    BY <1>3, GoesTo
  <2>3. Tail(req[p].todo) = <<St("round", m, NoUser, 0)>>
    BY <2>1, Tails2
  <2>4. Left(Tail(req[p].todo), load.kinds)
    BY <2>1, <2>3, Tails1 DEF Left, AtRound, St
  <2>5. load.at = 1 => Knows(p)'
    <3>1. req'[p].todo = <<St("round", m, NoUser, 0)>>
      BY <2>2, <2>3
    <3>2. DOMAIN req'[p].todo = 1..1 /\ req'[p].todo[1].op = "round" /\ Head(req'[p].todo).op = "round"
      BY <3>1 DEF St
    <3> QED
      BY <3>2 DEF Knows, Doing, It
  <2> QED
    BY <1>1, <1>3, <2>4, <2>5, LookKeeps
<1> QED
  BY <1>1, <1>2, <1>3

LEMMA StartShowMatchKeeps ==
  ASSUME IInv, NEW p \in Request, StartShowMatch(p)
  PROVE  Kept
<1>1. /\ ~Idle(p) /\ It(p).op = "start" /\ GoOn(p) /\ UNCHANGED <<load, parts, reg>>
  BY DEF StartShowMatch, Doing
<1>2. PICK m \in Match : req[p].todo = <<St("start", m, NoUser, 0)>>
  BY <1>1, LeftIs DEF IInv, Served, Idle, It, AtStart
<1>3. Tail(req[p].todo) = <<>> /\ It(p) = St("start", m, NoUser, 0)
  BY <1>2, Tails1 DEF It
<1>4. Idle(p)' /\ Left(<<>>, load.kinds)
  BY <1>1, <1>3, GoesTo DEF Idle, Left
<1>5. Knows(p)'
  BY <1>4, IdleKnows
<1>6. status \in [Match -> Status]
  BY DEF IInv, TypeOK
<1>7. status' = status \/ (status[m] = "upcoming" /\ status' = [status EXCEPT ![m] = "live"])
  BY <1>3 DEF StartShowMatch, St, Exists
<1>8. CASE status' = status
  <2>1. OneOnAir' /\ AirStep
    BY <1>1, <1>8, AirStays DEF IInv
  <2> QED
    BY <1>1, <1>3, <1>4, <1>5, <1>6, <1>8, <2>1, StatusKeeps
<1>9. CASE status[m] = "upcoming" /\ status' = [status EXCEPT ![m] = "live"]
  <2>1. Promised => Live \subseteq {m}
    BY <1>1, <1>3 DEF IInv, Known, Knows, Doing, Promised, OneByOne, St
  <2>2. OneOnAir' /\ AirStep
    BY <1>1, <1>9, <2>1, StatusSteps DEF IInv, Status, Exists
  <2>3. status' \in [Match -> Status] /\ \A n \in Match : status'[n] = "none" <=> status[n] = "none"
    BY <1>6, <1>9 DEF Status
  <2> QED
    BY <1>1, <1>3, <1>4, <1>5, <2>2, <2>3, StatusKeeps
<1> QED
  BY <1>7, <1>8, <1>9

LEMMA StartNextRoundKeeps ==
  ASSUME IInv, NEW p \in Request, StartNextRound(p)
  PROVE  Kept
<1>1. /\ ~Idle(p) /\ It(p).op = "round" /\ GoOn(p) /\ UNCHANGED <<load, parts, reg>>
  BY DEF StartNextRound, Doing
<1>2. PICK m \in Match : "round" \in load.kinds /\ req[p].todo = <<St("round", m, NoUser, 0)>>
  BY <1>1, LeftIs DEF IInv, Served, Idle, It, AtRound
<1>3. Tail(req[p].todo) = <<>> /\ It(p) = St("round", m, NoUser, 0)
  BY <1>2, Tails1 DEF It
<1>4. Idle(p)' /\ Left(<<>>, load.kinds)
  BY <1>1, <1>3, GoesTo DEF Idle, Left
<1>5. Knows(p)'
  BY <1>4, IdleKnows
<1>6. status \in [Match -> Status]
  BY DEF IInv, TypeOK
<1>7. status' = status \/ (status[m] # "none" /\ status' = [status EXCEPT ![m] = "live"])
  BY <1>3 DEF StartNextRound, St, Exists
<1>8. CASE status' = status
  <2>1. OneOnAir' /\ AirStep
    BY <1>1, <1>8, AirStays DEF IInv
  <2> QED
    BY <1>1, <1>3, <1>4, <1>5, <1>6, <1>8, <2>1, StatusKeeps
<1>9. CASE status[m] # "none" /\ status' = [status EXCEPT ![m] = "live"]
  <2>1. Promised => Live \subseteq {m}
    BY <1>2 DEF Promised
  <2>2. OneOnAir' /\ AirStep
    BY <1>1, <1>9, <2>1, StatusSteps DEF IInv, Status, Exists
  <2>3. status' \in [Match -> Status] /\ \A n \in Match : status'[n] = "none" <=> status[n] = "none"
    BY <1>6, <1>9 DEF Status
  <2> QED
    BY <1>1, <1>3, <1>4, <1>5, <2>2, <2>3, StatusKeeps
<1> QED
  BY <1>7, <1>8, <1>9

LEMMA UpdateTournamentStatusKeeps ==
  ASSUME IInv, NEW p \in Request, UpdateTournamentStatus(p)
  PROVE  Kept
<1>1. /\ ~Idle(p) /\ It(p).op = "set" /\ GoOn(p) /\ UNCHANGED <<load, parts, reg>>
  BY DEF UpdateTournamentStatus, Doing
<1>2. PICK m \in Match, x \in Status \ {"none"} : req[p].todo = <<St("set", m, NoUser, x)>>
  BY <1>1, LeftIs DEF IInv, Served, Idle, It, AtSet
<1>3. Tail(req[p].todo) = <<>> /\ It(p) = St("set", m, NoUser, x)
  BY <1>2, Tails1 DEF It
<1>4. Idle(p)' /\ Left(<<>>, load.kinds)
  BY <1>1, <1>3, GoesTo DEF Idle, Left
<1>5. Knows(p)'
  BY <1>4, IdleKnows
<1>6. status \in [Match -> Status]
  BY DEF IInv, TypeOK
<1>7. status' = status \/ (status[m] # "none" /\ status' = [status EXCEPT ![m] = x])
  BY <1>3 DEF UpdateTournamentStatus, St, Exists
<1>8. CASE status' = status
  <2>1. OneOnAir' /\ AirStep
    BY <1>1, <1>8, AirStays DEF IInv
  <2> QED
    BY <1>1, <1>3, <1>4, <1>5, <1>6, <1>8, <2>1, StatusKeeps
<1>9. CASE status[m] # "none" /\ status' = [status EXCEPT ![m] = x]
  <2>1. Promised /\ x = "live" => Live \subseteq {m}
    BY <1>1, <1>3 DEF IInv, Known, Knows, Doing, Promised, OneByOne, St
  <2>2. OneOnAir' /\ AirStep
    BY <1>1, <1>9, <2>1, StatusSteps DEF IInv, Status, Exists
  <2>3. status' \in [Match -> Status] /\ \A n \in Match : status'[n] = "none" <=> status[n] = "none"
    BY <1>6, <1>9 DEF Status
  <2> QED
    BY <1>1, <1>3, <1>4, <1>5, <2>2, <2>3, StatusKeeps
<1> QED
  BY <1>7, <1>8, <1>9

LEMMA LeftSet ==
  ASSUME NEW kinds, NEW m \in Match, NEW x \in Status \ {"none"}
  PROVE  Left(<<St("set", m, NoUser, x)>>, kinds)
<1> DEFINE t == <<St("set", m, NoUser, x)>>
<1>1. AtSet(t)
  BY DEF AtSet
<1>2. Head(t).op = "set"
  BY Tails1 DEF St, Place
<1> HIDE DEF t
<1>3. Left(t, kinds)
  BY <1>1, <1>2 DEF Left
<1> QED
  BY <1>3 DEF t

LEMMA LeftPlace ==
  ASSUME NEW kinds, NEW m \in Match, NEW u \in User
  PROVE  Left(<<Place(m, u)>>, kinds)
<1> DEFINE t == <<Place(m, u)>>
<1>1. AtPlace(t)
  BY DEF AtPlace
<1>2. Head(t).op = "place"
  BY Tails1 DEF St, Place
<1> HIDE DEF t
<1>3. Left(t, kinds)
  BY <1>1, <1>2 DEF Left
<1> QED
  BY <1>3 DEF t

LEMMA LeftPlaces ==
  ASSUME NEW kinds, NEW m \in Match, NEW a \in User, NEW b \in User
  PROVE  Left(<<Place(m, a), Place(m, b)>>, kinds)
<1> DEFINE t == <<Place(m, a), Place(m, b)>>
<1>1. AtPlace(t)
  BY DEF AtPlace
<1>2. Head(t).op = "place"
  BY Tails2 DEF St, Place
<1> HIDE DEF t
<1>3. Left(t, kinds)
  BY <1>1, <1>2 DEF Left
<1> QED
  BY <1>3 DEF t

LEMMA LeftRemove ==
  ASSUME NEW kinds, NEW m \in Match, NEW i \in Seat
  PROVE  Left(<<St("remove", m, NoUser, i)>>, kinds)
<1> DEFINE t == <<St("remove", m, NoUser, i)>>
<1>1. AtRemove(t)
  BY DEF AtRemove
<1>2. Head(t).op = "remove"
  BY Tails1 DEF St, Place
<1> HIDE DEF t
<1>3. Left(t, kinds)
  BY <1>1, <1>2 DEF Left
<1> QED
  BY <1>3 DEF t

LEMMA LeftRemoveRevert ==
  ASSUME NEW kinds, NEW m \in Match, NEW i \in Seat, NEW u \in User
  PROVE  Left(<<St("remove", m, NoUser, i), St("revert", m, u, 0)>>, kinds)
<1> DEFINE t == <<St("remove", m, NoUser, i), St("revert", m, u, 0)>>
<1>1. AtRemove(t)
  BY DEF AtRemove
<1>2. Head(t).op = "remove"
  BY Tails2 DEF St, Place
<1> HIDE DEF t
<1>3. Left(t, kinds)
  BY <1>1, <1>2 DEF Left
<1> QED
  BY <1>3 DEF t

LEMMA LeftRevert ==
  ASSUME NEW kinds, NEW m \in Match, NEW u \in User
  PROVE  Left(<<St("revert", m, u, 0)>>, kinds)
<1> DEFINE t == <<St("revert", m, u, 0)>>
<1>1. AtRevert(t)
  BY DEF AtRevert
<1>2. Head(t).op = "revert"
  BY Tails1 DEF St, Place
<1> HIDE DEF t
<1>3. Left(t, kinds)
  BY <1>1, <1>2 DEF Left
<1> QED
  BY <1>3 DEF t

LEMMA LeftDelete ==
  ASSUME NEW kinds, NEW m \in Match
  PROVE  Left(<<St("delete", m, NoUser, 0)>>, kinds)
<1> DEFINE t == <<St("delete", m, NoUser, 0)>>
<1>1. AtDelete(t)
  BY DEF AtDelete
<1>2. Head(t).op = "delete"
  BY Tails1 DEF St, Place
<1> HIDE DEF t
<1>3. Left(t, kinds)
  BY <1>1, <1>2 DEF Left
<1> QED
  BY <1>3 DEF t

LEMMA DemoteLiveExceptKeeps ==
  ASSUME IInv, NEW p \in Request, DemoteLiveExcept(p)
  PROVE  Kept
<1>1. /\ ~Idle(p) /\ It(p).op = "demote" /\ GoOn(p) /\ UNCHANGED <<load, parts, reg>>
  BY DEF DemoteLiveExcept, Doing
<1>2. PICK m \in Match : req[p].todo = <<St("demote", m, NoUser, 0), St("set", m, NoUser, "live")>>
  BY <1>1, LeftIs DEF IInv, Served, Idle, It, AtDemote
<1>3. /\ Tail(req[p].todo) = <<St("set", m, NoUser, "live")>>
      /\ It(p) = St("demote", m, NoUser, 0)
  BY <1>2, Tails2 DEF It
<1>4. req'[p].todo = <<St("set", m, NoUser, "live")>>
  BY <1>1, <1>3, GoesTo
<1>5. Left(Tail(req[p].todo), load.kinds)
  BY <1>3, LeftSet DEF Status
<1>6. status' = [n \in Match |-> IF n \in Live \ {m} THEN "upcoming" ELSE status[n]]
  BY <1>3 DEF DemoteLiveExcept, St
<1>7. status \in [Match -> Status]
  BY DEF IInv, TypeOK
<1>8. status' \in [Match -> Status] /\ \A n \in Match : status'[n] = "none" <=> status[n] = "none"
  BY <1>6, <1>7 DEF Live, Status
<1>9. Live' \subseteq {m}
  BY <1>6 DEF Live
<1>10. load.at = 1 => Knows(p)'
  <2>1. It(p)' = St("set", m, NoUser, "live") /\ DOMAIN req'[p].todo = 1..1
        /\ req'[p].todo[1].op = "set"
    BY <1>4, Tails1 DEF It, St
  <2> QED
    BY <1>9, <2>1 DEF Knows, Doing, St
<1>11. OneOnAir'
  BY <1>9 DEF OneOnAir
<1>12. AirStep
  <2>1. CASE ~Promised
    BY <1>1, <2>1 DEF AirStep, Promised, OneByOne, Promise!Vars
  <2>2. CASE Promised /\ Live \subseteq {m}
    <3>1. status' = status
      BY <1>6, <1>7, <2>2
    <3> QED
      BY <1>1, <3>1, AirStays DEF IInv
  <2>3. CASE Promised /\ ~(Live \subseteq {m})
    <3> DEFINE plan == {n \in Match : Promised /\ status[n] = "upcoming"}
               air  == {n \in Live : Promised}
               over == {n \in Match : Promised /\ status[n] = "finished"}
    <3>1. m \notin Live
      BY <2>3 DEF IInv, OneOnAir
    <3>2. Promised'
      BY <1>1, <2>3 DEF Promised, OneByOne
    <3>3. air' = {} /\ plan' = plan \cup air /\ over' = over
      BY <1>6, <1>7, <2>3, <3>1, <3>2 DEF Live
    <3> QED
      BY <3>3 DEF AirStep, Promise!Next, Promise!PutOff
  <2> QED
    BY <2>1, <2>2, <2>3
<1> QED
  BY <1>1, <1>5, <1>8, <1>10, <1>11, <1>12, StatusKeeps

\* A statement about seats and applications.
LEMMA SeatKeeps ==
  ASSUME IInv, NEW p \in Request, ~Idle(p), GoOn(p), UNCHANGED <<load, status>>,
         Left(Tail(req[p].todo), load.kinds), load.at = 1 => Knows(p)',
         TypeOK', FinishedStep, AcceptedStand'
  PROVE  Kept
<1>1. OneOnAir' /\ AirStep
  BY AirStays DEF IInv
<1> QED
  BY <1>1, Goes

LEMMA AddParticipantKeeps ==
  ASSUME IInv, NEW p \in Request, AddParticipant(p)
  PROVE  Kept
<1>1. /\ ~Idle(p) /\ It(p).op = "add" /\ UNCHANGED <<load, status, reg>>
  BY DEF AddParticipant, Doing
<1>2. PICK m \in Match, u \in User : req[p].todo = <<St("add", m, u, 0), Place(m, u)>>
  BY <1>1, LeftIs DEF IInv, Served, Idle, It, AtAdd
<1>3. Tail(req[p].todo) = <<Place(m, u)>> /\ It(p) = St("add", m, u, 0)
  BY <1>2, Tails2 DEF It
<1>4. It(p).m = m /\ It(p).u = u
  BY <1>3 DEF St
<1>5. CASE ~Exists(m)
  BY <1>1, <1>4, <1>5, StopKeeps DEF AddParticipant
<1>6. CASE Exists(m)
  <2>1. PICK i \in Seat : /\ parts[m][i] = NoUser /\ GoOn(p)
                          /\ parts' = [parts EXCEPT ![m][i] = u]
    BY <1>4, <1>6 DEF AddParticipant
  <2>2. parts \in [Match -> [Seat -> User \cup {NoUser}]]
    BY DEF IInv, TypeOK
  <2>3. /\ parts'[m] = [parts[m] EXCEPT ![i] = u]
        /\ \A n \in Match \ {m} : parts'[n] = parts[n]
    BY <2>1, <2>2
  <2>4. parts'[m][i] = u /\ \A j \in Seat \ {i} : parts'[m][j] = parts[m][j]
    BY <2>2, <2>3
  <2>5. u \in PlayersOf(m)' /\ \A n \in Match : PlayersOf(n) \subseteq PlayersOf(n)'
    BY <2>1, <2>3, <2>4, SiteAssumption DEF PlayersOf
  <2>6. req'[p].todo = <<Place(m, u)>>
    BY <1>3, <2>1, GoesTo
  <2>7. Left(Tail(req[p].todo), load.kinds)
    BY <1>3, LeftPlace
  <2>8. Knows(p)'
    <3>1. It(p)' = Place(m, u) /\ DOMAIN req'[p].todo = 1..1 /\ req'[p].todo[1] = Place(m, u)
      BY <2>6, Tails1 DEF It
    <3> QED
      BY <2>5, <3>1 DEF Knows, Doing, Place, St
  <2>9. TypeOK'
    <3>1. parts' \in [Match -> [Seat -> User \cup {NoUser}]]
      BY <2>1, <2>2
    <3> QED
      BY <1>1, <1>6, <2>3, <3>1 DEF IInv, TypeOK, Exists
  <2>10. FinishedStep
    BY <1>1, <1>4, <2>3 DEF FinishedStep, IInv, Known, Knows, Doing
  <2>11. AcceptedStand'
    BY <1>1, <2>5, Seated DEF AcceptedStand, OneByOne, Accepted
  <2> QED
    BY <1>1, <2>1, <2>7, <2>8, <2>9, <2>10, <2>11, SeatKeeps
<1> QED
  BY <1>5, <1>6

LEMMA UpdateParticipantKeeps ==
  ASSUME IInv, NEW p \in Request, UpdateParticipant(p)
  PROVE  Kept
<1>1. /\ ~Idle(p) /\ It(p).op = "change" /\ GoOn(p) /\ UNCHANGED <<load, status, reg>>
  BY DEF UpdateParticipant, Doing
<1>2. PICK m \in Match, u \in User, i \in Seat :
        "update" \in load.kinds /\ req[p].todo = <<St("change", m, u, i)>>
  BY <1>1, LeftIs DEF IInv, Served, Idle, It, AtChange
<1>3. Tail(req[p].todo) = <<>> /\ It(p) = St("change", m, u, i)
  BY <1>2, Tails1 DEF It
<1>4. It(p).m = m /\ It(p).u = u /\ It(p).x = i
  BY <1>3 DEF St
<1>5. Idle(p)' /\ Left(Tail(req[p].todo), load.kinds)
  BY <1>1, <1>3, GoesTo DEF Idle, Left
<1>6. Knows(p)'
  BY <1>5, IdleKnows
<1>7. parts \in [Match -> [Seat -> User \cup {NoUser}]]
  BY DEF IInv, TypeOK
<1>8. parts' = parts \/ (parts[m][i] # NoUser /\ parts' = [parts EXCEPT ![m][i] = u])
  BY <1>4 DEF UpdateParticipant
<1>9. TypeOK'
  <2>1. parts' \in [Match -> [Seat -> User \cup {NoUser}]]
    BY <1>7, <1>8
  <2>2. ~Exists(m) => parts' = parts
    BY <1>2, <1>8 DEF IInv, TypeOK, Nobody
  <2>3. \A n \in Match \ {m} : parts'[n] = parts[n]
    BY <1>7, <1>8
  <2> QED
    BY <1>1, <2>1, <2>2, <2>3 DEF IInv, TypeOK, Exists
<1>10. FinishedStep
  <2>1. \A n \in Match \ {m} : parts'[n] = parts[n]
    BY <1>7, <1>8
  <2> QED
    BY <1>1, <1>4, <2>1 DEF FinishedStep, IInv, Known, Knows, Doing
<1>11. AcceptedStand'
  BY <1>1, <1>2 DEF AcceptedStand
<1> QED
  BY <1>1, <1>5, <1>6, <1>9, <1>10, <1>11, SeatKeeps

LEMMA RemoveParticipantKeeps ==
  ASSUME IInv, NEW p \in Request, RemoveParticipant(p)
  PROVE  Kept
<1>1. /\ ~Idle(p) /\ It(p).op = "remove" /\ GoOn(p) /\ UNCHANGED <<load, status, reg>>
  BY DEF RemoveParticipant, Doing
<1>2. PICK m \in Match, i \in Seat :
        \/ req[p].todo = <<St("remove", m, NoUser, i)>>
        \/ \E u \in User : req[p].todo = <<St("remove", m, NoUser, i), St("revert", m, u, 0)>>
  <2>1. AtRemove(req[p].todo)
    BY <1>1, LeftIs DEF IInv, Served, Idle, It
  <2> QED
    BY <2>1 DEF AtRemove
<1>3. It(p) = St("remove", m, NoUser, i)
  BY <1>2, Tails1, Tails2 DEF It
<1>4. It(p).m = m /\ It(p).x = i
  BY <1>3 DEF St
<1>5. parts \in [Match -> [Seat -> User \cup {NoUser}]]
  BY DEF IInv, TypeOK
<1>6. parts' = [parts EXCEPT ![m][i] = NoUser]
  BY <1>4 DEF RemoveParticipant
<1>7. /\ \A n \in Match \ {m} : parts'[n] = parts[n]
      /\ \A j \in Seat \ {i} : parts'[m][j] = parts[m][j]
  BY <1>5, <1>6
<1>8. req'[p].todo = Tail(req[p].todo)
  BY <1>1, GoesTo
<1>9. TypeOK'
  <2>1. parts' \in [Match -> [Seat -> User \cup {NoUser}]]
    BY <1>5, <1>6
  <2>2. parts[m] = Nobody => parts'[m] = Nobody
    BY <1>5, <1>6 DEF Nobody
  <2> QED
    BY <1>1, <1>7, <2>1, <2>2 DEF IInv, TypeOK, Exists
<1>10. FinishedStep
  BY <1>1, <1>4, <1>7 DEF FinishedStep, IInv, Known, Knows, Doing
<1>11. \A n \in Match, w \in User : w \in PlayersOf(n) /\ (n # m \/ w # parts[m][i]) => w \in PlayersOf(n)'
  BY <1>7 DEF PlayersOf
<1>12. CASE req[p].todo = <<St("remove", m, NoUser, i)>>
  <2>1. Tail(req[p].todo) = <<>>
    BY <1>12, Tails1
  <2>2. Knows(p)'
    BY <1>8, <2>1, IdleKnows DEF Idle
  <2>3. Left(Tail(req[p].todo), load.kinds)
    BY <2>1 DEF Left
  <2>4. load.at = 1 => parts[m][i] = NoUser
    <3>1. Len(req[p].todo) = 1
      BY <1>12
    <3> QED
      BY <1>1, <1>4, <3>1 DEF IInv, Known, Knows, Doing
  <2>5. AcceptedStand'
    BY <1>1, <1>11, <2>4, Seated, SiteAssumption DEF AcceptedStand, OneByOne, Accepted
  <2> QED
    BY <1>1, <1>9, <1>10, <2>2, <2>3, <2>5, SeatKeeps
<1>13. ASSUME NEW u \in User, req[p].todo = <<St("remove", m, NoUser, i), St("revert", m, u, 0)>>
       PROVE  Kept
  <2>1. Tail(req[p].todo) = <<St("revert", m, u, 0)>>
    BY <1>13, Tails2
  <2>2. req'[p].todo = <<St("revert", m, u, 0)>>
    BY <1>8, <2>1
  <2>3. Knows(p)'
    <3>1. It(p)' = St("revert", m, u, 0) /\ DOMAIN req'[p].todo = 1..1
          /\ req'[p].todo[1] = St("revert", m, u, 0)
      BY <2>2, Tails1 DEF It
    <3> QED
      BY <3>1 DEF Knows, Doing, St
  <2>4. Left(Tail(req[p].todo), load.kinds)
    BY <2>1, LeftRevert
  <2>5. load.at = 1 => parts[m][i] = u
    <3>1. Len(req[p].todo) = 2 /\ req[p].todo[2] = St("revert", m, u, 0)
      BY <1>13
    <3>2. req[p].todo[2].u = u
      BY <3>1 DEF St
    <3>3. load.at = 1 => Knows(p) /\ Doing(p, "remove")
      BY <1>1 DEF IInv, Known, Doing
    <3>4. Knows(p) /\ Doing(p, "remove") =>
            parts[It(p).m][It(p).x] = IF Len(req[p].todo) = 1 THEN NoUser ELSE req[p].todo[2].u
      BY DEF Knows
    <3> QED
      BY <1>4, <3>1, <3>2, <3>3, <3>4
  <2>6. ASSUME OneByOne, "update" \notin load.kinds, NEW w \in User, Accepted(w)
        PROVE  reg[w].match \in Match /\ (w \in PlayersOf(reg[w].match)' \/ Reverting(w)')
    <3>1. reg[w].match \in Match /\ w \in PlayersOf(reg[w].match)
      BY <1>1, <2>6, Seated
    <3>2. CASE reg[w].match = m /\ w = u
      <4>1. req'[p].todo = <<St("revert", reg'[w].match, w, 0)>>
        BY <1>1, <2>2, <3>2
      <4> QED
        BY <3>1, <4>1 DEF Reverting
    <3>3. CASE reg[w].match # m \/ w # u
      BY <1>1, <1>11, <2>5, <2>6, <3>1, <3>3 DEF OneByOne, PlayersOf
    <3> QED
      BY <3>1, <3>2, <3>3
  <2>7. AcceptedStand'
    BY <1>1, <2>6 DEF AcceptedStand, OneByOne, Accepted, PlayersOf
  <2> QED
    BY <1>1, <1>9, <1>10, <2>3, <2>4, <2>7, SeatKeeps
<1> QED
  BY <1>2, <1>12, <1>13

LEMMA MarkRegistrationPlacedKeeps ==
  ASSUME IInv, NEW p \in Request, MarkRegistrationPlaced(p)
  PROVE  Kept
<1>1. /\ ~Idle(p) /\ It(p).op = "place" /\ GoOn(p) /\ UNCHANGED <<load, status, parts>>
  BY DEF MarkRegistrationPlaced, Doing
<1>2. PICK m \in Match, u \in User :
        req[p].todo = <<Place(m, u)>> \/ \E b \in User : req[p].todo = <<Place(m, u), Place(m, b)>>
  <2>1. AtPlace(req[p].todo)
    BY <1>1, LeftIs DEF IInv, Served, Idle, It
  <2> QED
    BY <2>1 DEF AtPlace
<1>3. It(p) = Place(m, u)
  BY <1>2, Tails1, Tails2 DEF It
<1>4. It(p).m = m /\ It(p).u = u
  BY <1>3 DEF St, Place
<1>5. reg' = reg \/ reg' = [reg EXCEPT ![u] = [status |-> "accepted", match |-> m]]
  BY <1>4 DEF MarkRegistrationPlaced
<1>6. TypeOK'
  BY <1>1, <1>5 DEF IInv, TypeOK, Exists
<1>7. FinishedStep
  BY <1>1 DEF FinishedStep
<1>8. load.at = 1 => u \in PlayersOf(m)
  <2>1. 1 \in DOMAIN req[p].todo /\ req[p].todo[1] = Place(m, u)
    BY <1>2
  <2> QED
    BY <1>1, <2>1 DEF IInv, Known, Knows, Doing, Place, St
<1>9. AcceptedStand'
  <2>1. ASSUME OneByOne, "update" \notin load.kinds, NEW w \in User, reg'[w].status = "accepted"
        PROVE  reg'[w].match \in Match /\ w \in PlayersOf(reg'[w].match)
    <3>1. CASE reg'[w] = reg[w]
      BY <1>1, <2>1, <3>1, Seated DEF Accepted
    <3>2. CASE reg'[w] # reg[w]
      <4>1. w = u /\ reg'[w].match = m
        BY <1>5, <3>2 DEF IInv, TypeOK
      <4> QED
        BY <1>8, <2>1, <4>1 DEF OneByOne
    <3> QED
      BY <3>1, <3>2
  <2> QED
    BY <1>1, <2>1 DEF AcceptedStand, OneByOne, Accepted, PlayersOf
<1>10. req'[p].todo = Tail(req[p].todo)
  BY <1>1, GoesTo
<1>11. CASE req[p].todo = <<Place(m, u)>>
  <2>1. Tail(req[p].todo) = <<>>
    BY <1>11, Tails1
  <2>2. Knows(p)' /\ Left(Tail(req[p].todo), load.kinds)
    BY <1>10, <2>1, IdleKnows DEF Idle, Left
  <2> QED
    BY <1>1, <1>6, <1>7, <1>9, <2>2, SeatKeeps
<1>12. ASSUME NEW b \in User, req[p].todo = <<Place(m, u), Place(m, b)>>
       PROVE  Kept
  <2>1. Tail(req[p].todo) = <<Place(m, b)>>
    BY <1>12, Tails2
  <2>2. Left(Tail(req[p].todo), load.kinds)
    BY <2>1, LeftPlace
  <2>3. load.at = 1 => b \in PlayersOf(m)
    <3>1. 2 \in DOMAIN req[p].todo /\ req[p].todo[2] = Place(m, b)
      BY <1>12
    <3>2. req[p].todo[2].u = b /\ req[p].todo[2].m = m
      BY <3>1 DEF Place, St
    <3>3. load.at = 1 => Knows(p) /\ Doing(p, "place")
      BY <1>1 DEF IInv, Known, Doing
    <3>4. Knows(p) /\ Doing(p, "place") =>
            \A i \in DOMAIN req[p].todo : req[p].todo[i].u \in PlayersOf(req[p].todo[i].m)
      BY DEF Knows
    <3> QED
      BY <3>1, <3>2, <3>3, <3>4
  <2>4. load.at = 1 => Knows(p)'
    <3>1. It(p)' = Place(m, b) /\ DOMAIN req'[p].todo = 1..1 /\ req'[p].todo[1] = Place(m, b)
      <4>1. req'[p].todo = <<Place(m, b)>>
        BY <1>10, <2>1
      <4> QED
        BY <4>1, Tails1 DEF It
    <3>2. It(p)'.op = "place" /\ req'[p].todo[1].op = "place"
          /\ req'[p].todo[1].u = b /\ req'[p].todo[1].m = m
      BY <3>1 DEF Place, St
    <3>3. load.at = 1 => b \in PlayersOf(m)'
      BY <1>1, <2>3 DEF PlayersOf
    <3> QED
      BY <3>1, <3>2, <3>3 DEF Knows, Doing
  <2> QED
    BY <1>1, <1>6, <1>7, <1>9, <2>2, <2>4, SeatKeeps
<1> QED
  BY <1>2, <1>11, <1>12

LEMMA RevertRegistrationToPoolKeeps ==
  ASSUME IInv, NEW p \in Request, RevertRegistrationToPool(p)
  PROVE  Kept
<1>1. /\ ~Idle(p) /\ It(p).op = "revert" /\ GoOn(p) /\ UNCHANGED <<load, status, parts>>
  BY DEF RevertRegistrationToPool, Doing
<1>2. PICK m \in Match, u \in User : req[p].todo = <<St("revert", m, u, 0)>>
  BY <1>1, LeftIs DEF IInv, Served, Idle, It, AtRevert
<1>3. Tail(req[p].todo) = <<>> /\ It(p) = St("revert", m, u, 0)
  BY <1>2, Tails1 DEF It
<1>4. It(p).m = m /\ It(p).u = u
  BY <1>3 DEF St
<1>5. Knows(p)' /\ Left(Tail(req[p].todo), load.kinds)
  BY <1>1, <1>3, GoesTo, IdleKnows DEF Idle, Left
<1>6. reg' = IF reg[u] = [status |-> "accepted", match |-> m]
             THEN [reg EXCEPT ![u] = [status |-> "pending", match |-> NoMatch]] ELSE reg
  BY <1>4 DEF RevertRegistrationToPool
<1>7. TypeOK'
  BY <1>1, <1>6 DEF IInv, TypeOK, Exists
<1>8. FinishedStep
  BY <1>1 DEF FinishedStep
<1>9. ASSUME OneByOne, "update" \notin load.kinds, NEW w \in User, reg'[w].status = "accepted"
      PROVE  reg'[w].match \in Match /\ w \in PlayersOf(reg'[w].match)
  <2>1. reg \in [User -> [status : {"none", "pending", "accepted", "declined"},
                          match : Match \cup {NoMatch}]]
    BY DEF IInv, TypeOK
  <2>2. reg'[w] = reg[w]
    BY <1>6, <1>9, <2>1
  <2>3. reg[w].match \in Match /\ (w \in PlayersOf(reg[w].match) \/ Reverting(w))
    BY <1>9, <2>2 DEF IInv, AcceptedStand, Accepted
  <2>4. ASSUME NEW o \in Request, req[o].todo = <<St("revert", reg[w].match, w, 0)>> PROVE FALSE
    <3>1. o = p
      BY <1>1, <1>9, <2>4, Tails1 DEF IInv, Alone, OneByOne, Idle
    <3>2. St("revert", reg[w].match, w, 0) = St("revert", m, u, 0)
      BY <1>2, <2>4, <3>1
    <3>3. reg[w].match = m /\ w = u
      BY <3>2 DEF St
    <3>4. reg[u] = [status |-> "accepted", match |-> m]
      BY <1>9, <2>1, <2>2, <3>3
    <3> QED
      BY <1>6, <1>9, <2>1, <3>3, <3>4
  <2> QED
    BY <2>2, <2>3, <2>4 DEF Reverting
<1>10. AcceptedStand'
  BY <1>1, <1>9 DEF AcceptedStand, OneByOne, Accepted, PlayersOf
<1> QED
  BY <1>1, <1>5, <1>7, <1>8, <1>10, SeatKeeps

LEMMA CreateRegistrationKeeps ==
  ASSUME IInv, NEW p \in Request, CreateRegistration(p)
  PROVE  Kept
<1>1. /\ ~Idle(p) /\ It(p).op = "apply" /\ GoOn(p) /\ UNCHANGED <<load, status, parts>>
  BY DEF CreateRegistration, Doing
<1>2. PICK u \in User : req[p].todo = <<St("apply", NoMatch, u, 0)>>
  BY <1>1, LeftIs DEF IInv, Served, Idle, It, AtApply
<1>3. Tail(req[p].todo) = <<>> /\ It(p) = St("apply", NoMatch, u, 0)
  BY <1>2, Tails1 DEF It
<1>4. Knows(p)' /\ Left(Tail(req[p].todo), load.kinds)
  BY <1>1, <1>3, GoesTo, IdleKnows DEF Idle, Left
<1>5. reg' = [reg EXCEPT ![u] = [status |-> "pending", match |-> NoMatch]]
  BY <1>3 DEF CreateRegistration, St
<1>6. TypeOK'
  BY <1>1, <1>5 DEF IInv, TypeOK, Exists
<1>7. FinishedStep
  BY <1>1 DEF FinishedStep
<1>8. \A w \in User : reg'[w].status = "accepted" => reg'[w] = reg[w]
  BY <1>5 DEF IInv, TypeOK
<1>9. AcceptedStand'
  BY <1>1, <1>8, Seated DEF AcceptedStand, OneByOne, Accepted, PlayersOf
<1> QED
  BY <1>1, <1>4, <1>6, <1>7, <1>9, SeatKeeps

LEMMA DecideRegistrationKeeps ==
  ASSUME IInv, NEW p \in Request, DecideRegistration(p)
  PROVE  Kept
<1>1. /\ ~Idle(p) /\ It(p).op = "decide" /\ GoOn(p) /\ UNCHANGED <<load, status, parts>>
  BY DEF DecideRegistration, Doing
<1>2. PICK u \in User, x \in {"declined", "pending"} : req[p].todo = <<St("decide", NoMatch, u, x)>>
  BY <1>1, LeftIs DEF IInv, Served, Idle, It, AtDecide
<1>3. Tail(req[p].todo) = <<>> /\ It(p) = St("decide", NoMatch, u, x)
  BY <1>2, Tails1 DEF It
<1>4. Knows(p)' /\ Left(Tail(req[p].todo), load.kinds)
  BY <1>1, <1>3, GoesTo, IdleKnows DEF Idle, Left
<1>5. reg' = reg \/ reg' = [reg EXCEPT ![u].status = x]
  BY <1>3 DEF DecideRegistration, St
<1>6. TypeOK'
  BY <1>1, <1>5 DEF IInv, TypeOK, Exists
<1>7. FinishedStep
  BY <1>1 DEF FinishedStep
<1>8. \A w \in User : reg'[w].status = "accepted" => reg'[w] = reg[w]
  BY <1>5 DEF IInv, TypeOK
<1>9. AcceptedStand'
  BY <1>1, <1>8, Seated DEF AcceptedStand, OneByOne, Accepted, PlayersOf
<1> QED
  BY <1>1, <1>4, <1>6, <1>7, <1>9, SeatKeeps

LEMMA GetParticipantKeeps ==
  ASSUME IInv, NEW p \in Request, GetParticipant(p)
  PROVE  Kept
<1>1. /\ ~Idle(p) /\ It(p).op = "who" /\ UNCHANGED <<load, status, parts, reg>>
  BY DEF GetParticipant, Doing
<1>2. PICK m \in Match, i \in Seat : req[p].todo = <<St("who", m, NoUser, i), St("remove", m, NoUser, i)>>
  BY <1>1, LeftIs DEF IInv, Served, Idle, It, AtWho
<1>3. Tail(req[p].todo) = <<St("remove", m, NoUser, i)>> /\ It(p) = St("who", m, NoUser, i)
  BY <1>2, Tails2 DEF It
<1>4. It(p).m = m /\ It(p).x = i
  BY <1>3 DEF St
<1> DEFINE u == parts[m][i]
           t == <<St("remove", m, NoUser, i)>> \o
                  (IF u = NoUser THEN <<>> ELSE <<St("revert", m, u, 0)>>)
<1>5. u \in User \cup {NoUser}
  BY DEF IInv, TypeOK
<1>6. req' = [req EXCEPT ![p] = [req[p] EXCEPT !.todo = t]]
  BY <1>3, <1>4 DEF GetParticipant
<1>7. /\ u = NoUser => t = <<St("remove", m, NoUser, i)>>
      /\ u # NoUser => t = <<St("remove", m, NoUser, i), St("revert", m, u, 0)>>
  BY Joins
<1>8. Left(t, load.kinds)
  BY <1>5, <1>7, LeftRemove, LeftRemoveRevert
<1>9. load.at = 1 => status[m] # "finished"
  BY <1>1, <1>4 DEF IInv, Known, Knows, Doing
<1> DEFINE Rem == St("remove", m, NoUser, i)
<1>10. /\ t # <<>> /\ Head(t) = Rem
       /\ u = NoUser => Len(t) = 1 /\ DOMAIN t = 1..1
       /\ u # NoUser => Len(t) = 2 /\ t[2] = St("revert", m, u, 0) /\ DOMAIN t = 1..2
       /\ t[1] = Rem
  <2> HIDE DEF t, u
  <2> QED
    BY <1>7, Tails1, Tails2
<1> HIDE DEF t, u, Rem
<1>11. req[p] = [todo |-> req[p].todo, held |-> req[p].held] /\ req[p].held \in SUBSET User
  BY DEF IInv, Served
<1>12. req' = [req EXCEPT ![p] = [todo |-> t, held |-> req[p].held]]
  <2>1. [req[p] EXCEPT !.todo = t] = [todo |-> t, held |-> req[p].held]
    BY <1>11, RowExcept
  <2> QED
    BY <1>6, <2>1
<1>13. req'[p].todo = t
  BY <1>12 DEF IInv, Served
<1>14. Rem.op = "remove" /\ Rem.m = m /\ Rem.x = i
  BY DEF Rem, St
<1>15. load.at = 1 => Knows(p)'
  <2>1. It(p)' = Rem /\ \A j \in DOMAIN req'[p].todo : req'[p].todo[j].op # "insert"
    BY <1>10, <1>13, <1>14 DEF It, St
  <2>2. parts'[m][i] = IF Len(req'[p].todo) = 1 THEN NoUser ELSE req'[p].todo[2].u
    BY <1>1, <1>10, <1>13 DEF u, St
  <2> QED
    BY <1>1, <1>9, <1>14, <2>1, <2>2 DEF Knows, Doing
<1>16. Served' /\ Alone' /\ Known'
  BY <1>1, <1>8, <1>11, <1>12, <1>15, Proceeding
<1>17. TypeOK'
  BY <1>1 DEF IInv, TypeOK, Exists
<1>18. OneOnAir' /\ AirStep
  BY <1>1, AirStays DEF IInv
<1>19. FinishedStep
  BY <1>1 DEF FinishedStep
<1>20. AcceptedStand'
  BY <1>1, StandStays
<1> QED
  BY <1>16, <1>17, <1>18, <1>19, <1>20 DEF Kept, IInv

LEMMA ReturnRegistrationsKeeps ==
  ASSUME IInv, NEW p \in Request, ReturnRegistrations(p)
  PROVE  Kept
<1>1. /\ ~Idle(p) /\ It(p).op = "return" /\ UNCHANGED <<load, status, parts, reg>>
  BY DEF ReturnRegistrations, Doing
<1>2. PICK m \in Match : req[p].todo = <<St("return", m, NoUser, 0), St("delete", m, NoUser, 0)>>
  BY <1>1, LeftIs DEF IInv, Served, Idle, It, AtReturn
<1>3. Tail(req[p].todo) = <<St("delete", m, NoUser, 0)>> /\ It(p) = St("return", m, NoUser, 0)
  BY <1>2, Tails2 DEF It
<1>4. It(p).m = m
  BY <1>3 DEF St
<1> DEFINE mine == {u \in User : reg[u].status = "accepted" /\ reg[u].match = m}
           t    == <<St("delete", m, NoUser, 0)>>
<1>5. req' = [req EXCEPT ![p] = [todo |-> t, held |-> mine]]
  <2> DEFINE row == [todo |-> req[p].todo, held |-> req[p].held]
  <2>1. req[p] = row
    BY DEF IInv, Served
  <2>2. req' = [req EXCEPT ![p] = [[req[p] EXCEPT !.todo = t] EXCEPT !.held = mine]]
    BY <1>3, <1>4 DEF ReturnRegistrations
  <2> HIDE DEF t, mine
  <2>3. [req[p] EXCEPT !.todo = t] = [todo |-> t, held |-> req[p].held]
    <3>1. req[p] = [todo |-> req[p].todo, held |-> req[p].held]
      BY <2>1 DEF row
    <3> QED
      BY <3>1, RowExcept
  <2>4. [[req[p] EXCEPT !.todo = t] EXCEPT !.held = mine] = [todo |-> t, held |-> mine]
    <3> DEFINE r == [req[p] EXCEPT !.todo = t]
    <3>1. r = [todo |-> t, held |-> req[p].held]
      BY <2>3
    <3> HIDE DEF r
    <3>2. [r EXCEPT !.held = mine] = [todo |-> t, held |-> mine]
      BY <3>1
    <3> QED
      BY <3>2 DEF r
  <2> QED
    BY <2>2, <2>4
<1>6. mine \in SUBSET User
  OBVIOUS
<1>7. Left(t, load.kinds)
  BY LeftDelete
<1>8. req'[p].todo = t /\ req'[p].held = mine
  BY <1>5 DEF IInv, Served
<1>9. load.at = 1 => Knows(p)'
  <2>1. It(p)' = St("delete", m, NoUser, 0) /\ DOMAIN req'[p].todo = 1..1
        /\ req'[p].todo[1] = St("delete", m, NoUser, 0)
    <3>1. req'[p].todo = <<St("delete", m, NoUser, 0)>>
      BY <1>8
    <3> QED
      BY <3>1, Tails1 DEF It
  <2>2. It(p)'.op = "delete" /\ It(p)'.m = m /\ req'[p].todo[1].op = "delete"
    BY <2>1 DEF St
  <2> QED
    BY <1>1, <1>8, <2>1, <2>2 DEF Knows, Doing, Accepted
<1>10. Served' /\ Alone' /\ Known'
  <2> HIDE DEF t, mine
  <2> QED
    BY <1>1, <1>5, <1>6, <1>7, <1>9, Proceeding
<1>11. TypeOK'
  BY <1>1 DEF IInv, TypeOK, Exists
<1>12. OneOnAir' /\ AirStep
  BY <1>1, AirStays DEF IInv
<1>13. FinishedStep
  BY <1>1 DEF FinishedStep
<1>14. AcceptedStand'
  BY <1>1, StandStays
<1> QED
  BY <1>10, <1>11, <1>12, <1>13, <1>14 DEF Kept, IInv

LEMMA DeleteTournamentKeeps ==
  ASSUME IInv, NEW p \in Request, DeleteTournament(p)
  PROVE  Kept
<1>1. /\ ~Idle(p) /\ It(p).op = "delete" /\ Stop(p) /\ load' = load
  BY DEF DeleteTournament, Doing
<1>2. PICK m \in Match : req[p].todo = <<St("delete", m, NoUser, 0)>>
  BY <1>1, LeftIs DEF IInv, Served, Idle, It, AtDelete
<1>3. It(p) = St("delete", m, NoUser, 0)
  BY <1>2, Tails1 DEF It
<1>4. It(p).m = m
  BY <1>3 DEF St
<1>5. CASE ~Exists(m)
  BY <1>1, <1>4, <1>5, StopKeeps DEF DeleteTournament
<1>6. CASE Exists(m)
  <2>1. /\ status' = [status EXCEPT ![m] = "none"]
        /\ parts' = [parts EXCEPT ![m] = Nobody]
        /\ reg' = [u \in User |->
                     IF u \in req[p].held THEN [status |-> "pending", match |-> NoMatch]
                     ELSE IF reg[u].match = m THEN [reg[u] EXCEPT !.match = NoMatch] ELSE reg[u]]
    BY <1>4, <1>6 DEF DeleteTournament
  <2>2. /\ status \in [Match -> Status]
        /\ parts \in [Match -> [Seat -> User \cup {NoUser}]]
        /\ reg \in [User -> [status : {"none", "pending", "accepted", "declined"},
                             match : Match \cup {NoMatch}]]
    BY DEF IInv, TypeOK
  <2>3. req' = [req EXCEPT ![p] = [todo |-> <<>>, held |-> {}]]
    BY <1>1, Stops DEF IInv
  <2>4. Served' /\ Alone' /\ Known'
    <3> DEFINE t == <<>>
               h == {}
    <3>1. h \in SUBSET User /\ req' = [req EXCEPT ![p] = [todo |-> t, held |-> h]] /\ Left(t, load.kinds)
      BY <2>3 DEF Left
    <3>2. Idle(p)'
      BY <2>3 DEF Idle, IInv, Served
    <3>3. Knows(p)'
      BY <3>2, IdleKnows
    <3> HIDE DEF t, h
    <3> QED
      BY <1>1, <3>1, <3>3, Proceeding
  <2>5. /\ \A n \in Match \ {m} : status'[n] = status[n] /\ parts'[n] = parts[n]
        /\ status'[m] = "none" /\ parts'[m] = Nobody
    BY <2>1, <2>2
  <2>6. TypeOK'
    <3>1. Nobody \in [Seat -> User \cup {NoUser}]
      BY DEF Nobody
    <3>2. parts' \in [Match -> [Seat -> User \cup {NoUser}]] /\ status' \in [Match -> Status]
      BY <2>1, <2>2, <3>1 DEF Status
    <3>3. reg' \in [User -> [status : {"none", "pending", "accepted", "declined"},
                             match : Match \cup {NoMatch}]]
      <4> SUFFICES ASSUME NEW u \in User
                   PROVE  reg'[u] \in [status : {"none", "pending", "accepted", "declined"},
                                       match : Match \cup {NoMatch}]
        BY <2>1
      <4>1. reg[u] \in [status : {"none", "pending", "accepted", "declined"}, match : Match \cup {NoMatch}]
        BY <2>2
      <4> QED
        BY <2>1, <4>1
    <3> QED
      BY <2>5, <3>2, <3>3 DEF TypeOK, IInv, Exists
  <2>7. OneOnAir' /\ AirStep
    BY <1>1, <2>1, StatusSteps DEF IInv, Status
  <2>8. FinishedStep
    BY <2>5 DEF FinishedStep
  <2>9. load.at = 1 => \A u \in User : Accepted(u) /\ reg[u].match = m => u \in req[p].held
    BY <1>1, <1>4 DEF IInv, Known, Knows, Doing
  <2>10. ASSUME OneByOne, "update" \notin load.kinds, NEW w \in User, reg'[w].status = "accepted"
         PROVE  reg'[w].match \in Match /\ w \in PlayersOf(reg[w].match)'
    <3>1. w \notin req[p].held
      BY <2>1, <2>10
    <3>2. Accepted(w)
      BY <2>1, <2>2, <2>10, <3>1 DEF Accepted
    <3>3. reg[w].match # m
      BY <2>9, <2>10, <3>1, <3>2 DEF OneByOne
    <3>4. reg'[w] = reg[w]
      BY <2>1, <3>1, <3>3
    <3>5. reg[w].match \in Match /\ w \in PlayersOf(reg[w].match)
      BY <1>1, <2>10, <3>2, Seated
    <3>6. parts'[reg[w].match] = parts[reg[w].match]
      BY <2>5, <3>3, <3>5
    <3> QED
      BY <3>4, <3>5, <3>6 DEF PlayersOf
  <2>11. AcceptedStand'
    BY <1>1, <2>10 DEF AcceptedStand, OneByOne, Accepted, PlayersOf
  <2> QED
    BY <2>4, <2>6, <2>7, <2>8, <2>11 DEF Kept, IInv
<1> QED
  BY <1>5, <1>6

\* What inserts a match, with or without its players.
LEMMA InsertKeeps ==
  ASSUME IInv, NEW p \in Request, Insert(p)
  PROVE  Kept
<1>1. /\ ~Idle(p) /\ It(p).op = "insert" /\ GoOn(p) /\ UNCHANGED <<load, reg>>
  BY DEF Insert, Doing
<1>2. PICK m \in Match :
        \/ req[p].todo = <<St("insert", m, Nobody, "upcoming")>>
        \/ \E a, b \in User : \E x \in {"upcoming", "live"} :
             req[p].todo = <<St("insert", m, <<a, b>>, x), Place(m, a), Place(m, b)>>
  <2>1. AtInsert(req[p].todo)
    BY <1>1, LeftIs DEF IInv, Served, Idle, It
  <2> QED
    BY <2>1 DEF AtInsert
<1>3. PICK x \in {"upcoming", "live"}, seats \in [Seat -> User \cup {NoUser}] : It(p) = St("insert", m, seats, x)
  <2>1. CASE req[p].todo = <<St("insert", m, Nobody, "upcoming")>>
    <3>1. It(p) = St("insert", m, Nobody, "upcoming")
      BY <2>1, Tails1 DEF It
    <3>2. Nobody \in [Seat -> User \cup {NoUser}]
      BY DEF Nobody
    <3> QED
      BY <3>1, <3>2
  <2>2. ASSUME NEW a \in User, NEW b \in User, NEW y \in {"upcoming", "live"},
               req[p].todo = <<St("insert", m, <<a, b>>, y), Place(m, a), Place(m, b)>>
        PROVE  \E x \in {"upcoming", "live"}, seats \in [Seat -> User \cup {NoUser}] :
                 It(p) = St("insert", m, seats, x)
    <3>1. It(p) = St("insert", m, <<a, b>>, y)
      BY <2>2, Tails3 DEF It
    <3>2. <<a, b>> \in [Seat -> User \cup {NoUser}]
      BY DEF Seat
    <3> QED
      BY <3>1, <3>2
  <2> QED
    BY <1>2, <2>1, <2>2
<1>4. It(p).m = m /\ It(p).u = seats /\ It(p).x = x
  BY <1>3 DEF St
<1>5. status' = [status EXCEPT ![m] = x] /\ parts' = [parts EXCEPT ![m] = seats]
  BY <1>4 DEF Insert
<1>6. /\ status \in [Match -> Status] /\ parts \in [Match -> [Seat -> User \cup {NoUser}]]
      /\ x \in Status
  BY DEF IInv, TypeOK, Status
<1>7. /\ \A n \in Match \ {m} : status'[n] = status[n] /\ parts'[n] = parts[n]
      /\ status'[m] = x /\ parts'[m] = seats
  BY <1>5, <1>6
<1>8. load.at = 1 => /\ ~Exists(m)
                     /\ x = "live" => Live = {}
  <2>1. 1 \in DOMAIN req[p].todo /\ req[p].todo[1] = It(p)
    <3>1. CASE req[p].todo = <<St("insert", m, Nobody, "upcoming")>>
      BY <3>1, Tails1 DEF It
    <3>2. ASSUME NEW a \in User, NEW b \in User, NEW y \in {"upcoming", "live"},
                 req[p].todo = <<St("insert", m, <<a, b>>, y), Place(m, a), Place(m, b)>>
          PROVE  1 \in DOMAIN req[p].todo /\ req[p].todo[1] = It(p)
      BY <3>2, Tails3 DEF It
    <3> QED
      BY <1>2, <3>1, <3>2
  <2> QED
    BY <1>1, <1>4, <2>1 DEF IInv, Known, Knows, Doing
<1>9. TypeOK'
  <2>1. status' \in [Match -> Status] /\ parts' \in [Match -> [Seat -> User \cup {NoUser}]]
    BY <1>5, <1>6
  <2> QED
    BY <1>1, <1>7, <2>1 DEF IInv, TypeOK, Exists
<1>10. OneOnAir' /\ AirStep
  BY <1>1, <1>5, <1>6, <1>8, StatusSteps DEF IInv, Promised, OneByOne
<1>11. FinishedStep
  BY <1>7, <1>8 DEF FinishedStep, Exists
<1>12. ASSUME OneByOne, "update" \notin load.kinds, NEW w \in User, Accepted(w)
       PROVE  reg[w].match \in Match /\ w \in PlayersOf(reg[w].match)'
  <2>1. reg[w].match \in Match /\ w \in PlayersOf(reg[w].match)
    BY <1>1, <1>12, Seated
  <2>2. parts[m] = Nobody
    BY <1>8, <1>12 DEF IInv, TypeOK, OneByOne
  <2>3. PlayersOf(m) = {}
    BY <2>2 DEF PlayersOf, Nobody
  <2>4. reg[w].match # m
    BY <2>1, <2>3
  <2>5. parts'[reg[w].match] = parts[reg[w].match]
    BY <1>7, <2>1, <2>4
  <2> QED
    BY <1>1, <2>1, <2>5 DEF PlayersOf
<1>13. AcceptedStand'
  BY <1>1, <1>12 DEF AcceptedStand, OneByOne, Accepted, PlayersOf
<1>14. req'[p].todo = Tail(req[p].todo)
  BY <1>1, GoesTo
<1>15. CASE req[p].todo = <<St("insert", m, Nobody, "upcoming")>>
  <2>1. Tail(req[p].todo) = <<>>
    BY <1>15, Tails1
  <2>2. Knows(p)' /\ Left(Tail(req[p].todo), load.kinds)
    BY <1>14, <2>1, IdleKnows DEF Idle, Left
  <2> QED
    BY <1>1, <1>9, <1>10, <1>11, <1>13, <2>2, Goes
<1>16. ASSUME NEW a \in User, NEW b \in User, NEW y \in {"upcoming", "live"},
              req[p].todo = <<St("insert", m, <<a, b>>, y), Place(m, a), Place(m, b)>>
       PROVE  Kept
  <2>1. Tail(req[p].todo) = <<Place(m, a), Place(m, b)>> /\ It(p) = St("insert", m, <<a, b>>, y)
    BY <1>16, Tails3 DEF It
  <2>2. Left(Tail(req[p].todo), load.kinds)
    BY <2>1, LeftPlaces
  <2>3. seats = <<a, b>>
    BY <1>4, <2>1 DEF St
  <2>4. a \in PlayersOf(m)' /\ b \in PlayersOf(m)'
    <3>1. parts'[m][1] = a /\ parts'[m][2] = b
      BY <1>7, <2>3
    <3> QED
      BY <3>1, SiteAssumption DEF PlayersOf, Seat
  <2>5. Knows(p)'
    <3>1. req'[p].todo = <<Place(m, a), Place(m, b)>>
      BY <1>14, <2>1
    <3>2. /\ It(p)' = Place(m, a) /\ DOMAIN req'[p].todo = 1..2
          /\ req'[p].todo[1] = Place(m, a) /\ req'[p].todo[2] = Place(m, b)
      BY <3>1, Tails2 DEF It
    <3>3. /\ It(p)'.op = "place" /\ req'[p].todo[1].op = "place" /\ req'[p].todo[2].op = "place"
          /\ req'[p].todo[1].u = a /\ req'[p].todo[1].m = m
          /\ req'[p].todo[2].u = b /\ req'[p].todo[2].m = m
      BY <3>2 DEF Place, St
    <3>4. \A i \in 1..2 : i = 1 \/ i = 2
      OBVIOUS
    <3> QED
      BY <2>4, <3>2, <3>3, <3>4 DEF Knows, Doing, PlayersOf
  <2> QED
    BY <1>1, <1>9, <1>10, <1>11, <1>13, <2>2, <2>5, Goes
<1> QED
  BY <1>2, <1>15, <1>16

LEMMA ClientGoneKeeps ==
  ASSUME IInv, NEW p \in Request, ClientGone(p)
  PROVE  Kept
BY StopKeeps DEF ClientGone, OneByOne

-------------------------------------------------------------------------------
(* The theorems.                                                           *)

LEMMA InitHolds == Init => IInv /\ Promise!Init
<1> SUFFICES ASSUME Init PROVE IInv /\ Promise!Init
  OBVIOUS
<1>1. /\ load \in Loads /\ status = [m \in Match |-> "none"] /\ parts = [m \in Match |-> Nobody]
      /\ reg = [u \in User |-> [status |-> IF load.applied THEN "pending" ELSE "none", match |-> NoMatch]]
      /\ req = [p \in Request |-> Blank]
  BY DEF Init
<1>2. TypeOK
  BY <1>1 DEF TypeOK, Status, Nobody
<1>3. \A p \in Request : req[p].todo = <<>> /\ req[p].held = {} /\ Idle(p)
  BY <1>1 DEF Blank, Idle
<1>4. Served
  <2>1. \A p \in Request : req[p] = [todo |-> req[p].todo, held |-> req[p].held]
    BY <1>1 DEF Blank
  <2>2. \A p \in Request : Left(req[p].todo, load.kinds)
    BY <1>3 DEF Left
  <2> QED
    BY <1>1, <1>3, <2>1, <2>2 DEF Served
<1>5. Alone
  BY <1>3 DEF Alone
<1>6. Known
  BY <1>3 DEF Known, Knows, Doing
<1>7. Live = {}
  BY <1>1 DEF Live
<1>8. OneOnAir
  BY <1>7 DEF OneOnAir
<1>9. AcceptedStand
  BY <1>1 DEF AcceptedStand, Accepted
<1>10. Promise!Init
  BY <1>1, <1>7 DEF Promise!Init
<1> QED
  BY <1>2, <1>4, <1>5, <1>6, <1>8, <1>9, <1>10 DEF IInv

LEMMA StepKeeps == IInv /\ [Next]_vars => Kept
<1> SUFFICES ASSUME IInv, [Next]_vars PROVE Kept
  OBVIOUS
<1>1. CASE UNCHANGED vars
  <2>1. UNCHANGED <<load, status, parts, reg, req>>
    BY <1>1 DEF vars
  <2>2. IInv'
    <3>1. TypeOK' /\ Served' /\ Alone' /\ OneOnAir'
      BY <2>1 DEF IInv, TypeOK, Served, Alone, OneOnAir, Exists, Idle, Promised, OneByOne, Live
    <3>2. Known'
      BY <2>1 DEF IInv, Known, Knows, Doing, Idle, It, Exists, Live, PlayersOf, Accepted
    <3>3. AcceptedStand'
      BY <2>1 DEF IInv, AcceptedStand, OneByOne, Accepted, PlayersOf, Reverting
    <3> QED
      BY <3>1, <3>2, <3>3 DEF IInv
  <2>3. AirStep
    BY <2>1, AirStays DEF IInv
  <2> QED
    BY <2>1, <2>2, <2>3 DEF Kept, FinishedStep
<1>2. ASSUME NEW p \in Request, Arrives(p) PROVE Kept
  BY <1>2, ArrivesKeeps
<1>3. ASSUME NEW p \in Request, Proceeds(p) PROVE Kept
  <2>1. CASE MatchGuard(p) \/ BlockIfFinished(p) \/ CurrentMatchID(p) \/ Insert(p) \/ StartShowMatch(p)
    BY <2>1, MatchGuardKeeps, BlockIfFinishedKeeps, CurrentMatchIDKeeps, InsertKeeps, StartShowMatchKeeps
  <2>2. CASE ChooseRound(p) \/ StartNextRound(p) \/ DemoteLiveExcept(p) \/ UpdateTournamentStatus(p)
    BY <2>2, ChooseRoundKeeps, StartNextRoundKeeps, DemoteLiveExceptKeeps, UpdateTournamentStatusKeeps
  <2>3. CASE ReturnRegistrations(p) \/ DeleteTournament(p) \/ AddParticipant(p) \/ UpdateParticipant(p)
    BY <2>3, ReturnRegistrationsKeeps, DeleteTournamentKeeps, AddParticipantKeeps, UpdateParticipantKeeps
  <2>4. CASE GetParticipant(p) \/ RemoveParticipant(p) \/ MarkRegistrationPlaced(p)
    BY <2>4, GetParticipantKeeps, RemoveParticipantKeeps, MarkRegistrationPlacedKeeps
  <2>5. CASE RevertRegistrationToPool(p) \/ CreateRegistration(p) \/ DecideRegistration(p)
    BY <2>5, RevertRegistrationToPoolKeeps, CreateRegistrationKeeps, DecideRegistrationKeeps
  <2> QED
    BY <1>3, <2>1, <2>2, <2>3, <2>4, <2>5 DEF Proceeds
<1>4. ASSUME NEW p \in Request, ClientGone(p) PROVE Kept
  BY <1>4, ClientGoneKeeps
<1> QED
  BY <1>1, <1>2, <1>3, <1>4 DEF Next

LEMMA Invariance == Spec => []IInv
<1>1. Init => IInv
  BY InitHolds
<1>2. IInv /\ [Next]_vars => IInv'
  BY StepKeeps DEF Kept
<1> QED
  BY <1>1, <1>2, PTL DEF Spec

\* The tables of matches, participants and applications keep their types, a match that is
\* gone leaves no participants, and with no request under way whoever was accepted plays
\* the match that took him.
THEOREM SeatsTheorem == Spec => []SeatsAgree
<1>1. IInv => SeatsAgree
  BY DEF IInv, SeatsAgree, AcceptedPlays, AcceptedStand, Accepted, Reverting, Idle
<1> QED
  BY <1>1, Invariance, PTL

\* The matches implement OnAir: one at a time is on air, and another comes only after it has
\* ended, was put off or was called off (CurrentMatchID, DemoteLiveExcept).
THEOREM AirTheorem == Spec => AirPromise
<1>1. Init => Promise!Init
  BY InitHolds
<1>2. IInv /\ [Next]_vars => [Promise!Next]_(Promise!Vars)
  BY StepKeeps DEF Kept, AirStep
<1> QED
  BY <1>1, <1>2, Invariance, PTL DEF Spec, AirPromise, Promise!Spec

\* The participants of a finished match stay as they are until it is reopened, with one
\* request at a time (blockIfFinished).
THEOREM FinishedTheorem == Spec => FinishedClosed
<1>1. IInv /\ [Next]_vars => FinishedStep
  BY StepKeeps DEF Kept
<1>2. FinishedStep =>
        [load.at = 1 => \A m \in Match :
           status[m] = "finished" /\ status'[m] = "finished" => parts'[m] = parts[m]]_vars
  BY DEF FinishedStep
<1> QED
  BY <1>1, <1>2, Invariance, PTL DEF Spec, FinishedClosed
===============================================================================
