----------------------------- MODULE PeopleProofs -----------------------------
(***************************************************************************)
(* What players can rely on, for any number of accounts, names, teams,     *)
(* matches, clips and requests.  Layers of one invariant: what the tables  *)
(* and the requests hold (Tables); whose names are whose while two         *)
(* registrations wait for one lock (Apart); who plays and in whose team    *)
(* while accounts are deleted (Kept); which file is whose (Filed).  For    *)
(* one request at a time: what it saw of accounts and links (Managed), of  *)
(* teams and matches (Called), and of claims (Claimed).                    *)
(***************************************************************************)
EXTENDS People, FiniteSetTheorems, SequenceTheorems, TLAPS

-------------------------------------------------------------------------------
(* What the tables and the requests hold.                                  *)

AccountsAt == {"signup", "place", "session", "rename", "renaming", "count", "role", "unlink", "existing",
               "link", "reset", "claim", "free", "password", "spent", "delete", "locked", "clear"}
TeamsAt == {"team", "update", "drop", "1x1", "2x2", "add", "edit"}
MediaAt == {"pending", "submit", "reload", "decide", "remove"}

Roles    == {Player, Moderator, Superadmin}
Decided  == {"approved", "rejected"}
AnyName  == Name \cup TeamName
Side     == [who : SUBSET User, name : AnyName, called : UNION {[us -> Name \cup {NoName}] : us \in SUBSET User}]
Record   == [mode : {"1x1", "2x2"}, st : {"coming", "finished", "gone"},
             sides : Seq(Side), title : {Own} \cup Seq(AnyName), hand : BOOLEAN]

Row      == [st : {"none", "here", "gone"}, login : Name \cup {NoName}, name : Name \cup {NoName},
             role : Roles, pass : BOOLEAN, after : Nat, stub : Name \cup {NoName}]

AccountTables ==
  /\ account \in [User -> Row]
  /\ \A u \in Here : account[u].login \in Name /\ account[u].name \in Name
  /\ alias \subseteq [name : Name, user : User]
  /\ link \subseteq [user : User, token : Nat]
  /\ session \subseteq [user : User, iat : Nat]
  /\ now \in Nat /\ made \in Nat /\ load \in Loads

TeamTables ==
  /\ team \subseteq [pair : Pairs, name : TeamName]
  /\ match \in Seq(Record)
  /\ \A m \in DOMAIN match : \A i \in SidesOf(m) : match[m].sides[i].who \subseteq DOMAIN match[m].sides[i].called

MediaTables ==
  /\ clip \in [Clip -> [st : {"none", "processing", "pending", "failed", "gone"} \cup Decided,
                        user : User \cup {NoUser}, path : BOOLEAN]]
  /\ job \in [Clip -> {"none", "clip", "upload", "fetched", "failed", "heavy", "shrinking"}]
  /\ claim \subseteq [shot : Shot, user : User, kind : StatKind, st : {"pending"} \cup Decided]
  /\ disk \subseteq Clip \cup Shot

\* What a request has with it at each statement.
Fields(r) ==
  r \in [at : {"idle"} \cup AccountsAt \cup TeamsAt \cup MediaAt, user : User \cup {NoUser},
         name : {r.name}, token : Nat, role : Nat, args : {r.args}]
Carries(r) ==
  /\ r.at \in AccountsAt \cup {"pending", "submit", "reload"} => r.user \in User
  /\ r.at \in {"signup", "place", "rename", "renaming"} => r.name \in Name
  /\ r.at \in {"count", "role"} => r.role \in Roles
  /\ r.at \in {"team", "update", "add", "edit"} => r.name \in TeamName
  /\ r.at \in {"team", "update", "drop"} => r.args[1] \in Pairs
  /\ r.at = "update" => r.args[2] \in Pairs
  /\ r.at \in {"1x1", "2x2"} =>
       /\ r.args \in [1..2 -> Side]
       /\ \A i \in 1..2 : r.args[i].who = DOMAIN r.args[i].called
  /\ r.at \in {"add", "edit"} => r.args[2] \subseteq User
  /\ r.at \in {"pending", "submit", "reload"} => r.args[1] \in Shot
  /\ r.at \in {"pending", "submit"} => r.name \in StatKind
  /\ r.at = "submit" => r.args[2] \subseteq Shot
  /\ r.at = "reload" => r.args[2] \in Shot
  /\ r.at = "remove" => r.args[1] \in Clip \cup Shot
  /\ r.at = "decide" => r.name \in Decided

RequestTable ==
  /\ req = [p \in Request |-> req[p]]
  /\ \A p \in Request : Fields(req[p]) /\ Carries(req[p])

Tables == AccountTables /\ TeamTables /\ MediaTables /\ RequestTable

-------------------------------------------------------------------------------
(* What holds however requests meet.                                       *)

\* The name is nobody else's but as a login that the form of a match has just given.
Clear(u, n) ==
  /\ \A v \in Here \ {u} : account[v].name = n => account[v].login = n
  /\ \A a \in alias : a.name = n => a.user = u

\* A request that is about to take a name has made sure that it is free.
Apart ==
  /\ \A a \in alias : a.user \in Here
  /\ \A l \in link : l.user \in Here
  /\ \A a, b \in alias : a.name = b.name => a = b
  /\ NamesApart
  /\ \A p, q \in Request : req[p].at \in {"signup", "renaming"} /\ req[q].at \in {"signup", "renaming"} => p = q
  /\ \A p \in Request, u \in User, n \in Name :
       req[p].at \in {"signup", "renaming"} /\ req[p].user = u /\ req[p].name = n => Clear(u, n)
  /\ \A p \in Request : req[p].at \in {"signup", "place"} =>
       /\ account[req[p].user].st = "none"
       /\ \A q \in Request \ {p} : req[q].user # req[p].user

\* A deletion that has looked finds no match of its player, as no new one comes.
TeamsHere ==
  /\ \A t \in team : t.pair \subseteq Here
  /\ \A t, o \in team : t.pair = o.pair => t = o

SinglesStay ==
  \A m \in Matches : \A i \in SidesOf(m) : match[m].mode = "1x1" =>
    /\ match[m].sides[i].who = DOMAIN match[m].sides[i].called /\ match[m].sides[i].who \subseteq Here
    /\ \A p \in Request : At(p, "clear") => req[p].user \notin match[m].sides[i].who

Kept == TeamsHere /\ SinglesStay

\* The screenshots that only a request knows.
HoldsOf(r) ==
  {s \in Shot : \/ r.at \in {"pending", "submit", "remove"} /\ r.args[1] = s
                \/ r.at = "reload" /\ r.args[2] = s /\ r.args[1] # s}
Holds(p) == HoldsOf(req[p])

Owned ==
  /\ \A c \in claim : c.shot \in disk
  /\ \A c, d \in claim : c.shot = d.shot => c = d
  /\ \A p \in Request : \A s \in Holds(p) :
       /\ s \in disk
       /\ \A c \in claim : c.shot # s
       /\ \A q \in Request \ {p} : s \notin Holds(q)

ClipsFiled ==
  /\ \A c \in Shown : clip[c].path \/ Working(c, "fetched") => c \in disk
  /\ \A p \in Request, c \in Clip : At(p, "remove") /\ req[p].args[1] = c => clip[c].st = "gone"

Filed == ClipsFiled /\ (~Kind("leave") => Owned)

-------------------------------------------------------------------------------
(* What one request at a time sees is still so when it writes.             *)

OneServed == \A p, q \in Request : ~At(p, "idle") /\ ~At(q, "idle") => p = q

ManagedBy(r) ==
  /\ r.at \in {"delete", "locked", "clear"} => account[r.user].role # Superadmin
  /\ r.at = "role" => r.role = Superadmin \/ \E v \in Organizers : v # r.user
  /\ r.at \in {"session", "spent"} => account[r.user].pass
  /\ r.at \in {"unlink", "existing", "link"} => r.user \in Here /\ ~account[r.user].pass
  /\ r.at = "link" => LinksOf(r.user) = {}
  /\ r.at \in {"password", "spent"} => r.user \in Here

SessionsOld == \A s \in session : s.user \in Here /\ ~account[s.user].pass => s.iat <= account[s.user].after
OneLink     == \A k, l \in link : k.user = l.user => k = l
LinksOpen   == ~Kind("boot") => \A l \in link :
                 account[l.user].pass => \E p \in Request : At(p, "spent") /\ req[p].user = l.user

ManagedAlone ==
  /\ OneServed /\ Organizers # {} /\ SessionsOld /\ OneLink /\ LinksOpen
  /\ \A p \in Request : ManagedBy(req[p])

Managed == Alone => ManagedAlone /\ \A s \in session : s.iat <= now

\* How the sides of a match are called, as far as it is kept up to date.
SideCalled(s) == \A u \in s.who : s.called[u] = account[u].name
TeamCalled(s) == \A t \in TeamOf(s.who) : s.name = t.name

CalledBy(r) ==
  /\ r.at = "clear" => ~HasTeamHistory(r.user)
  /\ r.at = "update" /\ r.args[2] # r.args[1] => ~Played(r.args[1])
  /\ r.at = "drop" => ~Played(r.args[1])
  /\ r.at \in {"1x1", "2x2"} => \A i \in 1..2 : r.args[i].who \subseteq Here /\ SideCalled(r.args[i])
  /\ r.at = "2x2" => \A i \in 1..2 : TeamOf(r.args[i].who) # {} /\ TeamCalled(r.args[i])
  /\ r.at \in {"add", "edit"} => r.args[2] \subseteq Here

\* A side is as its players and its team are, unless it may have been written by hand.
Right(m, i) ==
  LET s == match[m].sides[i] IN
  /\ s.who = DOMAIN s.called /\ s.who \subseteq Here
  /\ ~match[m].hand =>
       /\ SideCalled(s)
       /\ match[m].mode = "2x2" => TeamOf(s.who) # {}
       /\ match[m].mode = "2x2" /\ Coming(m) /\ ~Kind("reopen") =>
            TeamCalled(s) /\ match[m].title \in {Own, Title(match[m].sides)}

AllRight    == \A m \in Matches : \A i \in SidesOf(m) : Right(m, i)
CalledAlone == AllRight /\ \A p \in Request : CalledBy(req[p])
Called      == Alone => CalledAlone

Waiting(u, k) == {c \in claim : c.user = u /\ c.kind = k /\ c.st = "pending"}
\* A claim waits alone, and its transaction has found the one that waited before it.
WaitsOnce ==
  \A c, d \in claim : c.user = d.user /\ c.kind = d.kind /\ c.st = "pending" /\ d.st = "pending" => c = d
ClaimedBy(r) == r.at = "submit" => r.args[2] = {c.shot : c \in Waiting(r.user, r.name)}

ClaimedAlone == WaitsOnce /\ \A p \in Request : ClaimedBy(req[p])
Claimed      == Alone => ClaimedAlone

-------------------------------------------------------------------------------
(* Requests that come, go on and end.                                      *)

Statements == {"idle"} \cup AccountsAt \cup TeamsAt \cup MediaAt

\* Who takes the step: a request that comes, or one that is being served.
Serving == Server \cup (Request \ Idle)

\* The step of one request leaves the others as they are.
Others(p) == \A q \in Request \ {p} : req'[q] = req[q]

\* A request that goes on keeps what it has.
Keeps(p) ==
  /\ req'[p].user = req[p].user /\ req'[p].name = req[p].name /\ req'[p].role = req[p].role
  /\ req'[p].token = req[p].token /\ req'[p].args = req[p].args

LEMMA BlankFacts ==
  /\ Blank.at = "idle" /\ Blank.user = NoUser /\ Fields(Blank) /\ Carries(Blank)
  /\ NoUser \notin User
<1>1. NoUser \notin User
  BY AccountsAssumption
<1>2. /\ Blank.at = "idle" /\ Blank.user = NoUser /\ Blank.token = 0 /\ Blank.role = 0
  BY DEF Blank
<1>3. Fields(Blank)
  BY <1>2 DEF Blank, Fields
<1>4. Carries(Blank)
  BY <1>2 DEF Carries, AccountsAt
<1> QED BY <1>1, <1>2, <1>3, <1>4

LEMMA Replaces ==
  ASSUME RequestTable, NEW p \in Request, NEW r, req' = [req EXCEPT ![p] = r],
         Fields(r), Carries(r)
  PROVE  RequestTable' /\ req'[p] = r /\ Others(p)
<1>1. req'[p] = r
  BY DEF RequestTable
<1>2. \A q \in Request \ {p} : req'[q] = req[q]
  BY DEF RequestTable
<1>3. req' = [q \in Request |-> req'[q]]
  BY DEF RequestTable
<1>4. \A q \in Request : Fields(req'[q]) /\ Carries(req'[q])
  <2> TAKE q \in Request
  <2>1. CASE q = p
    BY <2>1, <1>1
  <2>2. CASE q # p
    BY <2>2, <1>2 DEF RequestTable
  <2> QED BY <2>1, <2>2
<1> QED BY <1>1, <1>2, <1>3, <1>4 DEF RequestTable, Others

LEMMA Arrives ==
  ASSUME RequestTable, NEW p \in Request, NEW kind, NEW r, Arrive(p, kind, r),
         Fields(r), Carries(r)
  PROVE  RequestTable' /\ req'[p] = r /\ Others(p) /\ made' = made + 1 /\ load' = load
<1>1. req' = [req EXCEPT ![p] = r]
  BY DEF Arrive
<1> QED BY <1>1, Replaces DEF Arrive

LEMMA DoneFacts ==
  ASSUME RequestTable, NEW p \in Request, Done(p)
  PROVE  RequestTable' /\ req'[p] = Blank /\ Others(p) /\ req'[p].at = "idle" /\ req'[p].user = NoUser
<1>1. req' = [req EXCEPT ![p] = Blank]
  BY DEF Done
<1> QED BY <1>1, Replaces, BlankFacts

\* The next statement of the request.
LEMMA GoFacts ==
  ASSUME RequestTable, NEW p \in Request, NEW s \in Statements, Go(p, s)
  PROVE  /\ Others(p) /\ req'[p].at = s /\ Keeps(p)
         /\ Carries(req'[p]) => RequestTable'
<1> DEFINE r == [req[p] EXCEPT !.at = s]
<1>1. Fields(req[p])
  BY DEF RequestTable
<1>2. /\ r.at = s /\ r.user = req[p].user /\ r.name = req[p].name /\ r.role = req[p].role
      /\ r.token = req[p].token /\ r.args = req[p].args
  BY <1>1 DEF Fields
<1>3. Fields(r)
  BY <1>1, <1>2 DEF Fields, Statements
<1>4. req' = [req EXCEPT ![p] = r]
  BY DEF Go
<1> HIDE DEF r
<1>5. req'[p] = r /\ \A q \in Request \ {p} : req'[q] = req[q]
  BY <1>4 DEF RequestTable
<1>6. Carries(r) => RequestTable'
  BY <1>3, <1>4, Replaces
<1> QED BY <1>2, <1>5, <1>6 DEF Others, Keeps

\* A request is served by an idle one; if they come one by one, all are idle.
LEMMA ServerFacts ==
  ASSUME RequestTable, load \in Loads, NEW p \in Server
  PROVE  /\ p \in Request /\ At(p, "idle")
         /\ Alone => \A q \in Request : At(q, "idle")
<1>1. /\ Cardinality(Request \ Idle) < load.at /\ p = CHOOSE q \in Idle : TRUE
  BY DEF Server
<1>2. load.at \in 0..Cardinality(Request) /\ IsFiniteSet(Request)
  BY LoadsAssumption, AccountsAssumption
<1>5. Cardinality(Request) \in Nat /\ IsFiniteSet(Request \ Idle) /\ Cardinality(Request \ Idle) \in Nat
  BY <1>2, FS_CardinalityType, FS_Difference
<1>3. Idle # {}
  <2>1. Request \ {} = Request
    OBVIOUS
  <2> QED BY <2>1, <1>1, <1>2, <1>5
<1>4. p \in Idle
  BY <1>1, <1>3
<1>6. ASSUME Alone PROVE \A q \in Request : At(q, "idle")
  <2>1. Cardinality(Request \ Idle) = 0
    BY <1>1, <1>5, <1>6 DEF Alone
  <2>2. Request \ Idle = {}
    BY <2>1, <1>5, FS_EmptySet
  <2> QED BY <2>2 DEF Idle
<1> QED BY <1>4, <1>6 DEF Idle

\* A step of request p about accounts; it does not get where a deletion may be written.
AboutAccounts(p) ==
  /\ Others(p) /\ RequestTable' /\ load' = load
  /\ req[p].at \in {"idle"} \cup AccountsAt
  /\ req'[p].at \in ({"idle"} \cup AccountsAt) \ {"clear"}

\* Who there is stays, under his names.
NamesKept ==
  /\ alias' = alias
  /\ \A u \in User : /\ account'[u].st = account[u].st /\ account'[u].login = account[u].login
                     /\ account'[u].name = account[u].name /\ account'[u].stub = account[u].stub

LEMMA AccountsSame == ASSUME AccountTables, UNCHANGED accountVars, load' = load, made' \in Nat
                      PROVE  AccountTables' /\ NamesKept
  BY DEF AccountTables, accountVars, NamesKept, Here

LEMMA SignupArrives ==
  ASSUME Tables, NEW p \in Server, NEW u \in User, NEW n \in Name, HandleSignup(p, u, n)
  PROVE  /\ AboutAccounts(p) /\ UNCHANGED accountVars /\ AccountTables' /\ NamesKept
         /\ req'[p].at = "signup" /\ req'[p].user = u /\ req'[p].name = n
<1> DEFINE r == [Blank EXCEPT !.at = "signup", !.user = u, !.name = n]
<1>1. p \in Request /\ At(p, "idle")
  BY ServerFacts DEF Tables, AccountTables
<1>2. r.at = "signup" /\ r.user = u /\ r.name = n
  BY DEF Blank
<1>3. Fields(r)
  BY DEF Blank, Fields, AccountsAt
<1>4. Arrive(p, "signup", r) /\ UNCHANGED accountVars
  BY DEF HandleSignup
<1> HIDE DEF r
<1>5. Carries(r)
  BY <1>2 DEF Carries, AccountsAt, TeamsAt
<1>6. RequestTable' /\ req'[p] = r /\ Others(p) /\ made' = made + 1 /\ load' = load
  BY <1>1, <1>3, <1>4, <1>5, Arrives DEF Tables
<1>7. AccountTables' /\ NamesKept
  BY <1>4, <1>6, AccountsSame DEF Tables, AccountTables
<1> QED BY <1>1, <1>2, <1>4, <1>6, <1>7 DEF AboutAccounts, At, AccountsAt

LEMMA UserArrives ==
  ASSUME Tables, NEW p \in Server, NEW kind, NEW r, Arrive(p, kind, r),
         Fields(r), r.at \in AccountsAt \ {"signup", "renaming", "clear"}, r.user \in User,
         r.at \in {"place", "rename"} => r.name \in Name,
         r.at \in {"count", "role"} => r.role \in Roles
  PROVE  AboutAccounts(p) /\ made' \in Nat /\ req'[p] = r
<1>1. p \in Request /\ At(p, "idle")
  BY ServerFacts DEF Tables, AccountTables
<1>5. Carries(r)
  BY DEF Carries, AccountsAt, TeamsAt
<1>6. RequestTable' /\ req'[p] = r /\ Others(p) /\ made' = made + 1 /\ load' = load
  BY <1>1, <1>5, Arrives DEF Tables
<1>7. made' \in Nat
  BY <1>6 DEF Tables, AccountTables
<1> QED BY <1>1, <1>6, <1>7 DEF AboutAccounts, At, AccountsAt

LEMMA PlaceArrives ==
  ASSUME Tables, NEW p \in Server, NEW u \in User, NEW n \in Name, HandleCreatePlaceholder(p, u, n)
  PROVE  /\ AboutAccounts(p) /\ UNCHANGED accountVars /\ AccountTables' /\ NamesKept
         /\ req'[p].at = "place" /\ req'[p].user = u /\ req'[p].name = n
<1> DEFINE r == [Blank EXCEPT !.at = "place", !.user = u, !.name = n]
<1>1. /\ r.at = "place" /\ r.user = u /\ r.name = n /\ Fields(r)
  BY DEF Blank, Fields, AccountsAt
<1>2. Arrive(p, "placeholder", r) /\ UNCHANGED accountVars
  BY DEF HandleCreatePlaceholder
<1> HIDE DEF r
<1>3. AboutAccounts(p) /\ made' \in Nat /\ req'[p] = r
  BY <1>1, <1>2, UserArrives DEF AccountsAt
<1>4. AccountTables' /\ NamesKept
  BY <1>2, <1>3, AccountsSame DEF AboutAccounts, Tables
<1> QED BY <1>1, <1>2, <1>3, <1>4

LEMMA NobodyArrives ==
  ASSUME Tables, NEW p \in Server, NEW kind, Arrive(p, kind, Blank)
  PROVE  AboutAccounts(p) /\ made' \in Nat /\ req'[p].at = "idle" /\ req'[p].user = NoUser
<1>1. p \in Request /\ At(p, "idle")
  BY ServerFacts DEF Tables, AccountTables
<1>2. RequestTable' /\ req'[p] = Blank /\ Others(p) /\ made' = made + 1 /\ load' = load
  BY <1>1, Arrives, BlankFacts DEF Tables
<1>3. made' \in Nat
  BY <1>2 DEF Tables, AccountTables
<1> QED BY <1>1, <1>2, <1>3, BlankFacts DEF AboutAccounts, At, AccountsAt

\* The row of one account changes, in what is not its names.
LEMMA RowChanges ==
  ASSUME AccountTables, NEW u \in User, account' \in [User -> Row],
         \A v \in User \ {u} : account'[v] = account[v],
         account'[u].st = account[u].st, account'[u].login = account[u].login,
         account'[u].name = account[u].name, account'[u].stub = account[u].stub,
         link' \subseteq [user : User, token : Nat],
         UNCHANGED <<alias, session, now, load>>, made' \in Nat
  PROVE  AccountTables' /\ NamesKept
<1>1. \A v \in User : /\ account'[v].st = account[v].st /\ account'[v].login = account[v].login
                      /\ account'[v].name = account[v].name /\ account'[v].stub = account[v].stub
  <2> TAKE v \in User
  <2> QED BY DEF AccountTables
<1>2. \A v \in Here' : account'[v].login \in Name /\ account'[v].name \in Name
  BY <1>1 DEF AccountTables, Here
<1> QED BY <1>1, <1>2 DEF AccountTables, NamesKept

\* Whom the tables know.
Known == Here \cup {a.user : a \in alias} \cup {l.user : l \in link}

\* What the requests about accounts have in common, but for registration.
Comes(p) ==
  /\ AboutAccounts(p) /\ AccountTables' /\ NamesKept
  /\ req'[p].at \notin {"signup", "place", "renaming"}
  /\ req'[p].user \in Known \cup {NoUser}
  /\ link' \subseteq link

LEMMA LoginArrives ==
  ASSUME Tables, NEW p \in Server, NEW n \in Name, HandleLogin(p, n)
  PROVE  /\ Comes(p) /\ UNCHANGED accountVars
         /\ req'[p].at = "session" /\ req'[p].user \in User /\ account[req'[p].user].pass
<1>1. PICK u \in EntryOf(n) : /\ account[u].pass /\ UNCHANGED accountVars
                              /\ Arrive(p, "login", [Blank EXCEPT !.at = "session", !.user = u])
  BY DEF HandleLogin
<1>2. u \in Known /\ u \in User
  BY DEF EntryOf, Known, Here, Tables, AccountTables
<1> DEFINE r == [Blank EXCEPT !.at = "session", !.user = u]
<1>3. /\ r.at = "session" /\ r.user = u /\ r.role = 0 /\ r.name = NoName
      /\ Fields(r)
  BY <1>2 DEF Blank, Fields, AccountsAt
<1>9. Arrive(p, "login", r)
  BY <1>1
<1> HIDE DEF r
<1>4. AboutAccounts(p) /\ made' \in Nat /\ req'[p].at = "session" /\ req'[p].user = u
  BY <1>1, <1>2, <1>3, <1>9, UserArrives DEF AccountsAt
<1>5. AccountTables' /\ NamesKept
  BY <1>1, <1>4, AccountsSame DEF AboutAccounts, Tables
<1> QED BY <1>1, <1>2, <1>4, <1>5 DEF Comes, accountVars

LEMMA LogoutArrives ==
  ASSUME Tables, NEW p \in Server, NEW u \in Here, HandleLogout(p, u)
  PROVE  /\ Comes(p) /\ req'[p] = Blank
         /\ account' = [account EXCEPT ![u].after = now] /\ UNCHANGED <<alias, link, session, now>>
<1>1. /\ Arrive(p, "logout", Blank)
      /\ account' = [account EXCEPT ![u].after = now] /\ UNCHANGED <<alias, link, session, now>>
  BY DEF HandleLogout
<1>2. AboutAccounts(p) /\ made' \in Nat /\ req'[p].at = "idle" /\ req'[p].user = NoUser
  BY <1>1, NobodyArrives
<1>3. u \in User
  BY DEF Here
<1>4. AccountTables' /\ NamesKept
  <2>2. account[u] \in Row /\ now \in Nat
    BY <1>3 DEF Tables, AccountTables
  <2>3. account'[u] = [account[u] EXCEPT !.after = now] /\ \A v \in User \ {u} : account'[v] = account[v]
    BY <1>1, <1>3 DEF Tables, AccountTables
  <2>4. /\ account'[u] \in Row /\ account'[u].st = account[u].st
        /\ account'[u].login = account[u].login /\ account'[u].name = account[u].name
        /\ account'[u].stub = account[u].stub
    BY <2>2, <2>3 DEF Row
  <2>5. account' \in [User -> Row]
    BY <1>1, <2>3, <2>4 DEF Tables, AccountTables
  <2>6. AccountTables
    BY DEF Tables
  <2>7. link' \subseteq [user : User, token : Nat] /\ load' = load
    BY <1>1, <1>2, <2>6 DEF AboutAccounts, AccountTables
  <2> QED BY <1>1, <1>2, <1>3, <2>3, <2>4, <2>5, <2>6, <2>7, RowChanges
<1>5. req'[p] = Blank
  BY <1>1, ServerFacts DEF Arrive, Tables, AccountTables, RequestTable
<1> QED BY <1>1, <1>2, <1>4, <1>5 DEF Comes, accountVars

LEMMA RenameArrives ==
  ASSUME Tables, NEW p \in Server, NEW by, NEW u \in Here, NEW n \in Name, HandleRenameUser(p, by, u, n)
  PROVE  Comes(p) /\ UNCHANGED accountVars /\ req'[p].at = "rename"
<1>1. /\ Arrive(p, "rename", [Blank EXCEPT !.at = "rename", !.user = u, !.name = n])
      /\ UNCHANGED accountVars
  BY DEF HandleRenameUser
<1>2. u \in Known /\ u \in User
  BY DEF Known, Here
<1> DEFINE r == [Blank EXCEPT !.at = "rename", !.user = u, !.name = n]
<1>3. /\ r.at = "rename" /\ r.user = u /\ r.role = 0 /\ r.name = n
      /\ Fields(r)
  BY <1>2 DEF Blank, Fields, AccountsAt
<1>9. Arrive(p, "rename", r)
  BY <1>1
<1> HIDE DEF r
<1>4. AboutAccounts(p) /\ made' \in Nat /\ req'[p].at = "rename" /\ req'[p].user = u
  BY <1>1, <1>2, <1>3, <1>9, UserArrives DEF AccountsAt
<1>5. AccountTables' /\ NamesKept
  BY <1>1, <1>4, AccountsSame DEF AboutAccounts, Tables
<1> QED BY <1>1, <1>2, <1>4, <1>5 DEF Comes, accountVars

LEMMA RoleArrives ==
  ASSUME Tables, NEW p \in Server, NEW by, NEW u \in Here, NEW r \in Roles, HandleSetUserRole(p, by, u, r)
  PROVE  /\ Comes(p) /\ UNCHANGED accountVars /\ req'[p].user = u /\ req'[p].role = r
         /\ req'[p].at = IF account[u].role = Superadmin /\ r # Superadmin THEN "count" ELSE "role"
<1> DEFINE s == IF account[u].role = Superadmin /\ r # Superadmin THEN "count" ELSE "role"
<1>1. /\ Arrive(p, "role", [Blank EXCEPT !.user = u, !.role = r, !.at = s])
      /\ UNCHANGED accountVars
  BY DEF HandleSetUserRole
<1>2. u \in Known /\ u \in User
  BY DEF Known, Here
<1>6. s \in {"count", "role"}
  OBVIOUS
<1> HIDE DEF s
<1>7. s \in AccountsAt \ {"signup", "renaming", "clear"} /\ s \notin {"place", "rename"}
  BY <1>6 DEF AccountsAt
<1> DEFINE new == [Blank EXCEPT !.user = u, !.role = r, !.at = s]
<1>10. r \in Nat
  BY DEF Roles, Player, Moderator, Superadmin
<1>11. /\ new.at = s /\ new.user = u /\ new.role = r /\ new.name = NoName
  BY DEF Blank
<1>3. /\ new.at = s /\ new.user = u /\ new.role = r /\ new.name = NoName
      /\ Fields(new)
  BY <1>2, <1>7, <1>10, <1>11 DEF Blank, Fields
<1>9. Arrive(p, "role", new)
  BY <1>1
<1> HIDE DEF new
<1>4. /\ AboutAccounts(p) /\ made' \in Nat /\ req'[p].at = s /\ req'[p].user = u
      /\ req'[p].role = r
  BY <1>1, <1>2, <1>3, <1>7, <1>9, UserArrives
<1>5. AccountTables' /\ NamesKept
  BY <1>1, <1>4, AccountsSame DEF AboutAccounts, Tables
<1>8. Comes(p) /\ UNCHANGED accountVars /\ req'[p].user = u /\ req'[p].role = r /\ req'[p].at = s
  BY <1>1, <1>2, <1>4, <1>5, <1>6 DEF Comes, accountVars
<1> QED BY <1>8 DEF s

LEMMA LinkArrives ==
  ASSUME Tables, NEW p \in Server, NEW by, NEW u \in Here, NEW again \in BOOLEAN,
         HandleCreateClaimLink(p, by, u, again)
  PROVE  /\ Comes(p) /\ UNCHANGED accountVars /\ req'[p].user = u /\ ~account[u].pass
         /\ req'[p].at \in {"unlink", "existing"}
<1> DEFINE s == IF again THEN "unlink" ELSE "existing"
<1>1. /\ Arrive(p, "link", [Blank EXCEPT !.at = s, !.user = u, !.token = made + 1])
      /\ UNCHANGED accountVars /\ ~account[u].pass
  BY DEF HandleCreateClaimLink
<1>2. u \in Known /\ u \in User
  BY DEF Known, Here
<1>6. s \in {"unlink", "existing"}
  OBVIOUS
<1> HIDE DEF s
<1>7. s \in AccountsAt \ {"signup", "renaming", "clear"} /\ s \notin {"place", "rename", "count", "role"}
  BY <1>6 DEF AccountsAt
<1>8. made + 1 \in Nat
  BY DEF Tables, AccountTables
<1> DEFINE r == [Blank EXCEPT !.at = s, !.user = u, !.token = made + 1]
<1>3. /\ r.at = s /\ r.user = u /\ r.role = 0 /\ r.name = NoName
      /\ Fields(r)
  BY <1>2, <1>6, <1>7, <1>8 DEF Blank, Fields, AccountsAt
<1>9. Arrive(p, "link", r)
  BY <1>1
<1> HIDE DEF r
<1>4. AboutAccounts(p) /\ made' \in Nat /\ req'[p].at = s /\ req'[p].user = u
  BY <1>1, <1>2, <1>3, <1>7, <1>9, UserArrives
<1>5. AccountTables' /\ NamesKept
  BY <1>1, <1>4, AccountsSame DEF AboutAccounts, Tables
<1> QED BY <1>1, <1>2, <1>4, <1>5, <1>6 DEF Comes, accountVars

LEMMA ResetArrives ==
  ASSUME Tables, NEW p \in Server, NEW by, NEW u \in Here, HandleResetPassword(p, by, u)
  PROVE  Comes(p) /\ UNCHANGED accountVars /\ req'[p].at = "reset"
<1>1. /\ Arrive(p, "reset", [Blank EXCEPT !.at = "reset", !.user = u, !.token = made + 1])
      /\ UNCHANGED accountVars
  BY DEF HandleResetPassword
<1>2. u \in Known /\ u \in User
  BY DEF Known, Here
<1>8. made + 1 \in Nat
  BY DEF Tables, AccountTables
<1> DEFINE r == [Blank EXCEPT !.at = "reset", !.user = u, !.token = made + 1]
<1>3. /\ r.at = "reset" /\ r.user = u /\ r.role = 0 /\ r.name = NoName
      /\ Fields(r)
  BY <1>2, <1>8 DEF Blank, Fields, AccountsAt
<1>9. Arrive(p, "reset", r)
  BY <1>1
<1> HIDE DEF r
<1>4. AboutAccounts(p) /\ made' \in Nat /\ req'[p].at = "reset" /\ req'[p].user = u
  BY <1>1, <1>2, <1>3, <1>9, UserArrives DEF AccountsAt
<1>5. AccountTables' /\ NamesKept
  BY <1>1, <1>4, AccountsSame DEF AboutAccounts, Tables
<1> QED BY <1>1, <1>2, <1>4, <1>5 DEF Comes, accountVars

LEMMA ClaimInfoArrives ==
  ASSUME Tables, NEW p \in Server, NEW l \in link, HandleClaimInfo(p, l)
  PROVE  Comes(p) /\ link' = link \ {l} /\ UNCHANGED <<account, alias, session, now>> /\ req'[p].at = "idle"
<1>1. /\ Arrive(p, "claim", Blank)
      /\ link' = link \ {l} /\ UNCHANGED <<account, alias, session, now>>
  BY DEF HandleClaimInfo
<1>2. AboutAccounts(p) /\ made' \in Nat /\ req'[p].at = "idle" /\ req'[p].user = NoUser
  BY <1>1, NobodyArrives
<1>4. AccountTables' /\ NamesKept
  BY <1>1, <1>2 DEF AboutAccounts, Tables, AccountTables, NamesKept, Here
<1> QED BY <1>1, <1>2, <1>4 DEF Comes, accountVars

LEMMA ClaimArrives ==
  ASSUME Tables, NEW p \in Server, NEW l \in link, HandleClaim(p, l)
  PROVE  Comes(p) /\ UNCHANGED accountVars /\ req'[p].at = "claim"
<1>1. /\ Arrive(p, "claim", [Blank EXCEPT !.at = "claim", !.user = l.user, !.token = l.token])
      /\ UNCHANGED accountVars
  BY DEF HandleClaim
<1>2. l.user \in Known /\ l.user \in User /\ l.token \in Nat
  BY DEF Known, Tables, AccountTables
<1> DEFINE r == [Blank EXCEPT !.at = "claim", !.user = l.user, !.token = l.token]
<1>3. /\ r.at = "claim" /\ r.user = l.user /\ r.role = 0 /\ r.name = NoName
      /\ Fields(r)
  BY <1>2 DEF Blank, Fields, AccountsAt
<1>9. Arrive(p, "claim", r)
  BY <1>1
<1> HIDE DEF r
<1>4. AboutAccounts(p) /\ made' \in Nat /\ req'[p].at = "claim" /\ req'[p].user = l.user
  BY <1>1, <1>2, <1>3, <1>9, UserArrives DEF AccountsAt
<1>5. AccountTables' /\ NamesKept
  BY <1>1, <1>4, AccountsSame DEF AboutAccounts, Tables
<1> QED BY <1>1, <1>2, <1>4, <1>5 DEF Comes, accountVars

LEMMA DeleteArrives ==
  ASSUME Tables, NEW p \in Server, NEW by, NEW u \in Here, HandleDeleteUser(p, by, u)
  PROVE  /\ Comes(p) /\ UNCHANGED accountVars /\ account[u].role # Superadmin
         /\ req'[p].at = "delete" /\ req'[p].user = u
<1>1. /\ Arrive(p, "delete", [Blank EXCEPT !.at = "delete", !.user = u])
      /\ UNCHANGED accountVars /\ account[u].role # Superadmin
  BY DEF HandleDeleteUser
<1>2. u \in Known /\ u \in User
  BY DEF Known, Here
<1> DEFINE r == [Blank EXCEPT !.at = "delete", !.user = u]
<1>3. /\ r.at = "delete" /\ r.user = u /\ r.role = 0 /\ r.name = NoName
      /\ Fields(r)
  BY <1>2 DEF Blank, Fields, AccountsAt
<1>9. Arrive(p, "delete", r)
  BY <1>1
<1> HIDE DEF r
<1>4. AboutAccounts(p) /\ made' \in Nat /\ req'[p].at = "delete" /\ req'[p].user = u
  BY <1>1, <1>2, <1>3, <1>9, UserArrives DEF AccountsAt
<1>5. AccountTables' /\ NamesKept
  BY <1>1, <1>4, AccountsSame DEF AboutAccounts, Tables
<1> QED BY <1>1, <1>2, <1>4, <1>5 DEF Comes, accountVars

\* Every request about accounts.
LEMMA AccountsArrives ==
  ASSUME Tables, AccountsArrive
  PROVE  \E p \in Server :
           \/ Comes(p)
           \/ /\ AboutAccounts(p) /\ AccountTables' /\ NamesKept /\ UNCHANGED accountVars
              /\ \E u \in User, n \in Name :
                   /\ req'[p].user = u /\ req'[p].name = n
                   /\ \/ HandleSignup(p, u, n) /\ req'[p].at = "signup"
                      \/ HandleCreatePlaceholder(p, u, n) /\ req'[p].at = "place"
<1>1. PICK p \in Server :
    \/ Kind("signup") /\ \E u \in User, n \in Name : HandleSignup(p, u, n)
    \/ Kind("placeholder") /\ \E u \in User, n \in Name : HandleCreatePlaceholder(p, u, n)
    \/ Kind("login")  /\ \E n \in Name : HandleLogin(p, n)
    \/ Kind("logout") /\ \E u \in Here : HandleLogout(p, u)
    \/ Kind("claim")  /\ \E l \in link : HandleClaimInfo(p, l) \/ HandleClaim(p, l)
    \/ \E by \in Here, u \in Here :
         \/ Kind("rename") /\ \E n \in Name : HandleRenameUser(p, by, u, n)
         \/ Kind("role")   /\ \E r \in {Player, Moderator, Superadmin} : HandleSetUserRole(p, by, u, r)
         \/ Kind("link")   /\ \E again \in BOOLEAN : HandleCreateClaimLink(p, by, u, again)
         \/ Kind("reset")  /\ HandleResetPassword(p, by, u)
         \/ Kind("delete") /\ HandleDeleteUser(p, by, u)
  BY DEF AccountsArrive
<1> DEFINE New == /\ AboutAccounts(p) /\ AccountTables' /\ NamesKept /\ UNCHANGED accountVars
                  /\ \E u \in User, n \in Name :
                       /\ req'[p].user = u /\ req'[p].name = n
                       /\ \/ HandleSignup(p, u, n) /\ req'[p].at = "signup"
                          \/ HandleCreatePlaceholder(p, u, n) /\ req'[p].at = "place"
<1>2. ASSUME NEW u \in User, NEW n \in Name, HandleSignup(p, u, n) \/ HandleCreatePlaceholder(p, u, n)
      PROVE  New
  BY <1>2, SignupArrives, PlaceArrives
<1> HIDE DEF New
<1>3. ASSUME NEW n \in Name, HandleLogin(p, n) PROVE Comes(p)
  BY <1>3, LoginArrives
<1>4. ASSUME NEW u \in Here, HandleLogout(p, u) PROVE Comes(p)
  BY <1>4, LogoutArrives
<1>5. ASSUME NEW l \in link, HandleClaimInfo(p, l) \/ HandleClaim(p, l) PROVE Comes(p)
  BY <1>5, ClaimInfoArrives, ClaimArrives
<1>6. ASSUME NEW by \in Here, NEW u \in Here,
         \/ Kind("rename") /\ \E n \in Name : HandleRenameUser(p, by, u, n)
         \/ Kind("role")   /\ \E r \in {Player, Moderator, Superadmin} : HandleSetUserRole(p, by, u, r)
         \/ Kind("link")   /\ \E again \in BOOLEAN : HandleCreateClaimLink(p, by, u, again)
         \/ Kind("reset")  /\ HandleResetPassword(p, by, u)
         \/ Kind("delete") /\ HandleDeleteUser(p, by, u)
      PROVE Comes(p)
  BY <1>6, RenameArrives, RoleArrives, LinkArrives, ResetArrives, DeleteArrives DEF Roles
<1>7. New \/ Comes(p)
  BY <1>1, <1>2, <1>3, <1>4, <1>5, <1>6
<1> QED BY <1>7 DEF New

-------------------------------------------------------------------------------
(* The statements of requests about accounts.                              *)

LEMMA GoesOn ==
  ASSUME Tables, NEW p \in Request, NEW s \in AccountsAt \ {"signup", "clear"}, Go(p, s), load' = load,
         req[p].at \in AccountsAt,
         s \in {"place", "rename", "renaming"} => req[p].at \in {"signup", "place", "rename", "renaming"},
         s \in {"count", "role"} => req[p].at \in {"count", "role"}
  PROVE  AboutAccounts(p) /\ req'[p].at = s /\ Keeps(p)
<1>1. Others(p) /\ req'[p].at = s /\ Keeps(p) /\ (Carries(req'[p]) => RequestTable')
  BY GoFacts DEF Tables, Statements
<1>2. Carries(req[p])
  BY DEF Tables, RequestTable
<1>3. Carries(req'[p])
  BY <1>1, <1>2 DEF Carries, Keeps, AccountsAt, TeamsAt
<1> QED BY <1>1, <1>3 DEF AboutAccounts

LEMMA GoesOff ==
  ASSUME Tables, NEW p \in Request, Done(p), load' = load, req[p].at \in {"idle"} \cup AccountsAt
  PROVE  AboutAccounts(p) /\ req'[p] = Blank /\ req'[p].at = "idle" /\ req'[p].user = NoUser
  BY DoneFacts DEF Tables, AboutAccounts, AccountsAt

\* A statement that changes no account.
LEMMA GoesQuietly ==
  ASSUME Tables, NEW p \in Request, NEW ok, NEW s \in AccountsAt \ {"signup", "clear"},
         GoIf(p, ok, s), load' = load, made' = made, UNCHANGED accountVars,
         req[p].at \in AccountsAt,
         s \in {"place", "rename", "renaming"} => req[p].at \in {"signup", "place", "rename", "renaming"},
         s \in {"count", "role"} => req[p].at \in {"count", "role"}
  PROVE  /\ AboutAccounts(p) /\ AccountTables' /\ NamesKept
         /\ \/ ok /\ req'[p].at = s /\ Keeps(p)
            \/ ~ok /\ req'[p].at = "idle" /\ req'[p] = Blank /\ req'[p].user = NoUser
<1>1. made' \in Nat
  BY DEF Tables, AccountTables
<1>2. AccountTables' /\ NamesKept
  BY <1>1, AccountsSame DEF Tables
<1>3. CASE ok
  <2>1. Go(p, s)
    BY <1>3 DEF GoIf
  <2> QED BY <1>2, <1>3, <2>1, GoesOn
<1>4. CASE ~ok
  <2>1. Done(p)
    BY <1>4 DEF GoIf
  <2> QED BY <1>2, <1>4, <2>1, GoesOff
<1> QED BY <1>3, <1>4

\* A row is made of the name, or the login has gone to somebody else.
Created(u, n, pass, stub) ==
  /\ \A v \in User \ {u} : account'[v] = account[v]
  /\ account'[u].st = "here" /\ account'[u].login = n /\ account'[u].name = n
  /\ account'[u].role = Player /\ account'[u].pass = pass /\ account'[u].after = now
  /\ account'[u].stub = stub

LEMMA RowMade ==
  ASSUME Tables, NEW u \in User, NEW n \in Name, NEW row, account' = [account EXCEPT ![u] = row],
         row.st = "here", row.login = n, row.name = n, row.role = Player, row.after = now, row \in Row,
         UNCHANGED <<load, alias, link, session, now, made>>
  PROVE  AccountTables' /\ Created(u, n, row.pass, row.stub)
<1>1. account'[u] = row /\ \A v \in User \ {u} : account'[v] = account[v]
  BY DEF Tables, AccountTables
<1>2. AccountTables'
  BY <1>1 DEF Tables, AccountTables, Here
<1> QED BY <1>1, <1>2 DEF Created

LEMMA UserCreated ==
  ASSUME Tables, NEW p \in Request, CreateRegisteredUser(p)
  PROVE  /\ AboutAccounts(p) /\ AccountTables'
         /\ At(p, "signup") /\ req[p].user \in User /\ req[p].name \in Name
         /\ \/ /\ ~LoginTaken(req[p].user, req[p].name) /\ Created(req[p].user, req[p].name, TRUE, NoName)
               /\ req'[p].at = "session" /\ Keeps(p)
            \/ NamesKept /\ account' = account /\ req'[p] = Blank
         /\ UNCHANGED <<alias, link, session, now, made>>
<1> DEFINE u == req[p].user  n == req[p].name
           row == [NoAccount EXCEPT !.st = "here", !.login = n, !.name = n, !.pass = TRUE, !.after = now]
<1>1. /\ At(p, "signup") /\ GoIf(p, ~LoginTaken(u, n), "session")
      /\ UNCHANGED <<load, alias, link, session, now, made>>
      /\ account' = IF LoginTaken(u, n) THEN account ELSE [account EXCEPT ![u] = row]
  BY DEF CreateRegisteredUser
<1>2. u \in User /\ n \in Name
  BY <1>1 DEF Tables, RequestTable, Carries, At, AccountsAt
<1>3. /\ row.st = "here" /\ row.login = n /\ row.name = n /\ row.role = Player /\ row.pass = TRUE
      /\ row.after = now /\ row.stub = NoName
  BY DEF NoAccount
<1>4. row \in Row
  BY <1>2 DEF NoAccount, Tables, AccountTables, Row, Roles
<1> HIDE DEF row
<1>5. CASE ~LoginTaken(u, n)
  <2>1. Go(p, "session") /\ account' = [account EXCEPT ![u] = row]
    BY <1>1, <1>5 DEF GoIf
  <2>2. AboutAccounts(p) /\ req'[p].at = "session" /\ Keeps(p)
    BY <1>1, <2>1, GoesOn DEF At, AccountsAt
  <2>3. AccountTables' /\ Created(u, n, row.pass, row.stub)
    BY <1>1, <1>2, <1>3, <1>4, <2>1, RowMade
  <2> QED BY <1>1, <1>2, <1>3, <1>5, <2>2, <2>3
<1>6. CASE LoginTaken(u, n)
  <2>1. Done(p) /\ account' = account
    BY <1>1, <1>6 DEF GoIf
  <2>2. AboutAccounts(p) /\ req'[p] = Blank
    BY <1>1, <2>1, GoesOff DEF At, AccountsAt
  <2>3. UNCHANGED accountVars /\ load' = load /\ made' \in Nat
    BY <1>1, <2>1 DEF accountVars, Tables, AccountTables
  <2>4. AccountTables' /\ NamesKept
    BY <2>3, AccountsSame DEF Tables
  <2> QED BY <1>1, <1>2, <2>1, <2>2, <2>4
<1> QED BY <1>5, <1>6

LEMMA PlaceMade ==
  ASSUME Tables, NEW p \in Request, CreatePlaceholderUser(p)
  PROVE  /\ AboutAccounts(p) /\ AccountTables' /\ req'[p] = Blank
         /\ At(p, "place") /\ req[p].user \in User /\ req[p].name \in Name
         /\ \/ Created(req[p].user, req[p].name, FALSE, req[p].name)
            \/ NamesKept /\ account' = account
         /\ UNCHANGED <<alias, link, session, now, made>>
<1> DEFINE u == req[p].user  n == req[p].name
           row == [NoAccount EXCEPT !.st = "here", !.login = n, !.name = n, !.after = now, !.stub = n]
<1>1. /\ At(p, "place") /\ Done(p) /\ UNCHANGED <<load, alias, link, session, now, made>>
      /\ account' = IF LoginTaken(u, n) THEN account ELSE [account EXCEPT ![u] = row]
  BY DEF CreatePlaceholderUser
<1>2. u \in User /\ n \in Name
  BY <1>1 DEF Tables, RequestTable, Carries, At, AccountsAt
<1>3. /\ row.st = "here" /\ row.login = n /\ row.name = n /\ row.role = Player /\ row.pass = FALSE
      /\ row.after = now /\ row.stub = n
  BY DEF NoAccount
<1>4. row \in Row
  BY <1>2 DEF NoAccount, Tables, AccountTables, Row, Roles
<1> HIDE DEF row
<1>5. AboutAccounts(p) /\ req'[p] = Blank
  BY <1>1, GoesOff DEF At, AccountsAt
<1>6. CASE ~LoginTaken(u, n)
  <2>1. AccountTables' /\ Created(u, n, row.pass, row.stub)
    BY <1>1, <1>2, <1>3, <1>4, <1>6, RowMade
  <2> QED BY <1>1, <1>2, <1>3, <1>5, <2>1
<1>7. CASE LoginTaken(u, n)
  <2>1. UNCHANGED accountVars /\ load' = load /\ made' \in Nat
    BY <1>1, <1>7 DEF accountVars, Tables, AccountTables
  <2>2. AccountTables' /\ NamesKept
    BY <2>1, AccountsSame DEF Tables
  <2> QED BY <1>1, <1>2, <1>5, <1>7, <2>2
<1> QED BY <1>6, <1>7

LEMMA TokenIssued ==
  ASSUME Tables, NEW p \in Request, IssueToken(p)
  PROVE  /\ AboutAccounts(p) /\ AccountTables' /\ NamesKept /\ req'[p] = Blank /\ At(p, "session")
         /\ session' = session \cup {[user |-> req[p].user, iat |-> now]}
         /\ UNCHANGED <<account, alias, link, now, made>>
<1>1. /\ At(p, "session") /\ Done(p) /\ UNCHANGED <<load, account, alias, link, now, made>>
      /\ session' = session \cup {[user |-> req[p].user, iat |-> now]}
  BY DEF IssueToken
<1>2. req[p].user \in User
  BY <1>1 DEF Tables, RequestTable, Carries, At, AccountsAt
<1>3. AboutAccounts(p) /\ req'[p] = Blank
  BY <1>1, GoesOff DEF At, AccountsAt
<1>4. AccountTables' /\ NamesKept
  BY <1>1, <1>2 DEF Tables, AccountTables, Here, NamesKept
<1> QED BY <1>1, <1>3, <1>4

LEMMA RoleSet ==
  ASSUME Tables, NEW p \in Request, SetRole(p)
  PROVE  /\ AboutAccounts(p) /\ AccountTables' /\ NamesKept /\ req'[p] = Blank /\ At(p, "role")
         /\ req[p].user \in User /\ req[p].role \in Roles
         /\ account' = IF req[p].user \in Here THEN [account EXCEPT ![req[p].user].role = req[p].role] ELSE account
         /\ UNCHANGED <<alias, link, session, now, made>>
<1>1. /\ At(p, "role") /\ Done(p) /\ UNCHANGED <<load, alias, link, session, now, made>>
      /\ account' = IF req[p].user \in Here THEN [account EXCEPT ![req[p].user].role = req[p].role] ELSE account
  BY DEF SetRole
<1>2. req[p].user \in User /\ req[p].role \in Roles
  BY <1>1 DEF Tables, RequestTable, Carries, At, AccountsAt
<1>3. AboutAccounts(p) /\ req'[p] = Blank
  BY <1>1, GoesOff DEF At, AccountsAt
<1>4. AccountTables' /\ NamesKept
  <2> DEFINE u == req[p].user  r == req[p].role
  <2>1. CASE u \in Here
    <3>1. account' = [account EXCEPT ![u].role = r]
      BY <1>1, <2>1
    <3>2. account[u] \in Row
      BY <1>2 DEF Tables, AccountTables
    <3>3. account'[u] = [account[u] EXCEPT !.role = r] /\ \A v \in User \ {u} : account'[v] = account[v]
      BY <3>1, <1>2 DEF Tables, AccountTables
    <3>4. /\ account'[u] \in Row /\ account'[u].st = account[u].st
          /\ account'[u].login = account[u].login /\ account'[u].name = account[u].name
          /\ account'[u].stub = account[u].stub
      BY <3>2, <3>3, <1>2 DEF Row
    <3>5. account' \in [User -> Row]
      BY <3>1, <3>3, <3>4 DEF Tables, AccountTables
    <3>6. link' \subseteq [user : User, token : Nat]
      BY <1>1 DEF Tables, AccountTables
    <3> HIDE DEF u
    <3> QED BY <1>1, <1>2, <3>3, <3>4, <3>5, <3>6, RowChanges DEF Tables, u, AccountTables
  <2>2. CASE req[p].user \notin Here
    BY <1>1, <2>2 DEF Tables, AccountTables, Here, NamesKept
  <2> QED BY <2>1, <2>2
<1> QED BY <1>1, <1>2, <1>3, <1>4

LEMMA PasswordReset ==
  ASSUME Tables, NEW p \in Request, ResetPassword(p)
  PROVE  /\ AboutAccounts(p) /\ AccountTables' /\ NamesKept /\ req'[p] = Blank /\ At(p, "reset")
         /\ req[p].user \in User
         /\ \/ /\ req[p].user \in Here
               /\ account' = [account EXCEPT ![req[p].user].pass = FALSE, ![req[p].user].after = now]
               /\ link' = (link \ LinksOf(req[p].user)) \cup {[user |-> req[p].user, token |-> req[p].token]}
            \/ req[p].user \notin Here /\ UNCHANGED <<account, link>>
         /\ UNCHANGED <<alias, session, now, made>>
<1>1. /\ At(p, "reset") /\ Done(p) /\ UNCHANGED <<load, alias, session, now, made>>
      /\ \/ /\ req[p].user \in Here
            /\ account' = [account EXCEPT ![req[p].user].pass = FALSE, ![req[p].user].after = now]
            /\ link' = (link \ LinksOf(req[p].user)) \cup {[user |-> req[p].user, token |-> req[p].token]}
         \/ req[p].user \notin Here /\ UNCHANGED <<account, link>>
  BY DEF ResetPassword
<1>2. req[p].user \in User /\ req[p].token \in Nat
  BY <1>1 DEF Tables, RequestTable, Carries, Fields, At, AccountsAt
<1>3. AboutAccounts(p) /\ req'[p] = Blank
  BY <1>1, GoesOff DEF At, AccountsAt
<1>4. AccountTables' /\ NamesKept
  <2>1. CASE req[p].user \in Here
    <3>1. link' \subseteq [user : User, token : Nat]
      BY <1>1, <1>2, <2>1 DEF Tables, AccountTables, LinksOf
    <3> DEFINE u == req[p].user
    <3>2. account' = [account EXCEPT ![u].pass = FALSE, ![u].after = now]
      BY <1>1, <2>1
    <3>3. \A v \in User \ {u} : account'[v] = account[v]
      BY <3>2 DEF Tables, AccountTables
    <3>4. account[u] \in Row /\ now \in Nat
      BY <1>2 DEF Tables, AccountTables
    <3>5. account'[u] = [account[u] EXCEPT !.pass = FALSE, !.after = now]
      BY <3>2, <1>2 DEF Tables, AccountTables
    <3>6. /\ account'[u] \in Row /\ account'[u].st = account[u].st
          /\ account'[u].login = account[u].login /\ account'[u].name = account[u].name
          /\ account'[u].stub = account[u].stub
      BY <3>4, <3>5 DEF Row
    <3>7. account' \in [User -> Row]
      BY <3>2, <3>3, <3>6 DEF Tables, AccountTables
    <3> HIDE DEF u
    <3> QED BY <1>1, <1>2, <3>1, <3>3, <3>6, <3>7, RowChanges DEF Tables, u, AccountTables
  <2>2. CASE req[p].user \notin Here
    BY <1>1, <2>2 DEF Tables, AccountTables, Here, NamesKept
  <2> QED BY <2>1, <2>2
<1> QED BY <1>1, <1>2, <1>3, <1>4

LEMMA LinkMade ==
  ASSUME Tables, NEW p \in Request, EnsureClaimToken(p)
  PROVE  /\ AboutAccounts(p) /\ AccountTables' /\ NamesKept /\ req[p].user \in User
         /\ req'[p].at \in {"idle", "link"} /\ req'[p].user \in {req[p].user, NoUser}
         /\ UNCHANGED <<account, alias, session, now, made>>
         /\ \/ /\ At(p, "unlink") /\ link' = link \ LinksOf(req[p].user)
               /\ req'[p].at = "link" /\ Keeps(p)
            \/ /\ At(p, "existing") /\ link' = link
               /\ \/ LinksOf(req[p].user) = {} /\ req'[p].at = "link" /\ Keeps(p)
                  \/ req'[p] = Blank
            \/ /\ At(p, "link") /\ req'[p] = Blank
               /\ \/ req[p].user \notin Here /\ link' = link
                  \/ /\ req[p].user \in Here
                     /\ link' = link \cup {[user |-> req[p].user, token |-> req[p].token]}
<1> DEFINE u == req[p].user
<1>1. UNCHANGED <<load, account, alias, session, now, made>>
  BY DEF EnsureClaimToken
<1>2. At(p, "unlink") \/ At(p, "existing") \/ At(p, "link")
  BY DEF EnsureClaimToken
<1>3. u \in User /\ req[p].token \in Nat /\ req[p].at \in AccountsAt
  BY <1>2 DEF Tables, RequestTable, Carries, Fields, At, AccountsAt
<1>4. ASSUME link' \subseteq [user : User, token : Nat] PROVE AccountTables' /\ NamesKept
  BY <1>1, <1>4 DEF Tables, AccountTables, Here, NamesKept
<1>5. CASE At(p, "unlink")
  <2>1. link' = link \ LinksOf(u) /\ Go(p, "link")
    BY <1>5 DEF EnsureClaimToken, At
  <2>2. AboutAccounts(p) /\ req'[p].at = "link" /\ Keeps(p)
    BY <2>1, <1>1, <1>3, GoesOn DEF AccountsAt
  <2>3. link' \subseteq [user : User, token : Nat]
    BY <2>1 DEF Tables, AccountTables
  <2> QED BY <1>1, <1>3, <1>4, <1>5, <2>1, <2>2, <2>3 DEF Keeps
<1>6. CASE At(p, "existing")
  <2>1. link' = link /\ GoIf(p, LinksOf(u) = {}, "link")
    BY <1>6 DEF EnsureClaimToken, At
  <2>3. link' \subseteq [user : User, token : Nat]
    BY <2>1 DEF Tables, AccountTables
  <2>4. CASE LinksOf(u) = {}
    <3>1. Go(p, "link")
      BY <2>1, <2>4 DEF GoIf
    <3>2. AboutAccounts(p) /\ req'[p].at = "link" /\ Keeps(p)
      BY <3>1, <1>1, <1>3, GoesOn DEF AccountsAt
    <3> QED BY <1>1, <1>3, <1>4, <1>6, <2>1, <2>3, <2>4, <3>2 DEF Keeps
  <2>5. CASE LinksOf(u) # {}
    <3>1. Done(p)
      BY <2>1, <2>5 DEF GoIf
    <3>2. AboutAccounts(p) /\ req'[p] = Blank /\ req'[p].at = "idle" /\ req'[p].user = NoUser
      BY <3>1, <1>1, <1>3, GoesOff
    <3> QED BY <1>1, <1>3, <1>4, <1>6, <2>1, <2>3, <3>2
  <2> QED BY <2>4, <2>5
<1>7. CASE At(p, "link")
  <2>1. /\ Done(p)
        /\ link' = IF u \in Here THEN link \cup {[user |-> u, token |-> req[p].token]} ELSE link
    BY <1>7 DEF EnsureClaimToken, At
  <2>2. AboutAccounts(p) /\ req'[p] = Blank /\ req'[p].at = "idle" /\ req'[p].user = NoUser
    BY <2>1, <1>1, <1>3, GoesOff
  <2>3. link' \subseteq [user : User, token : Nat]
    BY <2>1, <1>3 DEF Tables, AccountTables
  <2> QED BY <1>1, <1>3, <1>4, <1>7, <2>1, <2>2, <2>3
<1> QED BY <1>2, <1>5, <1>6, <1>7

LEMMA AccountClaimed ==
  ASSUME Tables, NEW p \in Request, ClaimAccount(p)
  PROVE  /\ AboutAccounts(p) /\ AccountTables' /\ NamesKept /\ req[p].user \in User
         /\ req'[p].at \in {"idle", "free", "password", "spent", "session"}
         /\ req'[p].user \in {req[p].user, NoUser}
         /\ UNCHANGED <<alias, session, now, made>>
         /\ \/ /\ At(p, "claim") /\ UNCHANGED <<account, link>>
               /\ req'[p] = Blank \/ req'[p].at = "free"
            \/ /\ At(p, "free") /\ UNCHANGED <<account, link>>
               /\ \/ req'[p] = Blank
                  \/ req[p].user \in Here /\ req'[p].at = "password" /\ Keeps(p)
            \/ /\ At(p, "password") /\ link' = link /\ req'[p].at = "spent" /\ Keeps(p)
               /\ account' = IF req[p].user \in Here THEN [account EXCEPT ![req[p].user].pass = TRUE] ELSE account
            \/ /\ At(p, "spent") /\ link' = link \ LinksOf(req[p].user) /\ account' = account
               /\ req'[p] = Blank \/ (req'[p].at = "session" /\ Keeps(p))
<1> DEFINE u == req[p].user
<1>1. UNCHANGED <<load, alias, session, now, made>>
  BY DEF ClaimAccount
<1>2. At(p, "claim") \/ At(p, "free") \/ At(p, "password") \/ At(p, "spent")
  BY DEF ClaimAccount
<1>3. u \in User /\ req[p].at \in AccountsAt
  BY <1>2 DEF Tables, RequestTable, Carries, At, AccountsAt
<1>4. ASSUME NEW ok, NEW s \in {"free", "password", "session"}, GoIf(p, ok, s)
      PROVE  /\ AboutAccounts(p) /\ req'[p].user \in {u, NoUser}
             /\ \/ ok /\ req'[p].at = s /\ Keeps(p)
                \/ req'[p] = Blank /\ req'[p].at = "idle"
  <2>1. CASE ok
    <3>1. Go(p, s)
      BY <2>1, <1>4 DEF GoIf
    <3>2. AboutAccounts(p) /\ req'[p].at = s /\ Keeps(p)
      BY <3>1, <1>1, <1>3, GoesOn DEF AccountsAt
    <3> QED BY <2>1, <3>2 DEF Keeps
  <2>2. CASE ~ok
    <3>1. Done(p)
      BY <2>2, <1>4 DEF GoIf
    <3> QED BY <3>1, <1>1, <1>3, GoesOff
  <2> QED BY <2>1, <2>2
<1>5. CASE At(p, "claim")
  <2>1. GoIf(p, [user |-> u, token |-> req[p].token] \in link, "free") /\ UNCHANGED <<account, link>>
    BY <1>5 DEF ClaimAccount, At
  <2>2. AccountTables' /\ NamesKept
    BY <1>1, <2>1 DEF Tables, AccountTables, Here, NamesKept
  <2> QED BY <1>1, <1>3, <1>4, <1>5, <2>1, <2>2
<1>6. CASE At(p, "free")
  <2>1. GoIf(p, u \in Here /\ ~account[u].pass, "password") /\ UNCHANGED <<account, link>>
    BY <1>6 DEF ClaimAccount, At
  <2>2. AccountTables' /\ NamesKept
    BY <1>1, <2>1 DEF Tables, AccountTables, Here, NamesKept
  <2> QED BY <1>1, <1>3, <1>4, <1>6, <2>1, <2>2
<1>7. CASE At(p, "password")
  <2>1. /\ Go(p, "spent") /\ link' = link
        /\ account' = IF u \in Here THEN [account EXCEPT ![u].pass = TRUE] ELSE account
    BY <1>7 DEF ClaimAccount, At
  <2>2. AboutAccounts(p) /\ req'[p].at = "spent" /\ Keeps(p)
    BY <2>1, <1>1, <1>3, GoesOn DEF AccountsAt
  <2>3. AccountTables' /\ NamesKept
    <3>1. CASE u \in Here
      <4>1. account' = [account EXCEPT ![u].pass = TRUE]
        BY <2>1, <3>1
      <4>2. account[u] \in Row
        BY <1>3 DEF Tables, AccountTables
      <4>3. account'[u] = [account[u] EXCEPT !.pass = TRUE] /\ \A v \in User \ {u} : account'[v] = account[v]
        BY <4>1, <1>3 DEF Tables, AccountTables
      <4>4. /\ account'[u] \in Row /\ account'[u].st = account[u].st
            /\ account'[u].login = account[u].login /\ account'[u].name = account[u].name
            /\ account'[u].stub = account[u].stub
        BY <4>2, <4>3 DEF Row
      <4>5. account' \in [User -> Row]
        BY <4>1, <4>3, <4>4 DEF Tables, AccountTables
      <4>6. link' \subseteq [user : User, token : Nat]
        BY <2>1 DEF Tables, AccountTables
      <4> QED BY <1>1, <1>3, <4>3, <4>4, <4>5, <4>6, RowChanges DEF Tables, AccountTables
    <3>2. CASE u \notin Here
      BY <1>1, <2>1, <3>2 DEF Tables, AccountTables, Here, NamesKept
    <3> QED BY <3>1, <3>2
  <2> QED BY <1>1, <1>3, <1>7, <2>1, <2>2, <2>3 DEF Keeps
<1>8. CASE At(p, "spent")
  <2>1. GoIf(p, u \in Here, "session") /\ link' = link \ LinksOf(u) /\ account' = account
    BY <1>8 DEF ClaimAccount, At
  <2>2. AccountTables' /\ NamesKept
    BY <1>1, <2>1 DEF Tables, AccountTables, Here, NamesKept
  <2> QED BY <1>1, <1>3, <1>4, <1>8, <2>1, <2>2
<1> QED BY <1>2, <1>5, <1>6, <1>7, <1>8

LEMMA RenameLocked ==
  ASSUME Tables, NEW p \in Request, RenameLock(p)
  PROVE  /\ AboutAccounts(p) /\ AccountTables' /\ NamesKept /\ UNCHANGED accountVars /\ At(p, "rename")
         /\ ~Registering
         /\ \/ ~Taken(req[p].user, req[p].name) /\ req'[p].at = "renaming" /\ Keeps(p)
            \/ req'[p] = Blank
<1>1. /\ At(p, "rename") /\ ~Registering /\ UNCHANGED <<load, made, accountVars>>
      /\ GoIf(p, req[p].user \in Here /\ ~Taken(req[p].user, req[p].name), "renaming")
  BY DEF RenameLock
<1>2. "renaming" \in AccountsAt \ {"signup", "clear"} /\ req[p].at = "rename" /\ req[p].at \in AccountsAt
  BY <1>1 DEF At, AccountsAt
<1>3. UNCHANGED accountVars /\ load' = load /\ made' = made
  BY <1>1
<1>4. /\ AboutAccounts(p) /\ AccountTables' /\ NamesKept
      /\ \/ /\ req[p].user \in Here /\ ~Taken(req[p].user, req[p].name)
            /\ req'[p].at = "renaming" /\ Keeps(p)
         \/ req'[p] = Blank
  BY <1>1, <1>2, <1>3, GoesQuietly
<1> QED BY <1>1, <1>3, <1>4

LEMMA Counted ==
  ASSUME Tables, NEW p \in Request, CountSuperadmins(p)
  PROVE  /\ AboutAccounts(p) /\ AccountTables' /\ NamesKept /\ UNCHANGED accountVars /\ At(p, "count")
         /\ \/ Cardinality(Organizers) > 1 /\ req'[p].at = "role" /\ Keeps(p)
            \/ req'[p] = Blank
<1>1. /\ At(p, "count") /\ UNCHANGED <<load, made, accountVars>>
      /\ GoIf(p, Cardinality(Organizers) > 1, "role")
  BY DEF CountSuperadmins
<1>2. "role" \in AccountsAt \ {"signup", "clear"} /\ req[p].at = "count" /\ req[p].at \in AccountsAt
  BY <1>1 DEF At, AccountsAt
<1>3. UNCHANGED accountVars /\ load' = load /\ made' = made
  BY <1>1
<1>4. /\ AboutAccounts(p) /\ AccountTables' /\ NamesKept
      /\ \/ Cardinality(Organizers) > 1 /\ req'[p].at = "role" /\ Keeps(p)
         \/ req'[p] = Blank
  BY <1>1, <1>2, <1>3, GoesQuietly
<1> QED BY <1>1, <1>3, <1>4

LEMMA UserLocked ==
  ASSUME Tables, NEW p \in Request, LockUser(p)
  PROVE  /\ AboutAccounts(p) /\ AccountTables' /\ NamesKept /\ UNCHANGED accountVars /\ At(p, "delete")
         /\ \/ req'[p].at = "locked" /\ Keeps(p)
            \/ req'[p] = Blank
<1>1. /\ At(p, "delete") /\ UNCHANGED <<load, made, accountVars>>
      /\ GoIf(p, req[p].user \in Here, "locked")
  BY DEF LockUser
<1>2. "locked" \in AccountsAt \ {"signup", "clear"} /\ req[p].at = "delete" /\ req[p].at \in AccountsAt
  BY <1>1 DEF At, AccountsAt
<1>3. UNCHANGED accountVars /\ load' = load /\ made' = made
  BY <1>1
<1>4. /\ AboutAccounts(p) /\ AccountTables' /\ NamesKept
      /\ \/ req'[p].at = "locked" /\ Keeps(p)
         \/ req'[p] = Blank
  BY <1>1, <1>2, <1>3, GoesQuietly
<1> QED BY <1>1, <1>3, <1>4

\* DeleteEmptyUser finds nothing of the account, and goes on to where it is written.
LEMMA Checked ==
  ASSUME Tables, NEW p \in Request, CheckEmpty(p)
  PROVE  /\ Others(p) /\ RequestTable' /\ load' = load /\ AccountTables' /\ NamesKept
         /\ UNCHANGED <<accountVars, teamVars, mediaVars, made>> /\ At(p, "locked")
         /\ \/ /\ req'[p].at = "clear" /\ Keeps(p)
               /\ ~HasTeamHistory(req[p].user) /\ ~HasMedia(req[p].user)
            \/ req'[p] = Blank
<1> DEFINE u == req[p].user  ok == ~HasTeamHistory(u) /\ ~HasMedia(u)
<1>1. /\ At(p, "locked") /\ GoIf(p, ok, "clear")
      /\ UNCHANGED <<load, made, accountVars, teamVars, mediaVars>>
  BY DEF CheckEmpty
<1>2. Carries(req[p]) /\ made \in Nat /\ AccountTables
  BY DEF Tables, RequestTable, AccountTables
<1>3. UNCHANGED accountVars /\ load' = load /\ made' \in Nat
  BY <1>1, <1>2
<1>4. AccountTables' /\ NamesKept
  BY <1>2, <1>3, AccountsSame
<1> HIDE DEF ok
<1>5. CASE ok
  <2>1. Go(p, "clear")
    BY <1>1, <1>5 DEF GoIf
  <2>2. Others(p) /\ req'[p].at = "clear" /\ Keeps(p) /\ (Carries(req'[p]) => RequestTable')
    BY <2>1, GoFacts DEF Tables, Statements, AccountsAt
  <2>3. Carries(req'[p])
    BY <1>1, <1>2, <2>2 DEF Carries, Keeps, AccountsAt, TeamsAt, At
  <2>4. ~HasTeamHistory(u) /\ ~HasMedia(u)
    BY <1>5 DEF ok
  <2> QED BY <1>1, <1>4, <2>2, <2>3, <2>4
<1>6. CASE ~ok
  <2>1. Done(p)
    BY <1>1, <1>6 DEF GoIf
  <2>2. RequestTable' /\ req'[p] = Blank /\ Others(p)
    BY <2>1, DoneFacts DEF Tables
  <2> QED BY <1>1, <1>4, <2>2
<1> QED BY <1>5, <1>6

Former(u, n) == {account[u].login, account[u].name} \ {n}

LEMMA UserRenamed ==
  ASSUME Tables, NEW p \in Request, RenameUser(p)
  PROVE  /\ AboutAccounts(p) /\ AccountTables' /\ req'[p] = Blank /\ At(p, "renaming")
         /\ req[p].user \in User /\ req[p].name \in Name
         /\ \/ /\ Renames(p) /\ req[p].user \in Here
               /\ alias' = {a \in alias : ~(a.user = req[p].user /\ a.name = req[p].name)}
                    \cup {[name |-> f, user |-> req[p].user] :
                            f \in Former(req[p].user, req[p].name) \ {a.name : a \in alias}}
               /\ \A v \in User \ {req[p].user} : account'[v] = account[v]
               /\ account'[req[p].user].st = account[req[p].user].st
               /\ account'[req[p].user].login = req[p].name /\ account'[req[p].user].name = req[p].name
               /\ account'[req[p].user].role = account[req[p].user].role
               /\ account'[req[p].user].pass = account[req[p].user].pass
               /\ account'[req[p].user].after = account[req[p].user].after
               /\ account'[req[p].user].stub = account[req[p].user].stub
            \/ ~Renames(p) /\ UNCHANGED <<account, alias>> /\ NamesKept
         /\ UNCHANGED <<link, session, now, made>>
<1> DEFINE u == req[p].user  n == req[p].name
<1>1. /\ At(p, "renaming") /\ Done(p) /\ UNCHANGED <<load, link, session, now, made>>
      /\ IF Renames(p)
         THEN /\ alias' = {a \in alias : ~(a.user = u /\ a.name = n)}
                            \cup {[name |-> f, user |-> u] : f \in Former(u, n) \ {a.name : a \in alias}}
              /\ account' = [account EXCEPT ![u].login = n, ![u].name = n]
         ELSE UNCHANGED <<alias, account>>
  BY DEF RenameUser, Former
<1>2. u \in User /\ n \in Name
  BY <1>1 DEF Tables, RequestTable, Carries, At, AccountsAt
<1>3. AboutAccounts(p) /\ req'[p] = Blank
  BY <1>1, GoesOff DEF At, AccountsAt
<1>4. CASE ~Renames(p)
  <2>1. UNCHANGED accountVars /\ load' = load /\ made' \in Nat
    BY <1>1, <1>4 DEF accountVars, Tables, AccountTables
  <2>2. AccountTables' /\ NamesKept
    BY <2>1, AccountsSame DEF Tables
  <2> QED BY <1>1, <1>2, <1>3, <1>4, <2>2
<1>5. CASE Renames(p)
  <2>0. u \in Here
    BY <1>5 DEF Renames
  <2> DEFINE row == [account[u] EXCEPT !.login = n, !.name = n]
  <2>1. account[u] \in Row /\ AccountTables
    BY <1>2 DEF Tables, AccountTables
  <2>2. account' = [account EXCEPT ![u].login = n, ![u].name = n]
    BY <1>1, <1>5
  <2>3. account'[u] = row /\ \A v \in User \ {u} : account'[v] = account[v]
    BY <2>1, <2>2, <1>2 DEF AccountTables
  <2>4. /\ row.st = account[u].st /\ row.login = n /\ row.name = n /\ row.role = account[u].role
        /\ row.pass = account[u].pass /\ row.after = account[u].after /\ row.stub = account[u].stub
    BY <2>1 DEF Row
  <2>5. row \in Row
    BY <2>1, <1>2 DEF Row
  <2> HIDE DEF row
  <2>6. account' \in [User -> Row]
    BY <2>1, <2>2, <2>3, <2>5 DEF AccountTables
  <2>7. Former(u, n) \subseteq Name
    BY <2>0, <2>1 DEF Former, AccountTables
  <2>8. alias' \subseteq [name : Name, user : User]
    <3>1. \A f \in Former(u, n) : [name |-> f, user |-> u] \in [name : Name, user : User]
      BY <2>7, <1>2
    <3> QED BY <1>1, <1>5, <2>1, <3>1 DEF AccountTables
  <2>9. AccountTables'
    BY <1>1, <1>2, <2>1, <2>3, <2>4, <2>6, <2>8 DEF AccountTables, Here
  <2>10. alias' = {a \in alias : ~(a.user = u /\ a.name = n)}
                    \cup {[name |-> f, user |-> u] : f \in Former(u, n) \ {a.name : a \in alias}}
    BY <1>1, <1>5
  <2> QED BY <1>1, <1>2, <1>3, <1>5, <2>0, <2>3, <2>4, <2>9, <2>10
<1> QED BY <1>4, <1>5

LEMMA UserDeleted ==
  ASSUME Tables, NEW p \in Request, DeleteUser(p)
  PROVE  /\ AboutAccounts(p) /\ AccountTables' /\ req'[p] = Blank /\ At(p, "clear")
         /\ req[p].user \in User
         /\ \A v \in User \ {req[p].user} : account'[v] = account[v]
         /\ account'[req[p].user].st = "gone"
         /\ alias' = {a \in alias : a.user # req[p].user} /\ link' = link \ LinksOf(req[p].user)
         /\ UNCHANGED <<session, now, made>>
<1> DEFINE u == req[p].user  row == [NoAccount EXCEPT !.st = "gone"]
<1>1. /\ At(p, "clear") /\ Done(p) /\ UNCHANGED <<load, session, now, made>>
      /\ account' = [account EXCEPT ![u] = row]
      /\ alias' = {a \in alias : a.user # u} /\ link' = link \ LinksOf(u)
  BY DEF DeleteUser
<1>2. u \in User
  BY <1>1 DEF Tables, RequestTable, Carries, At, AccountsAt
<1>3. AboutAccounts(p) /\ req'[p] = Blank
  BY <1>1, GoesOff DEF At, AccountsAt
<1>4. row.st = "gone" /\ row \in Row
  BY DEF NoAccount, Row, Roles
<1> HIDE DEF row
<1>5. account'[u] = row /\ \A v \in User \ {u} : account'[v] = account[v]
  BY <1>1, <1>2 DEF Tables, AccountTables
<1>6. AccountTables'
  BY <1>1, <1>2, <1>4, <1>5 DEF Tables, AccountTables, Here
<1> QED BY <1>1, <1>2, <1>3, <1>4, <1>5, <1>6

LEMMA SecondFacts ==
  ASSUME Tables, Second
  PROVE  /\ AccountTables' /\ NamesKept /\ req' = req /\ load' = load /\ now' = now + 1
         /\ UNCHANGED <<account, alias, link, session, made>>
  BY DEF Second, Tables, AccountTables, NamesKept, Here

\* A start of the server: the organizer is there, under the name of the settings.
LEMMA BootFacts ==
  ASSUME Tables, Boot
  PROVE  /\ RequestTable' /\ AccountTables' /\ \A p \in Request : req'[p] = Blank
         /\ UNCHANGED <<load, alias, link, session, now>> /\ made' \in Nat /\ Kind("boot")
         /\ \A v \in Here : /\ account'[v].st = "here" /\ account'[v].login = account[v].login
                            /\ account'[v].name = account[v].name /\ account'[v].after = account[v].after
                            /\ account'[v].stub = account[v].stub
                            /\ account'[v].pass \/ account'[v].pass = account[v].pass
                            /\ account'[v].role \in {account[v].role, Superadmin}
         /\ \A v \in User \ Here : \/ account'[v].st = account[v].st
                                   \/ /\ account[v].st = "none" /\ account'[v].st = "here" /\ account'[v].pass
                                      /\ account'[v].login = Organizer /\ account'[v].name = Organizer
         /\ \E w \in User : account'[w].st = "here" /\ account'[w].role = Superadmin
<1> DEFINE old == {u \in Here : account[u].login = Organizer}
           new == [NoAccount EXCEPT !.st = "here", !.login = Organizer, !.name = Organizer,
                                    !.role = Superadmin, !.pass = TRUE, !.after = now]
           kept(u) == [account[u] EXCEPT !.role = Superadmin, !.pass = TRUE]
<1>1. /\ Kind("boot") /\ made' = made + 1 /\ req' = [p \in Request |-> Blank]
      /\ EnsureSuperadmin /\ UNCHANGED <<load, alias, link, session, now>>
  BY DEF Boot
<1>2. RequestTable' /\ \A p \in Request : req'[p] = Blank
  BY <1>1, BlankFacts DEF RequestTable
<1>3. made' \in Nat /\ made' = made + 1 /\ AccountTables
  BY <1>1 DEF Tables, AccountTables
<1>4. /\ new.st = "here" /\ new.login = Organizer /\ new.name = Organizer /\ new.role = Superadmin
      /\ new.pass = TRUE /\ new \in Row
  <2>1. now \in Nat /\ Organizer \in Name
    BY <1>3, AccountsAssumption DEF AccountTables
  <2>2. new \in Row
    BY <2>1 DEF NoAccount, Row, Roles
  <2> QED BY <2>2 DEF NoAccount
<1>5. ASSUME NEW u \in User
      PROVE  /\ kept(u) \in Row /\ kept(u).role = Superadmin /\ kept(u).pass = TRUE
             /\ kept(u).st = account[u].st /\ kept(u).login = account[u].login
             /\ kept(u).name = account[u].name /\ kept(u).after = account[u].after
             /\ kept(u).stub = account[u].stub
  <2>1. account[u] \in Row
    BY <1>3 DEF AccountTables
  <2> QED BY <2>1 DEF Row, Roles
<1> HIDE DEF new, kept
<1>6. CASE old # {}
  <2>1. account' = [u \in User |-> IF u \in old THEN kept(u) ELSE account[u]]
    BY <1>1, <1>6 DEF EnsureSuperadmin, kept
  <2> HIDE DEF old
  <2>2. \A u \in User : account'[u] = IF u \in old THEN kept(u) ELSE account[u]
    BY <2>1
  <2>3. \A u \in User : account'[u] \in Row
    BY <2>2, <1>3, <1>5 DEF AccountTables
  <2>4. account' \in [User -> Row]
    BY <2>1, <2>3
  <2>5. \A u \in User : /\ account'[u].st = account[u].st /\ account'[u].login = account[u].login
                        /\ account'[u].name = account[u].name /\ account'[u].after = account[u].after
                        /\ account'[u].stub = account[u].stub
                        /\ account'[u].pass = TRUE \/ account'[u].pass = account[u].pass
                        /\ account'[u].role \in {account[u].role, Superadmin}
    BY <2>2, <1>5
  <2>6. AccountTables'
    BY <1>1, <1>3, <2>4, <2>5 DEF AccountTables, Here
  <2>7. PICK w \in old : TRUE
    BY <1>6
  <2>8. w \in User /\ account'[w].st = "here" /\ account'[w].role = Superadmin
    <3>1. w \in User /\ account[w].st = "here"
      BY DEF old, Here
    <3> QED BY <3>1, <2>2, <2>7, <1>5
  <2>9. \A v \in Here : v \in User /\ account[v].st = "here"
    BY DEF Here
  <2> QED BY <1>1, <1>2, <1>3, <2>5, <2>6, <2>8, <2>9
<1>7. CASE old = {}
  <2>1. PICK w \in User : account[w].st = "none" /\ account' = [account EXCEPT ![w] = new]
    BY <1>1, <1>7 DEF EnsureSuperadmin, new
  <2>2. account'[w] = new /\ \A v \in User \ {w} : account'[v] = account[v]
    BY <2>1, <1>3 DEF AccountTables
  <2>3. account' \in [User -> Row]
    BY <2>1, <2>2, <1>3, <1>4 DEF AccountTables
  <2>4. AccountTables'
    <3>1. \A u \in Here' : account'[u].login \in Name /\ account'[u].name \in Name
      BY <2>2, <1>3, <1>4, AccountsAssumption DEF AccountTables, Here
    <3> QED BY <1>1, <1>3, <2>3, <3>1 DEF AccountTables
  <2>5. w \notin Here
    BY <2>1 DEF Here
  <2> QED BY <1>1, <1>2, <1>3, <1>4, <2>1, <2>2, <2>4, <2>5 DEF Here
<1> QED BY <1>6, <1>7

\* Who there is stays, and as whom.
HereKept == \A u \in Here : u \in Here' /\ account'[u].name = account[u].name

LEMMA NamesHere == ASSUME NamesKept PROVE HereKept /\ Here' = Here
  BY DEF NamesKept, HereKept, Here

\* What the rest of the site sees of a step about accounts.
LEMMA AccountsPlace ==
  ASSUME Tables, \A p \in Request : req[p].at \in {"signup", "place"} => account[req[p].user].st = "none",
         AccountsStep
  PROVE  /\ AccountTables' /\ RequestTable' /\ load' = load /\ HereKept
         /\ req' = req \/ \E p \in Request : p \in Serving /\ AboutAccounts(p)
<1>1. CASE AccountsArrive
  <2>1. PICK p \in Server : AboutAccounts(p) /\ AccountTables' /\ NamesKept
    BY <1>1, AccountsArrives DEF Comes
  <2>2. p \in Request
    BY ServerFacts DEF Tables, AccountTables
  <2> QED BY <2>1, <2>2, NamesHere DEF AboutAccounts, Serving
<1>2. CASE Second
  BY <1>2, SecondFacts, NamesHere DEF Tables, RequestTable
<1>3. ASSUME NEW p \in Request \ Idle,
             \/ CreateRegisteredUser(p) \/ CreatePlaceholderUser(p) \/ IssueToken(p) \/ RenameLock(p)
             \/ CountSuperadmins(p) \/ SetRole(p) \/ EnsureClaimToken(p) \/ ResetPassword(p) \/ ClaimAccount(p)
             \/ LockUser(p)
      PROVE  AboutAccounts(p) /\ AccountTables' /\ HereKept
  <2>10. ASSUME req[p].at \in {"signup", "place"}, req[p].user \in User,
               \A v \in User \ {req[p].user} : account'[v] = account[v]
        PROVE  HereKept
    <3>1. req[p].user \notin Here
      BY <2>10 DEF Here
    <3>2. \A v \in Here : v \in User /\ v # req[p].user
      BY <3>1 DEF Here
    <3> QED BY <2>10, <3>2 DEF HereKept, Here
  <2>1. CASE CreateRegisteredUser(p)
    <3>1. /\ AboutAccounts(p) /\ AccountTables' /\ At(p, "signup") /\ req[p].user \in User
          /\ NamesKept \/ \A v \in User \ {req[p].user} : account'[v] = account[v]
      BY <2>1, UserCreated DEF Created
    <3> QED BY <3>1, <2>10, NamesHere DEF At
  <2>11. CASE CreatePlaceholderUser(p)
    <3>1. /\ AboutAccounts(p) /\ AccountTables' /\ At(p, "place") /\ req[p].user \in User
          /\ NamesKept \/ \A v \in User \ {req[p].user} : account'[v] = account[v]
      BY <2>11, PlaceMade DEF Created
    <3> QED BY <3>1, <2>10, NamesHere DEF At
  <2>2. CASE IssueToken(p)
    BY <2>2, TokenIssued, NamesHere
  <2>3. CASE RenameLock(p)
    BY <2>3, RenameLocked, NamesHere
  <2>4. CASE CountSuperadmins(p)
    BY <2>4, Counted, NamesHere
  <2>5. CASE SetRole(p)
    BY <2>5, RoleSet, NamesHere
  <2>6. CASE EnsureClaimToken(p)
    BY <2>6, LinkMade, NamesHere
  <2>7. CASE ResetPassword(p)
    BY <2>7, PasswordReset, NamesHere
  <2>8. CASE ClaimAccount(p)
    BY <2>8, AccountClaimed, NamesHere
  <2>9. CASE LockUser(p)
    BY <2>9, UserLocked, NamesHere
  <2> QED BY <1>3, <2>1, <2>2, <2>3, <2>4, <2>5, <2>6, <2>7, <2>8, <2>9, <2>11
<1>4. ASSUME NEW p \in Request \ Idle,
             \/ CreateRegisteredUser(p) \/ CreatePlaceholderUser(p) \/ IssueToken(p) \/ RenameLock(p)
             \/ CountSuperadmins(p) \/ SetRole(p) \/ EnsureClaimToken(p) \/ ResetPassword(p) \/ ClaimAccount(p)
             \/ LockUser(p)
      PROVE  /\ AccountTables' /\ RequestTable' /\ load' = load /\ HereKept
             /\ \E q \in Request : q \in Serving /\ AboutAccounts(q)
  BY <1>3, <1>4 DEF AboutAccounts, Serving
<1> QED BY <1>1, <1>2, <1>4 DEF AccountsStep

-------------------------------------------------------------------------------
(* Sides of matches.                                                       *)

LEMMA ItemsMapped ==
  ASSUME NEW S, NEW s \in Seq(S), NEW t, t = [i \in DOMAIN s |-> t[i]], \A i \in DOMAIN s : t[i] \in S
  PROVE  t \in Seq(S) /\ DOMAIN t = DOMAIN s
<1>1. Len(s) \in Nat /\ DOMAIN s = 1..Len(s)
  OBVIOUS
<1>2. t \in [1..Len(s) -> S]
  BY <1>1
<1>3. t \in Seq(S)
  BY <1>1, <1>2, SeqDef
<1> QED BY <1>3

LEMMA RecordFacts ==
  ASSUME NEW r \in Record
  PROVE  /\ r.sides \in Seq(Side) /\ \A i \in DOMAIN r.sides : r.sides[i] \in Side
         /\ r.title \in {Own} \cup Seq(AnyName) /\ r.hand \in BOOLEAN
         /\ r.mode \in {"1x1", "2x2"} /\ r.st \in {"coming", "finished", "gone"}
  BY DEF Record

LEMMA TitleFacts ==
  ASSUME NEW s \in Seq(Side)
  PROVE  Title(s) \in Seq(AnyName)
<1>1. Len(s) \in Nat /\ DOMAIN s = 1..Len(s) /\ \A i \in DOMAIN s : s[i] \in Side
  OBVIOUS
<1>2. \A i \in 1..Len(s) : s[i].name \in AnyName
  BY <1>1 DEF Side
<1>3. Title(s) \in [1..Len(s) -> AnyName]
  BY <1>1, <1>2 DEF Title
<1> QED BY <1>1, <1>3, SeqDef

LEMMA NoPairIsEmpty == ASSUME NEW pair \in Pairs PROVE pair # {} /\ pair \subseteq User
  BY FS_EmptySet DEF Pairs

LEMMA SideFacts ==
  ASSUME NEW s \in Side
  PROVE  /\ s.who \subseteq User /\ s.name \in AnyName
         /\ s.called \in [DOMAIN s.called -> Name \cup {NoName}] /\ DOMAIN s.called \subseteq User
<1>1. s.called \in UNION {[us -> Name \cup {NoName}] : us \in SUBSET User} /\ s.who \subseteq User /\ s.name \in AnyName
  BY DEF Side
<1>2. PICK us \in SUBSET User : s.called \in [us -> Name \cup {NoName}]
  BY <1>1
<1> QED BY <1>1, <1>2

LEMMA SideMade ==
  ASSUME NEW who \in SUBSET User, NEW name \in AnyName, NEW us \in SUBSET User,
         NEW called \in [us -> Name \cup {NoName}]
  PROVE  [who |-> who, name |-> name, called |-> called] \in Side
<1>1. called \in UNION {[vs -> Name \cup {NoName}] : vs \in SUBSET User}
  OBVIOUS
<1> HIDE DEF Side
<1> QED BY <1>1 DEF Side

LEMMA CalledNowFacts ==
  ASSUME AccountTables, NEW us \in SUBSET User
  PROVE  /\ CalledNow(us) \in [us -> Name \cup {NoName}]
         /\ \A u \in us : CalledNow(us)[u] = account[u].name
  BY DEF CalledNow, AccountTables, Row

LEMMA PlayerSideFacts ==
  ASSUME AccountTables, NEW u \in Here
  PROVE  /\ PlayerSide(u) \in Side /\ PlayerSide(u).who = {u}
         /\ DOMAIN PlayerSide(u).called = {u} /\ SideCalled(PlayerSide(u))
<1>1. {u} \in SUBSET User /\ account[u].name \in AnyName
  BY DEF Here, AccountTables, AnyName
<1>2. CalledNow({u}) \in [{u} -> Name \cup {NoName}] /\ \A v \in {u} : CalledNow({u})[v] = account[v].name
  BY <1>1, CalledNowFacts
<1>3. PlayerSide(u) \in Side
  BY <1>1, <1>2, SideMade DEF PlayerSide
<1> QED BY <1>1, <1>2, <1>3 DEF PlayerSide, SideCalled

LEMMA TeamSideFacts ==
  ASSUME AccountTables, TeamTables, NEW t \in team
  PROVE  /\ TeamSide(t) \in Side /\ TeamSide(t).who = t.pair /\ t.pair # {} /\ TeamSide(t).name = t.name
         /\ DOMAIN TeamSide(t).called = t.pair /\ SideCalled(TeamSide(t))
<1>1. t.pair \in Pairs /\ t.name \in AnyName
  BY DEF TeamTables, AnyName
<1>2. t.pair \in SUBSET User /\ t.pair # {}
  BY <1>1, NoPairIsEmpty
<1>3. /\ CalledNow(t.pair) \in [t.pair -> Name \cup {NoName}]
      /\ \A v \in t.pair : CalledNow(t.pair)[v] = account[v].name
  BY <1>2, CalledNowFacts
<1>4. TeamSide(t) \in Side
  BY <1>1, <1>2, <1>3, SideMade DEF TeamSide
<1> QED BY <1>1, <1>2, <1>3, <1>4 DEF TeamSide, SideCalled

\* A match with other sides, which differ in name only.
LEMMA ComingRenamed ==
  ASSUME NEW r \in Record, NEW pair, NEW n \in TeamName
  PROVE  LET t == RenameComing(r, pair, n) IN
         /\ t \in Record /\ t.mode = r.mode /\ t.st = r.st /\ t.hand = r.hand
         /\ DOMAIN t.sides = DOMAIN r.sides
         /\ \A i \in DOMAIN r.sides :
              /\ t.sides[i].who = r.sides[i].who /\ t.sides[i].called = r.sides[i].called
              /\ t.sides[i].name = IF r.mode = "2x2" /\ r.st = "coming" /\ r.sides[i].who = pair
                                   THEN n ELSE r.sides[i].name
         /\ r.title \in {Own, Title(r.sides)} => t.title \in {Own, Title(t.sides)}
<1> DEFINE t == RenameComing(r, pair, n)
           sides == [i \in DOMAIN r.sides |-> IF r.sides[i].who = pair THEN [r.sides[i] EXCEPT !.name = n]
                                              ELSE r.sides[i]]
<1>1. CASE r.mode = "2x2" /\ r.st = "coming"
  <2>1. t = [r EXCEPT !.sides = sides, !.title = IF @ = Title(r.sides) THEN Title(sides) ELSE @]
    BY <1>1 DEF RenameComing
  <2>2. /\ r.sides \in Seq(Side) /\ r.title \in {Own} \cup Seq(AnyName)
        /\ \A i \in DOMAIN r.sides : r.sides[i] \in Side
    BY RecordFacts
  <2>3. ASSUME NEW i \in DOMAIN r.sides
        PROVE  /\ sides[i] \in Side /\ sides[i].who = r.sides[i].who /\ sides[i].called = r.sides[i].called
               /\ sides[i].name = IF r.sides[i].who = pair THEN n ELSE r.sides[i].name
    <3>1. r.sides[i] \in Side /\ n \in AnyName
      BY <2>2 DEF AnyName
    <3>2. [r.sides[i] EXCEPT !.name = n] \in Side
      BY <3>1 DEF Side
    <3> QED BY <3>1, <3>2 DEF Side
  <2>4. sides \in Seq(Side) /\ DOMAIN sides = DOMAIN r.sides
    <3>1. sides = [i \in DOMAIN r.sides |-> sides[i]]
      OBVIOUS
    <3>2. \A i \in DOMAIN r.sides : sides[i] \in Side
      BY <2>3
    <3> HIDE DEF sides
    <3> QED BY <3>1, <3>2, <2>2, ItemsMapped
  <2> HIDE DEF sides
  <2>5. Title(sides) \in Seq(AnyName)
    BY <2>4, TitleFacts
  <2> DEFINE title == IF r.title = Title(r.sides) THEN Title(sides) ELSE r.title
  <2>6. title \in {Own} \cup Seq(AnyName)
    BY <2>2, <2>5
  <2>7. t = [r EXCEPT !.sides = sides, !.title = title]
    BY <2>1
  <2>10. r.title \in {Own, Title(r.sides)} => title \in {Own, Title(sides)}
    OBVIOUS
  <2> HIDE DEF title, t
  <2>8. /\ t.sides = sides /\ t.title = title /\ t.mode = r.mode /\ t.st = r.st /\ t.hand = r.hand
    BY <2>7 DEF Record
  <2>9. t \in Record
    BY <2>4, <2>6, <2>7 DEF Record
  <2>11. \A i \in DOMAIN r.sides :
           /\ t.sides[i].who = r.sides[i].who /\ t.sides[i].called = r.sides[i].called
           /\ t.sides[i].name = IF r.sides[i].who = pair THEN n ELSE r.sides[i].name
    BY <2>3, <2>8
  <2> QED BY <1>1, <2>4, <2>8, <2>9, <2>10, <2>11 DEF t
<1>2. CASE ~(r.mode = "2x2" /\ r.st = "coming")
  <2>1. t = r
    BY <1>2 DEF RenameComing
  <2> HIDE DEF t
  <2>2. \A i \in DOMAIN r.sides :
          t.sides[i].name = IF r.mode = "2x2" /\ r.st = "coming" /\ r.sides[i].who = pair
                            THEN n ELSE r.sides[i].name
    BY <1>2, <2>1
  <2> QED BY <2>1, <2>2 DEF t
<1> QED BY <1>1, <1>2

ParticipantRenamed(r, u, n) ==
  [r EXCEPT !.sides = [i \in DOMAIN r.sides |->
       LET s == r.sides[i] IN
       IF u \notin s.who THEN s
       ELSE [s EXCEPT !.called = [@ EXCEPT ![u] = n],
                      !.name = IF r.mode = "1x1" THEN n ELSE @]]]

LEMMA PlayerRenamed ==
  ASSUME NEW r \in Record, NEW u \in User, NEW n \in Name
  PROVE  LET t == ParticipantRenamed(r, u, n) IN
         /\ t \in Record /\ t.mode = r.mode /\ t.st = r.st /\ t.title = r.title /\ t.hand = r.hand
         /\ DOMAIN t.sides = DOMAIN r.sides
         /\ \A i \in DOMAIN r.sides :
              /\ t.sides[i].who = r.sides[i].who
              /\ DOMAIN t.sides[i].called = DOMAIN r.sides[i].called
              /\ r.mode = "2x2" => t.sides[i].name = r.sides[i].name
              /\ \A v \in DOMAIN r.sides[i].called :
                   t.sides[i].called[v] = IF v = u /\ u \in r.sides[i].who THEN n ELSE r.sides[i].called[v]
<1> DEFINE t == ParticipantRenamed(r, u, n)
           new(i) == [r.sides[i] EXCEPT !.called = [@ EXCEPT ![u] = n],
                                        !.name = IF r.mode = "1x1" THEN n ELSE @]
           sides == [i \in DOMAIN r.sides |-> IF u \notin r.sides[i].who THEN r.sides[i] ELSE new(i)]
<1>1. t = [r EXCEPT !.sides = sides]
  BY DEF ParticipantRenamed
<1>2. r.sides \in Seq(Side) /\ \A i \in DOMAIN r.sides : r.sides[i] \in Side
  BY RecordFacts
<1>3. ASSUME NEW i \in DOMAIN r.sides
      PROVE  /\ sides[i] \in Side /\ sides[i].who = r.sides[i].who
             /\ DOMAIN sides[i].called = DOMAIN r.sides[i].called
             /\ r.mode = "2x2" => sides[i].name = r.sides[i].name
             /\ \A v \in DOMAIN r.sides[i].called :
                  sides[i].called[v] = IF v = u /\ u \in r.sides[i].who THEN n ELSE r.sides[i].called[v]
  <2> DEFINE s == r.sides[i]
             called == [s.called EXCEPT ![u] = n]
             name == IF r.mode = "1x1" THEN n ELSE s.name
             us == DOMAIN s.called
  <2>1. s \in Side
    BY <1>2
  <2>2. s.who \subseteq User /\ s.name \in AnyName /\ s.called \in [us -> Name \cup {NoName}] /\ us \in SUBSET User
    BY <2>1, SideFacts
  <2>3. called \in [us -> Name \cup {NoName}] /\ DOMAIN called = us
        /\ \A v \in us : called[v] = IF v = u THEN n ELSE s.called[v]
    BY <2>2
  <2>4. name \in AnyName /\ (r.mode = "2x2" => name = s.name)
    BY <2>2 DEF AnyName
  <2>5. CASE u \notin s.who
    <3>1. sides[i] = s
      BY <2>5
    <3> QED BY <3>1, <2>1, <2>5
  <2>6. CASE u \in s.who
    <3>1. sides[i] = [s EXCEPT !.called = called, !.name = name]
      BY <2>6
    <3> HIDE DEF called, name, sides
    <3>2. sides[i].who = s.who /\ sides[i].called = called /\ sides[i].name = name
          /\ sides[i] = [who |-> s.who, name |-> name, called |-> called]
      <4> HIDE DEF s
      <4> QED BY <2>1, <3>1 DEF Side
    <3>3. sides[i] \in Side
      <4>1. /\ s.who \in SUBSET User /\ name \in AnyName /\ us \in SUBSET User
            /\ called \in [us -> Name \cup {NoName}]
        BY <2>2, <2>3, <2>4
      <4> HIDE DEF s, us
      <4>2. [who |-> s.who, name |-> name, called |-> called] \in Side
        BY <4>1, SideMade
      <4> QED BY <3>2, <4>2
    <3> QED BY <3>2, <3>3, <2>3, <2>4, <2>6
  <2> QED BY <2>5, <2>6
<1>4. sides \in Seq(Side) /\ DOMAIN sides = DOMAIN r.sides
  <2>1. sides = [i \in DOMAIN r.sides |-> sides[i]]
    OBVIOUS
  <2>2. \A i \in DOMAIN r.sides : sides[i] \in Side
    BY <1>3
  <2> HIDE DEF sides
  <2> QED BY <2>1, <2>2, <1>2, ItemsMapped
<1> HIDE DEF sides, t
<1>5. t \in Record /\ t.mode = r.mode /\ t.st = r.st /\ t.title = r.title /\ t.hand = r.hand /\ t.sides = sides
  BY <1>1, <1>4 DEF Record
<1>6. \A i \in DOMAIN r.sides :
        /\ t.sides[i].who = r.sides[i].who
        /\ DOMAIN t.sides[i].called = DOMAIN r.sides[i].called
        /\ r.mode = "2x2" => t.sides[i].name = r.sides[i].name
        /\ \A v \in DOMAIN r.sides[i].called :
             t.sides[i].called[v] = IF v = u /\ u \in r.sides[i].who THEN n ELSE r.sides[i].called[v]
  BY <1>3, <1>5
<1> QED BY <1>4, <1>5, <1>6 DEF t

ParticipantGone(r, u) ==
  IF r.mode = "2x2" THEN r
  ELSE [r EXCEPT !.sides = [i \in DOMAIN r.sides |-> [r.sides[i] EXCEPT !.who = @ \ {u}]]]

LEMMA PlayerGone ==
  ASSUME NEW r \in Record, NEW u \in User
  PROVE  LET t == ParticipantGone(r, u) IN
         /\ t \in Record /\ t.mode = r.mode /\ t.st = r.st /\ t.title = r.title /\ t.hand = r.hand
         /\ DOMAIN t.sides = DOMAIN r.sides
         /\ r.mode = "2x2" => t = r
         /\ \A i \in DOMAIN r.sides :
              /\ r.mode # "2x2" => t.sides[i].who = r.sides[i].who \ {u}
              /\ t.sides[i].called = r.sides[i].called /\ t.sides[i].name = r.sides[i].name
<1> DEFINE t == ParticipantGone(r, u)
           sides == [i \in DOMAIN r.sides |-> [r.sides[i] EXCEPT !.who = @ \ {u}]]
<1>1. CASE r.mode = "2x2"
  BY <1>1 DEF ParticipantGone
<1>2. CASE r.mode # "2x2"
  <2>1. t = [r EXCEPT !.sides = sides]
    BY <1>2 DEF ParticipantGone
  <2>2. r.sides \in Seq(Side) /\ \A i \in DOMAIN r.sides : r.sides[i] \in Side
    BY RecordFacts
  <2>3. ASSUME NEW i \in DOMAIN r.sides
        PROVE  /\ sides[i] \in Side /\ sides[i].who = r.sides[i].who \ {u}
               /\ sides[i].called = r.sides[i].called /\ sides[i].name = r.sides[i].name
    <3>1. r.sides[i] \in Side
      BY <2>2
    <3>2. [r.sides[i] EXCEPT !.who = @ \ {u}] \in Side
      BY <3>1 DEF Side
    <3> QED BY <3>1, <3>2 DEF Side
  <2>4. sides \in Seq(Side) /\ DOMAIN sides = DOMAIN r.sides
    <3>1. sides = [i \in DOMAIN r.sides |-> sides[i]]
      OBVIOUS
    <3>2. \A i \in DOMAIN r.sides : sides[i] \in Side
      BY <2>3
    <3> HIDE DEF sides
    <3> QED BY <3>1, <3>2, <2>2, ItemsMapped
  <2> HIDE DEF sides, t
  <2>5. t \in Record /\ t.mode = r.mode /\ t.st = r.st /\ t.title = r.title /\ t.hand = r.hand /\ t.sides = sides
    BY <2>1, <2>4 DEF Record
  <2>6. \A i \in DOMAIN r.sides :
              /\ r.mode # "2x2" => t.sides[i].who = r.sides[i].who \ {u}
              /\ t.sides[i].called = r.sides[i].called /\ t.sides[i].name = r.sides[i].name
    BY <2>3, <2>5, <1>2
  <2> QED BY <1>2, <2>4, <2>5, <2>6 DEF t
<1> QED BY <1>1, <1>2

-------------------------------------------------------------------------------
(* Requests about teams and matches.                                       *)

\* A step of request p about teams and matches.
AboutTeams(p) ==
  /\ Others(p) /\ RequestTable' /\ load' = load
  /\ req[p].at \in {"idle"} \cup TeamsAt
  /\ req'[p].at \in {"idle"} \cup TeamsAt
  /\ req'[p].user = NoUser

LEMMA TeamArrives ==
  ASSUME Tables, NEW p \in Server, NEW kind, NEW r, Arrive(p, kind, r),
         Fields(r), Carries(r), r.at \in {"idle"} \cup TeamsAt, r.user = NoUser
  PROVE  p \in Request /\ At(p, "idle") /\ AboutTeams(p) /\ req'[p] = r /\ Kind(kind)
<1>1. p \in Request /\ At(p, "idle")
  BY ServerFacts DEF Tables, AccountTables
<1>2. RequestTable' /\ req'[p] = r /\ Others(p) /\ load' = load
  BY <1>1, Arrives DEF Tables
<1> QED BY <1>1, <1>2 DEF AboutTeams, At, Arrive

\* The sides of every match list whom they call.
LEMMA WhoListed ==
  ASSUME TeamTables, NEW m \in DOMAIN match
  PROVE  match[m] \in Record /\ \A i \in SidesOf(m) : match[m].sides[i].who \subseteq DOMAIN match[m].sides[i].called
  BY DEF TeamTables

LEMMA TeamsSame == ASSUME TeamTables, UNCHANGED teamVars PROVE TeamTables'
  BY DEF TeamTables, teamVars, SidesOf

LEMMA TeamAsked ==
  ASSUME Tables, NEW p \in Server, NEW pair \in Pairs, NEW n \in TeamName, HandleCreateTeam(p, pair, n)
  PROVE  /\ p \in Request /\ At(p, "idle") /\ AboutTeams(p) /\ UNCHANGED teamVars
         /\ req'[p].at = "team" /\ req'[p].args[1] = pair
<1> DEFINE r == [Blank EXCEPT !.at = "team", !.args = <<pair>>, !.name = n]
<1>1. Arrive(p, "team", r) /\ UNCHANGED teamVars
  BY DEF HandleCreateTeam
<1>2. r.at = "team" /\ r.args[1] = pair /\ r.name = n /\ r.user = NoUser /\ Fields(r)
  BY DEF Blank, Fields, TeamsAt
<1> HIDE DEF r
<1>3. Carries(r)
  BY <1>2 DEF Carries, AccountsAt, TeamsAt
<1> QED BY <1>1, <1>2, <1>3, TeamArrives DEF TeamsAt

LEMMA UpdateAsked ==
  ASSUME Tables, NEW p \in Server, NEW t \in team, NEW to \in Pairs, NEW n \in TeamName,
         HandleUpdateTeam(p, t, to, n)
  PROVE  /\ p \in Request /\ At(p, "idle") /\ AboutTeams(p) /\ UNCHANGED teamVars
         /\ req'[p].at = "update" /\ req'[p].args[1] = t.pair /\ req'[p].args[2] = to
         /\ to # t.pair => ~Played(t.pair)
<1> DEFINE r == [Blank EXCEPT !.at = "update", !.args = <<t.pair, to>>, !.name = n]
<1>1. Arrive(p, "update", r) /\ UNCHANGED teamVars /\ (to # t.pair => ~Played(t.pair))
  BY DEF HandleUpdateTeam
<1>2. r.at = "update" /\ r.args[1] = t.pair /\ r.args[2] = to /\ r.name = n /\ r.user = NoUser /\ Fields(r)
  BY DEF Blank, Fields, TeamsAt
<1>4. t.pair \in Pairs
  BY DEF Tables, TeamTables
<1> HIDE DEF r
<1>3. Carries(r)
  BY <1>2, <1>4 DEF Carries, AccountsAt, TeamsAt
<1> QED BY <1>1, <1>2, <1>3, TeamArrives DEF TeamsAt

LEMMA DropAsked ==
  ASSUME Tables, NEW p \in Server, NEW t \in team, HandleDeleteTeam(p, t)
  PROVE  /\ p \in Request /\ At(p, "idle") /\ AboutTeams(p) /\ UNCHANGED teamVars
         /\ req'[p].at = "drop" /\ req'[p].args[1] = t.pair /\ ~Played(t.pair)
<1> DEFINE r == [Blank EXCEPT !.at = "drop", !.args = <<t.pair>>]
<1>1. Arrive(p, "drop", r) /\ UNCHANGED teamVars /\ ~Played(t.pair)
  BY DEF HandleDeleteTeam
<1>2. r.at = "drop" /\ r.args[1] = t.pair /\ r.user = NoUser /\ Fields(r)
  BY DEF Blank, Fields, TeamsAt
<1>4. t.pair \in Pairs
  BY DEF Tables, TeamTables
<1> HIDE DEF r
<1>3. Carries(r)
  BY <1>2, <1>4 DEF Carries, AccountsAt, TeamsAt
<1> QED BY <1>1, <1>2, <1>3, TeamArrives DEF TeamsAt

LEMMA MatchAsked ==
  ASSUME Tables, NEW p \in Server, NEW kind \in {"1x1", "2x2"}, NEW a \in Side, NEW b \in Side,
         a.who = DOMAIN a.called, b.who = DOMAIN b.called,
         HandleCreateMatch(p, kind, a, b)
  PROVE  /\ p \in Request /\ At(p, "idle") /\ AboutTeams(p) /\ UNCHANGED teamVars
         /\ req'[p].at = kind /\ req'[p].args[1] = a /\ req'[p].args[2] = b
<1> DEFINE r == [Blank EXCEPT !.at = kind, !.args = <<a, b>>]
<1>1. Arrive(p, kind, r) /\ UNCHANGED teamVars
  BY DEF HandleCreateMatch
<1>2. r.at = kind /\ r.args = <<a, b>> /\ r.user = NoUser /\ Fields(r)
  BY DEF Blank, Fields, TeamsAt
<1>4. <<a, b>> \in [1..2 -> Side]
  <2>1. \A i \in 1..2 : i = 1 \/ i = 2
    OBVIOUS
  <2>2. DOMAIN <<a, b>> = 1..2 /\ <<a, b>>[1] = a /\ <<a, b>>[2] = b
    OBVIOUS
  <2>3. <<a, b>> = [i \in 1..2 |-> <<a, b>>[i]]
    BY <2>2
  <2> HIDE DEF Side
  <2> QED BY <2>1, <2>2, <2>3
<1>5. \A i \in 1..2 : <<a, b>>[i].who = DOMAIN <<a, b>>[i].called
  <2>1. \A i \in 1..2 : i = 1 \/ i = 2
    OBVIOUS
  <2> QED BY <2>1
<1> HIDE DEF r
<1>3. Carries(r)
  BY <1>2, <1>4, <1>5 DEF Carries, AccountsAt, TeamsAt
<1>6. r.args[1] = a /\ r.args[2] = b
  BY <1>2
<1> QED BY <1>1, <1>2, <1>3, <1>6, TeamArrives DEF TeamsAt

LEMMA AddAsked ==
  ASSUME Tables, NEW p \in Server, NEW m, NEW us \in SUBSET User, NEW n \in TeamName,
         HandleAddParticipant(p, m, us, n)
  PROVE  /\ p \in Request /\ At(p, "idle") /\ AboutTeams(p) /\ UNCHANGED teamVars
         /\ req'[p].at = "add" /\ req'[p].args[2] = us
<1> DEFINE r == [Blank EXCEPT !.at = "add", !.args = <<m, us>>, !.name = n]
<1>1. Arrive(p, "hand", r) /\ UNCHANGED teamVars
  BY DEF HandleAddParticipant
<1>2. r.at = "add" /\ r.args[2] = us /\ r.name = n /\ r.user = NoUser /\ Fields(r)
  BY DEF Blank, Fields, TeamsAt
<1> HIDE DEF r
<1>3. Carries(r)
  BY <1>2 DEF Carries, AccountsAt, TeamsAt
<1> QED BY <1>1, <1>2, <1>3, TeamArrives DEF TeamsAt

LEMMA EditAsked ==
  ASSUME Tables, NEW p \in Server, NEW m, NEW i, NEW us \in SUBSET User, NEW n \in TeamName, NEW fields,
         HandleUpdateParticipant(p, m, i, us, n, fields)
  PROVE  /\ p \in Request /\ At(p, "idle") /\ AboutTeams(p) /\ UNCHANGED teamVars
         /\ req'[p].at = "edit" /\ req'[p].args[2] = us
<1> DEFINE r == [Blank EXCEPT !.at = "edit", !.args = <<m, us, i, fields>>, !.name = n]
<1>1. Arrive(p, "hand", r) /\ UNCHANGED teamVars
  BY DEF HandleUpdateParticipant
<1>2. r.at = "edit" /\ r.args[2] = us /\ r.name = n /\ r.user = NoUser /\ Fields(r)
  BY DEF Blank, Fields, TeamsAt
<1> HIDE DEF r
<1>3. Carries(r)
  BY <1>2 DEF Carries, AccountsAt, TeamsAt
<1> QED BY <1>1, <1>2, <1>3, TeamArrives DEF TeamsAt

LEMMA MatchPatched ==
  ASSUME Tables, NEW p \in Server, NEW m \in Matches, NEW kind, NEW st \in {"coming", "finished", "gone"},
         HandleUpdateMatch(p, m, kind, st)
  PROVE  /\ p \in Request /\ At(p, "idle") /\ AboutTeams(p) /\ TeamTables' /\ team' = team
         /\ req'[p] = Blank /\ Kind(kind) /\ m \in DOMAIN match /\ DOMAIN match' = DOMAIN match
         /\ \A k \in DOMAIN match \ {m} : match'[k] = match[k]
         /\ match'[m].st = st /\ match'[m].mode = match[m].mode /\ match'[m].sides = match[m].sides
         /\ match'[m].title = match[m].title /\ match'[m].hand = match[m].hand
<1> DEFINE row == [match[m] EXCEPT !.st = st]
<1>1. Arrive(p, kind, Blank) /\ match' = [match EXCEPT ![m] = row] /\ team' = team
  BY DEF HandleUpdateMatch
<1>2. m \in DOMAIN match /\ TeamTables
  BY DEF Tables, Matches
<1>3. p \in Request /\ At(p, "idle") /\ AboutTeams(p) /\ req'[p] = Blank /\ Kind(kind)
  BY <1>1, TeamArrives, BlankFacts
<1>4. match[m] \in Record /\ match \in Seq(Record)
  BY <1>2 DEF TeamTables
<1>5. /\ row \in Record /\ row.st = st /\ row.mode = match[m].mode /\ row.sides = match[m].sides
      /\ row.title = match[m].title /\ row.hand = match[m].hand
  BY <1>4 DEF Record
<1> HIDE DEF row
<1>6. /\ match' \in Seq(Record) /\ DOMAIN match' = DOMAIN match /\ match'[m] = row
      /\ \A k \in DOMAIN match \ {m} : match'[k] = match[k]
  BY <1>1, <1>2, <1>4, <1>5, ExceptSeq
<1>7. TeamTables'
  <2>1. \A k \in DOMAIN match : match'[k].sides = match[k].sides
    BY <1>5, <1>6
  <2>2. \A k \in DOMAIN match' : \A i \in SidesOf(k)' :
          match'[k].sides[i].who \subseteq DOMAIN match'[k].sides[i].called
    BY <1>2, <1>6, <2>1 DEF TeamTables, SidesOf
  <2> QED BY <1>1, <1>2, <1>6, <2>2 DEF TeamTables
<1> QED BY <1>1, <1>2, <1>3, <1>5, <1>6, <1>7

LEMMA MatchRetitled ==
  ASSUME Tables, NEW p \in Server, NEW m \in Matches, HandleRetitle(p, m)
  PROVE  /\ p \in Request /\ At(p, "idle") /\ AboutTeams(p) /\ TeamTables' /\ team' = team
         /\ req'[p] = Blank /\ m \in DOMAIN match /\ DOMAIN match' = DOMAIN match
         /\ \A k \in DOMAIN match \ {m} : match'[k] = match[k]
         /\ match'[m].st = match[m].st /\ match'[m].mode = match[m].mode /\ match'[m].sides = match[m].sides
         /\ match'[m].title = Own /\ match'[m].hand = match[m].hand
<1> DEFINE row == [match[m] EXCEPT !.title = Own]
<1>1. Arrive(p, "retitle", Blank) /\ match' = [match EXCEPT ![m] = row] /\ team' = team
  BY DEF HandleRetitle
<1>2. m \in DOMAIN match /\ TeamTables
  BY DEF Tables, Matches
<1>3. p \in Request /\ At(p, "idle") /\ AboutTeams(p) /\ req'[p] = Blank
  BY <1>1, TeamArrives, BlankFacts
<1>4. match[m] \in Record /\ match \in Seq(Record)
  BY <1>2 DEF TeamTables
<1>5. /\ row \in Record /\ row.st = match[m].st /\ row.mode = match[m].mode /\ row.sides = match[m].sides
      /\ row.title = Own /\ row.hand = match[m].hand
  BY <1>4 DEF Record
<1> HIDE DEF row
<1>6. /\ match' \in Seq(Record) /\ DOMAIN match' = DOMAIN match /\ match'[m] = row
      /\ \A k \in DOMAIN match \ {m} : match'[k] = match[k]
  BY <1>1, <1>2, <1>4, <1>5, ExceptSeq
<1>7. TeamTables'
  <2>1. \A k \in DOMAIN match : match'[k].sides = match[k].sides
    BY <1>5, <1>6
  <2>2. \A k \in DOMAIN match' : \A i \in SidesOf(k)' :
          match'[k].sides[i].who \subseteq DOMAIN match'[k].sides[i].called
    BY <1>2, <1>6, <2>1 DEF TeamTables, SidesOf
  <2> QED BY <1>1, <1>2, <1>6, <2>2 DEF TeamTables
<1> QED BY <1>1, <1>2, <1>3, <1>5, <1>6, <1>7

LEMMA TeamEnds ==
  ASSUME Tables, NEW p \in Request, Done(p), load' = load, req[p].at \in TeamsAt
  PROVE  AboutTeams(p) /\ req'[p] = Blank
  BY DoneFacts DEF Tables, AboutTeams, TeamsAt

LEMMA TeamCreated ==
  ASSUME Tables, NEW p \in Request, CreateTeam(p)
  PROVE  /\ AboutTeams(p) /\ TeamTables' /\ req'[p] = Blank /\ match' = match
         /\ At(p, "team") /\ req[p].args[1] \in Pairs
         /\ \/ team' = team
            \/ /\ TeamOf(req[p].args[1]) = {} /\ req[p].args[1] \subseteq Here
               /\ team' = team \cup {[pair |-> req[p].args[1], name |-> req[p].name]}
<1> DEFINE pair == req[p].args[1]
<1>1. /\ At(p, "team") /\ Done(p) /\ load' = load /\ match' = match
      /\ team' = IF TeamOf(pair) = {} /\ pair \subseteq Here
                 THEN team \cup {[pair |-> pair, name |-> req[p].name]} ELSE team
  BY DEF CreateTeam
<1>2. pair \in Pairs /\ req[p].name \in TeamName
  BY <1>1 DEF Tables, RequestTable, Carries, At
<1>3. AboutTeams(p) /\ req'[p] = Blank
  BY <1>1, TeamEnds DEF At, TeamsAt
<1>4. team' \subseteq [pair : Pairs, name : TeamName]
  BY <1>1, <1>2 DEF Tables, TeamTables
<1>5. TeamTables'
  BY <1>1, <1>4 DEF Tables, TeamTables, SidesOf
<1> QED BY <1>1, <1>2, <1>3, <1>5

LEMMA TeamDropped ==
  ASSUME Tables, NEW p \in Request, DeleteTeam(p)
  PROVE  /\ AboutTeams(p) /\ TeamTables' /\ req'[p] = Blank /\ match' = match
         /\ At(p, "drop") /\ team' = team \ TeamOf(req[p].args[1])
<1>1. /\ At(p, "drop") /\ Done(p) /\ load' = load /\ match' = match
      /\ team' = team \ TeamOf(req[p].args[1])
  BY DEF DeleteTeam
<1>3. AboutTeams(p) /\ req'[p] = Blank
  BY <1>1, TeamEnds DEF At, TeamsAt
<1>5. TeamTables'
  BY <1>1 DEF Tables, TeamTables, SidesOf
<1> QED BY <1>1, <1>3, <1>5

\* Matches with the same players.
SamePlayers(m) ==
  /\ match'[m].mode = match[m].mode /\ match'[m].st = match[m].st /\ match'[m].hand = match[m].hand
  /\ DOMAIN match'[m].sides = DOMAIN match[m].sides
  /\ \A i \in SidesOf(m) : /\ match'[m].sides[i].who = match[m].sides[i].who
                           /\ match'[m].sides[i].called = match[m].sides[i].called

LEMMA TeamUpdated ==
  ASSUME Tables, NEW p \in Request, UpdateTeam(p)
  PROVE  /\ AboutTeams(p) /\ TeamTables' /\ req'[p] = Blank /\ At(p, "update")
         /\ req[p].args[1] \in Pairs /\ req[p].args[2] \in Pairs
         /\ DOMAIN match' = DOMAIN match /\ \A m \in DOMAIN match : SamePlayers(m)
         /\ \/ UNCHANGED teamVars
            \/ \E old \in TeamOf(req[p].args[1]) :
                 /\ \/ req[p].args[2] = req[p].args[1]
                    \/ TeamOf(req[p].args[2]) = {} /\ req[p].args[2] \subseteq Here
                 /\ team' = (team \ {old}) \cup {[pair |-> req[p].args[2], name |-> req[p].name]}
                 /\ IF req[p].name = old.name THEN match' = match
                    ELSE \A m \in DOMAIN match :
                      /\ \A i \in SidesOf(m) : match'[m].sides[i].name =
                           IF match[m].mode = "2x2" /\ Coming(m) /\ match[m].sides[i].who = req[p].args[2]
                           THEN req[p].name ELSE match[m].sides[i].name
                      /\ match[m].title \in {Own, Title(match[m].sides)} =>
                           match'[m].title \in {Own, Title(match'[m].sides)}
<1> DEFINE from == req[p].args[1]  to == req[p].args[2]  n == req[p].name
           old == CHOOSE t \in TeamOf(from) : TRUE
           ok == TeamOf(from) # {} /\ (to = from \/ (TeamOf(to) = {} /\ to \subseteq Here))
<1>1. /\ At(p, "update") /\ Done(p) /\ load' = load
      /\ IF ok
         THEN /\ team' = (team \ {old}) \cup {[pair |-> to, name |-> n]}
              /\ match' = IF n = old.name THEN match ELSE [m \in DOMAIN match |-> RenameComing(match[m], to, n)]
         ELSE UNCHANGED teamVars
  BY DEF UpdateTeam
<1>2. from \in Pairs /\ to \in Pairs /\ n \in TeamName
  BY <1>1 DEF Tables, RequestTable, Carries, At
<1>3. AboutTeams(p) /\ req'[p] = Blank
  BY <1>1, TeamEnds DEF At, TeamsAt
<1>4. TeamTables /\ match \in Seq(Record) /\ \A m \in DOMAIN match : match[m] \in Record
  BY DEF Tables, TeamTables
<1> HIDE DEF from, to, n, old
<1>5. CASE ~ok
  <2>1. team' = team /\ match' = match
    BY <1>1, <1>5 DEF teamVars
  <2>2. \A m \in DOMAIN match : SamePlayers(m)
    BY <2>1 DEF SamePlayers
  <2>3. TeamTables' /\ UNCHANGED teamVars
    BY <1>4, <2>1, TeamsSame DEF teamVars
  <2>4. At(p, "update")
    BY <1>1
  <2> QED BY <1>2, <1>3, <2>1, <2>2, <2>3, <2>4 DEF from, to
<1>6. CASE ok
  <2>1. /\ team' = (team \ {old}) \cup {[pair |-> to, name |-> n]} /\ old \in TeamOf(from)
        /\ match' = IF n = old.name THEN match ELSE [m \in DOMAIN match |-> RenameComing(match[m], to, n)]
    BY <1>1, <1>6 DEF old
  <2>2. team' \subseteq [pair : Pairs, name : TeamName]
    BY <2>1, <1>2, <1>4 DEF TeamTables
  <2>3. to = from \/ (TeamOf(to) = {} /\ to \subseteq Here)
    BY <1>6
  <2>4. CASE n = old.name
    <3>1. match' = match
      BY <2>1, <2>4
    <3>2. TeamTables' /\ \A m \in DOMAIN match : SamePlayers(m)
      BY <3>1, <2>2, <1>4 DEF TeamTables, SamePlayers, SidesOf
    <3> QED BY <1>1, <1>2, <1>3, <2>1, <2>3, <2>4, <3>1, <3>2 DEF from, to, n
  <2>5. CASE n # old.name
    <3>1. match' = [m \in DOMAIN match |-> RenameComing(match[m], to, n)]
      BY <2>1, <2>5
    <3>2. \A m \in DOMAIN match : match'[m] = RenameComing(match[m], to, n)
      BY <3>1
    <3>3. ASSUME NEW m \in DOMAIN match
          PROVE  /\ match'[m] \in Record /\ SamePlayers(m)
                 /\ \A i \in SidesOf(m) : match'[m].sides[i].name =
                      IF match[m].mode = "2x2" /\ Coming(m) /\ match[m].sides[i].who = to
                      THEN n ELSE match[m].sides[i].name
                 /\ match[m].title \in {Own, Title(match[m].sides)} =>
                      match'[m].title \in {Own, Title(match'[m].sides)}
      <4>1. match[m] \in Record /\ match'[m] = RenameComing(match[m], to, n)
        BY <1>4, <3>2
      <4> QED BY <4>1, <1>2, ComingRenamed DEF SamePlayers, Coming, SidesOf
    <3>4. match' \in Seq(Record) /\ DOMAIN match' = DOMAIN match
      <4>1. match' = [m \in DOMAIN match |-> match'[m]]
        BY <3>1
      <4> QED BY <4>1, <3>3, <1>4, ItemsMapped
    <3>5. \A m \in DOMAIN match' : \A i \in SidesOf(m)' :
            match'[m].sides[i].who \subseteq DOMAIN match'[m].sides[i].called
      <4> TAKE m \in DOMAIN match'
      <4>1. m \in DOMAIN match
        BY <3>4
      <4>2. SamePlayers(m) /\ \A i \in SidesOf(m) : match[m].sides[i].who \subseteq DOMAIN match[m].sides[i].called
        BY <4>1, <3>3, <1>4, WhoListed
      <4>3. SidesOf(m)' = SidesOf(m)
        BY <4>2 DEF SamePlayers, SidesOf
      <4> QED BY <4>2, <4>3 DEF SamePlayers
    <3>6. TeamTables'
      BY <2>2, <3>4, <3>5 DEF TeamTables
    <3>7. \A m \in DOMAIN match :
            /\ SamePlayers(m)
            /\ \A i \in SidesOf(m) : match'[m].sides[i].name =
                 IF match[m].mode = "2x2" /\ Coming(m) /\ match[m].sides[i].who = to
                 THEN n ELSE match[m].sides[i].name
            /\ match[m].title \in {Own, Title(match[m].sides)} =>
                 match'[m].title \in {Own, Title(match'[m].sides)}
      BY <3>3
    <3>8. At(p, "update")
      BY <1>1
    <3> QED BY <3>8, <1>2, <1>3, <2>1, <2>3, <2>5, <3>4, <3>6, <3>7 DEF from, to, n
  <2> QED BY <2>4, <2>5
<1> QED BY <1>5, <1>6

LEMMA MatchCreated ==
  ASSUME Tables, NEW p \in Request, CreateMatch(p)
  PROVE  /\ AboutTeams(p) /\ TeamTables' /\ req'[p] = Blank /\ team' = team
         /\ req[p].at \in {"1x1", "2x2"}
         /\ \/ match' = match
            \/ /\ match' \in Seq(Record) /\ DOMAIN match' = DOMAIN match \cup {Len(match) + 1}
               /\ Len(match) + 1 \notin DOMAIN match
               /\ \A m \in DOMAIN match : match'[m] = match[m]
               /\ match'[Len(match) + 1] =
                    [mode |-> req[p].at, st |-> "coming", sides |-> req[p].args, title |-> Title(req[p].args),
                     hand |-> FALSE]
               /\ req[p].args \in [1..2 -> Side]
               /\ \A i \in 1..2 : req[p].args[i].who = DOMAIN req[p].args[i].called
               /\ At(p, "1x1") => /\ Free(req[p].args[1].who \cup req[p].args[2].who)
                                  /\ req[p].args[1].who \cup req[p].args[2].who \subseteq Here
<1> DEFINE sides == req[p].args  singles == sides[1].who \cup sides[2].who
<1>1. PICK kind \in {"1x1", "2x2"} :
        /\ At(p, kind) /\ (kind = "1x1" => Free(singles))
        /\ match' = IF kind = "1x1" /\ ~(singles \subseteq Here) THEN match
                    ELSE Append(match, [mode |-> kind, st |-> "coming", sides |-> sides, title |-> Title(sides),
                                        hand |-> FALSE])
  BY DEF CreateMatch
<1>2. Done(p) /\ load' = load /\ team' = team
  BY DEF CreateMatch
<1>3. req[p].at = kind /\ kind \in TeamsAt /\ kind \in {"1x1", "2x2"}
  BY <1>1 DEF At, TeamsAt
<1>4. AboutTeams(p) /\ req'[p] = Blank
  BY <1>2, <1>3, TeamEnds
<1>5. sides \in [1..2 -> Side] /\ \A i \in 1..2 : sides[i].who = DOMAIN sides[i].called
  BY <1>3 DEF Tables, RequestTable, Carries
<1>6. match \in Seq(Record) /\ TeamTables
  BY DEF Tables, TeamTables
<1>7. CASE kind = "1x1" /\ ~(singles \subseteq Here)
  <2>1. match' = match
    BY <1>1, <1>7
  <2>2. TeamTables'
    BY <2>1, <1>2, <1>6, TeamsSame DEF teamVars
  <2> QED BY <1>2, <1>3, <1>4, <2>1, <2>2
<1>8. CASE ~(kind = "1x1" /\ ~(singles \subseteq Here))
  <2> DEFINE row == [mode |-> kind, st |-> "coming", sides |-> sides, title |-> Title(sides), hand |-> FALSE]
             k == Len(match) + 1
  <2>1. match' = Append(match, row)
    BY <1>1, <1>8
  <2>2. sides \in Seq(Side) /\ DOMAIN sides = 1..2 /\ Title(sides) \in Seq(AnyName)
    <3>1. sides \in Seq(Side) /\ DOMAIN sides = 1..2
      <4> HIDE DEF sides
      <4> QED BY <1>5, SeqDef
    <3> QED BY <3>1, TitleFacts
  <2>3. row \in Record /\ row.sides = sides
    <3> HIDE DEF sides
    <3> QED BY <2>2, <1>3 DEF Record
  <2>10. row = [mode |-> req[p].at, st |-> "coming", sides |-> sides, title |-> Title(sides), hand |-> FALSE]
    BY <1>3
  <2> HIDE DEF row
  <2>4. /\ match' \in Seq(Record) /\ DOMAIN match' = DOMAIN match \cup {k} /\ k \notin DOMAIN match
        /\ match'[k] = row /\ \A m \in DOMAIN match : match'[m] = match[m]
    <3>1. Len(match) \in Nat /\ DOMAIN match = 1..Len(match)
      BY <1>6
    <3>2. /\ match' \in Seq(Record) /\ Len(match') = k /\ match'[k] = row
          /\ \A m \in 1..Len(match) : match'[m] = match[m]
      BY <1>6, <2>1, <2>3, AppendProperties
    <3>3. DOMAIN match' = 1..k
      BY <3>2
    <3> QED BY <3>1, <3>2, <3>3
  <2> HIDE DEF k
  <2>5. \A m \in DOMAIN match' : \A i \in SidesOf(m)' :
          match'[m].sides[i].who \subseteq DOMAIN match'[m].sides[i].called
    BY <1>5, <1>6, <2>2, <2>3, <2>4 DEF TeamTables, SidesOf
  <2>6. TeamTables'
    BY <1>2, <1>6, <2>4, <2>5 DEF TeamTables
  <2>7. At(p, "1x1") => Free(singles) /\ singles \subseteq Here
    BY <1>1, <1>3, <1>8 DEF At
  <2> QED BY <1>2, <1>3, <1>4, <1>5, <2>4, <2>6, <2>7, <2>10 DEF k
<1> QED BY <1>7, <1>8

\* Only match m changes, which is made by hand from now on: its players are those it had, but
\* for those a request has brought.
MadeByHand(m, us) ==
  /\ DOMAIN match' = DOMAIN match /\ \A k \in DOMAIN match \ {m} : match'[k] = match[k]
  /\ match'[m].mode = match[m].mode /\ match'[m].st = match[m].st /\ match'[m].hand
  /\ \A i \in DOMAIN match'[m].sides :
       \/ /\ match'[m].sides[i].who = us /\ DOMAIN match'[m].sides[i].called = us
          /\ match[m].mode = "1x1" => Free(us) /\ us \subseteq Here
       \/ /\ i \in SidesOf(m) /\ match'[m].sides[i].who = match[m].sides[i].who
          /\ match'[m].sides[i].called = match[m].sides[i].called

\* The tables are right if the sides of the one match that changed are.
LEMMA HandTables ==
  ASSUME TeamTables, NEW m \in DOMAIN match, NEW us \in SUBSET User, NEW sides \in Seq(Side),
         match' = [match EXCEPT ![m] = [match[m] EXCEPT !.sides = sides, !.hand = TRUE]], team' = team,
         \A i \in DOMAIN sides :
           \/ /\ sides[i].who = us /\ DOMAIN sides[i].called = us
              /\ match[m].mode = "1x1" => Free(us) /\ us \subseteq Here
           \/ /\ i \in SidesOf(m) /\ sides[i].who = match[m].sides[i].who
              /\ sides[i].called = match[m].sides[i].called
  PROVE  TeamTables' /\ MadeByHand(m, us)
<1> DEFINE row == [match[m] EXCEPT !.sides = sides, !.hand = TRUE]
<1>1. match[m] \in Record /\ match \in Seq(Record)
  BY DEF TeamTables
<1>2. row \in Record /\ row.sides = sides /\ row.hand = TRUE /\ row.mode = match[m].mode /\ row.st = match[m].st
  BY <1>1 DEF Record
<1>3. match' = [match EXCEPT ![m] = row]
  OBVIOUS
<1> HIDE DEF row
<1>4. /\ match' \in Seq(Record) /\ DOMAIN match' = DOMAIN match /\ match'[m] = row
      /\ \A k \in DOMAIN match \ {m} : match'[k] = match[k]
  BY <1>1, <1>2, <1>3, ExceptSeq
<1>5. \A i \in DOMAIN sides : sides[i].who \subseteq DOMAIN sides[i].called
  BY WhoListed
<1>6. \A k \in DOMAIN match' : \A i \in SidesOf(k)' :
        match'[k].sides[i].who \subseteq DOMAIN match'[k].sides[i].called
  BY <1>2, <1>4, <1>5, WhoListed DEF SidesOf
<1>7. TeamTables'
  BY <1>4, <1>6 DEF TeamTables
<1> QED BY <1>2, <1>4, <1>7 DEF MadeByHand

LEMMA ByHandFacts ==
  ASSUME NEW us \in SUBSET User, NEW n \in TeamName
  PROVE  /\ SideByHand(us, n) \in Side /\ SideByHand(us, n).who = us /\ SideByHand(us, n).name = n
         /\ DOMAIN SideByHand(us, n).called = us
         /\ SideByHand(us, n).called \in [us -> Name \cup {NoName}]
<1>1. n \in AnyName /\ [u \in us |-> NoName] \in [us -> Name \cup {NoName}]
  BY DEF AnyName
<1>2. [who |-> us, name |-> n, called |-> [u \in us |-> NoName]] \in Side
  BY <1>1, SideMade
<1> QED BY <1>1, <1>2 DEF SideByHand

LEMMA ParticipantAdded ==
  ASSUME Tables, NEW p \in Request, AddParticipant(p)
  PROVE  /\ AboutTeams(p) /\ TeamTables' /\ req'[p] = Blank /\ team' = team
         /\ At(p, "add") /\ req[p].args[2] \in SUBSET User
         /\ match' = match \/ \E m \in Matches : MadeByHand(m, req[p].args[2])
<1> DEFINE m == req[p].args[1]  us == req[p].args[2]  n == req[p].name
<1>1. /\ At(p, "add") /\ Seats(m, us) /\ Done(p) /\ load' = load /\ team' = team
      /\ match' = IF m \in Matches /\ Holds1x1(m, us)
                  THEN [match EXCEPT ![m].sides = Append(@, SideByHand(us, n)), ![m].hand = TRUE]
                  ELSE match
  BY DEF AddParticipant
<1>2. us \in SUBSET User /\ n \in TeamName
  BY <1>1 DEF Tables, RequestTable, Carries, At
<1>3. AboutTeams(p) /\ req'[p] = Blank
  BY <1>1, TeamEnds DEF At, TeamsAt
<1>4. TeamTables
  BY DEF Tables
<1> HIDE DEF m, us, n
<1>5. CASE ~(m \in Matches /\ Holds1x1(m, us))
  <2>1. match' = match
    BY <1>1, <1>5
  <2>2. TeamTables'
    BY <1>1, <1>4, <2>1, TeamsSame DEF teamVars
  <2>3. At(p, "add")
    BY <1>1
  <2> QED BY <1>1, <1>2, <1>3, <2>1, <2>2, <2>3 DEF us
<1>6. CASE m \in Matches /\ Holds1x1(m, us)
  <2> DEFINE new == SideByHand(us, n)  sides == Append(match[m].sides, new)
  <2>1. m \in DOMAIN match /\ match[m] \in Record /\ match \in Seq(Record)
    BY <1>4, <1>6 DEF Matches, TeamTables
  <2>2. match[m].sides \in Seq(Side)
    BY <2>1, RecordFacts
  <2>3. new \in Side /\ new.who = us /\ DOMAIN new.called = us
    BY <1>2, ByHandFacts
  <2> HIDE DEF new
  <2>4. /\ sides \in Seq(Side) /\ Len(sides) = Len(match[m].sides) + 1
        /\ \A i \in 1..Len(match[m].sides) : sides[i] = match[m].sides[i]
        /\ sides[Len(match[m].sides) + 1] = new
    BY <2>2, <2>3, AppendProperties
  <2>5. match' = [match EXCEPT ![m] = [match[m] EXCEPT !.sides = sides, !.hand = TRUE]]
    BY <1>1, <1>6, <2>1 DEF new
  <2> HIDE DEF sides
  <2>6. match[m].mode = "1x1" => Free(us) /\ us \subseteq Here
    BY <1>1, <1>6 DEF Seats, Holds1x1
  <2>7. \A i \in DOMAIN sides : sides[i] = new \/ (i \in SidesOf(m) /\ sides[i] = match[m].sides[i])
    <3>1. Len(match[m].sides) \in Nat /\ DOMAIN match[m].sides = 1..Len(match[m].sides)
      BY <2>2
    <3>2. DOMAIN sides = 1..(Len(match[m].sides) + 1)
      BY <2>4
    <3>3. \A i \in DOMAIN sides : i = Len(match[m].sides) + 1 \/ i \in 1..Len(match[m].sides)
      BY <3>1, <3>2
    <3> QED BY <2>4, <3>1, <3>3 DEF SidesOf
  <2>8. TeamTables' /\ MadeByHand(m, us)
    <3>1. \A i \in DOMAIN sides :
           \/ /\ sides[i].who = us /\ DOMAIN sides[i].called = us
              /\ match[m].mode = "1x1" => Free(us) /\ us \subseteq Here
           \/ /\ i \in SidesOf(m) /\ sides[i].who = match[m].sides[i].who
              /\ sides[i].called = match[m].sides[i].called
      BY <2>3, <2>6, <2>7
    <3>2. team' = team /\ us \in SUBSET User
      BY <1>1, <1>2
    <3> QED BY <1>4, <2>1, <2>4, <2>5, <3>1, <3>2, HandTables
  <2>9. At(p, "add") /\ team' = team
    BY <1>1
  <2> QED BY <1>2, <1>3, <1>6, <2>8, <2>9 DEF us
<1> QED BY <1>5, <1>6

LEMMA ParticipantUpdated ==
  ASSUME Tables, NEW p \in Request, UpdateParticipant(p)
  PROVE  /\ AboutTeams(p) /\ TeamTables' /\ req'[p] = Blank /\ team' = team
         /\ At(p, "edit") /\ req[p].args[2] \in SUBSET User
         /\ match' = match \/ \E m \in Matches : MadeByHand(m, req[p].args[2])
<1> DEFINE m == req[p].args[1]  us == req[p].args[2]  i == req[p].args[3]  fields == req[p].args[4]
           n == req[p].name  old == match[m].sides[i]
           new == [who    |-> IF "players" \in fields THEN us ELSE old.who,
                   name   |-> IF "name" \in fields THEN n ELSE old.name,
                   called |-> IF "players" \in fields THEN SideByHand(us, n).called ELSE old.called]
<1>1. /\ At(p, "edit") /\ ("players" \in fields => Seats(m, us)) /\ Done(p) /\ load' = load /\ team' = team
      /\ match' = IF m \in Matches /\ ("players" \in fields => Holds1x1(m, us))
                  THEN [match EXCEPT ![m].hand = TRUE, ![m].sides[i] = new]
                  ELSE match
  BY DEF UpdateParticipant
<1>2. us \in SUBSET User /\ n \in TeamName
  BY <1>1 DEF Tables, RequestTable, Carries, At
<1>3. AboutTeams(p) /\ req'[p] = Blank
  BY <1>1, TeamEnds DEF At, TeamsAt
<1>4. TeamTables
  BY DEF Tables
<1> HIDE DEF m, us, n, i, fields
<1>5. CASE ~(m \in Matches /\ ("players" \in fields => Holds1x1(m, us)))
  <2>1. match' = match
    BY <1>1, <1>5
  <2>2. TeamTables'
    BY <1>1, <1>4, <2>1, TeamsSame DEF teamVars
  <2>3. At(p, "edit")
    BY <1>1
  <2> QED BY <1>1, <1>2, <1>3, <2>1, <2>2, <2>3 DEF us
<1>6. CASE m \in Matches /\ ("players" \in fields => Holds1x1(m, us))
  <2> DEFINE sides == [match[m].sides EXCEPT ![i] = new]
  <2>1. m \in DOMAIN match /\ match[m] \in Record /\ match \in Seq(Record)
    BY <1>4, <1>6 DEF Matches, TeamTables
  <2>2. match[m].sides \in Seq(Side) /\ \A k \in DOMAIN match[m].sides : match[m].sides[k] \in Side
    BY <2>1, RecordFacts
  <2>3. "players" \in fields /\ match[m].mode = "1x1" => Free(us) /\ us \subseteq Here
    BY <1>1, <1>6 DEF Seats, Holds1x1
  <2>4. ASSUME i \in DOMAIN match[m].sides
        PROVE  /\ new \in Side
               /\ IF "players" \in fields THEN new.who = us /\ DOMAIN new.called = us
                  ELSE new.who = old.who /\ new.called = old.called
    <3>1. old \in Side
      BY <2>2, <2>4
    <3>2. SideByHand(us, n).called \in [us -> Name \cup {NoName}] /\ DOMAIN SideByHand(us, n).called = us
      BY <1>2, ByHandFacts
    <3>3. /\ old.who \in SUBSET User /\ old.name \in AnyName
          /\ old.called \in [DOMAIN old.called -> Name \cup {NoName}] /\ DOMAIN old.called \in SUBSET User
      <4> HIDE DEF old
      <4> QED BY <3>1, SideFacts
    <3> HIDE DEF old
    <3>4. new.name \in AnyName
      BY <1>2, <3>3 DEF AnyName
    <3>5. CASE "players" \in fields
      <4>1. new.who = us /\ new.called = SideByHand(us, n).called /\ new = [who |-> us, name |-> new.name, called |-> SideByHand(us, n).called]
        BY <3>5
      <4> DEFINE name == new.name
      <4>2. new = [who |-> us, name |-> name, called |-> SideByHand(us, n).called] /\ name \in AnyName
        BY <4>1, <3>4
      <4> HIDE DEF new, name
      <4>3. new \in Side
        BY <1>2, <3>2, <4>2, SideMade
      <4> QED BY <3>2, <3>5, <4>1, <4>3
    <3>6. CASE "players" \notin fields
      <4> DEFINE name == new.name
      <4>1. new.who = old.who /\ new.called = old.called /\ new = [who |-> old.who, name |-> name, called |-> old.called]
        BY <3>6
      <4>2. name \in AnyName
        BY <3>4
      <4> HIDE DEF new, name
      <4>3. new \in Side
        BY <3>3, <4>1, <4>2, SideMade
      <4> QED BY <3>6, <4>1, <4>3
    <3> QED BY <3>5, <3>6
  <2>5. match' = [match EXCEPT ![m] = [match[m] EXCEPT !.sides = sides, !.hand = TRUE]]
    <3> HIDE DEF new
    <3>1. match' = [match EXCEPT ![m].hand = TRUE, ![m].sides[i] = new]
      BY <1>1, <1>6
    <3> QED BY <3>1, <2>1 DEF Record
  <2> HIDE DEF new
  <2>6. DOMAIN sides = DOMAIN match[m].sides
        /\ \A k \in DOMAIN match[m].sides : sides[k] = IF k = i THEN new ELSE match[m].sides[k]
    BY <2>2
  <2>7. sides \in Seq(Side)
    <3>1. sides = [k \in DOMAIN match[m].sides |-> sides[k]]
      OBVIOUS
    <3>2. \A k \in DOMAIN match[m].sides : sides[k] \in Side
      BY <2>2, <2>4, <2>6
    <3> HIDE DEF sides
    <3> QED BY <3>1, <3>2, <2>2, ItemsMapped
  <2> HIDE DEF sides
  <2>8. TeamTables' /\ MadeByHand(m, us)
    <3>1. \A k \in DOMAIN sides :
           \/ /\ sides[k].who = us /\ DOMAIN sides[k].called = us
              /\ match[m].mode = "1x1" => Free(us) /\ us \subseteq Here
           \/ /\ k \in SidesOf(m) /\ sides[k].who = match[m].sides[k].who
              /\ sides[k].called = match[m].sides[k].called
      BY <2>3, <2>4, <2>6 DEF SidesOf
    <3>2. team' = team /\ us \in SUBSET User
      BY <1>1, <1>2
    <3> QED BY <1>4, <2>1, <2>5, <2>7, <3>1, <3>2, HandTables
  <2>9. At(p, "edit") /\ team' = team
    BY <1>1
  <2> QED BY <1>2, <1>3, <1>6, <2>8, <2>9 DEF us
<1> QED BY <1>5, <1>6

\* A request about the participants of a match comes.
HandAsked(p) ==
  \E m \in Matches : \E us \in Lists(match[m].mode), n \in TeamName :
    \/ HandleAddParticipant(p, m, us, n)
    \/ \E i \in SidesOf(m), fields \in {{"name"}, {"players"}, {"name", "players"}} :
         HandleUpdateParticipant(p, m, i, us, n, fields)

LEMMA HandAskedFacts ==
  ASSUME Tables, NEW p \in Server, HandAsked(p)
  PROVE  /\ p \in Request /\ At(p, "idle") /\ AboutTeams(p) /\ UNCHANGED teamVars
         /\ req'[p].at \in {"add", "edit"} /\ req'[p].args[2] \subseteq Here
<1>0. PICK m \in Matches : \E us \in Lists(match[m].mode), n \in TeamName :
        \/ HandleAddParticipant(p, m, us, n)
        \/ \E i \in SidesOf(m), fields \in {{"name"}, {"players"}, {"name", "players"}} :
             HandleUpdateParticipant(p, m, i, us, n, fields)
  BY DEF HandAsked
<1>1. PICK us \in Lists(match[m].mode), n \in TeamName :
        \/ HandleAddParticipant(p, m, us, n)
        \/ \E i \in SidesOf(m), fields \in {{"name"}, {"players"}, {"name", "players"}} :
             HandleUpdateParticipant(p, m, i, us, n, fields)
  BY <1>0
<1>2. us \subseteq Here /\ us \in SUBSET User
  BY DEF Lists, Here
<1>3. CASE HandleAddParticipant(p, m, us, n)
  BY <1>2, <1>3, AddAsked
<1>4. ASSUME NEW i, NEW fields, HandleUpdateParticipant(p, m, i, us, n, fields)
      PROVE  /\ p \in Request /\ At(p, "idle") /\ AboutTeams(p) /\ UNCHANGED teamVars
             /\ req'[p].at = "edit" /\ req'[p].args[2] = us
  BY <1>2, <1>4, EditAsked
<1> QED BY <1>1, <1>2, <1>3, <1>4

LEMMA TeamsPlace ==
  ASSUME Tables, TeamsStep
  PROVE  TeamTables' /\ RequestTable' /\ load' = load /\ \E p \in Request : p \in Serving /\ AboutTeams(p)
<1>1. ASSUME NEW p \in Request \ Idle, \/ CreateTeam(p) \/ UpdateTeam(p) \/ DeleteTeam(p) \/ CreateMatch(p)
                                       \/ AddParticipant(p) \/ UpdateParticipant(p)
      PROVE  TeamTables' /\ AboutTeams(p)
  BY <1>1, TeamCreated, TeamUpdated, TeamDropped, MatchCreated, ParticipantAdded, ParticipantUpdated
<1>2. ASSUME NEW p \in Server, NEW pair \in Pairs, NEW n \in TeamName, HandleCreateTeam(p, pair, n)
      PROVE  TeamTables' /\ p \in Request /\ AboutTeams(p)
  BY <1>2, TeamAsked, TeamsSame DEF Tables
<1>3. ASSUME NEW p \in Server, NEW t \in team, NEW pair \in Pairs, NEW n \in TeamName, HandleUpdateTeam(p, t, pair, n)
      PROVE  TeamTables' /\ p \in Request /\ AboutTeams(p)
  BY <1>3, UpdateAsked, TeamsSame DEF Tables
<1>4. ASSUME NEW p \in Server, NEW t \in team, HandleDeleteTeam(p, t)
      PROVE  TeamTables' /\ p \in Request /\ AboutTeams(p)
  BY <1>4, DropAsked, TeamsSame DEF Tables
<1>5. ASSUME NEW p \in Server, NEW t \in team, NEW o \in team, HandleCreateMatch(p, "2x2", TeamSide(t), TeamSide(o))
      PROVE  TeamTables' /\ p \in Request /\ AboutTeams(p)
  BY <1>5, TeamSideFacts, MatchAsked, TeamsSame DEF Tables
<1>6. ASSUME NEW p \in Server, NEW u \in Here, NEW v \in Here, HandleCreateMatch(p, "1x1", PlayerSide(u), PlayerSide(v))
      PROVE  TeamTables' /\ p \in Request /\ AboutTeams(p)
  BY <1>6, PlayerSideFacts, MatchAsked, TeamsSame DEF Tables
<1>7. ASSUME NEW p \in Server, NEW m \in Matches,
             \/ HandleUpdateMatch(p, m, "finish", "finished") \/ HandleUpdateMatch(p, m, "reopen", "coming")
             \/ HandleUpdateMatch(p, m, "cancel", "gone") \/ HandleRetitle(p, m)
      PROVE  TeamTables' /\ p \in Request /\ AboutTeams(p)
  BY <1>7, MatchPatched, MatchRetitled
<1>9. ASSUME NEW p \in Server, HandAsked(p)
      PROVE  TeamTables' /\ p \in Request /\ AboutTeams(p)
  BY <1>9, HandAskedFacts, TeamsSame DEF Tables
<1>8. \E p \in Request : p \in Serving /\ TeamTables' /\ AboutTeams(p)
  BY <1>1, <1>2, <1>3, <1>4, <1>5, <1>6, <1>7, <1>9 DEF TeamsStep, Serving, HandAsked
<1> QED BY <1>8 DEF AboutTeams

\* What a new nick does to the matches.
LEMMA MatchesRenamed ==
  ASSUME Tables, NEW p \in Request, RenameEverywhere(p)
  PROVE  /\ TeamTables' /\ team' = team /\ RenameUser(p)
         /\ ~Renames(p) => match' = match
         /\ DOMAIN match' = DOMAIN match
         /\ Renames(p) => \A m \in DOMAIN match :
              /\ match'[m].mode = match[m].mode /\ match'[m].st = match[m].st
              /\ match'[m].title = match[m].title /\ match'[m].hand = match[m].hand
              /\ DOMAIN match'[m].sides = DOMAIN match[m].sides
              /\ \A i \in SidesOf(m) :
                   /\ match'[m].sides[i].who = match[m].sides[i].who
                   /\ DOMAIN match'[m].sides[i].called = DOMAIN match[m].sides[i].called
                   /\ match[m].mode = "2x2" => match'[m].sides[i].name = match[m].sides[i].name
                   /\ \A v \in DOMAIN match[m].sides[i].called :
                        match'[m].sides[i].called[v] =
                          IF v = req[p].user /\ v \in match[m].sides[i].who THEN req[p].name
                          ELSE match[m].sides[i].called[v]
<1> DEFINE u == req[p].user  n == req[p].name
<1>1. /\ RenameUser(p) /\ team' = team
      /\ IF Renames(p) THEN RenameParticipants(u, n) ELSE UNCHANGED match
  BY DEF RenameEverywhere
<1>2. u \in User /\ n \in Name
  BY <1>1, UserRenamed
<1>3. TeamTables /\ match \in Seq(Record) /\ \A m \in DOMAIN match : match[m] \in Record
  BY DEF Tables, TeamTables
<1>4. CASE ~Renames(p)
  <2>1. match' = match
    BY <1>1, <1>4
  <2> QED BY <1>1, <1>3, <1>4, <2>1, TeamsSame DEF teamVars
<1>5. CASE Renames(p)
  <2>1. match' = [m \in DOMAIN match |-> ParticipantRenamed(match[m], u, n)]
    BY <1>1, <1>5 DEF RenameParticipants, ParticipantRenamed, SidesOf
  <2>2. \A m \in DOMAIN match : match'[m] = ParticipantRenamed(match[m], u, n)
    BY <2>1
  <2> HIDE DEF u, n
  <2>3. ASSUME NEW m \in DOMAIN match
        PROVE  /\ match'[m] \in Record /\ match'[m].mode = match[m].mode /\ match'[m].st = match[m].st
               /\ match'[m].title = match[m].title /\ match'[m].hand = match[m].hand
               /\ DOMAIN match'[m].sides = DOMAIN match[m].sides
               /\ \A i \in SidesOf(m) :
                    /\ match'[m].sides[i].who = match[m].sides[i].who
                    /\ DOMAIN match'[m].sides[i].called = DOMAIN match[m].sides[i].called
                    /\ match[m].mode = "2x2" => match'[m].sides[i].name = match[m].sides[i].name
                    /\ \A v \in DOMAIN match[m].sides[i].called :
                         match'[m].sides[i].called[v] =
                           IF v = u /\ u \in match[m].sides[i].who THEN n ELSE match[m].sides[i].called[v]
    <3>1. match[m] \in Record
      BY <1>3
    <3> QED BY <3>1, <1>2, <2>2, PlayerRenamed DEF SidesOf
  <2>4. match' \in Seq(Record) /\ DOMAIN match' = DOMAIN match
    <3>1. match' = [m \in DOMAIN match |-> match'[m]]
      BY <2>1
    <3> QED BY <3>1, <2>3, <1>3, ItemsMapped
  <2>5. \A m \in DOMAIN match' : \A i \in SidesOf(m)' :
          match'[m].sides[i].who \subseteq DOMAIN match'[m].sides[i].called
    <3> TAKE m \in DOMAIN match'
    <3>1. m \in DOMAIN match
      BY <2>4
    <3>2. SidesOf(m)' = SidesOf(m)
      BY <3>1, <2>3 DEF SidesOf
    <3> QED BY <3>1, <3>2, <2>3, <1>3, WhoListed
  <2>6. TeamTables'
    BY <1>1, <1>3, <2>4, <2>5 DEF TeamTables
  <2>7. \A m \in DOMAIN match :
              /\ match'[m].mode = match[m].mode /\ match'[m].st = match[m].st
              /\ match'[m].title = match[m].title /\ match'[m].hand = match[m].hand
              /\ DOMAIN match'[m].sides = DOMAIN match[m].sides
              /\ \A i \in SidesOf(m) :
                   /\ match'[m].sides[i].who = match[m].sides[i].who
                   /\ DOMAIN match'[m].sides[i].called = DOMAIN match[m].sides[i].called
                   /\ match[m].mode = "2x2" => match'[m].sides[i].name = match[m].sides[i].name
                   /\ \A v \in DOMAIN match[m].sides[i].called :
                        match'[m].sides[i].called[v] =
                          IF v = u /\ v \in match[m].sides[i].who THEN n
                          ELSE match[m].sides[i].called[v]
    BY <2>3
  <2> QED BY <1>1, <1>5, <2>4, <2>6, <2>7 DEF u, n
<1> QED BY <1>4, <1>5

\* What the deletion of a player does to teams and matches.
LEMMA PlayerCleared ==
  ASSUME Tables, NEW u \in User, CascadeTeams(u)
  PROVE  /\ TeamTables' /\ team' = {t \in team : u \notin t.pair} /\ DOMAIN match' = DOMAIN match
         /\ \A m \in DOMAIN match :
              /\ match'[m].mode = match[m].mode /\ match'[m].st = match[m].st
              /\ match'[m].title = match[m].title /\ match'[m].hand = match[m].hand
              /\ match[m].mode = "2x2" => match'[m] = match[m]
              /\ DOMAIN match'[m].sides = DOMAIN match[m].sides
              /\ \A i \in SidesOf(m) :
                   /\ match[m].mode # "2x2" => match'[m].sides[i].who = match[m].sides[i].who \ {u}
                   /\ match'[m].sides[i].called = match[m].sides[i].called
                   /\ match'[m].sides[i].name = match[m].sides[i].name
<1>1. /\ match' = [m \in DOMAIN match |-> ParticipantGone(match[m], u)]
      /\ team' = {t \in team : u \notin t.pair}
  BY DEF CascadeTeams, ParticipantGone, SidesOf
<1>2. TeamTables /\ match \in Seq(Record) /\ \A m \in DOMAIN match : match[m] \in Record
  BY DEF Tables, TeamTables
<1>3. ASSUME NEW m \in DOMAIN match
      PROVE  /\ match'[m] \in Record
             /\ match'[m].mode = match[m].mode /\ match'[m].st = match[m].st
             /\ match'[m].title = match[m].title /\ match'[m].hand = match[m].hand
             /\ match[m].mode = "2x2" => match'[m] = match[m]
             /\ DOMAIN match'[m].sides = DOMAIN match[m].sides
             /\ \A i \in SidesOf(m) :
                  /\ match[m].mode # "2x2" => match'[m].sides[i].who = match[m].sides[i].who \ {u}
                  /\ match'[m].sides[i].called = match[m].sides[i].called
                  /\ match'[m].sides[i].name = match[m].sides[i].name
  <2>1. match[m] \in Record /\ match'[m] = ParticipantGone(match[m], u)
    BY <1>1, <1>2
  <2> QED BY <2>1, PlayerGone DEF SidesOf
<1>4. match' \in Seq(Record) /\ DOMAIN match' = DOMAIN match
  <2>1. match' = [m \in DOMAIN match |-> match'[m]]
    BY <1>1
  <2> QED BY <2>1, <1>2, <1>3, ItemsMapped
<1>5. \A m \in DOMAIN match' : \A i \in SidesOf(m)' :
        match'[m].sides[i].who \subseteq DOMAIN match'[m].sides[i].called
  <2> TAKE m \in DOMAIN match'
  <2>3. m \in DOMAIN match
    BY <1>4
  <2>4. SidesOf(m)' = SidesOf(m)
    BY <2>3, <1>3 DEF SidesOf
  <2> TAKE i \in SidesOf(m)'
  <2>0. m \in DOMAIN match /\ i \in SidesOf(m)
    BY <2>3, <2>4
  <2>1. /\ match'[m].sides[i].who \subseteq match[m].sides[i].who
        /\ match'[m].sides[i].called = match[m].sides[i].called
    BY <2>0, <1>3
  <2> QED BY <2>0, <2>1, <1>2, WhoListed
<1>6. TeamTables'
  BY <1>1, <1>2, <1>4, <1>5 DEF TeamTables
<1> QED BY <1>1, <1>3, <1>4, <1>6

-------------------------------------------------------------------------------
(* Clips and screenshots.                                                  *)

\* A step of request p about clips and screenshots.
AboutMedia(p) ==
  /\ Others(p) /\ RequestTable' /\ load' = load
  /\ req[p].at \in {"idle"} \cup MediaAt
  /\ req'[p].at \in {"idle"} \cup MediaAt
  /\ req'[p].user \in Here \cup {NoUser, req[p].user}

LEMMA MediaArrives ==
  ASSUME Tables, NEW p \in Server, NEW kind, NEW r, Arrive(p, kind, r),
         Fields(r), Carries(r), r.at \in {"idle"} \cup MediaAt, r.user \in Here \cup {NoUser}
  PROVE  p \in Request /\ At(p, "idle") /\ AboutMedia(p) /\ req'[p] = r /\ Kind(kind)
<1>1. p \in Request /\ At(p, "idle")
  BY ServerFacts DEF Tables, AccountTables
<1>2. RequestTable' /\ req'[p] = r /\ Others(p) /\ load' = load
  BY <1>1, Arrives DEF Tables
<1> QED BY <1>1, <1>2 DEF AboutMedia, At, Arrive

LEMMA MediaEnds ==
  ASSUME Tables, NEW p \in Request, Done(p), load' = load, req[p].at \in MediaAt
  PROVE  AboutMedia(p) /\ req'[p] = Blank
  BY DoneFacts, BlankFacts DEF Tables, AboutMedia, MediaAt

\* A request that goes on with other arguments.
LEMMA MediaGoes ==
  ASSUME Tables, NEW p \in Request, NEW s \in MediaAt, NEW a, load' = load, req[p].at \in MediaAt,
         req' = [req EXCEPT ![p].at = s, ![p].args = a],
         s = "submit" => /\ req[p].user \in User /\ req[p].name \in StatKind
                         /\ a[1] \in Shot /\ a[2] \subseteq Shot,
         s = "reload" => req[p].user \in User /\ a[1] \in Shot /\ a[2] \in Shot,
         s = "remove" => a[1] \in Clip \cup Shot,
         s \in {"submit", "reload", "remove"}
  PROVE  /\ AboutMedia(p) /\ req'[p].at = s /\ req'[p].args = a
         /\ req'[p].user = req[p].user /\ req'[p].name = req[p].name
<1> DEFINE r == [req[p] EXCEPT !.at = s, !.args = a]
<1>1. Fields(req[p])
  BY DEF Tables, RequestTable
<1>2. r.at = s /\ r.user = req[p].user /\ r.name = req[p].name /\ r.args = a
  BY <1>1 DEF Fields
<1>3. Fields(r)
  BY <1>1, <1>2 DEF Fields
<1>4. req' = [req EXCEPT ![p] = r]
  OBVIOUS
<1> HIDE DEF r
<1>5. Carries(r)
  BY <1>2 DEF Carries, AccountsAt, TeamsAt
<1>6. RequestTable' /\ req'[p] = r /\ Others(p)
  BY <1>3, <1>4, <1>5, Replaces DEF Tables
<1> QED BY <1>2, <1>6 DEF AboutMedia

ClipRow == [st : {"none", "processing", "pending", "failed", "gone"} \cup Decided,
            user : User \cup {NoUser}, path : BOOLEAN]

\* The row of one clip changes.
LEMMA ClipChanges ==
  ASSUME Tables, NEW c \in Clip, NEW row \in ClipRow, clip' = [clip EXCEPT ![c] = row]
  PROVE  /\ clip' \in [Clip -> ClipRow] /\ clip'[c] = row
         /\ \A d \in Clip \ {c} : clip'[d] = clip[d]
  BY DEF Tables, MediaTables, ClipRow

Jobs1 == {"none", "clip", "upload", "fetched", "failed", "heavy", "shrinking"}

LEMMA JobChanges ==
  ASSUME Tables, NEW c \in Clip, NEW s \in Jobs1, Work(c, s)
  PROVE  job' \in [Clip -> Jobs1] /\ job'[c] = s /\ \A d \in Clip \ {c} : job'[d] = job[d]
  BY DEF Tables, MediaTables, Jobs1, Work

LEMMA MediaKept ==
  ASSUME clip' \in [Clip -> ClipRow], job' \in [Clip -> Jobs1],
         claim' \subseteq [shot : Shot, user : User, kind : StatKind, st : {"pending"} \cup Decided],
         disk' \subseteq Clip \cup Shot
  PROVE  MediaTables'
  BY DEF MediaTables, ClipRow, Jobs1

LEMMA MediaHeld ==
  ASSUME Tables
  PROVE  /\ clip \in [Clip -> ClipRow] /\ job \in [Clip -> Jobs1]
         /\ claim \subseteq [shot : Shot, user : User, kind : StatKind, st : {"pending"} \cup Decided]
         /\ disk \subseteq Clip \cup Shot
  BY DEF Tables, MediaTables, ClipRow, Jobs1

LEMMA MediaSame == ASSUME Tables, UNCHANGED mediaVars PROVE MediaTables'
  BY DEF Tables, MediaTables, mediaVars

LEMMA ClipMade ==
  ASSUME Tables, NEW p \in Server, NEW kind \in {"clip", "upload"}, NEW u \in Here, NEW c \in Clip,
         CreateHighlight(p, kind, u, c)
  PROVE  /\ p \in Request /\ At(p, "idle") /\ AboutMedia(p) /\ req'[p] = Blank /\ MediaTables'
         /\ clip[c].st = "none" /\ clip'[c].st = "processing" /\ ~clip'[c].path
         /\ \A d \in Clip \ {c} : clip'[d] = clip[d]
         /\ job'[c] = kind /\ \A d \in Clip \ {c} : job'[d] = job[d]
         /\ UNCHANGED <<claim, disk>>
<1> DEFINE row == [st |-> "processing", user |-> u, path |-> FALSE]
<1>1. /\ Arrive(p, kind, Blank) /\ clip' = [clip EXCEPT ![c] = row] /\ Work(c, kind)
      /\ UNCHANGED <<claim, disk>> /\ clip[c].st = "none"
  BY DEF CreateHighlight
<1>2. row \in ClipRow /\ row.st = "processing" /\ ~row.path
  BY DEF ClipRow, Here
<1> HIDE DEF row
<1>3. p \in Request /\ At(p, "idle") /\ AboutMedia(p) /\ req'[p] = Blank
  BY <1>1, BlankFacts, MediaArrives
<1>4. clip' \in [Clip -> ClipRow] /\ clip'[c] = row /\ \A d \in Clip \ {c} : clip'[d] = clip[d]
  BY <1>1, <1>2, ClipChanges
<1>5. job' \in [Clip -> Jobs1] /\ job'[c] = kind /\ \A d \in Clip \ {c} : job'[d] = job[d]
  BY <1>1, JobChanges DEF Jobs1
<1>6. MediaTables'
  BY <1>1, <1>4, <1>5, MediaHeld, MediaKept
<1> QED BY <1>1, <1>2, <1>3, <1>4, <1>5, <1>6

LEMMA ClipModerated ==
  ASSUME Tables, NEW p \in Server, NEW c \in Shown, NEW st \in Decided, HandleModerateHighlight(p, c, st)
  PROVE  /\ p \in Request /\ At(p, "idle") /\ AboutMedia(p) /\ req'[p] = Blank /\ MediaTables'
         /\ c \in Clip /\ clip'[c].path = clip[c].path /\ clip'[c].st = st
         /\ \A d \in Clip \ {c} : clip'[d] = clip[d]
         /\ UNCHANGED <<job, claim, disk>>
<1> DEFINE row == [clip[c] EXCEPT !.st = st]
<1>1. /\ Arrive(p, "moderate", Blank) /\ clip' = [clip EXCEPT ![c] = row]
      /\ UNCHANGED <<job, claim, disk>>
  BY DEF HandleModerateHighlight
<1>2. c \in Clip /\ clip[c] \in ClipRow
  BY MediaHeld DEF Shown
<1>3. row \in ClipRow /\ row.path = clip[c].path /\ row.st = st
  BY <1>2 DEF ClipRow
<1> HIDE DEF row
<1>4. p \in Request /\ At(p, "idle") /\ AboutMedia(p) /\ req'[p] = Blank
  BY <1>1, BlankFacts, MediaArrives
<1>5. clip' \in [Clip -> ClipRow] /\ clip'[c] = row /\ \A d \in Clip \ {c} : clip'[d] = clip[d]
  BY <1>1, <1>2, <1>3, ClipChanges
<1>6. MediaTables'
  BY <1>1, <1>5, MediaHeld, MediaKept
<1> QED BY <1>1, <1>2, <1>3, <1>4, <1>5, <1>6

LEMMA ClipDropped ==
  ASSUME Tables, NEW p \in Server, NEW c \in Shown, HandleDeleteHighlight(p, c)
  PROVE  /\ p \in Request /\ At(p, "idle") /\ AboutMedia(p) /\ MediaTables' /\ c \in Clip
         /\ \/ req'[p] = Blank
            \/ req'[p].at = "remove" /\ req'[p].args[1] = c
         /\ clip'[c].st = "gone"
         /\ \A d \in Clip \ {c} : clip'[d] = clip[d]
         /\ UNCHANGED <<job, claim, disk>>
<1> DEFINE row == [NoRow EXCEPT !.st = "gone"]
           r == [Blank EXCEPT !.at = "remove", !.args = <<c>>]
<1>1. /\ Arrive(p, "unclip", IF clip[c].path THEN r ELSE Blank)
      /\ clip' = [clip EXCEPT ![c] = row] /\ UNCHANGED <<job, claim, disk>>
  BY DEF HandleDeleteHighlight
<1>2. c \in Clip
  BY DEF Shown
<1>3. row \in ClipRow /\ row.st = "gone"
  BY DEF ClipRow, NoRow
<1>7. r.at = "remove" /\ r.args[1] = c /\ r.user = NoUser /\ Fields(r)
  BY DEF Blank, Fields, MediaAt
<1> HIDE DEF row, r
<1>8. Carries(r)
  BY <1>2, <1>7 DEF Carries, AccountsAt, TeamsAt
<1>4. /\ p \in Request /\ At(p, "idle") /\ AboutMedia(p)
      /\ req'[p] = Blank \/ req'[p] = r
  <2>1. CASE clip[c].path
    <3>1. Arrive(p, "unclip", r)
      BY <1>1, <2>1
    <3> QED BY <3>1, <1>7, <1>8, MediaArrives DEF MediaAt
  <2>2. CASE ~clip[c].path
    <3>1. Arrive(p, "unclip", Blank)
      BY <1>1, <2>2
    <3> QED BY <3>1, BlankFacts, MediaArrives
  <2> QED BY <2>1, <2>2
<1>5. clip' \in [Clip -> ClipRow] /\ clip'[c] = row /\ \A d \in Clip \ {c} : clip'[d] = clip[d]
  BY <1>1, <1>2, <1>3, ClipChanges
<1>6. MediaTables'
  BY <1>1, <1>5, MediaHeld, MediaKept
<1> QED BY <1>1, <1>2, <1>3, <1>4, <1>5, <1>6, <1>7

LEMMA FileRemoved ==
  ASSUME Tables, NEW p \in Request, RemoveFile(p)
  PROVE  /\ At(p, "remove") /\ AboutMedia(p) /\ req'[p] = Blank /\ MediaTables'
         /\ disk' = disk \ {req[p].args[1]} /\ UNCHANGED <<clip, job, claim>>
<1>1. /\ At(p, "remove") /\ Done(p) /\ disk' = disk \ {req[p].args[1]}
      /\ UNCHANGED <<load, clip, job, claim>>
  BY DEF RemoveFile
<1>2. AboutMedia(p) /\ req'[p] = Blank
  BY <1>1, MediaEnds DEF At, MediaAt
<1>3. disk' \subseteq Clip \cup Shot
  BY <1>1, MediaHeld
<1>4. MediaTables'
  BY <1>1, <1>3, MediaHeld, MediaKept
<1> QED BY <1>1, <1>2, <1>4

-------------------------------------------------------------------------------
(* Claims.                                                                 *)

ClaimRow == [shot : Shot, user : User, kind : StatKind, st : {"pending"} \cup Decided]

LEMMA ClaimSent ==
  ASSUME Tables, NEW p \in Server, NEW u \in Here, NEW k \in StatKind, NEW s \in Shot,
         HandleSubmitStatClaim(p, u, k, s)
  PROVE  /\ p \in Request /\ At(p, "idle") /\ AboutMedia(p) /\ MediaTables'
         /\ req'[p].at = "pending" /\ req'[p].args[1] = s
         /\ s \notin disk /\ (\A c \in claim : c.shot # s)
         /\ disk' = disk \cup {s} /\ UNCHANGED <<clip, job, claim>>
<1> DEFINE r == [Blank EXCEPT !.at = "pending", !.user = u, !.name = k, !.args = <<s>>]
<1>1. /\ Arrive(p, "claimed", r) /\ UNCHANGED <<clip, job, claim>>
      /\ s \notin disk /\ (\A c \in claim : c.shot # s) /\ disk' = disk \cup {s}
  BY DEF HandleSubmitStatClaim, SaveImage
<1>2. u \in User
  BY DEF Here
<1>3. r.at = "pending" /\ r.user = u /\ r.name = k /\ r.args[1] = s /\ Fields(r)
  BY <1>2 DEF Blank, Fields, MediaAt
<1> HIDE DEF r
<1>4. Carries(r)
  BY <1>2, <1>3 DEF Carries, AccountsAt, TeamsAt
<1>5. p \in Request /\ At(p, "idle") /\ AboutMedia(p) /\ req'[p] = r
  BY <1>1, <1>3, <1>4, MediaArrives DEF MediaAt
<1>6. disk' \subseteq Clip \cup Shot
  BY <1>1, MediaHeld
<1>7. MediaTables'
  BY <1>1, <1>6, MediaHeld, MediaKept
<1> QED BY <1>1, <1>3, <1>5, <1>7

\* What the transaction of a claim finds, and what it writes.
LEMMA ClaimLookedUp ==
  ASSUME Tables, NEW p \in Request, At(p, "pending"), SubmitStatClaim(p)
  PROVE  /\ AboutMedia(p) /\ UNCHANGED mediaVars /\ req'[p].at = "submit"
         /\ req'[p].user = req[p].user /\ req'[p].name = req[p].name
         /\ req[p].args[1] \in Shot
         /\ req'[p].args[1] = req[p].args[1]
         /\ req'[p].args[2] = {c.shot : c \in Waiting(req[p].user, req[p].name)}
<1> DEFINE u == req[p].user  k == req[p].name  s == req[p].args[1]
           a == <<s, {c.shot : c \in Waiting(u, k)}>>
<1>1. /\ req' = [req EXCEPT ![p].at = "submit",
                   ![p].args = <<s, {c.shot : c \in {d \in Claims(u) : d.kind = k /\ d.st = "pending"}}>>]
      /\ UNCHANGED <<load, clip, job, claim, disk>>
  BY DEF SubmitStatClaim, At
<1>2. {d \in Claims(u) : d.kind = k /\ d.st = "pending"} = Waiting(u, k)
  BY DEF Claims, Waiting
<1>3. req' = [req EXCEPT ![p].at = "submit", ![p].args = a]
  BY <1>1, <1>2
<1>4. u \in User /\ k \in StatKind /\ s \in Shot
  BY DEF Tables, RequestTable, Carries, At
<1>5. a[1] = s /\ a[2] = {c.shot : c \in Waiting(u, k)}
  OBVIOUS
<1>6. a[2] \subseteq Shot
  BY <1>5, MediaHeld DEF Waiting
<1> HIDE DEF a
<1>7. /\ AboutMedia(p) /\ req'[p].at = "submit" /\ req'[p].args = a
      /\ req'[p].user = u /\ req'[p].name = k
  <2>1. "submit" \in MediaAt /\ req[p].at \in MediaAt /\ load' = load
    BY <1>1 DEF MediaAt, At
  <2> QED BY <1>3, <1>4, <1>5, <1>6, <2>1, MediaGoes
<1> QED BY <1>1, <1>4, <1>5, <1>7 DEF mediaVars

OldClaims(p) == {c \in claim : c.shot \in req[p].args[2] /\ c.st = "pending"}
NewClaim(p) == [shot |-> req[p].args[1], user |-> req[p].user, kind |-> req[p].name, st |-> "pending"]

LEMMA ClaimWritten ==
  ASSUME Tables, NEW p \in Request, At(p, "submit"), SubmitStatClaim(p)
  PROVE  /\ AboutMedia(p) /\ MediaTables' /\ UNCHANGED <<clip, job, disk>>
         /\ req'[p].user = req[p].user /\ req'[p].name = req[p].name
         /\ req[p].user \in User /\ req[p].args[1] \in Shot
         /\ req'[p].args[1] = req[p].args[1]
         /\ \/ /\ claim' = (claim \ OldClaims(p)) \cup {NewClaim(p)}
               /\ req'[p].at = "reload"
               /\ \/ req'[p].args[2] = req[p].args[1]
                  \/ \E c \in OldClaims(p) : req'[p].args[2] = c.shot
            \/ claim' = claim /\ req'[p].at = "remove"
<1> DEFINE u == req[p].user  k == req[p].name  s == req[p].args[1]  old == OldClaims(p)  new == NewClaim(p)
<1>1. /\ UNCHANGED <<load, clip, job, disk>>
      /\ IF u \in Here
         THEN /\ claim' = (claim \ old) \cup {new}
              /\ \E f \in {c.shot : c \in old} \cup (IF old = {} THEN {s} ELSE {}) :
                   req' = [req EXCEPT ![p].at = "reload", ![p].args = <<s, f>>]
         ELSE claim' = claim /\ req' = [req EXCEPT ![p].at = "remove", ![p].args = <<s>>]
  BY DEF SubmitStatClaim, At, OldClaims, NewClaim
<1>2. u \in User /\ k \in StatKind /\ s \in Shot
  BY DEF Tables, RequestTable, Carries, At, AccountsAt
<1>3. req[p].at \in MediaAt /\ load' = load
  BY <1>1 DEF MediaAt, At
<1>4. CASE u \in Here
  <2>1. PICK f \in {c.shot : c \in old} \cup (IF old = {} THEN {s} ELSE {}) :
          req' = [req EXCEPT ![p].at = "reload", ![p].args = <<s, f>>]
    BY <1>1, <1>4
  <2>2. f \in Shot /\ (f = s \/ \E c \in old : f = c.shot)
    BY <1>2, MediaHeld DEF OldClaims
  <2> DEFINE a == <<s, f>>
  <2>3. a[1] = s /\ a[2] = f /\ req' = [req EXCEPT ![p].at = "reload", ![p].args = a]
    BY <2>1
  <2> HIDE DEF a
  <2>4. /\ AboutMedia(p) /\ req'[p].at = "reload" /\ req'[p].args = a
        /\ req'[p].user = u /\ req'[p].name = k
    <3>1. "reload" \in MediaAt
      BY DEF MediaAt
    <3> QED BY <1>2, <1>3, <2>2, <2>3, <3>1, MediaGoes
  <2>5. new \in ClaimRow
    BY <1>2 DEF NewClaim, ClaimRow
  <2>6. claim' = (claim \ old) \cup {new}
    BY <1>1, <1>4
  <2>7. claim' \subseteq ClaimRow
    BY <2>5, <2>6, MediaHeld DEF ClaimRow
  <2>8. MediaTables'
    BY <1>1, <2>7, MediaHeld, MediaKept DEF ClaimRow
  <2> QED BY <1>1, <1>2, <2>2, <2>3, <2>4, <2>6, <2>8
<1>5. CASE u \notin Here
  <2> DEFINE a == <<s>>
  <2>1. claim' = claim /\ a[1] = s /\ req' = [req EXCEPT ![p].at = "remove", ![p].args = a]
    BY <1>1, <1>5
  <2> HIDE DEF a
  <2>2. /\ AboutMedia(p) /\ req'[p].at = "remove" /\ req'[p].args = a
        /\ req'[p].user = u /\ req'[p].name = k
    <3>1. "remove" \in MediaAt
      BY DEF MediaAt
    <3> QED BY <1>2, <1>3, <2>1, <3>1, MediaGoes
  <2>3. MediaTables'
    BY <1>1, <2>1, MediaSame DEF mediaVars
  <2> QED BY <1>1, <1>2, <2>1, <2>2, <2>3
<1> QED BY <1>4, <1>5

\* The last statement of a request, after which a file goes.
LEMMA FileLeaves ==
  ASSUME Tables, NEW p \in Request, NEW f \in Shot, load' = load, req[p].at \in MediaAt,
         req' = [req EXCEPT ![p].at = "remove", ![p].args = <<f>>]
  PROVE  AboutMedia(p) /\ req'[p].at = "remove" /\ req'[p].args[1] = f
<1> DEFINE r == [req[p] EXCEPT !.at = "remove", !.args = <<f>>]
<1>1. Fields(req[p])
  BY DEF Tables, RequestTable
<1>2. r.at = "remove" /\ r.user = req[p].user /\ r.args = <<f>> /\ r.args[1] = f
  BY <1>1 DEF Fields
<1>3. Fields(r)
  BY <1>1, <1>2 DEF Fields, MediaAt
<1>4. req' = [req EXCEPT ![p] = r]
  OBVIOUS
<1> HIDE DEF r
<1>5. Carries(r)
  BY <1>2 DEF Carries, AccountsAt, TeamsAt
<1>6. RequestTable' /\ req'[p] = r /\ Others(p)
  BY <1>3, <1>4, <1>5, Replaces DEF Tables
<1> QED BY <1>2, <1>6 DEF AboutMedia, MediaAt

LEMMA ClaimReloaded ==
  ASSUME Tables, NEW p \in Request, Reload(p)
  PROVE  /\ At(p, "reload") /\ AboutMedia(p) /\ UNCHANGED mediaVars
         /\ req[p].args[1] \in Shot /\ req[p].args[2] \in Shot
         /\ \/ req'[p] = Blank
            \/ /\ req'[p].at = "remove"
               /\ \/ req'[p].args[1] = req[p].args[2] /\ req[p].args[1] # req[p].args[2]
                  \/ req'[p].args[1] = req[p].args[1] /\ Kind("leave")
<1> DEFINE s == req[p].args[1]  old == req[p].args[2]
<1>1. /\ At(p, "reload") /\ UNCHANGED <<load, clip, job, claim, disk>>
      /\ \/ IF old = s THEN Done(p) ELSE req' = [req EXCEPT ![p].at = "remove", ![p].args = <<old>>]
         \/ Kind("leave") /\ req' = [req EXCEPT ![p].at = "remove", ![p].args = <<s>>]
  BY DEF Reload
<1>2. s \in Shot /\ old \in Shot
  BY <1>1 DEF Tables, RequestTable, Carries, At
<1>3. req[p].at \in MediaAt /\ load' = load
  BY <1>1 DEF MediaAt, At
<1>4. ASSUME NEW f \in Shot, req' = [req EXCEPT ![p].at = "remove", ![p].args = <<f>>]
      PROVE  AboutMedia(p) /\ req'[p].at = "remove" /\ req'[p].args[1] = f
  BY <1>3, <1>4, FileLeaves
<1>5. Done(p) => AboutMedia(p) /\ req'[p] = Blank
  BY <1>3, MediaEnds
<1> QED BY <1>1, <1>2, <1>4, <1>5 DEF mediaVars

LEMMA DecisionSent ==
  ASSUME Tables, NEW p \in Server, NEW by, NEW c \in claim, NEW st \in Decided,
         HandleDecideStatClaim(p, by, c, st)
  PROVE  p \in Request /\ At(p, "idle") /\ AboutMedia(p) /\ UNCHANGED mediaVars /\ req'[p].at = "decide"
<1> DEFINE r == [Blank EXCEPT !.at = "decide", !.name = st, !.args = <<c.shot>>]
<1>1. Arrive(p, "decide", r) /\ UNCHANGED mediaVars
  BY DEF HandleDecideStatClaim
<1>3. r.at = "decide" /\ r.name = st /\ r.user = NoUser /\ Fields(r)
  BY DEF Blank, Fields, MediaAt
<1> HIDE DEF r
<1>4. Carries(r)
  BY <1>3 DEF Carries, AccountsAt, TeamsAt
<1> QED BY <1>1, <1>3, <1>4, MediaArrives DEF MediaAt

\* A decision changes nothing of a claim but its state.
LEMMA ClaimDecided ==
  ASSUME Tables, NEW p \in Request, DecideStatClaim(p)
  PROVE  /\ At(p, "decide") /\ AboutMedia(p) /\ req'[p] = Blank /\ MediaTables'
         /\ UNCHANGED <<clip, job, disk>>
         /\ \A d \in claim' : \E c \in claim :
              /\ d.shot = c.shot /\ d.user = c.user /\ d.kind = c.kind
              /\ d.st = c.st \/ d.st # "pending"
              /\ d = IF c.shot = req[p].args[1] THEN [c EXCEPT !.st = req[p].name] ELSE c
<1> DEFINE new(c) == IF c.shot = req[p].args[1] THEN [c EXCEPT !.st = req[p].name] ELSE c
<1>1. /\ At(p, "decide") /\ Done(p) /\ UNCHANGED <<load, clip, job, disk>>
      /\ claim' = {new(c) : c \in claim}
  BY DEF DecideStatClaim
<1>2. req[p].name \in Decided
  BY <1>1 DEF Tables, RequestTable, Carries, At
<1>3. AboutMedia(p) /\ req'[p] = Blank
  BY <1>1, MediaEnds DEF At, MediaAt
<1>4. ASSUME NEW c \in claim
      PROVE  /\ new(c) \in ClaimRow /\ new(c).shot = c.shot /\ new(c).user = c.user /\ new(c).kind = c.kind
             /\ new(c).st = c.st \/ new(c).st # "pending"
  <2>1. c \in ClaimRow
    BY MediaHeld DEF ClaimRow
  <2>2. [c EXCEPT !.st = req[p].name] \in ClaimRow /\ [c EXCEPT !.st = req[p].name].st # "pending"
    BY <2>1, <1>2 DEF ClaimRow, Decided
  <2> QED BY <2>1, <2>2 DEF ClaimRow
<1>5. claim' \subseteq ClaimRow
  BY <1>1, <1>4
<1>6. MediaTables'
  BY <1>1, <1>5, MediaHeld, MediaKept DEF ClaimRow
<1> QED BY <1>1, <1>3, <1>4, <1>6

-------------------------------------------------------------------------------
(* What goes on without requests, and with the account or the server.      *)

\* A statement about a clip whose row may be gone.
LEMMA RowSet ==
  ASSUME Tables, NEW c \in Clip, NEW row \in ClipRow, Set(c, row)
  PROVE  /\ clip' \in [Clip -> ClipRow] /\ \A d \in Clip \ {c} : clip'[d] = clip[d]
         /\ \/ c \in Shown /\ clip'[c] = row
            \/ c \notin Shown /\ clip' = clip
<1>1. CASE c \in Shown
  <2>1. clip' = [clip EXCEPT ![c] = row]
    BY <1>1 DEF Set
  <2> QED BY <1>1, <2>1, ClipChanges
<1>2. CASE c \notin Shown
  BY <1>2, MediaHeld DEF Set
<1> QED BY <1>1, <1>2

\* What one job does: files that come, and one clip with its job.
JobDone(c) ==
  /\ MediaTables' /\ claim' = claim /\ disk \subseteq disk' /\ disk' \subseteq disk \cup {c}
  /\ \A d \in Clip \ {c} : clip'[d] = clip[d] /\ job'[d] = job[d]
  /\ \/ clip' = clip
     \/ clip'[c].st # "gone" /\ clip'[c].path = clip[c].path /\ c \in Shown
     \/ Working(c, "fetched") /\ clip'[c].st # "gone" /\ c \in Shown
  /\ job'[c] = "fetched" => c \in disk'

LEMMA JobWorks ==
  ASSUME Tables, NEW c \in Clip, JobStep(c) \/ ClientGone(c)
  PROVE  JobDone(c)
<1>1. ASSUME claim' = claim, clip' = clip, disk' = disk \/ disk' = disk \cup {c},
             NEW s \in Jobs1, Work(c, s), s = "fetched" => c \in disk'
      PROVE  JobDone(c)
  <2>1. job' \in [Clip -> Jobs1] /\ job'[c] = s /\ \A d \in Clip \ {c} : job'[d] = job[d]
    BY <1>1, JobChanges
  <2>2. disk' \subseteq Clip \cup Shot
    BY <1>1, MediaHeld
  <2>3. MediaTables'
    BY <1>1, <2>1, <2>2, MediaHeld, MediaKept
  <2> QED BY <1>1, <2>1, <2>3 DEF JobDone
<1>2. ASSUME claim' = claim, disk' = disk, NEW row \in ClipRow, Set(c, row),
             row.st # "gone", row.path = clip[c].path \/ Working(c, "fetched"),
             NEW s \in Jobs1, Work(c, s), s # "fetched"
      PROVE  JobDone(c)
  <2>1. job' \in [Clip -> Jobs1] /\ job'[c] = s /\ \A d \in Clip \ {c} : job'[d] = job[d]
    BY <1>2, JobChanges
  <2>2. /\ clip' \in [Clip -> ClipRow] /\ \A d \in Clip \ {c} : clip'[d] = clip[d]
        /\ \/ c \in Shown /\ clip'[c] = row
           \/ c \notin Shown /\ clip' = clip
    BY <1>2, RowSet
  <2>3. MediaTables'
    BY <1>2, <2>1, <2>2, MediaHeld, MediaKept
  <2> QED BY <1>2, <2>1, <2>2, <2>3 DEF JobDone
<1>3. {"none", "fetched", "failed", "heavy", "shrinking"} \subseteq Jobs1
  BY DEF Jobs1
<1>4. CASE DownloadClip(c) \/ SaveUpload(c)
  <2>1. /\ \/ Work(c, "fetched") /\ disk' = disk \cup {c}
           \/ Work(c, "failed") /\ disk' = disk
        /\ clip' = clip /\ claim' = claim
    BY <1>4 DEF DownloadClip, SaveUpload, End
  <2> QED BY <1>1, <1>3, <2>1
<1>5. clip[c] \in ClipRow
  BY MediaHeld
<1>6. CASE SetHighlightFailed(c)
  <2> DEFINE row == [clip[c] EXCEPT !.st = "failed"]
  <2>1. Set(c, row) /\ Work(c, "none") /\ claim' = claim /\ disk' = disk
    BY <1>6 DEF SetHighlightFailed
  <2>2. row \in ClipRow /\ row.st # "gone" /\ row.path = clip[c].path
    BY <1>5 DEF ClipRow
  <2> HIDE DEF row
  <2> QED BY <1>2, <1>3, <2>1, <2>2
<1>7. CASE SetHighlightProcessed(c)
  <2> DEFINE row == [clip[c] EXCEPT !.st = "pending", !.path = TRUE]
  <2>1. Set(c, row) /\ Work(c, "heavy") /\ claim' = claim /\ disk' = disk /\ Working(c, "fetched")
    BY <1>7 DEF SetHighlightProcessed
  <2>2. row \in ClipRow /\ row.st # "gone"
    BY <1>5 DEF ClipRow
  <2> HIDE DEF row
  <2> QED BY <1>2, <1>3, <2>1, <2>2
<1>8. CASE Lighten(c)
  <2>1. Work(c, "shrinking") \/ Work(c, "none")
    BY <1>8 DEF Lighten
  <2>2. clip' = clip /\ claim' = claim /\ disk' = disk
    BY <1>8 DEF Lighten
  <2> QED BY <1>1, <1>3, <2>1, <2>2
<1>9. CASE Replace(c) \/ ClientGone(c)
  <2>1. Work(c, "none")
    BY <1>9 DEF Replace, ClientGone
  <2>2. clip' = clip /\ claim' = claim /\ (disk' = disk \/ disk' = disk \cup {c})
    BY <1>9 DEF Replace, ClientGone
  <2> QED BY <1>1, <1>3, <2>1, <2>2
<1> QED BY <1>4, <1>6, <1>7, <1>8, <1>9 DEF JobStep

LEMMA MediaCleared ==
  ASSUME Tables, NEW u \in User, CascadeMedia(u)
  PROVE  /\ MediaTables' /\ claim' \subseteq claim /\ UNCHANGED <<job, disk>>
         /\ \A c \in Clip : clip'[c] = clip[c] \/ clip'[c].st = "gone"
<1> DEFINE row == [NoRow EXCEPT !.st = "gone"]
<1>1. /\ clip' = [c \in Clip |-> IF clip[c].user = u THEN row ELSE clip[c]]
      /\ claim' = claim \ Claims(u) /\ UNCHANGED <<job, disk>>
  BY DEF CascadeMedia
<1>2. row \in ClipRow /\ row.st = "gone"
  BY DEF ClipRow, NoRow
<1> HIDE DEF row
<1>3. \A c \in Clip : clip'[c] = row \/ clip'[c] = clip[c]
  BY <1>1
<1>4. clip' \in [Clip -> ClipRow]
  BY <1>1, <1>2, <1>3, MediaHeld
<1>5. claim' \subseteq claim
  BY <1>1
<1>6. MediaTables'
  BY <1>1, <1>4, <1>5, MediaHeld, MediaKept
<1> QED BY <1>1, <1>2, <1>3, <1>5, <1>6

LEMMA FilesTaken ==
  ASSUME Tables, LightenExisting
  PROVE  MediaTables' /\ UNCHANGED <<clip, claim, disk>> /\ \A c \in Clip : ~Working(c, "fetched")'
<1>1. /\ job' = [c \in Clip |-> IF c \in disk THEN "heavy" ELSE "none"]
      /\ UNCHANGED <<clip, claim, disk>>
  BY DEF LightenExisting
<1>2. job' \in [Clip -> Jobs1] /\ \A c \in Clip : job'[c] # "fetched"
  BY <1>1 DEF Jobs1
<1>3. MediaTables'
  BY <1>1, <1>2, MediaHeld, MediaKept
<1> QED BY <1>1, <1>2, <1>3 DEF Working

LEMMA MediaPlace ==
  ASSUME Tables, MediaStep
  PROVE  MediaTables' /\ RequestTable' /\ load' = load /\ \E p \in Request : p \in Serving /\ AboutMedia(p)
<1>1. ASSUME NEW p \in Request \ Idle, RemoveFile(p) \/ SubmitStatClaim(p) \/ Reload(p) \/ DecideStatClaim(p)
      PROVE  MediaTables' /\ AboutMedia(p)
  <2>1. CASE SubmitStatClaim(p)
    <3>1. At(p, "pending") \/ At(p, "submit")
      BY <2>1 DEF SubmitStatClaim
    <3> QED BY <2>1, <3>1, ClaimLookedUp, ClaimWritten, MediaSame
  <2> QED BY <1>1, <2>1, FileRemoved, ClaimReloaded, ClaimDecided, MediaSame
<1>2. ASSUME NEW p \in Server, NEW u \in Here, NEW c \in Clip,
             HandleCreateHighlight(p, u, c) \/ CreateHighlightUpload(p, u, c)
      PROVE  MediaTables' /\ p \in Request /\ AboutMedia(p)
  BY <1>2, ClipMade DEF HandleCreateHighlight, CreateHighlightUpload
<1>3. ASSUME NEW p \in Server, NEW u \in Here, NEW k \in StatKind, NEW s \in Shot, HandleSubmitStatClaim(p, u, k, s)
      PROVE  MediaTables' /\ p \in Request /\ AboutMedia(p)
  BY <1>3, ClaimSent
<1>4. ASSUME NEW p \in Server, NEW u \in Here, NEW c \in claim, NEW st \in Decided,
             HandleDecideStatClaim(p, u, c, st)
      PROVE  MediaTables' /\ p \in Request /\ AboutMedia(p)
  BY <1>4, DecisionSent, MediaSame
<1>5. ASSUME NEW p \in Server, NEW c \in Shown,
             (\E st \in Decided : HandleModerateHighlight(p, c, st)) \/ HandleDeleteHighlight(p, c)
      PROVE  MediaTables' /\ p \in Request /\ AboutMedia(p)
  BY <1>5, ClipModerated, ClipDropped
<1>6. \E p \in Request : p \in Serving /\ MediaTables' /\ AboutMedia(p)
  BY <1>1, <1>2, <1>3, <1>4, <1>5 DEF MediaStep, Decided, Serving
<1> QED BY <1>6 DEF AboutMedia

-------------------------------------------------------------------------------
(* The tables hold at first, and every step keeps them.                    *)

LEMMA MadeCounts == ASSUME made \in Nat, TeamsStep \/ MediaStep PROVE made' \in Nat
<1> SUFFICES made' = made \/ made' = made + 1
  OBVIOUS
<1>1. ASSUME NEW p, \/ CreateTeam(p) \/ UpdateTeam(p) \/ DeleteTeam(p) \/ CreateMatch(p)
                     \/ AddParticipant(p) \/ UpdateParticipant(p)
      PROVE  made' = made
  BY <1>1 DEF CreateTeam, UpdateTeam, DeleteTeam, CreateMatch, AddParticipant, UpdateParticipant
<1>2. ASSUME NEW p, RemoveFile(p) \/ SubmitStatClaim(p) \/ Reload(p) \/ DecideStatClaim(p)
      PROVE  made' = made
  BY <1>2 DEF RemoveFile, SubmitStatClaim, Reload, DecideStatClaim
<1>3. CASE TeamsStep
  <2>1. ASSUME NEW p, NEW pair, NEW n, HandleCreateTeam(p, pair, n) PROVE made' = made + 1
    BY <2>1 DEF HandleCreateTeam, Arrive
  <2>2. ASSUME NEW p, NEW t, NEW pair, NEW n, HandleUpdateTeam(p, t, pair, n) PROVE made' = made + 1
    BY <2>2 DEF HandleUpdateTeam, Arrive
  <2>3. ASSUME NEW p, NEW t, HandleDeleteTeam(p, t) PROVE made' = made + 1
    BY <2>3 DEF HandleDeleteTeam, Arrive
  <2>4. ASSUME NEW p, NEW k, NEW a, NEW b, HandleCreateMatch(p, k, a, b) PROVE made' = made + 1
    BY <2>4 DEF HandleCreateMatch, Arrive
  <2>5. ASSUME NEW p, NEW m, NEW k, NEW st, HandleUpdateMatch(p, m, k, st) PROVE made' = made + 1
    BY <2>5 DEF HandleUpdateMatch, Arrive
  <2>6. ASSUME NEW p, NEW m, HandleRetitle(p, m) PROVE made' = made + 1
    BY <2>6 DEF HandleRetitle, Arrive
  <2>7. ASSUME NEW p, NEW m, NEW us, NEW n, HandleAddParticipant(p, m, us, n) PROVE made' = made + 1
    BY <2>7 DEF HandleAddParticipant, Arrive
  <2>8. ASSUME NEW p, NEW m, NEW i, NEW us, NEW n, NEW fields, HandleUpdateParticipant(p, m, i, us, n, fields)
        PROVE  made' = made + 1
    BY <2>8 DEF HandleUpdateParticipant, Arrive
  <2> QED BY <1>1, <1>3, <2>1, <2>2, <2>3, <2>4, <2>5, <2>6, <2>7, <2>8 DEF TeamsStep
<1>4. CASE MediaStep
  <2>1. ASSUME NEW p, NEW k, NEW u, NEW c, CreateHighlight(p, k, u, c) PROVE made' = made + 1
    BY <2>1 DEF CreateHighlight, Arrive
  <2>2. ASSUME NEW p, NEW u, NEW k, NEW s, HandleSubmitStatClaim(p, u, k, s) PROVE made' = made + 1
    BY <2>2 DEF HandleSubmitStatClaim, Arrive
  <2>3. ASSUME NEW p, NEW u, NEW c, NEW st, HandleDecideStatClaim(p, u, c, st) PROVE made' = made + 1
    BY <2>3 DEF HandleDecideStatClaim, Arrive
  <2>4. ASSUME NEW p, NEW c, NEW st, HandleModerateHighlight(p, c, st) PROVE made' = made + 1
    BY <2>4 DEF HandleModerateHighlight, Arrive
  <2>5. ASSUME NEW p, NEW c, HandleDeleteHighlight(p, c) PROVE made' = made + 1
    BY <2>5 DEF HandleDeleteHighlight, Arrive
  <2> QED BY <1>2, <1>4, <2>1, <2>2, <2>3, <2>4, <2>5 DEF MediaStep, HandleCreateHighlight, CreateHighlightUpload
<1> QED BY <1>3, <1>4

\* What one deletion is.
LEMMA Deleted ==
  ASSUME Tables, NEW p \in Request, DeleteEmptyUser(p)
  PROVE  DeleteUser(p) /\ CascadeTeams(req[p].user) /\ CascadeMedia(req[p].user) /\ req[p].user \in User
  BY UserDeleted DEF DeleteEmptyUser

LEMMA TablesKept ==
  ASSUME Tables, \A p \in Request : req[p].at \in {"signup", "place"} => account[req[p].user].st = "none",
         [Next]_vars
  PROVE  Tables'
<1>1. CASE AccountsStep /\ UNCHANGED <<teamVars, mediaVars>>
  BY <1>1, AccountsPlace, TeamsSame, MediaSame DEF Tables
<1>2. CASE TeamsStep /\ UNCHANGED <<accountVars, mediaVars>>
  <2>1. made' \in Nat
    BY <1>2, MadeCounts DEF Tables, AccountTables
  <2> QED BY <1>2, <2>1, TeamsPlace, AccountsSame, MediaSame DEF Tables
<1>3. CASE MediaStep /\ UNCHANGED <<accountVars, teamVars>>
  <2>1. made' \in Nat
    BY <1>3, MadeCounts DEF Tables, AccountTables
  <2> QED BY <1>3, <2>1, MediaPlace, AccountsSame, TeamsSame DEF Tables
<1>4. CASE Jobs /\ UNCHANGED <<accountVars, teamVars>>
  <2>1. PICK c \in Clip : (JobStep(c) \/ ClientGone(c)) /\ UNCHANGED <<load, made, req>>
    BY <1>4 DEF Jobs
  <2>2. MediaTables'
    BY <2>1, JobWorks DEF JobDone
  <2>3. made' \in Nat
    BY <2>1 DEF Tables, AccountTables
  <2> QED BY <1>4, <2>1, <2>2, <2>3, AccountsSame, TeamsSame DEF Tables, RequestTable
<1>5. ASSUME NEW p \in Request, RenameEverywhere(p), UNCHANGED mediaVars
      PROVE  Tables'
  BY <1>5, MatchesRenamed, UserRenamed, MediaSame DEF Tables, AboutAccounts
<1>6. ASSUME NEW p \in Request, CheckEmpty(p)
      PROVE  Tables'
  BY <1>6, Checked, TeamsSame, MediaSame DEF Tables
<1>7. ASSUME NEW p \in Request, DeleteEmptyUser(p)
      PROVE  Tables'
  BY <1>7, Deleted, UserDeleted, PlayerCleared, MediaCleared DEF Tables, AboutAccounts
<1>8. CASE Start
  BY <1>8, BootFacts, FilesTaken, TeamsSame DEF Start, Tables
<1>9. CASE UNCHANGED vars
  BY <1>9 DEF vars, Tables, AccountTables, TeamTables, MediaTables, RequestTable, Here, SidesOf
<1> QED BY <1>1, <1>2, <1>3, <1>4, <1>5, <1>6, <1>7, <1>8, <1>9 DEF Next

\* The accounts of the beginning.
LEMMA FirstAccounts ==
  ASSUME Init
  PROVE  /\ AccountTables /\ Here = DOMAIN load.first /\ load \in Loads
         /\ \A u \in Here : account[u] = load.first[u]
         /\ \A p \in Request : req[p] = Blank
<1>1. /\ load \in Loads /\ made = 0 /\ req = [p \in Request |-> Blank]
      /\ account = [u \in User |-> IF u \in DOMAIN load.first THEN load.first[u] ELSE NoAccount]
      /\ alias = {} /\ link = {} /\ now = 0
      /\ session = {[user |-> u, iat |-> 0] : u \in {v \in Here : account[v].role >= Moderator}}
  BY DEF Init, AccountsInit
<1> DEFINE first == load.first
<1>2. /\ DOMAIN first \subseteq User
      /\ \A u \in DOMAIN first :
           first[u] \in [st : {"here"}, login : Name, name : Name, role : {Player, Moderator, Superadmin},
                         pass : BOOLEAN, after : Nat, stub : {NoName}]
  BY <1>1, LoadsAssumption
<1>3. NoAccount \in Row /\ NoAccount.st = "none"
  BY DEF NoAccount, Row, Roles
<1> HIDE DEF first
<1>4. \A u \in DOMAIN first : first[u] \in Row /\ first[u].st = "here" /\ first[u].login \in Name /\ first[u].name \in Name
  BY <1>2 DEF Row, Roles
<1>5. \A u \in User : account[u] = IF u \in DOMAIN first THEN first[u] ELSE NoAccount
  BY <1>1 DEF first
<1>6. account \in [User -> Row]
  BY <1>1, <1>3, <1>4 DEF first
<1>7. Here = DOMAIN first
  BY <1>2, <1>3, <1>4, <1>5 DEF Here
<1>8. \A u \in Here : account[u] = first[u]
  BY <1>2, <1>5, <1>7
<1>9. session \subseteq [user : User, iat : Nat]
  BY <1>1 DEF Here
<1>10. \A u \in Here : account[u].login \in Name /\ account[u].name \in Name
  BY <1>4, <1>7, <1>8
<1>11. AccountTables
  BY <1>1, <1>6, <1>9, <1>10 DEF AccountTables
<1> QED BY <1>1, <1>7, <1>8, <1>11 DEF first

LEMMA TablesFirst == ASSUME Init PROVE Tables
<1>1. AccountTables
  BY FirstAccounts
<1>2. TeamTables
  <2>1. match = <<>> /\ team = load.teams /\ load \in Loads
    BY DEF Init, TeamsInit
  <2>2. match \in Seq(Record) /\ DOMAIN match = {}
    BY <2>1
  <2> QED BY <2>1, <2>2, TeamsAssumption DEF TeamTables
<1>3. MediaTables
  BY DEF Init, MediaInit, MediaTables, NoRow
<1>4. RequestTable
  BY BlankFacts DEF Init, RequestTable
<1> QED BY <1>1, <1>2, <1>3, <1>4 DEF Tables

-------------------------------------------------------------------------------
(* Names stay apart.                                                       *)

LEMMA NamesSame == ASSUME NamesKept, NEW u \in User PROVE Names(u)' = Names(u)
  BY DEF NamesKept, Names

LEMMA ClearSame == ASSUME NamesKept, NEW u, NEW n PROVE Clear(u, n)' <=> Clear(u, n)
<1>1. Here' = Here
  BY NamesHere
<1>2. \A v \in Here : account'[v].login = account[v].login /\ account'[v].name = account[v].name
  BY DEF NamesKept, Here
<1> QED BY <1>1, <1>2 DEF NamesKept, Clear

\* What the lock guards and the index on logins make a free name together.
LEMMA ClearOf == ASSUME NEW u, NEW n
                 PROVE  (~Taken(u, n) => Clear(u, n)) /\ (Clear(u, n) /\ ~LoginTaken(u, n) => ~Taken(u, n))
  BY DEF Taken, Clear, LoginTaken

\* Whoever is not about to take a name disturbs nobody's.
LEMMA ApartStill ==
  ASSUME Tables, Apart, NamesKept,
         \A l \in link' : l \in link \/ l.user \in Here,
         \A p \in Request : /\ req'[p].at \in {"signup", "place", "renaming"} => req'[p] = req[p]
                            /\ req'[p].user \in Here \cup {NoUser, req[p].user}
  PROVE  Apart'
<1>1. Here' = Here /\ alias' = alias
  BY NamesHere DEF NamesKept
<1>2. NamesApart'
  BY <1>1, NamesSame DEF Apart, NamesApart, NamesKept, Here
<1>3. \A p, q \in Request : req'[p].at \in {"signup", "renaming"} /\ req'[q].at \in {"signup", "renaming"} => p = q
  BY DEF Apart
<1>4. \A p \in Request, u \in User, n \in Name :
        req'[p].at \in {"signup", "renaming"} /\ req'[p].user = u /\ req'[p].name = n => Clear(u, n)'
  <2>1. \A u, n : Clear(u, n)' <=> Clear(u, n)
    BY ClearSame
  <2> QED BY <2>1 DEF Apart
<1>5. ASSUME NEW p \in Request, req'[p].at \in {"signup", "place"}
      PROVE  /\ account'[req'[p].user].st = "none"
             /\ \A q \in Request \ {p} : req'[q].user # req'[p].user
  <2>1. req[p].at \in {"signup", "place"} /\ req'[p] = req[p]
    BY <1>5 DEF At
  <2>2. req[p].user \in User
    BY <2>1 DEF Tables, RequestTable, Carries, At, AccountsAt
  <2>3. account[req[p].user].st = "none" /\ \A q \in Request \ {p} : req[q].user # req[p].user
    BY <2>1 DEF Apart
  <2>4. req[p].user \notin Here /\ req[p].user # NoUser
    BY <2>2, <2>3, BlankFacts DEF Here
  <2> QED BY <2>1, <2>2, <2>3, <2>4 DEF NamesKept
<1>6. Apart => \A l \in link : l.user \in Here
  BY DEF Apart
<1>7. \A l \in link' : l.user \in Here'
  BY <1>1, <1>6
<1>8. /\ \A a \in alias' : a.user \in Here'
      /\ \A a, b \in alias' : a.name = b.name => a = b
  BY <1>1 DEF Apart
<1> QED BY <1>2, <1>3, <1>4, <1>5, <1>7, <1>8 DEF Apart, At

LEMMA ApartOf ==
  ASSUME Tables, Apart, NamesKept, NEW p \in Request, Others(p),
         \A l \in link' : l \in link \/ l.user \in Here,
         req'[p].at \notin {"signup", "place", "renaming"},
         req'[p].user \in Here \cup {NoUser, req[p].user}
  PROVE  Apart'
<1>1. \A q \in Request : /\ req'[q].at \in {"signup", "place", "renaming"} => req'[q] = req[q]
                         /\ req'[q].user \in Here \cup {NoUser, req[q].user}
  BY DEF Others
<1> QED BY <1>1, ApartStill

\* Nobody else gets the account that a request is about to make.
LEMMA OthersFresh ==
  ASSUME Tables, Apart, NEW p \in Request, Others(p), req'[p].at \notin {"signup", "place"},
         req'[p].user \in Here \cup {NoUser, req[p].user},
         \A v \in User \ {req[p].user} : account[v].st = "none" => account'[v].st = "none"
  PROVE  \A q \in Request : req'[q].at \in {"signup", "place"} =>
           /\ account'[req'[q].user].st = "none"
           /\ \A o \in Request \ {q} : req'[o].user # req'[q].user
<1> SUFFICES ASSUME NEW q \in Request, req'[q].at \in {"signup", "place"}
             PROVE  /\ account'[req'[q].user].st = "none"
                    /\ \A o \in Request \ {q} : req'[o].user # req'[q].user
  OBVIOUS
<1>1. q # p /\ req'[q] = req[q] /\ req[q].at \in {"signup", "place"}
  BY DEF Others
<1>2. req[q].user \in User
  BY <1>1 DEF Tables, RequestTable, Carries, AccountsAt
<1>3. account[req[q].user].st = "none" /\ \A o \in Request \ {q} : req[o].user # req[q].user
  BY <1>1 DEF Apart
<1>4. req[q].user \notin Here /\ req[q].user # NoUser /\ req[q].user # req[p].user
  BY <1>1, <1>2, <1>3, BlankFacts DEF Here
<1>5. account'[req'[q].user].st = "none"
  BY <1>1, <1>2, <1>3, <1>4
<1>6. \A o \in Request \ {q} : req'[o].user # req'[q].user
  BY <1>1, <1>3, <1>4 DEF Others
<1> QED BY <1>5, <1>6

\* Who stays keeps his names; the organizer's may go to a new account of his, and those
\* that the form of a match gave are shared.
NamesStay == \A u \in Here : u \in Here' => Names(u) \ ({Organizer} \cup Formed) \subseteq Names(u)'

LEMMA NamesStayKept == ASSUME NamesKept PROVE NamesStay
  BY NamesSame DEF NamesStay, Here

LEMMA ApartArrives == ASSUME Tables, Apart, AccountsArrive PROVE Apart' /\ NamesStay
<1>1. PICK p \in Server :
        \/ Comes(p)
        \/ /\ AboutAccounts(p) /\ AccountTables' /\ NamesKept /\ UNCHANGED accountVars
           /\ \E u \in User, n \in Name :
                /\ req'[p].user = u /\ req'[p].name = n
                /\ \/ HandleSignup(p, u, n) /\ req'[p].at = "signup"
                   \/ HandleCreatePlaceholder(p, u, n) /\ req'[p].at = "place"
  BY AccountsArrives
<1>2. p \in Request /\ At(p, "idle")
  BY ServerFacts DEF Tables, AccountTables
<1>3. CASE Comes(p)
  <2>1. Known \subseteq Here
    BY DEF Known, Apart
  <2> QED BY <1>2, <1>3, <2>1, ApartOf, NamesStayKept DEF Comes, AboutAccounts
<1>4. ASSUME AboutAccounts(p), NamesKept, UNCHANGED accountVars, NEW u \in User, NEW n \in Name,
             req'[p].user = u, req'[p].name = n,
             \/ HandleSignup(p, u, n) /\ req'[p].at = "signup"
             \/ HandleCreatePlaceholder(p, u, n) /\ req'[p].at = "place"
      PROVE  Apart'
  <2>1. Fresh(u) /\ (req'[p].at = "signup" => ~Registering /\ ~Taken(u, n))
    BY <1>4 DEF HandleSignup, HandleCreatePlaceholder
  <2>2. Here' = Here /\ alias' = alias /\ link' = link /\ account' = account
    BY <1>4, NamesHere DEF accountVars
  <2>3. \A q \in Request \ {p} : req'[q] = req[q]
    BY <1>4 DEF AboutAccounts, Others
  <2>4. NamesApart'
    BY <1>4, <2>2, NamesSame DEF Apart, NamesApart, Here
  <2>5. \A q, o \in Request :
          req'[q].at \in {"signup", "renaming"} /\ req'[o].at \in {"signup", "renaming"} => q = o
    BY <1>4, <2>1, <2>3 DEF Registering, Apart
  <2>6. \A q \in Request, v \in User, m \in Name :
          req'[q].at \in {"signup", "renaming"} /\ req'[q].user = v /\ req'[q].name = m => Clear(v, m)'
    <3>1. \A v, m : Clear(v, m)' <=> Clear(v, m)
      BY <1>4, ClearSame
    <3>2. req'[p].at = "signup" => Clear(u, n)
      BY <2>1, ClearOf
    <3> QED BY <1>2, <1>4, <2>3, <3>1, <3>2 DEF Apart
  <2>7. account'[u].st = "none" /\ \A q \in Request \ {p} : req'[q].user # u
    BY <2>1, <2>2, <2>3 DEF Fresh
  <2>9. ASSUME NEW q \in Request, req'[q].at \in {"signup", "place"}
        PROVE  account'[req'[q].user].st = "none" /\ \A o \in Request \ {q} : req'[o].user # req'[q].user
    <3>1. CASE q = p
      BY <1>4, <2>7, <3>1
    <3>2. CASE q # p
      <4>1. req'[q] = req[q] /\ req[q].at \in {"signup", "place"} /\ req[q].user # u
        BY <2>1, <2>3, <2>9, <3>2 DEF Fresh
      <4>2. account[req[q].user].st = "none" /\ \A o \in Request \ {q} : req[o].user # req[q].user
        BY <4>1 DEF Apart
      <4> QED BY <1>4, <2>2, <2>3, <4>1, <4>2
    <3> QED BY <3>1, <3>2
  <2>8. /\ \A a \in alias' : a.user \in Here'
        /\ \A l \in link' : l.user \in Here'
        /\ \A a, b \in alias' : a.name = b.name => a = b
    BY <2>2 DEF Apart
  <2> QED BY <2>4, <2>5, <2>6, <2>8, <2>9 DEF Apart
<1>5. NamesKept
  BY <1>1 DEF Comes
<1> QED BY <1>1, <1>3, <1>4, <1>5, NamesStayKept

\* The new account has a name that nobody has, or one that the form of a match gave it.
LEMMA ApartMade ==
  ASSUME Tables, Apart, NEW u \in User, NEW n \in Name, NEW pass, NEW stub, Created(u, n, pass, stub),
         account[u].st = "none", stub = n \/ ~Taken(u, n), alias' = alias, link' = link
  PROVE  /\ NamesApart' /\ NamesStay
         /\ \A a \in alias' : a.user \in Here'
         /\ \A l \in link' : l.user \in Here'
         /\ \A a, b \in alias' : a.name = b.name => a = b
<1>1. /\ \A v \in User \ {u} : account'[v] = account[v]
      /\ account'[u].st = "here" /\ account'[u].login = n /\ account'[u].name = n /\ account'[u].stub = stub
  BY DEF Created
<1>3. Here' = Here \cup {u} /\ u \notin Here
  BY <1>1 DEF Here
<1>4. Names(u)' = {n}
  <2>1. \A a \in alias : a.user # u
    BY <1>3 DEF Apart
  <2> QED BY <1>1, <2>1 DEF Names
<1>5. \A v \in Here : /\ Names(v)' = Names(v) /\ account'[v].stub = account[v].stub
                      /\ n \in Names(v) => account'[u].stub = n
  <2> TAKE v \in Here
  <2>1. v \in User /\ v # u
    BY <1>3 DEF Here
  <2>2. Names(v)' = Names(v) /\ account'[v].stub = account[v].stub
    BY <1>1, <2>1 DEF Names
  <2>3. CASE stub = n
    BY <1>1, <2>2, <2>3
  <2>4. CASE ~Taken(u, n)
    <3>1. n \notin {account[v].login, account[v].name} /\ \A a \in alias : a.name = n => a.user = u
      BY <2>1, <2>4 DEF Taken
    <3> QED BY <2>1, <2>2, <3>1 DEF Names
  <2> QED BY <2>3, <2>4
<1>6. \A v, w \in Here : v # w => Names(v) \cap Names(w) \subseteq {Organizer, account[v].stub, account[w].stub}
  BY DEF Apart, NamesApart
<1>7. NamesApart'
  <2>1. ASSUME NEW v \in Here', NEW w \in Here', v # w
        PROVE  Names(v)' \cap Names(w)' \subseteq {Organizer, account'[v].stub, account'[w].stub}
    <3>1. CASE v = u
      BY <1>3, <1>4, <1>5, <2>1, <3>1
    <3>2. CASE w = u
      BY <1>3, <1>4, <1>5, <2>1, <3>2
    <3>3. CASE v \in Here /\ w \in Here
      BY <1>5, <1>6, <2>1, <3>3
    <3> QED BY <1>3, <3>1, <3>2, <3>3
  <2> QED BY <2>1 DEF NamesApart
<1>8. /\ \A a \in alias' : a.user \in Here'
      /\ \A l \in link' : l.user \in Here'
      /\ \A a, b \in alias' : a.name = b.name => a = b
  BY <1>3 DEF Apart
<1>9. NamesStay
  BY <1>5 DEF NamesStay
<1> QED BY <1>7, <1>8, <1>9

LEMMA ApartCreated == ASSUME Tables, Apart, NEW p \in Request, CreateRegisteredUser(p) PROVE Apart' /\ NamesStay
<1>0. PICK u \in User, n \in Name : u = req[p].user /\ n = req[p].name
  BY UserCreated
<1>1. /\ Others(p) /\ At(p, "signup") /\ alias' = alias /\ link' = link
      /\ \/ ~LoginTaken(u, n) /\ Created(u, n, TRUE, NoName) /\ req'[p].at = "session" /\ Keeps(p)
         \/ NamesKept /\ req'[p] = Blank
  BY <1>0, UserCreated DEF AboutAccounts
<1>2. Clear(u, n) /\ account[u].st = "none" /\ \A q \in Request \ {p} : req'[q].at \notin {"signup", "renaming"}
  BY <1>0, <1>1 DEF Apart, Others, At
<1>3. CASE NamesKept /\ req'[p] = Blank
  BY <1>1, <1>3, BlankFacts, ApartOf, NamesStayKept
<1>4. CASE ~LoginTaken(u, n) /\ Created(u, n, TRUE, NoName) /\ req'[p].at = "session" /\ Keeps(p)
  <2>1. ~Taken(u, n)
    BY <1>2, <1>4, ClearOf
  <2>2. /\ NamesApart' /\ NamesStay
        /\ \A a \in alias' : a.user \in Here'
        /\ \A l \in link' : l.user \in Here'
        /\ \A a, b \in alias' : a.name = b.name => a = b
    BY <1>1, <1>2, <1>4, <2>1, ApartMade
  <2>3. \A q \in Request : req'[q].at \notin {"signup", "renaming"}
    BY <1>2, <1>4
  <2>4. req'[p].user = req[p].user /\ \A v \in User \ {u} : account'[v] = account[v]
    BY <1>4 DEF Keeps, Created
  <2>5. \A q \in Request : req'[q].at \in {"signup", "place"} =>
          /\ account'[req'[q].user].st = "none"
          /\ \A o \in Request \ {q} : req'[o].user # req'[q].user
    BY <1>0, <1>1, <1>4, <2>4, OthersFresh
  <2> QED BY <2>2, <2>3, <2>5 DEF Apart
<1> QED BY <1>1, <1>3, <1>4

\* The form of a match gives a name under nobody's lock: what a request has seen of its own
\* name holds but for the login, which the index looks at again.
LEMMA ApartPlaced == ASSUME Tables, Apart, NEW p \in Request, CreatePlaceholderUser(p) PROVE Apart' /\ NamesStay
<1>0. PICK u \in User, n \in Name : u = req[p].user /\ n = req[p].name
  BY PlaceMade
<1>1. /\ Others(p) /\ At(p, "place") /\ alias' = alias /\ link' = link /\ req'[p] = Blank
      /\ Created(u, n, FALSE, n) \/ NamesKept
  BY <1>0, PlaceMade DEF AboutAccounts
<1>2. account[u].st = "none"
  BY <1>0, <1>1 DEF Apart, At
<1>3. CASE NamesKept
  BY <1>1, <1>3, BlankFacts, ApartOf, NamesStayKept
<1>4. CASE Created(u, n, FALSE, n)
  <2>1. /\ \A v \in User \ {u} : account'[v] = account[v]
        /\ account'[u].st = "here" /\ account'[u].login = n /\ account'[u].name = n
    BY <1>4 DEF Created
  <2>2. /\ NamesApart' /\ NamesStay
        /\ \A a \in alias' : a.user \in Here'
        /\ \A l \in link' : l.user \in Here'
        /\ \A a, b \in alias' : a.name = b.name => a = b
    BY <1>1, <1>2, <1>4, ApartMade
  <2>3. \A q \in Request : req'[q].at \in {"signup", "renaming"} => q # p /\ req'[q] = req[q]
    BY <1>1, BlankFacts DEF Others
  <2>4. \A v, m : Clear(v, m) => Clear(v, m)'
    <3>1. \A w \in Here' : w = u \/ (w \in Here /\ account'[w] = account[w])
      BY <2>1 DEF Here
    <3> QED BY <1>1, <2>1, <3>1 DEF Clear
  <2>5. /\ \A q, o \in Request : req'[q].at \in {"signup", "renaming"} /\ req'[o].at \in {"signup", "renaming"} => q = o
        /\ \A q \in Request, v \in User, m \in Name :
             req'[q].at \in {"signup", "renaming"} /\ req'[q].user = v /\ req'[q].name = m => Clear(v, m)'
    BY <2>3, <2>4 DEF Apart
  <2>6. \A q \in Request : req'[q].at \in {"signup", "place"} =>
          /\ account'[req'[q].user].st = "none"
          /\ \A o \in Request \ {q} : req'[o].user # req'[q].user
    BY <1>0, <1>1, <2>1, BlankFacts, OthersFresh
  <2> QED BY <2>2, <2>5, <2>6 DEF Apart
<1> QED BY <1>1, <1>3, <1>4

LEMMA ApartLocked == ASSUME Tables, Apart, NEW p \in Request, RenameLock(p) PROVE Apart'
<1>1. /\ Others(p) /\ NamesKept /\ UNCHANGED accountVars /\ At(p, "rename") /\ ~Registering
      /\ \/ ~Taken(req[p].user, req[p].name) /\ req'[p].at = "renaming" /\ Keeps(p)
         \/ req'[p] = Blank
  BY RenameLocked DEF AboutAccounts
<1>2. CASE req'[p] = Blank
  BY <1>1, <1>2, BlankFacts, ApartOf DEF accountVars
<1>3. CASE ~Taken(req[p].user, req[p].name) /\ req'[p].at = "renaming" /\ Keeps(p)
  <2>1. \A q \in Request : req'[q].at \in {"signup", "renaming"} => q = p
    BY <1>1 DEF Registering, Others
  <2>2. \A u \in User, n \in Name : req'[p].user = u /\ req'[p].name = n => Clear(u, n)'
    <3>1. \A u, n : Clear(u, n)' <=> Clear(u, n)
      BY <1>1, ClearSame
    <3>2. Clear(req[p].user, req[p].name)
      BY <1>3, ClearOf
    <3> QED BY <1>3, <3>1, <3>2 DEF Keeps
  <2>3. Here' = Here /\ alias' = alias /\ link' = link /\ account' = account
    BY <1>1, NamesHere DEF accountVars
  <2>4. NamesApart'
    BY <1>1, <2>3, NamesSame DEF Apart, NamesApart, Here
  <2>5. /\ \A a \in alias' : a.user \in Here'
        /\ \A l \in link' : l.user \in Here'
        /\ \A a, b \in alias' : a.name = b.name => a = b
    BY <2>3 DEF Apart
  <2>7. req'[p].user = req[p].user
    BY <1>3 DEF Keeps
  <2>6. \A q \in Request : req'[q].at \in {"signup", "place"} =>
          /\ account'[req'[q].user].st = "none"
          /\ \A o \in Request \ {q} : req'[o].user # req'[q].user
    BY <1>1, <1>3, <2>3, <2>7, OthersFresh
  <2> QED BY <2>1, <2>2, <2>4, <2>5, <2>6 DEF Apart
<1> QED BY <1>1, <1>2, <1>3

\* Who gets a new nick keeps his names, and gets one that nobody has.
LEMMA ApartRenamed == ASSUME Tables, Apart, NEW p \in Request, RenameUser(p) PROVE Apart' /\ NamesStay
<1> DEFINE known == {a.name : a \in alias}
<1>0. PICK u \in User, n \in Name : u = req[p].user /\ n = req[p].name
  BY UserRenamed
<1>1. Others(p) /\ req'[p] = Blank /\ At(p, "renaming") /\ link' = link
  BY UserRenamed DEF AboutAccounts
<1>2. CASE ~Renames(p)
  <2>1. NamesKept
    BY <1>2, UserRenamed
  <2> QED BY <1>1, <2>1, BlankFacts, ApartOf, NamesStayKept
<1>3. CASE Renames(p)
  <2>0. u \in Here /\ ~LoginTaken(u, n)
    BY <1>0, <1>3 DEF Renames
  <2>1. /\ alias' = {a \in alias : ~(a.user = u /\ a.name = n)}
             \cup {[name |-> f, user |-> u] : f \in Former(u, n) \ known}
        /\ \A v \in User \ {u} : account'[v] = account[v]
        /\ account'[u].st = account[u].st /\ account'[u].login = n /\ account'[u].name = n
        /\ account'[u].stub = account[u].stub
    BY <1>0, <1>3, UserRenamed
  <2>2. ~Taken(u, n) /\ \A q \in Request : req'[q].at \notin {"signup", "renaming"}
    <3>1. Clear(u, n) /\ \A q \in Request : req'[q].at \notin {"signup", "renaming"}
      BY <1>0, <1>1, BlankFacts DEF Apart, Others, At
    <3> QED BY <2>0, <3>1, ClearOf
  <2>13. \A q \in Request : req'[q].at \in {"signup", "place"} =>
          /\ account'[req'[q].user].st = "none"
          /\ \A o \in Request \ {q} : req'[o].user # req'[q].user
    BY <1>0, <1>1, <2>1, BlankFacts, OthersFresh
  <2> HIDE DEF known
  <2>3. Here' = Here
    BY <1>1, <2>1 DEF Here
  <2>4. Names(u)' \subseteq Names(u) \cup {n}
    BY <2>1 DEF Names, Former
  <2>5. \A v \in Here \ {u} : Names(v)' = Names(v) /\ n \notin Names(v) /\ account'[v].stub = account[v].stub
    <3> TAKE v \in Here \ {u}
    <3>1. v \in User /\ v # u
      BY DEF Here
    <3>2. {a.name : a \in {b \in alias' : b.user = v}} = {a.name : a \in {b \in alias : b.user = v}}
      BY <2>1, <3>1
    <3>3. Names(v)' = Names(v)
      BY <2>1, <3>1, <3>2 DEF Names
    <3>4. n \notin {account[v].login, account[v].name} /\ \A a \in alias : a.name = n => a.user = u
      BY <2>2, <3>1 DEF Taken
    <3>5. n \notin Names(v)
      BY <3>1, <3>4 DEF Names
    <3> QED BY <2>1, <3>1, <3>3, <3>5
  <2>6. \A v, w \in Here : v # w => Names(v) \cap Names(w) \subseteq {Organizer, account[v].stub, account[w].stub}
    BY DEF Apart, NamesApart
  <2>7. NamesApart'
    <3>1. ASSUME NEW v \in Here, NEW w \in Here, v # w
          PROVE  Names(v)' \cap Names(w)' \subseteq {Organizer, account'[v].stub, account'[w].stub}
      <4>1. CASE v = u
        BY <2>0, <2>1, <2>4, <2>5, <2>6, <3>1, <4>1
      <4>2. CASE w = u
        BY <2>0, <2>1, <2>4, <2>5, <2>6, <3>1, <4>2
      <4>3. CASE v # u /\ w # u
        BY <2>5, <2>6, <3>1, <4>3
      <4> QED BY <4>1, <4>2, <4>3
    <3> QED BY <2>3, <3>1 DEF NamesApart
  <2>8. \A a, b \in alias : a.name = b.name => a = b
    BY DEF Apart
  <2>9. \A a, b \in alias' : a.name = b.name => a = b
    BY <2>1, <2>8 DEF known
  <2>10. /\ \A a \in alias' : a.user \in Here'
         /\ \A l \in link' : l.user \in Here'
    BY <1>1, <2>0, <2>1, <2>3 DEF Apart
  <2>11. \A f \in Names(u) \ ({Organizer} \cup Formed) : f \in Names(u)'
    <3> TAKE f \in Names(u) \ ({Organizer} \cup Formed)
    <3>1. n \in Names(u)'
      BY <2>1 DEF Names
    <3>2. CASE f # n /\ \E a \in alias : a.name = f
      <4>1. PICK a \in alias : a.name = f
        BY <3>2
      <4>2. a.user \in Here /\ f \in Names(a.user)
        BY <4>1 DEF Apart, Names
      <4>3. a.user = u
        BY <2>0, <2>6, <4>2 DEF Formed
      <4>4. a \in alias'
        BY <2>1, <3>2, <4>1
      <4> QED BY <4>1, <4>3, <4>4 DEF Names
    <3>3. CASE f # n /\ ~ \E a \in alias : a.name = f
      <4>1. f \in Former(u, n) \ known
        BY <3>3 DEF Names, Former, known
      <4>2. [name |-> f, user |-> u] \in alias'
        BY <2>1, <4>1
      <4> QED BY <4>2 DEF Names
    <3> QED BY <3>1, <3>2, <3>3
  <2>12. NamesStay
    <3>1. \A v \in Here : Names(v) \ ({Organizer} \cup Formed) \subseteq Names(v)'
      BY <2>5, <2>11
    <3> QED BY <3>1 DEF NamesStay
  <2> QED BY <2>2, <2>7, <2>9, <2>10, <2>12, <2>13 DEF Apart
<1> QED BY <1>2, <1>3

LEMMA ApartDeleted == ASSUME Tables, Apart, NEW p \in Request, DeleteUser(p) PROVE Apart' /\ NamesStay
<1>0. PICK u \in User : u = req[p].user
  BY UserDeleted
<1>1. /\ Others(p) /\ req'[p] = Blank /\ At(p, "clear")
      /\ \A v \in User \ {u} : account'[v] = account[v]
      /\ account'[u].st = "gone"
      /\ alias' = {a \in alias : a.user # u} /\ link' = link \ LinksOf(u)
  BY <1>0, UserDeleted DEF AboutAccounts
<1>2. Here' = Here \ {u}
  BY <1>1 DEF Here
<1>3. \A v \in Here \ {u} : Names(v)' = Names(v) /\ account'[v].stub = account[v].stub
  <2> TAKE v \in Here \ {u}
  <2>1. v \in User /\ v # u
    BY DEF Here
  <2>2. {a.name : a \in {b \in alias' : b.user = v}} = {a.name : a \in {b \in alias : b.user = v}}
    BY <1>1, <2>1
  <2> QED BY <1>1, <2>1, <2>2 DEF Names
<1>4. NamesApart'
  BY <1>2, <1>3 DEF Apart, NamesApart
<1>5. \A a \in alias' : a \in alias /\ a.user # u
  BY <1>1
<1>6. /\ \A a \in alias' : a.user \in Here'
      /\ \A a, b \in alias' : a.name = b.name => a = b
  BY <1>2, <1>5 DEF Apart
<1>7. \A l \in link' : l.user \in Here'
  BY <1>1, <1>2 DEF Apart, LinksOf
<1>8. \A q \in Request : req'[q].at \in {"signup", "renaming"} => q # p /\ req'[q] = req[q]
  BY <1>1, BlankFacts DEF Others
<1>10. \A v, m : Clear(v, m) => Clear(v, m)'
  <2> TAKE v, m
  <2>1. \A w \in Here' : w \in Here /\ account'[w] = account[w]
    BY <1>1, <1>2 DEF Here
  <2> QED BY <1>5, <2>1 DEF Clear
<1>11. /\ \A q, o \in Request : req'[q].at \in {"signup", "renaming"} /\ req'[o].at \in {"signup", "renaming"} => q = o
       /\ \A q \in Request, v \in User, n \in Name :
            req'[q].at \in {"signup", "renaming"} /\ req'[q].user = v /\ req'[q].name = n => Clear(v, n)'
  BY <1>8, <1>10 DEF Apart
<1>12. \A q \in Request : req'[q].at \in {"signup", "place"} =>
         /\ account'[req'[q].user].st = "none"
         /\ \A o \in Request \ {q} : req'[o].user # req'[q].user
  BY <1>0, <1>1, BlankFacts, OthersFresh
<1>13. NamesStay
  BY <1>2, <1>3 DEF NamesStay
<1> QED BY <1>4, <1>6, <1>7, <1>11, <1>12, <1>13 DEF Apart

LEMMA ApartBooted == ASSUME Tables, Apart, Boot PROVE Apart' /\ NamesStay
<1>1. /\ \A p \in Request : req'[p] = Blank
      /\ alias' = alias /\ link' = link
      /\ \A v \in Here : /\ account'[v].st = "here" /\ account'[v].login = account[v].login
                         /\ account'[v].name = account[v].name /\ account'[v].stub = account[v].stub
      /\ \A v \in User \ Here : \/ account'[v].st = account[v].st
                                \/ account'[v].login = Organizer /\ account'[v].name = Organizer
  BY BootFacts
<1>2. Here \subseteq Here' /\ \A v \in Here' \ Here : account'[v].login = Organizer /\ account'[v].name = Organizer
  BY <1>1 DEF Here
<1>3. \A v \in Here : Names(v)' = Names(v) /\ account'[v].stub = account[v].stub
  BY <1>1 DEF Names
<1>4. \A v \in Here' \ Here : Names(v)' = {Organizer}
  BY <1>1, <1>2 DEF Names, Apart
<1>5. NamesApart'
  BY <1>2, <1>3, <1>4 DEF Apart, NamesApart
<1>6. \A p \in Request : req'[p].at \notin {"signup", "place", "renaming"}
  BY <1>1, BlankFacts
<1>7. /\ \A a \in alias' : a.user \in Here'
      /\ \A l \in link' : l.user \in Here'
      /\ \A a, b \in alias' : a.name = b.name => a = b
  BY <1>1, <1>2 DEF Apart
<1>8. NamesStay
  BY <1>3 DEF NamesStay
<1> QED BY <1>5, <1>6, <1>7, <1>8 DEF Apart, At

LEMMA ApartAccounts == ASSUME Tables, Apart, AccountsStep PROVE Apart' /\ NamesStay
<1>1. CASE AccountsArrive
  BY <1>1, ApartArrives
<1>2. CASE Second
  <2>1. NamesKept /\ req' = req /\ link' = link
    BY <1>2, SecondFacts
  <2> QED BY <2>1, ApartStill, NamesStayKept
<1>3. ASSUME NEW p \in Request, NamesKept, AboutAccounts(p),
             \A l \in link' : l \in link \/ l.user \in Here,
             req'[p].at \notin {"signup", "place", "renaming"}, req'[p].user \in {NoUser, req[p].user}
      PROVE  Apart' /\ NamesStay
  BY <1>3, ApartOf, NamesStayKept DEF AboutAccounts
<1>4. ASSUME NEW p \in Request,
             \/ CreateRegisteredUser(p) \/ CreatePlaceholderUser(p) \/ IssueToken(p) \/ RenameLock(p)
             \/ CountSuperadmins(p) \/ SetRole(p) \/ EnsureClaimToken(p) \/ ResetPassword(p) \/ ClaimAccount(p)
             \/ LockUser(p)
      PROVE  Apart' /\ NamesStay
  <2>0. req'[p] = Blank => req'[p].at \notin {"signup", "place", "renaming"} /\ req'[p].user \in {NoUser, req[p].user}
    BY BlankFacts
  <2>1. CASE CreateRegisteredUser(p)
    BY <2>1, ApartCreated
  <2>10. CASE CreatePlaceholderUser(p)
    BY <2>10, ApartPlaced
  <2>2. CASE IssueToken(p)
    BY <1>3, <2>0, <2>2, TokenIssued
  <2>3. CASE RenameLock(p)
    BY <2>3, ApartLocked, RenameLocked, NamesStayKept
  <2>4. CASE CountSuperadmins(p)
    <3>1. /\ NamesKept /\ AboutAccounts(p) /\ link' = link
          /\ \/ req'[p].at = "role" /\ Keeps(p)
             \/ req'[p] = Blank
      BY <2>4, Counted DEF accountVars
    <3> QED BY <1>3, <2>0, <3>1 DEF Keeps
  <2>5. CASE SetRole(p)
    BY <1>3, <2>0, <2>5, RoleSet
  <2>6. CASE EnsureClaimToken(p)
    <3>1. /\ NamesKept /\ AboutAccounts(p) /\ req'[p].at \in {"idle", "link"} /\ req'[p].user \in {NoUser, req[p].user}
          /\ \/ link' \subseteq link
             \/ /\ req[p].user \in Here
                /\ link' = link \cup {[user |-> req[p].user, token |-> req[p].token]}
      BY <2>6, LinkMade
    <3>2. \A l \in link' : l \in link \/ l.user \in Here
      BY <3>1
    <3> QED BY <1>3, <3>1, <3>2
  <2>7. CASE ResetPassword(p)
    <3>1. /\ NamesKept /\ AboutAccounts(p) /\ req'[p] = Blank
          /\ \/ link' = link
             \/ /\ req[p].user \in Here
                /\ link' = (link \ LinksOf(req[p].user)) \cup {[user |-> req[p].user, token |-> req[p].token]}
      BY <2>7, PasswordReset
    <3>2. \A l \in link' : l \in link \/ l.user \in Here
      BY <3>1
    <3> QED BY <1>3, <2>0, <3>1, <3>2
  <2>8. CASE ClaimAccount(p)
    <3>1. /\ NamesKept /\ AboutAccounts(p) /\ req'[p].user \in {NoUser, req[p].user}
          /\ req'[p].at \in {"idle", "free", "password", "spent", "session"} /\ link' \subseteq link
      BY <2>8, AccountClaimed
    <3> QED BY <1>3, <3>1
  <2>9. CASE LockUser(p)
    <3>1. /\ NamesKept /\ AboutAccounts(p) /\ link' = link
          /\ \/ req'[p].at = "locked" /\ Keeps(p)
             \/ req'[p] = Blank
      BY <2>9, UserLocked DEF accountVars
    <3> QED BY <1>3, <2>0, <3>1 DEF Keeps
  <2> QED BY <1>4, <2>1, <2>2, <2>3, <2>4, <2>5, <2>6, <2>7, <2>8, <2>9, <2>10
<1> QED BY <1>1, <1>2, <1>4 DEF AccountsStep

LEMMA ApartKept == ASSUME Tables, Apart, [Next]_vars PROVE Apart' /\ NamesStay
<1>0. ASSUME UNCHANGED accountVars PROVE NamesKept /\ link' = link
  BY <1>0 DEF accountVars, NamesKept
<1>1. CASE AccountsStep
  BY <1>1, ApartAccounts
<1>2. CASE TeamsStep /\ UNCHANGED accountVars
  <2>1. PICK p \in Request : AboutTeams(p)
    BY <1>2, TeamsPlace
  <2>2. req'[p].at \notin {"signup", "place", "renaming"} /\ req'[p].user = NoUser /\ Others(p)
    BY <2>1 DEF AboutTeams, TeamsAt
  <2> QED BY <1>0, <1>2, <2>2, ApartOf, NamesStayKept
<1>3. CASE MediaStep /\ UNCHANGED accountVars
  <2>1. PICK p \in Request : AboutMedia(p)
    BY <1>3, MediaPlace
  <2>2. /\ req'[p].at \notin {"signup", "place", "renaming"} /\ Others(p)
        /\ req'[p].user \in Here \cup {NoUser, req[p].user}
    BY <2>1 DEF AboutMedia, MediaAt
  <2> QED BY <1>0, <1>3, <2>2, ApartOf, NamesStayKept
<1>4. CASE (Jobs \/ UNCHANGED vars) /\ UNCHANGED accountVars
  <2>1. req' = req
    BY <1>4 DEF Jobs, vars
  <2> QED BY <1>0, <1>4, <2>1, ApartStill, NamesStayKept
<1>5. ASSUME NEW p \in Request, RenameEverywhere(p)
      PROVE  Apart' /\ NamesStay
  BY <1>5, ApartRenamed DEF RenameEverywhere
<1>6. ASSUME NEW p \in Request, CheckEmpty(p)
      PROVE  Apart' /\ NamesStay
  <2>1. /\ Others(p) /\ NamesKept /\ UNCHANGED accountVars
        /\ req'[p] = Blank \/ (req'[p].at = "clear" /\ Keeps(p))
    BY <1>6, Checked
  <2>2. req'[p].at \notin {"signup", "place", "renaming"} /\ req'[p].user \in {NoUser, req[p].user}
    BY <2>1, BlankFacts DEF Keeps
  <2> QED BY <1>0, <2>1, <2>2, ApartOf, NamesStayKept
<1>7. ASSUME NEW p \in Request, DeleteEmptyUser(p)
      PROVE  Apart' /\ NamesStay
  BY <1>7, ApartDeleted DEF DeleteEmptyUser
<1>8. CASE Start
  BY <1>8, ApartBooted DEF Start
<1>9. UNCHANGED vars => UNCHANGED accountVars
  BY DEF vars, accountVars
<1> QED BY <1>1, <1>2, <1>3, <1>4, <1>5, <1>6, <1>7, <1>8, <1>9 DEF Next

LEMMA ApartFirst == ASSUME Init PROVE Apart
<1>1. alias = {} /\ link = {}
  BY DEF Init, AccountsInit
<1>2. /\ AccountTables /\ Here = DOMAIN load.first /\ load \in Loads
      /\ \A u \in Here : account[u] = load.first[u]
      /\ \A p \in Request : req[p].at = "idle"
  BY FirstAccounts, BlankFacts
<1>3. \A u, v \in DOMAIN load.first :
        u # v => {load.first[u].login, load.first[u].name} \cap {load.first[v].login, load.first[v].name} = {}
  BY <1>2, LoadsAssumption
<1>4. \A u \in Here : Names(u) = {load.first[u].login, load.first[u].name}
  BY <1>1, <1>2 DEF Names
<1>5. NamesApart
  <2>1. ASSUME NEW u \in Here, NEW v \in Here, u # v PROVE Names(u) \cap Names(v) = {}
    <3>1. u \in DOMAIN load.first /\ v \in DOMAIN load.first
      BY <1>2
    <3>2. {load.first[u].login, load.first[u].name} \cap {load.first[v].login, load.first[v].name} = {}
      BY <1>3, <2>1, <3>1
    <3> QED BY <1>4, <3>2
  <2>2. \A s, i, j : s = {} => s \subseteq {Organizer, i, j}
    OBVIOUS
  <2> QED BY <2>1, <2>2 DEF NamesApart
<1> QED BY <1>1, <1>2, <1>5 DEF Apart, At

Led(logins, names, former) ==
  IF logins # {} THEN logins
  ELSE IF names = {} THEN former
  ELSE IF Cardinality(names) = 1 THEN names ELSE {}

OneOf(logins, names, former, all) ==
  /\ \A u, v \in all : u = v
  /\ logins \subseteq all /\ names \subseteq all /\ former \subseteq all
  /\ all \subseteq logins \cup names \cup former

LEMMA OneOwner ==
  \A logins, names, former, all : OneOf(logins, names, former, all) => Led(logins, names, former) = all
<1> SUFFICES ASSUME NEW logins, NEW names, NEW former, NEW all,
                    \A u, v \in all : u = v,
                    logins \subseteq all, names \subseteq all, former \subseteq all,
                    all \subseteq logins \cup names \cup former
             PROVE  Led(logins, names, former) = all
  BY DEF OneOf
<1>1. CASE logins # {}
  <2>1. logins = all
    BY <1>1
  <2> QED BY <1>1, <2>1 DEF Led
<1>2. CASE logins = {} /\ names = {}
  <2>1. former = all
    BY <1>2
  <2> QED BY <1>2, <2>1 DEF Led
<1>3. CASE logins = {} /\ names # {}
  <2>1. names = all
    BY <1>3
  <2>2. PICK u : names = {u}
    BY <1>3
  <2>3. Cardinality(names) = 1
    BY <2>2, FS_Singleton
  <2> QED BY <1>3, <2>1, <2>3 DEF Led
<1> QED BY <1>1, <1>2, <1>3

Footing == Tables /\ Apart
EntryRight == \A n \in Name \ ({Organizer} \cup Formed) : EntryOf(n) = {u \in Here : n \in Names(u)}

\* Whom a name leads to: whoever has it.
LEMMA EntryFacts == Footing => EntryRight
<1> SUFFICES ASSUME Footing, NEW n \in Name \ ({Organizer} \cup Formed)
             PROVE  EntryOf(n) = {u \in Here : n \in Names(u)}
  BY DEF EntryRight
<1> DEFINE byLogin == {u \in Here : account[u].login = n}
           byName  == {u \in Here : account[u].name = n}
           former  == {a.user : a \in {b \in alias : b.name = n}}
           all     == {u \in Here : n \in Names(u)}
<1>1. \A u, v \in all : u = v
  BY DEF Footing, Apart, NamesApart, Formed
<1>2. byLogin \subseteq all /\ byName \subseteq all
  BY DEF Names
<1>3. former \subseteq all
  BY DEF Footing, Apart, Names
<1>4. all \subseteq byLogin \cup byName \cup former
  BY DEF Names
<1>5. EntryOf(n) = Led(byLogin, byName, former)
  BY DEF EntryOf, Led
<1> HIDE DEF byLogin, byName, former, all
<1>6. Led(byLogin, byName, former) = all
  <2>1. OneOf(byLogin, byName, former, all)
    BY <1>1, <1>2, <1>3, <1>4 DEF OneOf
  <2> QED BY <2>1, OneOwner
<1>7. EntryOf(n) = all
  BY <1>5, <1>6
<1> QED BY <1>7 DEF all

LEMMA EntryNext == Footing' => EntryRight'
BY EntryFacts, PTL

\* A step about names: who entered by a name still does.
LEMMA NamesLeadKept ==
  ASSUME Footing, EntryRight, EntryRight', Footing', NamesStay,
         NEW n \in Name \ ({Organizer} \cup Formed \cup Formed'), NEW u \in EntryOf(n), u \in Here'
  PROVE  EntryOf(n)' = {u}
<1>1. u \in Here /\ n \in Names(u)
  BY DEF EntryRight
<1>2. n \in Names(u)'
  BY <1>1 DEF NamesStay
<1>3. EntryOf(n)' = {v \in Here : n \in Names(v)}'
  BY DEF EntryRight
<1>4. \A v \in Here' : n \in Names(v)' => v = u
  BY <1>2 DEF Footing, Apart, NamesApart, Formed
<1> QED BY <1>2, <1>3, <1>4

LEMMA FootingInvariant == Spec => []Footing
<1>1. Init => Footing
  BY TablesFirst, ApartFirst DEF Footing
<1>2. Footing /\ [Next]_vars => Footing'
  BY TablesKept, ApartKept DEF Footing, Apart
<1> QED BY <1>1, <1>2, PTL DEF Spec

\* By what a player enters, he enters as long as he has the account, unless the form of a
\* match gave somebody that nick.
THEOREM NamesTheorem == Spec => NamesLead
<1>1. Footing /\ Footing' /\ [Next]_vars =>
        [\A n \in Name \ ({Organizer} \cup Formed \cup Formed') :
           \A u \in EntryOf(n) : u \in Here' => EntryOf(n)' = {u}]_<<account, alias>>
  BY ApartKept, NamesLeadKept, EntryFacts, EntryNext DEF Footing
<1> QED BY <1>1, FootingInvariant, PTL DEF Spec, NamesLead

-------------------------------------------------------------------------------
(* Who plays stays.                                                        *)

\* A step that adds no match and puts nobody else into one.
NoNewMatch ==
  /\ DOMAIN match' = DOMAIN match
  /\ \A m \in DOMAIN match :
       /\ match[m].st = "gone" => match'[m].st = "gone"
       /\ match'[m].mode = match[m].mode /\ DOMAIN match'[m].sides = DOMAIN match[m].sides
       /\ \A i \in SidesOf(m) : /\ match'[m].sides[i].who = match[m].sides[i].who
                                /\ DOMAIN match'[m].sides[i].called = DOMAIN match[m].sides[i].called

LEMMA MatchSame == ASSUME match' = match PROVE NoNewMatch
  BY DEF NoNewMatch

\* What SinglesStay says of one side.
Stays(s) ==
  /\ s.who = DOMAIN s.called /\ s.who \subseteq Here
  /\ \A p \in Request : At(p, "clear") => req[p].user \notin s.who

LEMMA StaysOf ==
  ASSUME SinglesStay, NEW m \in Matches, NEW i \in SidesOf(m), match[m].mode = "1x1"
  PROVE  Stays(match[m].sides[i])
  BY DEF SinglesStay, Stays

LEMMA SideStays ==
  ASSUME NEW s, NEW t, Stays(s), t.who = s.who, DOMAIN t.called = DOMAIN s.called, s.who \subseteq Here',
         \A p \in Request : req'[p].at = "clear" => req'[p] = req[p]
  PROVE  Stays(t)'
  BY DEF Stays, At

LEMMA SinglesStill ==
  ASSUME SinglesStay, NoNewMatch, Here \subseteq Here',
         \A p \in Request : req'[p].at = "clear" => req'[p] = req[p]
  PROVE  SinglesStay'
<1> SUFFICES ASSUME NEW m \in Matches', NEW i \in SidesOf(m)', match'[m].mode = "1x1"
             PROVE  Stays(match[m].sides[i])'
  BY DEF SinglesStay, Stays
<1>1. m \in Matches /\ i \in SidesOf(m) /\ match[m].mode = "1x1"
  BY DEF Matches, NoNewMatch, SidesOf
<1>2. /\ match'[m].sides[i].who = match[m].sides[i].who
      /\ DOMAIN match'[m].sides[i].called = DOMAIN match[m].sides[i].called
  BY <1>1 DEF Matches, NoNewMatch
<1>3. Stays(match[m].sides[i]) /\ match[m].sides[i].who \subseteq Here'
  BY <1>1, StaysOf DEF Stays
<1>4. \A s, t : Stays(s) /\ t.who = s.who /\ DOMAIN t.called = DOMAIN s.called /\ s.who \subseteq Here' => Stays(t)'
  BY SideStays
<1>5. PICK t : t = match'[m].sides[i]
  OBVIOUS
<1>6. Stays(t)'
  BY <1>2, <1>3, <1>4, <1>5
<1> QED BY <1>5, <1>6 DEF Stays

LEMMA TeamsHereStill ==
  ASSUME TeamsHere, Here \subseteq Here', team' \subseteq team
  PROVE  TeamsHere'
  BY DEF TeamsHere

LEMMA KeptStill ==
  ASSUME Kept, HereKept, UNCHANGED teamVars, \A p \in Request : req'[p].at = "clear" => req'[p] = req[p]
  PROVE  Kept'
<1>1. Here \subseteq Here'
  BY DEF HereKept
<1>2. NoNewMatch /\ team' = team
  BY MatchSame DEF teamVars
<1> QED BY <1>1, <1>2, SinglesStill, TeamsHereStill DEF Kept

\* Requests about teams and matches do not delete accounts.
LEMMA NoNewClear ==
  ASSUME NEW p \in Request, AboutTeams(p)
  PROVE  \A q \in Request : req'[q].at = "clear" => req'[q] = req[q]
  BY DEF AboutTeams, Others, TeamsAt

\* A match made by hand takes accounts that nobody is deleting, if they are referred to.
LEMMA KeptByHand ==
  ASSUME SinglesStay, NEW m \in Matches, NEW us, MadeByHand(m, us), Here' = Here,
         \A p \in Request : req'[p].at = "clear" => req'[p] = req[p]
  PROVE  SinglesStay'
<1> SUFFICES ASSUME NEW k \in Matches', NEW i \in SidesOf(k)', match'[k].mode = "1x1"
             PROVE  Stays(match[k].sides[i])'
  BY DEF SinglesStay, Stays
<1>0. \A s, t : Stays(s) /\ t.who = s.who /\ DOMAIN t.called = DOMAIN s.called /\ s.who \subseteq Here' => Stays(t)'
  BY SideStays
<1>1. PICK t : t = match'[k].sides[i]
  OBVIOUS
<1>2. Stays(t)'
  <2>1. CASE k # m
    <3>1. k \in Matches /\ i \in SidesOf(k) /\ match'[k] = match[k]
      BY <2>1 DEF MadeByHand, Matches, SidesOf
    <3>2. Stays(match[k].sides[i])
      BY <3>1, StaysOf
    <3> QED BY <1>0, <1>1, <3>1, <3>2 DEF Stays
  <2>2. CASE k = m
    <3>1. match[m].mode = "1x1" /\ i \in DOMAIN match'[m].sides
      BY <2>2 DEF MadeByHand, SidesOf
    <3>2. CASE t.who = us /\ DOMAIN t.called = us /\ Free(us) /\ us \subseteq Here
      <4>1. \A p \in Request : req'[p].at = "clear" => req'[p].user \notin us
        BY <3>2 DEF Free, Locked
      <4> QED BY <3>2, <4>1 DEF Stays, At
    <3>3. CASE i \in SidesOf(m) /\ t.who = match[m].sides[i].who /\ t.called = match[m].sides[i].called
      <4>1. Stays(match[m].sides[i])
        BY <3>1, <3>3, StaysOf
      <4>2. match[m].sides[i].who \subseteq Here'
        BY <4>1 DEF Stays
      <4> QED BY <1>0, <3>3, <4>1, <4>2
    <3> QED BY <1>1, <2>2, <3>1, <3>2, <3>3 DEF MadeByHand
  <2> QED BY <2>1, <2>2
<1> QED BY <1>1, <1>2 DEF Stays

LEMMA KeptOfTeams ==
  ASSUME Tables, Kept, TeamsStep, UNCHANGED accountVars
  PROVE  Kept'
<1>0. Here' = Here /\ Here \subseteq Here' /\ HereKept
  BY DEF accountVars, Here, HereKept
<1>1. ASSUME NEW p \in Request, AboutTeams(p), UNCHANGED teamVars PROVE Kept'
  BY <1>0, <1>1, NoNewClear, KeptStill
<1>2. ASSUME NEW p \in Request, AboutTeams(p), NoNewMatch, TeamsHere' PROVE Kept'
  BY <1>0, <1>2, NoNewClear, SinglesStill DEF Kept
<1>3. ASSUME NEW p \in Request, CreateTeam(p) PROVE Kept'
  <2> DEFINE pair == req[p].args[1]
  <2>1. /\ AboutTeams(p) /\ match' = match
        /\ \/ team' = team
           \/ /\ TeamOf(pair) = {} /\ pair \subseteq Here
              /\ team' = team \cup {[pair |-> pair, name |-> req[p].name]}
    BY <1>3, TeamCreated
  <2> HIDE DEF pair
  <2>2. TeamsHere'
    BY <1>0, <2>1 DEF Kept, TeamsHere, TeamOf
  <2> QED BY <1>2, <2>1, <2>2, MatchSame
<1>4. ASSUME NEW p \in Request, UpdateTeam(p) PROVE Kept'
  <2> DEFINE from == req[p].args[1]  to == req[p].args[2]
  <2>1. /\ AboutTeams(p)
        /\ DOMAIN match' = DOMAIN match /\ \A m \in DOMAIN match : SamePlayers(m)
        /\ \/ team' = team
           \/ \E old \in TeamOf(from) :
                /\ to = from \/ (TeamOf(to) = {} /\ to \subseteq Here)
                /\ team' = (team \ {old}) \cup {[pair |-> to, name |-> req[p].name]}
    BY <1>4, TeamUpdated DEF teamVars
  <2> HIDE DEF from, to
  <2>2. TeamsHere'
    <3>1. CASE team' = team
      BY <1>0, <3>1, TeamsHereStill DEF Kept
    <3>2. ASSUME NEW old \in TeamOf(from),
                 to = from \/ (TeamOf(to) = {} /\ to \subseteq Here),
                 team' = (team \ {old}) \cup {[pair |-> to, name |-> req[p].name]}
          PROVE  TeamsHere'
      <4>1. old \in team /\ old.pair = from
        BY DEF TeamOf
      <4>2. to \subseteq Here
        BY <3>2, <4>1 DEF Kept, TeamsHere
      <4>3. \A t \in team \ {old} : t.pair # to
        BY <3>2, <4>1 DEF Kept, TeamsHere, TeamOf
      <4> QED BY <1>0, <3>2, <4>2, <4>3 DEF Kept, TeamsHere
    <3> QED BY <2>1, <3>1, <3>2
  <2>3. NoNewMatch
    BY <2>1 DEF NoNewMatch, SamePlayers
  <2> QED BY <1>2, <2>1, <2>2, <2>3
<1>5. ASSUME NEW p \in Request, DeleteTeam(p) PROVE Kept'
  <2>1. AboutTeams(p) /\ match' = match /\ team' \subseteq team
    BY <1>5, TeamDropped
  <2> QED BY <1>0, <1>2, <2>1, MatchSame, TeamsHereStill DEF Kept
<1>6. ASSUME NEW p \in Request, CreateMatch(p) PROVE Kept'
  <2> DEFINE k == Len(match) + 1
  <2>1. /\ AboutTeams(p) /\ team' = team /\ req[p].at \in {"1x1", "2x2"}
        /\ \/ match' = match
           \/ /\ DOMAIN match' = DOMAIN match \cup {k} /\ k \notin DOMAIN match
              /\ \A m \in DOMAIN match : match'[m] = match[m]
              /\ match'[k] =
                    [mode |-> req[p].at, st |-> "coming", sides |-> req[p].args, title |-> Title(req[p].args),
                     hand |-> FALSE]
              /\ req[p].args \in [1..2 -> Side]
              /\ \A i \in 1..2 : req[p].args[i].who = DOMAIN req[p].args[i].called
              /\ At(p, "1x1") => /\ Free(req[p].args[1].who \cup req[p].args[2].who)
                                 /\ req[p].args[1].who \cup req[p].args[2].who \subseteq Here
    BY <1>6, MatchCreated
  <2> HIDE DEF k
  <2>2. CASE match' = match
    BY <1>1, <2>1, <2>2 DEF teamVars
  <2>3. CASE match' # match
    <3>1. /\ DOMAIN match' = DOMAIN match \cup {k} /\ k \notin DOMAIN match
          /\ \A m \in DOMAIN match : match'[m] = match[m]
          /\ match'[k].mode = req[p].at /\ match'[k].sides = req[p].args
          /\ DOMAIN match'[k].sides = 1..2
          /\ \A i \in 1..2 : req[p].args[i].who = DOMAIN req[p].args[i].called
          /\ At(p, "1x1") => /\ Free(req[p].args[1].who \cup req[p].args[2].who)
                             /\ req[p].args[1].who \cup req[p].args[2].who \subseteq Here
      BY <2>1, <2>3
    <3>3. \A q \in Request : req'[q].at = "clear" => req'[q] = req[q]
      BY <2>1, NoNewClear
    <3> SUFFICES SinglesStay'
      BY <1>0, <2>1, TeamsHereStill DEF Kept
    <3> SUFFICES ASSUME NEW m \in Matches', NEW i \in SidesOf(m)', match'[m].mode = "1x1"
                 PROVE  /\ match'[m].sides[i].who = DOMAIN match'[m].sides[i].called
                        /\ match'[m].sides[i].who \subseteq Here'
                        /\ \A q \in Request : req'[q].at = "clear" => req'[q].user \notin match'[m].sides[i].who
      BY DEF SinglesStay, At
    <3>4. CASE m = k
      <4>1. /\ At(p, "1x1") /\ i \in 1..2 /\ match'[m].sides[i] = req[p].args[i]
            /\ req[p].args[i].who = DOMAIN req[p].args[i].called
        BY <3>1, <3>4 DEF At, SidesOf
      <4>2. req[p].args[i].who \subseteq req[p].args[1].who \cup req[p].args[2].who
        <5>1. i = 1 \/ i = 2
          BY <4>1
        <5> QED BY <5>1
      <4>3. req[p].args[i].who \subseteq Here /\ \A u \in req[p].args[i].who : ~Locked(u)
        BY <3>1, <4>1, <4>2 DEF Free
      <4>4. \A q \in Request : req'[q].at = "clear" => req'[q].user \notin req[p].args[i].who
        BY <3>3, <4>3 DEF Locked
      <4> QED BY <1>0, <4>1, <4>3, <4>4
    <3>5. CASE m # k
      <4>1. m \in Matches /\ match'[m] = match[m] /\ i \in SidesOf(m)
        BY <3>1, <3>5 DEF Matches, SidesOf
      <4> QED BY <1>0, <3>3, <4>1 DEF Kept, SinglesStay, At
    <3> QED BY <3>4, <3>5
  <2> QED BY <2>2, <2>3
<1>7. ASSUME NEW p \in Server, NEW m \in Matches,
             \/ HandleUpdateMatch(p, m, "finish", "finished") \/ HandleUpdateMatch(p, m, "reopen", "coming")
             \/ HandleUpdateMatch(p, m, "cancel", "gone") \/ HandleRetitle(p, m)
      PROVE  Kept'
  <2>1. /\ p \in Request /\ AboutTeams(p) /\ team' = team /\ m \in DOMAIN match /\ DOMAIN match' = DOMAIN match
        /\ \A k \in DOMAIN match \ {m} : match'[k] = match[k]
        /\ match'[m].mode = match[m].mode /\ match'[m].sides = match[m].sides
    BY <1>7, MatchPatched, MatchRetitled
  <2>2. NoNewMatch
    BY <2>1 DEF NoNewMatch, Matches
  <2> QED BY <1>0, <1>2, <2>1, <2>2, TeamsHereStill DEF Kept
<1>8. ASSUME NEW p \in Server, NEW pair \in Pairs, NEW n \in TeamName, HandleCreateTeam(p, pair, n)
      PROVE  Kept'
  BY <1>1, <1>8, TeamAsked
<1>9. ASSUME NEW p \in Server, NEW t \in team, NEW pair \in Pairs, NEW n \in TeamName, HandleUpdateTeam(p, t, pair, n)
      PROVE  Kept'
  BY <1>1, <1>9, UpdateAsked
<1>10. ASSUME NEW p \in Server, NEW t \in team, HandleDeleteTeam(p, t)
      PROVE  Kept'
  BY <1>1, <1>10, DropAsked
<1>11. ASSUME NEW p \in Server, NEW t \in team, NEW o \in team, HandleCreateMatch(p, "2x2", TeamSide(t), TeamSide(o))
      PROVE  Kept'
  BY <1>1, <1>11, TeamSideFacts, MatchAsked DEF Tables
<1>12. ASSUME NEW p \in Server, NEW u \in Here, NEW v \in Here, HandleCreateMatch(p, "1x1", PlayerSide(u), PlayerSide(v))
      PROVE  Kept'
  BY <1>1, <1>12, PlayerSideFacts, MatchAsked DEF Tables
<1>13. ASSUME NEW p \in Server, HandAsked(p)
       PROVE  Kept'
  BY <1>1, <1>13, HandAskedFacts
<1>14. ASSUME NEW p \in Request, AddParticipant(p) \/ UpdateParticipant(p)
       PROVE  Kept'
  <2>1. /\ AboutTeams(p) /\ team' = team
        /\ match' = match \/ \E m \in Matches : MadeByHand(m, req[p].args[2])
    BY <1>14, ParticipantAdded, ParticipantUpdated
  <2>2. CASE match' = match
    BY <1>1, <2>1, <2>2 DEF teamVars
  <2>3. ASSUME NEW m \in Matches, MadeByHand(m, req[p].args[2]) PROVE Kept'
    <3>1. \A q \in Request : req'[q].at = "clear" => req'[q] = req[q]
      BY <2>1, NoNewClear
    <3>2. PICK us : us = req[p].args[2]
      OBVIOUS
    <3>3. SinglesStay /\ MadeByHand(m, us)
      BY <2>3, <3>2 DEF Kept
    <3>4. SinglesStay'
      BY <1>0, <3>1, <3>3, KeptByHand
    <3> QED BY <1>0, <2>1, <3>4, TeamsHereStill DEF Kept
  <2> QED BY <2>1, <2>2, <2>3
<1> QED BY <1>3, <1>4, <1>5, <1>6, <1>7, <1>8, <1>9, <1>10, <1>11, <1>12, <1>13, <1>14 DEF TeamsStep, HandAsked

\* What a deletion does to singles.
LEMMA SinglesCleared ==
  ASSUME Tables, NEW u \in User, CascadeTeams(u)
  PROVE  /\ team' = {t \in team : u \notin t.pair} /\ DOMAIN match' = DOMAIN match
         /\ \A m \in DOMAIN match :
              /\ match'[m].mode = match[m].mode /\ match'[m].st = match[m].st
              /\ DOMAIN match'[m].sides = DOMAIN match[m].sides
              /\ match[m].mode = "1x1" => \A i \in SidesOf(m) :
                   /\ match'[m].sides[i].who = match[m].sides[i].who \ {u}
                   /\ match'[m].sides[i].called = match[m].sides[i].called
<1>1. team' = {t \in team : u \notin t.pair} /\ DOMAIN match' = DOMAIN match
  BY PlayerCleared
<1>2. \A m \in DOMAIN match : match'[m].mode = match[m].mode /\ match'[m].st = match[m].st
  BY PlayerCleared
<1>3. \A m \in DOMAIN match : \A i \in SidesOf(m) :
        /\ match[m].mode # "2x2" => match'[m].sides[i].who = match[m].sides[i].who \ {u}
        /\ match'[m].sides[i].called = match[m].sides[i].called
  BY PlayerCleared
<1>5. \A m \in DOMAIN match : DOMAIN match'[m].sides = DOMAIN match[m].sides
  BY PlayerCleared
<1>4. \A m \in DOMAIN match : match[m].mode = "1x1" => match[m].mode # "2x2"
  OBVIOUS
<1> QED BY <1>1, <1>2, <1>3, <1>4, <1>5, Zenon

LEMMA KeptKept ==
  ASSUME Footing, Kept, [Next]_vars
  PROVE  Kept'
<1>0. ASSUME UNCHANGED accountVars PROVE HereKept
  BY <1>0 DEF accountVars, HereKept, Here
<1>1. CASE AccountsStep /\ UNCHANGED teamVars
  <2>1. HereKept /\ (req' = req \/ \E p \in Request : AboutAccounts(p))
    BY <1>1, AccountsPlace DEF Footing, Apart
  <2>2. \A q \in Request : req'[q].at = "clear" => req'[q] = req[q]
    BY <2>1 DEF AboutAccounts, Others
  <2> QED BY <1>1, <2>1, <2>2, KeptStill
<1>2. CASE TeamsStep /\ UNCHANGED accountVars
  BY <1>2, KeptOfTeams DEF Footing
<1>3. CASE MediaStep /\ UNCHANGED <<accountVars, teamVars>>
  <2>1. PICK p \in Request : AboutMedia(p)
    BY <1>3, MediaPlace DEF Footing
  <2>2. \A q \in Request : req'[q].at = "clear" => req'[q] = req[q]
    BY <2>1 DEF AboutMedia, MediaAt, Others
  <2> QED BY <1>0, <1>3, <2>2, KeptStill
<1>4. CASE (Jobs \/ UNCHANGED vars) /\ UNCHANGED <<accountVars, teamVars>>
  <2>1. req' = req
    BY <1>4 DEF Jobs, vars
  <2> QED BY <1>0, <1>4, <2>1, KeptStill
<1>5. ASSUME NEW p \in Request, RenameEverywhere(p) PROVE Kept'
  <2>1. Tables
    BY DEF Footing
  <2>2. RenameUser(p) /\ team' = team
    BY <1>5, <2>1, MatchesRenamed
  <2>3. Here' = Here
    <3>1. \A u \in User : account'[u].st = account[u].st
      BY <2>1, <2>2, UserRenamed DEF NamesKept
    <3> QED BY <3>1 DEF Here
  <2>4. \A q \in Request : req'[q].at = "clear" => req'[q] = req[q]
    BY <2>1, <2>2, UserRenamed, BlankFacts DEF AboutAccounts, Others
  <2>5. NoNewMatch
    <3>1. CASE Renames(p)
      BY <1>5, <2>1, <3>1, MatchesRenamed DEF NoNewMatch
    <3>2. CASE ~Renames(p)
      BY <1>5, <2>1, <3>2, MatchesRenamed, MatchSame
    <3> QED BY <3>1, <3>2
  <2> QED BY <2>2, <2>3, <2>4, <2>5, SinglesStill, TeamsHereStill DEF Kept
<1>6. ASSUME NEW p \in Request, CheckEmpty(p) PROVE Kept'
  <2>1. /\ Others(p) /\ UNCHANGED accountVars /\ UNCHANGED teamVars
        /\ \/ /\ req'[p].at = "clear" /\ Keeps(p) /\ ~HasTeamHistory(req[p].user)
           \/ req'[p] = Blank
    BY <1>6, Checked DEF Footing
  <2>2. Here' = Here /\ match' = match /\ team' = team
    BY <2>1 DEF accountVars, teamVars, Here
  <2>3. TeamsHere'
    BY <2>2, TeamsHereStill DEF Kept
  <2>4. SinglesStay'
    <3> SUFFICES ASSUME NEW m \in Matches, NEW i \in SidesOf(m), match[m].mode = "1x1"
                 PROVE  /\ match[m].sides[i].who = DOMAIN match[m].sides[i].called
                        /\ match[m].sides[i].who \subseteq Here
                        /\ \A q \in Request : req'[q].at = "clear" => req'[q].user \notin match[m].sides[i].who
      BY <2>2 DEF SinglesStay, At, Matches, SidesOf
    <3>1. match[m].sides[i].who = DOMAIN match[m].sides[i].called /\ match[m].sides[i].who \subseteq Here
      BY DEF Kept, SinglesStay
    <3>2. \A q \in Request \ {p} : req'[q].at = "clear" => req'[q].user \notin match[m].sides[i].who
      BY <2>1 DEF Kept, SinglesStay, At, Others
    <3>3. req'[p].at = "clear" => req'[p].user \notin match[m].sides[i].who
      BY <2>1, BlankFacts DEF Keeps, HasTeamHistory
    <3> QED BY <3>1, <3>2, <3>3
  <2> QED BY <2>3, <2>4 DEF Kept
<1>7. ASSUME NEW p \in Request, DeleteEmptyUser(p) PROVE Kept'
  <2>0. Tables
    BY DEF Footing
  <2>1. PICK u \in User : u = req[p].user
    BY <1>7, <2>0, Deleted
  <2>2. /\ Others(p) /\ req'[p] = Blank /\ At(p, "clear")
        /\ \A v \in User \ {u} : account'[v] = account[v]
        /\ account'[u].st = "gone" /\ CascadeTeams(u)
    BY <1>7, <2>0, <2>1, Deleted, UserDeleted DEF AboutAccounts
  <2>3. Here' = Here \ {u}
    BY <2>2 DEF Here
  <2>4. /\ team' = {t \in team : u \notin t.pair} /\ DOMAIN match' = DOMAIN match
        /\ \A m \in DOMAIN match :
             /\ match'[m].mode = match[m].mode /\ match'[m].st = match[m].st
             /\ DOMAIN match'[m].sides = DOMAIN match[m].sides
             /\ match[m].mode = "1x1" => \A i \in SidesOf(m) :
                  /\ match'[m].sides[i].who = match[m].sides[i].who \ {u}
                  /\ match'[m].sides[i].called = match[m].sides[i].called
    <3>1. CascadeTeams(u) /\ u \in User /\ Tables
      BY <2>0, <2>2
    <3> QED BY <3>1, SinglesCleared
  <2>5. TeamsHere'
    BY <2>3, <2>4 DEF Kept, TeamsHere
  <2>6. SinglesStay'
    <3> SUFFICES ASSUME NEW m \in Matches', NEW i \in SidesOf(m)', match'[m].mode = "1x1"
                 PROVE  /\ match'[m].sides[i].who = DOMAIN match'[m].sides[i].called
                        /\ match'[m].sides[i].who \subseteq Here'
                        /\ \A q \in Request : req'[q].at = "clear" => req'[q].user \notin match'[m].sides[i].who
      BY DEF SinglesStay, At
    <3>1. /\ m \in Matches /\ match[m].mode = "1x1" /\ i \in SidesOf(m)
          /\ match'[m].sides[i].who = match[m].sides[i].who \ {u}
          /\ match'[m].sides[i].called = match[m].sides[i].called
      <4>1. m \in DOMAIN match /\ m \in Matches /\ match[m].mode = "1x1"
        BY <2>4 DEF Matches
      <4>2. i \in SidesOf(m)
        BY <2>4, <4>1 DEF SidesOf
      <4> QED BY <2>4, <4>1, <4>2
    <3>2. /\ match[m].sides[i].who = DOMAIN match[m].sides[i].called /\ match[m].sides[i].who \subseteq Here
          /\ \A q \in Request : req[q].at = "clear" => req[q].user \notin match[m].sides[i].who
      BY <3>1 DEF Kept, SinglesStay, At
    <3>3. u \notin match[m].sides[i].who
      BY <2>1, <2>2, <3>2 DEF At
    <3>4. \A q \in Request : req'[q].at = "clear" => q # p /\ req'[q] = req[q]
      BY <2>2, BlankFacts DEF Others
    <3> QED BY <2>3, <3>1, <3>2, <3>3, <3>4
  <2> QED BY <2>5, <2>6 DEF Kept
<1>8. CASE Start
  <2>0. Boot /\ UNCHANGED teamVars /\ Tables
    BY <1>8 DEF Start, Footing
  <2>1. /\ \A p \in Request : req'[p] = Blank
        /\ \A v \in Here : account'[v].st = "here" /\ account'[v].name = account[v].name
    BY <2>0, BootFacts
  <2>2. HereKept
    BY <2>1 DEF HereKept, Here
  <2> QED BY <2>0, <2>1, <2>2, KeptStill, BlankFacts
<1>9. UNCHANGED vars => UNCHANGED <<accountVars, teamVars>>
  BY DEF vars, accountVars, teamVars
<1> QED BY <1>1, <1>2, <1>3, <1>4, <1>5, <1>6, <1>7, <1>8, <1>9 DEF Next

LEMMA KeptFirst == ASSUME Init PROVE Kept
<1>1. team = load.teams /\ match = <<>> /\ load \in Loads /\ Here = DOMAIN load.first
  BY FirstAccounts DEF Init, TeamsInit
<1>2. Matches = {}
  BY <1>1 DEF Matches
<1>3. TeamsHere
  BY <1>1, TeamsAssumption DEF TeamsHere
<1> QED BY <1>2, <1>3 DEF Kept, SinglesStay

-------------------------------------------------------------------------------
(* Every file is somebody's.                                               *)

\* Rows and jobs that go on, files that stay.
LEMMA ClipsStill ==
  ASSUME ClipsFiled, disk \subseteq disk',
         \A c \in Clip : \/ clip'[c] = clip[c] /\ job'[c] = job[c]
                         \/ clip'[c].st = "gone"
                         \/ /\ clip[c].st # "gone"
                            /\ clip'[c].path \/ job'[c] = "fetched" =>
                                 \/ c \in Shown /\ (clip[c].path \/ Working(c, "fetched"))
                                 \/ c \in disk',
         \A p \in Request : req'[p].at = "remove" =>
           \/ req'[p] = req[p]
           \/ req'[p].args[1] \notin Clip
           \/ clip'[req'[p].args[1]].st = "gone"
  PROVE  ClipsFiled'
<1>1. ASSUME NEW c \in Clip, clip'[c].st \notin {"none", "gone"}, clip'[c].path \/ job'[c] = "fetched"
      PROVE  c \in disk'
  <2>1. CASE clip'[c] = clip[c] /\ job'[c] = job[c]
    BY <1>1, <2>1 DEF ClipsFiled, Shown, Working
  <2>2. CASE c \in Shown /\ (clip[c].path \/ Working(c, "fetched"))
    BY <2>2 DEF ClipsFiled
  <2>3. CASE c \in disk'
    BY <2>3
  <2> QED BY <1>1, <2>1, <2>2, <2>3
<1>2. ASSUME NEW p \in Request, NEW c \in Clip, req'[p].at = "remove", req'[p].args[1] = c
      PROVE  clip'[c].st = "gone"
  <2>1. CASE req'[p] = req[p]
    <3>1. clip[c].st = "gone"
      BY <1>2, <2>1 DEF ClipsFiled, At
    <3> QED BY <3>1
  <2> QED BY <1>2, <2>1
<1> QED BY <1>1, <1>2 DEF ClipsFiled, Shown, Working, At

LEMMA OwnedStill ==
  ASSUME Owned, claim' \subseteq claim, disk \subseteq disk', \A p \in Request : Holds(p)' \subseteq Holds(p)
  PROVE  Owned'
<1>1. \A c \in claim' : c.shot \in disk'
  BY DEF Owned
<1>2. \A c, d \in claim' : c.shot = d.shot => c = d
  BY DEF Owned
<1>3. ASSUME NEW p \in Request, NEW s \in Holds(p)'
      PROVE  /\ s \in disk'
             /\ \A c \in claim' : c.shot # s
             /\ \A q \in Request \ {p} : s \notin Holds(q)'
  <2>1. s \in Holds(p)
    BY <1>3
  <2> QED BY <2>1 DEF Owned
<1> QED BY <1>1, <1>2, <1>3 DEF Owned

\* Steps that are no business of files, except that what was of somebody is gone.
LEMMA FiledElsewhere ==
  ASSUME Filed, UNCHANGED <<load, job, disk>>, claim' \subseteq claim,
         \A c \in Clip : clip'[c] = clip[c] \/ clip'[c].st = "gone",
         \A p \in Request : req'[p] = req[p] \/ req'[p].at \notin MediaAt
  PROVE  Filed'
<1>1. \A p \in Request : req'[p].at = "remove" => req'[p] = req[p]
  BY DEF MediaAt
<1>2. ClipsFiled'
  BY <1>1, ClipsStill DEF Filed
<1>3. \A p \in Request : Holds(p)' \subseteq Holds(p)
  BY DEF Holds, HoldsOf, MediaAt
<1>4. Owned => Owned'
  BY <1>3, OwnedStill
<1> QED BY <1>2, <1>4 DEF Filed, Kind

\* A file whose time has come is nobody else's.
LEMMA FiledRemoved ==
  ASSUME Tables, Filed, NEW p \in Request, RemoveFile(p)
  PROVE  Filed'
<1>1. /\ At(p, "remove") /\ Others(p) /\ req'[p] = Blank /\ disk' = disk \ {req[p].args[1]}
      /\ UNCHANGED <<clip, job, claim>> /\ load' = load
  BY FileRemoved DEF AboutMedia
<1> DEFINE f == req[p].args[1]
<1>2. ClipsFiled'
  <2>1. ASSUME NEW c \in Clip, clip[c].st \notin {"none", "gone"}, clip[c].path \/ job[c] = "fetched"
        PROVE  c \in disk \ {f}
    BY <1>1, <2>1 DEF Filed, ClipsFiled, Shown, Working
  <2>2. ASSUME NEW q \in Request, NEW c \in Clip, req'[q].at = "remove", req'[q].args[1] = c
        PROVE  clip[c].st = "gone"
    <3>1. req'[q] = req[q]
      BY <1>1, <2>2, BlankFacts DEF Others
    <3> QED BY <2>2, <3>1 DEF Filed, ClipsFiled, At
  <2> QED BY <1>1, <2>1, <2>2 DEF ClipsFiled, Shown, Working, At
<1>3. ASSUME Owned PROVE Owned'
  <2>1. f \in Shot => f \in Holds(p)
    BY <1>1 DEF Holds, HoldsOf, At
  <2>2. \A q \in Request : (req'[q] = req[q] /\ q # p) \/ HoldsOf(req'[q]) = {}
    BY <1>1, BlankFacts DEF Others, HoldsOf
  <2>3. \A c \in claim : c.shot \in disk \ {f}
    <3> TAKE c \in claim
    <3>1. c.shot \in Shot
      BY MediaHeld
    <3> QED BY <1>3, <2>1, <3>1 DEF Owned
  <2>4. ASSUME NEW q \in Request, NEW s \in Holds(q)'
        PROVE  /\ s \in disk \ {f} /\ \A c \in claim : c.shot # s
               /\ \A r \in Request \ {q} : s \notin Holds(r)'
    <3>1. s \in Holds(q) /\ q # p
      BY <2>2, <2>4 DEF Holds
    <3>2. /\ s \in disk /\ (\A c \in claim : c.shot # s)
          /\ \A r \in Request \ {q} : s \notin Holds(r)
      BY <1>3, <3>1 DEF Owned
    <3>3. s \in Shot
      BY <3>1 DEF Holds, HoldsOf
    <3>4. s # f
      BY <2>1, <3>1, <3>2, <3>3
    <3>5. \A r \in Request \ {q} : s \notin Holds(r)'
      BY <2>2, <3>2 DEF Holds
    <3> QED BY <3>2, <3>4, <3>5
  <2> QED BY <1>1, <1>3, <2>3, <2>4 DEF Owned
<1> QED BY <1>1, <1>2, <1>3 DEF Filed, Kind

\* A screenshot is new when it comes.
LEMMA FiledSent ==
  ASSUME Tables, Filed, NEW p \in Server, NEW u \in Here, NEW k \in StatKind, NEW s \in Shot,
         HandleSubmitStatClaim(p, u, k, s)
  PROVE  Filed'
<1>1. /\ p \in Request /\ Others(p) /\ req'[p].at = "pending" /\ req'[p].args[1] = s
      /\ s \notin disk /\ (\A c \in claim : c.shot # s)
      /\ disk' = disk \cup {s} /\ UNCHANGED <<clip, job, claim>> /\ load' = load
  BY ClaimSent DEF AboutMedia
<1>2. ClipsFiled'
  <2>1. \A q \in Request : req'[q].at = "remove" => req'[q] = req[q]
    BY <1>1 DEF Others
  <2> QED BY <1>1, <2>1, ClipsStill DEF Filed
<1>3. ASSUME Owned PROVE Owned'
  <2>1. HoldsOf(req'[p]) = {s}
    BY <1>1 DEF HoldsOf
  <2>2. \A q \in Request \ {p} : req'[q] = req[q]
    BY <1>1 DEF Others
  <2>3. \A q \in Request : s \notin Holds(q)
    BY <1>1, <1>3 DEF Owned
  <2>4. ASSUME NEW q \in Request, NEW t \in Holds(q)'
        PROVE  /\ t \in disk' /\ \A c \in claim : c.shot # t
               /\ \A r \in Request \ {q} : t \notin Holds(r)'
    <3>1. CASE q = p
      <4>1. t = s
        BY <2>1, <2>4, <3>1 DEF Holds
      <4> QED BY <1>1, <2>2, <2>3, <3>1, <4>1 DEF Holds
    <3>2. CASE q # p
      <4>1. t \in Holds(q)
        BY <2>2, <2>4, <3>2 DEF Holds
      <4>2. /\ t \in disk /\ (\A c \in claim : c.shot # t)
            /\ \A r \in Request \ {q} : t \notin Holds(r)
        BY <1>3, <4>1 DEF Owned
      <4>3. \A r \in Request \ {q} : t \notin Holds(r)'
        <5> TAKE r \in Request \ {q}
        <5>1. CASE r = p
          BY <1>1, <2>1, <4>2, <5>1 DEF Holds
        <5>2. CASE r # p
          BY <2>2, <4>2, <5>2 DEF Holds
        <5> QED BY <5>1, <5>2
      <4> QED BY <1>1, <4>2, <4>3
    <3> QED BY <3>1, <3>2
  <2> QED BY <1>1, <1>3, <2>4 DEF Owned
<1> QED BY <1>1, <1>2, <1>3 DEF Filed, Kind

\* The screenshots of the claims that go are left to the request that replaces them.
LEMMA FiledWritten ==
  ASSUME Tables, Filed, NEW p \in Request, At(p, "submit"), SubmitStatClaim(p)
  PROVE  Filed'
<1> DEFINE s == req[p].args[1]
<1>1. /\ Others(p) /\ load' = load /\ UNCHANGED <<clip, job, disk>> /\ s \in Shot
      /\ req'[p].args[1] = s
      /\ \/ /\ claim' = (claim \ OldClaims(p)) \cup {NewClaim(p)}
            /\ req'[p].at = "reload"
            /\ \/ req'[p].args[2] = s
               \/ \E c \in OldClaims(p) : req'[p].args[2] = c.shot
         \/ claim' = claim /\ req'[p].at = "remove"
  BY ClaimWritten DEF AboutMedia
<1>2. ClipsFiled'
  <2>1. \A q \in Request : req'[q].at = "remove" => req'[q] = req[q] \/ req'[q].args[1] \notin Clip
    BY <1>1, MediaAssumption DEF Others
  <2> QED BY <1>1, <2>1, ClipsStill DEF Filed
<1>3. ASSUME Owned PROVE Owned'
  <2>1. Holds(p) = {s}
    BY <1>1 DEF Holds, HoldsOf, At
  <2>2. s \in disk /\ (\A c \in claim : c.shot # s) /\ \A q \in Request \ {p} : s \notin Holds(q)
    BY <1>3, <2>1 DEF Owned
  <2>3. \A q \in Request \ {p} : Holds(q)' = Holds(q)
    BY <1>1 DEF Holds, Others
  <2>4. CASE claim' = claim /\ req'[p].at = "remove"
    <3>1. Holds(p)' = {s}
      BY <1>1, <2>4 DEF Holds, HoldsOf
    <3> QED BY <1>1, <1>3, <2>1, <2>3, <2>4, <3>1, OwnedStill
  <2>5. CASE /\ claim' = (claim \ OldClaims(p)) \cup {NewClaim(p)}
             /\ req'[p].at = "reload"
             /\ \/ req'[p].args[2] = s
                \/ \E c \in OldClaims(p) : req'[p].args[2] = c.shot
    <3>1. NewClaim(p).shot = s
      BY DEF NewClaim
    <3>2. \A c \in claim' : (c \in claim /\ c \notin OldClaims(p)) \/ (c.shot = s /\ c = NewClaim(p))
      <4>1. \A c \in claim' : (c \in claim /\ c \notin OldClaims(p)) \/ c = NewClaim(p)
        BY <2>5
      <4>2. ASSUME NEW c \in claim' PROVE (c \in claim /\ c \notin OldClaims(p)) \/ (c.shot = s /\ c = NewClaim(p))
        <5>1. (c \in claim /\ c \notin OldClaims(p)) \/ c = NewClaim(p)
          BY <4>1
        <5> QED BY <3>1, <5>1
      <4> QED BY <4>2
    <3>3. \A c \in claim' : c.shot \in disk'
      BY <1>1, <1>3, <2>2, <3>2 DEF Owned
    <3>4. ASSUME NEW c \in claim', NEW d \in claim', c.shot = d.shot PROVE c = d
      <4>1. CASE c = NewClaim(p)
        BY <2>2, <3>1, <3>2, <3>4, <4>1
      <4>2. CASE c \in claim /\ d \in claim
        BY <1>3, <3>4, <4>2 DEF Owned
      <4>3. CASE d = NewClaim(p)
        BY <2>2, <3>1, <3>2, <3>4, <4>3
      <4> QED BY <3>2, <4>1, <4>2, <4>3
    <3>5. \A t \in Holds(p)' : t # s /\ \E c \in OldClaims(p) : c.shot = t
      BY <1>1, <2>5 DEF Holds, HoldsOf
    <3>6. OldClaims(p) \subseteq claim
      BY DEF OldClaims
    <3>7. ASSUME NEW q \in Request, NEW t \in Holds(q)'
          PROVE  /\ t \in disk' /\ \A c \in claim' : c.shot # t
                 /\ \A r \in Request \ {q} : t \notin Holds(r)'
      <4>1. CASE q = p
        <5>1. PICK o \in OldClaims(p) : o.shot = t
          BY <3>5, <3>7, <4>1
        <5>2. t # s /\ o \in claim /\ t \in disk /\ \A r \in Request : t \notin Holds(r)
          <6>1. t # s
            BY <3>5, <3>7, <4>1
          <6>2. o \in claim
            BY <3>6
          <6> QED BY <1>3, <5>1, <6>1, <6>2 DEF Owned
        <5>3. \A c \in claim' : c.shot # t
          BY <1>3, <3>2, <5>1, <5>2 DEF Owned
        <5> QED BY <1>1, <2>3, <4>1, <5>2, <5>3
      <4>2. CASE q # p
        <5>1. t \in Holds(q)
          BY <2>3, <3>7, <4>2
        <5>2. /\ t \in disk /\ (\A c \in claim : c.shot # t)
              /\ \A r \in Request \ {q} : t \notin Holds(r)
          BY <1>3, <5>1 DEF Owned
        <5>3. t # s
          BY <2>1, <4>2, <5>2
        <5>4. t \notin Holds(p)'
          BY <3>5, <3>6, <5>2
        <5>5. \A c \in claim' : c.shot # t
          BY <3>2, <5>2, <5>3
        <5> QED BY <1>1, <2>3, <5>2, <5>4, <5>5
      <4> QED BY <4>1, <4>2
    <3> QED BY <3>3, <3>4, <3>7 DEF Owned
  <2> QED BY <1>1, <2>4, <2>5
<1> QED BY <1>1, <1>2, <1>3 DEF Filed, Kind

\* A decision rewrites the row of the claim under its screenshot.
LEMMA FiledDecided ==
  ASSUME Tables, Filed, NEW p \in Request, DecideStatClaim(p)
  PROVE  Filed'
<1>1. /\ Others(p) /\ load' = load /\ UNCHANGED <<clip, job, disk>> /\ req'[p] = Blank
  BY ClaimDecided DEF AboutMedia
<1>2. \A d \in claim' : \E c \in claim :
        /\ d.shot = c.shot
        /\ d = IF c.shot = req[p].args[1] THEN [c EXCEPT !.st = req[p].name] ELSE c
  BY ClaimDecided
<1>3. ClipsFiled'
  <2>1. \A q \in Request : req'[q].at = "remove" => req'[q] = req[q]
    BY <1>1, BlankFacts DEF Others
  <2> QED BY <1>1, <2>1, ClipsStill DEF Filed
<1>4. ASSUME Owned PROVE Owned'
  <2>1. \A q \in Request : HoldsOf(req'[q]) \subseteq Holds(q)
    BY <1>1, BlankFacts DEF Others, Holds, HoldsOf
  <2>2. \A c \in claim' : c.shot \in disk'
    BY <1>1, <1>2, <1>4 DEF Owned
  <2>3. ASSUME NEW c \in claim', NEW d \in claim', c.shot = d.shot PROVE c = d
    <3>1. PICK a \in claim : /\ c.shot = a.shot
                             /\ c = IF a.shot = req[p].args[1] THEN [a EXCEPT !.st = req[p].name] ELSE a
      BY <1>2
    <3>2. PICK b \in claim : /\ d.shot = b.shot
                             /\ d = IF b.shot = req[p].args[1] THEN [b EXCEPT !.st = req[p].name] ELSE b
      BY <1>2
    <3>3. a = b
      BY <1>4, <2>3, <3>1, <3>2 DEF Owned
    <3> QED BY <3>1, <3>2, <3>3
  <2>4. ASSUME NEW q \in Request, NEW s \in Holds(q)'
        PROVE  /\ s \in disk' /\ \A c \in claim' : c.shot # s
               /\ \A r \in Request \ {q} : s \notin Holds(r)'
    <3>1. s \in Holds(q)
      BY <2>1, <2>4 DEF Holds
    <3>2. /\ s \in disk /\ (\A c \in claim : c.shot # s)
          /\ \A r \in Request \ {q} : s \notin Holds(r)
      BY <1>4, <3>1 DEF Owned
    <3>3. \A c \in claim' : c.shot # s
      BY <1>2, <3>2
    <3>4. \A r \in Request \ {q} : s \notin Holds(r)'
      BY <2>1, <3>2 DEF Holds
    <3> QED BY <1>1, <3>2, <3>3, <3>4
  <2> QED BY <2>2, <2>3, <2>4 DEF Owned
<1> QED BY <1>1, <1>3, <1>4 DEF Filed, Kind

\* A job writes its own file only.
LEMMA FiledWorked ==
  ASSUME Tables, Filed, NEW c \in Clip, JobDone(c), req' = req, load' = load
  PROVE  Filed'
<1>1. ClipsFiled'
  <2>1. \A d \in Clip \ {c} : clip'[d] = clip[d] /\ job'[d] = job[d]
    BY DEF JobDone
  <2>2. disk \subseteq disk'
    BY DEF JobDone
  <2>3. \/ clip'[c].st = "gone"
        \/ /\ clip[c].st # "gone"
           /\ clip'[c].path \/ job'[c] = "fetched" =>
                \/ c \in Shown /\ (clip[c].path \/ Working(c, "fetched"))
                \/ c \in disk'
        \/ c \notin Shown /\ clip'[c] = clip[c]
    BY DEF JobDone, Shown
  <2>4. CASE c \notin Shown /\ clip'[c] = clip[c]
    <3>1. ASSUME NEW d \in Clip, clip'[d].st \notin {"none", "gone"}, clip'[d].path \/ job'[d] = "fetched"
          PROVE  d \in disk'
      BY <2>1, <2>2, <2>4, <3>1 DEF Filed, ClipsFiled, Shown, Working
    <3>2. \A q \in Request, d \in Clip : req[q].at = "remove" /\ req[q].args[1] = d => clip'[d].st = "gone"
      BY <2>1, <2>4 DEF Filed, ClipsFiled, At
    <3> QED BY <3>1, <3>2 DEF ClipsFiled, Shown, Working, At
  <2>5. CASE ~(c \notin Shown /\ clip'[c] = clip[c])
    BY <2>1, <2>2, <2>3, <2>5, ClipsStill DEF Filed
  <2> QED BY <2>4, <2>5
<1>2. \A q \in Request : Holds(q)' \subseteq Holds(q)
  BY DEF Holds
<1>3. ASSUME Owned PROVE Owned'
  BY <1>2, <1>3, OwnedStill DEF JobDone
<1> QED BY <1>1, <1>3 DEF Filed, Kind

LEMMA FiledMedia ==
  ASSUME Tables, Filed, MediaStep
  PROVE  Filed'
<1>1. ASSUME NEW p \in Request, RemoveFile(p) PROVE Filed'
  BY <1>1, FiledRemoved
<1>2. ASSUME NEW p \in Request, SubmitStatClaim(p) PROVE Filed'
  <2>1. CASE At(p, "pending")
    <3>1. /\ Others(p) /\ load' = load /\ UNCHANGED <<clip, job, claim, disk>> /\ req'[p].at = "submit"
          /\ req'[p].args[1] = req[p].args[1]
      BY <1>2, <2>1, ClaimLookedUp DEF AboutMedia, mediaVars
    <3>2. \A q \in Request : req'[q].at = "remove" => req'[q] = req[q]
      BY <3>1 DEF Others
    <3>3. ClipsFiled'
      BY <3>1, <3>2, ClipsStill DEF Filed
    <3>4. \A q \in Request : HoldsOf(req'[q]) \subseteq HoldsOf(req[q])
      <4> TAKE q \in Request
      <4>1. CASE q = p
        BY <2>1, <3>1, <4>1 DEF HoldsOf, At
      <4>2. CASE q # p
        BY <3>1, <4>2 DEF Others
      <4> QED BY <4>1, <4>2
    <3>5. \A q \in Request : Holds(q)' \subseteq Holds(q)
      BY <3>4 DEF Holds
    <3>6. Owned => Owned'
      BY <3>1, <3>5, OwnedStill
    <3> QED BY <3>1, <3>3, <3>6 DEF Filed, Kind
  <2>2. CASE At(p, "submit")
    BY <1>2, <2>2, FiledWritten
  <2> QED BY <1>2, <2>1, <2>2 DEF SubmitStatClaim
<1>3. ASSUME NEW p \in Request, Reload(p) PROVE Filed'
  <2>1. /\ At(p, "reload") /\ Others(p) /\ load' = load /\ UNCHANGED <<clip, job, claim, disk>>
        /\ req[p].args[1] \in Shot /\ req[p].args[2] \in Shot
        /\ \/ req'[p] = Blank
           \/ /\ req'[p].at = "remove"
              /\ \/ req'[p].args[1] = req[p].args[2] /\ req[p].args[1] # req[p].args[2]
                 \/ req'[p].args[1] = req[p].args[1] /\ Kind("leave")
    BY <1>3, ClaimReloaded DEF AboutMedia, mediaVars
  <2>2. \A q \in Request : req'[q].at = "remove" => req'[q] = req[q] \/ req'[q].args[1] \notin Clip
    BY <2>1, BlankFacts, MediaAssumption DEF Others
  <2>3. ClipsFiled'
    BY <2>1, <2>2, ClipsStill DEF Filed
  <2>4. ASSUME ~Kind("leave"), NEW q \in Request PROVE HoldsOf(req'[q]) \subseteq HoldsOf(req[q])
    <3>1. CASE q = p
      BY <2>1, <2>4, <3>1, BlankFacts DEF HoldsOf, At
    <3>2. CASE q # p
      BY <2>1, <3>2 DEF Others
    <3> QED BY <3>1, <3>2
  <2>5. ~Kind("leave") => \A q \in Request : Holds(q)' \subseteq Holds(q)
    BY <2>4 DEF Holds
  <2>6. ~Kind("leave") /\ Owned => Owned'
    BY <2>1, <2>5, OwnedStill
  <2> QED BY <2>1, <2>3, <2>6 DEF Filed, Kind
<1>4. ASSUME NEW p \in Request, DecideStatClaim(p) PROVE Filed'
  BY <1>4, FiledDecided
<1>5. ASSUME NEW p \in Server, NEW u \in Here, NEW c \in Clip,
             HandleCreateHighlight(p, u, c) \/ CreateHighlightUpload(p, u, c)
      PROVE  Filed'
  <2>1. \E kind \in {"clip", "upload"} : CreateHighlight(p, kind, u, c)
    BY <1>5 DEF HandleCreateHighlight, CreateHighlightUpload
  <2>2. PICK kind \in {"clip", "upload"} : CreateHighlight(p, kind, u, c)
    BY <2>1
  <2>3. /\ p \in Request /\ Others(p) /\ load' = load /\ req'[p] = Blank
        /\ clip[c].st = "none" /\ ~clip'[c].path
        /\ \A d \in Clip \ {c} : clip'[d] = clip[d]
        /\ job'[c] = kind /\ \A d \in Clip \ {c} : job'[d] = job[d]
        /\ UNCHANGED <<claim, disk>>
    BY <2>2, ClipMade DEF AboutMedia
  <2>4. \A q \in Request : req'[q].at = "remove" => req'[q] = req[q]
    BY <2>3, BlankFacts DEF Others
  <2>5. ClipsFiled'
    BY <2>3, <2>4, ClipsStill DEF Filed
  <2>6. \A q \in Request : HoldsOf(req'[q]) \subseteq HoldsOf(req[q])
    BY <2>3, BlankFacts DEF HoldsOf, Others
  <2>7. Owned => Owned'
    BY <2>3, <2>6, OwnedStill DEF Holds
  <2> QED BY <2>3, <2>5, <2>7 DEF Filed, Kind
<1>6. ASSUME NEW p \in Server, NEW u \in Here, NEW k \in StatKind, NEW s \in Shot, HandleSubmitStatClaim(p, u, k, s)
      PROVE  Filed'
  BY <1>6, FiledSent
<1>7. ASSUME NEW p \in Server, NEW u \in Here, NEW c \in claim, NEW st \in {"approved", "rejected"},
             HandleDecideStatClaim(p, u, c, st)
      PROVE  Filed'
  <2>1. p \in Request /\ Others(p) /\ load' = load /\ UNCHANGED <<clip, job, claim, disk>> /\ req'[p].at = "decide"
    BY <1>7, DecisionSent DEF AboutMedia, mediaVars, Decided
  <2>2. \A q \in Request : req'[q].at = "remove" => req'[q] = req[q]
    BY <2>1 DEF Others
  <2>3. ClipsFiled'
    BY <2>1, <2>2, ClipsStill DEF Filed
  <2>4. \A q \in Request : HoldsOf(req'[q]) \subseteq HoldsOf(req[q])
    BY <2>1 DEF HoldsOf, Others
  <2>5. Owned => Owned'
    BY <2>1, <2>4, OwnedStill DEF Holds
  <2> QED BY <2>1, <2>3, <2>5 DEF Filed, Kind
<1>8. ASSUME NEW p \in Server, NEW c \in Shown, NEW st \in {"approved", "rejected"}, HandleModerateHighlight(p, c, st)
      PROVE  Filed'
  <2>1. /\ p \in Request /\ Others(p) /\ load' = load /\ req'[p] = Blank
        /\ c \in Clip /\ clip'[c].path = clip[c].path
        /\ \A d \in Clip \ {c} : clip'[d] = clip[d]
        /\ UNCHANGED <<job, claim, disk>>
    BY <1>8, ClipModerated DEF AboutMedia, Decided
  <2>2. \A q \in Request : req'[q].at = "remove" => req'[q] = req[q]
    BY <2>1, BlankFacts DEF Others
  <2>3. ClipsFiled'
    BY <2>1, <2>2, ClipsStill DEF Filed, Shown, Working
  <2>4. \A q \in Request : HoldsOf(req'[q]) \subseteq HoldsOf(req[q])
    BY <2>1, BlankFacts DEF HoldsOf, Others
  <2>5. Owned => Owned'
    BY <2>1, <2>4, OwnedStill DEF Holds
  <2> QED BY <2>1, <2>3, <2>5 DEF Filed, Kind
<1>9. ASSUME NEW p \in Server, NEW c \in Shown, HandleDeleteHighlight(p, c) PROVE Filed'
  <2>1. /\ p \in Request /\ Others(p) /\ load' = load /\ c \in Clip
        /\ \/ req'[p] = Blank
           \/ req'[p].at = "remove" /\ req'[p].args[1] = c
        /\ clip'[c].st = "gone"
        /\ \A d \in Clip \ {c} : clip'[d] = clip[d]
        /\ UNCHANGED <<job, claim, disk>>
    BY <1>9, ClipDropped DEF AboutMedia
  <2>2. \A q \in Request : req'[q].at = "remove" => req'[q] = req[q] \/ clip'[req'[q].args[1]].st = "gone"
    BY <2>1, BlankFacts DEF Others
  <2>3. ClipsFiled'
    BY <2>1, <2>2, ClipsStill DEF Filed
  <2>4. \A q \in Request : HoldsOf(req'[q]) \subseteq HoldsOf(req[q])
    <3>1. c \notin Shot
      BY <2>1, MediaAssumption
    <3> QED BY <2>1, <3>1, BlankFacts DEF HoldsOf, Others
  <2>5. Owned => Owned'
    BY <2>1, <2>4, OwnedStill DEF Holds
  <2> QED BY <2>1, <2>3, <2>5 DEF Filed, Kind
<1> QED BY <1>1, <1>2, <1>3, <1>4, <1>5, <1>6, <1>7, <1>8, <1>9 DEF MediaStep

LEMMA FiledKept ==
  ASSUME Footing, Filed, [Next]_vars
  PROVE  Filed'
<1>0. Tables
  BY DEF Footing
<1>1. CASE AccountsStep /\ UNCHANGED mediaVars
  <2>1. load' = load /\ (req' = req \/ \E p \in Request : AboutAccounts(p))
    BY <1>1, <1>0, AccountsPlace DEF Footing, Apart
  <2>2. \A p \in Request : req'[p] = req[p] \/ req'[p].at \notin MediaAt
    BY <2>1 DEF AboutAccounts, AccountsAt, MediaAt, Others
  <2> QED BY <1>1, <2>1, <2>2, FiledElsewhere DEF mediaVars
<1>2. CASE TeamsStep /\ UNCHANGED mediaVars
  <2>1. load' = load /\ \E p \in Request : AboutTeams(p)
    BY <1>2, <1>0, TeamsPlace
  <2>2. \A p \in Request : req'[p] = req[p] \/ req'[p].at \notin MediaAt
    BY <2>1 DEF AboutTeams, TeamsAt, MediaAt, Others
  <2> QED BY <1>2, <2>1, <2>2, FiledElsewhere DEF mediaVars
<1>3. CASE MediaStep
  BY <1>0, <1>3, FiledMedia
<1>4. CASE Jobs
  <2>1. req' = req /\ load' = load /\ \E c \in Clip : JobStep(c) \/ ClientGone(c)
    BY <1>4 DEF Jobs
  <2>2. PICK c \in Clip : JobStep(c) \/ ClientGone(c)
    BY <2>1
  <2>3. JobDone(c)
    BY <1>0, <2>2, JobWorks
  <2> QED BY <1>0, <2>1, <2>3, FiledWorked
<1>5. ASSUME NEW p \in Request, RenameEverywhere(p), UNCHANGED mediaVars PROVE Filed'
  <2>1. AboutAccounts(p)
    BY <1>0, <1>5, UserRenamed DEF RenameEverywhere
  <2>2. load' = load /\ \A q \in Request : req'[q] = req[q] \/ req'[q].at \notin MediaAt
    BY <2>1 DEF AboutAccounts, AccountsAt, MediaAt, Others
  <2> QED BY <1>5, <2>2, FiledElsewhere DEF mediaVars
<1>6. ASSUME NEW p \in Request, CheckEmpty(p) PROVE Filed'
  <2>1. /\ Others(p) /\ load' = load /\ UNCHANGED mediaVars
        /\ req'[p].at = "clear" \/ req'[p] = Blank
    BY <1>0, <1>6, Checked
  <2>2. \A q \in Request : req'[q] = req[q] \/ req'[q].at \notin MediaAt
    BY <2>1, BlankFacts DEF MediaAt, Others
  <2> QED BY <2>1, <2>2, FiledElsewhere DEF mediaVars
<1>7. ASSUME NEW p \in Request, DeleteEmptyUser(p) PROVE Filed'
  <2>1. DeleteUser(p) /\ CascadeMedia(req[p].user)
    BY <1>7 DEF DeleteEmptyUser
  <2>2. AboutAccounts(p) /\ req[p].user \in User
    BY <1>0, <2>1, UserDeleted
  <2>3. /\ claim' \subseteq claim /\ UNCHANGED <<job, disk>>
        /\ \A c \in Clip : clip'[c] = clip[c] \/ clip'[c].st = "gone"
    BY <1>0, <2>1, <2>2, MediaCleared
  <2>4. load' = load /\ \A q \in Request : req'[q] = req[q] \/ req'[q].at \notin MediaAt
    BY <2>2 DEF AboutAccounts, AccountsAt, MediaAt, Others
  <2> QED BY <2>3, <2>4, FiledElsewhere
<1>8. CASE Start
  <2>1. (\A p \in Request : req'[p] = Blank) /\ load' = load
    BY <1>0, <1>8, BootFacts DEF Start
  <2>2. UNCHANGED <<clip, claim, disk>> /\ \A c \in Clip : job'[c] # "fetched"
    BY <1>0, <1>8, FilesTaken DEF Start, Working
  <2>3. ClipsFiled'
    <3>1. \A c \in Clip : \/ clip'[c].st = "gone"
                          \/ /\ clip[c].st # "gone"
                             /\ clip'[c].path \/ job'[c] = "fetched" => c \in disk'
                          \/ clip'[c] = clip[c] /\ clip[c].st = "none"
      BY <2>2 DEF Filed, ClipsFiled, Shown
    <3>2. \A c \in Clip : clip'[c].st \notin {"none", "gone"} /\ (clip'[c].path \/ job'[c] = "fetched") => c \in disk'
      BY <2>2, <3>1
    <3> QED BY <2>1, <3>2, BlankFacts DEF ClipsFiled, Shown, Working, At
  <2>4. \A q \in Request : HoldsOf(req'[q]) \subseteq HoldsOf(req[q])
    BY <2>1, BlankFacts DEF HoldsOf
  <2>5. Owned => Owned'
    BY <2>2, <2>4, OwnedStill DEF Holds
  <2> QED BY <2>1, <2>3, <2>5 DEF Filed, Kind
<1>9. CASE UNCHANGED vars
  <2>1. UNCHANGED <<load, clip, job, claim, disk, req>>
    BY <1>9 DEF vars
  <2> QED BY <2>1, FiledElsewhere
<1> QED BY <1>1, <1>2, <1>3, <1>4, <1>5, <1>6, <1>7, <1>8, <1>9 DEF Next

LEMMA FiledFirst == Init => Filed
<1> SUFFICES ASSUME Init PROVE Filed
  OBVIOUS
<1>1. /\ \A c \in Clip : clip[c] = NoRow
      /\ claim = {} /\ \A p \in Request : req[p] = Blank
  BY DEF Init, MediaInit
<1>2. NoRow.st = "none"
  BY DEF NoRow
<1>3. \A p \in Request : Holds(p) = {}
  BY <1>1, BlankFacts DEF Holds, HoldsOf
<1> QED BY <1>1, <1>2, <1>3, BlankFacts DEF Filed, ClipsFiled, Owned, Shown, At

-------------------------------------------------------------------------------
(* One request at a time: what it saw of accounts, sessions and links.     *)

Lone(p) == \A q \in Request \ {p} : At(q, "idle")

LEMMA LoneFacts ==
  ASSUME Tables, Alone, OneServed, NEW p \in Serving
  PROVE  p \in Request /\ Lone(p) /\ (At(p, "idle") => \A q \in Request : At(q, "idle"))
<1>1. CASE p \in Server
  BY <1>1, ServerFacts DEF Tables, AccountTables, Lone
<1>2. CASE p \in Request \ Idle
  BY <1>2 DEF OneServed, Idle, Lone
<1> QED BY <1>1, <1>2 DEF Serving

LEMMA LoneStays ==
  ASSUME NEW p \in Request, Lone(p), Others(p)
  PROVE  OneServed' /\ \A q \in Request \ {p} : req'[q] = req[q] /\ req[q].at = "idle"
  BY DEF Lone, Others, OneServed, At

LEMMA IdleManaged == ASSUME NEW r, r.at \notin AccountsAt PROVE ManagedBy(r)
  BY DEF ManagedBy, AccountsAt

\* What a lone request leaves of accounts, with what it goes on to.
LEMMA ManagedStill ==
  ASSUME Tables, Alone, ManagedAlone, load' = load, NEW p \in Request, Lone(p), Others(p), ~At(p, "spent"),
         UNCHANGED <<account, session>>, link' \subseteq link, ManagedBy(req'[p])
  PROVE  ManagedAlone'
<1>1. OneServed' /\ \A q \in Request \ {p} : req'[q] = req[q] /\ req[q].at = "idle"
  BY LoneStays
<1>2. Organizers' = Organizers /\ Here' = Here
  BY DEF Organizers, Here
<1>3. SessionsOld'
  BY <1>2 DEF ManagedAlone, SessionsOld
<1>4. OneLink'
  BY DEF ManagedAlone, OneLink
<1>5. LinksOpen'
  <2>1. \A q \in Request : ~At(q, "spent")
    BY <1>1 DEF At
  <2>2. ~Kind("boot") => \A l \in link : ~account[l.user].pass
    BY <2>1 DEF ManagedAlone, LinksOpen
  <2> QED BY <2>2 DEF LinksOpen, Kind
<1>6. ASSUME NEW q \in Request PROVE ManagedBy(req[q])'
  <2>1. CASE q = p
    BY <1>2, <2>1 DEF ManagedBy, LinksOf
  <2>2. CASE q # p
    BY <1>1, <2>2 DEF ManagedBy
  <2> QED BY <2>1, <2>2
<1> QED BY <1>1, <1>2, <1>3, <1>4, <1>5, <1>6 DEF ManagedAlone

\* A request that comes changes nothing but the time from which sessions count, if that.
LEMMA ManagedArrives ==
  ASSUME Tables, Alone, ManagedAlone, \A s \in session : s.iat <= now, AccountsArrive
  PROVE  ManagedAlone' /\ UNCHANGED <<session, now>>
<1>1. PICK p \in Server :
    \/ Kind("signup") /\ \E u \in User, n \in Name : HandleSignup(p, u, n)
    \/ Kind("placeholder") /\ \E u \in User, n \in Name : HandleCreatePlaceholder(p, u, n)
    \/ Kind("login")  /\ \E n \in Name : HandleLogin(p, n)
    \/ Kind("logout") /\ \E u \in Here : HandleLogout(p, u)
    \/ Kind("claim")  /\ \E l \in link : HandleClaimInfo(p, l) \/ HandleClaim(p, l)
    \/ \E by \in Here, u \in Here :
         \/ Kind("rename") /\ \E n \in Name : HandleRenameUser(p, by, u, n)
         \/ Kind("role")   /\ \E r \in {Player, Moderator, Superadmin} : HandleSetUserRole(p, by, u, r)
         \/ Kind("link")   /\ \E again \in BOOLEAN : HandleCreateClaimLink(p, by, u, again)
         \/ Kind("reset")  /\ HandleResetPassword(p, by, u)
         \/ Kind("delete") /\ HandleDeleteUser(p, by, u)
  BY DEF AccountsArrive
<1>2. p \in Request /\ Lone(p) /\ \A q \in Request : At(q, "idle")
  BY LoneFacts, ServerFacts DEF Serving, ManagedAlone, Tables, AccountTables
<1>3. ~At(p, "spent")
  BY <1>2 DEF At
<1>4. ASSUME AboutAccounts(p), UNCHANGED <<account, session, now>>, link' \subseteq link, ManagedBy(req'[p])
      PROVE  ManagedAlone' /\ UNCHANGED <<session, now>>
  BY <1>2, <1>3, <1>4, ManagedStill DEF AboutAccounts
<1>5. ASSUME NEW u \in User, NEW n \in Name, HandleSignup(p, u, n) \/ HandleCreatePlaceholder(p, u, n)
      PROVE  ManagedAlone' /\ UNCHANGED <<session, now>>
  <2>1. AboutAccounts(p) /\ UNCHANGED accountVars /\ req'[p].at \in {"signup", "place"}
    BY <1>5, SignupArrives, PlaceArrives
  <2>2. ManagedBy(req'[p])
    BY <2>1 DEF ManagedBy
  <2> QED BY <1>4, <2>1, <2>2 DEF accountVars
<1>6. ASSUME NEW n \in Name, HandleLogin(p, n) PROVE ManagedAlone' /\ UNCHANGED <<session, now>>
  <2>1. AboutAccounts(p) /\ UNCHANGED accountVars /\ req'[p].at = "session" /\ account[req'[p].user].pass
    BY <1>6, LoginArrives DEF Comes
  <2>2. ManagedBy(req'[p])
    BY <2>1 DEF ManagedBy
  <2> QED BY <1>4, <2>1, <2>2 DEF accountVars
<1>7. ASSUME NEW l \in link, HandleClaimInfo(p, l) \/ HandleClaim(p, l)
      PROVE  ManagedAlone' /\ UNCHANGED <<session, now>>
  <2>1. /\ AboutAccounts(p) /\ link' \subseteq link /\ UNCHANGED <<account, session, now>>
        /\ req'[p].at \in {"idle", "claim"}
    BY <1>7, ClaimInfoArrives, ClaimArrives DEF Comes, accountVars
  <2>2. ManagedBy(req'[p])
    BY <2>1 DEF ManagedBy
  <2> QED BY <1>4, <2>1, <2>2
<1>8. ASSUME NEW by \in Here, NEW u \in Here, NEW n \in Name, HandleRenameUser(p, by, u, n)
      PROVE  ManagedAlone' /\ UNCHANGED <<session, now>>
  <2>1. AboutAccounts(p) /\ UNCHANGED accountVars /\ req'[p].at = "rename"
    BY <1>8, RenameArrives DEF Comes
  <2>2. ManagedBy(req'[p])
    BY <2>1 DEF ManagedBy
  <2> QED BY <1>4, <2>1, <2>2 DEF accountVars
<1>9. ASSUME NEW by \in Here, NEW u \in Here, NEW r \in Roles, HandleSetUserRole(p, by, u, r)
      PROVE  ManagedAlone' /\ UNCHANGED <<session, now>>
  <2>1. /\ AboutAccounts(p) /\ UNCHANGED accountVars /\ req'[p].user = u /\ req'[p].role = r
        /\ req'[p].at = IF account[u].role = Superadmin /\ r # Superadmin THEN "count" ELSE "role"
    BY <1>9, RoleArrives DEF Comes
  <2>2. account[u].role # Superadmin => \E v \in Organizers : v # u
    BY DEF ManagedAlone, Organizers
  <2>3. ManagedBy(req'[p])
    BY <2>1, <2>2 DEF ManagedBy
  <2> QED BY <1>4, <2>1, <2>3 DEF accountVars
<1>10. ASSUME NEW by \in Here, NEW u \in Here, NEW again \in BOOLEAN, HandleCreateClaimLink(p, by, u, again)
      PROVE  ManagedAlone' /\ UNCHANGED <<session, now>>
  <2>1. /\ AboutAccounts(p) /\ UNCHANGED accountVars /\ req'[p].user = u /\ ~account[u].pass
        /\ req'[p].at \in {"unlink", "existing"}
    BY <1>10, LinkArrives DEF Comes
  <2>2. ManagedBy(req'[p])
    BY <2>1 DEF ManagedBy
  <2> QED BY <1>4, <2>1, <2>2 DEF accountVars
<1>11. ASSUME NEW by \in Here, NEW u \in Here, HandleResetPassword(p, by, u)
      PROVE  ManagedAlone' /\ UNCHANGED <<session, now>>
  <2>1. AboutAccounts(p) /\ UNCHANGED accountVars /\ req'[p].at = "reset"
    BY <1>11, ResetArrives DEF Comes
  <2>2. ManagedBy(req'[p])
    BY <2>1 DEF ManagedBy
  <2> QED BY <1>4, <2>1, <2>2 DEF accountVars
<1>12. ASSUME NEW by \in Here, NEW u \in Here, HandleDeleteUser(p, by, u)
      PROVE  ManagedAlone' /\ UNCHANGED <<session, now>>
  <2>1. /\ AboutAccounts(p) /\ UNCHANGED accountVars /\ account[u].role # Superadmin
        /\ req'[p].at = "delete" /\ req'[p].user = u
    BY <1>12, DeleteArrives DEF Comes
  <2>2. ManagedBy(req'[p])
    BY <2>1 DEF ManagedBy
  <2> QED BY <1>4, <2>1, <2>2 DEF accountVars
<1>13. ASSUME NEW u \in Here, HandleLogout(p, u) PROVE ManagedAlone' /\ UNCHANGED <<session, now>>
  <2>1. /\ AboutAccounts(p) /\ req'[p] = Blank
        /\ account' = [account EXCEPT ![u].after = now] /\ UNCHANGED <<link, session, now>>
    BY <1>13, LogoutArrives DEF Comes
  <2>2. u \in User /\ account \in [User -> Row]
    BY DEF Here, Tables, AccountTables
  <2>3. \A v \in User : /\ account'[v].st = account[v].st /\ account'[v].role = account[v].role
                        /\ account'[v].pass = account[v].pass
                        /\ account'[v].after = account[v].after \/ account'[v].after = now
    BY <2>1, <2>2 DEF Row
  <2>4. OneServed' /\ \A q \in Request : req'[q].at = "idle" /\ req[q].at = "idle"
    BY <1>2, <2>1, LoneStays, BlankFacts DEF AboutAccounts, At
  <2>5. Here' = Here /\ Organizers' = Organizers
    BY <2>3 DEF Here, Organizers
  <2>6. SessionsOld'
    BY <2>1, <2>3, <2>5 DEF ManagedAlone, SessionsOld, Here
  <2>7. OneLink' /\ LinksOpen'
    <3>1. OneLink'
      BY <2>1 DEF ManagedAlone, OneLink
    <3>2. link \subseteq [user : User, token : Nat] /\ load' = load
      BY <2>1 DEF Tables, AccountTables, AboutAccounts
    <3>3. LinksOpen'
      BY <2>1, <2>3, <2>4, <3>2 DEF ManagedAlone, LinksOpen, At, Kind
    <3> QED BY <3>1, <3>3
  <2>8. \A q \in Request : ManagedBy(req[q])'
    BY <2>4 DEF ManagedBy
  <2> QED BY <2>1, <2>4, <2>5, <2>6, <2>7, <2>8 DEF ManagedAlone
<1> QED BY <1>1, <1>5, <1>6, <1>7, <1>8, <1>9, <1>10, <1>11, <1>12, <1>13 DEF Roles

\* Roles and passwords as they are, sessions and links too.
LEMMA ManagedSame ==
  ASSUME Tables, Alone, ManagedAlone, load' = load, OneServed', \A q \in Request : At(q, "spent") => req'[q] = req[q],
         UNCHANGED <<session, link>>, \A q \in Request : ManagedBy(req[q])',
         \A v \in User : /\ account'[v].st = account[v].st /\ account'[v].role = account[v].role
                         /\ account'[v].pass = account[v].pass /\ account'[v].after = account[v].after
  PROVE  ManagedAlone'
<1>1. Here' = Here /\ Organizers' = Organizers
  BY DEF Here, Organizers
<1>2. SessionsOld'
  BY <1>1 DEF ManagedAlone, SessionsOld, Here
<1>3. OneLink'
  BY DEF ManagedAlone, OneLink
<1>4. LinksOpen'
  <2>1. link \subseteq [user : User, token : Nat]
    BY DEF Tables, AccountTables
  <2> QED BY <2>1 DEF ManagedAlone, LinksOpen, At, Kind
<1> QED BY <1>1, <1>2, <1>3, <1>4 DEF ManagedAlone

LEMMA ManagedMade ==
  ASSUME Footing, Alone, ManagedAlone, \A s \in session : s.iat <= now, NEW p \in Request, Lone(p),
         AboutAccounts(p), req[p].at \in {"signup", "place"}, NEW u \in User, u = req[p].user,
         NEW n, NEW pass, NEW stub, Created(u, n, pass, stub), UNCHANGED <<link, session, now>>,
         \/ req'[p].at = "session" /\ req'[p].user = u /\ pass = TRUE
         \/ req'[p].at = "idle"
  PROVE  ManagedAlone'
<1>2. /\ \A v \in User \ {u} : account'[v] = account[v]
      /\ account'[u].st = "here" /\ account'[u].pass = pass /\ account'[u].after = now
  BY DEF Created
<1>3. u \notin Here
  BY DEF Footing, Apart, Here
<1>4. OneServed' /\ \A q \in Request \ {p} : req'[q] = req[q] /\ req[q].at = "idle"
  BY LoneStays DEF AboutAccounts
<1>5. Here' = Here \cup {u} /\ Organizers \subseteq Organizers'
  BY <1>2, <1>3 DEF Here, Organizers
<1>6. SessionsOld'
  <2>1. ASSUME NEW s \in session, s.user \in Here', ~account'[s.user].pass PROVE s.iat <= account'[s.user].after
    <3>1. CASE s.user = u
      BY <1>2, <3>1
    <3>2. CASE s.user # u
      <4>1. s.user \in Here /\ account'[s.user] = account[s.user]
        BY <1>2, <1>5, <2>1, <3>2 DEF Here
      <4> QED BY <2>1, <4>1 DEF ManagedAlone, SessionsOld
    <3> QED BY <3>1, <3>2
  <2> QED BY <2>1 DEF SessionsOld
<1>7. OneLink'
  BY DEF ManagedAlone, OneLink
<1>8. LinksOpen'
  <2>1. \A l \in link : l.user \in User /\ l.user # u
    BY <1>3 DEF Footing, Apart, Here
  <2>2. \A q \in Request : ~At(q, "spent")
    BY <1>4 DEF At
  <2>3. load' = load
    BY DEF AboutAccounts
  <2> QED BY <1>2, <2>1, <2>2, <2>3 DEF ManagedAlone, LinksOpen, Kind
<1>9. \A q \in Request : ManagedBy(req[q])'
  BY <1>2, <1>4 DEF ManagedBy
<1> QED BY <1>4, <1>5, <1>6, <1>7, <1>8, <1>9 DEF ManagedAlone

\* Another has the login: nothing is made.
LEMMA ManagedNotMade ==
  ASSUME Tables, Alone, ManagedAlone, NEW p \in Request, Lone(p), AboutAccounts(p),
         req[p].at \in {"signup", "place"}, account' = account, req'[p] = Blank, UNCHANGED <<link, session, now>>
  PROVE  ManagedAlone'
<1>1. ManagedBy(req'[p])
  BY BlankFacts DEF ManagedBy
<1> QED BY <1>1, ManagedStill DEF AboutAccounts, At

LEMMA ManagedCreated ==
  ASSUME Footing, Alone, ManagedAlone, \A s \in session : s.iat <= now, NEW p \in Request, Lone(p),
         CreateRegisteredUser(p) \/ CreatePlaceholderUser(p)
  PROVE  ManagedAlone' /\ UNCHANGED <<session, now>>
<1>1. PICK u \in User : u = req[p].user
  BY UserCreated, PlaceMade DEF Footing
<1>2. Tables /\ AboutAccounts(p) /\ UNCHANGED <<link, session, now>> /\ req[p].at \in {"signup", "place"}
  BY UserCreated, PlaceMade DEF Footing, At
<1>3. \/ Created(u, req[p].name, TRUE, NoName) /\ req'[p].at = "session" /\ req'[p].user = u
      \/ Created(u, req[p].name, FALSE, req[p].name) /\ req'[p].at = "idle"
      \/ account' = account /\ req'[p] = Blank
  <2>1. CASE CreateRegisteredUser(p)
    BY <1>1, <1>2, <2>1, UserCreated DEF Keeps
  <2>2. CASE CreatePlaceholderUser(p)
    BY <1>1, <1>2, <2>2, PlaceMade, BlankFacts
  <2> QED BY <2>1, <2>2
<1>4. CASE Created(u, req[p].name, TRUE, NoName) /\ req'[p].at = "session" /\ req'[p].user = u
  BY <1>1, <1>2, <1>4, ManagedMade
<1>5. CASE Created(u, req[p].name, FALSE, req[p].name) /\ req'[p].at = "idle"
  BY <1>1, <1>2, <1>5, ManagedMade
<1>6. CASE account' = account /\ req'[p] = Blank
  BY <1>2, <1>6, ManagedNotMade
<1> QED BY <1>2, <1>3, <1>4, <1>5, <1>6

LEMMA ManagedIssued ==
  ASSUME Tables, Alone, ManagedAlone, \A s \in session : s.iat <= now, NEW p \in Request, Lone(p), IssueToken(p)
  PROVE  ManagedAlone' /\ now' = now /\ \A s \in session' : s.iat <= now
<1>1. /\ AboutAccounts(p) /\ req'[p] = Blank /\ At(p, "session") /\ UNCHANGED <<account, link, now>>
      /\ session' = session \cup {[user |-> req[p].user, iat |-> now]}
  BY TokenIssued
<1>2. account[req[p].user].pass
  BY <1>1 DEF ManagedAlone, ManagedBy, At
<1>3. now \in Nat
  BY DEF Tables, AccountTables
<1>4. OneServed' /\ \A q \in Request : req'[q].at = "idle" /\ req[q].at \in {"idle", "session"}
  BY <1>1, LoneStays, BlankFacts DEF AboutAccounts, At
<1>5. Here' = Here /\ Organizers' = Organizers
  BY <1>1 DEF Here, Organizers
<1>6. \A s \in session' : s \in session \/ (s.user = req[p].user /\ s.iat = now)
  BY <1>1
<1>7. SessionsOld'
  BY <1>1, <1>2, <1>5, <1>6 DEF ManagedAlone, SessionsOld
<1>8. OneLink' /\ LinksOpen'
  <2>1. OneLink'
    BY <1>1 DEF ManagedAlone, OneLink
  <2>2. LinksOpen'
    BY <1>1, <1>4 DEF ManagedAlone, LinksOpen, At, Kind, AboutAccounts
  <2> QED BY <2>1, <2>2
<1>9. \A q \in Request : ManagedBy(req[q])'
  BY <1>4 DEF ManagedBy
<1>10. \A s \in session' : s.iat <= now
  BY <1>3, <1>6
<1> QED BY <1>1, <1>4, <1>5, <1>7, <1>8, <1>9, <1>10 DEF ManagedAlone

LEMMA ManagedRole ==
  ASSUME Tables, Alone, ManagedAlone, NEW p \in Request, Lone(p), SetRole(p)
  PROVE  ManagedAlone' /\ UNCHANGED <<session, now>>
<1>1. PICK u \in User : u = req[p].user
  BY RoleSet
<1>2. PICK r \in Roles : r = req[p].role
  BY RoleSet
<1>3. /\ AboutAccounts(p) /\ req'[p] = Blank /\ At(p, "role")
      /\ account' = IF u \in Here THEN [account EXCEPT ![u].role = r] ELSE account
      /\ UNCHANGED <<link, session, now>>
  BY <1>1, <1>2, RoleSet
<1>4. r = Superadmin \/ \E v \in Organizers : v # u
  BY <1>1, <1>2, <1>3 DEF ManagedAlone, ManagedBy, At
<1>5. account \in [User -> Row]
  BY DEF Tables, AccountTables
<1>6. /\ \A v \in User : /\ account'[v].st = account[v].st /\ account'[v].pass = account[v].pass
                         /\ account'[v].after = account[v].after
      /\ \A v \in User \ {u} : account'[v] = account[v]
      /\ u \in Here => account'[u].role = r
      /\ u \notin Here => account'[u].role = account[u].role
  <2>1. CASE u \in Here
    BY <1>3, <1>5, <2>1 DEF Row
  <2>2. CASE u \notin Here
    BY <1>3, <2>2
  <2> QED BY <2>1, <2>2
<1>7. OneServed' /\ \A q \in Request : req'[q].at = "idle" /\ req[q].at \in {"idle", "role"}
  BY <1>3, LoneStays, BlankFacts DEF AboutAccounts, At
<1>8. Here' = Here
  BY <1>6 DEF Here
<1>9. Organizers' # {}
  <2>1. CASE \E v \in Organizers : v # u
    BY <1>6, <1>8, <2>1 DEF Organizers, Here
  <2>2. CASE Organizers \subseteq {u}
    <3>1. u \in Organizers /\ r = Superadmin
      BY <1>4, <2>2 DEF ManagedAlone
    <3>2. u \in Here /\ account'[u].role = Superadmin
      BY <1>6, <3>1 DEF Organizers
    <3> QED BY <1>8, <3>2 DEF Organizers
  <2> QED BY <2>1, <2>2
<1>10. SessionsOld'
  BY <1>3, <1>6, <1>8 DEF ManagedAlone, SessionsOld, Here
<1>11. OneLink' /\ LinksOpen'
  <2>1. OneLink'
    BY <1>3 DEF ManagedAlone, OneLink
  <2>2. link \subseteq [user : User, token : Nat]
    BY DEF Tables, AccountTables
  <2>3. LinksOpen'
    BY <1>3, <1>6, <1>7, <2>2 DEF ManagedAlone, LinksOpen, At, Kind, AboutAccounts
  <2> QED BY <2>1, <2>3
<1>12. \A q \in Request : ManagedBy(req[q])'
  BY <1>7 DEF ManagedBy
<1> QED BY <1>3, <1>7, <1>9, <1>10, <1>11, <1>12 DEF ManagedAlone

LEMMA ManagedReset ==
  ASSUME Tables, Alone, ManagedAlone, \A s \in session : s.iat <= now, NEW p \in Request, Lone(p), ResetPassword(p)
  PROVE  ManagedAlone' /\ UNCHANGED <<session, now>>
<1>1. PICK u \in User : u = req[p].user
  BY PasswordReset
<1>2. /\ AboutAccounts(p) /\ req'[p] = Blank /\ At(p, "reset")
      /\ \/ /\ u \in Here
            /\ account' = [account EXCEPT ![u].pass = FALSE, ![u].after = now]
            /\ link' = (link \ LinksOf(u)) \cup {[user |-> u, token |-> req[p].token]}
         \/ u \notin Here /\ UNCHANGED <<account, link>>
      /\ UNCHANGED <<session, now>>
  BY <1>1, PasswordReset
<1>3. account \in [User -> Row] /\ link \subseteq [user : User, token : Nat]
  BY DEF Tables, AccountTables
<1>4. OneServed' /\ \A q \in Request : req'[q].at = "idle" /\ req[q].at \in {"idle", "reset"}
  BY <1>2, LoneStays, BlankFacts DEF AboutAccounts, At
<1>5. \A q \in Request : ManagedBy(req[q])'
  BY <1>4 DEF ManagedBy
<1>6. CASE u \in Here
  <2>1. /\ \A v \in User : account'[v].st = account[v].st /\ account'[v].role = account[v].role
        /\ \A v \in User \ {u} : account'[v] = account[v]
        /\ ~account'[u].pass /\ account'[u].after = now
    BY <1>2, <1>3, <1>6 DEF Row
  <2>2. Here' = Here /\ Organizers' = Organizers
    BY <2>1 DEF Here, Organizers
  <2>3. SessionsOld'
    BY <1>2, <2>1, <2>2 DEF ManagedAlone, SessionsOld, Here
  <2>4. \A l \in link' : \/ l \in link /\ l.user \in User /\ l.user # u
                         \/ l = [user |-> u, token |-> req[p].token]
    BY <1>2, <1>3, <1>6 DEF LinksOf
  <2>5. OneLink'
    BY <2>4 DEF ManagedAlone, OneLink
  <2>6. LinksOpen'
    <3>1. ASSUME ~Kind("boot"), NEW l \in link' PROVE ~account'[l.user].pass
      <4>1. CASE l \in link /\ l.user \in User /\ l.user # u
        BY <1>4, <2>1, <3>1, <4>1 DEF ManagedAlone, LinksOpen, At
      <4>2. CASE l = [user |-> u, token |-> req[p].token]
        BY <2>1, <4>2
      <4> QED BY <2>4, <4>1, <4>2
    <3> QED BY <1>2, <3>1 DEF LinksOpen, Kind, AboutAccounts
  <2> QED BY <1>2, <1>4, <1>5, <2>2, <2>3, <2>5, <2>6 DEF ManagedAlone
<1>7. CASE u \notin Here
  <2>1. UNCHANGED <<account, link, session, now>> /\ load' = load
    BY <1>2, <1>7 DEF AboutAccounts
  <2>2. \A q \in Request : ~At(q, "spent")
    BY <1>4 DEF At
  <2> QED BY <1>4, <1>5, <2>1, <2>2, ManagedSame
<1> QED BY <1>6, <1>7

LEMMA ManagedLink ==
  ASSUME Tables, Alone, ManagedAlone, NEW p \in Request, Lone(p), EnsureClaimToken(p)
  PROVE  ManagedAlone' /\ UNCHANGED <<session, now>>
<1>1. PICK u \in User : u = req[p].user
  BY LinkMade
<1>2. /\ AboutAccounts(p) /\ UNCHANGED <<account, session, now>>
      /\ \/ /\ At(p, "unlink") /\ link' = link \ LinksOf(u)
            /\ req'[p].at = "link" /\ req'[p].user = u
         \/ /\ At(p, "existing") /\ link' = link
            /\ \/ LinksOf(u) = {} /\ req'[p].at = "link" /\ req'[p].user = u
               \/ req'[p] = Blank
         \/ /\ At(p, "link") /\ req'[p] = Blank
            /\ \/ u \notin Here /\ link' = link
               \/ /\ u \in Here
                  /\ link' = link \cup {[user |-> u, token |-> req[p].token]}
  BY <1>1, LinkMade DEF Keeps
<1>3. OneServed' /\ \A q \in Request \ {p} : req'[q] = req[q] /\ req[q].at = "idle"
  BY <1>2, LoneStays DEF AboutAccounts
<1>4. u \in Here /\ ~account[u].pass
  BY <1>1, <1>2 DEF ManagedAlone, ManagedBy, At
<1>5. Here' = Here /\ Organizers' = Organizers
  BY <1>2 DEF Here, Organizers
<1>6. SessionsOld'
  BY <1>2, <1>5 DEF ManagedAlone, SessionsOld
<1>7. \A q \in Request : ~At(q, "spent")
  BY <1>2, <1>3 DEF At
<1>8. ~Kind("boot") => \A l \in link : ~account[l.user].pass
  BY <1>7 DEF ManagedAlone, LinksOpen
<1>9. LinksOpen'
  <2>1. \A l \in link' : l \in link \/ l.user = u
    BY <1>2
  <2> QED BY <1>2, <1>4, <1>8, <2>1 DEF LinksOpen, Kind, AboutAccounts
<1>10. OneLink'
  <2>1. CASE link' \subseteq link
    BY <2>1 DEF ManagedAlone, OneLink
  <2>2. CASE At(p, "link") /\ link' = link \cup {[user |-> u, token |-> req[p].token]}
    <3>1. LinksOf(u) = {}
      BY <1>1, <2>2 DEF ManagedAlone, ManagedBy, At
    <3>2. \A l \in link : l.user # u
      BY <3>1 DEF LinksOf
    <3>3. \A l \in link' : (l \in link /\ l.user # u) \/ l = [user |-> u, token |-> req[p].token]
      BY <2>2, <3>2
    <3> QED BY <3>3 DEF ManagedAlone, OneLink
  <2> QED BY <1>2, <2>1, <2>2
<1>11. ManagedBy(req[p])'
  <2>1. CASE req'[p].at = "link" /\ req'[p].user = u
    <3>1. \A l \in link' : l.user # u
      BY <1>2, <2>1, BlankFacts DEF LinksOf
    <3> QED BY <1>2, <1>4, <1>5, <2>1, <3>1 DEF ManagedBy, LinksOf
  <2>2. CASE req'[p] = Blank
    BY <2>2, BlankFacts DEF ManagedBy
  <2> QED BY <1>2, <2>1, <2>2
<1>12. \A q \in Request : ManagedBy(req[q])'
  BY <1>3, <1>11 DEF ManagedBy
<1> QED BY <1>2, <1>3, <1>5, <1>6, <1>9, <1>10, <1>12 DEF ManagedAlone

LEMMA ManagedClaim ==
  ASSUME Tables, Alone, ManagedAlone, NEW p \in Request, Lone(p), ClaimAccount(p)
  PROVE  ManagedAlone' /\ UNCHANGED <<session, now>>
<1>1. PICK u \in User : u = req[p].user
  BY AccountClaimed
<1>2. /\ AboutAccounts(p) /\ UNCHANGED <<session, now>>
      /\ \/ /\ At(p, "claim") /\ UNCHANGED <<account, link>>
            /\ req'[p] = Blank \/ req'[p].at = "free"
         \/ /\ At(p, "free") /\ UNCHANGED <<account, link>>
            /\ \/ req'[p] = Blank
               \/ u \in Here /\ req'[p].at = "password" /\ req'[p].user = u
         \/ /\ At(p, "password") /\ link' = link /\ req'[p].at = "spent" /\ req'[p].user = u
            /\ account' = IF u \in Here THEN [account EXCEPT ![u].pass = TRUE] ELSE account
         \/ /\ At(p, "spent") /\ link' = link \ LinksOf(u) /\ account' = account
            /\ req'[p] = Blank \/ (req'[p].at = "session" /\ req'[p].user = u)
  BY <1>1, AccountClaimed DEF Keeps
<1>3. OneServed' /\ \A q \in Request \ {p} : req'[q] = req[q] /\ req[q].at = "idle"
  BY <1>2, LoneStays DEF AboutAccounts
<1>4. Others(p) /\ load' = load
  BY <1>2 DEF AboutAccounts
<1>5. CASE At(p, "claim") \/ At(p, "free")
  <2>1. /\ UNCHANGED <<account, link>> /\ ~At(p, "spent")
        /\ \/ req'[p].at \in {"idle", "free"}
           \/ u \in Here /\ req'[p].at = "password" /\ req'[p].user = u
    BY <1>2, <1>5, BlankFacts DEF At
  <2>2. ManagedBy(req'[p])
    BY <2>1 DEF ManagedBy
  <2> QED BY <1>2, <1>4, <2>1, <2>2, ManagedStill
<1>6. CASE At(p, "password")
  <2>0. /\ link' = link /\ req'[p].at = "spent" /\ req'[p].user = u
        /\ account' = IF u \in Here THEN [account EXCEPT ![u].pass = TRUE] ELSE account
    BY <1>2, <1>6 DEF At
  <2>1. u \in Here
    BY <1>1, <1>6 DEF ManagedAlone, ManagedBy, At
  <2>2. account \in [User -> Row] /\ link \subseteq [user : User, token : Nat]
    BY DEF Tables, AccountTables
  <2>3. account' = [account EXCEPT ![u].pass = TRUE]
    BY <2>0, <2>1
  <2>4. /\ \A v \in User : /\ account'[v].st = account[v].st /\ account'[v].role = account[v].role
                           /\ account'[v].after = account[v].after
        /\ \A v \in User \ {u} : account'[v] = account[v]
        /\ account'[u].pass
    BY <2>2, <2>3 DEF Row
  <2>5. Here' = Here /\ Organizers' = Organizers
    BY <2>4 DEF Here, Organizers
  <2>6. SessionsOld'
    BY <1>2, <2>4, <2>5 DEF ManagedAlone, SessionsOld, Here
  <2>7. OneLink'
    BY <2>0 DEF ManagedAlone, OneLink
  <2>8. \A q \in Request : ~At(q, "spent")
    BY <1>3, <1>6 DEF At
  <2>9. LinksOpen'
    <3>1. ASSUME ~Kind("boot"), NEW l \in link, account'[l.user].pass PROVE l.user = u
      <4>1. ~account[l.user].pass /\ l.user \in User
        BY <2>2, <2>8, <3>1 DEF ManagedAlone, LinksOpen
      <4> QED BY <2>4, <3>1, <4>1
    <3> QED BY <1>4, <2>0, <3>1 DEF LinksOpen, Kind, At
  <2>10. ManagedBy(req[p])'
    BY <2>0, <2>1, <2>4, <2>5 DEF ManagedBy
  <2>11. \A q \in Request : ManagedBy(req[q])'
    BY <1>3, <2>10 DEF ManagedBy
  <2> QED BY <1>2, <1>3, <2>5, <2>6, <2>7, <2>9, <2>11 DEF ManagedAlone
<1>7. CASE At(p, "spent")
  <2>0. /\ link' = link \ LinksOf(u) /\ account' = account
        /\ req'[p] = Blank \/ (req'[p].at = "session" /\ req'[p].user = u)
    BY <1>2, <1>7 DEF At
  <2>1. account[u].pass
    BY <1>1, <1>7 DEF ManagedAlone, ManagedBy, At
  <2>2. Here' = Here /\ Organizers' = Organizers
    BY <2>0 DEF Here, Organizers
  <2>3. SessionsOld'
    BY <1>2, <2>0, <2>2 DEF ManagedAlone, SessionsOld
  <2>4. OneLink'
    BY <2>0 DEF ManagedAlone, OneLink
  <2>5. LinksOpen'
    <3>1. ASSUME ~Kind("boot"), NEW l \in link' PROVE ~account[l.user].pass
      <4>1. l \in link /\ l.user # u
        BY <2>0 DEF LinksOf
      <4> QED BY <1>1, <1>3, <3>1, <4>1 DEF ManagedAlone, LinksOpen, At
    <3> QED BY <1>4, <2>0, <3>1 DEF LinksOpen, Kind
  <2>6. ManagedBy(req[p])'
    BY <2>0, <2>1, BlankFacts DEF ManagedBy
  <2>7. \A q \in Request : ManagedBy(req[q])'
    BY <1>3, <2>6 DEF ManagedBy
  <2> QED BY <1>2, <1>3, <2>2, <2>3, <2>4, <2>5, <2>7 DEF ManagedAlone
<1> QED BY <1>2, <1>5, <1>6, <1>7

LEMMA ManagedRenamed ==
  ASSUME Tables, Alone, ManagedAlone, NEW p \in Request, Lone(p), RenameUser(p)
  PROVE  ManagedAlone' /\ UNCHANGED <<session, now>>
<1>1. PICK u \in User : u = req[p].user
  BY UserRenamed
<1>2. /\ AboutAccounts(p) /\ req'[p] = Blank /\ At(p, "renaming") /\ UNCHANGED <<link, session, now>>
      /\ \/ /\ \A v \in User \ {u} : account'[v] = account[v]
            /\ account'[u].st = account[u].st /\ account'[u].role = account[u].role
            /\ account'[u].pass = account[u].pass /\ account'[u].after = account[u].after
         \/ account' = account
  BY <1>1, UserRenamed
<1>3. \A v \in User : /\ account'[v].st = account[v].st /\ account'[v].role = account[v].role
                      /\ account'[v].pass = account[v].pass /\ account'[v].after = account[v].after
  BY <1>2
<1>4. OneServed' /\ \A q \in Request : req'[q].at = "idle" /\ ~At(q, "spent")
  BY <1>2, LoneStays, BlankFacts DEF AboutAccounts, At
<1>5. \A q \in Request : ManagedBy(req[q])'
  BY <1>4 DEF ManagedBy
<1> QED BY <1>2, <1>3, <1>4, <1>5, ManagedSame DEF AboutAccounts

LEMMA ManagedDeleted ==
  ASSUME Tables, Alone, ManagedAlone, NEW p \in Request, Lone(p), DeleteUser(p)
  PROVE  ManagedAlone' /\ UNCHANGED <<session, now>>
<1>1. PICK u \in User : u = req[p].user
  BY UserDeleted
<1>2. /\ AboutAccounts(p) /\ req'[p] = Blank /\ At(p, "clear") /\ UNCHANGED <<session, now>>
      /\ \A v \in User \ {u} : account'[v] = account[v]
      /\ account'[u].st = "gone" /\ link' = link \ LinksOf(u)
  BY <1>1, UserDeleted
<1>3. account[u].role # Superadmin
  BY <1>1, <1>2 DEF ManagedAlone, ManagedBy, At
<1>4. OneServed' /\ \A q \in Request : req'[q].at = "idle" /\ ~At(q, "spent")
  BY <1>2, LoneStays, BlankFacts DEF AboutAccounts, At
<1>5. Here' = Here \ {u} /\ Organizers \subseteq Organizers'
  BY <1>2, <1>3 DEF Here, Organizers
<1>6. SessionsOld'
  BY <1>2, <1>5 DEF ManagedAlone, SessionsOld, Here
<1>7. OneLink'
  BY <1>2 DEF ManagedAlone, OneLink
<1>8. LinksOpen'
  <2>1. \A l \in link' : l \in link /\ l.user \in User \ {u}
    BY <1>2 DEF LinksOf, Tables, AccountTables
  <2>2. load' = load
    BY <1>2 DEF AboutAccounts
  <2> QED BY <1>2, <1>4, <2>1, <2>2 DEF ManagedAlone, LinksOpen, Kind
<1>9. \A q \in Request : ManagedBy(req[q])'
  BY <1>4 DEF ManagedBy
<1> QED BY <1>2, <1>4, <1>5, <1>6, <1>7, <1>8, <1>9 DEF ManagedAlone

\* A start leaves an organizer, and passwords that have been set.
LEMMA ManagedBoot ==
  ASSUME Footing, ManagedAlone, Boot
  PROVE  ManagedAlone' /\ UNCHANGED <<session, now>>
<1>1. /\ \A p \in Request : req'[p] = Blank
      /\ UNCHANGED <<load, link, session, now>> /\ Kind("boot")
      /\ \A v \in Here : /\ account'[v].after = account[v].after
                         /\ account'[v].pass \/ account'[v].pass = account[v].pass
      /\ \A v \in User \ Here : \/ account'[v].st = account[v].st
                                \/ account'[v].st = "here" /\ account'[v].pass
      /\ \E w \in User : account'[w].st = "here" /\ account'[w].role = Superadmin
  BY BootFacts DEF Footing
<1>2. \A p \in Request : req'[p].at = "idle"
  BY <1>1, BlankFacts
<1>3. OneServed' /\ \A p \in Request : ManagedBy(req[p])'
  BY <1>2 DEF OneServed, At, ManagedBy
<1>4. Organizers' # {}
  BY <1>1 DEF Organizers, Here
<1>5. SessionsOld'
  BY <1>1 DEF ManagedAlone, SessionsOld, Here
<1>6. OneLink' /\ LinksOpen'
  BY <1>1 DEF ManagedAlone, OneLink, LinksOpen, Kind
<1> QED BY <1>1, <1>3, <1>4, <1>5, <1>6 DEF ManagedAlone

LEMMA ManagedAccounts ==
  ASSUME Footing, Alone, ManagedAlone, \A s \in session : s.iat <= now, AccountsStep
  PROVE  ManagedAlone' /\ \A s \in session' : s.iat <= now'
<1>0. Tables /\ now \in Nat /\ session \subseteq [user : User, iat : Nat]
  BY DEF Footing, Tables, AccountTables
<1>1. ASSUME ManagedAlone' /\ UNCHANGED <<session, now>>
      PROVE  ManagedAlone' /\ \A s \in session' : s.iat <= now'
  BY <1>1
<1>2. CASE AccountsArrive
  BY <1>0, <1>1, <1>2, ManagedArrives
<1>3. CASE Second
  <2>1. /\ req' = req /\ load' = load /\ now' = now + 1
        /\ UNCHANGED <<account, alias, link, session, made>>
    BY <1>0, <1>3, SecondFacts
  <2>2. OneServed' /\ \A q \in Request : ManagedBy(req[q])'
    BY <2>1 DEF ManagedAlone, OneServed, At, ManagedBy, Here, Organizers, LinksOf
  <2>3. ManagedAlone'
    BY <1>0, <2>1, <2>2, ManagedSame
  <2>4. \A s \in session : s.iat \in Nat /\ s.iat <= now + 1
    BY <1>0
  <2> QED BY <2>1, <2>3, <2>4
<1>4. ASSUME NEW p \in Request \ Idle,
             \/ CreateRegisteredUser(p) \/ CreatePlaceholderUser(p) \/ IssueToken(p) \/ RenameLock(p)
             \/ CountSuperadmins(p) \/ SetRole(p) \/ EnsureClaimToken(p) \/ ResetPassword(p) \/ ClaimAccount(p)
             \/ LockUser(p)
      PROVE  ManagedAlone' /\ \A s \in session' : s.iat <= now'
  <2>0. p \in Request /\ Lone(p)
    BY <1>0, LoneFacts DEF Serving, ManagedAlone
  <2>1. CASE CreateRegisteredUser(p) \/ CreatePlaceholderUser(p)
    BY <1>1, <2>0, <2>1, ManagedCreated
  <2>2. CASE IssueToken(p)
    BY <1>0, <2>0, <2>2, ManagedIssued
  <2>3. CASE RenameLock(p)
    <3>1. /\ AboutAccounts(p) /\ UNCHANGED accountVars /\ ~At(p, "spent")
          /\ req'[p].at \in {"renaming", "idle"}
      BY <1>0, <2>0, <2>3, RenameLocked, BlankFacts DEF At
    <3>2. ManagedBy(req'[p])
      BY <3>1 DEF ManagedBy
    <3> QED BY <1>0, <1>1, <2>0, <3>1, <3>2, ManagedStill DEF accountVars, AboutAccounts
  <2>4. CASE CountSuperadmins(p)
    <3>1. /\ AboutAccounts(p) /\ UNCHANGED accountVars /\ ~At(p, "spent")
          /\ \/ Cardinality(Organizers) > 1 /\ req'[p].at = "role" /\ Keeps(p)
             \/ req'[p] = Blank
      BY <1>0, <2>0, <2>4, Counted DEF At
    <3>2. Cardinality(Organizers) > 1 => \E v \in Organizers : v # req'[p].user
      <4>1. SUFFICES ASSUME Organizers \subseteq {req'[p].user} PROVE ~(Cardinality(Organizers) > 1)
        OBVIOUS
      <4>2. IsFiniteSet({req'[p].user}) /\ Cardinality({req'[p].user}) = 1
        BY FS_Singleton
      <4>3. Cardinality(Organizers) <= 1 /\ Cardinality(Organizers) \in Nat
        BY <4>1, <4>2, FS_Subset, FS_CardinalityType
      <4> QED BY <4>3
    <3>3. ManagedBy(req'[p])
      BY <3>1, <3>2, BlankFacts DEF ManagedBy
    <3> QED BY <1>0, <1>1, <2>0, <3>1, <3>3, ManagedStill DEF accountVars, AboutAccounts
  <2>5. CASE SetRole(p)
    BY <1>0, <1>1, <2>0, <2>5, ManagedRole
  <2>6. CASE EnsureClaimToken(p)
    BY <1>0, <1>1, <2>0, <2>6, ManagedLink
  <2>7. CASE ResetPassword(p)
    BY <1>0, <1>1, <2>0, <2>7, ManagedReset
  <2>8. CASE ClaimAccount(p)
    BY <1>0, <1>1, <2>0, <2>8, ManagedClaim
  <2>9. CASE LockUser(p)
    <3>1. /\ AboutAccounts(p) /\ UNCHANGED accountVars /\ ~At(p, "spent") /\ At(p, "delete")
          /\ (req'[p].at = "locked" /\ req'[p].user = req[p].user) \/ req'[p] = Blank
      BY <1>0, <2>0, <2>9, UserLocked DEF At, Keeps
    <3>2. ManagedBy(req'[p])
      BY <2>0, <3>1, BlankFacts DEF ManagedBy, ManagedAlone, At
    <3> QED BY <1>0, <1>1, <2>0, <3>1, <3>2, ManagedStill DEF accountVars, AboutAccounts
  <2> QED BY <1>4, <2>1, <2>2, <2>3, <2>4, <2>5, <2>6, <2>7, <2>8, <2>9
<1> QED BY <1>2, <1>3, <1>4 DEF AccountsStep

LEMMA ManagedKept ==
  ASSUME Footing, Managed, [Next]_vars
  PROVE  Managed'
<1>0. Tables /\ load' = load
  <2>1. Tables
    BY DEF Footing
  <2>2. ASSUME NEW p \in Request, RenameEverywhere(p) PROVE load' = load
    BY <2>1, <2>2, UserRenamed DEF RenameEverywhere, AboutAccounts
  <2>3. ASSUME NEW p \in Request, CheckEmpty(p) \/ DeleteEmptyUser(p) PROVE load' = load
    BY <2>1, <2>3, Checked, UserDeleted DEF DeleteEmptyUser, AboutAccounts
  <2>4. AccountsStep \/ TeamsStep \/ MediaStep => load' = load
    BY <2>1, AccountsPlace, TeamsPlace, MediaPlace DEF Footing, Apart
  <2>5. Jobs \/ Start \/ UNCHANGED vars => load' = load
    BY DEF Jobs, Start, Boot, vars
  <2> QED BY <2>1, <2>2, <2>3, <2>4, <2>5 DEF Next
<1> SUFFICES ASSUME Alone, ManagedAlone, \A s \in session : s.iat <= now
             PROVE  ManagedAlone' /\ \A s \in session' : s.iat <= now'
  BY <1>0 DEF Managed, Alone
<1>1. CASE AccountsStep
  BY <1>1, ManagedAccounts
<1>2. ASSUME NEW p \in Request, p \in Serving, Others(p), UNCHANGED accountVars,
             ~At(p, "spent"), ManagedBy(req'[p])
      PROVE  ManagedAlone' /\ \A s \in session' : s.iat <= now'
  BY <1>0, <1>2, LoneFacts, ManagedStill DEF accountVars, ManagedAlone
<1>3. CASE TeamsStep /\ UNCHANGED accountVars
  <2>1. PICK p \in Request : p \in Serving /\ AboutTeams(p)
    BY <1>0, <1>3, TeamsPlace
  <2>2. Others(p) /\ ~At(p, "spent") /\ req'[p].at \notin AccountsAt
    BY <2>1 DEF AboutTeams, TeamsAt, AccountsAt, At
  <2> QED BY <1>2, <1>3, <2>1, <2>2, IdleManaged
<1>4. CASE MediaStep /\ UNCHANGED accountVars
  <2>1. PICK p \in Request : p \in Serving /\ AboutMedia(p)
    BY <1>0, <1>4, MediaPlace
  <2>2. Others(p) /\ ~At(p, "spent") /\ req'[p].at \notin AccountsAt
    BY <2>1 DEF AboutMedia, MediaAt, AccountsAt, At
  <2> QED BY <1>2, <1>4, <2>1, <2>2, IdleManaged
<1>5. CASE UNCHANGED <<load, req, accountVars>>
  <2>1. OneServed' /\ \A q \in Request : ManagedBy(req[q])'
    BY <1>5 DEF ManagedAlone, OneServed, At, ManagedBy, Here, Organizers, LinksOf, accountVars
  <2>2. ManagedAlone'
    BY <1>0, <1>5, <2>1, ManagedSame DEF accountVars
  <2> QED BY <1>5, <2>2 DEF accountVars
<1>6. ASSUME NEW p \in Request \ Idle, RenameEverywhere(p) PROVE ManagedAlone' /\ \A s \in session' : s.iat <= now'
  BY <1>0, <1>6, LoneFacts, ManagedRenamed DEF RenameEverywhere, ManagedAlone, Serving
<1>7. ASSUME NEW p \in Request \ Idle, DeleteEmptyUser(p) PROVE ManagedAlone' /\ \A s \in session' : s.iat <= now'
  BY <1>0, <1>7, LoneFacts, ManagedDeleted DEF DeleteEmptyUser, ManagedAlone, Serving
<1>8. ASSUME NEW p \in Request \ Idle, CheckEmpty(p) PROVE ManagedAlone' /\ \A s \in session' : s.iat <= now'
  <2>1. /\ Others(p) /\ UNCHANGED accountVars /\ At(p, "locked")
        /\ (req'[p].at = "clear" /\ Keeps(p)) \/ req'[p] = Blank
    BY <1>0, <1>8, Checked
  <2>2. ManagedBy(req'[p])
    BY <2>1, BlankFacts DEF ManagedBy, ManagedAlone, At, Keeps
  <2> QED BY <1>2, <1>8, <2>1, <2>2 DEF Serving, At
<1>9. CASE Start
  BY <1>9, ManagedBoot DEF Start
<1>10. Jobs \/ UNCHANGED vars => UNCHANGED <<load, req>>
  BY DEF Jobs, vars
<1>11. UNCHANGED vars => UNCHANGED accountVars
  BY DEF vars, accountVars
<1> QED BY <1>1, <1>3, <1>4, <1>5, <1>6, <1>7, <1>8, <1>9, <1>10, <1>11 DEF Next

LEMMA ManagedFirst == ASSUME Init PROVE Managed
<1>1. /\ load \in Loads /\ link = {} /\ now = 0 /\ \A p \in Request : req[p] = Blank
      /\ session = {[user |-> u, iat |-> 0] : u \in {v \in Here : account[v].role >= Moderator}}
      /\ account = [u \in User |-> IF u \in DOMAIN load.first THEN load.first[u] ELSE NoAccount]
  BY DEF Init, AccountsInit
<1>2. OneServed /\ \A p \in Request : ManagedBy(req[p])
  BY <1>1, BlankFacts DEF OneServed, At, ManagedBy
<1>3. Organizers # {}
  <2>1. PICK u \in DOMAIN load.first : load.first[u].role = Superadmin
    BY <1>1, LoadsAssumption
  <2>2. u \in User /\ account[u] = load.first[u] /\ u \in Here
    BY <1>1, <2>1, LoadsAssumption, FirstAccounts DEF Init
  <2> QED BY <2>1, <2>2 DEF Organizers
<1>4. \A s \in session : s.iat = 0 /\ s.user \in Here
  BY <1>1
<1>5. \A u \in Here : account[u].after \in Nat
  BY TablesFirst DEF Tables, AccountTables, Row, Here
<1>6. SessionsOld /\ \A s \in session : s.iat <= now
  <2>1. ASSUME NEW s \in session PROVE s.iat <= account[s.user].after /\ s.iat <= now
    <3>1. now = 0
      BY <1>1
    <3>2. s.iat = 0 /\ account[s.user].after \in Nat
      BY <1>4, <1>5
    <3> QED BY <3>1, <3>2
  <2> QED BY <2>1 DEF SessionsOld
<1>7. OneLink /\ LinksOpen
  BY <1>1 DEF OneLink, LinksOpen
<1> QED BY <1>2, <1>3, <1>6, <1>7 DEF Managed, ManagedAlone

LEMMA ManagedInvariant == Spec => []Managed
<1>1. Init => Managed
  BY ManagedFirst
<1>2. Footing /\ Managed /\ [Next]_vars => Managed'
  BY ManagedKept
<1> QED BY <1>1, <1>2, FootingInvariant, PTL DEF Spec

\* Accounts can be told apart, somebody can run the site, links and sessions serve whom they are for.
THEOREM AccountsTheorem == Spec => []AccountsSound
<1>1. Footing /\ Managed => AccountsSound
  <2> SUFFICES ASSUME Footing, Managed PROVE AccountsSound
    OBVIOUS
  <2>1. AccountsTyped /\ NamesApart
    BY DEF Footing, Tables, AccountTables, Row, Apart, AccountsTyped
  <2>2. OrganizerLeft
    BY DEF Managed, ManagedAlone, OrganizerLeft
  <2>3. SessionsEnd
    BY DEF Managed, ManagedAlone, SessionsOld, SessionsEnd
  <2>4. LinksServe
    <3> SUFFICES ASSUME Alone, ~Kind("boot"), Idle = Request
                 PROVE  /\ \A l \in link : l.user \in Here /\ ~account[l.user].pass
                        /\ \A k, l \in link : k.user = l.user => k = l
      BY DEF LinksServe
    <3>1. \A p \in Request : ~At(p, "spent")
      BY DEF Idle, At
    <3> QED BY <3>1 DEF Managed, ManagedAlone, OneLink, LinksOpen, Footing, Apart
  <2> QED BY <2>1, <2>2, <2>3, <2>4 DEF AccountsSound
<1> QED BY <1>1, FootingInvariant, ManagedInvariant, PTL

-------------------------------------------------------------------------------
(* One request at a time: matches are called as their players and teams.   *)

CalledAt == {"clear", "update", "drop", "1x1", "2x2", "add", "edit"}

LEMMA CalledIdle ==
  ASSUME NEW p \in Request, Lone(p), Others(p), CalledBy(req[p])'
  PROVE  \A q \in Request : CalledBy(req[q])'
<1>1. \A q \in Request \ {p} : req'[q].at = "idle"
  BY LoneStays
<1>2. \A q \in Request \ {p} : CalledBy(req[q])'
  BY <1>1 DEF CalledBy
<1> QED BY <1>2

LEMMA CalledQuiet ==
  ASSUME NEW p \in Request, Lone(p), Others(p), req'[p].at \notin CalledAt
  PROVE  \A q \in Request : CalledBy(req[q])'
<1>1. CalledBy(req[p])'
  BY DEF CalledBy, CalledAt
<1> QED BY <1>1, CalledIdle

\* A side that stays as it is, with the team it had.
LEMMA RightKept ==
  ASSUME NEW m, NEW i \in SidesOf(m), Right(m, i), load' = load,
         \A u \in match[m].sides[i].who : u \in Here' /\ account'[u].name = account[u].name,
         match'[m].mode = match[m].mode,
         match'[m].st = "coming" => match[m].st = "coming" \/ Kind("reopen"),
         match'[m].title \in {match[m].title, Own}, match'[m].hand = match[m].hand,
         DOMAIN match'[m].sides = DOMAIN match[m].sides,
         \A j \in SidesOf(m) : /\ match'[m].sides[j].who = match[m].sides[j].who
                               /\ match'[m].sides[j].called = match[m].sides[j].called
                               /\ match'[m].sides[j].name = match[m].sides[j].name,
         ~match[m].hand /\ match[m].mode = "2x2" => {t \in team' : t.pair = match[m].sides[i].who} = TeamOf(match[m].sides[i].who)
  PROVE  Right(m, i)'
<1> DEFINE s == match[m].sides[i]
<1>1. match'[m].sides[i].who = s.who /\ match'[m].sides[i].called = s.called /\ match'[m].sides[i].name = s.name
  OBVIOUS
<1>2. ~match[m].hand => SideCalled(match[m].sides[i])'
  BY <1>1 DEF Right, SideCalled
<1>3. ~match[m].hand /\ match[m].mode = "2x2" => TeamOf(match[m].sides[i].who)' = TeamOf(s.who)
  BY <1>1 DEF TeamOf
<1>4. Title(match'[m].sides) = Title(match[m].sides)
  BY DEF Title, SidesOf
<1>5. ASSUME ~match[m].hand, match[m].mode = "2x2", match'[m].st = "coming", ~Kind("reopen")
      PROVE  TeamCalled(match[m].sides[i])' /\ match'[m].title \in {Own, Title(match'[m].sides)}
  <2>1. TeamCalled(s) /\ match[m].title \in {Own, Title(match[m].sides)}
    BY <1>5 DEF Right, Coming
  <2>2. TeamCalled(match[m].sides[i])'
    BY <1>1, <1>3, <1>5, <2>1 DEF TeamCalled
  <2> QED BY <1>4, <2>1, <2>2
<1>6. /\ s.who = DOMAIN s.called /\ s.who \subseteq Here'
      /\ ~match[m].hand /\ match[m].mode = "2x2" => TeamOf(s.who) # {}
  BY DEF Right
<1> QED BY <1>1, <1>2, <1>3, <1>5, <1>6 DEF Right, Coming, Kind

\* Steps about accounts, and those that are neither about accounts nor about teams.
LEMMA CalledElsewhere ==
  ASSUME AllRight, load' = load, UNCHANGED teamVars, HereKept
  PROVE  AllRight'
<1> SUFFICES ASSUME NEW m \in Matches, NEW i \in SidesOf(m) PROVE Right(m, i)'
  BY DEF AllRight, Matches, teamVars, SidesOf
<1>1. Right(m, i) /\ match[m].sides[i].who \subseteq Here
  BY DEF AllRight, Right
<1>2. \A u \in match[m].sides[i].who : u \in Here' /\ account'[u].name = account[u].name
  BY <1>1 DEF HereKept
<1>3. match' = match /\ {t \in team' : t.pair = match[m].sides[i].who} = TeamOf(match[m].sides[i].who)
  BY DEF teamVars, TeamOf
<1> QED BY <1>1, <1>2, <1>3, RightKept

LEMMA CalledDeleted ==
  ASSUME Tables, AllRight, NEW p \in Request, ~HasTeamHistory(req[p].user), DeleteEmptyUser(p)
  PROVE  AllRight'
<1>1. PICK u \in User : u = req[p].user
  BY Deleted
<1>2. /\ AboutAccounts(p) /\ CascadeTeams(u)
      /\ \A v \in User \ {u} : account'[v] = account[v]
  BY <1>1, Deleted, UserDeleted
<1>3. /\ team' = {t \in team : u \notin t.pair} /\ DOMAIN match' = DOMAIN match
      /\ \A m \in DOMAIN match :
           /\ match'[m].mode = match[m].mode /\ match'[m].st = match[m].st
           /\ match'[m].title = match[m].title /\ match'[m].hand = match[m].hand
           /\ DOMAIN match'[m].sides = DOMAIN match[m].sides
           /\ match[m].mode = "2x2" => match'[m] = match[m]
           /\ \A i \in SidesOf(m) :
                /\ match[m].mode # "2x2" => match'[m].sides[i].who = match[m].sides[i].who \ {u}
                /\ match'[m].sides[i].called = match[m].sides[i].called
                /\ match'[m].sides[i].name = match[m].sides[i].name
  BY <1>2, PlayerCleared
<1>4. (\A m \in Matches : \A i \in SidesOf(m) : u \notin match[m].sides[i].who) /\ \A t \in team : u \notin t.pair
  BY <1>1 DEF HasTeamHistory
<1>5. team' = team
  BY <1>3, <1>4
<1> SUFFICES ASSUME NEW m \in Matches', NEW i \in SidesOf(m)' PROVE Right(m, i)'
  BY DEF AllRight
<1>6. m \in DOMAIN match /\ m \in Matches /\ i \in SidesOf(m)
  BY <1>3 DEF Matches, SidesOf
<1>7. \A j \in SidesOf(m) : match'[m].sides[j].who = match[m].sides[j].who
  <2>1. CASE match[m].mode = "2x2"
    BY <1>3, <1>6, <2>1
  <2>2. CASE match[m].mode # "2x2"
    <3>1. \A j \in SidesOf(m) : match'[m].sides[j].who = match[m].sides[j].who \ {u} /\ u \notin match[m].sides[j].who
      BY <1>3, <1>4, <1>6, <2>2
    <3> QED BY <3>1
  <2> QED BY <2>1, <2>2
<1>8. Right(m, i) /\ match[m].sides[i].who \subseteq Here
  BY <1>6 DEF AllRight, Right
<1>9. \A v \in match[m].sides[i].who : v \in Here' /\ account'[v].name = account[v].name
  BY <1>2, <1>4, <1>6, <1>8 DEF Here
<1>10. {t \in team' : t.pair = match[m].sides[i].who} = TeamOf(match[m].sides[i].who)
  BY <1>5 DEF TeamOf
<1>11. load' = load
  BY <1>2 DEF AboutAccounts
<1>12. /\ match'[m].mode = match[m].mode /\ match'[m].st = match[m].st /\ match'[m].title = match[m].title
       /\ match'[m].hand = match[m].hand /\ DOMAIN match'[m].sides = DOMAIN match[m].sides
       /\ \A j \in SidesOf(m) : /\ match'[m].sides[j].called = match[m].sides[j].called
                                /\ match'[m].sides[j].name = match[m].sides[j].name
  BY <1>3, <1>6
<1> QED BY <1>6, <1>7, <1>8, <1>9, <1>10, <1>11, <1>12, RightKept

LEMMA CalledRenamed ==
  ASSUME Tables, AllRight, NEW p \in Request, RenameEverywhere(p)
  PROVE  AllRight'
<1>1. PICK u \in User : u = req[p].user
  BY UserRenamed DEF RenameEverywhere
<1>2. PICK n \in Name : n = req[p].name
  BY UserRenamed DEF RenameEverywhere
<1>3. AboutAccounts(p) /\ team' = team
  BY MatchesRenamed, UserRenamed
<1>4. load' = load
  BY <1>3 DEF AboutAccounts
<1>5. CASE ~Renames(p)
  <2>1. match' = match /\ NamesKept
    BY <1>1, <1>5, MatchesRenamed, UserRenamed
  <2>2. HereKept
    BY <2>1 DEF HereKept, Here, NamesKept
  <2> QED BY <1>3, <1>4, <2>1, <2>2, CalledElsewhere DEF teamVars
<1>6. CASE Renames(p)
  <2>1. /\ \A v \in User \ {u} : account'[v] = account[v]
        /\ account'[u].st = account[u].st /\ account'[u].name = n
    BY <1>1, <1>2, <1>6, MatchesRenamed, UserRenamed
  <2>2. /\ DOMAIN match' = DOMAIN match
        /\ \A m \in DOMAIN match :
             /\ match'[m].mode = match[m].mode /\ match'[m].st = match[m].st
             /\ match'[m].title = match[m].title /\ match'[m].hand = match[m].hand
             /\ DOMAIN match'[m].sides = DOMAIN match[m].sides
             /\ \A i \in SidesOf(m) :
                  /\ match'[m].sides[i].who = match[m].sides[i].who
                  /\ DOMAIN match'[m].sides[i].called = DOMAIN match[m].sides[i].called
                  /\ match[m].mode = "2x2" => match'[m].sides[i].name = match[m].sides[i].name
                  /\ \A v \in DOMAIN match[m].sides[i].called :
                       match'[m].sides[i].called[v] =
                         IF v = u /\ v \in match[m].sides[i].who THEN n
                         ELSE match[m].sides[i].called[v]
    BY <1>1, <1>2, <1>6, MatchesRenamed
  <2>3. Here' = Here
    BY <2>1 DEF Here
  <2> SUFFICES ASSUME NEW m \in Matches', NEW i \in SidesOf(m)' PROVE Right(m, i)'
    BY DEF AllRight
  <2>4. m \in DOMAIN match /\ m \in Matches /\ i \in SidesOf(m)
    BY <2>2 DEF Matches, SidesOf
  <2>5. Right(m, i) /\ match[m].sides[i].who \subseteq Here /\ Here \subseteq User
    BY <2>4 DEF AllRight, Right, Here
  <2>6. match[m].sides[i].who \subseteq DOMAIN match[m].sides[i].called
    BY <2>4, WhoListed DEF Tables
  <2>7. ~match[m].hand => SideCalled(match[m].sides[i])'
    <3> SUFFICES ASSUME ~match[m].hand, NEW v \in match'[m].sides[i].who
                 PROVE  match'[m].sides[i].called[v] = account'[v].name
      BY DEF SideCalled
    <3>1. v \in match[m].sides[i].who /\ v \in DOMAIN match[m].sides[i].called /\ v \in User
      BY <2>2, <2>4, <2>5, <2>6
    <3>2. match[m].sides[i].called[v] = account[v].name
      BY <2>5, <3>1 DEF Right, SideCalled
    <3>3. match'[m].sides[i].called[v] = IF v = u THEN n ELSE match[m].sides[i].called[v]
      BY <2>2, <2>4, <3>1
    <3> QED BY <2>1, <3>1, <3>2, <3>3
  <2>8. ASSUME match[m].mode = "2x2"
        PROVE  /\ TeamOf(match[m].sides[i].who)' = TeamOf(match[m].sides[i].who)
               /\ Title(match'[m].sides) = Title(match[m].sides)
               /\ match'[m].sides[i].name = match[m].sides[i].name
    <3>1. match'[m].sides[i].who = match[m].sides[i].who
      BY <2>2, <2>4
    <3>2. \A j \in SidesOf(m) : match'[m].sides[j].name = match[m].sides[j].name
      BY <2>2, <2>4, <2>8
    <3>3. DOMAIN match'[m].sides = SidesOf(m)
      BY <2>2, <2>4 DEF SidesOf
    <3> QED BY <1>3, <2>4, <3>1, <3>2, <3>3 DEF TeamOf, Title, SidesOf
  <2>9. /\ match'[m].mode = match[m].mode /\ match'[m].st = match[m].st /\ match'[m].title = match[m].title
        /\ match'[m].sides[i].who = match[m].sides[i].who /\ match'[m].hand = match[m].hand
        /\ DOMAIN match'[m].sides[i].called = DOMAIN match[m].sides[i].called
    BY <2>2, <2>4
  <2>10. ~match[m].hand /\ match[m].mode = "2x2" /\ match[m].st = "coming" /\ ~Kind("reopen") => TeamCalled(match[m].sides[i])'
    BY <2>5, <2>8 DEF Right, TeamCalled, Coming
  <2> QED BY <1>4, <2>3, <2>5, <2>7, <2>8, <2>9, <2>10 DEF Right, Coming, Kind
<1> QED BY <1>5, <1>6

\* A step that leaves accounts, matches and their teams alone.
LEMMA CalledTeams ==
  ASSUME AllRight, load' = load, UNCHANGED account, match' = match,
         \A m \in Matches : \A i \in SidesOf(m) : ~match[m].hand /\ match[m].mode = "2x2" =>
           {t \in team' : t.pair = match[m].sides[i].who} = TeamOf(match[m].sides[i].who)
  PROVE  AllRight'
<1> SUFFICES ASSUME NEW m \in Matches, NEW i \in SidesOf(m) PROVE Right(m, i)'
  BY DEF AllRight, Matches, SidesOf
<1>1. Right(m, i) /\ match[m].sides[i].who \subseteq Here /\ Here' = Here
  BY DEF AllRight, Right, Here
<1> QED BY <1>1, RightKept

\* A new team comes for a pair that has none.
LEMMA CalledCreated ==
  ASSUME Tables, AllRight, UNCHANGED account, NEW p \in Request, CreateTeam(p)
  PROVE  AllRight'
<1> DEFINE pair == req[p].args[1]
<1>1. /\ load' = load /\ match' = match
      /\ \/ team' = team
         \/ TeamOf(pair) = {} /\ team' = team \cup {[pair |-> pair, name |-> req[p].name]}
  BY TeamCreated DEF AboutTeams
<1>2. ASSUME NEW m \in Matches, NEW i \in SidesOf(m), ~match[m].hand, match[m].mode = "2x2"
      PROVE  {t \in team' : t.pair = match[m].sides[i].who} = TeamOf(match[m].sides[i].who)
  <2>1. TeamOf(match[m].sides[i].who) # {}
    BY <1>2 DEF AllRight, Right
  <2>2. CASE team' = team
    BY <2>2 DEF TeamOf
  <2>3. CASE TeamOf(pair) = {} /\ team' = team \cup {[pair |-> pair, name |-> req[p].name]}
    <3>1. match[m].sides[i].who # pair
      BY <2>1, <2>3
    <3> QED BY <2>3, <3>1 DEF TeamOf
  <2> QED BY <1>1, <2>2, <2>3
<1> QED BY <1>1, <1>2, CalledTeams

\* A team goes that has not played.
LEMMA CalledDropped ==
  ASSUME Tables, CalledAlone, UNCHANGED account, NEW p \in Request, DeleteTeam(p)
  PROVE  AllRight'
<1> DEFINE pair == req[p].args[1]
<1>1. load' = load /\ match' = match /\ At(p, "drop") /\ team' = team \ TeamOf(pair)
  BY TeamDropped DEF AboutTeams
<1>2. ~Played(pair)
  BY <1>1 DEF CalledAlone, CalledBy, At
<1>3. ASSUME NEW m \in Matches, NEW i \in SidesOf(m), ~match[m].hand, match[m].mode = "2x2"
      PROVE  {t \in team' : t.pair = match[m].sides[i].who} = TeamOf(match[m].sides[i].who)
  <2>1. match[m].sides[i].who # pair
    BY <1>2, <1>3 DEF Played
  <2> QED BY <1>1, <2>1 DEF TeamOf
<1> QED BY <1>1, <1>3, CalledTeams DEF CalledAlone

\* A team gets a new name, in its coming matches too; or other players, before it has played.
LEMMA CalledUpdated ==
  ASSUME Tables, TeamsHere, CalledAlone, UNCHANGED account, NEW p \in Request, UpdateTeam(p)
  PROVE  AllRight'
<1>1. PICK from \in Pairs : from = req[p].args[1]
  BY TeamUpdated
<1>2. PICK to \in Pairs : to = req[p].args[2]
  BY TeamUpdated
<1>3. PICK n : n = req[p].name
  OBVIOUS
<1>4. /\ load' = load /\ At(p, "update")
      /\ DOMAIN match' = DOMAIN match /\ \A m \in DOMAIN match : SamePlayers(m)
  BY TeamUpdated DEF AboutTeams
<1>5. to # from => ~Played(from)
  BY <1>1, <1>2, <1>4 DEF CalledAlone, CalledBy, At
<1>6. AllRight
  BY DEF CalledAlone
<1>7. CASE UNCHANGED teamVars
  BY <1>4, <1>6, <1>7, CalledTeams DEF teamVars, TeamOf
<1>8. ASSUME NEW old \in TeamOf(from), to = from \/ TeamOf(to) = {},
             team' = (team \ {old}) \cup {[pair |-> to, name |-> n]},
             IF n = old.name THEN match' = match
             ELSE \A m \in DOMAIN match :
               /\ \A i \in SidesOf(m) : match'[m].sides[i].name =
                    IF match[m].mode = "2x2" /\ Coming(m) /\ match[m].sides[i].who = to
                    THEN n ELSE match[m].sides[i].name
               /\ match[m].title \in {Own, Title(match[m].sides)} =>
                    match'[m].title \in {Own, Title(match'[m].sides)}
      PROVE  AllRight'
  <2> SUFFICES ASSUME NEW m \in Matches', NEW i \in SidesOf(m)' PROVE Right(m, i)'
    BY DEF AllRight
  <2> DEFINE who == match[m].sides[i].who
  <2>1. m \in DOMAIN match /\ m \in Matches /\ SamePlayers(m) /\ i \in SidesOf(m)
    BY <1>4 DEF Matches, SamePlayers, SidesOf
  <2>2. /\ match'[m].mode = match[m].mode /\ match'[m].st = match[m].st
        /\ match'[m].sides[i].who = who /\ match'[m].sides[i].called = match[m].sides[i].called
        /\ match'[m].hand = match[m].hand
    BY <2>1 DEF SamePlayers
  <2>3. /\ who = DOMAIN match[m].sides[i].called /\ who \subseteq Here
        /\ ~match[m].hand => SideCalled(match[m].sides[i])
        /\ ~match[m].hand /\ match[m].mode = "2x2" => TeamOf(who) # {}
        /\ ~match[m].hand /\ match[m].mode = "2x2" /\ Coming(m) /\ ~Kind("reopen") =>
             TeamCalled(match[m].sides[i]) /\ match[m].title \in {Own, Title(match[m].sides)}
    BY <1>6, <2>1 DEF AllRight, Right
  <2>4. Here' = Here /\ (~match[m].hand => SideCalled(match[m].sides[i])')
    BY <2>2, <2>3 DEF Here, SideCalled
  <2>5. ASSUME ~match[m].hand, match[m].mode = "2x2"
        PROVE  /\ {t \in team' : t.pair = who} # {}
               /\ match[m].st = "coming" /\ ~Kind("reopen") =>
                    /\ \A t \in team' : t.pair = who => match'[m].sides[i].name = t.name
                    /\ match'[m].title \in {Own, Title(match'[m].sides)}
    <3>1. old \in team /\ old.pair = from /\ \A t \in team : t.pair = from => t = old
      BY <1>8 DEF TeamOf, TeamsHere
    <3>2. who = to => to = from
      BY <1>8, <2>3, <2>5
    <3>3. who = from => to = from
      BY <1>5, <2>1, <2>5 DEF Played
    <3>4. CASE who # to
      <4>1. \A t \in team' : t.pair = who <=> t \in TeamOf(who)
        <5>1. who # from
          BY <3>3, <3>4
        <5> QED BY <1>8, <3>1, <3>4, <5>1 DEF TeamOf
      <4>2. TeamOf(who) \subseteq team'
        <5>1. who # from
          BY <3>3, <3>4
        <5> QED BY <1>8, <3>1, <5>1 DEF TeamOf
      <4>3. match'[m].sides[i].name = match[m].sides[i].name
        BY <1>8, <2>1, <3>4
      <4>4. match[m].title \in {Own, Title(match[m].sides)} => match'[m].title \in {Own, Title(match'[m].sides)}
        BY <1>8, <2>1
      <4>5. {t \in team' : t.pair = who} # {}
        BY <2>3, <2>5, <4>1, <4>2 DEF TeamOf
      <4> QED BY <2>3, <2>5, <4>1, <4>3, <4>4, <4>5 DEF Coming, TeamCalled
    <3>5. CASE who = to
      <4>1. to = from
        BY <3>2, <3>5
      <4>2. \A t \in team' : t.pair = who => t = [pair |-> to, name |-> n]
        BY <1>8, <3>1, <3>5, <4>1
      <4>3. [pair |-> to, name |-> n] \in {t \in team' : t.pair = who}
        BY <1>8, <3>5
      <4>4. ASSUME match[m].st = "coming", ~Kind("reopen")
            PROVE  match'[m].sides[i].name = n /\ match'[m].title \in {Own, Title(match'[m].sides)}
        <5>1. TeamCalled(match[m].sides[i]) /\ match[m].title \in {Own, Title(match[m].sides)}
          BY <2>3, <2>5, <4>4 DEF Coming
        <5>2. CASE n = old.name
          <6>1. match[m].sides[i].name = old.name
            BY <3>1, <3>5, <4>1, <5>1 DEF TeamCalled, TeamOf
          <6> QED BY <1>8, <5>1, <5>2, <6>1
        <5>3. CASE n # old.name
          BY <1>8, <2>1, <2>5, <3>5, <4>4, <5>1, <5>3 DEF Coming
        <5> QED BY <5>2, <5>3
      <4> QED BY <4>2, <4>3, <4>4
    <3> QED BY <3>4, <3>5
  <2>6. ~match[m].hand /\ match[m].mode = "2x2" => TeamOf(match[m].sides[i].who)' # {}
    BY <2>2, <2>5 DEF TeamOf
  <2>7. ~match[m].hand /\ match[m].mode = "2x2" /\ match[m].st = "coming" /\ ~Kind("reopen") =>
          TeamCalled(match[m].sides[i])' /\ match'[m].title \in {Own, Title(match'[m].sides)}
    BY <2>2, <2>5 DEF TeamOf, TeamCalled
  <2> QED BY <1>4, <2>2, <2>3, <2>4, <2>6, <2>7 DEF Right, Coming, Kind
<1>9. \/ UNCHANGED teamVars
      \/ \E old \in TeamOf(from) :
           /\ to = from \/ TeamOf(to) = {}
           /\ team' = (team \ {old}) \cup {[pair |-> to, name |-> n]}
           /\ IF n = old.name THEN match' = match
              ELSE \A m \in DOMAIN match :
                /\ \A i \in SidesOf(m) : match'[m].sides[i].name =
                     IF match[m].mode = "2x2" /\ Coming(m) /\ match[m].sides[i].who = to
                     THEN n ELSE match[m].sides[i].name
                /\ match[m].title \in {Own, Title(match[m].sides)} =>
                     match'[m].title \in {Own, Title(match'[m].sides)}
  BY <1>1, <1>2, <1>3, TeamUpdated
<1> QED BY <1>7, <1>8, <1>9

\* A new match is called as the request has seen players and teams.
LEMMA CalledMatch ==
  ASSUME Tables, CalledAlone, UNCHANGED account, NEW p \in Request, CreateMatch(p)
  PROVE  AllRight'
<1> DEFINE k == Len(match) + 1
           new == [mode |-> req[p].at, st |-> "coming", sides |-> req[p].args, title |-> Title(req[p].args),
                  hand |-> FALSE]
<1>1. /\ load' = load /\ team' = team /\ req[p].at \in {"1x1", "2x2"}
      /\ \/ match' = match
         \/ /\ DOMAIN match' = DOMAIN match \cup {k} /\ k \notin DOMAIN match
            /\ \A m \in DOMAIN match : match'[m] = match[m]
            /\ match'[k] = new
            /\ DOMAIN req[p].args = 1..2 /\ \A i \in 1..2 : req[p].args[i].who = DOMAIN req[p].args[i].called
  BY MatchCreated DEF AboutTeams
<1>2. AllRight
  BY DEF CalledAlone
<1>3. Here' = Here
  BY DEF Here
<1>4. CASE match' = match
  BY <1>1, <1>2, <1>4, CalledTeams DEF TeamOf
<1>5. CASE /\ DOMAIN match' = DOMAIN match \cup {k} /\ k \notin DOMAIN match
           /\ \A m \in DOMAIN match : match'[m] = match[m]
           /\ match'[k] = new
           /\ DOMAIN req[p].args = 1..2 /\ \A i \in 1..2 : req[p].args[i].who = DOMAIN req[p].args[i].called
  <2> SUFFICES ASSUME NEW m \in Matches', NEW i \in SidesOf(m)' PROVE Right(m, i)'
    BY DEF AllRight
  <2>1. CASE m \in DOMAIN match
    <3>1. m \in Matches /\ match'[m] = match[m] /\ i \in SidesOf(m)
      BY <1>5, <2>1 DEF Matches, SidesOf
    <3>2. Right(m, i) /\ match[m].sides[i].who \subseteq Here
      BY <1>2, <3>1 DEF AllRight, Right
    <3>3. {t \in team' : t.pair = match[m].sides[i].who} = TeamOf(match[m].sides[i].who)
      BY <1>1 DEF TeamOf
    <3> QED BY <1>1, <1>3, <3>1, <3>2, <3>3, RightKept
  <2>2. CASE m = k
    <3> DEFINE s == req[p].args[i]
    <3>1. /\ match'[m].mode = req[p].at /\ match'[m].sides = req[p].args
          /\ match'[m].title = Title(req[p].args) /\ i \in 1..2
      BY <1>5, <2>2 DEF SidesOf
    <3>2. CalledBy(req[p]) /\ Carries(req[p])
      BY DEF CalledAlone, Tables, RequestTable
    <3>3. s.who = DOMAIN s.called
      BY <1>5, <3>1
    <3>4. s.who \subseteq Here /\ SideCalled(s)
      BY <1>1, <3>1, <3>2 DEF CalledBy
    <3>5. req[p].at = "2x2" => TeamOf(s.who) # {} /\ TeamCalled(s)
      BY <3>1, <3>2 DEF CalledBy
    <3>6. SideCalled(match[m].sides[i])'
      BY <3>1, <3>4 DEF SideCalled
    <3>7. match'[m].mode = "2x2" => TeamOf(match[m].sides[i].who)' # {} /\ TeamCalled(match[m].sides[i])'
      BY <1>1, <3>1, <3>5 DEF TeamOf, TeamCalled
    <3> QED BY <1>3, <3>1, <3>3, <3>4, <3>6, <3>7 DEF Right
  <2> QED BY <1>5, <2>1, <2>2 DEF Matches
<1> QED BY <1>1, <1>4, <1>5

\* A patch of one match.
LEMMA CalledPatched ==
  ASSUME AllRight, UNCHANGED account, team' = team, load' = load, NEW m \in Matches,
         DOMAIN match' = DOMAIN match, \A k \in DOMAIN match \ {m} : match'[k] = match[k],
         match'[m].mode = match[m].mode, match'[m].sides = match[m].sides, match'[m].hand = match[m].hand,
         match'[m].title \in {match[m].title, Own},
         match'[m].st = "coming" => match[m].st = "coming" \/ Kind("reopen")
  PROVE  AllRight'
<1> SUFFICES ASSUME NEW k \in Matches', NEW i \in SidesOf(k)' PROVE Right(k, i)'
  BY DEF AllRight
<1>1. /\ k \in Matches \/ k = m
      /\ match'[k].mode = match[k].mode /\ match'[k].sides = match[k].sides /\ match'[k].hand = match[k].hand
      /\ i \in SidesOf(k)
      /\ match'[k].title \in {match[k].title, Own}
      /\ match'[k].st = "coming" => match[k].st = "coming" \/ Kind("reopen")
  BY DEF Matches, SidesOf
<1>2. Right(k, i) /\ match[k].sides[i].who \subseteq Here /\ Here' = Here
  BY <1>1 DEF AllRight, Right, Here
<1>3. {t \in team' : t.pair = match[k].sides[i].who} = TeamOf(match[k].sides[i].who)
  BY DEF TeamOf
<1> QED BY <1>1, <1>2, <1>3, RightKept

\* A match made by hand is right if its players have accounts.
LEMMA CalledByHand ==
  ASSUME AllRight, UNCHANGED account, team' = team, load' = load, NEW m \in Matches, NEW us \in SUBSET Here,
         MadeByHand(m, us)
  PROVE  AllRight'
<1> SUFFICES ASSUME NEW k \in Matches', NEW i \in SidesOf(k)' PROVE Right(k, i)'
  BY DEF AllRight
<1>0. Here' = Here
  BY DEF Here
<1>1. CASE k # m
  <2>1. k \in Matches /\ i \in SidesOf(k) /\ match'[k] = match[k]
    BY <1>1 DEF MadeByHand, Matches, SidesOf
  <2>2. Right(k, i) /\ match[k].sides[i].who \subseteq Here
    BY <2>1 DEF AllRight, Right
  <2>3. {t \in team' : t.pair = match[k].sides[i].who} = TeamOf(match[k].sides[i].who)
    BY DEF TeamOf
  <2> QED BY <1>0, <2>1, <2>2, <2>3, RightKept
<1>2. CASE k = m
  <2>1. match'[m].hand /\ i \in DOMAIN match'[m].sides
    BY <1>2 DEF MadeByHand, SidesOf
  <2>2. match'[m].sides[i].who = DOMAIN match'[m].sides[i].called /\ match'[m].sides[i].who \subseteq Here
    <3>1. CASE match'[m].sides[i].who = us /\ DOMAIN match'[m].sides[i].called = us
      BY <3>1
    <3>2. CASE /\ i \in SidesOf(m) /\ match'[m].sides[i].who = match[m].sides[i].who
               /\ match'[m].sides[i].called = match[m].sides[i].called
      BY <3>2 DEF AllRight, Right
    <3> QED BY <2>1, <3>1, <3>2 DEF MadeByHand
  <2> QED BY <1>0, <1>2, <2>1, <2>2 DEF Right
<1> QED BY <1>1, <1>2

LEMMA CalledHand ==
  ASSUME Tables, CalledAlone, UNCHANGED account, NEW p \in Request, AddParticipant(p) \/ UpdateParticipant(p)
  PROVE  AllRight'
<1>1. /\ load' = load /\ team' = team /\ req[p].at \in {"add", "edit"}
      /\ match' = match \/ \E m \in Matches : MadeByHand(m, req[p].args[2])
  BY ParticipantAdded, ParticipantUpdated DEF AboutTeams, At
<1>2. req[p].args[2] \in SUBSET Here
  BY <1>1 DEF CalledAlone, CalledBy
<1>3. CASE match' = match
  BY <1>1, <1>3, CalledTeams DEF CalledAlone, TeamOf
<1>4. ASSUME NEW m \in Matches, MadeByHand(m, req[p].args[2]) PROVE AllRight'
  <2>1. PICK us \in SUBSET Here : us = req[p].args[2]
    BY <1>2
  <2> QED BY <1>1, <1>4, <2>1, CalledByHand DEF CalledAlone
<1> QED BY <1>1, <1>3, <1>4

LEMMA CalledTeamsStep ==
  ASSUME Tables, TeamsHere, CalledAlone, OneServed, Alone, UNCHANGED account, TeamsStep
  PROVE  CalledAlone'
<1>0. AllRight
  BY DEF CalledAlone
<1>1. ASSUME NEW p \in Request \ Idle, \/ CreateTeam(p) \/ UpdateTeam(p) \/ DeleteTeam(p) \/ CreateMatch(p)
                                       \/ AddParticipant(p) \/ UpdateParticipant(p)
      PROVE  CalledAlone'
  <2>1. AboutTeams(p) /\ req'[p] = Blank
    BY <1>1, TeamCreated, TeamUpdated, TeamDropped, MatchCreated, ParticipantAdded, ParticipantUpdated
  <2>2. AllRight'
    BY <1>0, <1>1, CalledCreated, CalledUpdated, CalledDropped, CalledMatch, CalledHand
  <2>3. Lone(p) /\ Others(p) /\ req'[p].at \notin CalledAt
    BY <2>1, LoneFacts, BlankFacts DEF Serving, AboutTeams, CalledAt
  <2> QED BY <2>2, <2>3, CalledQuiet DEF CalledAlone
<1>2. ASSUME NEW p \in Server, AboutTeams(p), UNCHANGED teamVars, CalledBy(req[p])'
      PROVE  CalledAlone'
  <2>1. p \in Request /\ Lone(p)
    BY LoneFacts DEF Serving
  <2>2. \A q \in Request : CalledBy(req[q])'
    BY <1>2, <2>1, CalledIdle DEF AboutTeams
  <2>3. AllRight'
    BY <1>0, <1>2, CalledTeams DEF teamVars, AboutTeams, TeamOf
  <2> QED BY <2>2, <2>3 DEF CalledAlone
<1>3. ASSUME NEW p \in Server, NEW pair \in Pairs, NEW n \in TeamName, HandleCreateTeam(p, pair, n)
      PROVE  CalledAlone'
  <2>1. AboutTeams(p) /\ UNCHANGED teamVars /\ req'[p].at = "team"
    BY <1>3, TeamAsked
  <2> QED BY <1>2, <2>1 DEF CalledBy
<1>4. ASSUME NEW p \in Server, NEW t \in team, NEW pair \in Pairs, NEW n \in TeamName, HandleUpdateTeam(p, t, pair, n)
      PROVE  CalledAlone'
  <2>1. /\ AboutTeams(p) /\ UNCHANGED teamVars
        /\ req'[p].at = "update" /\ req'[p].args[1] = t.pair /\ req'[p].args[2] = pair
        /\ pair # t.pair => ~Played(t.pair)
    BY <1>4, UpdateAsked
  <2>2. CalledBy(req[p])'
    <3>1. match' = match
      BY <2>1 DEF teamVars
    <3>2. Matches' = Matches /\ \A m \in Matches : match'[m] = match[m]
      BY <3>1 DEF Matches
    <3>3. req'[p].args[2] # req'[p].args[1] => ~Played(req[p].args[1])'
      BY <2>1, <3>2 DEF Played, SidesOf
    <3> QED BY <2>1, <3>3 DEF CalledBy
  <2> QED BY <1>2, <2>1, <2>2
<1>5. ASSUME NEW p \in Server, NEW t \in team, HandleDeleteTeam(p, t) PROVE CalledAlone'
  <2>1. /\ AboutTeams(p) /\ UNCHANGED teamVars
        /\ req'[p].at = "drop" /\ req'[p].args[1] = t.pair /\ ~Played(t.pair)
    BY <1>5, DropAsked
  <2>2. CalledBy(req[p])'
    <3>1. match' = match
      BY <2>1 DEF teamVars
    <3>2. Matches' = Matches /\ \A m \in Matches : match'[m] = match[m]
      BY <3>1 DEF Matches
    <3>3. ~Played(req[p].args[1])'
      BY <2>1, <3>2 DEF Played, SidesOf
    <3> QED BY <2>1, <3>3 DEF CalledBy
  <2> QED BY <1>2, <2>1, <2>2
<1>6. ASSUME NEW p \in Server, NEW t \in team, NEW o \in team, HandleCreateMatch(p, "2x2", TeamSide(t), TeamSide(o))
      PROVE  CalledAlone'
  <2>1. \A r \in {t, o} :
          /\ TeamSide(r) \in Side /\ TeamSide(r).who = r.pair /\ r.pair # {} /\ TeamSide(r).name = r.name
          /\ DOMAIN TeamSide(r).called = r.pair /\ SideCalled(TeamSide(r))
    BY TeamSideFacts DEF Tables
  <2>2. \A r \in {t, o} :
          /\ TeamSide(r).who \subseteq Here /\ TeamOf(TeamSide(r).who) # {} /\ TeamCalled(TeamSide(r))
    BY <2>1 DEF TeamsHere, TeamOf, TeamCalled
  <2>3. /\ AboutTeams(p) /\ UNCHANGED teamVars
        /\ req'[p].at = "2x2" /\ req'[p].args[1] = TeamSide(t) /\ req'[p].args[2] = TeamSide(o)
    BY <1>6, <2>1, MatchAsked
  <2>4. CalledBy(req[p])'
    <3>1. Here' = Here /\ team' = team
      BY <2>3 DEF Here, teamVars
    <3>2. ASSUME NEW i \in 1..2
          PROVE  /\ req'[p].args[i].who \subseteq Here' /\ SideCalled(req[p].args[i])'
                 /\ TeamOf(req[p].args[i].who)' # {} /\ TeamCalled(req[p].args[i])'
      <4>1. \E r \in {t, o} : req'[p].args[i] = TeamSide(r)
        BY <2>3
      <4>2. PICK s : /\ s = req'[p].args[i] /\ s.who \subseteq Here /\ TeamOf(s.who) # {}
                     /\ TeamCalled(s) /\ SideCalled(s)
        BY <2>1, <2>2, <4>1
      <4> QED BY <3>1, <4>2 DEF SideCalled, TeamCalled, TeamOf
    <3> QED BY <2>3, <3>2 DEF CalledBy
  <2> QED BY <1>2, <2>3, <2>4
<1>7. ASSUME NEW p \in Server, NEW u \in Here, NEW v \in Here, HandleCreateMatch(p, "1x1", PlayerSide(u), PlayerSide(v))
      PROVE  CalledAlone'
  <2>1. \A w \in {u, v} :
          /\ PlayerSide(w) \in Side /\ PlayerSide(w).who = {w}
          /\ DOMAIN PlayerSide(w).called = {w} /\ SideCalled(PlayerSide(w))
    BY PlayerSideFacts DEF Tables
  <2>2. /\ AboutTeams(p) /\ UNCHANGED teamVars
        /\ req'[p].at = "1x1" /\ req'[p].args[1] = PlayerSide(u) /\ req'[p].args[2] = PlayerSide(v)
    BY <1>7, <2>1, MatchAsked
  <2>3. CalledBy(req[p])'
    <3>1. Here' = Here
      BY DEF Here
    <3>2. ASSUME NEW i \in 1..2
          PROVE  req'[p].args[i].who \subseteq Here' /\ SideCalled(req[p].args[i])'
      <4>1. \E w \in {u, v} : req'[p].args[i] = PlayerSide(w)
        BY <2>2
      <4>2. PICK s : s = req'[p].args[i] /\ s.who \subseteq Here /\ SideCalled(s)
        BY <2>1, <4>1
      <4> QED BY <3>1, <4>2 DEF SideCalled
    <3> QED BY <2>2, <3>2 DEF CalledBy
  <2> QED BY <1>2, <2>2, <2>3
<1>8. ASSUME NEW p \in Server, NEW m \in Matches, req'[p] = Blank, AboutTeams(p), team' = team,
             DOMAIN match' = DOMAIN match, \A k \in DOMAIN match \ {m} : match'[k] = match[k],
             match'[m].mode = match[m].mode, match'[m].sides = match[m].sides, match'[m].hand = match[m].hand,
             match'[m].title \in {match[m].title, Own},
             match'[m].st = "coming" => match[m].st = "coming" \/ Kind("reopen")
      PROVE  CalledAlone'
  <2>1. p \in Request /\ Lone(p) /\ Others(p) /\ load' = load
    BY <1>8, LoneFacts DEF Serving, AboutTeams
  <2>2. AllRight'
    BY <1>0, <1>8, <2>1, CalledPatched
  <2>3. req'[p].at \notin CalledAt
    BY <1>8, BlankFacts DEF CalledAt
  <2> QED BY <2>1, <2>2, <2>3, CalledQuiet DEF CalledAlone
<1>9. ASSUME NEW p \in Server, NEW m \in Matches,
             \/ HandleUpdateMatch(p, m, "finish", "finished") \/ HandleUpdateMatch(p, m, "reopen", "coming")
             \/ HandleUpdateMatch(p, m, "cancel", "gone")
      PROVE  CalledAlone'
  <2>1. ASSUME NEW kind, NEW st \in {"coming", "finished", "gone"}, HandleUpdateMatch(p, m, kind, st),
               st = "coming" => kind = "reopen"
        PROVE  CalledAlone'
    <3>1. /\ AboutTeams(p) /\ team' = team
          /\ req'[p] = Blank /\ Kind(kind) /\ DOMAIN match' = DOMAIN match
          /\ \A k \in DOMAIN match \ {m} : match'[k] = match[k]
          /\ match'[m].st = st /\ match'[m].mode = match[m].mode /\ match'[m].sides = match[m].sides
          /\ match'[m].title = match[m].title /\ match'[m].hand = match[m].hand
      BY <1>0, <2>1, MatchPatched
    <3>2. st = "coming" => Kind("reopen")
      BY <2>1, <3>1
    <3> QED BY <1>8, <3>1, <3>2
  <2>2. CASE HandleUpdateMatch(p, m, "finish", "finished")
    BY <2>1, <2>2
  <2>3. CASE HandleUpdateMatch(p, m, "reopen", "coming")
    BY <2>1, <2>3
  <2>4. CASE HandleUpdateMatch(p, m, "cancel", "gone")
    BY <2>1, <2>4
  <2> QED BY <1>9, <2>2, <2>3, <2>4
<1>10. ASSUME NEW p \in Server, NEW m \in Matches, HandleRetitle(p, m) PROVE CalledAlone'
  BY <1>8, <1>10, MatchRetitled
<1>11. ASSUME NEW p \in Server, HandAsked(p) PROVE CalledAlone'
  <2>1. /\ AboutTeams(p) /\ UNCHANGED teamVars /\ req'[p].at \in {"add", "edit"} /\ req'[p].args[2] \subseteq Here
    BY <1>11, HandAskedFacts
  <2>2. Here' = Here
    BY DEF Here
  <2>3. CalledBy(req[p])'
    BY <2>1, <2>2 DEF CalledBy
  <2> QED BY <1>2, <2>1, <2>3
<1> QED BY <1>1, <1>3, <1>4, <1>5, <1>6, <1>7, <1>9, <1>10, <1>11 DEF TeamsStep, HandAsked

\* What a request has seen stays so while names, teams and matches do.
LEMMA CalledStays ==
  ASSUME NEW p \in Request, CalledBy(req[p]), req'[p] = req[p], UNCHANGED teamVars, HereKept
  PROVE  CalledBy(req[p])'
<1>1. PICK r : r = req[p]
  OBVIOUS
<1>2. team' = team /\ match' = match
  BY DEF teamVars
<1>3. r.at = "clear" => ~HasTeamHistory(r.user)'
  BY <1>1, <1>2 DEF CalledBy, HasTeamHistory, Matches, SidesOf
<1>4. r.at = "update" /\ r.args[2] # r.args[1] => ~Played(r.args[1])'
  BY <1>1, <1>2 DEF CalledBy, Played, Matches, SidesOf
<1>5. r.at = "drop" => ~Played(r.args[1])'
  BY <1>1, <1>2 DEF CalledBy, Played, Matches, SidesOf
<1>6. ASSUME r.at \in {"1x1", "2x2"}, NEW i \in 1..2
      PROVE  r.args[i].who \subseteq Here' /\ SideCalled(r.args[i])'
  <2>1. r.args[i].who \subseteq Here /\ SideCalled(r.args[i])
    BY <1>1, <1>6 DEF CalledBy
  <2> QED BY <2>1 DEF HereKept, SideCalled
<1>7. ASSUME r.at = "2x2", NEW i \in 1..2
      PROVE  TeamOf(r.args[i].who)' # {} /\ TeamCalled(r.args[i])'
  <2>1. TeamOf(r.args[i].who) # {} /\ TeamCalled(r.args[i])
    BY <1>1, <1>7 DEF CalledBy
  <2> QED BY <1>2, <2>1 DEF TeamOf, TeamCalled
<1>9. r.at \in {"add", "edit"} => r.args[2] \subseteq Here'
  BY <1>1 DEF CalledBy, HereKept
<1>8. CalledBy(r)'
  BY <1>3, <1>4, <1>5, <1>6, <1>7, <1>9 DEF CalledBy
<1> QED BY <1>1, <1>8 DEF CalledBy

LEMMA CalledKept ==
  ASSUME Footing, Kept, Managed, Called, [Next]_vars
  PROVE  Called'
<1>0. Tables /\ TeamsHere
  BY DEF Footing, Kept
<1> SUFFICES ASSUME Alone' PROVE CalledAlone'
  BY DEF Called
<1>1. CASE AccountsStep /\ UNCHANGED teamVars
  <2>1. /\ load' = load /\ HereKept
        /\ req' = req \/ \E p \in Request : p \in Serving /\ AboutAccounts(p)
    BY <1>0, <1>1, AccountsPlace DEF Footing, Apart
  <2>2. Alone /\ CalledAlone /\ OneServed
    BY <2>1 DEF Alone, Called, Managed, ManagedAlone
  <2>3. AllRight'
    BY <1>1, <2>1, <2>2, CalledElsewhere DEF CalledAlone
  <2>4. CASE req' = req
    <3>1. ASSUME NEW p \in Request PROVE CalledBy(req[p])'
      BY <1>1, <2>1, <2>2, <2>4, CalledStays DEF CalledAlone
    <3> QED BY <2>3, <3>1 DEF CalledAlone
  <2>5. ASSUME NEW p \in Request, p \in Serving, AboutAccounts(p) PROVE CalledAlone'
    <3>1. Lone(p) /\ Others(p) /\ req'[p].at \notin CalledAt
      BY <1>0, <2>2, <2>5, LoneFacts DEF AboutAccounts, AccountsAt, CalledAt
    <3> QED BY <2>3, <3>1, CalledQuiet DEF CalledAlone
  <2> QED BY <2>1, <2>4, <2>5
<1>2. CASE TeamsStep /\ UNCHANGED accountVars
  <2>1. load' = load
    BY <1>0, <1>2, TeamsPlace
  <2>2. Alone /\ CalledAlone /\ OneServed
    BY <2>1 DEF Alone, Called, Managed, ManagedAlone
  <2> QED BY <1>0, <1>2, <2>2, CalledTeamsStep DEF accountVars
<1>3. CASE MediaStep /\ UNCHANGED <<accountVars, teamVars>>
  <2>1. PICK p \in Request : p \in Serving /\ AboutMedia(p)
    BY <1>0, <1>3, MediaPlace
  <2>2. load' = load /\ HereKept
    BY <1>0, <1>3, MediaPlace DEF HereKept, accountVars, Here
  <2>3. Alone /\ CalledAlone /\ OneServed
    BY <2>2 DEF Alone, Called, Managed, ManagedAlone
  <2>4. AllRight'
    BY <1>3, <2>2, <2>3, CalledElsewhere DEF CalledAlone
  <2>5. Lone(p) /\ Others(p) /\ req'[p].at \notin CalledAt
    BY <1>0, <2>1, <2>3, LoneFacts DEF AboutMedia, MediaAt, CalledAt
  <2> QED BY <2>4, <2>5, CalledQuiet DEF CalledAlone
<1>4. CASE UNCHANGED <<load, req, accountVars, teamVars>>
  <2>1. HereKept /\ UNCHANGED teamVars /\ load' = load /\ req' = req
    BY <1>4 DEF HereKept, accountVars, Here
  <2>2. Alone /\ CalledAlone
    BY <2>1 DEF Alone, Called
  <2>3. AllRight'
    BY <2>1, <2>2, CalledElsewhere DEF CalledAlone
  <2>4. ASSUME NEW p \in Request PROVE CalledBy(req[p])'
    BY <2>1, <2>2, CalledStays DEF CalledAlone
  <2> QED BY <2>3, <2>4 DEF CalledAlone
<1>5. ASSUME NEW p \in Request \ Idle, RenameEverywhere(p) PROVE CalledAlone'
  <2>1. AboutAccounts(p) /\ req'[p] = Blank
    BY <1>0, <1>5, UserRenamed DEF RenameEverywhere
  <2>2. Alone /\ CalledAlone /\ OneServed
    BY <2>1 DEF Alone, Called, Managed, ManagedAlone, AboutAccounts
  <2>3. AllRight'
    BY <1>0, <1>5, <2>2, CalledRenamed DEF CalledAlone
  <2>4. Lone(p) /\ Others(p) /\ req'[p].at \notin CalledAt
    BY <1>0, <1>5, <2>1, <2>2, LoneFacts, BlankFacts DEF AboutAccounts, CalledAt, Serving
  <2> QED BY <2>3, <2>4, CalledQuiet DEF CalledAlone
<1>6. ASSUME NEW p \in Request \ Idle, CheckEmpty(p) PROVE CalledAlone'
  <2>1. /\ Others(p) /\ load' = load /\ UNCHANGED <<accountVars, teamVars>>
        /\ \/ req'[p].at = "clear" /\ req'[p].user = req[p].user /\ ~HasTeamHistory(req[p].user)
           \/ req'[p] = Blank
    BY <1>0, <1>6, Checked DEF Keeps
  <2>2. Alone /\ CalledAlone /\ OneServed
    BY <2>1 DEF Alone, Called, Managed, ManagedAlone
  <2>3. HereKept
    BY <2>1 DEF HereKept, accountVars, Here
  <2>4. AllRight'
    BY <2>1, <2>2, <2>3, CalledElsewhere DEF CalledAlone
  <2>5. CalledBy(req[p])'
    <3>1. CASE req'[p] = Blank
      BY <3>1, BlankFacts DEF CalledBy
    <3>2. CASE req'[p].at = "clear" /\ req'[p].user = req[p].user /\ ~HasTeamHistory(req[p].user)
      <4>1. PICK u : u = req[p].user
        OBVIOUS
      <4>2. ~HasTeamHistory(u)'
        BY <2>1, <3>2, <4>1 DEF HasTeamHistory, Matches, teamVars, SidesOf
      <4>3. ~HasTeamHistory(req[p].user)'
        BY <3>2, <4>1, <4>2 DEF HasTeamHistory
      <4> QED BY <3>2, <4>3 DEF CalledBy
    <3> QED BY <2>1, <3>1, <3>2
  <2>6. Lone(p)
    BY <1>0, <1>6, <2>2, LoneFacts DEF Serving
  <2>7. \A q \in Request : CalledBy(req[q])'
    BY <1>6, <2>1, <2>5, <2>6, CalledIdle
  <2> QED BY <2>4, <2>7 DEF CalledAlone
<1>7. ASSUME NEW p \in Request \ Idle, DeleteEmptyUser(p) PROVE CalledAlone'
  <2>1. AboutAccounts(p) /\ req'[p] = Blank /\ At(p, "clear")
    BY <1>0, <1>7, Deleted, UserDeleted
  <2>2. Alone /\ CalledAlone /\ OneServed
    BY <2>1 DEF Alone, Called, Managed, ManagedAlone, AboutAccounts
  <2>3. ~HasTeamHistory(req[p].user)
    BY <1>7, <2>1, <2>2 DEF CalledAlone, CalledBy, At
  <2>4. AllRight'
    BY <1>0, <1>7, <2>2, <2>3, CalledDeleted DEF CalledAlone
  <2>5. Lone(p) /\ Others(p) /\ req'[p].at \notin CalledAt
    BY <1>0, <1>7, <2>1, <2>2, LoneFacts, BlankFacts DEF AboutAccounts, CalledAt, Serving
  <2> QED BY <2>4, <2>5, CalledQuiet DEF CalledAlone
<1>8. CASE Start
  <2>1. /\ Boot /\ UNCHANGED teamVars /\ load' = load
        /\ \A p \in Request : req'[p] = Blank
        /\ \A v \in Here : account'[v].st = "here" /\ account'[v].name = account[v].name
    BY <1>0, <1>8, BootFacts DEF Start
  <2>2. HereKept
    BY <2>1 DEF HereKept, Here
  <2>3. Alone /\ CalledAlone
    BY <2>1 DEF Alone, Called
  <2>4. AllRight'
    BY <2>1, <2>2, <2>3, CalledElsewhere DEF CalledAlone
  <2>5. \A p \in Request : CalledBy(req[p])'
    BY <2>1, BlankFacts DEF CalledBy
  <2> QED BY <2>4, <2>5 DEF CalledAlone
<1>9. Jobs /\ UNCHANGED <<accountVars, teamVars>> => UNCHANGED <<load, req, accountVars, teamVars>>
  BY DEF Jobs
<1>10. UNCHANGED vars => UNCHANGED <<load, req, accountVars, teamVars>>
  BY DEF vars, accountVars, teamVars
<1> QED BY <1>1, <1>2, <1>3, <1>4, <1>5, <1>6, <1>7, <1>8, <1>9, <1>10 DEF Next

LEMMA CalledFirst == ASSUME Init PROVE Called
<1>1. match = <<>> /\ \A p \in Request : req[p] = Blank
  BY DEF Init, TeamsInit
<1>2. \A p \in Request : CalledBy(req[p])
  BY <1>1, BlankFacts DEF CalledBy
<1>3. Matches = {}
  BY <1>1 DEF Matches
<1> QED BY <1>2, <1>3 DEF Called, CalledAlone, AllRight

LEMMA HistoryInvariant == Spec => [](Kept /\ Called)
<1>1. Init => Kept /\ Called
  BY KeptFirst, CalledFirst
<1>2. Footing /\ Managed /\ (Kept /\ Called) /\ [Next]_vars => (Kept /\ Called)'
  BY KeptKept, CalledKept
<1> QED BY <1>1, <1>2, FootingInvariant, ManagedInvariant, PTL DEF Spec

\* Matches keep who played, in whose team and under what name.
THEOREM HistoryTheorem == Spec => []HistoryKept
<1>1. Footing /\ Kept /\ Called => HistoryKept
  <2> SUFFICES ASSUME Footing, Kept, Called PROVE HistoryKept
    OBVIOUS
  <2>1. ASSUME NEW m \in Matches PROVE match[m].mode \in {"1x1", "2x2"}
    <3>1. match \in Seq(Record) /\ m \in DOMAIN match
      BY DEF Footing, Tables, TeamTables, Matches
    <3>2. match[m] \in Record
      BY <3>1
    <3> QED BY <3>2 DEF Record
  <2>2. Alone => \A m \in Matches : \A i \in SidesOf(m) : Right(m, i)
    BY DEF Called, CalledAlone, AllRight
  <2>3. PlayersStay
    BY <2>1, <2>2 DEF PlayersStay, Kept, SinglesStay, Right
  <2>4. TeamsStay
    BY <2>2 DEF TeamsStay, Right
  <2>5. NamesAgree
    BY <2>2 DEF NamesAgree, Right, SideCalled, TeamCalled
  <2> QED BY <2>3, <2>4, <2>5 DEF HistoryKept
<1> QED BY <1>1, FootingInvariant, HistoryInvariant, PTL

-------------------------------------------------------------------------------
(* One request at a time: claims.                                          *)

LEMMA ClaimedQuiet ==
  ASSUME WaitsOnce, claim' \subseteq claim,
         \A p \in Request : ClaimedBy(req[p]) /\ (req'[p].at # "submit" \/ (req'[p] = req[p] /\ claim' = claim))
  PROVE  ClaimedAlone'
<1>1. WaitsOnce'
  BY DEF WaitsOnce
<1>2. ASSUME NEW p \in Request PROVE ClaimedBy(req[p])'
  <2>1. CASE req'[p].at # "submit"
    BY <2>1 DEF ClaimedBy
  <2>2. CASE req'[p] = req[p] /\ claim' = claim
    <3>1. PICK r : r = req[p]
      OBVIOUS
    <3>2. Waiting(r.user, r.name)' = Waiting(r.user, r.name)
      BY <2>2 DEF Waiting
    <3>3. ClaimedBy(r)'
      BY <3>1, <3>2 DEF ClaimedBy
    <3> QED BY <2>2, <3>1, <3>3 DEF ClaimedBy
  <2> QED BY <2>1, <2>2
<1> QED BY <1>1, <1>2 DEF ClaimedAlone

LEMMA ClaimedOne ==
  ASSUME NEW p \in Request, Lone(p), Others(p), WaitsOnce', ClaimedBy(req[p])'
  PROVE  ClaimedAlone'
<1>1. ASSUME NEW q \in Request PROVE ClaimedBy(req[q])'
  <2>1. CASE q # p
    BY <2>1 DEF Lone, Others, At, ClaimedBy
  <2> QED BY <2>1
<1> QED BY <1>1 DEF ClaimedAlone

\* What the transaction has found is all there is to replace.
LEMMA ClaimedWritten ==
  ASSUME Tables, ClaimedAlone, NEW p \in Request, Lone(p), At(p, "submit"), SubmitStatClaim(p)
  PROVE  ClaimedAlone'
<1>1. /\ AboutMedia(p) /\ req'[p].at \in {"reload", "remove"}
      /\ claim' = claim \/ claim' = (claim \ OldClaims(p)) \cup {NewClaim(p)}
  BY ClaimWritten
<1>2. \A c \in claim : c.user = req[p].user /\ c.kind = req[p].name /\ c.st = "pending" => c \in OldClaims(p)
  BY DEF ClaimedAlone, ClaimedBy, At, OldClaims, Waiting
<1>3. NewClaim(p).user = req[p].user /\ NewClaim(p).kind = req[p].name
  BY DEF NewClaim
<1>4. WaitsOnce'
  <2>1. CASE claim' = claim
    BY <2>1 DEF ClaimedAlone, WaitsOnce
  <2>2. CASE claim' = (claim \ OldClaims(p)) \cup {NewClaim(p)}
    <3>1. ASSUME NEW c \in claim', NEW d \in claim', c.user = d.user, c.kind = d.kind,
                 c.st = "pending", d.st = "pending"
          PROVE  c = d
      <4>1. CASE c \in claim \ OldClaims(p) /\ d \in claim \ OldClaims(p)
        BY <3>1, <4>1 DEF ClaimedAlone, WaitsOnce
      <4>2. CASE c = NewClaim(p) /\ d \in claim \ OldClaims(p)
        BY <1>2, <1>3, <3>1, <4>2
      <4>3. CASE d = NewClaim(p) /\ c \in claim \ OldClaims(p)
        BY <1>2, <1>3, <3>1, <4>3
      <4> QED BY <2>2, <4>1, <4>2, <4>3
    <3> QED BY <3>1 DEF WaitsOnce
  <2> QED BY <1>1, <2>1, <2>2
<1>5. ClaimedBy(req[p])'
  BY <1>1 DEF ClaimedBy
<1> QED BY <1>1, <1>4, <1>5, ClaimedOne DEF AboutMedia

LEMMA ClaimedDecided ==
  ASSUME Tables, ClaimedAlone, NEW p \in Request, Lone(p), DecideStatClaim(p)
  PROVE  ClaimedAlone'
<1> DEFINE new(c) == IF c.shot = req[p].args[1] THEN [c EXCEPT !.st = req[p].name] ELSE c
<1>1. /\ AboutMedia(p) /\ req'[p] = Blank
      /\ \A d \in claim' : \E c \in claim :
           d.user = c.user /\ d.kind = c.kind /\ (d.st = c.st \/ d.st # "pending") /\ d = new(c)
  BY ClaimDecided
<1>2. ASSUME NEW d \in claim', NEW e \in claim', d.user = e.user, d.kind = e.kind,
             d.st = "pending", e.st = "pending"
      PROVE  d = e
  <2> HIDE DEF new
  <2>1. PICK c \in claim : d.user = c.user /\ d.kind = c.kind /\ c.st = "pending" /\ d = new(c)
    BY <1>1, <1>2
  <2>2. PICK b \in claim : e.user = b.user /\ e.kind = b.kind /\ b.st = "pending" /\ e = new(b)
    BY <1>1, <1>2
  <2>3. c = b
    BY <1>2, <2>1, <2>2 DEF ClaimedAlone, WaitsOnce
  <2> QED BY <2>1, <2>2, <2>3
<1>3. WaitsOnce'
  BY <1>2 DEF WaitsOnce
<1>4. ClaimedBy(req[p])'
  BY <1>1, BlankFacts DEF ClaimedBy
<1> QED BY <1>1, <1>3, <1>4, ClaimedOne DEF AboutMedia

LEMMA ClaimedMedia ==
  ASSUME Tables, Alone, OneServed, ClaimedAlone, MediaStep
  PROVE  ClaimedAlone'
<1>1. ASSUME NEW p \in Request, Others(p), req'[p].at # "submit", Lone(p), UNCHANGED claim
      PROVE  ClaimedAlone'
  <2>1. WaitsOnce'
    BY <1>1 DEF ClaimedAlone, WaitsOnce
  <2>2. ClaimedBy(req[p])'
    BY <1>1 DEF ClaimedBy
  <2> QED BY <1>1, <2>1, <2>2, ClaimedOne
<1>2. ASSUME NEW p \in Request \ Idle, RemoveFile(p) \/ Reload(p) PROVE ClaimedAlone'
  <2>1. /\ p \in Request /\ AboutMedia(p) /\ UNCHANGED claim
        /\ req'[p] = Blank \/ req'[p].at = "remove"
    BY <1>2, FileRemoved, ClaimReloaded DEF mediaVars
  <2>2. Lone(p) /\ req'[p].at # "submit"
    BY <2>1, LoneFacts, BlankFacts DEF Serving
  <2> QED BY <1>1, <2>1, <2>2 DEF AboutMedia
<1>3. ASSUME NEW p \in Request \ Idle, SubmitStatClaim(p) PROVE ClaimedAlone'
  <2>1. Lone(p)
    BY LoneFacts DEF Serving
  <2>2. CASE At(p, "submit")
    BY <1>3, <2>1, <2>2, ClaimedWritten
  <2>3. CASE At(p, "pending")
    <3>1. /\ Others(p) /\ claim' = claim /\ req'[p].user = req[p].user /\ req'[p].name = req[p].name
          /\ req'[p].args[2] = {c.shot : c \in Waiting(req[p].user, req[p].name)}
      BY <1>3, <2>3, ClaimLookedUp DEF AboutMedia, mediaVars
    <3>2. WaitsOnce'
      BY <3>1 DEF ClaimedAlone, WaitsOnce
    <3>3. PICK u, k : u = req[p].user /\ k = req[p].name
      OBVIOUS
    <3>4. Waiting(u, k)' = Waiting(u, k)
      BY <3>1 DEF Waiting
    <3>5. ClaimedBy(req[p])'
      BY <3>1, <3>3, <3>4 DEF ClaimedBy
    <3> QED BY <2>1, <3>1, <3>2, <3>5, ClaimedOne
  <2> QED BY <1>3, <2>2, <2>3 DEF SubmitStatClaim
<1>4. ASSUME NEW p \in Request \ Idle, DecideStatClaim(p) PROVE ClaimedAlone'
  BY <1>4, LoneFacts, ClaimedDecided DEF Serving
<1>5. ASSUME NEW p \in Server, AboutMedia(p), UNCHANGED claim, req'[p].at # "submit" PROVE ClaimedAlone'
  <2>1. p \in Request /\ Lone(p)
    BY LoneFacts DEF Serving
  <2> QED BY <1>1, <1>5, <2>1 DEF AboutMedia
<1>6. ASSUME NEW p \in Server, NEW u \in Here, NEW c \in Clip,
             HandleCreateHighlight(p, u, c) \/ CreateHighlightUpload(p, u, c)
      PROVE  ClaimedAlone'
  <2>1. AboutMedia(p) /\ claim' = claim /\ req'[p].at # "submit"
    BY <1>6, ClipMade, BlankFacts DEF HandleCreateHighlight, CreateHighlightUpload
  <2> QED BY <1>5, <2>1
<1>7. ASSUME NEW p \in Server, NEW u \in Here, NEW k \in StatKind, NEW s \in Shot, HandleSubmitStatClaim(p, u, k, s)
      PROVE  ClaimedAlone'
  <2>1. AboutMedia(p) /\ claim' = claim /\ req'[p].at # "submit"
    BY <1>7, ClaimSent
  <2> QED BY <1>5, <2>1
<1>8. ASSUME NEW p \in Server, NEW u \in Here, NEW c \in claim, NEW st \in Decided, HandleDecideStatClaim(p, u, c, st)
      PROVE  ClaimedAlone'
  <2>1. AboutMedia(p) /\ claim' = claim /\ req'[p].at # "submit"
    BY <1>8, DecisionSent DEF mediaVars
  <2> QED BY <1>5, <2>1
<1>9. ASSUME NEW p \in Server, NEW c \in Shown,
             (\E st \in Decided : HandleModerateHighlight(p, c, st)) \/ HandleDeleteHighlight(p, c)
      PROVE  ClaimedAlone'
  <2>1. AboutMedia(p) /\ claim' = claim /\ req'[p].at # "submit"
    BY <1>9, ClipModerated, ClipDropped, BlankFacts
  <2> QED BY <1>5, <2>1
<1> QED BY <1>2, <1>3, <1>4, <1>6, <1>7, <1>8, <1>9 DEF MediaStep, Decided

LEMMA ClaimedKept ==
  ASSUME Footing, Managed, Claimed, [Next]_vars
  PROVE  Claimed'
<1>0. Tables
  BY DEF Footing
<1> SUFFICES ASSUME Alone' PROVE ClaimedAlone'
  BY DEF Claimed
<1>1. ASSUME load' = load, claim' \subseteq claim,
             \A p \in Request : req'[p].at # "submit" \/ (req'[p] = req[p] /\ claim' = claim)
      PROVE  ClaimedAlone'
  BY <1>1, ClaimedQuiet DEF Claimed, ClaimedAlone, Alone
<1>2. CASE AccountsStep /\ UNCHANGED mediaVars
  <2>1. load' = load /\ (req' = req \/ \E p \in Request : AboutAccounts(p))
    BY <1>0, <1>2, AccountsPlace DEF Footing, Apart
  <2>2. \A p \in Request : req'[p] = req[p] \/ req'[p].at # "submit"
    BY <2>1 DEF AboutAccounts, AccountsAt, Others
  <2> QED BY <1>1, <1>2, <2>1, <2>2 DEF mediaVars
<1>3. CASE TeamsStep /\ UNCHANGED mediaVars
  <2>1. load' = load /\ \E p \in Request : AboutTeams(p)
    BY <1>0, <1>3, TeamsPlace
  <2>2. \A p \in Request : req'[p] = req[p] \/ req'[p].at # "submit"
    BY <2>1 DEF AboutTeams, TeamsAt, Others
  <2> QED BY <1>1, <1>3, <2>1, <2>2 DEF mediaVars
<1>4. CASE MediaStep
  <2>1. load' = load
    BY <1>0, <1>4, MediaPlace
  <2>2. Alone /\ ClaimedAlone /\ OneServed
    BY <2>1 DEF Alone, Claimed, Managed, ManagedAlone
  <2> QED BY <1>0, <1>4, <2>2, ClaimedMedia
<1>5. CASE Jobs
  <2>1. req' = req /\ load' = load /\ \E c \in Clip : JobStep(c) \/ ClientGone(c)
    BY <1>5 DEF Jobs
  <2>2. claim' = claim
    BY <1>0, <2>1, JobWorks DEF JobDone
  <2> QED BY <1>1, <2>1, <2>2
<1>6. ASSUME NEW p \in Request, RenameEverywhere(p), UNCHANGED mediaVars PROVE ClaimedAlone'
  <2>1. AboutAccounts(p)
    BY <1>0, <1>6, UserRenamed DEF RenameEverywhere
  <2>2. load' = load /\ \A q \in Request : req'[q] = req[q] \/ req'[q].at # "submit"
    BY <2>1 DEF AboutAccounts, AccountsAt, Others
  <2> QED BY <1>1, <1>6, <2>2 DEF mediaVars
<1>7. ASSUME NEW p \in Request, CheckEmpty(p) PROVE ClaimedAlone'
  <2>1. /\ Others(p) /\ load' = load /\ UNCHANGED mediaVars
        /\ req'[p].at = "clear" \/ req'[p] = Blank
    BY <1>0, <1>7, Checked
  <2>2. \A q \in Request : req'[q] = req[q] \/ req'[q].at # "submit"
    BY <2>1, BlankFacts DEF Others
  <2> QED BY <1>1, <2>1, <2>2 DEF mediaVars
<1>8. ASSUME NEW p \in Request \ Idle, DeleteEmptyUser(p) PROVE ClaimedAlone'
  <2>1. DeleteUser(p) /\ CascadeMedia(req[p].user)
    BY <1>8 DEF DeleteEmptyUser
  <2>2. AboutAccounts(p) /\ req[p].user \in User /\ req'[p] = Blank
    BY <1>0, <2>1, UserDeleted
  <2>3. claim' \subseteq claim
    BY <1>0, <2>1, <2>2, MediaCleared
  <2>4. Others(p) /\ load' = load
    BY <2>2 DEF AboutAccounts
  <2>5. Alone /\ OneServed
    BY <2>4 DEF Alone, Managed, ManagedAlone
  <2>6. Lone(p)
    BY <1>0, <2>5, LoneFacts DEF Serving
  <2>7. \A q \in Request : req'[q].at # "submit"
    BY <2>2, <2>4, <2>6, BlankFacts DEF Others, Lone, At
  <2> QED BY <1>1, <2>3, <2>4, <2>7
<1>9. CASE Start
  <2>1. (\A p \in Request : req'[p] = Blank) /\ load' = load
    BY <1>0, <1>9, BootFacts DEF Start
  <2>2. claim' = claim
    BY <1>0, <1>9, FilesTaken DEF Start
  <2> QED BY <1>1, <2>1, <2>2, BlankFacts
<1>10. CASE UNCHANGED vars
  <2>1. UNCHANGED <<load, claim, req>>
    BY <1>10 DEF vars
  <2> QED BY <1>1, <2>1
<1> QED BY <1>2, <1>3, <1>4, <1>5, <1>6, <1>7, <1>8, <1>9, <1>10 DEF Next

LEMMA ClaimedFirst == ASSUME Init PROVE Claimed
<1>1. claim = {} /\ \A p \in Request : req[p] = Blank
  BY DEF Init, MediaInit
<1> QED BY <1>1, BlankFacts DEF Claimed, ClaimedAlone, WaitsOnce, ClaimedBy

\* Every clip shown with a video and every screenshot to check has its file, and of a kind
\* of number a player has one to check.
THEOREM MediaTheorem == Spec => []MediaSound
<1>1. Init => Filed /\ Claimed
  BY FiledFirst, ClaimedFirst
<1>2. Footing /\ Managed /\ (Filed /\ Claimed) /\ [Next]_vars => (Filed /\ Claimed)'
  BY FiledKept, ClaimedKept
<1>3. Filed /\ Claimed => MediaSound
  <2>1. Filed => FilesAreThere
    BY DEF Filed, ClipsFiled, Owned, FilesAreThere
  <2>2. Claimed => OnePending
    BY DEF Claimed, ClaimedAlone, WaitsOnce, OnePending
  <2> QED BY <2>1, <2>2 DEF MediaSound
<1> QED BY <1>1, <1>2, <1>3, FootingInvariant, ManagedInvariant, PTL DEF Spec
===============================================================================
