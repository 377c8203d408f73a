------------------------------ MODULE Accounts ------------------------------
(***************************************************************************)
(* The accounts of the site: registration, entry, sessions, roles, a new   *)
(* nick given by a moderator, players entered from the form of a match,    *)
(* links by which a player sets his password, and the organizer whom every *)
(* start of the server provides (internal/store/users.go, user_admin.go,   *)
(* claim.go, CreatePlaceholderUser in matches.go and their handlers).      *)
(*                                                                         *)
(* A request has reached the statement req[p].at; what a transaction does  *)
(* under the advisory lock of registration is checked in one step and      *)
(* committed in another.  The form of a match takes no such lock.  The     *)
(* refusals that change nothing are not steps.                             *)
(* Names are compared without case by the code; here they are values.      *)
(* Left out: the Embark ID, and the limits on attempts.                    *)
(***************************************************************************)
EXTENDS Naturals, Sequences, FiniteSets

CONSTANTS
  Request,           \* requests that may be served at the same time
  User, NoUser,      \* keys of accounts
  Name, NoName,
  Organizer,         \* SUPERADMIN_LOGIN
  Loads              \* bounds: what is asked of the server, see load

ASSUME AccountsAssumption ==
  /\ NoUser \notin User /\ NoName \notin Name /\ Organizer \in Name
  /\ IsFiniteSet(User) /\ IsFiniteSet(Request)

VARIABLES
  load,      \* kinds: what requests come; at, made: how many at a time and in all;
             \* seconds; first, teams: the accounts and teams there are
  account,   \* users
  alias,     \* user_login_aliases
  link,      \* account_claim_tokens
  session,   \* the cookies that were given out
  now,       \* the second on the clock
  req,       \* the requests being served
  made       \* requests made so far

accountVars == <<account, alias, link, session, now>>

\* models.Role: its level is what rights are compared by.
Player     == 10
Moderator  == 50
Superadmin == 100

Blank == [at |-> "idle", user |-> NoUser, name |-> NoName, token |-> 0, role |-> 0, args |-> <<>>]
\* stub, of which the server keeps nothing: the nick under which the form of a match made it.
NoAccount == [st |-> "none", login |-> NoName, name |-> NoName, role |-> Player, pass |-> FALSE, after |-> 0,
              stub |-> NoName]

\* The accounts there are at first: nobody has another's name, and there is an organizer.
ASSUME LoadsAssumption ==
  \A l \in Loads :
    LET first == l.first IN
    /\ l.at \in 0..Cardinality(Request)
    /\ DOMAIN first \subseteq User
    /\ \A u \in DOMAIN first :
         first[u] \in [st : {"here"}, login : Name, name : Name, role : {Player, Moderator, Superadmin},
                      pass : BOOLEAN, after : Nat, stub : {NoName}]
    /\ \E u \in DOMAIN first : first[u].role = Superadmin
    /\ \A u, v \in DOMAIN first :
         u # v => {first[u].login, first[u].name} \cap {first[v].login, first[v].name} = {}

Kind(k) == k \in load.kinds
Alone   == load.at = 1
Here    == {u \in User : account[u].st = "here"}
At(p, s) == req[p].at = s
\* The statement is done and the next one is s; or the request is over.
Go(p, s) == req' = [req EXCEPT ![p].at = s]
Done(p)  == req' = [req EXCEPT ![p] = Blank]
GoIf(p, ok, s) == IF ok THEN Go(p, s) ELSE Done(p)

\* Who serves the next request: one of the idle, which are all alike.
Idle   == {p \in Request : At(p, "idle")}
Server == IF made < load.made /\ Cardinality(Request \ Idle) < load.at THEN {CHOOSE p \in Idle : TRUE} ELSE {}
Arrive(p, kind, r) ==
  /\ Kind(kind)
  /\ made' = made + 1
  /\ req' = [req EXCEPT ![p] = r]
  /\ UNCHANGED load

\* Mutant: a deletion reads the row of the account without FOR UPDATE.
LockedByNobody(u) == FALSE

\* A deletion holds the row of the account: other writers, and rows that refer to it, wait.
Locked(u) == \E p \in Request : req[p].user = u /\ req[p].at \in {"locked", "clear"}
Fresh(u)  == account[u].st = "none" /\ \A p \in Request : req[p].user # u

\* Mutant: nicks that others had before are free.
TakenNow(u, n) == \E v \in Here \ {u} : n \in {account[v].login, account[v].name}

\* The advisory lock that registrations and new nicks share.
Registering == \E p \in Request : req[p].at \in {"signup", "renaming"}
Taken(u, n) ==
  \/ \E v \in Here \ {u} : n \in {account[v].login, account[v].name}
  \/ \E a \in alias : a.name = n /\ a.user # u
\* The unique index on logins, which every writer of an account meets.
LoginTaken(u, n) == \E v \in Here \ {u} : account[v].login = n

\* GetUserAuthByLogin: logins, then names that only one player has, then former nicks.
EntryOf(n) ==
  LET byLogin == {u \in Here : account[u].login = n}
      byName  == {u \in Here : account[u].name = n}
  IN  IF byLogin # {} THEN byLogin
      ELSE IF byName = {} THEN {a.user : a \in {b \in alias : b.name = n}}
      ELSE IF Cardinality(byName) = 1 THEN byName ELSE {}

\* injectUser: a token is good from the second of the account's epoch on.
Signed(u) == u \in Here /\ \E s \in session : s.user = u /\ s.iat >= account[u].after

\* loadManagedAccount: moderators manage players, the organizer everybody.
Manages(by, u) ==
  /\ Signed(by) /\ u \in Here /\ account[by].role >= Moderator
  /\ account[by].role = Superadmin \/ account[u].role < Moderator

-------------------------------------------------------------------------------
(* Registration and entry.                                                 *)

HandleSignup(p, u, n) ==
  /\ Fresh(u) /\ ~Registering /\ ~Taken(u, n)
  /\ Arrive(p, "signup", [Blank EXCEPT !.at = "signup", !.user = u, !.name = n])
  /\ UNCHANGED accountVars

CreateRegisteredUser(p) ==
  LET u == req[p].user IN
  /\ At(p, "signup")
  /\ account' = IF LoginTaken(u, req[p].name) THEN account
                ELSE [account EXCEPT ![u] = [NoAccount EXCEPT !.st = "here", !.login = req[p].name,
                                               !.name = req[p].name, !.pass = TRUE, !.after = now]]
  /\ GoIf(p, ~LoginTaken(u, req[p].name), "session")
  /\ UNCHANGED <<load, alias, link, session, now, made>>

\* A player by his nick, from the form of a match; a login there is already is just found.
HandleCreatePlaceholder(p, u, n) ==
  /\ Fresh(u) /\ ~LoginTaken(u, n)
  /\ Arrive(p, "placeholder", [Blank EXCEPT !.at = "place", !.user = u, !.name = n])
  /\ UNCHANGED accountVars

\* CreateUser, which of names and former nicks knows nothing.
CreatePlaceholderUser(p) ==
  LET u == req[p].user  n == req[p].name IN
  /\ At(p, "place")
  /\ account' = IF LoginTaken(u, n) THEN account
                ELSE [account EXCEPT ![u] = [NoAccount EXCEPT !.st = "here", !.login = n, !.name = n,
                                               !.after = now, !.stub = n]]
  /\ Done(p) /\ UNCHANGED <<load, alias, link, session, now, made>>

\* The password is right; a wrong one changes nothing.
HandleLogin(p, n) ==
  \E u \in EntryOf(n) :
    /\ account[u].pass
    /\ Arrive(p, "login", [Blank EXCEPT !.at = "session", !.user = u])
    /\ UNCHANGED accountVars

\* IssueToken, at the end of three requests.
IssueToken(p) ==
  /\ At(p, "session")
  /\ session' = session \cup {[user |-> req[p].user, iat |-> now]}
  /\ Done(p) /\ UNCHANGED <<load, account, alias, link, now, made>>

HandleLogout(p, u) ==
  /\ Signed(u) /\ ~Locked(u)
  /\ Arrive(p, "logout", Blank)
  /\ account' = [account EXCEPT ![u].after = now]
  /\ UNCHANGED <<alias, link, session, now>>

-------------------------------------------------------------------------------
(* What moderators and the organizer do.                                   *)

HandleRenameUser(p, by, u, n) ==
  /\ Manages(by, u) /\ account[u].role # Superadmin
  /\ Arrive(p, "rename", [Blank EXCEPT !.at = "rename", !.user = u, !.name = n])
  /\ UNCHANGED accountVars

RenameLock(p) ==
  LET u == req[p].user IN
  /\ At(p, "rename") /\ ~Registering
  /\ GoIf(p, u \in Here /\ ~Taken(u, req[p].name), "renaming")
  /\ UNCHANGED <<load, made, accountVars>>

\* What is committed, unless the login was given meanwhile; the copies of the name in
\* matches are Teams'.
Renames(p) == req[p].user \in Here /\ ~LoginTaken(req[p].user, req[p].name)
RenameUser(p) ==
  LET u == req[p].user  n == req[p].name
      known == {a.name : a \in alias}
      former == {account[u].login, account[u].name} \ {n}
  IN
  /\ At(p, "renaming") /\ ~Locked(u)
  /\ Done(p)
  /\ IF Renames(p)
     THEN /\ alias' = {a \in alias : ~(a.user = u /\ a.name = n)}
                      \cup {[name |-> f, user |-> u] : f \in former \ known}
          /\ account' = [account EXCEPT ![u].login = n, ![u].name = n]
     ELSE UNCHANGED <<alias, account>>
  /\ UNCHANGED <<load, link, session, now, made>>

HandleSetUserRole(p, by, u, r) ==
  /\ Signed(by) /\ account[by].role = Superadmin /\ u \in Here
  /\ Arrive(p, "role", [Blank EXCEPT !.user = u, !.role = r,
       !.at = IF account[u].role = Superadmin /\ r # Superadmin THEN "count" ELSE "role"])
  /\ UNCHANGED accountVars

Organizers == {u \in Here : account[u].role = Superadmin}

\* Mutant: off by one.
CountAny(p) ==
  /\ At(p, "count")
  /\ GoIf(p, Cardinality(Organizers) >= 1, "role")
  /\ UNCHANGED <<load, made, accountVars>>

CountSuperadmins(p) ==
  /\ At(p, "count")
  /\ GoIf(p, Cardinality(Organizers) > 1, "role")
  /\ UNCHANGED <<load, made, accountVars>>

SetRole(p) ==
  LET u == req[p].user IN
  /\ At(p, "role") /\ ~Locked(u)
  /\ account' = IF u \in Here THEN [account EXCEPT ![u].role = req[p].role] ELSE account
  /\ Done(p) /\ UNCHANGED <<load, alias, link, session, now, made>>

-------------------------------------------------------------------------------
(* Links by which a player without a password sets one.                    *)

LinksOf(u) == {l \in link : l.user = u}

\* again: ?regenerate=1.
HandleCreateClaimLink(p, by, u, again) ==
  /\ Manages(by, u) /\ ~account[u].pass
  /\ Arrive(p, "link", [Blank EXCEPT !.at = IF again THEN "unlink" ELSE "existing", !.user = u, !.token = made + 1])
  /\ UNCHANGED accountVars

EnsureClaimToken(p) ==
  LET u == req[p].user IN
  /\ \/ At(p, "unlink") /\ link' = link \ LinksOf(u) /\ Go(p, "link")
     \/ At(p, "existing") /\ GoIf(p, LinksOf(u) = {}, "link") /\ UNCHANGED link
     \/ /\ At(p, "link") /\ ~Locked(u) /\ Done(p)
        /\ link' = IF u \in Here THEN link \cup {[user |-> u, token |-> req[p].token]} ELSE link
  /\ UNCHANGED <<load, account, alias, session, now, made>>

HandleResetPassword(p, by, u) ==
  /\ Manages(by, u) /\ by # u
  /\ Arrive(p, "reset", [Blank EXCEPT !.at = "reset", !.user = u, !.token = made + 1])
  /\ UNCHANGED accountVars

ResetPassword(p) ==
  LET u == req[p].user IN
  /\ At(p, "reset") /\ ~Locked(u) /\ Done(p)
  /\ IF u \in Here
     THEN /\ account' = [account EXCEPT ![u].pass = FALSE, ![u].after = now]
          /\ link' = (link \ LinksOf(u)) \cup {[user |-> u, token |-> req[p].token]}
     ELSE UNCHANGED <<account, link>>
  /\ UNCHANGED <<load, alias, session, now, made>>

\* LookupClaimToken: the link of an account that has its password goes.
HandleClaimInfo(p, l) ==
  /\ account[l.user].pass
  /\ Arrive(p, "claim", Blank)
  /\ link' = link \ {l}
  /\ UNCHANGED <<account, alias, session, now>>

HandleClaim(p, l) ==
  /\ ~account[l.user].pass
  /\ Arrive(p, "claim", [Blank EXCEPT !.at = "claim", !.user = l.user, !.token = l.token])
  /\ UNCHANGED accountVars

\* The link is read, the account is looked at, gets its password, and all its links go.
ClaimAccount(p) ==
  LET u == req[p].user IN
  /\ \/ At(p, "claim") /\ GoIf(p, [user |-> u, token |-> req[p].token] \in link, "free")
        /\ UNCHANGED <<account, link>>
     \/ At(p, "free") /\ GoIf(p, u \in Here /\ ~account[u].pass, "password")
        /\ UNCHANGED <<account, link>>
     \/ /\ At(p, "password") /\ ~Locked(u) /\ Go(p, "spent") /\ UNCHANGED link
        /\ account' = IF u \in Here THEN [account EXCEPT ![u].pass = TRUE] ELSE account
     \/ /\ At(p, "spent") /\ GoIf(p, u \in Here, "session")
        /\ link' = link \ LinksOf(u) /\ UNCHANGED account
  /\ UNCHANGED <<load, alias, session, now, made>>

-------------------------------------------------------------------------------
(* The deletion of an account, of which nothing else knows.                *)

HandleDeleteUser(p, by, u) ==
  /\ Manages(by, u) /\ by # u /\ account[u].role # Superadmin
  /\ Arrive(p, "delete", [Blank EXCEPT !.at = "delete", !.user = u])
  /\ UNCHANGED accountVars

LockUser(p) ==
  /\ At(p, "delete") /\ ~Locked(req[p].user)
  /\ GoIf(p, req[p].user \in Here, "locked")
  /\ UNCHANGED <<load, made, accountVars>>

\* With the account go its former nicks and its links.
DeleteUser(p) ==
  LET u == req[p].user IN
  /\ At(p, "clear")
  /\ account' = [account EXCEPT ![u] = [NoAccount EXCEPT !.st = "gone"]]
  /\ alias' = {a \in alias : a.user # u} /\ link' = link \ LinksOf(u)
  /\ Done(p) /\ UNCHANGED <<load, session, now, made>>

-------------------------------------------------------------------------------
(* The server starts anew: what it was serving is lost; EnsureSuperadmin.  *)

EnsureSuperadmin ==
  LET old == {u \in Here : account[u].login = Organizer} IN
  IF old # {}
  THEN account' = [u \in User |-> IF u \in old THEN [account[u] EXCEPT !.role = Superadmin, !.pass = TRUE]
                                  ELSE account[u]]
  ELSE \E u \in User : account[u].st = "none" /\
       account' = [account EXCEPT ![u] = [NoAccount EXCEPT !.st = "here", !.login = Organizer,
                      !.name = Organizer, !.role = Superadmin, !.pass = TRUE, !.after = now]]

Boot ==
  /\ Kind("boot") /\ made < load.made /\ made' = made + 1
  /\ req' = [p \in Request |-> Blank]
  /\ EnsureSuperadmin
  /\ UNCHANGED <<load, alias, link, session, now>>

Second ==
  /\ now < load.seconds /\ now' = now + 1
  /\ UNCHANGED <<load, account, alias, link, session, req, made>>

AccountsInit ==
  /\ account = [u \in User |-> IF u \in DOMAIN load.first THEN load.first[u] ELSE NoAccount]
  /\ alias = {} /\ link = {} /\ now = 0
  /\ session = {[user |-> u, iat |-> 0] : u \in {v \in Here : account[v].role >= Moderator}}

AccountsArrive ==
  \E p \in Server :
    \/ Kind("signup") /\ \E u \in User, n \in Name : HandleSignup(p, u, n)
    \/ Kind("placeholder") /\ \E u \in User, n \in Name : HandleCreatePlaceholder(p, u, n)
    \/ Kind("login")  /\ \E n \in Name : HandleLogin(p, n)
    \/ Kind("logout") /\ \E u \in Here : HandleLogout(p, u)
    \/ Kind("claim")  /\ \E l \in link : HandleClaimInfo(p, l) \/ HandleClaim(p, l)
    \/ \E by \in Here, u \in Here :
         \/ Kind("rename") /\ \E n \in Name : HandleRenameUser(p, by, u, n)
         \/ Kind("role")   /\ \E r \in {Player, Moderator, Superadmin} : HandleSetUserRole(p, by, u, r)
         \/ Kind("link")   /\ \E again \in BOOLEAN : HandleCreateClaimLink(p, by, u, again)
         \/ Kind("reset")  /\ HandleResetPassword(p, by, u)
         \/ Kind("delete") /\ HandleDeleteUser(p, by, u)

\* The steps that leave the rest of the site alone.
AccountsStep ==
  \/ AccountsArrive
  \/ \E p \in Request \ Idle :
       \/ CreateRegisteredUser(p) \/ CreatePlaceholderUser(p) \/ IssueToken(p) \/ RenameLock(p)
       \/ CountSuperadmins(p) \/ SetRole(p) \/ EnsureClaimToken(p) \/ ResetPassword(p) \/ ClaimAccount(p) \/ LockUser(p)
  \/ Second

-------------------------------------------------------------------------------
(* Properties.                                                             *)

AccountsTyped ==
  /\ \A u \in User : account[u].st \in {"none", "here", "gone"}
  /\ \A u \in Here : account[u].login \in Name /\ account[u].name \in Name
  /\ \A a, b \in alias : a.name = b.name => a = b

Names(u) == {account[u].login, account[u].name} \cup {a.name : a \in {b \in alias : b.user = u}}
\* The nicks that the form of a match gave.
Formed   == {account[u].stub : u \in Here}
\* No two players have a name in common, former ones included, whoever registers and is
\* renamed at the same time ("проверка занятости и запись не должны разойтись при гонке").
\* The organizer's own name a start gives to a new account, and the form of a match may
\* give a name or a former nick of another: that nick alone the two may share.
NamesApart ==
  \A u, v \in Here : u # v =>
    Names(u) \cap Names(v) \subseteq {Organizer, account[u].stub, account[v].stub}

\* One request at a time, somebody is left who can appoint others ("нельзя снять роль у
\* последнего организатора").
OrganizerLeft == Alone => Organizers # {}

\* A link is for a player without a password, and a player has one at most ("Гасим все
\* токены этого пользователя — ссылка одноразовая").
LinksServe ==
  Alone /\ ~Kind("boot") /\ Idle = Request =>
    /\ \A l \in link : l.user \in Here /\ ~account[l.user].pass
    /\ \A k, l \in link : k.user = l.user => k = l

\* Whose password is taken away has no session but from that very second ("а старые сессии
\* гаснут"; iat has whole seconds).
SessionsEnd ==
  Alone => \A s \in session :
    s.user \in Here /\ ~account[s.user].pass => s.iat <= account[s.user].after

\* By what a player enters, he enters as long as he has the account: his login, his name on
\* the site and all his former nicks ("по ним игрок всё ещё входит"), unless the form of a
\* match gave that very nick to somebody.
NamesLead ==
  [][\A n \in Name \ ({Organizer} \cup Formed \cup Formed') :
       \A u \in EntryOf(n) : u \in Here' => EntryOf(n)' = {u}]_<<account, alias>>

\* What the comment says of former nicks: a newcomer cannot take them ("а новичок их занять
\* не может").
FormerNicksStay == \A a \in alias, u \in Here : account[u].login = a.name => u = a.user
===============================================================================
