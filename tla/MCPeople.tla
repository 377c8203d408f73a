------------------------------ MODULE MCPeople ------------------------------
(* Small instances of People: three or four accounts, of which one is the organizer's. *)
EXTENDS People, TLC

CONSTANTS u1, u2, u3, u4, k1, k2

Old(login, name, role, pass) ==
  [st |-> "here", login |-> login, name |-> name, role |-> role, pass |-> pass, after |-> 0,
   stub |-> NoName]
Org  == Old("o", "o", Superadmin, TRUE)
Ann  == Old("a", "b", Player, TRUE)
Bob  == Old("c", "c", Player, TRUE)
Mod  == Old("c", "c", Moderator, TRUE)
Film == Old("a", "a", Player, FALSE)

Dan  == Old("d", "d", Player, TRUE)

Plain == [kinds |-> {}, at |-> 1, made |-> 4, seconds |-> 0, teams |-> {},
          first |-> u1 :> Org @@ u2 :> Ann @@ u3 :> Bob]
Two   == [Plain EXCEPT !.at = 2]
Led   == [Plain EXCEPT !.first = u1 :> Org @@ u2 :> Ann @@ u3 :> Mod]
AccountLoads ==
  { [Plain EXCEPT !.kinds = {"signup", "rename", "delete", "boot"}, !.first = u1 :> Org @@ u2 :> Ann],
    [Led   EXCEPT !.kinds = {"signup", "rename", "delete"}, !.at = 2, !.made = 3],
    [Plain EXCEPT !.kinds = {"signup", "rename", "delete", "placeholder"}, !.at = 2, !.made = 3],
    [Plain EXCEPT !.kinds = {"placeholder", "rename", "login", "link", "boot"}, !.first = u1 :> Org @@ u2 :> Ann],
    [Led   EXCEPT !.kinds = {"role", "rename", "login", "boot"}],
    [Plain EXCEPT !.kinds = {"link", "claim", "boot"}, !.first = u1 :> Org @@ u2 :> Film],
    [Plain EXCEPT !.kinds = {"link", "claim", "reset", "delete"}, !.first = u1 :> Org @@ u2 :> Film, !.at = 2],
    [Plain EXCEPT !.kinds = {"login", "logout", "link", "reset", "claim"}, !.seconds = 2, !.made = 5,
                  !.first = u1 :> Org @@ u2 :> Film @@ u3 :> Mod] }
TeamLoads ==
  { [Plain EXCEPT !.kinds = {"team", "update", "drop", "2x2", "finish", "cancel", "retitle", "delete"},
                  !.first = u1 :> Org @@ u2 :> Ann @@ u3 :> Bob @@ u4 :> Dan,
                  !.teams = {[pair |-> {u1, u2}, name |-> "x"], [pair |-> {u3, u4}, name |-> "y"]}],
    [Plain EXCEPT !.kinds = {"team", "update", "2x2", "rename", "reopen", "finish"},
                  !.first = u1 :> Org @@ u2 :> Ann @@ u3 :> Bob @@ u4 :> Dan,
                  !.teams = {[pair |-> {u1, u2}, name |-> "x"], [pair |-> {u3, u4}, name |-> "y"]}],
    [Plain EXCEPT !.kinds = {"rename", "1x1", "delete", "finish"}],
    [Plain EXCEPT !.kinds = {"hand", "1x1", "delete"}, !.at = 2, !.made = 3],
    [Plain EXCEPT !.kinds = {"hand", "2x2", "update", "rename"},
                  !.first = u1 :> Org @@ u2 :> Ann @@ u3 :> Bob @@ u4 :> Dan, !.made = 3,
                  !.teams = {[pair |-> {u1, u2}, name |-> "x"], [pair |-> {u3, u4}, name |-> "y"]}],
    [Two   EXCEPT !.kinds = {"1x1", "delete", "team"}, !.made = 3] }
MediaLoads ==
  { [Plain EXCEPT !.kinds = {"clip", "upload", "moderate", "unclip"}],
    [Plain EXCEPT !.kinds = {"clip", "upload", "boot", "leave", "moderate"}],
    [Plain EXCEPT !.kinds = {"claimed", "decide", "leave", "boot"}],
    [Plain EXCEPT !.kinds = {"claimed", "decide", "delete"}, !.made = 5],
    [Led   EXCEPT !.kinds = {"claimed", "delete", "decide"}, !.at = 2, !.made = 3],
    [Led   EXCEPT !.kinds = {"clip", "upload", "delete"}, !.at = 2, !.made = 3] }
\* A player gets a new nick, and the form of a match enters another under the former one.
FormerLoads == {[Plain EXCEPT !.kinds = {"rename", "placeholder"}, !.made = 2]}
MCLoads == AccountLoads \cup TeamLoads \cup MediaLoads
===============================================================================
