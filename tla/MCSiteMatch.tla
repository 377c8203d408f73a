----------------------------- MODULE MCSiteMatch -----------------------------
(* Small instances of SiteMatch: two or three matches of two or three players. *)
EXTENDS SiteMatch

CONSTANTS m1, m2, m3, u1, u2, u3

Plain == [kinds |-> {}, at |-> 1, made |-> 5, gone |-> FALSE, applied |-> FALSE,
          matches |-> {m1, m2}, users |-> {u1, u2}]

\* What goes on air; who is put in which match; a finished match, with clients that
\* leave; two requests at a time while everybody waits in the pool.
MCLoads ==
  { [Plain EXCEPT !.kinds = {"create", "show", "tournament", "start", "patch", "finish",
                             "cancel", "delete"}, !.made = 5, !.matches = Match],
    [Plain EXCEPT !.kinds = {"create", "tournament", "add", "remove", "register", "decide",
                             "finish", "delete", "round"}, !.made = 4, !.users = User],
    [Plain EXCEPT !.kinds = {"tournament", "show", "add", "remove", "update", "finish",
                             "patch", "cancel", "start"}, !.made = 4, !.gone = TRUE],
    [Plain EXCEPT !.kinds = {"create", "tournament", "add", "round", "patch"},
                  !.made = 3, !.at = 2, !.applied = TRUE] }
===============================================================================
