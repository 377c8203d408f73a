------------------------------- MODULE MCRating -------------------------------
(* Small instances of Rating: matches of players, and of teams. *)
EXTENDS Rating

CONSTANTS t1, t2, t3, t4, t5, t6, p1, p2, p3, p4, c1, c2

MCSides == [t \in Tour |-> CASE t = t2 -> <<p2, p3>> [] t = t5 -> <<c1, c2>> [] t = t6 -> <<p1, p4>>
                             [] OTHER -> <<p1, p2>>]
MCImported == [t \in Tour |-> [s \in Player \cup Team |-> IF s = p1 THEN 3 ELSE -1]]

Plain == [kinds |-> {}, made |-> 4, gone |-> FALSE, dirty |-> FALSE, tours |-> {t1, t2},
          seasons |-> {1}, imported |-> {}, plans |-> {}]

\* Two matches of three players; two of a player and of a pair; a recount of three
\* matches from whatever was left; the PATCH and DELETE of the organizer, one match with
\* a guest; clients that leave; shows that are planned; tokens x2 of players and pairs;
\* matches that were imported.
MCLoads ==
  { [Plain EXCEPT !.kinds = {"finish", "rescore", "void", "season", "rules", "reset"},
                  !.made = 6, !.seasons = {1, 2}],
    [Plain EXCEPT !.kinds = {"finish", "rescore", "void", "season", "all"},
                  !.tours = {t1, t5}, !.made = 6, !.seasons = {1, 2}],
    [Plain EXCEPT !.kinds = {"all"}, !.dirty = TRUE, !.tours = {t1, t3, t4}, !.made = 1],
    [Plain EXCEPT !.kinds = {"finish", "patch", "delete"}],
    [Plain EXCEPT !.kinds = {"finish", "patch", "void"}, !.tours = {t1, t6}, !.made = 3],
    [Plain EXCEPT !.kinds = {"finish", "reset", "season", "all"}, !.plans = {0, 2}],
    [Plain EXCEPT !.kinds = {"finish", "void", "patch", "double"}, !.tours = {t1, t5}, !.made = 3],
    [Plain EXCEPT !.kinds = {"rescore", "void", "all"}, !.dirty = TRUE, !.tours = {t1, t3},
                  !.imported = {t1}, !.made = 3],
    [Plain EXCEPT !.kinds = {"finish", "rescore", "reset", "season", "all"}, !.gone = TRUE] }
===============================================================================
