---------------------------- MODULE MCMatchRounds ----------------------------
(* A match of three rounds, for TLC: what may be asked of it. *)
EXTENDS MatchRounds, TLC

CONSTANTS a, b, t1, t2, t3, t4, t5, t6, t7, t8, m1, m2, m3, m4, m5

TwoSeeds  == <<a, b>>
SomeTimed == {t5, t6}
OnlyFree  == {t7}
OnlyPaid  == {t3}
PlainRare == [t \in Task |-> IF t \in {t2, t4} THEN 2 ELSE 1]
Wants     == a :> {1} @@ b :> {}

Two == {m1, m2}

\* The veto by one judge to its end and by two; two rounds dealt from all the
\* tasks, with changes and with too few; a client that leaves; the hand of the
\* judge on one round.
MCLoads ==
  { [kinds |-> {"veto", "undo", "first", "next"},
     at |-> 1, made |-> 6, gone |-> 0, maps |-> Map, tasks |-> {}],
    [kinds |-> {"veto", "undo", "first", "next"},
     at |-> 2, made |-> 4, gone |-> 1, maps |-> Map \ Two, tasks |-> {}],
    [kinds |-> {"maps", "next", "mark"},
     at |-> 1, made |-> 3, gone |-> 0, maps |-> Two, tasks |-> Task],
    [kinds |-> {"maps", "next", "reroll", "mark", "finish", "focus"},
     at |-> 1, made |-> 4, gone |-> 0, maps |-> Two, tasks |-> Task \ {t8}],
    [kinds |-> {"maps", "next", "finish"},
     at |-> 1, made |-> 3, gone |-> 0, maps |-> Two, tasks |-> Task \ {t8}],
    [kinds |-> {"maps", "next", "focus", "finish"},
     at |-> 1, made |-> 4, gone |-> 1, maps |-> Two, tasks |-> {t1}],
    [kinds |-> {"maps", "assign", "contracts", "remove", "protocol", "violation",
                "patch", "reroll", "mark"},
     at |-> 1, made |-> 3, gone |-> 0, maps |-> {m1}, tasks |-> {t1, t2}] }

MapSymmetry == Permutations({m3, m4, m5}) \cup Permutations(Request)
==============================================================================
