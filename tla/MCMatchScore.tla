----------------------------- MODULE MCMatchScore -----------------------------
(* MatchScore on small instances: a1 and a2 play for side A, B plays alone.  *)
EXTENDS MatchScore

CONSTANTS A, B, a1, a2, t1, t2, p1, p2

MCSeeds  == <<A, B>>
MCRoster == [s \in Side |-> IF s = A THEN User ELSE {}]

\* t1 is an ordinary task of A, t2 one on time of B.
MCOwner == [t \in Task |-> IF t = t1 THEN A ELSE B]
MCWorth == [t \in Task |-> 2]

\* One judge with every kind of request, the same with the routes of the old
\* console, and two at once over points and over marks.
MCLoads ==
  { [kinds |-> {"points", "knock", "task", "legendary", "undo", "finish"},
     at |-> 1, made |-> 4, gone |-> 0, tasks |-> {t1, t2}],
    [kinds |-> {"points", "task", "legendary", "undo", "finish", "entry", "main"},
     at |-> 1, made |-> 4, gone |-> 0, tasks |-> {t1}],
    [kinds |-> {"points", "knock", "undo"}, at |-> 2, made |-> 3, gone |-> 0, tasks |-> {}],
    [kinds |-> {"task", "undo"}, at |-> 2, made |-> 3, gone |-> 1, tasks |-> {t1, t2}] }

MCDeltas == {1, -2}

Symmetry == Permutations({p1, p2}) \cup Permutations({a1, a2})

\* With two judges no property is about the totals, which are only read to decide
\* the outcome: the sums are left out.
Seen ==
  IF OneJudge THEN <<vars, 0>>
  ELSE <<<<db, log, match, bounds>>,
         [p \in Request |-> [req[p] EXCEPT !.sum = 0, !.got = Blank.got]]>>
===============================================================================
