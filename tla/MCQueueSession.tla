---------------------------- MODULE MCQueueSession ----------------------------
(* QueueSession on small instances. *)
EXTENDS QueueSession

CONSTANTS u1, u2, u3, u4, e1, e2, e3, e4

\* 1x1: the team table plays no part.
NoTeams == {}

\* 2x2: the two teams share u2.
TwoTeams == {{u1, u2}, {u2, u3}}

EntrySymmetry == Permutations(Entry)
Symmetry == Permutations(Entry) \cup Permutations({u2, u3})

\* What later steps depend on: of the revision nothing, every operation only
\* makes another one; of a closed entry who stood in it, if it has been on a
\* match, and whether it is closed (how, while it is on a side of the open one).
Essence ==
  LET spent == {e \in Entry : q.status[e] \in {"left", "removed"}}
      seen  == UNION q.finished \cup Taken(q)
  IN  <<[session EXCEPT !.rev = 0],
        [q EXCEPT
           !.status    = [e \in Entry |-> IF e \in spent \ Taken(q) THEN "left"
                                                                     ELSE q.status[e]],
           !.members   = [e \in Entry |-> IF e \in spent \ seen THEN {}
                                                                ELSE q.members[e]],
           !.ready     = [e \in Entry |-> IF e \in spent THEN {} ELSE q.ready[e]],
           !.performed = [e \in Entry |-> IF e \in spent THEN 0 ELSE q.performed[e]]],
        env, settling, promoting>>
===============================================================================
