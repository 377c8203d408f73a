------------------------------ MODULE MCTokens ------------------------------
(* Small instances of Tokens for TLC: a match of two teams, one of singles. *)
EXTENDS Tokens, TLC

CONSTANTS u1, u2, u3, duel, pairs

Sides == [m \in Match |-> IF m = duel THEN {{u1}, {u2}} ELSE {{u1, u2}, {u3}}]

Two   == {2, -1}

\* Two requests at a time over the tokens of one player, over resets around a duel,
\* over a match of teams; and the same match with one request at a time.
MCLoads ==
  { [kinds |-> {"grant", "activate", "cancel"}, at |-> 2, made |-> 5, halves |-> 3,
     users |-> {u1}, matches |-> {}, seasons |-> {}],
    [kinds |-> {"grant", "reset"}, at |-> 2, made |-> 3, halves |-> 0,
     users |-> {u1}, matches |-> {duel}, seasons |-> {1, 2}],
    [kinds |-> {"grant", "double"}, at |-> 2, made |-> 3, halves |-> 0,
     users |-> {u1, u2}, matches |-> {pairs}, seasons |-> {1}],
    [kinds |-> {"grant", "double"}, at |-> 1, made |-> 4, halves |-> 0,
     users |-> User, matches |-> {pairs}, seasons |-> {1}] }

RequestSymmetry == Permutations(Request)
=============================================================================
