------------------------------ MODULE MCLeague ------------------------------
(* Small instances of the league: three or four players, the last a guest. *)
EXTENDS League

MCNeed == [streak |-> 2, flawless |-> 2, hunter |-> <<1, 3>>, executor |-> <<1, 2>>, david |-> <<30, 10>>,
           clear |-> 2, king |-> 2, marathon |-> 2, from |-> 2, gap |-> 1]

Score(t, k, n, r, w, z) == [total |-> t, knocks |-> k, tasks |-> n, round1 |-> r, low |-> w,
                            double |-> FALSE, maps |-> z]
None == <<<<>>, <<>>>>
Nil  == Score(<<0, 0>>, None, <<0, 0>>, <<0, 0>>, <<50, 50>>, {})
One  == Score(<<1, 0>>, None, <<0, 0>>, <<1, 0>>, <<50, 50>>, {})
Two  == Score(<<0, 1>>, None, <<0, 0>>, <<0, 1>>, <<50, 50>>, {})

Plain == [kinds |-> {}, matches |-> 3, days |-> 3, changes |-> 99, rust |-> 1, conns |-> 3, readers |-> {}, syncers |-> {},
          pairs |-> {<<1, 2>>, <<2, 3>>, <<1, 3>>}, cards |-> <<Nil, One, Two>>]

Rusty == [Plain EXCEPT !.days = 4, !.rust = 2, !.matches = 4, !.cards = <<One>>,
                        !.pairs = {<<1, 2>>, <<2, 1>>, <<2, 3>>}]
BeltLoads ==
  { Rusty,
    [Plain EXCEPT !.pairs = {<<1, 2>>, <<2, 3>>}],
    [Plain EXCEPT !.kinds = {"show", "void", "season"}, !.matches = 2, !.changes = 5,
                  !.cards = <<One, Two>>, !.pairs = {<<1, 2>>, <<1, 4>>}],
    [Plain EXCEPT !.kinds = {"reset", "correct"}, !.changes = 6, !.cards = <<One>>,
                  !.pairs = {<<1, 2>>, <<2, 3>>}],
    [Plain EXCEPT !.kinds = {"reset", "correct", "void"}, !.matches = 2, !.changes = 5, !.cards = <<One>>,
                  !.pairs = {<<1, 2>>, <<2, 1>>}] }
Alone == [Plain EXCEPT !.cards = <<One>>, !.pairs = {<<1, 2>>, <<2, 3>>}]
NewsLoads ==
  { [Alone EXCEPT !.readers = {"c1"}],
    [Alone EXCEPT !.kinds = {"crash", "void"}, !.readers = {"c1", "p"}, !.matches = 1, !.changes = 3, !.days = 2],
    [Alone EXCEPT !.readers = {"c1", "c2"}, !.matches = 2, !.days = 1] }

\* A match of raids: the second side is ahead, then the first comes back with knocks.
Behind == Score(<<0, 1>>, <<<<>>, <<1>>>>, <<0, 0>>, <<0, 1>>, <<20, 50>>, {"z"})
Ahead  == Score(<<2, 1>>, <<<<0, 2>>, <<1>>>>, <<1, 0>>, <<0, 1>>, <<20, 50>>, {"z"})
PatchLoads ==
  { [Plain EXCEPT !.kinds = {"patches", "season", "show"}, !.matches = 2, !.days = 2, !.changes = 6,
                  !.pairs = {<<1, 2>>, <<2, 3>>}, !.cards = <<Nil, Behind, Ahead>>],
    [Plain EXCEPT !.kinds = {"patches"}, !.days = 2, !.pairs = {<<1, 2>>}, !.cards = <<Nil, Behind, Ahead>>],
    [Plain EXCEPT !.kinds = {"patches"}, !.days = 3, !.pairs = {<<1, 2>>, <<2, 3>>}, !.cards = <<Nil, Ahead>>] }
SyncLoads ==
  { [Plain EXCEPT !.kinds = {"patches", "void"}, !.syncers = {"s1", "s2"}, !.matches = 1, !.days = 1, !.changes = 4,
                  !.pairs = {<<1, 2>>}, !.cards = <<Nil, Behind, Ahead>>],
    [Plain EXCEPT !.kinds = {"patches"}, !.syncers = {"s1", "s2"}, !.matches = 2, !.days = 1,
                  !.pairs = {<<1, 2>>}, !.cards = <<Nil, Ahead>>],
    [Plain EXCEPT !.kinds = {"patches", "undo", "delete", "gone"}, !.syncers = {"s1", "s2"}, !.matches = 1, !.changes = 4,
                  !.days = 1, !.pairs = {<<1, 2>>}, !.cards = <<Nil, Ahead>>],
    [Plain EXCEPT !.kinds = {"patches", "season", "gone"}, !.syncers = {"s1", "s2"}, !.matches = 1, !.days = 1,
                  !.changes = 4, !.pairs = {<<1, 2>>}, !.cards = <<Nil, Ahead>>],
    [Plain EXCEPT !.kinds = {"patches", "reset", "void"}, !.syncers = {"s1"}, !.matches = 2, !.days = 1,
                  !.changes = 6, !.pairs = {<<1, 2>>, <<3, 2>>}, !.cards = <<Nil, One>>] }

TagLoads ==
  { [Plain EXCEPT !.kinds = {"tags", "season", "ends", "void"}, !.matches = 1, !.days = 2, !.changes = 5,
                  !.pairs = {<<1, 2>>}, !.cards = <<One>>],
    [Plain EXCEPT !.kinds = {"tags", "ends", "gone"}, !.matches = 2, !.days = 2, !.changes = 6,
                  !.pairs = {<<1, 2>>, <<2, 3>>}, !.cards = <<One>>] }

MCLoads == BeltLoads \cup NewsLoads \cup PatchLoads \cup SyncLoads \cup TagLoads
===============================================================================
