------------------------------ MODULE SumTheorems ------------------------------
(***************************************************************************)
(* Sums of the values of a function over a finite set (SumFunctionOnSet of *)
(* the community modules): induction over a finite set is the least member *)
(* of a set of its subsets, and what a sum is follows from a table of the  *)
(* sums over all of them.                                                  *)
(***************************************************************************)
EXTENDS Integers, FiniteSets, Functions, Folds, FiniteSetTheorems, WellFoundedInduction, TLAPS

LEMMA Least ==
  ASSUME NEW S, IsFiniteSet(S), NEW T \in SUBSET (SUBSET S), T # {}
  PROVE  \E x \in T : \A y \in T : y \subseteq x => y = x
<1>1. IsWellFoundedOn(StrictSubsetOrdering(S), FiniteSubsetsOf(S))
  BY FS_StrictSubsetOrderingWellFounded
<1>2. T \subseteq FiniteSubsetsOf(S)
  BY FS_Subset DEF FiniteSubsetsOf
<1>3. PICK x \in T : \A y \in T : ~(<<y, x>> \in StrictSubsetOrdering(S))
  BY <1>1, <1>2, WFMin
<1>4. ASSUME NEW y \in T, y \subseteq x PROVE y = x
  BY <1>3, <1>4 DEF StrictSubsetOrdering
<1> QED BY <1>4

\* What a sum takes of a set next; a table of the sums of f over the sets of S.
Taken(s) == CHOOSE x \in s : TRUE
SumsUp(g, f, S) == g = [s \in SUBSET S |-> IF s = {} THEN 0 ELSE f[Taken(s)] + g[s \ {Taken(s)}]]
Table(f, S) == CHOOSE g : SumsUp(g, f, S)

LEMMA SumIs == ASSUME NEW f, NEW S PROVE SumFunctionOnSet(f, S) = Table(f, S)[S]
  BY DEF SumFunctionOnSet, FoldFunctionOnSet, MapThenFoldSet, SumsUp, Taken, Table

LEMMA TakenIn == ASSUME NEW s, s # {} PROVE Taken(s) \in s
  BY DEF Taken

LEMMA TablesAgree ==
  ASSUME NEW f, NEW A, IsFiniteSet(A), NEW B, NEW g, NEW h, SumsUp(g, f, A), SumsUp(h, f, B), NEW s \in SUBSET A, s \in SUBSET B
  PROVE  g[s] = h[s]
<1> DEFINE T == {x \in SUBSET A : x \in SUBSET B /\ g[x] # h[x]}
<1>1. SUFFICES ASSUME T # {} PROVE FALSE
  OBVIOUS
<1>2. PICK x \in T : \A y \in T : y \subseteq x => y = x
  <2>1. T \in SUBSET (SUBSET A)
    OBVIOUS
  <2> HIDE DEF T
  <2> QED BY <1>1, <2>1, Least
<1>3. x # {}
  BY <1>2 DEF SumsUp
<1>4. Taken(x) \in x
  BY <1>3, TakenIn
<1>5. g[x \ {Taken(x)}] = h[x \ {Taken(x)}]
  BY <1>2, <1>4
<1> QED BY <1>2, <1>3, <1>5 DEF SumsUp

LEMMA TableExists == ASSUME NEW f, NEW S, IsFiniteSet(S) PROVE SumsUp(Table(f, S), f, S)
<1> DEFINE T == {A \in SUBSET S : ~SumsUp(Table(f, A), f, A)}
<1>1. SUFFICES ASSUME T # {} PROVE FALSE
  OBVIOUS
<1>2. PICK A \in T : \A y \in T : y \subseteq A => y = A
  <2>1. T \in SUBSET (SUBSET S)
    OBVIOUS
  <2> HIDE DEF T
  <2> QED BY <1>1, <2>1, Least
<1>3. \A B \in SUBSET A : B # A => SumsUp(Table(f, B), f, B) /\ IsFiniteSet(B)
  BY <1>2, FS_Subset
<1> DEFINE V(B) == Table(f, B)[B]
           g == [s \in SUBSET A |-> IF s = {} THEN 0 ELSE f[Taken(s)] + V(s \ {Taken(s)})]
<1>4. ASSUME NEW B \in SUBSET A, B # A PROVE g[B] = V(B)
  <2>1. SumsUp(Table(f, B), f, B)
    BY <1>3, <1>4
  <2>2. CASE B = {}
    BY <2>1, <2>2 DEF SumsUp
  <2>3. CASE B # {}
    <3> DEFINE C == B \ {Taken(B)}
    <3>1. C \in SUBSET B /\ C # A /\ C \in SUBSET A
      BY <2>3, TakenIn, <1>4
    <3>2. Table(f, B)[C] = Table(f, C)[C]
      <4>1. SumsUp(Table(f, C), f, C) /\ IsFiniteSet(C)
        BY <1>3, <3>1
      <4> QED BY <2>1, <3>1, <4>1, TablesAgree
    <3>3. Table(f, B)[B] = f[Taken(B)] + Table(f, B)[C]
      BY <2>1, <2>3 DEF SumsUp
    <3> QED BY <2>3, <3>2, <3>3
  <2> QED BY <2>2, <2>3
<1>5. ASSUME NEW s \in SUBSET A, s # {} PROVE V(s \ {Taken(s)}) = g[s \ {Taken(s)}]
  <2>1. s \ {Taken(s)} \in SUBSET A /\ s \ {Taken(s)} # A
    BY <1>5, TakenIn
  <2> HIDE DEF V, g
  <2> QED BY <1>4, <2>1
<1>6. g = [s \in SUBSET A |-> IF s = {} THEN 0 ELSE f[Taken(s)] + g[s \ {Taken(s)}]]
  <2>1. g = [s \in SUBSET A |-> IF s = {} THEN 0 ELSE f[Taken(s)] + V(s \ {Taken(s)})]
    OBVIOUS
  <2> HIDE DEF g, V
  <2> QED BY <1>5, <2>1
<1>7. SumsUp(g, f, A)
  BY <1>6 DEF SumsUp
<1> HIDE DEF g
<1>8. SumsUp(Table(f, A), f, A)
  BY <1>7 DEF Table
<1> QED BY <1>2, <1>8

\* What a sum is, step by step.
LEMMA SumFacts ==
  ASSUME NEW f, NEW S, IsFiniteSet(S)
  PROVE  /\ SumFunctionOnSet(f, {}) = 0
         /\ S # {} => SumFunctionOnSet(f, S) = f[Taken(S)] + SumFunctionOnSet(f, S \ {Taken(S)})
<1>1. SumFunctionOnSet(f, {}) = 0
  <2>1. SumsUp(Table(f, {}), f, {})
    BY FS_EmptySet, TableExists
  <2> QED BY <2>1, SumIs DEF SumsUp
<1>2. ASSUME S # {} PROVE SumFunctionOnSet(f, S) = f[Taken(S)] + SumFunctionOnSet(f, S \ {Taken(S)})
  <2> DEFINE C == S \ {Taken(S)}
  <2>1. SumsUp(Table(f, S), f, S) /\ SumsUp(Table(f, C), f, C) /\ C \in SUBSET S
    BY FS_Subset, TableExists
  <2>2. Table(f, S)[C] = Table(f, C)[C]
    BY <2>1, TablesAgree
  <2>3. Table(f, S)[S] = f[Taken(S)] + Table(f, S)[C]
    BY <1>2, <2>1 DEF SumsUp
  <2> QED BY <2>2, <2>3, SumIs
<1> QED BY <1>1, <1>2

LEMMA SumInt ==
  ASSUME NEW f, NEW S, IsFiniteSet(S), \A x \in S : f[x] \in Int
  PROVE  SumFunctionOnSet(f, S) \in Int
<1> DEFINE T == {s \in SUBSET S : SumFunctionOnSet(f, s) \notin Int}
<1>1. SUFFICES ASSUME T # {} PROVE FALSE
  OBVIOUS
<1>2. PICK s \in T : \A y \in T : y \subseteq s => y = s
  <2>1. T \in SUBSET (SUBSET S)
    OBVIOUS
  <2> HIDE DEF T
  <2> QED BY <1>1, <2>1, Least
<1>3. s \in SUBSET S /\ IsFiniteSet(s) /\ SumFunctionOnSet(f, s) \notin Int
  BY <1>2, FS_Subset
<1>4. s # {}
  BY <1>3, SumFacts
<1>5. Taken(s) \in s /\ SumFunctionOnSet(f, s \ {Taken(s)}) \in Int
  BY <1>2, <1>4, TakenIn
<1>6. SumFunctionOnSet(f, s) = f[Taken(s)] + SumFunctionOnSet(f, s \ {Taken(s)})
  BY <1>3, <1>4, SumFacts
<1> QED BY <1>3, <1>5, <1>6

LEMMA SumNat ==
  ASSUME NEW f, NEW S, IsFiniteSet(S), \A x \in S : f[x] \in Nat
  PROVE  SumFunctionOnSet(f, S) \in Nat
<1> DEFINE T == {s \in SUBSET S : SumFunctionOnSet(f, s) \notin Nat}
<1>1. SUFFICES ASSUME T # {} PROVE FALSE
  OBVIOUS
<1>2. PICK s \in T : \A y \in T : y \subseteq s => y = s
  <2>1. T \in SUBSET (SUBSET S)
    OBVIOUS
  <2> HIDE DEF T
  <2> QED BY <1>1, <2>1, Least
<1>3. s \in SUBSET S /\ IsFiniteSet(s) /\ SumFunctionOnSet(f, s) \notin Nat
  BY <1>2, FS_Subset
<1>4. s # {}
  <2>1. SumFunctionOnSet(f, {}) = 0 /\ 0 \in Nat
    BY FS_EmptySet, SumFacts
  <2> QED BY <1>3, <2>1
<1>5. Taken(s) \in s /\ SumFunctionOnSet(f, s \ {Taken(s)}) \in Nat
  BY <1>2, <1>4, TakenIn
<1>6. SumFunctionOnSet(f, s) = f[Taken(s)] + SumFunctionOnSet(f, s \ {Taken(s)})
  BY <1>3, <1>4, SumFacts
<1> QED BY <1>3, <1>5, <1>6

\* A sum does not depend on the order in which it is taken.
LEMMA SumTakes ==
  ASSUME NEW f, NEW S, IsFiniteSet(S), \A x \in S : f[x] \in Int, NEW y \in S
  PROVE  SumFunctionOnSet(f, S) = f[y] + SumFunctionOnSet(f, S \ {y})
<1> DEFINE T == {s \in SUBSET S : \E z \in s : SumFunctionOnSet(f, s) # f[z] + SumFunctionOnSet(f, s \ {z})}
<1>1. SUFFICES ASSUME T # {} PROVE FALSE
  OBVIOUS
<1>2. PICK s \in T : \A x \in T : x \subseteq s => x = s
  <2>1. T \in SUBSET (SUBSET S)
    OBVIOUS
  <2> HIDE DEF T
  <2> QED BY <1>1, <2>1, Least
<1>3. s \in SUBSET S /\ IsFiniteSet(s)
  BY <1>2, FS_Subset
<1>4. PICK z \in s : SumFunctionOnSet(f, s) # f[z] + SumFunctionOnSet(f, s \ {z})
  BY <1>2
<1>5. PICK t : t = Taken(s)
  OBVIOUS
<1>6. t \in s /\ SumFunctionOnSet(f, s) = f[t] + SumFunctionOnSet(f, s \ {t})
  BY <1>3, <1>4, <1>5, TakenIn, SumFacts
<1>7. z # t
  BY <1>4, <1>6
<1>8. SumFunctionOnSet(f, s \ {t}) = f[z] + SumFunctionOnSet(f, (s \ {t}) \ {z})
  <2>1. s \ {t} \notin T /\ s \ {t} \in SUBSET S /\ z \in s \ {t}
    BY <1>2, <1>6, <1>7
  <2> QED BY <2>1
<1>9. SumFunctionOnSet(f, s \ {z}) = f[t] + SumFunctionOnSet(f, (s \ {z}) \ {t})
  <2>1. s \ {z} \notin T /\ s \ {z} \in SUBSET S /\ t \in s \ {z}
    BY <1>2, <1>6, <1>7
  <2> QED BY <2>1
<1>10. (s \ {t}) \ {z} = (s \ {z}) \ {t}
  OBVIOUS
<1>11. f[t] \in Int /\ f[z] \in Int /\ SumFunctionOnSet(f, (s \ {z}) \ {t}) \in Int
  <2>1. IsFiniteSet((s \ {z}) \ {t})
    BY <1>3, FS_Subset
  <2> QED BY <1>3, <1>4, <1>6, <2>1, SumInt
<1>12. PICK a : a = SumFunctionOnSet(f, (s \ {z}) \ {t})
  OBVIOUS
<1>13. /\ SumFunctionOnSet(f, s) = f[t] + (f[z] + a)
       /\ f[z] + SumFunctionOnSet(f, s \ {z}) = f[z] + (f[t] + a)
  BY <1>6, <1>8, <1>9, <1>10, <1>12
<1>14. a \in Int /\ f[t] \in Int /\ f[z] \in Int
  BY <1>11, <1>12
<1> QED BY <1>4, <1>13, <1>14

LEMMA SumSame ==
  ASSUME NEW f, NEW g, NEW S, IsFiniteSet(S), \A x \in S : f[x] = g[x]
  PROVE  SumFunctionOnSet(f, S) = SumFunctionOnSet(g, S)
<1> DEFINE T == {s \in SUBSET S : SumFunctionOnSet(f, s) # SumFunctionOnSet(g, s)}
<1>1. SUFFICES ASSUME T # {} PROVE FALSE
  OBVIOUS
<1>2. PICK s \in T : \A y \in T : y \subseteq s => y = s
  <2>1. T \in SUBSET (SUBSET S)
    OBVIOUS
  <2> HIDE DEF T
  <2> QED BY <1>1, <2>1, Least
<1>3. s \in SUBSET S /\ IsFiniteSet(s) /\ SumFunctionOnSet(f, s) # SumFunctionOnSet(g, s)
  BY <1>2, FS_Subset
<1>4. s # {}
  BY <1>3, SumFacts
<1>5. Taken(s) \in s /\ SumFunctionOnSet(f, s \ {Taken(s)}) = SumFunctionOnSet(g, s \ {Taken(s)})
  BY <1>2, <1>4, TakenIn
<1>6. /\ SumFunctionOnSet(f, s) = f[Taken(s)] + SumFunctionOnSet(f, s \ {Taken(s)})
      /\ SumFunctionOnSet(g, s) = g[Taken(s)] + SumFunctionOnSet(g, s \ {Taken(s)})
  BY <1>3, <1>4, SumFacts
<1> QED BY <1>3, <1>5, <1>6

LEMMA SumChanges ==
  ASSUME NEW f, NEW g, NEW S, IsFiniteSet(S), \A x \in S : f[x] \in Int /\ g[x] \in Int, NEW y \in S,
         \A x \in S \ {y} : g[x] = f[x]
  PROVE  SumFunctionOnSet(g, S) = SumFunctionOnSet(f, S) - f[y] + g[y]
<1>1. IsFiniteSet(S \ {y})
  BY FS_Subset
<1>2. SumFunctionOnSet(g, S \ {y}) = SumFunctionOnSet(f, S \ {y})
  BY <1>1, SumSame
<1>3. SumFunctionOnSet(f, S \ {y}) \in Int
  BY <1>1, SumInt
<1>4. SumFunctionOnSet(f, S) = f[y] + SumFunctionOnSet(f, S \ {y}) /\ SumFunctionOnSet(g, S) = g[y] + SumFunctionOnSet(g, S \ {y})
  BY SumTakes
<1> QED BY <1>2, <1>3, <1>4

LEMMA SumGrows ==
  ASSUME NEW f, NEW S, IsFiniteSet(S), NEW y, y \notin S, \A x \in S \cup {y} : f[x] \in Int
  PROVE  SumFunctionOnSet(f, S \cup {y}) = SumFunctionOnSet(f, S) + f[y]
<1>1. IsFiniteSet(S \cup {y}) /\ (S \cup {y}) \ {y} = S
  BY FS_AddElement
<1>2. SumFunctionOnSet(f, S) \in Int
  BY SumInt
<1>3. SumFunctionOnSet(f, S \cup {y}) = f[y] + SumFunctionOnSet(f, (S \cup {y}) \ {y})
  <2> DEFINE U == S \cup {y}
  <2>1. IsFiniteSet(U) /\ y \in U /\ \A x \in U : f[x] \in Int
    BY <1>1
  <2> HIDE DEF U
  <2>2. SumFunctionOnSet(f, U) = f[y] + SumFunctionOnSet(f, U \ {y})
    BY <2>1, SumTakes
  <2> QED BY <2>2 DEF U
<1>4. SumFunctionOnSet(f, S \cup {y}) = f[y] + SumFunctionOnSet(f, S)
  BY <1>1, <1>3
<1>5. PICK a, b : a = f[y] /\ b = SumFunctionOnSet(f, S)
  OBVIOUS
<1>6. a \in Int /\ b \in Int /\ SumFunctionOnSet(f, S \cup {y}) = a + b
  BY <1>2, <1>4, <1>5
<1> QED BY <1>5, <1>6

LEMMA SumOfZeros == ASSUME NEW f, NEW S, IsFiniteSet(S), \A x \in S : f[x] = 0 PROVE SumFunctionOnSet(f, S) = 0
<1> DEFINE T == {s \in SUBSET S : SumFunctionOnSet(f, s) # 0}
<1>1. SUFFICES ASSUME T # {} PROVE FALSE
  OBVIOUS
<1>2. PICK s \in T : \A y \in T : y \subseteq s => y = s
  <2>1. T \in SUBSET (SUBSET S)
    OBVIOUS
  <2> HIDE DEF T
  <2> QED BY <1>1, <2>1, Least
<1>3. s \in SUBSET S /\ IsFiniteSet(s) /\ SumFunctionOnSet(f, s) # 0
  BY <1>2, FS_Subset
<1>4. s # {}
  BY <1>3, SumFacts
<1>5. Taken(s) \in s /\ SumFunctionOnSet(f, s \ {Taken(s)}) = 0
  BY <1>2, <1>4, TakenIn
<1>6. SumFunctionOnSet(f, s) = f[Taken(s)] + SumFunctionOnSet(f, s \ {Taken(s)})
  BY <1>3, <1>4, SumFacts
<1> QED BY <1>3, <1>5, <1>6
===============================================================================
