----------------------------- MODULE SumProofs -----------------------------
(***************************************************************************)
(* Sums over finite sets, as the models write them with the folds of the   *)
(* community modules: a sum does not depend on the order of its terms, and *)
(* what becomes of it when a term changes.  The fold is a CHOSEN recursive *)
(* function on the subsets of the set, so its equations are derived first, *)
(* by induction over the subsets of a finite set.                          *)
(***************************************************************************)
EXTENDS Integers, FiniteSets, Functions, FiniteSetTheorems, WellFoundedInduction, TLAPS

\* Induction over a finite set without one of its elements, for the members of
\* a set G (a property would be an operator parameter).
LEMMA SubsetInduction ==
    ASSUME NEW S, IsFiniteSet(S), NEW G,
           \A T \in SUBSET S : (\A x \in T : T \ {x} \in G) => T \in G
    PROVE  S \in G
<1> DEFINE Bad == (SUBSET S) \ G
<1>1. SUFFICES ASSUME S \notin G PROVE FALSE
  OBVIOUS
<1>2. S \in Bad
  BY <1>1
<1>3. IsWellFoundedOn(StrictSubsetOrdering(S), SUBSET S)
  BY FS_StrictSubsetOrderingWellFounded, FS_FiniteSubsetsOfFinite
<1>4. PICK T \in Bad : \A U \in Bad : <<U, T>> \notin StrictSubsetOrdering(S)
  <2>1. Bad \subseteq SUBSET S /\ Bad # {}
    BY <1>2
  <2> HIDE DEF Bad
  <2> QED BY <1>3, <2>1, WFMin
<1>5. \A x \in T : T \ {x} \in G
  <2> SUFFICES ASSUME NEW x \in T, T \ {x} \in Bad PROVE FALSE
    OBVIOUS
  <2>1. <<T \ {x}, T>> \in StrictSubsetOrdering(S)
    BY DEF StrictSubsetOrdering
  <2> QED BY <2>1, <1>4
<1> QED BY <1>5

-----------------------------------------------------------------------------
\* The equations of the fold

SumOver(f, S) == FoldFunctionOnSet(+, 0, f, S)

AnyOf(s) == CHOOSE x \in s : TRUE

\* The function that the fold is defined by.
Iterates(g, f, S) ==
    g = [s \in SUBSET S |-> IF s = {} THEN 0 ELSE f[AnyOf(s)] + g[s \ {AnyOf(s)}]]

LEMMA SumIsChosen ==
    ASSUME NEW f, NEW S
    PROVE  SumOver(f, S) = (CHOOSE g : Iterates(g, f, S))[S]
BY DEF SumOver, FoldFunctionOnSet, MapThenFoldSet, Iterates, AnyOf

LEMMA SumOfFunction == ASSUME NEW f PROVE FoldFunction(+, 0, f) = SumOver(f, DOMAIN f)
BY DEF FoldFunction, SumOver

LEMMA IterateIs ==
    ASSUME NEW g, NEW f, NEW S, Iterates(g, f, S), NEW s \in SUBSET S
    PROVE  g[s] = IF s = {} THEN 0 ELSE f[AnyOf(s)] + g[s \ {AnyOf(s)}]
<1> DEFINE h == [r \in SUBSET S |-> IF r = {} THEN 0 ELSE f[AnyOf(r)] + g[r \ {AnyOf(r)}]]
<1>1. g = h
  BY DEF Iterates
<1>2. h[s] = IF s = {} THEN 0 ELSE f[AnyOf(s)] + g[s \ {AnyOf(s)}]
  OBVIOUS
<1> HIDE DEF h
<1> QED BY <1>1, <1>2

LEMMA AnyIn == ASSUME NEW s, s # {} PROVE AnyOf(s) \in s
BY DEF AnyOf

LEMMA IteratesAgree ==
    ASSUME NEW g, NEW h, NEW f, NEW T, NEW U, NEW S, IsFiniteSet(S),
           Iterates(g, f, T), Iterates(h, f, U), S \subseteq T, S \subseteq U
    PROVE  g[S] = h[S]
<1> DEFINE G == {s \in SUBSET S : g[s] = h[s]}
<1>1. ASSUME NEW s \in SUBSET S, \A x \in s : s \ {x} \in G
      PROVE  s \in G
  <2>1. s \in SUBSET T /\ s \in SUBSET U
    OBVIOUS
  <2>2. /\ g[s] = IF s = {} THEN 0 ELSE f[AnyOf(s)] + g[s \ {AnyOf(s)}]
        /\ h[s] = IF s = {} THEN 0 ELSE f[AnyOf(s)] + h[s \ {AnyOf(s)}]
    BY <2>1, IterateIs
  <2>3. s # {} => g[s \ {AnyOf(s)}] = h[s \ {AnyOf(s)}]
    BY <1>1, AnyIn
  <2> QED BY <2>2, <2>3
<1> HIDE DEF G
<1>2. S \in G
  BY <1>1, SubsetInduction
<1> QED BY <1>2 DEF G

LEMMA IterateExists ==
    ASSUME NEW f, NEW S, IsFiniteSet(S)
    PROVE  \E g : Iterates(g, f, S)
<1> DEFINE G == {T \in SUBSET S : \A s \in SUBSET T : \E g : Iterates(g, f, s)}
<1>1. ASSUME NEW T \in SUBSET S, \A x \in T : T \ {x} \in G
      PROVE  T \in G
  <2>1. ASSUME NEW s \in SUBSET T, s # T
        PROVE  \E g : Iterates(g, f, s)
    <3>1. PICK x \in T : x \notin s
      BY <2>1
    <3>2. s \in SUBSET (T \ {x}) /\ T \ {x} \in G
      BY <1>1, <3>1
    <3> QED BY <3>2
  <2>2. ASSUME NEW s \in SUBSET T, s # T
        PROVE  SumOver(f, s) = IF s = {} THEN 0 ELSE f[AnyOf(s)] + SumOver(f, s \ {AnyOf(s)})
    <3> DEFINE h == CHOOSE g : Iterates(g, f, s)
               u == s \ {AnyOf(s)}
               k == CHOOSE g : Iterates(g, f, u)
    <3>1. Iterates(h, f, s) /\ SumOver(f, s) = h[s]
      BY <2>1, <2>2, SumIsChosen
    <3>2. u \in SUBSET T /\ u # T /\ u \subseteq s
      BY <2>2
    <3>3. Iterates(k, f, u) /\ SumOver(f, u) = k[u]
      <4> HIDE DEF u
      <4>1. \E g : Iterates(g, f, u)
        BY <2>1, <3>2
      <4> QED BY <4>1, SumIsChosen
    <3>4. IsFiniteSet(u)
      BY <3>2, FS_Subset
    <3>5. h[s] = IF s = {} THEN 0 ELSE f[AnyOf(s)] + h[u]
      <4> HIDE DEF h
      <4> QED BY <3>1, IterateIs
    <3>6. h[u] = k[u]
      <4> HIDE DEF h, k, u
      <4> QED BY <3>1, <3>2, <3>3, <3>4, IteratesAgree
    <3> HIDE DEF h, k
    <3> QED BY <3>1, <3>3, <3>5, <3>6
  <2> DEFINE g == [s \in SUBSET T |->
                      IF s = {} THEN 0 ELSE f[AnyOf(s)] + SumOver(f, s \ {AnyOf(s)})]
  <2>3. \A s \in SUBSET T : s # T => g[s] = SumOver(f, s)
    BY <2>2
  <2>4. \A s \in SUBSET T : s # {} => g[s \ {AnyOf(s)}] = SumOver(f, s \ {AnyOf(s)})
    <3> SUFFICES ASSUME NEW s \in SUBSET T, s # {}
                 PROVE  g[s \ {AnyOf(s)}] = SumOver(f, s \ {AnyOf(s)})
      OBVIOUS
    <3>1. s \ {AnyOf(s)} \in SUBSET T /\ s \ {AnyOf(s)} # T
      BY AnyIn
    <3> HIDE DEF g
    <3> QED BY <2>3, <3>1
  <2>5. Iterates(g, f, T)
    <3> DEFINE k == [s \in SUBSET T |->
                        IF s = {} THEN 0 ELSE f[AnyOf(s)] + g[s \ {AnyOf(s)}]]
    <3>1. \A s \in SUBSET T : k[s] = IF s = {} THEN 0 ELSE f[AnyOf(s)] + g[s \ {AnyOf(s)}]
      OBVIOUS
    <3>2. \A s \in SUBSET T : g[s] = IF s = {} THEN 0 ELSE f[AnyOf(s)] + SumOver(f, s \ {AnyOf(s)})
      OBVIOUS
    <3>3. DOMAIN g = SUBSET T /\ DOMAIN k = SUBSET T
          /\ g = [s \in DOMAIN g |-> g[s]] /\ k = [s \in DOMAIN k |-> k[s]]
      OBVIOUS
    <3>4. k = g
      <4> HIDE DEF g, k
      <4>1. \A s \in SUBSET T : k[s] = g[s]
        BY <2>4, <3>1, <3>2
      <4> QED BY <4>1, <3>3
    <3> QED BY <3>4 DEF Iterates
  <2>6. \E h : Iterates(h, f, T)
    BY <2>5
  <2> QED BY <2>1, <2>6
<1>2. S \in G
  <2> HIDE DEF G
  <2> QED BY <1>1, SubsetInduction
<1> QED BY <1>2

LEMMA SumStep ==
    ASSUME NEW f, NEW S, IsFiniteSet(S)
    PROVE  SumOver(f, S) = IF S = {} THEN 0 ELSE f[AnyOf(S)] + SumOver(f, S \ {AnyOf(S)})
<1> DEFINE h == CHOOSE g : Iterates(g, f, S)
           U == S \ {AnyOf(S)}
           k == CHOOSE g : Iterates(g, f, U)
<1>1. Iterates(h, f, S) /\ SumOver(f, S) = h[S]
  BY IterateExists, SumIsChosen
<1>2. IsFiniteSet(U) /\ U \subseteq S
  BY FS_Subset
<1>3. Iterates(k, f, U) /\ SumOver(f, U) = k[U]
  <2> HIDE DEF U
  <2> QED BY <1>2, IterateExists, SumIsChosen
<1> HIDE DEF h, k
<1>4. h[S] = IF S = {} THEN 0 ELSE f[AnyOf(S)] + h[U]
  BY <1>1, IterateIs
<1>5. h[U] = k[U]
  <2> HIDE DEF U
  <2> QED BY <1>1, <1>2, <1>3, IteratesAgree
<1> QED BY <1>1, <1>3, <1>4, <1>5

-----------------------------------------------------------------------------
\* What a sum is

LEMMA SumOfNothing == ASSUME NEW f PROVE SumOver(f, {}) = 0
BY SumStep, FS_EmptySet

LEMMA SumIsInt ==
    ASSUME NEW S, IsFiniteSet(S), NEW f, \A x \in S : f[x] \in Int
    PROVE  SumOver(f, S) \in Int
<1> DEFINE G == {T \in SUBSET S : SumOver(f, T) \in Int}
<1>1. ASSUME NEW T \in SUBSET S, \A x \in T : T \ {x} \in G
      PROVE  T \in G
  <2>1. SumOver(f, T) = IF T = {} THEN 0 ELSE f[AnyOf(T)] + SumOver(f, T \ {AnyOf(T)})
    BY SumStep, FS_Subset
  <2>2. T # {} => f[AnyOf(T)] \in Int /\ SumOver(f, T \ {AnyOf(T)}) \in Int
    BY <1>1, AnyIn
  <2> QED BY <2>1, <2>2
<1> HIDE DEF G
<1>2. S \in G
  BY <1>1, SubsetInduction
<1> QED BY <1>2 DEF G

LEMMA SumIsNat ==
    ASSUME NEW S, IsFiniteSet(S), NEW f, \A x \in S : f[x] \in Nat
    PROVE  SumOver(f, S) \in Nat
<1> DEFINE G == {T \in SUBSET S : SumOver(f, T) \in Nat}
<1>1. ASSUME NEW T \in SUBSET S, \A x \in T : T \ {x} \in G
      PROVE  T \in G
  <2>1. SumOver(f, T) = IF T = {} THEN 0 ELSE f[AnyOf(T)] + SumOver(f, T \ {AnyOf(T)})
    BY SumStep, FS_Subset
  <2>2. T # {} => f[AnyOf(T)] \in Nat /\ SumOver(f, T \ {AnyOf(T)}) \in Nat
    BY <1>1, AnyIn
  <2> QED BY <2>1, <2>2
<1> HIDE DEF G
<1>2. S \in G
  BY <1>1, SubsetInduction
<1> QED BY <1>2 DEF G

\* Any term may be taken out first: the order does not matter.
LEMMA SumTakesOut ==
    ASSUME NEW S, IsFiniteSet(S), NEW f, \A x \in S : f[x] \in Int, NEW y \in S
    PROVE  SumOver(f, S) = f[y] + SumOver(f, S \ {y})
<1> DEFINE G == {T \in SUBSET S : \A x \in T : SumOver(f, T) = f[x] + SumOver(f, T \ {x})}
<1>1. ASSUME NEW T \in SUBSET S, \A x \in T : T \ {x} \in G
      PROVE  T \in G
  <2> SUFFICES ASSUME NEW x \in T
               PROVE  SumOver(f, T) = f[x] + SumOver(f, T \ {x})
    OBVIOUS
  <2> DEFINE c == AnyOf(T)
  <2>1. IsFiniteSet(T) /\ c \in T
    BY FS_Subset, AnyIn
  <2>2. SumOver(f, T) = f[c] + SumOver(f, T \ {c})
    BY <2>1, SumStep
  <2> HIDE DEF c
  <2>3. CASE x = c
    BY <2>2, <2>3
  <2>4. CASE x # c
    <3>1. SumOver(f, T \ {c}) = f[x] + SumOver(f, (T \ {c}) \ {x})
      BY <1>1, <2>1, <2>4
    <3>2. SumOver(f, T \ {x}) = f[c] + SumOver(f, (T \ {x}) \ {c})
      BY <1>1, <2>1, <2>4
    <3>3. (T \ {c}) \ {x} = (T \ {x}) \ {c}
      OBVIOUS
    <3>4. IsFiniteSet((T \ {x}) \ {c})
      BY <2>1, FS_Subset
    <3>5. SumOver(f, (T \ {x}) \ {c}) \in Int
      BY <3>4, SumIsInt
    <3>6. f[x] \in Int /\ f[c] \in Int
      BY <2>1
    <3>7. SumOver(f, T \ {c}) = f[x] + SumOver(f, (T \ {x}) \ {c})
      BY <3>1, <3>3
    <3> QED BY <2>2, <3>2, <3>5, <3>6, <3>7
  <2> QED BY <2>3, <2>4
<1> HIDE DEF G
<1>2. S \in G
  BY <1>1, SubsetInduction
<1> QED BY <1>2 DEF G

LEMMA SumAgrees ==
    ASSUME NEW S, IsFiniteSet(S), NEW f, NEW g, \A x \in S : f[x] = g[x]
    PROVE  SumOver(f, S) = SumOver(g, S)
<1> DEFINE G == {T \in SUBSET S : SumOver(f, T) = SumOver(g, T)}
<1>1. ASSUME NEW T \in SUBSET S, \A x \in T : T \ {x} \in G
      PROVE  T \in G
  <2>1. /\ SumOver(f, T) = IF T = {} THEN 0 ELSE f[AnyOf(T)] + SumOver(f, T \ {AnyOf(T)})
        /\ SumOver(g, T) = IF T = {} THEN 0 ELSE g[AnyOf(T)] + SumOver(g, T \ {AnyOf(T)})
    BY SumStep, FS_Subset
  <2>2. T # {} => /\ f[AnyOf(T)] = g[AnyOf(T)]
                  /\ SumOver(f, T \ {AnyOf(T)}) = SumOver(g, T \ {AnyOf(T)})
    BY <1>1, AnyIn
  <2> QED BY <2>1, <2>2
<1> HIDE DEF G
<1>2. S \in G
  BY <1>1, SubsetInduction
<1> QED BY <1>2 DEF G

LEMMA SumOfZeros ==
    ASSUME NEW S, IsFiniteSet(S), NEW f, \A x \in S : f[x] = 0
    PROVE  SumOver(f, S) = 0
<1> DEFINE G == {T \in SUBSET S : SumOver(f, T) = 0}
<1>1. ASSUME NEW T \in SUBSET S, \A x \in T : T \ {x} \in G
      PROVE  T \in G
  <2>1. SumOver(f, T) = IF T = {} THEN 0 ELSE f[AnyOf(T)] + SumOver(f, T \ {AnyOf(T)})
    BY SumStep, FS_Subset
  <2>2. T # {} => f[AnyOf(T)] = 0 /\ SumOver(f, T \ {AnyOf(T)}) = 0
    BY <1>1, AnyIn
  <2> QED BY <2>1, <2>2
<1> HIDE DEF G
<1>2. S \in G
  BY <1>1, SubsetInduction
<1> QED BY <1>2 DEF G

\* When one term changes, the sum changes by as much.
LEMMA SumChanges ==
    ASSUME NEW S, IsFiniteSet(S), NEW f, NEW g, NEW y \in S,
           \A x \in S : f[x] \in Int /\ g[x] \in Int,
           \A x \in S : x # y => g[x] = f[x]
    PROVE  SumOver(g, S) = SumOver(f, S) + (g[y] - f[y])
<1>1. IsFiniteSet(S \ {y})
  BY FS_Subset
<1>2. /\ SumOver(f, S) = f[y] + SumOver(f, S \ {y})
      /\ SumOver(g, S) = g[y] + SumOver(g, S \ {y})
  BY SumTakesOut
<1>3. SumOver(f, S \ {y}) = SumOver(g, S \ {y})
  BY <1>1, SumAgrees
<1>4. SumOver(f, S \ {y}) \in Int
  BY <1>1, SumIsInt
<1> QED BY <1>2, <1>3, <1>4

\* The same of a function that is updated.
LEMMA SumUpdates ==
    ASSUME NEW S, IsFiniteSet(S), NEW f \in [S -> Int], NEW y \in S, NEW v \in Int
    PROVE  SumOver([f EXCEPT ![y] = v], S) = SumOver(f, S) + (v - f[y])
<1> DEFINE g == [f EXCEPT ![y] = v]
<1>1. /\ \A x \in S : f[x] \in Int /\ g[x] \in Int
      /\ \A x \in S : x # y => g[x] = f[x]
      /\ g[y] = v
  OBVIOUS
<1> HIDE DEF g
<1>2. SumOver(g, S) = SumOver(f, S) + (g[y] - f[y])
  BY <1>1, SumChanges
<1> QED BY <1>1, <1>2 DEF g

\* The sum of differences is the difference of the sums.
LEMMA SumOfDifferences ==
    ASSUME NEW S, IsFiniteSet(S), NEW f, NEW g, NEW h,
           \A x \in S : f[x] \in Int /\ g[x] \in Int /\ h[x] = f[x] - g[x]
    PROVE  SumOver(h, S) = SumOver(f, S) - SumOver(g, S)
<1> DEFINE G == {T \in SUBSET S : SumOver(h, T) = SumOver(f, T) - SumOver(g, T)}
<1>1. ASSUME NEW T \in SUBSET S, \A x \in T : T \ {x} \in G
      PROVE  T \in G
  <2> DEFINE c == AnyOf(T)  U == T \ {c}
  <2>1. IsFiniteSet(T) /\ IsFiniteSet(U) /\ U \subseteq S
    BY FS_Subset
  <2>2. /\ SumOver(f, T) = IF T = {} THEN 0 ELSE f[c] + SumOver(f, U)
        /\ SumOver(g, T) = IF T = {} THEN 0 ELSE g[c] + SumOver(g, U)
        /\ SumOver(h, T) = IF T = {} THEN 0 ELSE h[c] + SumOver(h, U)
    BY <2>1, SumStep
  <2>3. T # {} => c \in S /\ SumOver(h, U) = SumOver(f, U) - SumOver(g, U)
    BY <1>1, AnyIn
  <2>4. SumOver(f, U) \in Int /\ SumOver(g, U) \in Int
    BY <2>1, SumIsInt
  <2> HIDE DEF c, U
  <2> QED BY <2>2, <2>3, <2>4
<1> HIDE DEF G
<1>2. S \in G
  BY <1>1, SubsetInduction
<1> QED BY <1>2 DEF G
=============================================================================
