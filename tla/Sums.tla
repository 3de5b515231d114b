-------------------------------- MODULE Sums --------------------------------
(***************************************************************************)
(* The sum of an integer function over a finite set, as the fold of module *)
(* Functions defines it, and the facts about it that the proofs of the     *)
(* counters need: what adding, removing or changing one entry does to it.  *)
(*                                                                         *)
(* The fold is a recursive function on the subsets of the set.  Induction  *)
(* over them is the choice of a minimal counterexample (module             *)
(* WellFoundedInduction), which needs no operator as a parameter.          *)
(***************************************************************************)
EXTENDS Integers, FiniteSets, Functions, FiniteSetTheorems, TLAPS

(* The sum of f over S.                                                    *)
Sum(f, S) == FoldFunctionOnSet(+, 0, f, S)

(* The element that the fold takes first.                                  *)
Pick(S) == CHOOSE x \in S : TRUE

(* g is the recursive function of the fold, on the subsets of S. *)
Sums(f, S, g) ==
    g = [T \in SUBSET S |-> IF T = {} THEN 0
                            ELSE f[Pick(T)] + g[T \ {Pick(T)}]]

(* The fold is this recursive function.                                    *)
LEMMA SumUnfolded ==
  ASSUME NEW f, NEW S
  PROVE  Sum(f, S) = (CHOOSE g : Sums(f, S, g))[S]
BY DEF Sum, FoldFunctionOnSet, MapThenFoldSet, Sums, Pick

(* The element taken is one of the set.                                    *)
LEMMA PickInSet == ASSUME NEW S, S # {} PROVE Pick(S) \in S
BY DEF Pick

(* A set of subsets of a finite set has a member none of whose proper      *)
(* subsets is in it.                                                       *)
LEMMA MinimalSubset ==
  ASSUME NEW S, IsFiniteSet(S), NEW D, D \subseteq SUBSET S, D # {}
  PROVE  \E T \in D : \A U \in SUBSET T : U # T => U \notin D
<1>1. IsWellFoundedOn(StrictSubsetOrdering(S), SUBSET S)
  BY FS_StrictSubsetOrderingWellFounded, FS_FiniteSubsetsOfFinite
<1>2. PICK T \in D : \A U \in D : ~ (<<U, T>> \in StrictSubsetOrdering(S))
  BY <1>1, WFMin
<1>3. \A U \in SUBSET T : U # T => U \notin D
  BY <1>2 DEF StrictSubsetOrdering
<1> QED
  BY <1>2, <1>3

(* The recursive function does not depend on the set whose subsets it is   *)
(* defined on.                                                             *)
LEMMA SumsAgree ==
  ASSUME NEW f, NEW S, IsFiniteSet(S), NEW T, NEW g, NEW h,
         Sums(f, S, g), Sums(f, T, h)
  PROVE  \A U \in SUBSET S : U \subseteq T => g[U] = h[U]
<1> DEFINE D == {U \in SUBSET S : U \subseteq T /\ g[U] # h[U]}
<1> SUFFICES ASSUME D # {} PROVE FALSE
  OBVIOUS
<1>1. PICK U \in D : \A V \in SUBSET U : V # U => V \notin D
  <2> HIDE DEF D
  <2>1. D \subseteq SUBSET S
    BY DEF D
  <2> QED
    BY <2>1, MinimalSubset
<1>2. /\ g[U] = IF U = {} THEN 0 ELSE f[Pick(U)] + g[U \ {Pick(U)}]
      /\ h[U] = IF U = {} THEN 0 ELSE f[Pick(U)] + h[U \ {Pick(U)}]
  <2>1. U \in SUBSET S /\ U \in SUBSET T
    BY <1>1
  <2> QED
    BY <2>1 DEF Sums
<1>3. U # {}
  BY <1>1, <1>2
<1>4. g[U \ {Pick(U)}] = h[U \ {Pick(U)}]
  BY <1>1, <1>3, PickInSet
<1> QED
  BY <1>1, <1>2, <1>3, <1>4

(* There is such a function.                                               *)
LEMMA SumsExist ==
  ASSUME NEW f, NEW S, IsFiniteSet(S)
  PROVE  \E g : Sums(f, S, g)
<1> DEFINE D == {T \in SUBSET S : ~ \E g : Sums(f, T, g)}
<1> SUFFICES ASSUME D # {} PROVE FALSE
  OBVIOUS
<1>1. PICK T \in D : \A U \in SUBSET T : U # T => U \notin D
  <2> HIDE DEF D
  <2>1. D \subseteq SUBSET S
    BY DEF D
  <2> QED
    BY <2>1, MinimalSubset
<1> DEFINE G(U) == (CHOOSE g : Sums(f, U, g))
           h == [U \in SUBSET T |->
                    IF U = {} THEN 0
                    ELSE f[Pick(U)] + G(U \ {Pick(U)})[U \ {Pick(U)}]]
<1>2. ASSUME NEW U \in SUBSET T, U # T PROVE Sums(f, U, G(U))
  <2>1. \E g : Sums(f, U, g)
    BY <1>1, <1>2
  <2> QED
    BY <2>1
<1>3. ASSUME NEW U \in SUBSET T, U # {}
      PROVE  G(U \ {Pick(U)})[U \ {Pick(U)}] = h[U \ {Pick(U)}]
  <2> DEFINE V == U \ {Pick(U)}
             W == V \ {Pick(V)}
  <2>1. V \in SUBSET T /\ V # T
    BY <1>3, PickInSet
  <2>2. h[V] = IF V = {} THEN 0 ELSE f[Pick(V)] + G(W)[W]
    BY <2>1
  <2>3. Sums(f, V, G(V))
    BY <1>2, <2>1
  <2>4. G(V)[V] = IF V = {} THEN 0 ELSE f[Pick(V)] + G(V)[W]
    <3> HIDE DEF G
    <3> QED
      BY <2>3 DEF Sums
  <2>5. ASSUME V # {} PROVE G(V)[W] = G(W)[W]
    <3>1. W \in SUBSET T /\ W # T /\ W \subseteq V
      BY <2>1, <2>5, PickInSet
    <3>2. Sums(f, W, G(W))
      BY <1>2, <3>1
    <3>3. IsFiniteSet(V)
      BY <2>1, <1>1, FS_Subset
    <3> HIDE DEF G, W, V
    <3> QED
      BY <2>3, <3>1, <3>2, <3>3, SumsAgree
  <2> HIDE DEF G, h, W
  <2> QED
    BY <2>2, <2>4, <2>5
<1>4. Sums(f, T, h)
  <2> HIDE DEF G
  <2>1. h = [U \in SUBSET T |-> IF U = {} THEN 0
                               ELSE f[Pick(U)] + h[U \ {Pick(U)}]]
    <3>1. ASSUME NEW U \in SUBSET T
          PROVE  (IF U = {} THEN 0
                    ELSE f[Pick(U)] + G(U \ {Pick(U)})[U \ {Pick(U)}])
               = (IF U = {} THEN 0 ELSE f[Pick(U)] + h[U \ {Pick(U)}])
      <4> HIDE DEF h
      <4> QED
        BY <1>3
    <3> QED
      BY <3>1, Zenon
  <2> HIDE DEF h
  <2> QED
    BY <2>1 DEF Sums
<1> QED
  <2> HIDE DEF h, G
  <2> QED
    BY <1>1, <1>4

-----------------------------------------------------------------------------
(* The recursion of the fold. *)

(* The sum of a set that is not empty, by the element taken first.         *)
LEMMA SumRecursive ==
  ASSUME NEW f, NEW S, IsFiniteSet(S)
  PROVE  Sum(f, S) = IF S = {} THEN 0 ELSE f[Pick(S)] + Sum(f, S \ {Pick(S)})
<1> DEFINE G(T) == (CHOOSE g : Sums(f, T, g))
           T == S \ {Pick(S)}
<1>1. Sums(f, S, G(S))
  BY SumsExist
<1>2. IsFiniteSet(T) /\ Sums(f, T, G(T))
  <2>1. IsFiniteSet(T)
    BY FS_RemoveElement
  <2> QED
    BY <2>1, SumsExist
<1>3. Sum(f, S) = G(S)[S] /\ Sum(f, T) = G(T)[T]
  BY SumUnfolded
<1> HIDE DEF G
<1>4. G(S)[S] = IF S = {} THEN 0 ELSE f[Pick(S)] + G(S)[T]
  BY <1>1 DEF Sums
<1>5. G(S)[T] = G(T)[T]
  BY <1>1, <1>2, SumsAgree
<1> QED
  BY <1>3, <1>4, <1>5

(* The empty sum.                                                          *)
LEMMA SumEmpty == ASSUME NEW f PROVE Sum(f, {}) = 0
BY SumRecursive, FS_EmptySet

(* A sum of integers is an integer.                                        *)
LEMMA SumInteger ==
  ASSUME NEW S, IsFiniteSet(S), NEW f, \A x \in S : f[x] \in Int
  PROVE  Sum(f, S) \in Int
<1> DEFINE D == {T \in SUBSET S : Sum(f, T) \notin Int}
<1> SUFFICES ASSUME D # {} PROVE FALSE
  BY DEF D
<1>1. PICK T \in D : \A U \in SUBSET T : U # T => U \notin D
  <2>1. D \subseteq SUBSET S
    OBVIOUS
  <2> HIDE DEF D
  <2> QED
    BY <2>1, MinimalSubset
<1>2. IsFiniteSet(T)
  BY <1>1, FS_Subset
<1>3. T # {}
  <2>1. Sum(f, {}) = 0
    BY SumEmpty
  <2>2. ASSUME T = {} PROVE FALSE
    BY <1>1, <2>1, <2>2
  <2> QED
    BY <2>2
<1>4. Pick(T) \in S /\ Sum(f, T \ {Pick(T)}) \in Int
  BY <1>1, <1>3, PickInSet
<1>5. Sum(f, T) = f[Pick(T)] + Sum(f, T \ {Pick(T)})
  BY <1>2, <1>3, SumRecursive
<1> QED
  BY <1>1, <1>4, <1>5

(* Any member of the set may be taken out first. *)
LEMMA SumRemove ==
  ASSUME NEW S, IsFiniteSet(S), NEW f, \A x \in S : f[x] \in Int,
         NEW a \in S
  PROVE  Sum(f, S) = f[a] + Sum(f, S \ {a})
<1> DEFINE D == {T \in SUBSET S :
                   \E x \in T : Sum(f, T) # f[x] + Sum(f, T \ {x})}
<1> SUFFICES ASSUME D # {} PROVE FALSE
  BY DEF D
<1>1. PICK T \in D : \A U \in SUBSET T : U # T => U \notin D
  <2>1. D \subseteq SUBSET S
    OBVIOUS
  <2> HIDE DEF D
  <2> QED
    BY <2>1, MinimalSubset
<1>2. PICK x \in T : Sum(f, T) # f[x] + Sum(f, T \ {x})
  BY <1>1
<1> DEFINE p == Pick(T)
           U == T \ {p, x}
<1>3. p \in T
  BY <1>2, PickInSet
<1> HIDE DEF p
<1>4. /\ IsFiniteSet(T) /\ IsFiniteSet(T \ {p}) /\ IsFiniteSet(T \ {x})
      /\ IsFiniteSet(U)
  <2>1. /\ T \in SUBSET S /\ T \ {p} \in SUBSET S
        /\ T \ {x} \in SUBSET S /\ U \in SUBSET S
    BY <1>1
  <2> QED
    BY <2>1, FS_Subset
<1>5. Sum(f, T) = f[p] + Sum(f, T \ {p})
  BY <1>2, <1>4, SumRecursive DEF p
<1>6. p # x
  BY <1>2, <1>5
<1>7. Sum(f, T \ {p}) = f[x] + Sum(f, U)
  <2>1. T \ {p} \notin D /\ T \ {p} \in SUBSET S /\ x \in T \ {p}
    BY <1>1, <1>3, <1>6
  <2>2. (T \ {p}) \ {x} = U
    OBVIOUS
  <2> QED
    BY <2>1, <2>2
<1>8. Sum(f, T \ {x}) = f[p] + Sum(f, U)
  <2>1. T \ {x} \notin D /\ T \ {x} \in SUBSET S /\ p \in T \ {x}
    BY <1>1, <1>3, <1>6
  <2>2. (T \ {x}) \ {p} = U
    OBVIOUS
  <2> QED
    BY <2>1, <2>2
<1>9. Sum(f, U) \in Int /\ f[p] \in Int /\ f[x] \in Int
  <2>1. U \subseteq S /\ p \in S /\ x \in S
    BY <1>1, <1>2, <1>3
  <2> QED
    BY <2>1, <1>4, SumInteger
<1> QED
  BY <1>2, <1>5, <1>7, <1>8, <1>9

(* Functions that agree on the set have the same sum, and a larger one has *)
(* a larger sum.                                                           *)
LEMMA SumMonotone ==
  ASSUME NEW S, IsFiniteSet(S), NEW f, NEW g,
         \A x \in S : f[x] \in Int /\ g[x] \in Int /\ f[x] <= g[x]
  PROVE  Sum(f, S) <= Sum(g, S)
<1> DEFINE D == {T \in SUBSET S : ~ (Sum(f, T) <= Sum(g, T))}
<1> SUFFICES ASSUME D # {} PROVE FALSE
  BY DEF D
<1>1. PICK T \in D : \A U \in SUBSET T : U # T => U \notin D
  <2>1. D \subseteq SUBSET S
    OBVIOUS
  <2> HIDE DEF D
  <2> QED
    BY <2>1, MinimalSubset
<1>2. IsFiniteSet(T) /\ IsFiniteSet(T \ {Pick(T)})
  BY <1>1, FS_Subset, FS_RemoveElement
<1>3. T # {}
  <2>1. Sum(f, {}) = 0 /\ Sum(g, {}) = 0
    BY SumEmpty
  <2>2. ASSUME T = {} PROVE FALSE
    BY <1>1, <2>1, <2>2
  <2> QED
    BY <2>2
<1>4. Pick(T) \in S /\ Sum(f, T \ {Pick(T)}) <= Sum(g, T \ {Pick(T)})
  BY <1>1, <1>3, PickInSet
<1>5. /\ Sum(f, T) = f[Pick(T)] + Sum(f, T \ {Pick(T)})
      /\ Sum(g, T) = g[Pick(T)] + Sum(g, T \ {Pick(T)})
  BY <1>2, <1>3, SumRecursive
<1>6. Sum(f, T \ {Pick(T)}) \in Int /\ Sum(g, T \ {Pick(T)}) \in Int
  BY <1>1, <1>2, SumInteger
<1> QED
  BY <1>1, <1>4, <1>5, <1>6

(* Equal entries, equal sums.                                              *)
LEMMA SumEqual ==
  ASSUME NEW S, IsFiniteSet(S), NEW f, NEW g,
         \A x \in S : f[x] \in Int /\ g[x] = f[x]
  PROVE  Sum(g, S) = Sum(f, S)
<1>1. Sum(f, S) <= Sum(g, S) /\ Sum(g, S) <= Sum(f, S)
  BY SumMonotone
<1>2. Sum(f, S) \in Int /\ Sum(g, S) \in Int
  BY SumInteger
<1> QED
  BY <1>1, <1>2

(* A sum of zeros.                                                         *)
LEMMA SumZero ==
  ASSUME NEW S, IsFiniteSet(S), NEW f, \A x \in S : f[x] = 0
  PROVE  Sum(f, S) = 0
<1> DEFINE D == {T \in SUBSET S : Sum(f, T) # 0}
<1> SUFFICES ASSUME D # {} PROVE FALSE
  BY DEF D
<1>1. PICK T \in D : \A U \in SUBSET T : U # T => U \notin D
  <2>1. D \subseteq SUBSET S
    OBVIOUS
  <2> HIDE DEF D
  <2> QED
    BY <2>1, MinimalSubset
<1>2. IsFiniteSet(T) /\ T # {}
  BY <1>1, FS_Subset, SumEmpty
<1>3. Sum(f, T \ {Pick(T)}) = 0 /\ f[Pick(T)] = 0
  BY <1>1, <1>2, PickInSet
<1> QED
  BY <1>1, <1>2, <1>3, SumRecursive

(* A sum of natural numbers is one, and no entry exceeds it.               *)
LEMMA SumNatural ==
  ASSUME NEW S, IsFiniteSet(S), NEW f, \A x \in S : f[x] \in Nat
  PROVE  /\ Sum(f, S) \in Nat
         /\ \A x \in S : f[x] <= Sum(f, S)
<1>1. ASSUME NEW T, IsFiniteSet(T), T \subseteq S PROVE Sum(f, T) \in Nat
  <2> DEFINE z == [x \in T |-> 0]
  <2>1. Sum(z, T) = 0
    BY <1>1, SumZero
  <2>2. Sum(z, T) <= Sum(f, T)
    <3>1. \A x \in T : z[x] \in Int /\ f[x] \in Int /\ z[x] <= f[x]
      BY <1>1
    <3> HIDE DEF z
    <3> QED
      BY <1>1, <3>1, SumMonotone
  <2>3. Sum(f, T) \in Int
    BY <1>1, SumInteger
  <2> QED
    BY <2>1, <2>2, <2>3
<1>2. ASSUME NEW x \in S PROVE f[x] <= Sum(f, S)
  <2>1. IsFiniteSet(S \ {x})
    BY FS_RemoveElement
  <2>2. Sum(f, S) = f[x] + Sum(f, S \ {x})
    BY SumRemove
  <2> QED
    BY <2>1, <2>2, <1>1
<1> QED
  BY <1>1, <1>2

(* Two functions that differ at one member at most. *)
LEMMA SumChanged ==
  ASSUME NEW S, IsFiniteSet(S), NEW f, NEW g, NEW a \in S,
         \A x \in S : f[x] \in Int /\ g[x] \in Int,
         \A x \in S \ {a} : g[x] = f[x]
  PROVE  Sum(g, S) = Sum(f, S) - f[a] + g[a]
<1>1. IsFiniteSet(S \ {a})
  BY FS_RemoveElement
<1>2. Sum(g, S \ {a}) = Sum(f, S \ {a})
  BY <1>1, SumEqual
<1>3. /\ Sum(f, S) = f[a] + Sum(f, S \ {a})
      /\ Sum(g, S) = g[a] + Sum(g, S \ {a})
  BY SumRemove
<1>4. Sum(f, S \ {a}) \in Int /\ f[a] \in Int /\ g[a] \in Int
  BY <1>1, SumInteger
<1> QED
  BY <1>2, <1>3, <1>4

(* A sum is at most as many times the bound of its entries as it has.      *)
LEMMA SumBounded ==
  ASSUME NEW S, IsFiniteSet(S), NEW f, NEW c \in Int,
         \A x \in S : f[x] \in Int /\ f[x] <= c
  PROVE  Sum(f, S) <= Cardinality(S) * c
<1> DEFINE D == {T \in SUBSET S : ~ (Sum(f, T) <= Cardinality(T) * c)}
<1> SUFFICES ASSUME D # {} PROVE FALSE
  BY DEF D
<1>1. PICK T \in D : \A U \in SUBSET T : U # T => U \notin D
  <2>1. D \subseteq SUBSET S
    OBVIOUS
  <2> HIDE DEF D
  <2> QED
    BY <2>1, MinimalSubset
<1>2. IsFiniteSet(T) /\ IsFiniteSet(T \ {Pick(T)})
  BY <1>1, FS_Subset, FS_RemoveElement
<1>3. T # {}
  <2>1. Sum(f, {}) = 0 /\ Cardinality({}) = 0 /\ 0 * c = 0
    BY SumEmpty, FS_EmptySet
  <2>2. ASSUME T = {} PROVE FALSE
    BY <1>1, <2>1, <2>2
  <2> QED
    BY <2>2
<1>4. Pick(T) \in S /\ Sum(f, T \ {Pick(T)}) <= Cardinality(T \ {Pick(T)}) * c
  BY <1>1, <1>3, PickInSet
<1>5. Sum(f, T) = f[Pick(T)] + Sum(f, T \ {Pick(T)})
  BY <1>2, <1>3, SumRecursive
<1>6. /\ Cardinality(T) \in Nat
      /\ Cardinality(T \ {Pick(T)}) = Cardinality(T) - 1
  BY <1>2, <1>3, PickInSet, FS_RemoveElement, FS_CardinalityType
<1>7. (Cardinality(T) - 1) * c + c = Cardinality(T) * c
  BY <1>6
<1>8. Sum(f, T \ {Pick(T)}) \in Int /\ f[Pick(T)] \in Int /\ f[Pick(T)] <= c
  BY <1>1, <1>2, <1>4, SumInteger
<1>9. Cardinality(T) * c \in Int /\ (Cardinality(T) - 1) * c \in Int
  BY <1>6
<1>10. Sum(f, T) <= Cardinality(T) * c
  BY <1>4, <1>5, <1>6, <1>7, <1>8, <1>9
<1> QED
  BY <1>1, <1>10
=============================================================================
