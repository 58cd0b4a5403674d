----------------------------- MODULE SumTheorems -----------------------------
(***************************************************************************)
(* Sums of the values of a function over a finite set, as the community    *)
(* module Functions defines them: a fold that takes the elements in the    *)
(* order CHOOSE gives.  What the stores add up (copies of a title over its *)
(* shelves, reservations of a slot over the orders) is reasoned about with *)
(* the facts below.  Induction over a finite set is done by taking a least *)
(* counterexample (WFMin on the strict subset ordering).  The last part is *)
(* about the least and the largest number of a set.                        *)
(***************************************************************************)
EXTENDS Integers, FiniteSets, FiniteSetsExt, Functions, FiniteSetTheorems, WellFoundedInduction,
        TLAPS

Sum(f, S) == SumFunctionOnSet(f, S)

Pick(S) == CHOOSE x \in S : TRUE
Rest(S) == S \ {Pick(S)}
IterStep(f, g, T) == IF T = {} THEN 0 ELSE f[Pick(T)] + g[Rest(T)]
Iterates(f, S, g) == g = [T \in SUBSET S |-> IterStep(f, g, T)]
Iter(f, S) == CHOOSE g : Iterates(f, S, g)

(* A set of finite subsets of S that is not empty has a member with no     *)
(* proper subset in it.                                                    *)
LEMMA LeastSubset ==
    ASSUME NEW S, IsFiniteSet(S), NEW W \in SUBSET SUBSET S, W # {}
    PROVE  \E T \in W : \A U \in W : ~(U \subseteq T /\ U # T)
<1>1. W \subseteq FiniteSubsetsOf(S)
  BY FS_FiniteSubsetsOfFinite
<1>2. \E T \in W : \A U \in W : ~ (<<U, T>> \in StrictSubsetOrdering(S))
  BY <1>1, FS_StrictSubsetOrderingWellFounded, WFMin
<1>3. QED
  BY <1>2 DEF StrictSubsetOrdering

LEMMA PickIn == ASSUME NEW S, S # {} PROVE Pick(S) \in S
BY DEF Pick

LEMMA RestIn == ASSUME NEW S, S # {} PROVE Rest(S) \subseteq S /\ Rest(S) # S
BY PickIn DEF Rest

(* The sum is what the iteration gives for the whole set. *)
LEMMA SumIsIter == ASSUME NEW f, NEW S PROVE Sum(f, S) = Iter(f, S)[S]
BY Zenon DEF Sum, SumFunctionOnSet, FoldFunctionOnSet, MapThenFoldSet, Iter, Iterates, IterStep,
   Pick, Rest

(* Two iterations agree on the subsets they share. *)
LEMMA IterUnique ==
    ASSUME NEW f, NEW S, IsFiniteSet(S), NEW g, Iterates(f, S, g),
           NEW R \in SUBSET S, NEW h, Iterates(f, R, h), NEW T \in SUBSET R
    PROVE  g[T] = h[T]
<1> DEFINE W == {U \in SUBSET R : g[U] # h[U]}
<1>1. SUFFICES ASSUME W # {} PROVE FALSE
  OBVIOUS
<1>2. PICK U \in W : \A V \in W : ~(V \subseteq U /\ V # U)
  <2>1. IsFiniteSet(R)
    BY FS_Subset
  <2>2. W \in SUBSET SUBSET R
    OBVIOUS
  <2> HIDE DEF W
  <2>3. QED
    BY <1>1, <2>1, <2>2, LeastSubset
<1>3. g[U] = IterStep(f, g, U) /\ h[U] = IterStep(f, h, U)
  BY DEF Iterates
<1>4. U # {}
  BY <1>3 DEF IterStep
<1>5. Rest(U) \subseteq U /\ Rest(U) # U
  BY <1>4, RestIn
<1>6. g[Rest(U)] = h[Rest(U)]
  BY <1>2, <1>5
<1>7. QED
  BY <1>3, <1>4, <1>6 DEF IterStep

(* Every finite set can be iterated over. *)
LEMMA IterExists == ASSUME NEW f, NEW S, IsFiniteSet(S) PROVE Iterates(f, S, Iter(f, S))
<1> DEFINE Missing == {T \in SUBSET S : ~\E g : Iterates(f, T, g)}
<1>1. SUFFICES Missing = {}
  <2>1. \E g : Iterates(f, S, g)
    BY <1>1
  <2>2. QED
    BY <2>1 DEF Iter
<1>2. SUFFICES ASSUME Missing # {} PROVE FALSE
  OBVIOUS
<1>3. PICK T \in Missing : \A V \in Missing : ~(V \subseteq T /\ V # T)
  <2>1. Missing \in SUBSET SUBSET S
    OBVIOUS
  <2> HIDE DEF Missing
  <2>2. QED
    BY <1>2, <2>1, LeastSubset
<1>4. \A U \in SUBSET T : U # T => Iterates(f, U, Iter(f, U))
  BY <1>3 DEF Iter
<1> DEFINE g == [U \in SUBSET T |-> IF U = {} THEN 0 ELSE f[Pick(U)] + Iter(f, Rest(U))[Rest(U)]]
<1>5. ASSUME NEW U \in SUBSET T, U # T PROVE g[U] = Iter(f, U)[U]
  <2>1. Iterates(f, U, Iter(f, U))
    BY <1>4, <1>5
  <2>2. Iter(f, U)[U] = IterStep(f, Iter(f, U), U)
    BY <2>1 DEF Iterates
  <2>3. CASE U = {}
    BY <2>2, <2>3 DEF IterStep
  <2>4. CASE U # {}
    <3>1. Rest(U) \subseteq U /\ Rest(U) # U
      BY <2>4, RestIn
    <3>2. Iterates(f, Rest(U), Iter(f, Rest(U)))
      BY <1>4, <1>5, <3>1
    <3>3. IsFiniteSet(U)
      BY FS_Subset
    <3>4. Iter(f, U)[Rest(U)] = Iter(f, Rest(U))[Rest(U)]
      BY <2>1, <3>1, <3>2, <3>3, IterUnique
    <3>5. QED
      BY <2>2, <2>4, <3>4 DEF IterStep
  <2>5. QED
    BY <2>3, <2>4
<1>6. ASSUME NEW U \in SUBSET T PROVE g[U] = IterStep(f, g, U)
  <2>1. CASE U = {}
    BY <2>1 DEF IterStep
  <2>2. CASE U # {}
    <3>1. Rest(U) \subseteq U /\ Rest(U) # U
      BY <2>2, RestIn
    <3>2. g[Rest(U)] = Iter(f, Rest(U))[Rest(U)]
      BY <1>5, <3>1
    <3>3. QED
      BY <2>2, <3>2 DEF IterStep
  <2>3. QED
    BY <2>1, <2>2
<1> HIDE DEF g
<1>7. g = [U \in SUBSET T |-> g[U]]
  BY DEF g
<1>8. Iterates(f, T, g)
  BY <1>6, <1>7 DEF Iterates
<1>9. QED
  BY <1>3, <1>8

-----------------------------------------------------------------------------
(* The sum of no values. *)
LEMMA SumEmpty == ASSUME NEW f PROVE Sum(f, {}) = 0
<1>1. IsFiniteSet({})
  BY FS_EmptySet
<1>2. Iterates(f, {}, Iter(f, {}))
  BY <1>1, IterExists
<1>3. Iter(f, {})[{}] = IterStep(f, Iter(f, {}), {})
  BY <1>2 DEF Iterates
<1>4. QED
  BY <1>3, SumIsIter DEF IterStep

(* The sum takes one value after the other. *)
LEMMA SumPick ==
    ASSUME NEW f, NEW S, IsFiniteSet(S), S # {}
    PROVE  Sum(f, S) = f[Pick(S)] + Sum(f, Rest(S))
<1>1. Rest(S) \subseteq S
  BY RestIn
<1>2. IsFiniteSet(Rest(S))
  BY <1>1, FS_Subset
<1>3. Iterates(f, S, Iter(f, S)) /\ Iterates(f, Rest(S), Iter(f, Rest(S)))
  BY <1>2, IterExists
<1>4. Iter(f, S)[S] = IterStep(f, Iter(f, S), S)
  BY <1>3 DEF Iterates
<1>5. Iter(f, S)[Rest(S)] = Iter(f, Rest(S))[Rest(S)]
  BY <1>1, <1>3, IterUnique
<1>6. QED
  BY <1>4, <1>5, SumIsIter DEF IterStep

(* Every claim about the sum over a finite set may be proved from the same *)
(* claim about the sum over what is left without one element.              *)
LEMMA LeastWithout ==
    ASSUME NEW S, IsFiniteSet(S), NEW W \in SUBSET SUBSET S, W # {}, {} \notin W
    PROVE  \E T \in W : /\ T # {} /\ Pick(T) \in T /\ IsFiniteSet(T)
                        /\ \A U \in SUBSET T : U # T => U \notin W
                        /\ Rest(T) \in SUBSET T /\ IsFiniteSet(Rest(T)) /\ Rest(T) \notin W
<1>1. PICK T \in W : \A U \in W : ~(U \subseteq T /\ U # T)
  BY LeastSubset
<1>2. T # {} /\ IsFiniteSet(T) /\ T \subseteq S
  BY FS_Subset
<1>3. Pick(T) \in T /\ Rest(T) \subseteq T /\ Rest(T) # T
  BY <1>2, PickIn, RestIn
<1>4. IsFiniteSet(Rest(T))
  BY <1>2, <1>3, FS_Subset
<1>5. QED
  BY <1>1, <1>2, <1>3, <1>4

(* A sum of integers is an integer. *)
LEMMA SumIsInt ==
    ASSUME NEW f, NEW S, IsFiniteSet(S), \A x \in S : f[x] \in Int
    PROVE  Sum(f, S) \in Int
<1> DEFINE W == {T \in SUBSET S : Sum(f, T) \notin Int}
<1>1. SUFFICES ASSUME W # {} PROVE FALSE
  OBVIOUS
<1>2. {} \notin W /\ W \in SUBSET SUBSET S
  BY SumEmpty
<1>3. PICK T \in W : T # {} /\ Pick(T) \in T /\ IsFiniteSet(T) /\ Rest(T) \in SUBSET T /\ Rest(T) \notin W
  <2> HIDE DEF W
  <2>1. QED
    BY <1>1, <1>2, LeastWithout
<1>4. Sum(f, Rest(T)) \in Int
  BY <1>3
<1>5. QED
  BY <1>3, <1>4, SumPick

(* Values that agree on a set have the same sum over it. *)
LEMMA SumCongruent ==
    ASSUME NEW f, NEW g, NEW S, IsFiniteSet(S), \A x \in S : f[x] = g[x]
    PROVE  Sum(f, S) = Sum(g, S)
<1> DEFINE W == {T \in SUBSET S : Sum(f, T) # Sum(g, T)}
<1>1. SUFFICES ASSUME W # {} PROVE FALSE
  OBVIOUS
<1>2. {} \notin W /\ W \in SUBSET SUBSET S
  BY SumEmpty
<1>3. PICK T \in W : T # {} /\ Pick(T) \in T /\ IsFiniteSet(T) /\ Rest(T) \in SUBSET T /\ Rest(T) \notin W
  <2> HIDE DEF W
  <2>1. QED
    BY <1>1, <1>2, LeastWithout
<1>4. Sum(f, Rest(T)) = Sum(g, Rest(T)) /\ f[Pick(T)] = g[Pick(T)]
  BY <1>3
<1>5. Sum(f, T) = Sum(g, T)
  BY <1>3, <1>4, SumPick
<1>6. QED
  BY <1>5

(* Any element may be taken first: the order of the fold does not matter. *)
LEMMA SumTake ==
    ASSUME NEW f, NEW S, IsFiniteSet(S), \A x \in S : f[x] \in Int, NEW e \in S
    PROVE  Sum(f, S) = f[e] + Sum(f, S \ {e})
<1> DEFINE W == {T \in SUBSET S : \E x \in T : Sum(f, T) # f[x] + Sum(f, T \ {x})}
<1>1. SUFFICES ASSUME W # {} PROVE FALSE
  OBVIOUS
<1>2. {} \notin W /\ W \in SUBSET SUBSET S
  OBVIOUS
<1>3. PICK T \in W : /\ T # {} /\ Pick(T) \in T /\ IsFiniteSet(T)
                     /\ \A U \in SUBSET T : U # T => U \notin W
  <2> HIDE DEF W
  <2>1. QED
    BY <1>1, <1>2, LeastWithout
<1>4. PICK x \in T : Sum(f, T) # f[x] + Sum(f, T \ {x})
  OBVIOUS
<1> DEFINE p == Pick(T)
<1>5. Sum(f, T) = f[p] + Sum(f, T \ {p})
  BY <1>3, SumPick DEF Rest
<1>6. x # p
  BY <1>4, <1>5
<1>7. T \ {p} \in SUBSET T /\ T \ {x} \in SUBSET T /\ T \ {p} # T /\ T \ {x} # T
  BY <1>3
<1>8. T \ {p} \notin W /\ T \ {x} \notin W /\ T \subseteq S /\ x \in T \ {p} /\ p \in T \ {x}
  BY <1>3, <1>6, <1>7
<1>9. Sum(f, T \ {p}) = f[x] + Sum(f, (T \ {p}) \ {x})
  BY <1>8
<1>10. Sum(f, T \ {x}) = f[p] + Sum(f, (T \ {x}) \ {p})
  BY <1>8
<1>11. (T \ {p}) \ {x} = (T \ {x}) \ {p} /\ IsFiniteSet((T \ {x}) \ {p})
  <2>1. (T \ {x}) \ {p} \in SUBSET S
    BY <1>8
  <2>2. QED
    BY <2>1, FS_Subset
<1>12. Sum(f, (T \ {x}) \ {p}) \in Int
  BY <1>8, <1>11, SumIsInt
<1>13. f[x] \in Int /\ f[p] \in Int
  BY <1>3, <1>8
<1> HIDE DEF p, W
<1>14. Sum(f, T) = f[x] + Sum(f, T \ {x})
  <2>1. \A a, b, c \in Int : a + (b + c) = b + (a + c)
    OBVIOUS
  <2>2. f[p] + (f[x] + Sum(f, (T \ {x}) \ {p})) = f[x] + (f[p] + Sum(f, (T \ {x}) \ {p}))
    BY <1>12, <1>13, <2>1, Zenon
  <2>3. QED
    BY <1>5, <1>9, <1>10, <1>11, <2>2, Zenon
<1>15. QED
  BY <1>4, <1>14

(* The sum of sums. *)
LEMMA SumPlus ==
    ASSUME NEW f, NEW g, NEW h, NEW S, IsFiniteSet(S),
           \A x \in S : f[x] \in Int /\ g[x] \in Int /\ h[x] = f[x] + g[x]
    PROVE  Sum(h, S) = Sum(f, S) + Sum(g, S)
<1> DEFINE W == {T \in SUBSET S : Sum(h, T) # Sum(f, T) + Sum(g, T)}
<1>1. SUFFICES ASSUME W # {} PROVE FALSE
  OBVIOUS
<1>2. {} \notin W /\ W \in SUBSET SUBSET S
  BY SumEmpty
<1>3. PICK T \in W : T # {} /\ Pick(T) \in T /\ IsFiniteSet(T) /\ Rest(T) \in SUBSET T
                     /\ IsFiniteSet(Rest(T)) /\ Rest(T) \notin W
  <2> HIDE DEF W
  <2>1. QED
    BY <1>1, <1>2, LeastWithout
<1>4. Sum(h, Rest(T)) = Sum(f, Rest(T)) + Sum(g, Rest(T)) /\ h[Pick(T)] = f[Pick(T)] + g[Pick(T)]
  BY <1>3
<1>5. Sum(f, Rest(T)) \in Int /\ Sum(g, Rest(T)) \in Int /\ f[Pick(T)] \in Int /\ g[Pick(T)] \in Int
  BY <1>3, SumIsInt
<1>6. Sum(f, T) = f[Pick(T)] + Sum(f, Rest(T)) /\ Sum(g, T) = g[Pick(T)] + Sum(g, Rest(T))
      /\ Sum(h, T) = h[Pick(T)] + Sum(h, Rest(T))
  BY <1>3, SumPick
<1>7. Sum(h, T) = Sum(f, T) + Sum(g, T)
  BY <1>4, <1>5, <1>6
<1>8. QED
  BY <1>7

(* A sum of values that are not negative is not negative. *)
LEMMA SumIsNat ==
    ASSUME NEW f, NEW S, IsFiniteSet(S), \A x \in S : f[x] \in Nat
    PROVE  Sum(f, S) \in Nat
<1> DEFINE W == {T \in SUBSET S : Sum(f, T) \notin Nat}
<1>1. SUFFICES ASSUME W # {} PROVE FALSE
  OBVIOUS
<1>2. {} \notin W /\ W \in SUBSET SUBSET S
  BY SumEmpty
<1>3. PICK T \in W : T # {} /\ Pick(T) \in T /\ IsFiniteSet(T) /\ Rest(T) \in SUBSET T /\ Rest(T) \notin W
  <2> HIDE DEF W
  <2>1. QED
    BY <1>1, <1>2, LeastWithout
<1>4. Sum(f, Rest(T)) \in Nat
  BY <1>3
<1>5. QED
  BY <1>3, <1>4, SumPick

(* No value is larger than the sum, and only zeros add up to zero. *)
LEMMA SumBounds ==
    ASSUME NEW f, NEW S, IsFiniteSet(S), \A x \in S : f[x] \in Nat
    PROVE  /\ Sum(f, S) \in Nat
           /\ \A x \in S : f[x] <= Sum(f, S)
           /\ Sum(f, S) = 0 <=> \A x \in S : f[x] = 0
<1>1. Sum(f, S) \in Nat
  BY SumIsNat
<1>2. ASSUME NEW x \in S PROVE f[x] <= Sum(f, S)
  <2>1. Sum(f, S) = f[x] + Sum(f, S \ {x})
    BY SumTake
  <2>2. IsFiniteSet(S \ {x})
    BY FS_Subset
  <2>3. Sum(f, S \ {x}) \in Nat
    BY <2>2, SumIsNat
  <2>4. QED
    BY <2>1, <2>3
<1>3. ASSUME \A x \in S : f[x] = 0 PROVE Sum(f, S) = 0
  <2>1. \A x \in S : f[x] \in Int /\ f[x] = f[x] + f[x]
    BY <1>3
  <2>2. Sum(f, S) = Sum(f, S) + Sum(f, S)
    BY <2>1, SumPlus
  <2>3. \A n \in Nat : n = n + n => n = 0
    OBVIOUS
  <2>4. QED
    BY <1>1, <2>2, <2>3, Zenon
<1>4. QED
  BY <1>1, <1>2, <1>3

(* The difference of two sums. *)
LEMMA SumMinus ==
    ASSUME NEW f, NEW g, NEW h, NEW S, IsFiniteSet(S),
           \A x \in S : f[x] \in Int /\ g[x] \in Int /\ h[x] = f[x] - g[x]
    PROVE  Sum(h, S) = Sum(f, S) - Sum(g, S)
<1>1. \A x \in S : h[x] \in Int /\ g[x] \in Int /\ f[x] = h[x] + g[x]
  OBVIOUS
<1>2. Sum(f, S) = Sum(h, S) + Sum(g, S)
  BY <1>1, SumPlus
<1>3. Sum(h, S) \in Int /\ Sum(g, S) \in Int
  BY <1>1, SumIsInt
<1>4. QED
  BY <1>2, <1>3

(* Smaller values have a smaller sum, and an equal sum only when they are  *)
(* the same.                                                               *)
LEMMA SumLeq ==
    ASSUME NEW f, NEW g, NEW S, IsFiniteSet(S),
           \A x \in S : f[x] \in Int /\ g[x] \in Int /\ f[x] <= g[x]
    PROVE  /\ Sum(f, S) <= Sum(g, S)
           /\ Sum(f, S) = Sum(g, S) <=> \A x \in S : f[x] = g[x]
<1> DEFINE d == [x \in S |-> g[x] - f[x]]
<1>1. \A x \in S : d[x] \in Nat /\ d[x] = g[x] - f[x]
  OBVIOUS
<1> HIDE DEF d
<1>2. Sum(d, S) = Sum(g, S) - Sum(f, S)
  BY <1>1, SumMinus
<1>3. Sum(d, S) \in Nat /\ (Sum(d, S) = 0 <=> \A x \in S : d[x] = 0)
  BY <1>1, SumBounds
<1>4. Sum(f, S) \in Int /\ Sum(g, S) \in Int
  BY SumIsInt
<1>5. QED
  BY <1>1, <1>2, <1>3, <1>4

(* The sum changes by what one value changes. *)
LEMMA SumChange ==
    ASSUME NEW f, NEW g, NEW S, IsFiniteSet(S), NEW e \in S,
           \A x \in S : f[x] \in Int /\ g[x] \in Int,
           \A x \in S : x # e => f[x] = g[x]
    PROVE  Sum(g, S) = Sum(f, S) + (g[e] - f[e])
<1>1. Sum(f, S) = f[e] + Sum(f, S \ {e}) /\ Sum(g, S) = g[e] + Sum(g, S \ {e})
  BY SumTake
<1>2. IsFiniteSet(S \ {e})
  BY FS_Subset
<1>3. Sum(f, S \ {e}) = Sum(g, S \ {e}) /\ Sum(f, S \ {e}) \in Int
  BY <1>2, SumCongruent, SumIsInt
<1>4. QED
  BY <1>1, <1>3

-----------------------------------------------------------------------------
(* Least and largest numbers of a bounded set *)

LEMMA LeastOf ==
    ASSUME NEW S \in SUBSET Nat, S # {}
    PROVE  Min(S) \in S /\ \A y \in S : Min(S) <= y
<1>1. PICK x \in S : \A y \in S : ~(<<y, x>> \in OpToRel(<, Nat))
  BY NatLessThanWellFounded, WFMin
<1>2. ASSUME NEW y \in S PROVE x <= y
  <2>1. x \in Nat /\ y \in Nat /\ <<y, x>>[1] = y /\ <<y, x>>[2] = x /\ <<y, x>> \in Nat \X Nat
    OBVIOUS
  <2>2. <<y, x>> \notin OpToRel(<, Nat)
    BY <1>1
  <2>3. ~(<<y, x>>[1] < <<y, x>>[2])
    BY <2>1, <2>2, Zenon DEF OpToRel
  <2> QED BY <2>1, <2>3
<1> QED BY <1>2 DEF Min

LEMMA LargestOf ==
    ASSUME NEW n \in Nat, NEW S \in SUBSET (0..n), S # {}
    PROVE  Max(S) \in S /\ \A y \in S : Max(S) >= y
<1> DEFINE T == {k \in 0..n : n - k \in S}
<1>0. T \in SUBSET Nat
  OBVIOUS
<1>1. T # {}
  <2>1. PICK x \in S : TRUE
    OBVIOUS
  <2>2. n - x \in 0..n /\ n - (n - x) = x
    BY <2>1
  <2>3. n - x \in T
    BY <2>1, <2>2
  <2> QED BY <2>3
<1>2. PICK k \in T : \A y \in T : k <= y
  <2> HIDE DEF T
  <2> QED BY <1>0, <1>1, LeastOf
<1>3. n - k \in S
  OBVIOUS
<1>4. ASSUME NEW y \in S PROVE n - k >= y
  <2>1. n - y \in 0..n /\ n - (n - y) = y
    OBVIOUS
  <2>2. n - y \in T
    BY <2>1
  <2>3. k <= n - y
    BY <1>2, <2>2
  <2> QED BY <2>3
<1> QED BY <1>3, <1>4 DEF Max
=============================================================================
