-------------------------- MODULE ReputationProofs --------------------------
(***************************************************************************)
(* Proofs about Reputation for any nodes, scenarios, threshold and widths. *)
(***************************************************************************)
EXTENDS Reputation, FiniteSetTheorems, SequenceTheorems, TLAPS

-----------------------------------------------------------------------------
(* Facts about sums over finite sets (MapThenSumSet of the community       *)
(* modules), which the accounting is stated with.  The provers cannot      *)
(* instantiate an induction theorem, so every induction here is the choice *)
(* of a smallest set that violates the claim.                              *)

Sum(S, f) == MapThenSumSet(LAMBDA x : f[x], S)

(* The function that the definition of the fold chooses.                   *)
First(s) == CHOOSE x \in s : TRUE
Iter(S, f) ==
    CHOOSE h : h = [s \in SUBSET S |-> IF s = {} THEN 0 ELSE f[First(s)] + h[s \ {First(s)}]]
Folds(h, S, f) == h = [s \in SUBSET S |-> IF s = {} THEN 0 ELSE f[First(s)] + h[s \ {First(s)}]]

LEMMA SumIsIter == ASSUME NEW S, NEW f PROVE Sum(S, f) = Iter(S, f)[S]
BY DEF Sum, MapThenSumSet, MapThenFoldSet, Iter, First

LEMMA FirstIn == ASSUME NEW s, s # {} PROVE First(s) \in s
BY DEF First

(* A nonempty set of subsets of a finite set has a smallest one.           *)
LEMMA Smallest ==
    ASSUME NEW S, IsFiniteSet(S), NEW B \in SUBSET SUBSET S, B # {}
    PROVE  \E T \in B : IsFiniteSet(T) /\ T \in SUBSET S /\ \A U \in SUBSET T : U # T => U \notin B
<1>1. IsWellFoundedOn(StrictSubsetOrdering(S), FiniteSubsetsOf(S))
  BY FS_StrictSubsetOrderingWellFounded
<1>2. FiniteSubsetsOf(S) = SUBSET S
  BY FS_FiniteSubsetsOfFinite
<1>3. PICK T \in B : \A U \in B : ~(<<U, T>> \in StrictSubsetOrdering(S))
  BY <1>1, <1>2, WFMin
<1>4. IsFiniteSet(T)
  BY FS_Subset
<1>5. ASSUME NEW U \in SUBSET T, U # T, U \in B PROVE FALSE
  <2>1. <<U, T>> \in (SUBSET S) \X (SUBSET S)
    BY <1>5
  <2>2. <<U, T>> \in StrictSubsetOrdering(S)
    BY <2>1, <1>5 DEF StrictSubsetOrdering
  <2> QED BY <2>2, <1>3, <1>5
<1> QED BY <1>4, <1>5

(* The least element of a nonempty set of numbers.                         *)
LEMMA Least ==
    ASSUME NEW B \in SUBSET Nat, B # {}
    PROVE  \E n \in B : \A k \in B : n <= k
<1>1. IsWellFoundedOn(OpToRel(<, Nat), Nat)
  BY NatLessThanWellFounded
<1>2. PICK n \in B : \A k \in B : ~(<<k, n>> \in OpToRel(<, Nat))
  BY <1>1, WFMin
<1>3. ASSUME NEW k \in B, k < n PROVE FALSE
  <2>1. <<k, n>> \in OpToRel(<, Nat)
    BY <1>3 DEF OpToRel
  <2> QED BY <2>1, <1>2
<1> QED BY <1>3

-----------------------------------------------------------------------------
(* The recursion of the fold has a solution ...                            *)

Within(S, n) == {s \in SUBSET S : Cardinality(s) <= n}
PartFolds(h, S, f, n) ==
    h = [s \in Within(S, n) |-> IF s = {} THEN 0 ELSE f[First(s)] + h[s \ {First(s)}]]

LEMMA Shrinks ==
    ASSUME NEW S, IsFiniteSet(S), NEW n \in Nat, NEW s \in Within(S, n), s # {}
    PROVE  n # 0 /\ s \ {First(s)} \in Within(S, n - 1)
<1>1. IsFiniteSet(s) /\ Cardinality(s) \in Nat
  BY FS_Subset, FS_CardinalityType DEF Within
<1>2. First(s) \in s
  BY FirstIn
<1>3. Cardinality(s \ {First(s)}) = Cardinality(s) - 1 /\ IsFiniteSet(s \ {First(s)})
  BY <1>1, <1>2, FS_RemoveElement
<1>4. Cardinality(s \ {First(s)}) \in Nat
  BY <1>3, FS_CardinalityType
<1> QED BY <1>1, <1>3, <1>4 DEF Within

LEMMA PartFoldsExists ==
    ASSUME NEW S, NEW f, IsFiniteSet(S)
    PROVE  \A n \in Nat : \E h : PartFolds(h, S, f, n)
<1> DEFINE B == {n \in Nat : ~\E h : PartFolds(h, S, f, n)}
<1> SUFFICES ASSUME B # {} PROVE FALSE
  OBVIOUS
<1>1. PICK n \in B : \A k \in B : n <= k
  BY Least
<1>2. n \in Nat /\ ~\E h : PartFolds(h, S, f, n)
  BY <1>1
<1>3. CASE n = 0
  <2> DEFINE h == [s \in Within(S, 0) |-> 0]
  <2>1. \A s \in Within(S, 0) : s = {}
    BY Shrinks
  <2>2. h = [s \in Within(S, 0) |-> IF s = {} THEN 0 ELSE f[First(s)] + h[s \ {First(s)}]]
    BY <2>1
  <2> QED BY <2>2, <1>2, <1>3 DEF PartFolds
<1>4. CASE n # 0
  <2>1. n - 1 \in Nat /\ ~(n <= n - 1)
    BY <1>2, <1>4
  <2>2. PICK g : PartFolds(g, S, f, n - 1)
    BY <2>1, <1>1
  <2> DEFINE h == [s \in Within(S, n) |-> IF s = {} THEN 0 ELSE f[First(s)] + g[s \ {First(s)}]]
  <2>3. ASSUME NEW s \in Within(S, n), s # {} PROVE h[s \ {First(s)}] = g[s \ {First(s)}]
    <3> PICK t : t = s \ {First(s)}
      OBVIOUS
    <3>1. t \in Within(S, n - 1)
      BY <2>3, <1>2, Shrinks
    <3>2. t \in Within(S, n)
      <4>1. IsFiniteSet(t) /\ Cardinality(t) \in Nat
        BY <3>1, FS_Subset, FS_CardinalityType DEF Within
      <4> QED BY <3>1, <4>1, <1>2 DEF Within
    <3>3. g[t] = IF t = {} THEN 0 ELSE f[First(t)] + g[t \ {First(t)}]
      BY <2>2, <3>1 DEF PartFolds
    <3>4. h[t] = IF t = {} THEN 0 ELSE f[First(t)] + g[t \ {First(t)}]
      BY <3>2
    <3> QED BY <3>3, <3>4
  <2>4. h = [s \in Within(S, n) |-> IF s = {} THEN 0 ELSE f[First(s)] + h[s \ {First(s)}]]
    <3>1. \A s \in Within(S, n) : h[s] = IF s = {} THEN 0 ELSE f[First(s)] + h[s \ {First(s)}]
      BY <2>3
    <3> PICK hh : hh = h
      OBVIOUS
    <3> HIDE DEF h
    <3>2. DOMAIN h = Within(S, n) /\ h = [s \in DOMAIN h |-> h[s]]
      BY DEF h
    <3> QED BY <3>1, <3>2
  <2> QED BY <2>4, <1>2 DEF PartFolds
<1> QED BY <1>3, <1>4

LEMMA FoldsExists == ASSUME NEW S, NEW f, IsFiniteSet(S) PROVE Folds(Iter(S, f), S, f)
<1> PICK n : n = Cardinality(S)
  OBVIOUS
<1>1. n \in Nat
  BY FS_CardinalityType
<1>2. Within(S, n) = SUBSET S
  BY FS_Subset DEF Within
<1>3. PICK h : PartFolds(h, S, f, n)
  BY <1>1, PartFoldsExists
<1>4. h = [s \in SUBSET S |-> IF s = {} THEN 0 ELSE f[First(s)] + h[s \ {First(s)}]]
  BY <1>2, <1>3 DEF PartFolds
<1> QED BY <1>4 DEF Iter, Folds

(* ... and only one, whatever set it is taken over.                        *)
LEMMA FoldsUnique ==
    ASSUME NEW S, NEW f, IsFiniteSet(S), NEW T \in SUBSET S, NEW h, NEW k, Folds(h, S, f), Folds(k, T, f)
    PROVE  h[T] = k[T]
<1> DEFINE B == {s \in SUBSET T : h[s] # k[s]}
<1> SUFFICES ASSUME B # {} PROVE FALSE
  OBVIOUS
<1>1. B \in SUBSET SUBSET S
  OBVIOUS
<1>2. PICK s \in B : IsFiniteSet(s) /\ s \in SUBSET S /\ \A u \in SUBSET s : u # s => u \notin B
  <2> HIDE DEF B
  <2> QED BY <1>1, Smallest
<1>3. s \in SUBSET T /\ s \in SUBSET S /\ h[s] # k[s]
  BY <1>2
<1>4. /\ h[s] = IF s = {} THEN 0 ELSE f[First(s)] + h[s \ {First(s)}]
      /\ k[s] = IF s = {} THEN 0 ELSE f[First(s)] + k[s \ {First(s)}]
  BY <1>3 DEF Folds
<1>5. s # {}
  BY <1>3, <1>4
<1>6. First(s) \in s
  BY <1>5, FirstIn
<1>7. h[s \ {First(s)}] = k[s \ {First(s)}]
  BY <1>2, <1>3, <1>6
<1> QED BY <1>3, <1>4, <1>7

-----------------------------------------------------------------------------
(* What a sum is.                                                          *)

LEMMA SumEmpty == ASSUME NEW f PROVE Sum({}, f) = 0
<1>1. IsFiniteSet({})
  BY FS_EmptySet
<1>2. Folds(Iter({}, f), {}, f)
  BY <1>1, FoldsExists
<1> QED BY <1>2, SumIsIter DEF Folds

LEMMA SumFirst ==
    ASSUME NEW S, NEW f, IsFiniteSet(S), S # {}
    PROVE  Sum(S, f) = f[First(S)] + Sum(S \ {First(S)}, f)
<1> PICK T : T = S \ {First(S)}
  OBVIOUS
<1>1. IsFiniteSet(T) /\ T \in SUBSET S
  BY FS_Subset
<1>2. Folds(Iter(S, f), S, f) /\ Folds(Iter(T, f), T, f)
  BY <1>1, FoldsExists
<1>3. Iter(S, f)[T] = Iter(T, f)[T]
  BY <1>1, <1>2, FoldsUnique
<1>4. Iter(S, f)[S] = f[First(S)] + Iter(S, f)[T]
  BY <1>2 DEF Folds
<1> QED BY <1>3, <1>4, SumIsIter

(* A sum of natural numbers is one.                                        *)
LEMMA SumNat ==
    ASSUME NEW S, NEW f, IsFiniteSet(S), \A x \in S : f[x] \in Nat
    PROVE  Sum(S, f) \in Nat
<1> DEFINE B == {T \in SUBSET S : Sum(T, f) \notin Nat}
<1> SUFFICES ASSUME B # {} PROVE FALSE
  OBVIOUS
<1>1. B \in SUBSET SUBSET S
  OBVIOUS
<1>2. PICK T \in B : IsFiniteSet(T) /\ T \in SUBSET S /\ \A U \in SUBSET T : U # T => U \notin B
  <2> HIDE DEF B
  <2> QED BY <1>1, Smallest
<1>3. T \in SUBSET S /\ Sum(T, f) \notin Nat /\ IsFiniteSet(T)
  BY <1>2
<1>4. T # {}
  BY <1>3, SumEmpty
<1>5. First(T) \in T
  BY <1>4, FirstIn
<1>6. Sum(T \ {First(T)}, f) \in Nat
  BY <1>2, <1>3, <1>5
<1>7. Sum(T, f) = f[First(T)] + Sum(T \ {First(T)}, f)
  BY <1>3, <1>4, SumFirst
<1>8. f[First(T)] \in Nat
  BY <1>3, <1>5
<1> QED BY <1>3, <1>6, <1>7, <1>8

(* Any element may be taken out first.                                     *)
LEMMA SumRemove ==
    ASSUME NEW S, NEW f, IsFiniteSet(S), \A x \in S : f[x] \in Nat, NEW x \in S
    PROVE  Sum(S, f) = f[x] + Sum(S \ {x}, f)
<1> DEFINE B == {T \in SUBSET S : \E y \in T : Sum(T, f) # f[y] + Sum(T \ {y}, f)}
<1> SUFFICES ASSUME B # {} PROVE FALSE
  OBVIOUS
<1>1. B \in SUBSET SUBSET S
  OBVIOUS
<1>2. PICK T \in B : IsFiniteSet(T) /\ T \in SUBSET S /\ \A U \in SUBSET T : U # T => U \notin B
  <2> HIDE DEF B
  <2> QED BY <1>1, Smallest
<1>3. T \in SUBSET S /\ IsFiniteSet(T)
  BY <1>2
<1>4. PICK y \in T : Sum(T, f) # f[y] + Sum(T \ {y}, f)
  BY <1>2
<1> PICK c : c = First(T)
  OBVIOUS
<1>5. c \in T /\ Sum(T, f) = f[c] + Sum(T \ {c}, f)
  BY <1>3, <1>4, FirstIn, SumFirst
<1>6. c # y
  BY <1>4, <1>5
<1>0. ASSUME NEW U \in SUBSET T, U # T, NEW z \in U
      PROVE  Sum(U, f) = f[z] + Sum(U \ {z}, f)
  <2>1. U \notin B
    BY <1>0, <1>2
  <2>2. U \in SUBSET S
    BY <1>3
  <2> QED BY <2>1, <2>2
<1>7. Sum(T \ {c}, f) = f[y] + Sum((T \ {c}) \ {y}, f)
  BY <1>0, <1>4, <1>5, <1>6
<1>8. Sum(T \ {y}, f) = f[c] + Sum((T \ {y}) \ {c}, f)
  BY <1>0, <1>4, <1>5, <1>6
<1>9. (T \ {c}) \ {y} = (T \ {y}) \ {c}
  OBVIOUS
<1>10. IsFiniteSet((T \ {y}) \ {c}) /\ (T \ {y}) \ {c} \in SUBSET S
  BY <1>3, FS_Subset
<1>11. Sum((T \ {y}) \ {c}, f) \in Nat /\ f[y] \in Nat /\ f[c] \in Nat
  BY <1>3, <1>4, <1>5, <1>10, SumNat
<1> PICK r : r = Sum((T \ {y}) \ {c}, f)
  OBVIOUS
<1>12. Sum(T, f) = f[c] + (f[y] + r) /\ f[y] + Sum(T \ {y}, f) = f[y] + (f[c] + r)
  BY <1>5, <1>7, <1>8, <1>9
<1>13. r \in Nat
  BY <1>11
<1>14. f[c] + (f[y] + r) = f[y] + (f[c] + r)
  BY <1>11, <1>13
<1> QED BY <1>4, <1>12, <1>14

(* A new element adds its value, one that is there already adds nothing.   *)
LEMMA SumAdd ==
    ASSUME NEW S, NEW f, NEW x, IsFiniteSet(S), \A y \in S \cup {x} : f[y] \in Nat
    PROVE  /\ Sum(S \cup {x}, f) = IF x \in S THEN Sum(S, f) ELSE Sum(S, f) + f[x]
           /\ Sum(S \cup {x}, f) <= Sum(S, f) + f[x]
<1>1. IsFiniteSet(S \cup {x})
  BY FS_AddElement
<1>2. Sum(S, f) \in Nat /\ f[x] \in Nat
  BY SumNat
<1>3. CASE x \in S
  <2>1. S \cup {x} = S
    BY <1>3
  <2>2. Sum(S \cup {x}, f) = Sum(S, f)
    BY <2>1
  <2> QED BY <2>2, <1>2, <1>3
<1>4. CASE x \notin S
  <2>1. (S \cup {x}) \ {x} = S /\ x \in S \cup {x}
    BY <1>4
  <2>2. Sum(S \cup {x}, f) = f[x] + Sum(S, f)
    BY <2>1, <1>1, SumRemove
  <2> QED BY <2>2, <1>2, <1>4
<1> QED BY <1>3, <1>4

(* Fewer elements add up to no more.                                       *)
LEMMA SumSubset ==
    ASSUME NEW S, NEW f, IsFiniteSet(S), \A x \in S : f[x] \in Nat, NEW R \in SUBSET S
    PROVE  Sum(R, f) <= Sum(S, f)
<1> DEFINE B == {T \in SUBSET S : R \subseteq T /\ ~(Sum(R, f) <= Sum(T, f))}
<1> SUFFICES ASSUME B # {} PROVE FALSE
  OBVIOUS
<1>1. B \in SUBSET SUBSET S
  OBVIOUS
<1>2. PICK T \in B : IsFiniteSet(T) /\ T \in SUBSET S /\ \A U \in SUBSET T : U # T => U \notin B
  <2> HIDE DEF B
  <2> QED BY <1>1, Smallest
<1>3. R \subseteq T /\ ~(Sum(R, f) <= Sum(T, f))
  BY <1>2
<1>4. \A U \in SUBSET S : Sum(U, f) \in Nat
  BY FS_Subset, SumNat
<1>5. R # T
  BY <1>3, <1>4
<1>6. PICK x \in T : x \notin R
  BY <1>3, <1>5
<1>7. Sum(R, f) <= Sum(T \ {x}, f)
  <2>1. T \ {x} \notin B
    BY <1>2, <1>6
  <2> QED BY <2>1, <1>2, <1>3, <1>6
<1>8. Sum(T, f) = f[x] + Sum(T \ {x}, f)
  BY <1>2, <1>6, SumRemove
<1>9. f[x] \in Nat /\ Sum(T \ {x}, f) \in Nat /\ Sum(T, f) \in Nat /\ Sum(R, f) \in Nat
  BY <1>2, <1>4, <1>6
<1> QED BY <1>3, <1>7, <1>8, <1>9

(* The sum depends on the values in the set alone.                         *)
LEMMA SumEqual ==
    ASSUME NEW S, NEW f, NEW g, IsFiniteSet(S), \A x \in S : f[x] = g[x]
    PROVE  Sum(S, f) = Sum(S, g)
<1> DEFINE B == {T \in SUBSET S : Sum(T, f) # Sum(T, g)}
<1> SUFFICES ASSUME B # {} PROVE FALSE
  OBVIOUS
<1>1. B \in SUBSET SUBSET S
  OBVIOUS
<1>2. PICK T \in B : IsFiniteSet(T) /\ T \in SUBSET S /\ \A U \in SUBSET T : U # T => U \notin B
  <2> HIDE DEF B
  <2> QED BY <1>1, Smallest
<1>3. Sum(T, f) # Sum(T, g)
  BY <1>2
<1>4. T # {}
  BY <1>3, SumEmpty
<1> PICK c : c = First(T)
  OBVIOUS
<1>5. c \in T /\ Sum(T, f) = f[c] + Sum(T \ {c}, f) /\ Sum(T, g) = g[c] + Sum(T \ {c}, g)
  BY <1>2, <1>4, FirstIn, SumFirst
<1>6. T \ {c} \notin B
  BY <1>2, <1>5
<1>7. Sum(T \ {c}, f) = Sum(T \ {c}, g)
  BY <1>6, <1>2
<1>8. f[c] = g[c]
  BY <1>2, <1>5
<1> QED BY <1>3, <1>5, <1>7, <1>8

(* One value that changes.                                                 *)
LEMMA SumChange ==
    ASSUME NEW S, NEW f, NEW g, IsFiniteSet(S), NEW x \in S,
           \A y \in S : f[y] \in Nat /\ g[y] \in Nat /\ (y # x => f[y] = g[y])
    PROVE  Sum(S, g) + f[x] = Sum(S, f) + g[x]
<1>1. IsFiniteSet(S \ {x})
  BY FS_RemoveElement
<1>2. Sum(S, f) = f[x] + Sum(S \ {x}, f)
  BY SumRemove
<1>3. Sum(S, g) = g[x] + Sum(S \ {x}, g)
  BY SumRemove
<1>4. Sum(S \ {x}, f) = Sum(S \ {x}, g)
  BY <1>1, SumEqual
<1>5. Sum(S \ {x}, f) \in Nat
  BY <1>1, SumNat
<1> QED BY <1>2, <1>3, <1>4, <1>5

(* A sum over indices whose elements differ is the sum over the elements.  *)
Carries(m, S, g, I, f) ==
    /\ I = {m[x] : x \in S}
    /\ \A x, y \in S : m[x] = m[y] => x = y
    /\ \A x \in S : g[x] = f[m[x]] /\ g[x] \in Nat

LEMMA SumImage ==
    ASSUME NEW S, NEW m, NEW f, NEW g, NEW D, IsFiniteSet(S), Carries(m, S, g, D, f)
    PROVE  Sum(S, g) = Sum(D, f)
<1>0. /\ D = {m[x] : x \in S} /\ \A x \in S : g[x] = f[m[x]] /\ g[x] \in Nat
      /\ \A x, y \in S : m[x] = m[y] => x = y
  BY DEF Carries
<1> DEFINE I(T) == {m[x] : x \in T}
<1>i. I(S) = D
  BY <1>0
<1> DEFINE B == {T \in SUBSET S : Sum(T, g) # Sum(I(T), f)}
<1> SUFFICES ASSUME B # {} PROVE FALSE
  <2>1. S \notin B => Sum(S, g) = Sum(I(S), f)
    OBVIOUS
  <2> QED BY <2>1, <1>i
<1>1. B \in SUBSET SUBSET S
  OBVIOUS
<1>2. PICK T \in B : IsFiniteSet(T) /\ T \in SUBSET S /\ \A U \in SUBSET T : U # T => U \notin B
  <2> HIDE DEF B
  <2> QED BY <1>1, Smallest
<1>3. Sum(T, g) # Sum(I(T), f)
  BY <1>2
<1>4. T # {}
  <2> SUFFICES ASSUME T = {} PROVE FALSE
    OBVIOUS
  <2>1. I(T) = {}
    OBVIOUS
  <2> QED BY <2>1, <1>3, SumEmpty
<1>5. PICK x \in T : TRUE
  BY <1>4
<1>6. Sum(T \ {x}, g) = Sum(I(T \ {x}), f)
  <2>1. T \ {x} \notin B
    BY <1>2, <1>5
  <2> QED BY <2>1, <1>2
<1>7. Sum(T, g) = g[x] + Sum(T \ {x}, g)
  BY <1>0, <1>2, <1>5, SumRemove
<1>8. I(T) \ {m[x]} = I(T \ {x}) /\ m[x] \in I(T)
  BY <1>0, <1>2, <1>5
<1>9. IsFiniteSet(I(T))
  <2> DEFINE h == [y \in T |-> m[y]]
  <2>1. h \in Surjection(T, I(T))
    BY DEF Surjection
  <2> HIDE DEF h, I
  <2> QED BY <2>1, <1>2, FS_Surjection
<1>10. \A y \in I(T) : f[y] \in Nat
  BY <1>0, <1>2
<1>11. Sum(I(T), f) = f[m[x]] + Sum(I(T \ {x}), f)
  <2> PICK J : J = I(T)
    OBVIOUS
  <2> PICK y : y = m[x]
    OBVIOUS
  <2>1. IsFiniteSet(J) /\ (\A z \in J : f[z] \in Nat) /\ y \in J
    BY <1>8, <1>9, <1>10
  <2>2. Sum(J, f) = f[y] + Sum(J \ {y}, f)
    BY ONLY <2>1, SumRemove
  <2>3. J \ {y} = I(T \ {x})
    BY <1>8
  <2> HIDE DEF I
  <2> QED BY <2>2, <2>3
<1>12. g[x] = f[m[x]]
  BY <1>0, <1>2
<1> HIDE DEF I
<1> QED BY <1>3, <1>6, <1>7, <1>11, <1>12

-----------------------------------------------------------------------------
(* A finite set of numbers has a largest one.                              *)
LEMMA MaxFact ==
    ASSUME NEW S, S \subseteq Nat, IsFiniteSet(S), S # {}
    PROVE  Max(S) \in S /\ \A y \in S : Max(S) >= y
<1> DEFINE B == {T \in SUBSET S : T # {} /\ ~\E x \in T : \A y \in T : x >= y}
<1>0. B = {}
  <2> SUFFICES ASSUME B # {} PROVE FALSE
    OBVIOUS
  <2>1. B \in SUBSET SUBSET S
    OBVIOUS
  <2>2. PICK T \in B : IsFiniteSet(T) /\ T \in SUBSET S /\ \A U \in SUBSET T : U # T => U \notin B
    <3>1. IsFiniteSet(S) /\ B # {}
      OBVIOUS
    <3> HIDE DEF B
    <3> QED BY ONLY <2>1, <3>1, Smallest
  <2>3. T # {} /\ ~\E x \in T : \A y \in T : x >= y
    BY <2>2
  <2>4. PICK z \in T : TRUE
    BY <2>3
  <2>5. T \ {z} # {}
    <3> SUFFICES ASSUME T \ {z} = {} PROVE FALSE
      OBVIOUS
    <3>1. \A y \in T : y = z /\ z \in Nat
      BY <2>2
    <3> QED BY <3>1, <2>3, <2>4
  <2>6. T \ {z} \notin B
    BY <2>2, <2>4
  <2>7. PICK x \in T \ {z} : \A y \in T \ {z} : x >= y
    BY <2>2, <2>5, <2>6
  <2>8. x \in Nat /\ z \in Nat /\ x \in T /\ z \in T /\ \A y \in T : y \in Nat
    BY <2>2, <2>7
  <2>9. CASE x >= z
    BY <2>3, <2>7, <2>8, <2>9
  <2>10. CASE z > x
    <3>1. \A y \in T : z >= y
      BY <2>7, <2>8, <2>10
    <3> QED BY <3>1, <2>3, <2>8
  <2> QED BY <2>8, <2>9, <2>10
<1>1. \E x \in S : \A y \in S : x >= y
  BY <1>0
<1> QED BY <1>1 DEF Max

-----------------------------------------------------------------------------
(* The accounting                                                          *)

LEMMA ConstantsFact ==
    /\ IsFiniteSet(Nodes) /\ MaxReceipts \in Nat /\ MaxReceipts > 0
    /\ U64Max \in Nat /\ U64Max > 0 /\ I64Max \in Nat
    /\ Threshold \in Int /\ Threshold >= -I64Max - 1 /\ Threshold <= I64Max
BY NodesAssumption, MaxReceiptsAssumption, WidthAssumption, ThresholdAssumption

LEMMA ScenarioFact ==
    ASSUME NEW s \in Scenarios
    PROVE  /\ \A d \in s.downloads : d \in Nodes \X Nodes /\ d[1] \in Nodes /\ d[2] \in Nodes /\ d[1] # d[2]
           /\ s.sizes \subseteq Nat /\ s.sizes # {} /\ IsFiniteSet(s.sizes)
           /\ \A b \in Bounded : s[b] \in Nat
BY ScenariosAssumption

LEMMA SaturatedType == ASSUME NEW x PROVE Saturated(x) \in Amounts
BY ConstantsFact DEF Saturated, Amounts

(* A saturating addition never goes down, and not up by more than is added. *)
LEMMA SaturatedFact ==
    ASSUME NEW x \in Amounts, NEW b \in Nat
    PROVE  Saturated(x + b) \in Amounts /\ Saturated(x + b) >= x /\ Saturated(x + b) <= x + b
BY ConstantsFact DEF Saturated, Amounts

(* What a message of each kind carries.                                    *)
LEMMA MessageFact ==
    ASSUME NEW m \in Messages
    PROVE  /\ m.from \in Nodes /\ m.to \in Nodes
           /\ m.kind \in {"receipts?", "chunk?", "symbols?", "chunk", "symbols", "receipt", "receipts"}
           /\ m.kind \in {"chunk?", "symbols?"} =>
                 m \in [kind : {"chunk?", "symbols?"}, from : Nodes, to : Nodes, wanted : BOOLEAN]
           /\ m.kind \in {"chunk", "symbols"} =>
                 m \in [kind : {"chunk", "symbols"}, from : Nodes, to : Nodes, wanted : BOOLEAN, bytes : Nat]
           /\ m.kind = "receipt" => m.receipt \in Receipts
           /\ m.kind = "receipts" => m.list \in Seq(Receipts)
BY DEF Messages

LEMMA MessageTypes ==
    ASSUME NEW n \in Nodes, NEW p \in Nodes, NEW w \in BOOLEAN, NEW b \in Nat
    PROVE  /\ [kind |-> "receipts?", from |-> n, to |-> p] \in Messages
           /\ \A k \in {"chunk?", "symbols?"} : [kind |-> k, from |-> n, to |-> p, wanted |-> w] \in Messages
           /\ \A k \in {"chunk", "symbols"} :
                 [kind |-> k, from |-> n, to |-> p, wanted |-> w, bytes |-> b] \in Messages
           /\ \A r \in Receipts : [kind |-> "receipt", from |-> n, to |-> p, receipt |-> r] \in Messages
           /\ \A l \in Seq(Receipts) : [kind |-> "receipts", from |-> n, to |-> p, list |-> l] \in Messages
BY DEF Messages

LEMMA OrphanedType ==
    ASSUME NEW m \in Messages, m.kind \in {"chunk?", "symbols?", "chunk", "symbols"}
    PROVE  /\ Orphaned(m) \in Messages /\ Orphaned(m).kind = m.kind /\ Orphaned(m).wanted = FALSE
           /\ Orphaned(m).from = m.from /\ Orphaned(m).to = m.to
<1>1. CASE m.kind \in {"chunk?", "symbols?"}
  <2>1. m \in [kind : {"chunk?", "symbols?"}, from : Nodes, to : Nodes, wanted : BOOLEAN]
    BY <1>1, MessageFact
  <2>2. Orphaned(m) \in [kind : {"chunk?", "symbols?"}, from : Nodes, to : Nodes, wanted : BOOLEAN]
    BY <2>1 DEF Orphaned
  <2> QED BY <2>1, <2>2 DEF Messages, Orphaned
<1>2. CASE m.kind \in {"chunk", "symbols"}
  <2>1. m \in [kind : {"chunk", "symbols"}, from : Nodes, to : Nodes, wanted : BOOLEAN, bytes : Nat]
    BY <1>2, MessageFact
  <2>2. Orphaned(m) \in [kind : {"chunk", "symbols"}, from : Nodes, to : Nodes, wanted : BOOLEAN, bytes : Nat]
    BY <2>1 DEF Orphaned
  <2> QED BY <2>1, <2>2 DEF Messages, Orphaned
<1> QED BY <1>1, <1>2

-----------------------------------------------------------------------------
(* ReceiptBag::insert                                                      *)

Falling(b) == \A i, j \in DOMAIN b : i < j => b[i] # b[j] /\ b[i].bytes >= b[j].bytes

(* x is in the bag, or the bag is full of what is worth at least as much.  *)
Held(b, x) == \E i \in DOMAIN b : b[i] = x
Beaten(b, x) == Len(b) = MaxReceipts /\ \A i \in DOMAIN b : b[i].bytes >= x.bytes
Kept(b, x) == Held(b, x) \/ Beaten(b, x)

(* The place of a receipt: after all that are worth as much.               *)
LEMMA PlaceFact ==
    ASSUME NEW b \in Seq(Receipts), NEW r \in Receipts, NEW k,
           k = Cardinality({i \in DOMAIN b : b[i].bytes >= r.bytes})
    PROVE  /\ k \in 0 .. Len(b)
           /\ Falling(b) => \A i \in 1 .. Len(b) : b[i].bytes >= r.bytes <=> i <= k
<1> DEFINE G == {i \in DOMAIN b : b[i].bytes >= r.bytes}
<1>1. Len(b) \in Nat /\ DOMAIN b = 1 .. Len(b) /\ \A i \in 1 .. Len(b) : b[i] \in Receipts
  OBVIOUS
<1>2. \A i \in 1 .. Len(b) : b[i].bytes \in Nat
  BY <1>1 DEF Receipts
<1>3. IsFiniteSet(1 .. Len(b)) /\ Cardinality(1 .. Len(b)) = Len(b)
  <2> PICK n : n = Len(b)
    OBVIOUS
  <2>1. n \in Nat
    BY <1>1
  <2>2. IsFiniteSet(1 .. n) /\ Cardinality(1 .. n) = IF 1 > n THEN 0 ELSE n - 1 + 1
    <3>1. 1 \in Int /\ n \in Int
      BY <2>1
    <3>2. IsFiniteSet(1 .. n)
      BY <3>1, FS_Interval
    <3>3. Cardinality(1 .. n) = IF 1 > n THEN 0 ELSE n - 1 + 1
      BY ONLY <3>1, FS_Interval
    <3> QED BY <3>2, <3>3
  <2>3. Cardinality(1 .. n) = n
    BY <2>1, <2>2
  <2> QED BY <2>2, <2>3
<1>4. G \in SUBSET (1 .. Len(b))
  BY <1>1
<1>5. IsFiniteSet(G) /\ Cardinality(G) <= Len(b) /\ Cardinality(G) \in Nat
  <2> HIDE DEF G
  <2>1. IsFiniteSet(G) /\ Cardinality(G) <= Cardinality(1 .. Len(b))
    BY <1>3, <1>4, FS_Subset
  <2> QED BY <1>3, <2>1, FS_CardinalityType
<1>6. ASSUME Falling(b) PROVE \A i \in 1 .. Len(b) : b[i].bytes >= r.bytes <=> i <= k
  <2>1. CASE G = {}
    <3>1. k = 0
      BY <2>1, FS_EmptySet
    <3> QED BY <3>1, <2>1, <1>1
  <2>2. CASE G # {}
    <3> PICK M : M = Max(G)
      OBVIOUS
    <3>1. M \in G /\ \A i \in G : M >= i
      <4>1. G \subseteq Nat
        BY <1>4
      <4> HIDE DEF G
      <4> QED BY <4>1, <2>2, <1>5, MaxFact
    <3>2. M \in 1 .. Len(b) /\ b[M].bytes >= r.bytes
      BY <3>1, <1>1
    <3>3. ASSUME NEW i \in 1 .. Len(b), i < M PROVE b[i].bytes >= r.bytes
      <4>1. b[i].bytes >= b[M].bytes
        BY <3>2, <3>3, <1>6, <1>1 DEF Falling
      <4>2. b[i].bytes \in Nat /\ b[M].bytes \in Nat /\ r.bytes \in Nat
        BY <3>2, <1>2 DEF Receipts
      <4> QED BY <4>1, <4>2, <3>2
    <3>4. G = 1 .. M
      <4>1. \A i \in G : i \in 1 .. M
        BY <3>1, <3>2, <1>1, <1>4
      <4>2. \A i \in 1 .. M : i \in 1 .. Len(b) /\ (i < M \/ i = M)
        BY <3>2, <1>1
      <4>3. \A i \in 1 .. M : i \in G
        BY <4>2, <3>1, <3>3, <1>1
      <4> QED BY <4>1, <4>3
    <3>5. Cardinality(1 .. M) = M
      BY <3>2, FS_Interval
    <3>6. k = M
      BY <3>4, <3>5
    <3> QED BY <3>4, <3>6, <1>1
  <2> QED BY <2>1, <2>2
<1> QED BY <1>5, <1>6, <1>1

Inserted(l, b, at, r) ==
    /\ l \in Seq(Receipts) /\ Len(l) = Len(b) + 1
    /\ \A i \in 1 .. Len(b) + 1 : l[i] = IF i < at THEN b[i] ELSE IF i = at THEN r ELSE b[i - 1]

LEMMA InsertFact ==
    ASSUME NEW b \in Seq(Receipts), NEW r \in Receipts, NEW at \in 1 .. Len(b) + 1
    PROVE  Inserted(InsertAt(b, at, r), b, at, r)
<1> PICK l : l = InsertAt(b, at, r)
  OBVIOUS
<1> PICK k : k = at - 1
  OBVIOUS
<1> DEFINE A == SubSeq(b, 1, k)
<1> DEFINE C == SubSeq(b, k + 1, Len(b))
<1>0. Len(b) \in Nat /\ k \in Nat /\ k <= Len(b) /\ at = k + 1
  OBVIOUS
<1>1. A \in Seq(Receipts) /\ Len(A) = k /\ \A i \in 1 .. k : A[i] = b[i]
  <2>1. \A i \in 1 .. k : b[i] \in Receipts
    BY <1>0
  <2>2. /\ A \in Seq(Receipts) /\ Len(A) = (IF 1 <= k THEN k - 1 + 1 ELSE 0)
        /\ \A i \in 1 .. k - 1 + 1 : A[i] = b[1 + i - 1]
    BY <2>1, <1>0, SubSeqProperties
  <2> HIDE DEF A
  <2> QED BY <2>2, <1>0
<1>2. C \in Seq(Receipts) /\ Len(C) = Len(b) - k /\ \A i \in 1 .. Len(b) - k : C[i] = b[k + i]
  <2>1. \A i \in k + 1 .. Len(b) : b[i] \in Receipts
    BY <1>0
  <2>2. /\ C \in Seq(Receipts) /\ Len(C) = (IF k + 1 <= Len(b) THEN Len(b) - (k + 1) + 1 ELSE 0)
        /\ \A i \in 1 .. Len(b) - (k + 1) + 1 : C[i] = b[(k + 1) + i - 1]
    BY <2>1, <1>0, SubSeqProperties
  <2> HIDE DEF C
  <2>3. Len(b) - (k + 1) + 1 = Len(b) - k /\ \A i \in 1 .. Len(b) - k : (k + 1) + i - 1 = k + i
    BY <1>0
  <2>4. Len(C) = Len(b) - k
    BY <2>2, <1>0
  <2> QED BY <2>2, <2>3, <2>4
<1>3. l = A \o <<r>> \o C
  <2>1. at - 1 = k /\ at = k + 1
    BY <1>0
  <2>2. l = SubSeq(b, 1, at - 1) \o <<r>> \o SubSeq(b, at, Len(b))
    BY DEF InsertAt
  <2>3. SubSeq(b, 1, at - 1) = A /\ SubSeq(b, at, Len(b)) = C
    BY <2>1
  <2> HIDE DEF A, C
  <2> QED BY <2>2, <2>3
<1>4. <<r>> \in Seq(Receipts) /\ Len(<<r>>) = 1 /\ <<r>>[1] = r
  OBVIOUS
<1> HIDE DEF A, C
<1> PICK D : D = A \o <<r>>
  OBVIOUS
<1>5. /\ D \in Seq(Receipts) /\ Len(D) = k + 1
      /\ \A i \in 1 .. k + 1 : D[i] = IF i <= k THEN b[i] ELSE r
  <2>1. /\ D \in Seq(Receipts) /\ Len(D) = Len(A) + 1
        /\ \A i \in 1 .. Len(A) + 1 : D[i] = IF i <= Len(A) THEN A[i] ELSE <<r>>[i - Len(A)]
    BY <1>1, <1>4, ConcatProperties
  <2> QED BY <2>1, <1>0, <1>1, <1>4
<1>6. /\ l \in Seq(Receipts) /\ Len(l) = Len(D) + Len(C)
      /\ \A i \in 1 .. Len(D) + Len(C) : l[i] = IF i <= Len(D) THEN D[i] ELSE C[i - Len(D)]
  <2>1. l = D \o C
    BY <1>3
  <2>2. D \in Seq(Receipts) /\ C \in Seq(Receipts)
    BY <1>2, <1>5
  <2> QED BY ONLY <2>1, <2>2, ConcatProperties
<1>7. Len(l) = Len(b) + 1
  BY <1>0, <1>2, <1>5, <1>6
<1>8. ASSUME NEW i \in 1 .. Len(b) + 1
      PROVE  l[i] = IF i <= k THEN b[i] ELSE IF i = k + 1 THEN r ELSE b[i - 1]
  <2>1. l[i] = IF i <= k + 1 THEN D[i] ELSE C[i - (k + 1)]
    <3> PICK d : d = Len(D)
      OBVIOUS
    <3>1. d = k + 1 /\ i \in 1 .. d + Len(C)
      BY <1>0, <1>2, <1>5
    <3>2. l[i] = IF i <= d THEN D[i] ELSE C[i - d]
      BY <3>1, <1>6
    <3> QED BY ONLY <3>1, <3>2
  <2>2. CASE i <= k + 1
    BY <2>1, <2>2, <1>0, <1>5
  <2>3. CASE i > k + 1
    <3>1. i - (k + 1) \in 1 .. Len(b) - k /\ k + (i - (k + 1)) = i - 1
      BY <2>3, <1>0
    <3>2. C[i - (k + 1)] = b[i - 1]
      BY <3>1, <1>2
    <3> QED BY <3>2, <2>1, <2>3, <1>0
  <2> QED BY <2>2, <2>3, <1>0
<1>9. ASSUME NEW i \in 1 .. Len(b) + 1
      PROVE  l[i] = IF i < at THEN b[i] ELSE IF i = at THEN r ELSE b[i - 1]
  <2>1. (i <= k <=> i < at) /\ (i = k + 1 <=> i = at)
    BY <1>0
  <2> QED BY <2>1, <1>8
<1> QED BY <1>6, <1>7, <1>9 DEF Inserted

(* What insert keeps: nothing that was not there or inserted, no more than *)
(* MAX_RECEIPTS, without repetition, the most valuable first; and what is  *)
(* not kept is worth no more than anything that is.                        *)
LEMMA CollectedFact ==
    ASSUME NEW b \in Seq(Receipts), NEW r \in Receipts, NEW c, c = Collected(b, r)
    PROVE  /\ c \in Seq(Receipts)
           /\ \A i \in DOMAIN c : c[i] = r \/ \E j \in DOMAIN b : c[i] = b[j]
           /\ Len(b) <= MaxReceipts => Len(c) <= MaxReceipts
           /\ Falling(b) => Falling(c)
           /\ Falling(b) /\ Len(b) <= MaxReceipts =>
                  Kept(c, r) /\ \A x \in Receipts : Kept(b, x) => Kept(c, x)
<1>1. CASE r \in ToSet(b)
  <2>1. c = b
    BY <1>1 DEF Collected
  <2>2. Held(b, r)
    BY <1>1 DEF ToSet, Held
  <2> QED BY <2>1, <2>2 DEF Kept
<1>2. CASE r \notin ToSet(b)
  <2> PICK k : k = Cardinality({i \in DOMAIN b : b[i].bytes >= r.bytes})
    OBVIOUS
  <2> PICK at : at = 1 + k
    OBVIOUS
  <2> PICK l : l = InsertAt(b, at, r)
    OBVIOUS
  <2> PICK n : n = IF Len(l) > MaxReceipts THEN MaxReceipts ELSE Len(l)
    OBVIOUS
  <2>1. c = SubSeq(l, 1, n)
    BY <1>2 DEF Collected
  <2>2. /\ k \in 0 .. Len(b)
        /\ Falling(b) => \A i \in 1 .. Len(b) : b[i].bytes >= r.bytes <=> i <= k
    BY PlaceFact
  <2>3. /\ l \in Seq(Receipts) /\ Len(l) = Len(b) + 1
        /\ \A i \in 1 .. Len(b) + 1 : l[i] = IF i <= k THEN b[i] ELSE IF i = k + 1 THEN r ELSE b[i - 1]
    <3>1. at \in 1 .. Len(b) + 1 /\ Len(b) \in Nat /\ k \in Nat
      BY <2>2
    <3>2. /\ l \in Seq(Receipts) /\ Len(l) = Len(b) + 1
          /\ \A i \in 1 .. Len(b) + 1 : l[i] = IF i < at THEN b[i] ELSE IF i = at THEN r ELSE b[i - 1]
      <4>1. Inserted(InsertAt(b, at, r), b, at, r)
        BY <3>1, InsertFact
      <4> QED BY <4>1 DEF Inserted
    <3>3. \A i \in 1 .. Len(b) + 1 : (i < at <=> i <= k) /\ (i = at <=> i = k + 1)
      BY <3>1
    <3> QED BY <3>2, <3>3
  <2>4. n \in Nat /\ n <= MaxReceipts /\ n <= Len(l) /\ Len(b) \in Nat /\ DOMAIN b = 1 .. Len(b)
    BY <2>3, ConstantsFact
  <2>5. c \in Seq(Receipts) /\ Len(c) = n /\ \A i \in 1 .. n : c[i] = l[i]
    <3>1. \A i \in 1 .. n : l[i] \in Receipts
      BY <2>3, <2>4
    <3>2. /\ c \in Seq(Receipts) /\ Len(c) = (IF 1 <= n THEN n - 1 + 1 ELSE 0)
          /\ \A i \in 1 .. n - 1 + 1 : c[i] = l[1 + i - 1]
      BY <3>1, <2>1, <2>4, SubSeqProperties
    <3> QED BY <3>2, <2>4
  <2>6. DOMAIN c = 1 .. n
    BY <2>5
  <2>7. ASSUME NEW i \in 1 .. n
        PROVE  c[i] = IF i <= k THEN b[i] ELSE IF i = k + 1 THEN r ELSE b[i - 1]
    BY <2>3, <2>4, <2>5
  <2>8. ASSUME NEW i \in 1 .. n PROVE c[i] = r \/ \E j \in DOMAIN b : c[i] = b[j]
    <3>1. i <= k => i \in DOMAIN b
      BY <2>2, <2>4
    <3>2. i > k + 1 => i - 1 \in DOMAIN b
      BY <2>2, <2>3, <2>4
    <3>3. i <= k \/ i = k + 1 \/ i > k + 1
      BY <2>2, <2>4
    <3> QED BY <3>1, <3>2, <3>3, <2>7, <2>2, <2>4
  <2>9. ASSUME Falling(b) PROVE Falling(c)
    <3> SUFFICES ASSUME NEW i \in 1 .. n, NEW j \in 1 .. n, i < j
                 PROVE  c[i] # c[j] /\ c[i].bytes >= c[j].bytes
      BY <2>6 DEF Falling
    <3>0. k \in Nat /\ i \in Nat /\ j \in Nat /\ n <= Len(b) + 1
      BY <2>2, <2>3, <2>4
    <3>a. \A x \in DOMAIN b : b[x] # r /\ b[x].bytes \in Nat
      <4>1. \A x \in DOMAIN b : b[x] # r
        BY <1>2 DEF ToSet
      <4>2. \A x \in DOMAIN b : b[x] \in Receipts
        BY <2>4
      <4> QED BY <4>1, <4>2 DEF Receipts
    <3>b. r.bytes \in Nat
      BY DEF Receipts
    <3>1. CASE i <= k /\ j <= k
      <4>1. i \in DOMAIN b /\ j \in DOMAIN b
        BY <3>1, <2>2, <2>4
      <4> QED BY <4>1, <3>1, <2>7, <2>9 DEF Falling
    <3>2. CASE i <= k /\ j = k + 1
      <4>1. i \in DOMAIN b /\ c[i] = b[i] /\ c[j] = r
        BY <3>2, <2>2, <2>4, <2>7
      <4>2. b[i].bytes >= r.bytes
        BY <4>1, <3>2, <2>2, <2>4, <2>9
      <4> QED BY <4>1, <4>2, <3>a
    <3>3. CASE i <= k /\ j > k + 1
      <4>1. i \in DOMAIN b /\ j - 1 \in DOMAIN b /\ c[i] = b[i] /\ c[j] = b[j - 1] /\ i < j - 1
        BY <3>3, <3>0, <2>2, <2>4, <2>7
      <4> QED BY <4>1, <2>9 DEF Falling
    <3>4. CASE i = k + 1 /\ j > k + 1
      <4>1. j - 1 \in DOMAIN b /\ c[i] = r /\ c[j] = b[j - 1] /\ ~(j - 1 <= k)
        BY <3>4, <3>0, <2>2, <2>4, <2>7
      <4>2. ~(b[j - 1].bytes >= r.bytes)
        BY <4>1, <2>2, <2>4, <2>9
      <4>3. b[j - 1].bytes \in Nat /\ b[j - 1] # r
        BY <4>1, <3>a
      <4> QED BY <4>1, <4>2, <4>3, <3>b
    <3>5. CASE i > k + 1 /\ j > k + 1
      <4>1. /\ i - 1 \in DOMAIN b /\ j - 1 \in DOMAIN b /\ c[i] = b[i - 1] /\ c[j] = b[j - 1]
            /\ i - 1 < j - 1
        BY <3>5, <3>0, <2>2, <2>4, <2>7
      <4> QED BY <4>1, <2>9 DEF Falling
    <3> QED BY <3>0, <3>1, <3>2, <3>3, <3>4, <3>5
  <2>10. ASSUME Falling(b), Len(b) <= MaxReceipts, NEW x \in Receipts, x = r \/ Kept(b, x)
         PROVE  Kept(c, x)
    <3>0. k \in Nat /\ MaxReceipts \in Nat /\ x.bytes \in Nat /\ r.bytes \in Nat
      BY <2>2, ConstantsFact DEF Receipts
    <3>1. \A j \in DOMAIN b : b[j].bytes \in Nat
      <4>1. \A j \in DOMAIN b : b[j] \in Receipts
        BY <2>4
      <4> QED BY <4>1 DEF Receipts
    <3>2. /\ \A j \in DOMAIN b : j <= n /\ j <= k => j \in DOMAIN c /\ c[j] = b[j]
          /\ \A j \in DOMAIN b : j + 1 <= n /\ j > k => j + 1 \in DOMAIN c /\ c[j + 1] = b[j]
      <4>1. ASSUME NEW j \in DOMAIN b, j <= n, j <= k PROVE j \in DOMAIN c /\ c[j] = b[j]
        BY <4>1, <2>4, <2>6, <2>7, <3>0
      <4>2. ASSUME NEW j \in DOMAIN b, j + 1 <= n, j > k PROVE j + 1 \in DOMAIN c /\ c[j + 1] = b[j]
        <5>1. j + 1 \in 1 .. n /\ ~(j + 1 <= k) /\ j + 1 # k + 1 /\ j + 1 - 1 = j
          BY <4>2, <2>4, <3>0
        <5> QED BY <5>1, <2>6, <2>7
      <4> QED BY <4>1, <4>2
    <3>3. k + 1 <= n => k + 1 \in DOMAIN c /\ c[k + 1] = r
      BY <2>4, <2>6, <2>7, <3>0
    <3>4. CASE Len(b) + 1 <= MaxReceipts
      <4>1. n = Len(b) + 1
        BY <3>4, <2>3, <2>4, <3>0
      <4>2. Held(c, r)
        BY <4>1, <3>3, <2>2 DEF Held
      <4>3. ~Beaten(b, x)
        <5>1. Len(b) # MaxReceipts
          <6>1. Len(b) \in Nat /\ MaxReceipts \in Nat
            BY <2>4, <3>0
          <6> QED BY ONLY <6>1, <3>4
        <5> QED BY <5>1 DEF Beaten
      <4>4. ASSUME NEW j \in DOMAIN b, b[j] = x PROVE Held(c, x)
        <5>1. j <= n /\ j + 1 <= n /\ (j <= k \/ j > k)
          BY <4>1, <2>4, <3>0
        <5> QED BY <4>4, <5>1, <3>2 DEF Held
      <4> QED BY <4>2, <4>3, <4>4, <2>10 DEF Kept, Held
    <3>5. CASE Len(b) = MaxReceipts
      <4>1. n = MaxReceipts /\ Len(c) = MaxReceipts /\ DOMAIN c = DOMAIN b
        BY <3>5, <2>3, <2>4, <2>5, <2>6, <3>0
      <4>2. \A j \in DOMAIN b : b[j].bytes >= r.bytes <=> j <= k
        BY <2>2, <2>4, <2>10
      <4>3. ASSUME \A j \in DOMAIN b : b[j].bytes >= x.bytes PROVE Beaten(c, x)
        <5> SUFFICES ASSUME NEW i \in DOMAIN c PROVE c[i].bytes >= x.bytes
          BY <4>1 DEF Beaten
        <5>1. i \in 1 .. n /\ i \in DOMAIN b /\ i \in Nat
          BY <4>1, <2>6
        <5>2. CASE i <= k
          BY <5>1, <5>2, <2>7, <4>3
        <5>3. CASE i = k + 1
          <6>1. c[i] = r /\ ~(b[i].bytes >= r.bytes)
            BY <5>1, <5>3, <2>7, <3>0, <4>2
          <6> QED BY <6>1, <5>1, <4>3, <3>0, <3>1
        <5>4. CASE i > k + 1
          <6>1. i - 1 \in DOMAIN b /\ c[i] = b[i - 1]
            BY <5>1, <5>4, <2>4, <2>7, <3>0
          <6> QED BY <6>1, <4>3
        <5> QED BY <5>1, <5>2, <5>3, <5>4, <3>0
      <4>4. CASE x = r
        <5>1. CASE k + 1 <= n
          BY <5>1, <3>3, <4>4 DEF Kept, Held
        <5>2. CASE ~(k + 1 <= n)
          <6>1. \A j \in DOMAIN b : b[j].bytes >= x.bytes
            <7>1. \A j \in DOMAIN b : j <= k
              BY <5>2, <4>1, <3>5, <2>4, <3>0
            <7> QED BY <7>1, <4>2, <4>4
          <6> QED BY <6>1, <4>3 DEF Kept
        <5> QED BY <5>1, <5>2
      <4>5. CASE Beaten(b, x)
        BY <4>3, <4>5 DEF Beaten, Kept
      <4>6. ASSUME NEW j \in DOMAIN b, b[j] = x PROVE Kept(c, x)
        <5>1. j \in Nat /\ j <= n /\ (j <= k \/ j > k)
          BY <4>1, <2>4, <3>0
        <5>2. CASE j <= k \/ j + 1 <= n
          BY <4>6, <5>1, <5>2, <3>2 DEF Kept, Held
        <5>3. CASE ~(j + 1 <= n)
          <6>1. \A i \in DOMAIN b : i <= j
            BY <5>1, <5>3, <4>1, <2>4, <3>0
          <6>2. ASSUME NEW i \in DOMAIN b PROVE b[i].bytes >= x.bytes
            <7>1. i = j \/ i < j
              BY <6>1, <2>4, <5>1
            <7> QED BY <7>1, <4>6, <2>10, <3>1 DEF Falling
          <6> QED BY <6>2, <4>3 DEF Kept
        <5> QED BY <5>1, <5>2, <5>3
      <4> QED BY <4>4, <4>5, <4>6, <2>10 DEF Kept, Held
    <3> QED BY <3>4, <3>5, <2>4, <2>10, <3>0
  <2>11. r \in Receipts
    OBVIOUS
  <2> QED BY <2>4, <2>5, <2>6, <2>8, <2>9, <2>10, <2>11
<1> QED BY <1>1, <1>2

-----------------------------------------------------------------------------
(* The types, with what is under way finite, and the receipts of a node.   *)

Typed == TypeOK /\ scenario \in Scenarios /\ IsFiniteSet(wire)

LEMMA WireFinite ==
    ASSUME IsFiniteSet(wire)
    PROVE  /\ \A S : IsFiniteSet(wire \ S)
           /\ \A x : IsFiniteSet(wire \cup {x})
           /\ \A S : \A x : IsFiniteSet((wire \ S) \cup {x})
           /\ \A S : S \subseteq wire => IsFiniteSet(S)
<1>1. \A S : S \subseteq wire => IsFiniteSet(S)
  BY FS_Subset
<1>2. \A S : IsFiniteSet(wire \ S)
  BY <1>1
<1>3. ASSUME NEW S, NEW x PROVE IsFiniteSet((wire \ S) \cup {x})
  BY <1>2, FS_AddElement
<1>4. ASSUME NEW x PROVE IsFiniteSet(wire \cup {x})
  BY FS_AddElement
<1> QED BY <1>1, <1>2, <1>3, <1>4

LEMMA LedgerType ==
    ASSUME TypeOK, NEW n \in Nodes, NEW p \in Nodes, NEW v \in Amounts
    PROVE  /\ [ledger EXCEPT ![n][p].served_to_us = v] \in [Nodes -> [Nodes -> Counters]]
           /\ [ledger EXCEPT ![n][p].we_served = v] \in [Nodes -> [Nodes -> Counters]]
           /\ [ledger EXCEPT ![n][p].credited_by_receipts = v] \in [Nodes -> [Nodes -> Counters]]
<1>1. ledger \in [Nodes -> [Nodes -> Counters]]
  BY DEF TypeOK
<1>2. ledger[n] \in [Nodes -> Counters] /\ ledger[n][p] \in Counters
  BY <1>1
<1>3. /\ [ledger[n][p] EXCEPT !.served_to_us = v] \in Counters
      /\ [ledger[n][p] EXCEPT !.we_served = v] \in Counters
      /\ [ledger[n][p] EXCEPT !.credited_by_receipts = v] \in Counters
  BY <1>2 DEF Counters
<1>4. \A c \in Counters : [ledger EXCEPT ![n][p] = c] \in [Nodes -> [Nodes -> Counters]]
  BY <1>1, <1>2
<1> QED BY <1>3, <1>4

(* A change of one number between two nodes.                               *)
LEMMA AmountsType ==
    ASSUME NEW f \in [Nodes -> [Nodes -> Nat]], NEW n \in Nodes, NEW p \in Nodes, NEW v \in Nat
    PROVE  [f EXCEPT ![n][p] = v] \in [Nodes -> [Nodes -> Nat]]
<1>1. f[n] \in [Nodes -> Nat]
  OBVIOUS
<1>2. [f[n] EXCEPT ![p] = v] \in [Nodes -> Nat]
  BY <1>1
<1> QED BY <1>2

LEMMA InitTyped == Init => Typed
<1> SUFFICES ASSUME Init PROVE Typed
  OBVIOUS
<1>1. NoHistory \in Counters
  BY ConstantsFact DEF NoHistory, Counters, Amounts
<1>2. <<>> \in Seq(Receipts)
  OBVIOUS
<1>3. IsFiniteSet(wire)
  BY FS_EmptySet DEF Init
<1> QED BY <1>1, <1>2, <1>3 DEF Init, Typed, TypeOK

LEMMA UseType == ASSUME TypeOK, NEW b \in Bounded, Use(b) PROVE used' \in [Bounded -> Nat]
BY DEF TypeOK, Use

(* The steps of Next, with the types of their parameters.                  *)
Steps ==
    \/ \E n, p \in Nodes : n # p /\ (Connect(n, p) \/ Identify(n, p) \/ Disconnect(n, p) \/ Reconnect(n, p)
                                     \/ Fetch(n, p) \/ FetchSymbols(n, p) \/ SubmitReceipt(n, p))
    \/ \E n \in Nodes : Abandon(n) \/ SaveTick(n) \/ Restart(n)
    \/ \E m \in wire : Handle(m) \/ Lose(m)
    \/ Tick \/ UNCHANGED vars

LEMMA NextSteps == ASSUME Typed, [Next]_vars PROVE Steps
<1>1. \A d \in scenario.downloads : d \in Nodes \X Nodes /\ d[1] \in Nodes /\ d[2] \in Nodes /\ d[1] # d[2]
  BY ScenarioFact DEF Typed
<1>2. ASSUME NEW n \in Nodes, NEW p \in Nodes, Pair(n, p) PROVE n # p
  BY <1>1, <1>2 DEF Pair
<1> QED BY <1>1, <1>2 DEF Next, Steps

LEMMA NextTyped == ASSUME Typed, Steps PROVE Typed'
<1> USE DEF vars, accounts, session, totals
<1>0. TypeOK /\ scenario \in Scenarios /\ IsFiniteSet(wire) /\ wire \subseteq Messages
  BY DEF Typed, TypeOK
<1>w. /\ \A S : IsFiniteSet(wire \ S)
      /\ \A x : IsFiniteSet(wire \cup {x})
      /\ \A S : \A x : IsFiniteSet((wire \ S) \cup {x})
      /\ \A S : S \subseteq wire => IsFiniteSet(S)
  BY <1>0, WireFinite
<1>1. ASSUME NEW n \in Nodes, NEW p \in Nodes, Connect(n, p) PROVE Typed'
  BY <1>0, <1>1 DEF Connect, TypeOK, Typed
<1>2. ASSUME NEW n \in Nodes, NEW p \in Nodes, Identify(n, p) PROVE Typed'
  <2>1. [kind |-> "receipts?", from |-> n, to |-> p] \in Messages
    BY MessageTypes
  <2>2. wire' \subseteq Messages /\ IsFiniteSet(wire')
    BY <2>1, <1>0, <1>w, <1>2 DEF Identify
  <2>3. known' \in [Nodes -> SUBSET Nodes] /\ pulled' \in [Nodes -> SUBSET Nodes]
    <3>1. known \in [Nodes -> SUBSET Nodes] /\ pulled \in [Nodes -> SUBSET Nodes]
      BY <1>0 DEF TypeOK
    <3>2. /\ known' = [known EXCEPT ![n] = known[n] \cup {p}]
          /\ pulled' = pulled \/ pulled' = [pulled EXCEPT ![n] = pulled[n] \cup {p}]
      BY <1>2 DEF Identify
    <3>3. known[n] \cup {p} \in SUBSET Nodes /\ pulled[n] \cup {p} \in SUBSET Nodes
      BY <3>1
    <3> QED BY <3>1, <3>2, <3>3
  <2> QED BY <2>2, <2>3, <1>0, <1>2 DEF Identify, TypeOK, Typed
<1>3. ASSUME NEW n \in Nodes, NEW p \in Nodes, Disconnect(n, p) PROVE Typed'
  <2>1. wire' \subseteq Messages /\ IsFiniteSet(wire')
    BY <1>0, <1>w, <1>3 DEF Disconnect
  <2>2. known' \in [Nodes -> SUBSET Nodes] /\ pulled' \in [Nodes -> SUBSET Nodes]
    BY <1>0, <1>3 DEF Disconnect, TypeOK, Forgotten
  <2>3. used' \in [Bounded -> Nat]
    BY <1>0, <1>3, UseType DEF Disconnect, Bounded
  <2>4. link' \in SUBSET SUBSET Nodes
    BY <1>0, <1>3 DEF Disconnect, TypeOK
  <2> QED BY <2>1, <2>2, <2>3, <2>4, <1>0, <1>3 DEF Disconnect, TypeOK, Typed
<1>4. ASSUME NEW n \in Nodes, NEW p \in Nodes, Reconnect(n, p) PROVE Typed'
  <2>1. wire' \subseteq Messages /\ IsFiniteSet(wire')
    BY <1>0, <1>w, <1>4 DEF Reconnect
  <2>2. known' \in [Nodes -> SUBSET Nodes] /\ pulled' \in [Nodes -> SUBSET Nodes]
    BY <1>0, <1>4 DEF Reconnect, TypeOK, Forgotten
  <2>3. used' \in [Bounded -> Nat]
    BY <1>0, <1>4, UseType DEF Reconnect, Bounded
  <2> QED BY <2>1, <2>2, <2>3, <1>0, <1>4 DEF Reconnect, TypeOK, Typed
<1>5. ASSUME NEW n \in Nodes, NEW p \in Nodes, Fetch(n, p) \/ FetchSymbols(n, p) PROVE Typed'
  <2>1. PICK k \in {"chunk?", "symbols?"} : wire' = wire \cup {Request(n, p, k)}
    BY <1>5 DEF Fetch, FetchSymbols, Ask
  <2>2. Request(n, p, k) \in Messages
    BY MessageTypes DEF Request
  <2>3. wire' \subseteq Messages /\ IsFiniteSet(wire')
    BY <2>1, <2>2, <1>0, <1>w
  <2>4. used' \in [Bounded -> Nat]
    BY <1>0, <1>5, UseType DEF Fetch, FetchSymbols, Bounded
  <2> QED BY <2>3, <2>4, <1>0, <1>5 DEF Fetch, FetchSymbols, Ask, TypeOK, Typed
<1>6. ASSUME NEW n \in Nodes, NEW p \in Nodes, SubmitReceipt(n, p) PROVE Typed'
  <2> PICK r : r = [server |-> p, client |-> n, bytes |-> fetched[n][p], epoch |-> epoch[n]]
    OBVIOUS
  <2>1. r \in Receipts
    BY <1>0 DEF Receipts, TypeOK
  <2>2. wire' = wire \/ wire' = wire \cup {[kind |-> "receipt", from |-> n, to |-> p, receipt |-> r]}
    BY <1>6 DEF SubmitReceipt
  <2>3. wire' \subseteq Messages /\ IsFiniteSet(wire')
    BY <2>1, <2>2, <1>0, <1>w, MessageTypes
  <2>4. fetched' \in [Nodes -> [Nodes -> Nat]]
    BY <1>0, <1>6 DEF SubmitReceipt, AfterSubmit, TypeOK
  <2>5. epoch' \in [Nodes -> Nat] /\ issued' \in [Nodes -> [Nodes -> Nat]]
    <3>1. epoch \in [Nodes -> Nat] /\ issued \in [Nodes -> [Nodes -> Nat]] /\ fetched[n][p] \in Nat
      BY <1>0, SMTT(30) DEF TypeOK
    <3>2. /\ epoch' = epoch \/ epoch' = [epoch EXCEPT ![n] = epoch[n] + 1]
          /\ issued' = issued \/ issued' = [issued EXCEPT ![n][p] = issued[n][p] + fetched[n][p]]
      BY <1>6 DEF SubmitReceipt
    <3>3. epoch[n] + 1 \in Nat /\ issued[n][p] + fetched[n][p] \in Nat
      BY <3>1
    <3>4. [issued EXCEPT ![n][p] = issued[n][p] + fetched[n][p]] \in [Nodes -> [Nodes -> Nat]]
      BY <3>1, <3>3, AmountsType
    <3> QED BY <3>1, <3>2, <3>3, <3>4
  <2> QED BY <2>3, <2>4, <2>5, <1>0, <1>6 DEF SubmitReceipt, TypeOK, Typed
<1>7. ASSUME NEW n \in Nodes, Abandon(n) PROVE Typed'
  <2> PICK S : S = {m \in wire : m.kind \in {"chunk?", "symbols?"} /\ m.from = n}
                     \cup {m \in wire : m.kind \in {"chunk", "symbols"} /\ m.to = n}
    OBVIOUS
  <2>1. wire' = (wire \ S) \cup {Orphaned(m) : m \in S}
    BY <1>7 DEF Abandon
  <2>2. \A m \in S : m \in Messages /\ m.kind \in {"chunk?", "symbols?", "chunk", "symbols"}
    BY <1>0
  <2>3. \A m \in S : Orphaned(m) \in Messages
    BY <2>2, OrphanedType
  <2>4. wire' \subseteq Messages
    BY <2>1, <2>3, <1>0
  <2>5. IsFiniteSet({Orphaned(m) : m \in S})
    <3> DEFINE I == {Orphaned(m) : m \in S}
    <3> DEFINE h == [m \in S |-> Orphaned(m)]
    <3>1. h \in Surjection(S, I)
      BY DEF Surjection
    <3>2. IsFiniteSet(S)
      BY <1>w
    <3> HIDE DEF h, I
    <3>3. IsFiniteSet(I)
      BY <3>1, <3>2, FS_Surjection
    <3> QED BY <3>3 DEF I
  <2>6. IsFiniteSet(wire')
    BY <2>1, <2>5, <1>w, FS_Union
  <2>7. fetched' \in [Nodes -> [Nodes -> Nat]]
    BY <1>0, <1>7 DEF Abandon, TypeOK
  <2> QED BY <2>4, <2>6, <2>7, <1>0, <1>7 DEF Abandon, TypeOK, Typed
<1>8. ASSUME NEW n \in Nodes, SaveTick(n) PROVE Typed'
  BY <1>0, <1>8 DEF SaveTick, TypeOK, Typed
<1>9. ASSUME NEW n \in Nodes, Restart(n) PROVE Typed'
  <2>1. wire' \subseteq Messages /\ IsFiniteSet(wire')
    BY <1>0, <1>w, <1>9 DEF Restart
  <2>2. known' \in [Nodes -> SUBSET Nodes] /\ pulled' \in [Nodes -> SUBSET Nodes]
    BY <1>0, <1>9 DEF Restart, TypeOK
  <2>3. used' \in [Bounded -> Nat]
    BY <1>0, <1>9, UseType DEF Restart, Bounded
  <2>4. /\ ledger' \in [Nodes -> [Nodes -> Counters]] /\ dirty' \in [Nodes -> BOOLEAN]
        /\ bag' \in [Nodes -> Seq(Receipts)] /\ link' \in SUBSET SUBSET Nodes /\ epoch' \in [Nodes -> Nat]
    BY <1>0, <1>9 DEF Restart, TypeOK
  <2>6. offered' \in [Nodes -> [now : SUBSET Receipts, saved : SUBSET Receipts]]
    <3>1. offered \in [Nodes -> [now : SUBSET Receipts, saved : SUBSET Receipts]]
      BY <1>0 DEF TypeOK
    <3>2. offered' = [offered EXCEPT ![n] = [offered[n] EXCEPT !.now = offered[n].saved]]
      BY <1>9 DEF Restart
    <3>3. [offered[n] EXCEPT !.now = offered[n].saved] \in [now : SUBSET Receipts, saved : SUBSET Receipts]
      BY <3>1
    <3> QED BY <3>1, <3>2, <3>3
  <2>5. fetched' \in [Nodes -> [Nodes -> Nat]]
    BY <1>0, <1>9 DEF Restart, TypeOK
  <2> QED BY <2>1, <2>2, <2>3, <2>4, <2>5, <2>6, <1>0, <1>9 DEF Restart, TypeOK, Typed
<1>10. CASE Tick
  <2>1. clock' \in Nat
    BY <1>0, <1>10 DEF Tick, TypeOK
  <2> QED BY <2>1, <1>0, <1>10 DEF Tick, TypeOK, Typed
<1>11. ASSUME NEW m \in wire, Lose(m) \/ RefuseChunk(m) PROVE Typed'
  <2>1. wire' \subseteq Messages /\ IsFiniteSet(wire')
    BY <1>0, <1>w, <1>11 DEF Lose, RefuseChunk, Consume
  <2>2. used' \in [Bounded -> Nat]
    <3>1. CASE Lose(m)
      BY <3>1, <1>0, UseType DEF Lose, Bounded
    <3>2. CASE RefuseChunk(m)
      BY <3>2, <1>0 DEF RefuseChunk, TypeOK
    <3> QED BY <3>1, <3>2, <1>11
  <2> QED BY <2>1, <2>2, <1>0, <1>11 DEF Lose, RefuseChunk, TypeOK, Typed
<1>12. ASSUME NEW m \in wire, ServeChunk(m) \/ ServeSymbols(m) PROVE Typed'
  <2>1. PICK k \in {"chunk", "symbols"}, bytes \in scenario.sizes : HandOut(m, k, bytes)
    BY <1>12 DEF ServeChunk, ServeSymbols
  <2>2. bytes \in Nat
    BY <1>0, ScenarioFact
  <2>3. m \in Messages /\ m.kind \in {"chunk?", "symbols?"}
    BY <1>0, <1>12 DEF ServeChunk, ServeSymbols
  <2>4. m.from \in Nodes /\ m.to \in Nodes /\ m.wanted \in BOOLEAN
    BY <2>3, MessageFact
  <2>5. [kind |-> k, from |-> m.to, to |-> m.from, wanted |-> m.wanted, bytes |-> bytes] \in Messages
    BY <2>2, <2>4, MessageTypes
  <2>6. wire' \subseteq Messages /\ IsFiniteSet(wire')
    BY <2>1, <2>5, <1>0, <1>w DEF HandOut, Reply
  <2>7. ledger' \in [Nodes -> [Nodes -> Counters]]
    <3>1. PICK v \in Amounts : ledger' = [ledger EXCEPT ![m.to][m.from].we_served = v]
      BY <2>1, SaturatedType DEF HandOut, RecordServed
    <3> QED BY <3>1, <2>4, <1>0, LedgerType
  <2>8. dirty' \in [Nodes -> BOOLEAN]
    BY <2>1, <2>4, <1>0 DEF HandOut, MarkDirty, TypeOK
  <2>9. served' \in [Nodes -> [Nodes -> Nat]]
    <3>1. served \in [Nodes -> [Nodes -> Nat]]
      BY <1>0 DEF TypeOK
    <3>2. served' = [served EXCEPT ![m.to][m.from] = served[m.to][m.from] + bytes]
      BY <2>1 DEF HandOut
    <3>3. served[m.to][m.from] + bytes \in Nat
      BY <3>1, <2>2, <2>4
    <3> QED BY <3>1, <3>2, <3>3, <2>4, AmountsType
  <2> QED BY <2>1, <2>6, <2>7, <2>8, <2>9, <1>0 DEF HandOut, TypeOK, Typed
<1>13. ASSUME NEW m \in wire, ReceiveData(m) PROVE Typed'
  <2>1. m \in Messages /\ m.kind \in {"chunk", "symbols"}
    BY <1>0, <1>13 DEF ReceiveData
  <2>2. m.from \in Nodes /\ m.to \in Nodes /\ m.bytes \in Nat
    BY <2>1, MessageFact
  <2>3. ledger' \in [Nodes -> [Nodes -> Counters]] /\ dirty' \in [Nodes -> BOOLEAN]
    <3>1. CASE m.kind = "chunk"
      <4>1. PICK v \in Amounts : ledger' = [ledger EXCEPT ![m.to][m.from].served_to_us = v]
        BY <3>1, <1>13, SaturatedType DEF ReceiveData, RecordResponse, RecordReceived
      <4>2. dirty' \in [Nodes -> BOOLEAN]
        BY <3>1, <1>13, <1>0, <2>2 DEF ReceiveData, RecordResponse, MarkDirty, TypeOK
      <4> QED BY <4>1, <4>2, <2>2, <1>0, LedgerType
    <3>2. CASE m.kind # "chunk"
      BY <3>2, <1>0, <1>13 DEF ReceiveData, RecordResponse, TypeOK
    <3> QED BY <3>1, <3>2
  <2>4. fetched' \in [Nodes -> [Nodes -> Nat]]
    <3>1. fetched \in [Nodes -> [Nodes -> Nat]]
      BY <1>0 DEF TypeOK
    <3>2. fetched' = fetched \/ fetched' = [fetched EXCEPT ![m.to][m.from] = fetched[m.to][m.from] + m.bytes]
      BY <1>13 DEF ReceiveData
    <3>3. fetched[m.to][m.from] + m.bytes \in Nat
      BY <3>1, <2>2
    <3>4. [fetched EXCEPT ![m.to][m.from] = fetched[m.to][m.from] + m.bytes] \in [Nodes -> [Nodes -> Nat]]
      BY <3>1, <3>3, <2>2, AmountsType
    <3> QED BY <3>1, <3>2, <3>4
  <2>5. wire' \subseteq Messages /\ IsFiniteSet(wire')
    BY <1>0, <1>w, <1>13 DEF ReceiveData, Consume
  <2> QED BY <2>3, <2>4, <2>5, <1>0, <1>13 DEF ReceiveData, TypeOK, Typed
<1>14. ASSUME NEW m \in wire, CollectReceipt(m) PROVE Typed'
  <2>1. m \in Messages /\ m.kind = "receipt"
    BY <1>0, <1>14 DEF CollectReceipt
  <2>2. m.to \in Nodes /\ m.receipt \in Receipts
    BY <2>1, MessageFact
  <2>3. bag[m.to] \in Seq(Receipts)
    BY <2>2, <1>0 DEF TypeOK
  <2>4. Collected(bag[m.to], m.receipt) \in Seq(Receipts)
    BY <2>2, <2>3, CollectedFact
  <2>5. bag' \in [Nodes -> Seq(Receipts)]
    BY <2>2, <2>4, <1>0, <1>14 DEF CollectReceipt, TypeOK
  <2>6. receiptsBin' \in [Nodes -> Seq(Receipts)]
    <3>1. receiptsBin \in [Nodes -> Seq(Receipts)] /\ bag'[m.to] \in Seq(Receipts)
      BY <2>2, <2>5, <1>0 DEF TypeOK
    <3>2. receiptsBin' = receiptsBin \/ receiptsBin' = [receiptsBin EXCEPT ![m.to] = bag'[m.to]]
      BY <1>14 DEF CollectReceipt
    <3> QED BY <3>1, <3>2
  <2>7. used' \in [Bounded -> Nat]
    <3>1. used' = used \/ Use("errors")
      BY <1>14 DEF CollectReceipt
    <3> QED BY <3>1, <1>0, UseType DEF Bounded, TypeOK
  <2>8. wire' \subseteq Messages /\ IsFiniteSet(wire')
    BY <1>0, <1>w, <1>14 DEF CollectReceipt, Consume
  <2>9. offered' \in [Nodes -> [now : SUBSET Receipts, saved : SUBSET Receipts]]
    <3>1. offered' = offered \/ \E saved \in BOOLEAN : Offer(m.to, m.receipt, saved)
      BY <1>14 DEF CollectReceipt
    <3>2. ASSUME NEW saved \in BOOLEAN, Offer(m.to, m.receipt, saved)
          PROVE  offered' \in [Nodes -> [now : SUBSET Receipts, saved : SUBSET Receipts]]
      BY <3>2, <2>2, <1>0 DEF Offer, TypeOK
    <3> QED BY <3>1, <3>2, <1>0 DEF TypeOK
  <2> QED BY <2>5, <2>6, <2>7, <2>8, <2>9, <1>0, <1>14 DEF CollectReceipt, TypeOK, Typed
<1>15. ASSUME NEW m \in wire, PresentReceipts(m) PROVE Typed'
  <2>1. m \in Messages
    BY <1>0
  <2>2. m.from \in Nodes /\ m.to \in Nodes /\ bag[m.to] \in Seq(Receipts)
    BY <2>1, <1>0, MessageFact DEF TypeOK
  <2>3. [kind |-> "receipts", from |-> m.to, to |-> m.from, list |-> bag[m.to]] \in Messages
    BY <2>2, MessageTypes
  <2>4. wire' \subseteq Messages /\ IsFiniteSet(wire')
    BY <2>3, <1>0, <1>w, <1>15 DEF PresentReceipts, Reply
  <2> QED BY <2>4, <1>0, <1>15 DEF PresentReceipts, TypeOK, Typed
<1>16. ASSUME NEW m \in wire, CreditReceipts(m) PROVE Typed'
  <2>1. m \in Messages
    BY <1>0
  <2>2. m.from \in Nodes /\ m.to \in Nodes
    BY <2>1, MessageFact
  <2>3. ledger' \in [Nodes -> [Nodes -> Counters]]
    <3>1. ledger' = ledger \/
          \E v \in Amounts : ledger' = [ledger EXCEPT ![m.to][m.from].credited_by_receipts = v]
      BY <1>16, SaturatedType DEF CreditReceipts
    <3>2. CASE ledger' = ledger
      BY <3>2, <1>0 DEF TypeOK
    <3>3. ASSUME NEW v \in Amounts, ledger' = [ledger EXCEPT ![m.to][m.from].credited_by_receipts = v]
          PROVE  ledger' \in [Nodes -> [Nodes -> Counters]]
      BY <3>3, <2>2, <1>0, LedgerType
    <3> QED BY <3>1, <3>2, <3>3
  <2>4. ledgerBin' \in [Nodes -> [Nodes -> Counters]]
    <3>1. ledgerBin \in [Nodes -> [Nodes -> Counters]] /\ ledger'[m.to] \in [Nodes -> Counters]
      BY <2>2, <2>3, <1>0 DEF TypeOK
    <3>2. ledgerBin' = ledgerBin \/ ledgerBin' = [ledgerBin EXCEPT ![m.to] = ledger'[m.to]]
      BY <1>16 DEF CreditReceipts
    <3> QED BY <3>1, <3>2
  <2>5. used' \in [Bounded -> Nat]
    <3>1. used' = used \/ Use("errors")
      BY <1>16 DEF CreditReceipts
    <3> QED BY <3>1, <1>0, UseType DEF Bounded, TypeOK
  <2>6. wire' \subseteq Messages /\ IsFiniteSet(wire')
    BY <1>0, <1>w, <1>16 DEF CreditReceipts, Consume
  <2> QED BY <2>3, <2>4, <2>5, <2>6, <1>0, <1>16 DEF CreditReceipts, TypeOK, Typed
<1>17. CASE UNCHANGED vars
  BY <1>0, <1>17 DEF TypeOK, Typed
<1> QED
  BY <1>1, <1>2, <1>3, <1>4, <1>5, <1>6, <1>7, <1>8, <1>9, <1>10, <1>11, <1>12, <1>13, <1>14, <1>15,
     <1>16, <1>17 DEF Steps, Handle

LEMMA TypedStep == Typed /\ [Next]_vars => Steps /\ Typed'
BY NextSteps, NextTyped

-----------------------------------------------------------------------------
(* The choke                                                               *)

LEMMA NetFact == ASSUME NEW c \in Counters PROVE Net(c) \in Int /\ Reputation(c) \in Int
<1>1. c.served_to_us \in Int /\ c.credited_by_receipts \in Int /\ c.we_served \in Int
  BY ConstantsFact DEF Counters, Amounts
<1> QED BY <1>1, ConstantsFact DEF Net, Reputation

LEMMA ChokeFact ==
    /\ ChokeBelow \in Int /\ (Threshold >= 0 => ChokeBelow <= 0)
    /\ \A c \in Counters : ~(Reputation(c) < ChokeBelow) => Net(c) >= ChokeBelow
    /\ \A c \in Counters : Net(c) >= 0 /\ Threshold >= 0 => ~(Reputation(c) < ChokeBelow)
<1>1. ChokeBelow \in Int /\ (Threshold >= 0 => ChokeBelow <= 0) /\ ChokeBelow >= -I64Max /\ ChokeBelow <= I64Max
  BY ConstantsFact DEF ChokeBelow
<1>2. ASSUME NEW c \in Counters
      PROVE  /\ ~(Reputation(c) < ChokeBelow) => Net(c) >= ChokeBelow
             /\ Net(c) >= 0 /\ Threshold >= 0 => ~(Reputation(c) < ChokeBelow)
  <2> PICK x : x = Net(c)
    OBVIOUS
  <2>1. x \in Int
    BY NetFact
  <2>2. Reputation(c) = IF x > I64Max THEN I64Max ELSE IF x < -I64Max - 1 THEN -I64Max - 1 ELSE x
    BY DEF Reputation
  <2> HIDE DEF ChokeBelow
  <2> QED BY <2>1, <2>2, <1>1, ConstantsFact
<1> QED BY <1>1, <1>2

(* A peer that has given at least what it took is never choked, whatever   *)
(* the widths of the counters and of the reputation, as the clamping in    *)
(* Ledger::reputation means it.                                            *)
THEOREM SpecGiverNotChoked == Spec => []GiverNotChoked
<1>1. Typed => GiverNotChoked
  <2> SUFFICES ASSUME Typed, NEW n \in Nodes, NEW p \in Nodes, Threshold >= 0, Net(ledger[n][p]) >= 0
               PROVE  ~Choked(n, p)
    BY DEF GiverNotChoked
  <2>1. ledger[n][p] \in Counters
    BY DEF Typed, TypeOK
  <2> QED BY <2>1, ChokeFact DEF Choked
<1> QED BY <1>1, InitTyped, TypedStep, PTL DEF Spec

-----------------------------------------------------------------------------
(* The flush                                                               *)

(* A record that differs from ledger.bin is marked for the flush, unless a *)
(* save has failed: no handler of the event loop and no restart forgets to *)
(* set ledger_dirty.                                                       *)
THEOREM SpecUnsavedIsMarked == Spec => []UnsavedIsMarked
<1>1. Init => UnsavedIsMarked
  BY DEF Init, UnsavedIsMarked
<1>2. Typed /\ Steps /\ UnsavedIsMarked => UnsavedIsMarked'
  <2> SUFFICES ASSUME Typed, Steps, UnsavedIsMarked PROVE UnsavedIsMarked'
    OBVIOUS
  <2> USE DEF vars, accounts, session, totals
  <2>0. /\ used \in [Bounded -> Nat] /\ dirty \in [Nodes -> BOOLEAN] /\ wire \subseteq Messages
        /\ ledger \in [Nodes -> [Nodes -> Counters]] /\ ledgerBin \in [Nodes -> [Nodes -> Counters]]
    BY DEF Typed, TypeOK
  <2>1. ASSUME UNCHANGED <<ledger, ledgerBin, dirty>>, used' = used \/ \E b \in Bounded : Use(b)
        PROVE  UnsavedIsMarked'
    <3>1. used'["errors"] = 0 => used["errors"] = 0
      BY <2>0, <2>1 DEF Use, Bounded
    <3> QED BY <2>1, <3>1 DEF UnsavedIsMarked
  <2>2. ASSUME NEW n \in Nodes, dirty' = [dirty EXCEPT ![n] = TRUE], used' = used, ledgerBin' = ledgerBin,
               \A q \in Nodes : q # n => ledger'[q] = ledger[q]
        PROVE  UnsavedIsMarked'
    BY <2>0, <2>2 DEF UnsavedIsMarked
  <2>3. ASSUME NEW m \in wire, ServeChunk(m) \/ ServeSymbols(m) PROVE UnsavedIsMarked'
    <3>1. PICK k, bytes : HandOut(m, k, bytes)
      BY <2>3 DEF ServeChunk, ServeSymbols
    <3>2. m.to \in Nodes
      BY <2>0, MessageFact
    <3>3. \A q \in Nodes : q # m.to => ledger'[q] = ledger[q]
      BY <3>1, <2>0 DEF HandOut, RecordServed
    <3> QED BY <3>1, <3>2, <3>3, <2>2 DEF HandOut, MarkDirty
  <2>4. ASSUME NEW m \in wire, ReceiveData(m) PROVE UnsavedIsMarked'
    <3>1. CASE m.kind = "chunk"
      <4>1. m.to \in Nodes
        BY <2>0, MessageFact
      <4>2. \A q \in Nodes : q # m.to => ledger'[q] = ledger[q]
        BY <3>1, <2>0, <2>4 DEF ReceiveData, RecordResponse, RecordReceived
      <4> QED BY <4>1, <4>2, <3>1, <2>2, <2>4 DEF ReceiveData, RecordResponse, MarkDirty
    <3>2. CASE m.kind # "chunk"
      BY <3>2, <2>1, <2>4 DEF ReceiveData, RecordResponse
    <3> QED BY <3>1, <3>2
  <2>5. ASSUME NEW m \in wire, CreditReceipts(m) PROVE UnsavedIsMarked'
    <3>1. CASE UNCHANGED <<ledger, ledgerBin, used>>
      BY <3>1, <2>5, <2>1 DEF CreditReceipts
    <3>2. CASE Use("errors")
      <4>1. used'["errors"] # 0
        BY <3>2, <2>0 DEF Use, Bounded
      <4> QED BY <4>1 DEF UnsavedIsMarked
    <3>3. CASE /\ ledgerBin' = [ledgerBin EXCEPT ![m.to] = ledger'[m.to]] /\ used' = used
               /\ \E v : ledger' = [ledger EXCEPT ![m.to][m.from].credited_by_receipts = v]
      <4>1. m.to \in Nodes /\ dirty' = dirty
        BY <2>0, <2>5, MessageFact DEF CreditReceipts
      <4>2. \A q \in Nodes : q # m.to => ledger'[q] = ledger[q] /\ ledgerBin'[q] = ledgerBin[q]
        BY <3>3, <2>0
      <4>3. ledgerBin'[m.to] = ledger'[m.to]
        BY <3>3, <4>1, <2>0
      <4> QED BY <4>1, <4>2, <4>3, <3>3 DEF UnsavedIsMarked
    <3> QED BY <3>1, <3>2, <3>3, <2>5 DEF CreditReceipts
  <2>6. ASSUME NEW n \in Nodes, SaveTick(n) PROVE UnsavedIsMarked'
    <3>1. ledgerBin'[n] = ledger'[n] /\ \A q \in Nodes : q # n => ledgerBin'[q] = ledgerBin[q] /\ dirty'[q] = dirty[q]
      BY <2>0, <2>6 DEF SaveTick
    <3> QED BY <3>1, <2>6 DEF SaveTick, UnsavedIsMarked
  <2>7. ASSUME NEW n \in Nodes, Restart(n) PROVE UnsavedIsMarked'
    <3>1. /\ ledgerBin' = ledgerBin /\ ledger'[n] = ledgerBin[n]
          /\ \A q \in Nodes : q # n => ledger'[q] = ledger[q] /\ dirty'[q] = dirty[q]
      BY <2>0, <2>7 DEF Restart
    <3>2. used'["errors"] = used["errors"]
      BY <2>0, <2>7 DEF Restart, Use, Bounded
    <3> QED BY <3>1, <3>2 DEF UnsavedIsMarked
  <2>8. ASSUME NEW m \in wire, RefuseChunk(m) \/ CollectReceipt(m) \/ PresentReceipts(m) \/ Lose(m)
        PROVE  UnsavedIsMarked'
    BY <2>8, <2>1 DEF RefuseChunk, CollectReceipt, PresentReceipts, Lose, Bounded
  <2>9. ASSUME NEW n \in Nodes, NEW p \in Nodes,
               Connect(n, p) \/ Identify(n, p) \/ Disconnect(n, p) \/ Reconnect(n, p)
               \/ Fetch(n, p) \/ FetchSymbols(n, p) \/ SubmitReceipt(n, p)
        PROVE  UnsavedIsMarked'
    BY <2>9, <2>1 DEF Connect, Identify, Disconnect, Reconnect, Fetch, FetchSymbols, Ask, SubmitReceipt, Bounded
  <2>10. ASSUME NEW n \in Nodes, Abandon(n) PROVE UnsavedIsMarked'
    BY <2>10, <2>1 DEF Abandon
  <2>11. CASE Tick \/ UNCHANGED vars
    BY <2>11, <2>1 DEF Tick
  <2> QED
    BY <2>3, <2>4, <2>5, <2>6, <2>7, <2>8, <2>9, <2>10, <2>11 DEF Steps, Handle
<1> QED BY <1>1, <1>2, InitTyped, TypedStep, PTL DEF Spec

-----------------------------------------------------------------------------
(* The receipts a node holds                                               *)

OwnBag(n, b, given) ==
    /\ b \in Seq(Receipts) /\ Len(b) <= MaxReceipts
    /\ \A i \in DOMAIN b : b[i] \in given /\ b[i].server = n /\ b[i].client # n
    /\ Falling(b)
    /\ \A x \in given : Kept(b, x)
Bags ==
    \A n \in Nodes :
        OwnBag(n, bag[n], offered[n].now) /\ OwnBag(n, receiptsBin[n], offered[n].saved)

(* What a node presents and saves as its receipts is the best of what it   *)
(* was ever given: about itself, signed by others, without repetition,     *)
(* never more than MAX_RECEIPTS, and a receipt is missing only from a full *)
(* bag of receipts worth at least as much.  ReceiptBag::insert keeps that, *)
(* the checks of SubmitReceipt establish it, and a failed save or a        *)
(* restart goes back to what was saved.  With the types of all variables.  *)
THEOREM SpecBagSound == Spec => []BagSound
<1>1. Init => Bags
  <2> SUFFICES ASSUME Init, NEW n \in Nodes
               PROVE  /\ bag[n] = <<>> /\ receiptsBin[n] = <<>>
                      /\ offered[n].now = {} /\ offered[n].saved = {}
    <3>1. \A n \in Nodes : OwnBag(n, <<>>, {})
      BY ConstantsFact DEF OwnBag, Falling
    <3> QED BY <3>1 DEF Bags
  <2> QED BY DEF Init
<1>2. Typed /\ Steps /\ Bags => Bags'
  <2> SUFFICES ASSUME Typed, Steps, Bags PROVE Bags'
    OBVIOUS
  <2> USE DEF vars, accounts, session, totals
  <2>0. /\ wire \subseteq Messages /\ bag \in [Nodes -> Seq(Receipts)]
        /\ receiptsBin \in [Nodes -> Seq(Receipts)]
        /\ offered \in [Nodes -> [now : SUBSET Receipts, saved : SUBSET Receipts]]
    BY DEF Typed, TypeOK
  <2>1. CASE UNCHANGED <<bag, receiptsBin, offered>>
    BY <2>1 DEF Bags
  <2>2. ASSUME NEW n \in Nodes, Restart(n) PROVE Bags'
    <3>1. /\ receiptsBin' = receiptsBin
          /\ \A q \in Nodes : /\ offered'[q].saved = offered[q].saved
                             /\ \/ bag'[q] = bag[q] /\ offered'[q].now = offered[q].now
                                \/ bag'[q] = receiptsBin[q] /\ offered'[q].now = offered[q].saved
      BY <2>0, <2>2 DEF Restart
    <3> QED BY <3>1 DEF Bags
  <2>3. ASSUME NEW m \in wire, CollectReceipt(m), AboutUs(m) PROVE Bags'
    <3> PICK n : n = m.to
      OBVIOUS
    <3> PICK r : r = m.receipt
      OBVIOUS
    <3>1. n \in Nodes /\ r \in Receipts /\ r.server = n /\ r.client # n
      BY <2>0, <2>3, MessageFact DEF CollectReceipt, AboutUs
    <3> PICK b : b = bag[n]
      OBVIOUS
    <3> PICK c : c = Collected(b, r)
      OBVIOUS
    <3> PICK old : old = offered[n].now
      OBVIOUS
    <3> PICK all : all = old \cup {r}
      OBVIOUS
    <3>2. OwnBag(n, b, old) /\ old \subseteq Receipts
      BY <3>1, <2>0 DEF Bags
    <3>3. /\ c \in Seq(Receipts)
          /\ \A i \in DOMAIN c : c[i] = r \/ \E j \in DOMAIN b : c[i] = b[j]
          /\ Len(b) <= MaxReceipts => Len(c) <= MaxReceipts
          /\ Falling(b) => Falling(c)
          /\ Falling(b) /\ Len(b) <= MaxReceipts =>
                 Kept(c, r) /\ \A x \in Receipts : Kept(b, x) => Kept(c, x)
      BY <3>1, <3>2, CollectedFact DEF OwnBag
    <3>4. OwnBag(n, c, all)
      <4>1. \A x \in all : Kept(c, x)
        BY <3>2, <3>3 DEF OwnBag
      <4> QED BY <3>1, <3>2, <3>3, <4>1 DEF OwnBag
    <3>5. bag' = [bag EXCEPT ![n] = c]
      BY <2>3 DEF CollectReceipt
    <3>6. \A q \in Nodes : bag'[q] = IF q = n THEN c ELSE bag[q]
      BY <3>5, <2>0
    <3>7. \/ receiptsBin' = [receiptsBin EXCEPT ![n] = bag'[n]] /\ Offer(n, r, TRUE)
          \/ receiptsBin' = receiptsBin /\ Offer(n, r, FALSE)
      BY <2>3 DEF CollectReceipt
    <3>8. /\ offered'[n].now = all
          /\ \A q \in Nodes : q # n => offered'[q] = offered[q]
      BY <3>1, <3>7, <2>0 DEF Offer
    <3>9. \A q \in Nodes : \/ receiptsBin'[q] = receiptsBin[q] /\ offered'[q].saved = offered[q].saved
                           \/ q = n /\ receiptsBin'[q] = c /\ offered'[q].saved = all
      <4>1. bag'[n] = c
        BY <3>1, <3>6
      <4>2. CASE receiptsBin' = receiptsBin /\ Offer(n, r, FALSE)
        BY <4>2, <2>0, <3>1 DEF Offer
      <4>3. CASE receiptsBin' = [receiptsBin EXCEPT ![n] = bag'[n]] /\ Offer(n, r, TRUE)
        BY <4>1, <4>3, <2>0, <3>1 DEF Offer
      <4> QED BY <4>2, <4>3, <3>7
    <3>10. \A q \in Nodes : OwnBag(q, bag'[q], offered'[q].now)
      BY <3>4, <3>6, <3>8 DEF Bags
    <3>11. \A q \in Nodes : OwnBag(q, receiptsBin'[q], offered'[q].saved)
      BY <3>4, <3>9 DEF Bags
    <3> QED BY <3>10, <3>11 DEF Bags
  <2>4. ASSUME NEW m \in wire, CollectReceipt(m), ~AboutUs(m) PROVE Bags'
    BY <2>4, <2>1 DEF CollectReceipt
  <2>5. ASSUME NEW n \in Nodes, NEW p \in Nodes,
               Connect(n, p) \/ Identify(n, p) \/ Disconnect(n, p) \/ Reconnect(n, p)
               \/ Fetch(n, p) \/ FetchSymbols(n, p) \/ SubmitReceipt(n, p)
        PROVE  Bags'
    BY <2>5, <2>1 DEF Connect, Identify, Disconnect, Reconnect, Fetch, FetchSymbols, Ask, SubmitReceipt
  <2>6. ASSUME NEW m \in wire, ServeChunk(m) \/ ServeSymbols(m) \/ RefuseChunk(m) \/ ReceiveData(m)
                               \/ PresentReceipts(m) \/ CreditReceipts(m) \/ Lose(m)
        PROVE  Bags'
    BY <2>6, <2>1 DEF ServeChunk, ServeSymbols, HandOut, RefuseChunk, ReceiveData, PresentReceipts,
                      CreditReceipts, Lose
  <2>7. ASSUME NEW n \in Nodes, Abandon(n) \/ SaveTick(n) PROVE Bags'
    BY <2>7, <2>1 DEF Abandon, SaveTick
  <2>8. CASE Tick \/ UNCHANGED vars
    BY <2>8, <2>1 DEF Tick
  <2> QED
    BY <2>2, <2>3, <2>4, <2>5, <2>6, <2>7, <2>8 DEF Steps, Handle
<1>3. Typed /\ Bags => BagSound
  <2>1. ASSUME NEW n, NEW b, NEW given, OwnBag(n, b, given) PROVE BestOf(b, n, given)
    <3>1. ToSet(b) \subseteq {r \in given : r.server = n /\ r.client # n}
      BY <2>1 DEF OwnBag, ToSet
    <3>2. \A r \in given \ ToSet(b) :
              Len(b) = MaxReceipts /\ \A i \in DOMAIN b : b[i].bytes >= r.bytes
      BY <2>1 DEF OwnBag, Kept, Held, Beaten, ToSet
    <3> QED BY <2>1, <3>1, <3>2 DEF OwnBag, Falling, BestOf
  <2> QED BY <2>1 DEF Typed, Bags, BagSound
<1> QED BY <1>1, <1>2, <1>3, InitTyped, TypedStep, PTL DEF Spec

-----------------------------------------------------------------------------
(* What receipts are issued for                                            *)

MsgBytes == [m \in Messages |-> m.bytes]

(* The data on its way from s to c that a download of c waits for.         *)
Data(W, c, s) == {m \in W : m.kind \in {"chunk", "symbols"} /\ m.from = s /\ m.to = c /\ m.wanted = TRUE}

(* What c has issued receipts for, has counted since, or is about to be    *)
(* given, s has handed out.                                                *)
HonestPair(c, s) == issued[c][s] + fetched[c][s] + Sum(Data(wire, c, s), MsgBytes) <= served[s][c]
Honest == \A c, s \in Nodes : HonestPair(c, s)

LEMMA DataFact ==
    ASSUME NEW W, W \subseteq Messages, IsFiniteSet(W), NEW c, NEW s
    PROVE  /\ IsFiniteSet(Data(W, c, s)) /\ \A m \in Data(W, c, s) : m \in Messages /\ MsgBytes[m] \in Nat
           /\ Sum(Data(W, c, s), MsgBytes) \in Nat
<1>1. Data(W, c, s) \in SUBSET W
  BY DEF Data
<1>2. IsFiniteSet(Data(W, c, s))
  BY <1>1, FS_Subset
<1>3. ASSUME NEW m \in Data(W, c, s) PROVE m \in Messages /\ MsgBytes[m] \in Nat
  <2>1. m \in Messages /\ m.kind \in {"chunk", "symbols"}
    BY DEF Data
  <2>2. m.bytes \in Nat
    BY <2>1, MessageFact
  <2> QED BY <2>1, <2>2 DEF MsgBytes
<1> QED BY <1>2, <1>3, SumNat

LEMMA HonestKept ==
    ASSUME Typed, Typed', NEW c \in Nodes, NEW s \in Nodes, HonestPair(c, s),
           Data(wire', c, s) \subseteq Data(wire, c, s),
           issued'[c][s] + fetched'[c][s] <= issued[c][s] + fetched[c][s], served[s][c] <= served'[s][c]
    PROVE  HonestPair(c, s)'
<1>1. /\ wire \subseteq Messages /\ IsFiniteSet(wire) /\ wire' \subseteq Messages /\ IsFiniteSet(wire')
  BY DEF Typed, TypeOK
<1>2. /\ issued[c][s] \in Nat /\ fetched[c][s] \in Nat /\ served[s][c] \in Nat
      /\ issued'[c][s] \in Nat /\ fetched'[c][s] \in Nat /\ served'[s][c] \in Nat
  BY DEF Typed, TypeOK
<1> PICK D : D = Data(wire, c, s)
  OBVIOUS
<1> PICK E : E = Data(wire', c, s)
  OBVIOUS
<1>3. /\ IsFiniteSet(D) /\ (\A m \in D : MsgBytes[m] \in Nat) /\ E \in SUBSET D
      /\ Sum(D, MsgBytes) \in Nat /\ Sum(E, MsgBytes) \in Nat
  BY <1>1, DataFact
<1>4. Sum(E, MsgBytes) <= Sum(D, MsgBytes)
  BY <1>3, SumSubset
<1>5. issued[c][s] + fetched[c][s] + Sum(D, MsgBytes) <= served[s][c]
  BY DEF HonestPair
<1>6. issued'[c][s] + fetched'[c][s] + Sum(E, MsgBytes) <= served'[s][c]
  BY <1>2, <1>3, <1>4, <1>5
<1> QED BY <1>6 DEF HonestPair

LEMMA NextHonest == Typed /\ Typed' /\ Steps /\ Honest => Honest'
<1> SUFFICES ASSUME Typed, Typed', Steps, Honest, NEW c \in Nodes, NEW s \in Nodes PROVE HonestPair(c, s)'
  BY DEF Honest
<1> USE DEF vars, accounts, session, totals
<1>0. /\ wire \subseteq Messages /\ IsFiniteSet(wire) /\ wire' \subseteq Messages /\ IsFiniteSet(wire')
      /\ issued \in [Nodes -> [Nodes -> Nat]] /\ fetched \in [Nodes -> [Nodes -> Nat]]
      /\ served \in [Nodes -> [Nodes -> Nat]]
  BY DEF Typed, TypeOK
<1>a. HonestPair(c, s) /\ issued[c][s] \in Nat /\ fetched[c][s] \in Nat /\ served[s][c] \in Nat
  BY <1>0 DEF Honest
<1>1. ASSUME Data(wire', c, s) \subseteq Data(wire, c, s), UNCHANGED <<issued, served, fetched>>
      PROVE  HonestPair(c, s)'
  BY <1>1, <1>a, HonestKept
<1>2. ASSUME NEW n \in Nodes, NEW p \in Nodes,
             Connect(n, p) \/ Identify(n, p) \/ Disconnect(n, p) \/ Reconnect(n, p)
             \/ Fetch(n, p) \/ FetchSymbols(n, p)
      PROVE  HonestPair(c, s)'
  <2>1. UNCHANGED <<issued, served, fetched>>
    BY <1>2 DEF Connect, Identify, Disconnect, Reconnect, Fetch, FetchSymbols, Ask
  <2>2. \/ wire' \subseteq wire
        \/ \E k \in {"chunk?", "symbols?"} : wire' = wire \cup {Request(n, p, k)}
        \/ wire' = wire \cup {[kind |-> "receipts?", from |-> n, to |-> p]}
    BY <1>2 DEF Connect, Identify, Disconnect, Reconnect, Fetch, FetchSymbols, Ask
  <2>3. Data(wire', c, s) \subseteq Data(wire, c, s)
    BY <2>2 DEF Data, Request
  <2> QED BY <2>1, <2>3, <1>1
<1>3. ASSUME NEW n \in Nodes, NEW p \in Nodes, SubmitReceipt(n, p) PROVE HonestPair(c, s)'
  <2>1. /\ served' = served /\ fetched' = [fetched EXCEPT ![n][p] = 0]
        /\ issued' = issued \/ issued' = [issued EXCEPT ![n][p] = issued[n][p] + fetched[n][p]]
    BY <1>3 DEF SubmitReceipt, AfterSubmit
  <2>2. Data(wire', c, s) \subseteq Data(wire, c, s)
    BY <1>3 DEF SubmitReceipt, Data
  <2>3. fetched'[c][s] = (IF c = n /\ s = p THEN 0 ELSE fetched[c][s])
    BY <2>1, <1>0
  <2>4. issued'[c][s] = issued[c][s] \/ (c = n /\ s = p /\ issued'[c][s] = issued[c][s] + fetched[c][s])
    BY <2>1, <1>0
  <2>5. issued'[c][s] + fetched'[c][s] <= issued[c][s] + fetched[c][s]
    BY <2>3, <2>4, <1>a
  <2> QED BY <2>1, <2>2, <2>5, <1>a, HonestKept
<1>4. ASSUME NEW n \in Nodes, Abandon(n) PROVE HonestPair(c, s)'
  <2> PICK S : S = {m \in wire : m.kind \in {"chunk?", "symbols?"} /\ m.from = n}
                     \cup {m \in wire : m.kind \in {"chunk", "symbols"} /\ m.to = n}
    OBVIOUS
  <2>1. /\ wire' = (wire \ S) \cup {Orphaned(m) : m \in S} /\ UNCHANGED <<issued, served>>
        /\ fetched' = [fetched EXCEPT ![n] = [p \in Nodes |-> 0]]
    BY <1>4 DEF Abandon
  <2>2. \A m \in S : Orphaned(m).wanted = FALSE
    BY <1>0, OrphanedType
  <2>3. Data(wire', c, s) \subseteq Data(wire, c, s)
    BY <2>1, <2>2 DEF Data
  <2>4. fetched'[c][s] = 0 \/ fetched'[c][s] = fetched[c][s]
    BY <2>1, <1>0
  <2>5. /\ issued'[c][s] + fetched'[c][s] <= issued[c][s] + fetched[c][s]
        /\ served[s][c] <= served'[s][c]
    <3>1. issued' = issued /\ served' = served
      BY <2>1
    <3> QED BY <3>1, <2>4, <1>a
  <2> QED BY <2>3, <2>5, <1>a, HonestKept
<1>5. ASSUME NEW n \in Nodes, SaveTick(n) \/ Restart(n) PROVE HonestPair(c, s)'
  <2>1. /\ UNCHANGED <<issued, served>> /\ wire' \subseteq wire
        /\ fetched' = fetched \/ fetched' = [fetched EXCEPT ![n] = [p \in Nodes |-> 0]]
    BY <1>5 DEF SaveTick, Restart
  <2>2. Data(wire', c, s) \subseteq Data(wire, c, s)
    BY <2>1 DEF Data
  <2>3. fetched'[c][s] = 0 \/ fetched'[c][s] = fetched[c][s]
    BY <2>1, <1>0, ZenonT(40)
  <2> QED BY <2>1, <2>2, <2>3, <1>a, HonestKept
<1>6. ASSUME NEW m \in wire, Lose(m) \/ RefuseChunk(m) \/ CollectReceipt(m) \/ CreditReceipts(m) \/ PresentReceipts(m)
      PROVE  HonestPair(c, s)'
  <2>1. UNCHANGED <<issued, served, fetched>>
    BY <1>6 DEF Lose, RefuseChunk, CollectReceipt, CreditReceipts, PresentReceipts
  <2>2. \/ wire' \subseteq wire
        \/ \E l : wire' = (wire \ {m}) \cup {[kind |-> "receipts", from |-> m.to, to |-> m.from, list |-> l]}
    BY <1>6 DEF Lose, RefuseChunk, CollectReceipt, CreditReceipts, PresentReceipts, Consume, Reply
  <2>3. Data(wire', c, s) \subseteq Data(wire, c, s)
    BY <2>2 DEF Data
  <2> QED BY <2>1, <2>3, <1>1
<1>7. CASE Tick \/ UNCHANGED vars
  <2>1. UNCHANGED <<issued, served, fetched, wire>>
    BY <1>7 DEF Tick
  <2> QED BY <2>1, <1>1
<1> PICK D : D = Data(wire, c, s)
  OBVIOUS
<1> PICK E : E = Data(wire', c, s)
  OBVIOUS
<1>b. /\ IsFiniteSet(D) /\ (\A m \in D : MsgBytes[m] \in Nat) /\ Sum(D, MsgBytes) \in Nat
      /\ IsFiniteSet(E) /\ Sum(E, MsgBytes) \in Nat
      /\ issued[c][s] + fetched[c][s] + Sum(D, MsgBytes) <= served[s][c]
  BY <1>0, <1>a, DataFact DEF HonestPair
<1>8. ASSUME NEW m \in wire, ServeChunk(m) \/ ServeSymbols(m) PROVE HonestPair(c, s)'
  <2>1. PICK k \in {"chunk", "symbols"}, bytes \in scenario.sizes : HandOut(m, k, bytes)
    BY <1>8 DEF ServeChunk, ServeSymbols
  <2>2. bytes \in Nat
    BY ScenarioFact DEF Typed
  <2> PICK a : a = [kind |-> k, from |-> m.to, to |-> m.from, wanted |-> m.wanted, bytes |-> bytes]
    OBVIOUS
  <2>3. /\ wire' = (wire \ {m}) \cup {a} /\ UNCHANGED <<issued, fetched>>
        /\ served' = [served EXCEPT ![m.to][m.from] = served[m.to][m.from] + bytes]
    BY <2>1 DEF HandOut, Reply
  <2>4. a \in Messages /\ MsgBytes[a] = bytes /\ a.from = m.to /\ a.to = m.from
    BY <2>3, <1>0 DEF MsgBytes
  <2>5. CASE c = m.from /\ s = m.to
    <3>1. served'[s][c] = served[s][c] + bytes
      BY <2>3, <2>5, <1>0
    <3>2. E \subseteq D \cup {a}
      BY <2>3 DEF Data
    <3>3. \A y \in D \cup {a} : MsgBytes[y] \in Nat
      BY <2>2, <2>4, <1>b
    <3>4. IsFiniteSet(D \cup {a}) /\ Sum(D \cup {a}, MsgBytes) <= Sum(D, MsgBytes) + MsgBytes[a]
      BY <3>3, <1>b, SumAdd, FS_AddElement
    <3>5. Sum(E, MsgBytes) <= Sum(D \cup {a}, MsgBytes)
      BY <3>2, <3>3, <3>4, SumSubset
    <3>6. Sum(D \cup {a}, MsgBytes) \in Nat
      BY <3>3, <3>4, SumNat
    <3>7. Sum(E, MsgBytes) <= Sum(D, MsgBytes) + bytes
      BY <3>4, <3>5, <3>6, <1>b, <2>2, <2>4
    <3>8. issued'[c][s] + fetched'[c][s] + Sum(E, MsgBytes) <= served'[s][c]
      BY <3>1, <3>7, <1>a, <1>b, <2>2, <2>3
    <3> QED BY <3>8 DEF HonestPair
  <2>6. CASE ~(c = m.from /\ s = m.to)
    <3>1. Data(wire', c, s) \subseteq Data(wire, c, s)
      BY <2>3, <2>4, <2>6 DEF Data
    <3>2. served[s][c] <= served'[s][c]
      BY <2>3, <2>6, <1>0, <1>a
    <3>3. issued'[c][s] + fetched'[c][s] <= issued[c][s] + fetched[c][s]
      <4>1. issued' = issued /\ fetched' = fetched
        BY <2>3
      <4> QED BY <4>1, <1>a
    <3> QED BY <3>1, <3>2, <3>3, <1>a, HonestKept
  <2> QED BY <2>5, <2>6
<1>9. ASSUME NEW m \in wire, ReceiveData(m) PROVE HonestPair(c, s)'
  <2>1. /\ wire' = wire \ {m} /\ UNCHANGED <<issued, served>> /\ m.kind \in {"chunk", "symbols"}
        /\ fetched' = IF m.wanted THEN [fetched EXCEPT ![m.to][m.from] = fetched[m.to][m.from] + m.bytes] ELSE fetched
    BY <1>9 DEF ReceiveData, Consume
  <2>2. E \subseteq D
    BY <2>1 DEF Data
  <2>3. m.wanted \in BOOLEAN /\ m.bytes \in Nat /\ MsgBytes[m] = m.bytes
    BY <2>1, <1>0, MessageFact DEF MsgBytes
  <2>4. CASE m.wanted = TRUE /\ c = m.to /\ s = m.from
    <3>1. fetched'[c][s] = fetched[c][s] + m.bytes
      BY <2>1, <2>4, <1>0
    <3>2. m \in D /\ E = D \ {m}
      BY <2>1, <2>4 DEF Data
    <3>3. Sum(D, MsgBytes) = MsgBytes[m] + Sum(E, MsgBytes)
      <4>1. Sum(D, MsgBytes) = MsgBytes[m] + Sum(D \ {m}, MsgBytes)
        BY <3>2, <1>b, SumRemove
      <4> QED BY <4>1, <3>2
    <3>4. issued'[c][s] + fetched'[c][s] + Sum(E, MsgBytes) <= served'[s][c]
      BY <3>1, <3>3, <2>1, <2>3, <1>a, <1>b
    <3> QED BY <3>4 DEF HonestPair
  <2>5. CASE ~(m.wanted = TRUE /\ c = m.to /\ s = m.from)
    <3>1. fetched'[c][s] = fetched[c][s]
      BY <2>1, <2>3, <2>5, <1>0
    <3>2. /\ issued'[c][s] + fetched'[c][s] <= issued[c][s] + fetched[c][s]
          /\ served[s][c] <= served'[s][c]
      BY <3>1, <2>1, <1>a
    <3> QED BY <3>2, <2>2, <1>a, HonestKept
  <2> QED BY <2>4, <2>5
<1> QED
  BY <1>2, <1>3, <1>4, <1>5, <1>6, <1>7, <1>8, <1>9 DEF Steps, Handle

(* The receipts a client ever issues to a server add up to no more than    *)
(* the server has handed to it, through lost answers, abandoned downloads  *)
(* and restarts: fetched_bytes is consumed when the receipt is submitted,  *)
(* and an answer is counted at most once.                                  *)
THEOREM SpecHonestReceipts == Spec => []HonestReceipts
<1>1. Init => Honest
  <2> SUFFICES ASSUME Init, NEW c \in Nodes, NEW s \in Nodes PROVE HonestPair(c, s)
    BY DEF Honest
  <2>1. Data(wire, c, s) = {}
    BY DEF Init, Data
  <2>2. Sum(Data(wire, c, s), MsgBytes) = 0
    BY <2>1, SumEmpty
  <2>3. issued[c][s] = 0 /\ fetched[c][s] = 0 /\ served[s][c] = 0
    BY DEF Init
  <2> QED BY <2>2, <2>3 DEF HonestPair
<1>2. Typed /\ Honest => HonestReceipts
  <2> SUFFICES ASSUME Typed, Honest, NEW c \in Nodes, NEW s \in Nodes PROVE issued[c][s] <= served[s][c]
    BY DEF HonestReceipts
  <2>1. /\ issued[c][s] \in Nat /\ fetched[c][s] \in Nat /\ served[s][c] \in Nat
        /\ wire \subseteq Messages /\ IsFiniteSet(wire)
    BY DEF Typed, TypeOK
  <2>2. Sum(Data(wire, c, s), MsgBytes) \in Nat
    BY <2>1, DataFact
  <2>3. issued[c][s] + fetched[c][s] + Sum(Data(wire, c, s), MsgBytes) <= served[s][c]
    BY DEF Honest, HonestPair
  <2> QED BY <2>1, <2>2, <2>3
<1> QED BY <1>1, <1>2, InitTyped, TypedStep, NextHonest, PTL DEF Spec

-----------------------------------------------------------------------------
(* How far a peer gets into debt                                           *)

LEMMA CreditFact ==
    ASSUME NEW list \in Seq(Receipts), NEW p
    PROVE  /\ IsFiniteSet(Creditable(list, p)) /\ Creditable(list, p) \subseteq DOMAIN list
           /\ \A i \in DOMAIN list : list[i] \in Receipts /\ list[i].bytes \in Nat
           /\ CreditOf(list, p) \in Nat
<1>1. Len(list) \in Nat /\ DOMAIN list = 1 .. Len(list)
  OBVIOUS
<1>2. IsFiniteSet(1 .. Len(list))
  BY <1>1, FS_Interval
<1>3. Creditable(list, p) \in SUBSET (1 .. Len(list))
  BY <1>1 DEF Creditable
<1>4. IsFiniteSet(Creditable(list, p))
  BY <1>2, <1>3, FS_Subset
<1>5. \A i \in DOMAIN list : list[i] \in Receipts /\ list[i].bytes \in Nat
  <2>1. \A i \in DOMAIN list : list[i] \in Receipts
    BY <1>1
  <2>2. \A x \in Receipts : x.bytes \in Nat
    BY DEF Receipts
  <2> QED BY <2>1, <2>2
<1> PICK f : f = [i \in DOMAIN list |-> list[i].bytes]
  OBVIOUS
<1>6. \A i \in Creditable(list, p) : f[i] \in Nat
  BY <1>1, <1>3, <1>5
<1>7. Sum(Creditable(list, p), f) \in Nat
  BY <1>4, <1>6, SumNat
<1>8. CreditOf(list, p) = Sum(Creditable(list, p), f)
  BY DEF CreditOf, SumOver, Sum
<1> QED BY <1>1, <1>3, <1>4, <1>5, <1>7, <1>8

(* Serving costs a peer no more than what it is served, and whatever it    *)
(* gives or is credited for costs it nothing.                              *)
LEMMA NetChange ==
    ASSUME NEW c \in Counters, NEW b \in Nat
    PROVE  /\ Net([c EXCEPT !.we_served = Saturated(c.we_served + b)]) >= Net(c) - b
           /\ Net([c EXCEPT !.served_to_us = Saturated(c.served_to_us + b)]) >= Net(c)
           /\ Net([c EXCEPT !.credited_by_receipts = Saturated(c.credited_by_receipts + b)]) >= Net(c)
<1>1. c.we_served \in Amounts /\ c.served_to_us \in Amounts /\ c.credited_by_receipts \in Amounts
  BY DEF Counters
<1>2. \A x \in Amounts : x \in Int
  BY ConstantsFact DEF Amounts
<1>3. ASSUME NEW x \in Amounts
      PROVE  Saturated(x + b) \in Int /\ Saturated(x + b) >= x /\ Saturated(x + b) <= x + b
  BY <1>2, SaturatedFact
<1> PICK u : u = Saturated(c.we_served + b)
  OBVIOUS
<1> PICK v : v = Saturated(c.served_to_us + b)
  OBVIOUS
<1> PICK w : w = Saturated(c.credited_by_receipts + b)
  OBVIOUS
<1>4. /\ u \in Int /\ u <= c.we_served + b /\ v \in Int /\ v >= c.served_to_us
      /\ w \in Int /\ w >= c.credited_by_receipts
  BY <1>1, <1>3
<1>5. /\ Net([c EXCEPT !.we_served = u]) = c.served_to_us + c.credited_by_receipts - u
      /\ Net([c EXCEPT !.served_to_us = v]) = v + c.credited_by_receipts - c.we_served
      /\ Net([c EXCEPT !.credited_by_receipts = w]) = c.served_to_us + w - c.we_served
      /\ Net(c) = c.served_to_us + c.credited_by_receipts - c.we_served
  BY DEF Net, Counters
<1>6. c.we_served \in Int /\ c.served_to_us \in Int /\ c.credited_by_receipts \in Int
  BY <1>1, <1>2
<1> QED BY <1>4, <1>5, <1>6

Asked(W, n, p) == {m \in W : m.kind = "symbols?" /\ m.from = p /\ m.to = n}

(* The symbol requests that p may have been answered by n: the ones made,  *)
(* without the ones that n has yet to answer.                              *)
Spent(n, p) == used["symbols"] - Cardinality(Asked(wire, n, p))
Largest == Max(scenario.sizes)
Floor == Min({0, ChokeBelow})
Low(n, p) == Floor - (1 + Spent(n, p)) * Largest
DebtPair(n, p) ==
    /\ Spent(n, p) >= 0
    /\ Net(ledger[n][p]) >= Low(n, p) /\ Net(ledgerBin[n][p]) >= Low(n, p)
Debt == \A n, p \in Nodes : DebtPair(n, p)

LEMMA FloorFact == Floor \in Int /\ Floor <= ChokeBelow /\ Floor <= 0
<1>1. ChokeBelow \in Int
  BY ChokeFact
<1>2. \E x \in {0, ChokeBelow} : \A y \in {0, ChokeBelow} : x <= y
  <2>1. CASE ChokeBelow <= 0
    BY <2>1, <1>1
  <2>2. CASE ChokeBelow > 0
    BY <2>2, <1>1
  <2> QED BY <1>1, <2>1, <2>2
<1>3. Floor \in {0, ChokeBelow} /\ \A y \in {0, ChokeBelow} : Floor <= y
  BY <1>2 DEF Floor, Min
<1> QED BY <1>1, <1>3

LEMMA LargestFact == Typed => Largest \in Nat /\ \A b \in scenario.sizes : b \in Nat /\ b <= Largest
<1> SUFFICES ASSUME Typed PROVE Largest \in Nat /\ \A b \in scenario.sizes : b \in Nat /\ b <= Largest
  OBVIOUS
<1> PICK S : S = scenario.sizes
  OBVIOUS
<1>1. S \subseteq Nat /\ S # {} /\ IsFiniteSet(S)
  BY ScenarioFact DEF Typed
<1>2. Max(S) \in S /\ \A y \in S : Max(S) >= y
  BY <1>1, MaxFact
<1> QED BY <1>1, <1>2 DEF Largest

LEMMA AskedFact ==
    ASSUME NEW W, IsFiniteSet(W), NEW n, NEW p
    PROVE  IsFiniteSet(Asked(W, n, p)) /\ Cardinality(Asked(W, n, p)) \in Nat
<1>1. Asked(W, n, p) \in SUBSET W
  BY DEF Asked
<1>2. IsFiniteSet(Asked(W, n, p))
  BY <1>1, FS_Subset
<1> QED BY <1>2, FS_CardinalityType

(* A later floor is no higher.                                             *)
LEMMA Lower ==
    ASSUME NEW f \in Int, NEW a \in Nat, NEW b \in Nat, NEW l \in Nat
    PROVE  /\ f - (1 + a) * l \in Int /\ f - (1 + a) * l <= f - l
           /\ a <= b => f - (1 + b) * l <= f - (1 + a) * l
           /\ a + 1 <= b => f - (1 + b) * l <= f - (1 + a) * l - l
<1>1. (1 + a) * l = l + a * l /\ (1 + b) * l = l + b * l
  OBVIOUS
<1>2. a * l \in Nat /\ b * l \in Nat
  OBVIOUS
<1>3. ASSUME a <= b PROVE a * l <= b * l
  <2>1. PICK d \in Nat : b = a + d
    BY <1>3
  <2>2. b * l = a * l + d * l /\ d * l \in Nat
    BY <2>1
  <2> QED BY <2>2, <1>2
<1>4. ASSUME a + 1 <= b PROVE a * l + l <= b * l
  <2>1. PICK d \in Nat : b = a + 1 + d
    <3>1. b - a - 1 \in Nat /\ b = a + 1 + (b - a - 1)
      BY <1>4
    <3> QED BY <3>1
  <2>2. b * l = a * l + l + d * l /\ d * l \in Nat
    BY <2>1
  <2> QED BY <2>2, <1>2
<1> PICK x : x = a * l
  OBVIOUS
<1> PICK y : y = b * l
  OBVIOUS
<1>5. x \in Nat /\ y \in Nat /\ (1 + a) * l = l + x /\ (1 + b) * l = l + y
  BY <1>1, <1>2
<1>6. (a <= b => x <= y) /\ (a + 1 <= b => x + l <= y)
  BY <1>3, <1>4
<1> QED BY <1>5, <1>6

LEMMA SpentFact ==
    ASSUME Typed, NEW n \in Nodes, NEW p \in Nodes
    PROVE  /\ Spent(n, p) \in Int /\ used["symbols"] \in Nat /\ IsFiniteSet(Asked(wire, n, p))
           /\ Cardinality(Asked(wire, n, p)) \in Nat
<1>1. used["symbols"] \in Nat
  BY DEF Typed, TypeOK, Bounded
<1>2. IsFiniteSet(Asked(wire, n, p)) /\ Cardinality(Asked(wire, n, p)) \in Nat
  BY AskedFact DEF Typed
<1> QED BY <1>1, <1>2 DEF Spent

LEMMA SpentGrows ==
    ASSUME Typed, Typed', NEW n \in Nodes, NEW p \in Nodes, used["symbols"] <= used'["symbols"],
           Asked(wire', n, p) \subseteq Asked(wire, n, p)
    PROVE  Spent(n, p)' >= Spent(n, p)
<1>1. used["symbols"] \in Nat /\ used'["symbols"] \in Nat
  BY DEF Typed, TypeOK, Bounded
<1> PICK A : A = Asked(wire, n, p)
  OBVIOUS
<1> PICK B : B = Asked(wire', n, p)
  OBVIOUS
<1>2. IsFiniteSet(A) /\ Cardinality(A) \in Nat /\ Cardinality(B) \in Nat
  BY AskedFact DEF Typed
<1>3. Cardinality(B) <= Cardinality(A)
  BY <1>2, FS_Subset
<1> QED BY <1>1, <1>2, <1>3 DEF Spent

LEMMA DebtKept ==
    ASSUME Typed, Typed', scenario' = scenario, NEW n \in Nodes, NEW p \in Nodes, DebtPair(n, p),
           Spent(n, p)' >= Spent(n, p),
           Net(ledger'[n][p]) >= Net(ledger[n][p]) \/ ledger'[n][p] = ledgerBin[n][p],
           ledgerBin'[n][p] \in {ledgerBin[n][p], ledger[n][p], ledger'[n][p]}
    PROVE  DebtPair(n, p)'
<1>1. /\ ledger[n][p] \in Counters /\ ledgerBin[n][p] \in Counters
      /\ ledger'[n][p] \in Counters /\ ledgerBin'[n][p] \in Counters
  BY DEF Typed, TypeOK
<1>2. /\ Net(ledger[n][p]) \in Int /\ Net(ledgerBin[n][p]) \in Int
      /\ Net(ledger'[n][p]) \in Int /\ Net(ledgerBin'[n][p]) \in Int
  BY <1>1, NetFact
<1>3. Spent(n, p) \in Nat /\ Spent(n, p)' \in Nat
  <2>1. Spent(n, p) \in Int /\ Spent(n, p)' \in Int
    <3>1. Spent(n, p) \in Int
      BY SpentFact
    <3>2. used'["symbols"] \in Nat /\ Cardinality(Asked(wire', n, p)) \in Nat
      BY AskedFact DEF Typed, TypeOK, Bounded
    <3> QED BY <3>1, <3>2 DEF Spent
  <2> QED BY <2>1 DEF DebtPair
<1>4. Largest \in Nat /\ Largest' = Largest /\ Floor \in Int /\ Floor' = Floor
  BY LargestFact, FloorFact DEF Largest, Floor, ChokeBelow
<1> PICK l : l = Low(n, p)
  OBVIOUS
<1> PICK k : k = Floor - (1 + Spent(n, p)') * Largest
  OBVIOUS
<1>5. k = Low(n, p)' /\ k \in Int /\ l \in Int /\ k <= l
  BY <1>3, <1>4, Lower DEF Low
<1>6. Net(ledger[n][p]) >= l /\ Net(ledgerBin[n][p]) >= l
  BY DEF DebtPair
<1>7. Net(ledger'[n][p]) >= k
  BY <1>2, <1>5, <1>6
<1>8. Net(ledgerBin'[n][p]) >= k
  <2>1. Net(ledgerBin'[n][p]) \in {Net(ledgerBin[n][p]), Net(ledger[n][p]), Net(ledger'[n][p])}
    OBVIOUS
  <2> QED BY <2>1, <1>2, <1>5, <1>6, <1>7
<1> QED BY <1>3, <1>5, <1>7, <1>8 DEF DebtPair

LEMMA NextDebt == Typed /\ Typed' /\ Steps /\ Debt => Debt'
<1> SUFFICES ASSUME Typed, Typed', Steps, Debt, NEW n \in Nodes, NEW p \in Nodes PROVE DebtPair(n, p)'
  BY DEF Debt
<1> USE DEF vars, accounts, session, totals
<1>0. /\ wire \subseteq Messages /\ IsFiniteSet(wire) /\ wire' \subseteq Messages /\ IsFiniteSet(wire')
      /\ ledger \in [Nodes -> [Nodes -> Counters]] /\ ledgerBin \in [Nodes -> [Nodes -> Counters]]
      /\ used \in [Bounded -> Nat] /\ used["symbols"] \in Nat
      /\ ledger[n][p] \in Counters /\ ledgerBin[n][p] \in Counters
      /\ ledger'[n][p] \in Counters /\ ledgerBin'[n][p] \in Counters
      /\ ledger' \in [Nodes -> [Nodes -> Counters]]
  <2>1. /\ wire \subseteq Messages /\ IsFiniteSet(wire) /\ wire' \subseteq Messages /\ IsFiniteSet(wire')
        /\ ledger \in [Nodes -> [Nodes -> Counters]] /\ ledgerBin \in [Nodes -> [Nodes -> Counters]]
        /\ ledger' \in [Nodes -> [Nodes -> Counters]] /\ ledgerBin' \in [Nodes -> [Nodes -> Counters]]
        /\ used \in [Bounded -> Nat]
    BY DEF Typed, TypeOK
  <2>2. "symbols" \in Bounded
    BY DEF Bounded
  <2> QED BY <2>1, <2>2
<1>a. DebtPair(n, p)
  BY DEF Debt
<1>b. Net(ledger[n][p]) \in Int /\ Net(ledger'[n][p]) \in Int /\ Net(ledgerBin[n][p]) \in Int
  BY <1>0, NetFact
<1>c. ASSUME used' = used \/ \E b \in Bounded : Use(b) PROVE used["symbols"] <= used'["symbols"]
  <2>1. ASSUME NEW b \in Bounded, Use(b) PROVE used["symbols"] <= used'["symbols"]
    <3>1. used' = [used EXCEPT ![b] = used[b] + 1] /\ "symbols" \in Bounded
      BY <2>1 DEF Use, Bounded
    <3>2. used'["symbols"] = IF b = "symbols" THEN used["symbols"] + 1 ELSE used["symbols"]
      BY <3>1, <1>0
    <3> QED BY <3>2, <1>0
  <2> QED BY <2>1, <1>c, <1>0
<1>1. ASSUME Spent(n, p)' >= Spent(n, p), UNCHANGED <<scenario, ledger, ledgerBin>> PROVE DebtPair(n, p)'
  <2>1. Net(ledger'[n][p]) >= Net(ledger[n][p])
    BY <1>1, <1>b
  <2> QED BY <2>1, <1>1, <1>a, DebtKept
<1>2. ASSUME NEW a \in Nodes, NEW b \in Nodes,
             Connect(a, b) \/ Identify(a, b) \/ Disconnect(a, b) \/ Reconnect(a, b)
             \/ Fetch(a, b) \/ SubmitReceipt(a, b)
      PROVE  DebtPair(n, p)'
  <2>1. /\ UNCHANGED <<scenario, ledger, ledgerBin>> /\ (used' = used \/ \E x \in Bounded : Use(x))
    BY <1>2 DEF Connect, Identify, Disconnect, Reconnect, Fetch, Ask, SubmitReceipt, Bounded
  <2>2. \/ wire' \subseteq wire \/ wire' = wire \cup {Request(a, b, "chunk?")}
        \/ wire' = wire \cup {[kind |-> "receipts?", from |-> a, to |-> b]}
        \/ \E r : wire' = wire \cup {[kind |-> "receipt", from |-> a, to |-> b, receipt |-> r]}
    BY <1>2 DEF Connect, Identify, Disconnect, Reconnect, Fetch, Ask, SubmitReceipt
  <2>3. Asked(wire', n, p) \subseteq Asked(wire, n, p)
    BY <2>2 DEF Asked, Request
  <2> QED BY <2>1, <2>3, <1>c, <1>1, SpentGrows
<1>3. ASSUME NEW a \in Nodes, NEW b \in Nodes, FetchSymbols(a, b) PROVE DebtPair(n, p)'
  <2> PICK x : x = Request(a, b, "symbols?")
    OBVIOUS
  <2> PICK A : A = Asked(wire, n, p)
    OBVIOUS
  <2> PICK B : B = Asked(wire', n, p)
    OBVIOUS
  <2>1. /\ UNCHANGED <<scenario, ledger, ledgerBin>> /\ wire' = wire \cup {x}
        /\ used'["symbols"] = used["symbols"] + 1
    BY <1>3, <1>0 DEF FetchSymbols, Ask, Use, Bounded
  <2>2. B \subseteq A \cup {x}
    BY <2>1 DEF Asked
  <2>3. IsFiniteSet(A) /\ Cardinality(A) \in Nat /\ Cardinality(B) \in Nat
    BY <1>0, AskedFact
  <2>4. IsFiniteSet(A \cup {x}) /\ Cardinality(A \cup {x}) = IF x \in A THEN Cardinality(A) ELSE Cardinality(A) + 1
    BY <2>3, FS_AddElement
  <2>5. Cardinality(B) <= Cardinality(A \cup {x})
    BY <2>2, <2>4, FS_Subset
  <2>6. Cardinality(B) <= Cardinality(A) + 1
    BY <2>3, <2>4, <2>5
  <2>7. Spent(n, p)' >= Spent(n, p)
    BY <2>1, <2>3, <2>6, <1>0 DEF Spent
  <2> QED BY <2>1, <2>7, <1>1
<1>4. ASSUME NEW a \in Nodes, Abandon(a) PROVE DebtPair(n, p)'
  <2> PICK S : S = {m \in wire : m.kind \in {"chunk?", "symbols?"} /\ m.from = a}
                     \cup {m \in wire : m.kind \in {"chunk", "symbols"} /\ m.to = a}
    OBVIOUS
  <2> PICK A : A = Asked(wire, n, p)
    OBVIOUS
  <2> PICK B : B = Asked(wire', n, p)
    OBVIOUS
  <2>1. wire' = (wire \ S) \cup {Orphaned(m) : m \in S} /\ UNCHANGED <<scenario, ledger, ledgerBin, used>>
    BY <1>4 DEF Abandon
  <2>2. \A m \in S : /\ m \in wire /\ Orphaned(m).kind = m.kind /\ Orphaned(m).from = m.from
                     /\ Orphaned(m).to = m.to
    BY <1>0, OrphanedType
  <2>3. IsFiniteSet(A) /\ Cardinality(A) \in Nat /\ Cardinality(B) \in Nat
    BY <1>0, AskedFact
  <2> DEFINE h == [m \in A |-> IF m \in S THEN Orphaned(m) ELSE m]
  <2>4. \A m \in A : h[m] \in B
    BY <2>1, <2>2 DEF Asked
  <2>5. \A y \in B : \E m \in A : h[m] = y
    <3> SUFFICES ASSUME NEW y \in B PROVE \E m \in A : h[m] = y
      OBVIOUS
    <3>1. y \in wire' /\ y.kind = "symbols?" /\ y.from = p /\ y.to = n
      BY DEF Asked
    <3>2. CASE y \in wire \ S
      BY <3>1, <3>2 DEF Asked
    <3>3. ASSUME NEW m \in S, y = Orphaned(m) PROVE \E q \in A : h[q] = y
      <4>1. m \in A
        BY <3>1, <3>3, <2>2 DEF Asked
      <4> QED BY <4>1, <3>3
    <3> QED BY <3>1, <3>2, <3>3, <2>1
  <2>6. h \in Surjection(A, B)
    BY <2>4, <2>5 DEF Surjection
  <2> HIDE DEF h
  <2>7. Cardinality(B) <= Cardinality(A)
    BY <2>3, <2>6, FS_Surjection
  <2>8. Spent(n, p)' >= Spent(n, p)
    BY <2>1, <2>3, <2>7, <1>0 DEF Spent
  <2> QED BY <2>1, <2>8, <1>1
<1>5. ASSUME NEW a \in Nodes, SaveTick(a) \/ Restart(a) PROVE DebtPair(n, p)'
  <2>1. /\ scenario' = scenario /\ wire' \subseteq wire /\ (used' = used \/ \E x \in Bounded : Use(x))
        /\ ledger' = ledger \/ ledger' = [ledger EXCEPT ![a] = ledgerBin[a]]
        /\ ledgerBin' = ledgerBin \/ ledgerBin' = [ledgerBin EXCEPT ![a] = ledger[a]]
    BY <1>5 DEF SaveTick, Restart, Bounded
  <2>2. Asked(wire', n, p) \subseteq Asked(wire, n, p)
    BY <2>1 DEF Asked
  <2>3. Spent(n, p)' >= Spent(n, p)
    BY <2>1, <2>2, <1>c, SpentGrows
  <2>4. ledger'[n][p] = ledger[n][p] \/ ledger'[n][p] = ledgerBin[n][p]
    BY <2>1, <1>0
  <2>5. ledgerBin'[n][p] \in {ledgerBin[n][p], ledger[n][p], ledger'[n][p]}
    BY <2>1, <1>0
  <2>6. Net(ledger'[n][p]) >= Net(ledger[n][p]) \/ ledger'[n][p] = ledgerBin[n][p]
    BY <2>4, <1>b
  <2> QED BY <2>1, <2>3, <2>5, <2>6, <1>a, DebtKept
<1>6. ASSUME NEW m \in wire, Lose(m) \/ RefuseChunk(m) \/ CollectReceipt(m) \/ PresentReceipts(m)
      PROVE  DebtPair(n, p)'
  <2>1. /\ UNCHANGED <<scenario, ledger, ledgerBin>> /\ (used' = used \/ \E x \in Bounded : Use(x))
    BY <1>6 DEF Lose, RefuseChunk, CollectReceipt, PresentReceipts, Bounded
  <2>2. \/ wire' \subseteq wire
        \/ \E l : wire' = (wire \ {m}) \cup {[kind |-> "receipts", from |-> m.to, to |-> m.from, list |-> l]}
    BY <1>6 DEF Lose, RefuseChunk, CollectReceipt, PresentReceipts, Consume, Reply
  <2>3. Asked(wire', n, p) \subseteq Asked(wire, n, p)
    BY <2>2 DEF Asked
  <2> QED BY <2>1, <2>3, <1>c, <1>1, SpentGrows
<1>7. CASE Tick \/ UNCHANGED vars
  <2>1. UNCHANGED <<scenario, ledger, ledgerBin, used, wire>>
    BY <1>7 DEF Tick
  <2>2. Spent(n, p)' >= Spent(n, p)
    BY <2>1, SpentGrows, <1>0
  <2> QED BY <2>1, <2>2, <1>1
<1>8. ASSUME NEW m \in wire, ReceiveData(m) PROVE DebtPair(n, p)'
  <2>1. UNCHANGED <<scenario, ledgerBin, used>> /\ wire' = wire \ {m} /\ m.kind \in {"chunk", "symbols"}
    BY <1>8 DEF ReceiveData, Consume
  <2>2. m.bytes \in Nat
    BY <2>1, <1>0, MessageFact
  <2>3. Asked(wire', n, p) \subseteq Asked(wire, n, p) /\ used["symbols"] <= used'["symbols"]
    BY <2>1, <1>0 DEF Asked
  <2>4. Spent(n, p)' >= Spent(n, p)
    BY <2>3, SpentGrows
  <2> PICK c : c = ledger[n][p]
    OBVIOUS
  <2>5. \/ ledger'[n][p] = c
        \/ ledger'[n][p] = [c EXCEPT !.served_to_us = Saturated(c.served_to_us + m.bytes)]
    <3>1. \/ ledger' = ledger
          \/ ledger' = [ledger EXCEPT ![m.to][m.from].served_to_us =
                            Saturated(ledger[m.to][m.from].served_to_us + m.bytes)]
      BY <1>8 DEF ReceiveData, RecordResponse, RecordReceived
    <3>2. CASE ledger' = ledger
      BY <3>2
    <3>3. CASE ledger' = [ledger EXCEPT ![m.to][m.from].served_to_us =
                              Saturated(ledger[m.to][m.from].served_to_us + m.bytes)]
      <4>1. CASE n = m.to /\ p = m.from
        BY <3>3, <4>1, <1>0
      <4>2. CASE ~(n = m.to /\ p = m.from)
        BY <3>3, <4>2, <1>0
      <4> QED BY <4>1, <4>2
    <3> QED BY <3>1, <3>2, <3>3
  <2>6. Net(ledger'[n][p]) >= Net(ledger[n][p])
    <3>1. Net([c EXCEPT !.served_to_us = Saturated(c.served_to_us + m.bytes)]) >= Net(c)
      BY <2>2, <1>0, NetChange
    <3> QED BY <3>1, <2>5, <1>b
  <2> QED BY <2>1, <2>4, <2>6, <1>a, DebtKept
<1>9. ASSUME NEW m \in wire, CreditReceipts(m) PROVE DebtPair(n, p)'
  <2>1. scenario' = scenario /\ wire' = wire \ {m} /\ m.kind = "receipts" /\ (used' = used \/ Use("errors"))
    BY <1>9 DEF CreditReceipts, Consume
  <2>2. m.list \in Seq(Receipts) /\ m.from \in Nodes /\ m.to \in Nodes
    BY <2>1, <1>0, MessageFact
  <2>3. Asked(wire', n, p) \subseteq Asked(wire, n, p) /\ used["symbols"] <= used'["symbols"]
    BY <2>1, <1>c DEF Asked, Bounded
  <2>4. Spent(n, p)' >= Spent(n, p)
    BY <2>3, SpentGrows
  <2> PICK c : c = ledger[n][p]
    OBVIOUS
  <2> PICK v : v = CreditOf(m.list, m.from)
    OBVIOUS
  <2>5. v \in Nat
    BY <2>2, CreditFact
  <2>6. \/ ledger' = ledger
        \/ ledger' = [ledger EXCEPT ![m.to][m.from].credited_by_receipts =
                          Saturated(ledger[m.to][m.from].credited_by_receipts + v)]
    BY <1>9 DEF CreditReceipts
  <2>7. \/ ledger'[n][p] = c
        \/ ledger'[n][p] = [c EXCEPT !.credited_by_receipts = Saturated(c.credited_by_receipts + v)]
    <3>1. CASE n = m.to /\ p = m.from
      BY <3>1, <2>6, <1>0
    <3>2. CASE ~(n = m.to /\ p = m.from)
      BY <3>2, <2>6, <1>0
    <3> QED BY <3>1, <3>2
  <2>8. Net(ledger'[n][p]) >= Net(ledger[n][p])
    <3>1. Net([c EXCEPT !.credited_by_receipts = Saturated(c.credited_by_receipts + v)]) >= Net(c)
      BY <2>5, <1>0, NetChange
    <3> QED BY <3>1, <2>7, <1>b
  <2>9. ledgerBin' = ledgerBin \/ ledgerBin' = [ledgerBin EXCEPT ![m.to] = ledger'[m.to]]
    BY <1>9 DEF CreditReceipts
  <2>10. ledgerBin'[n][p] \in {ledgerBin[n][p], ledger[n][p], ledger'[n][p]}
    BY <2>9, <1>0
  <2> QED BY <2>1, <2>4, <2>8, <2>10, <1>a, DebtKept
<1>d. /\ Largest \in Nat /\ \A b \in scenario.sizes : b \in Nat /\ b <= Largest
  BY LargestFact
<1>10. ASSUME NEW m \in wire, ServeChunk(m) \/ ServeSymbols(m) PROVE DebtPair(n, p)'
  <2>1. PICK k \in {"chunk", "symbols"}, bytes \in scenario.sizes : HandOut(m, k, bytes)
    BY <1>10 DEF ServeChunk, ServeSymbols
  <2>2. bytes \in Nat /\ bytes <= Largest
    BY <1>d
  <2>3. /\ UNCHANGED <<scenario, ledgerBin, used>>
        /\ wire' = (wire \ {m}) \cup {[kind |-> k, from |-> m.to, to |-> m.from, wanted |-> m.wanted, bytes |-> bytes]}
        /\ ledger' = [ledger EXCEPT ![m.to][m.from].we_served =
                          Saturated(ledger[m.to][m.from].we_served + bytes)]
    BY <2>1 DEF HandOut, Reply, RecordServed
  <2>4. Asked(wire', n, p) = Asked(wire, n, p) \ {m}
    BY <2>3 DEF Asked
  <2>5. Spent(n, p)' >= Spent(n, p)
    <3>1. used["symbols"] <= used'["symbols"]
      BY <2>3, <1>0
    <3>2. Asked(wire', n, p) \subseteq Asked(wire, n, p)
      BY <2>4
    <3> QED BY <3>1, <3>2, SpentGrows
  <2>6. CASE ~(n = m.to /\ p = m.from)
    <3>1. ledger'[n][p] = ledger[n][p]
      BY <2>3, <2>6, <1>0
    <3> QED BY <3>1, <2>3, <2>5, <1>a, <1>b, DebtKept
  <2>7. CASE n = m.to /\ p = m.from
    <3> PICK c : c = ledger[n][p]
      OBVIOUS
    <3>1. ledger'[n][p] = [c EXCEPT !.we_served = Saturated(c.we_served + bytes)]
      BY <2>3, <2>7, <1>0
    <3>2. Net(ledger'[n][p]) >= Net(c) - bytes
      BY <3>1, <2>2, <1>0, NetChange
    <3> PICK s : s = Spent(n, p)
      OBVIOUS
    <3> PICK t : t = Spent(n, p)'
      OBVIOUS
    <3>3. s \in Nat /\ t \in Nat /\ s <= t
      <4>1. s \in Int /\ s >= 0
        BY <1>a, SpentFact DEF DebtPair
      <4>2. t \in Int
        <5>1. used'["symbols"] \in Nat /\ Cardinality(Asked(wire', n, p)) \in Nat
          BY AskedFact DEF Typed, TypeOK, Bounded
        <5> QED BY <5>1 DEF Spent
      <4> QED BY <4>1, <4>2, <2>5
    <3> PICK f : f = Floor
      OBVIOUS
    <3> PICK l : l = Largest
      OBVIOUS
    <3>4. f \in Int /\ f <= ChokeBelow /\ ChokeBelow \in Int /\ l \in Nat /\ f = Floor' /\ l = Largest'
      BY FloorFact, ChokeFact, <1>d, <2>3 DEF Floor, Largest, ChokeBelow
    <3>5. Low(n, p)' = f - (1 + t) * l /\ Low(n, p) = f - (1 + s) * l
      BY <3>4 DEF Low
    <3>6. /\ f - (1 + t) * l \in Int /\ f - (1 + s) * l \in Int
          /\ f - (1 + t) * l <= f - l /\ f - (1 + t) * l <= f - (1 + s) * l
          /\ s + 1 <= t => f - (1 + t) * l <= f - (1 + s) * l - l
      BY <3>3, <3>4, Lower
    <3>7. Net(ledger'[n][p]) >= f - (1 + t) * l
      <4>1. CASE ServeChunk(m)
        <5>1. ~(Reputation(c) < ChokeBelow)
          BY <4>1, <2>7 DEF ServeChunk, Choked
        <5>2. Net(c) >= ChokeBelow
          BY <5>1, <1>0, ChokeFact
        <5> PICK z : z = f - (1 + t) * l
          OBVIOUS
        <5>3. z \in Int /\ z <= f - l
          BY <3>6
        <5>4. Net(ledger'[n][p]) >= z
          BY <5>2, <5>3, <3>2, <3>4, <2>2, <1>b
        <5> QED BY <5>4
      <4>2. CASE ServeSymbols(m)
        <5>1. m \in Asked(wire, n, p)
          BY <4>2, <2>7 DEF ServeSymbols, Asked
        <5> PICK A : A = Asked(wire, n, p)
          OBVIOUS
        <5>2. IsFiniteSet(A) /\ Cardinality(A) \in Nat
          BY <1>0, AskedFact
        <5>3. Cardinality(A \ {m}) = Cardinality(A) - 1
          BY <5>1, <5>2, FS_RemoveElement
        <5>4. t = s + 1
          <6> PICK u : u = used["symbols"]
            OBVIOUS
          <6> PICK a : a = Cardinality(A)
            OBVIOUS
          <6>1. u \in Nat /\ a \in Nat
            BY <5>2, <1>0
          <6>2. Asked(wire', n, p) = A \ {m}
            BY <2>4
          <6>3. s = u - a
            BY DEF Spent
          <6>4. t = u - Cardinality(A \ {m})
            BY <6>2, <2>3 DEF Spent
          <6>5. t = u - (a - 1)
            BY <6>4, <5>3
          <6> QED BY <6>1, <6>3, <6>5
        <5> PICK z : z = f - (1 + t) * l
          OBVIOUS
        <5> PICK y : y = f - (1 + s) * l
          OBVIOUS
        <5>5. z \in Int /\ y \in Int /\ z <= y - l
          BY <5>4, <3>3, <3>6
        <5>6. Net(c) >= y
          BY <3>5, <1>a DEF DebtPair
        <5>7. Net(ledger'[n][p]) >= z
          BY <5>5, <5>6, <3>2, <3>4, <2>2, <1>b
        <5> QED BY <5>7
      <4> QED BY <4>1, <4>2, <1>10
    <3>8. Net(ledgerBin'[n][p]) >= f - (1 + t) * l
      <4>1. Net(ledgerBin[n][p]) >= f - (1 + s) * l
        BY <3>5, <1>a DEF DebtPair
      <4> PICK z : z = f - (1 + t) * l
        OBVIOUS
      <4> PICK y : y = f - (1 + s) * l
        OBVIOUS
      <4>2. z \in Int /\ y \in Int /\ z <= y
        BY <3>6
      <4> QED BY <4>1, <4>2, <2>3, <1>b
    <3> QED BY <3>3, <3>5, <3>7, <3>8 DEF DebtPair
  <2> QED BY <2>6, <2>7
<1> QED
  BY <1>2, <1>3, <1>4, <1>5, <1>6, <1>7, <1>8, <1>9, <1>10 DEF Steps, Handle

(* By what a node has on record, nobody is ever more than one answer past  *)
(* the choke threshold, symbols aside, which serve does not choke: however *)
(* requests, answers, lost messages, saves and restarts interleave.        *)
THEOREM SpecDebtBounded == Spec => []DebtBounded
<1>1. Init /\ Typed => Debt
  <2> SUFFICES ASSUME Init, Typed, NEW n \in Nodes, NEW p \in Nodes PROVE DebtPair(n, p)
    BY DEF Debt
  <2>1. Asked(wire, n, p) = {}
    BY DEF Init, Asked
  <2>2. Spent(n, p) = 0
    <3>1. Cardinality(Asked(wire, n, p)) = 0 /\ used["symbols"] = 0
      BY <2>1, FS_EmptySet DEF Init, Bounded
    <3> QED BY <3>1 DEF Spent
  <2>3. Net(ledger[n][p]) = 0 /\ Net(ledgerBin[n][p]) = 0
    BY DEF Init, NoHistory, Net
  <2>4. Floor \in Int /\ Floor <= 0 /\ Largest \in Nat
    BY FloorFact, LargestFact
  <2>5. Low(n, p) = Floor - (1 + 0) * Largest
    BY <2>2 DEF Low
  <2>6. Low(n, p) <= 0 /\ Low(n, p) \in Int
    <3> PICK f : f = Floor
      OBVIOUS
    <3> PICK l : l = Largest
      OBVIOUS
    <3> QED BY <2>4, <2>5
  <2> QED BY <2>2, <2>3, <2>6 DEF DebtPair
<1>2. Typed /\ Debt => DebtBounded
  <2> SUFFICES ASSUME Typed, Debt, NEW n \in Nodes, NEW p \in Nodes
               PROVE  Net(ledger[n][p]) >= Floor - (1 + used["symbols"]) * Largest
    BY DEF DebtBounded, Floor, Largest
  <2> PICK s : s = Spent(n, p)
    OBVIOUS
  <2> PICK u : u = used["symbols"]
    OBVIOUS
  <2>1. u \in Nat /\ s \in Nat /\ s <= u
    BY SpentFact DEF Debt, DebtPair, Spent
  <2>2. Floor \in Int /\ Largest \in Nat
    BY FloorFact, LargestFact
  <2> PICK f : f = Floor
    OBVIOUS
  <2> PICK l : l = Largest
    OBVIOUS
  <2>3. /\ f - (1 + u) * l \in Int /\ f - (1 + s) * l \in Int /\ f - (1 + u) * l <= f - (1 + s) * l
    BY <2>1, <2>2, Lower
  <2>4. Net(ledger[n][p]) >= f - (1 + s) * l
    BY DEF Debt, DebtPair, Low
  <2>5. Net(ledger[n][p]) \in Int
    BY NetFact DEF Typed, TypeOK
  <2>6. Net(ledger[n][p]) >= f - (1 + u) * l
    <3> PICK y : y = f - (1 + u) * l
      OBVIOUS
    <3> PICK z : z = f - (1 + s) * l
      OBVIOUS
    <3> QED BY <2>3, <2>4, <2>5
  <2> QED BY <2>6
<1>3. Init => Typed /\ Debt
  BY <1>1, InitTyped
<1> QED BY <1>3, <1>2, TypedStep, NextDebt, PTL DEF Spec

-----------------------------------------------------------------------------
(* What a peer is credited                                                 *)

RcptBytes == [r \in Receipts |-> r.bytes]
Due(iss, p) == Sum(Nodes, [c \in Nodes |-> iss[c][p]])

(* Every receipt about p that anyone holds, saves or has under way is in a *)
(* set that is paid for by what was issued to p: receipts are copied, kept *)
(* and dropped, but only SubmitReceipt makes one.                          *)
ListIn(list, p, C) == \A i \in DOMAIN list : list[i].server = p => list[i] \in C
MsgIn(m, p, C) ==
    /\ m.kind = "receipt" /\ m.receipt.server = p => m.receipt \in C
    /\ m.kind = "receipts" => ListIn(m.list, p, C)
WireIn(W, p, C) == \A m \in W : MsgIn(m, p, C)
BagsIn(B, p, C) == \A n \in Nodes : ListIn(B[n], p, C)
Covers(C, p) ==
    /\ C \subseteq Receipts /\ IsFiniteSet(C) /\ Sum(C, RcptBytes) <= Due(issued, p)
    /\ WireIn(wire, p, C) /\ BagsIn(bag, p, C) /\ BagsIn(receiptsBin, p, C)
Backed == \A p \in Nodes : \E C : Covers(C, p)

LEMMA DueFact ==
    ASSUME NEW iss \in [Nodes -> [Nodes -> Nat]], NEW p \in Nodes
    PROVE  Due(iss, p) \in Nat
<1> PICK f : f = [c \in Nodes |-> iss[c][p]]
  OBVIOUS
<1>1. \A c \in Nodes : f[c] \in Nat
  OBVIOUS
<1>2. Sum(Nodes, f) \in Nat
  BY <1>1, ConstantsFact, SumNat
<1> QED BY <1>2 DEF Due

Paid(iss, new, n, p, b) == new = [iss EXCEPT ![n][p] = iss[n][p] + b]

LEMMA DueGrows ==
    ASSUME NEW iss \in [Nodes -> [Nodes -> Nat]], NEW n \in Nodes, NEW p \in Nodes, NEW b \in Nat,
           NEW new, Paid(iss, new, n, p, b), NEW q \in Nodes
    PROVE  Due(new, q) >= Due(iss, q) /\ (q = p => Due(new, q) = Due(iss, q) + b)
<1>a. new = [iss EXCEPT ![n][p] = iss[n][p] + b]
  BY DEF Paid
<1>0. new \in [Nodes -> [Nodes -> Nat]]
  <2>1. iss[n][p] + b \in Nat
    OBVIOUS
  <2> QED BY <1>a, <2>1, AmountsType
<1> PICK f : f = [c \in Nodes |-> iss[c][q]]
  OBVIOUS
<1> PICK g : g = [c \in Nodes |-> new[c][q]]
  OBVIOUS
<1>1. \A c \in Nodes : f[c] \in Nat /\ g[c] \in Nat /\ (c # n => f[c] = g[c])
  BY <1>0, <1>a
<1>2. g[n] = f[n] + (IF q = p THEN b ELSE 0)
  BY <1>0, <1>a
<1>3. Sum(Nodes, g) + f[n] = Sum(Nodes, f) + g[n]
  <2>1. n \in Nodes /\ IsFiniteSet(Nodes)
    BY ConstantsFact
  <2> QED BY ONLY <1>1, <2>1, SumChange
<1>4. Sum(Nodes, f) \in Nat /\ Sum(Nodes, g) \in Nat
  BY <1>1, ConstantsFact, SumNat
<1> PICK x : x = Sum(Nodes, f)
  OBVIOUS
<1> PICK y : y = Sum(Nodes, g)
  OBVIOUS
<1> PICK v : v = f[n]
  OBVIOUS
<1> PICK w : w = g[n]
  OBVIOUS
<1>5. y >= x /\ (q = p => y = x + b)
  <2>1. v \in Nat /\ w \in Nat /\ x \in Nat /\ y \in Nat /\ b \in Nat
    BY <1>1, <1>4
  <2>2. w = v + (IF q = p THEN b ELSE 0)
    BY <1>2
  <2>3. y + v = x + w
    BY <1>3
  <2> QED BY ONLY <2>1, <2>2, <2>3
<1>6. Due(iss, q) = x /\ Due(new, q) = y
  BY DEF Due
<1> QED BY <1>5, <1>6

(* The receipts that a list is credited for are different ones.            *)
LEMMA CreditCovered ==
    ASSUME NEW list \in Seq(Receipts), NEW p, NEW C, C \subseteq Receipts, IsFiniteSet(C), ListIn(list, p, C)
    PROVE  CreditOf(list, p) <= Sum(C, RcptBytes)
<1> PICK S : S = Creditable(list, p)
  OBVIOUS
<1> PICK f : f = [i \in DOMAIN list |-> list[i].bytes]
  OBVIOUS
<1> PICK g : g = [i \in S |-> RcptBytes[list[i]]]
  OBVIOUS
<1>0. /\ IsFiniteSet(S) /\ S \subseteq DOMAIN list /\ DOMAIN list \subseteq Nat
      /\ \A i \in DOMAIN list : list[i] \in Receipts /\ list[i].bytes \in Nat
  BY CreditFact
<1>1. CreditOf(list, p) = Sum(S, f)
  BY DEF CreditOf, SumOver, Sum
<1>2. \A i \in S : f[i] = g[i] /\ RcptBytes[list[i]] \in Nat
  BY <1>0 DEF RcptBytes
<1>3. Sum(S, f) = Sum(S, g)
  BY <1>0, <1>2, SumEqual
<1>4. ASSUME NEW i \in S, NEW j \in S, list[i] = list[j] PROVE i = j
  <2>1. ASSUME NEW k \in S, NEW l \in S, list[k] = list[l], k < l PROVE FALSE
    <3>1. k \in Nat /\ l \in Nat /\ DOMAIN list = 1 .. Len(list) /\ k \in DOMAIN list /\ l \in DOMAIN list
      BY <1>0
    <3>2. k \in 1 .. l - 1
      BY <3>1, <2>1
    <3>3. list[k].server = p /\ <<list[k].client, list[k].epoch>> # <<list[l].client, list[l].epoch>>
      BY <3>2 DEF Creditable
    <3> QED BY <3>3, <2>1
  <2>2. i \in Nat /\ j \in Nat
    BY <1>0
  <2>3. i < j \/ j < i \/ i = j
    BY <2>2
  <2> QED BY <2>1, <2>3, <1>4
<1> PICK T : T = {list[i] : i \in S}
  OBVIOUS
<1>5. Sum(S, g) = Sum(T, RcptBytes)
  <2>1. Carries(list, S, g, T, RcptBytes)
    BY <1>2, <1>4 DEF Carries
  <2> QED BY <2>1, <1>0, SumImage
<1>6. T \subseteq C
  BY <1>0 DEF Creditable, ListIn
<1>7. \A r \in C : RcptBytes[r] \in Nat
  BY DEF RcptBytes, Receipts
<1>8. Sum(T, RcptBytes) <= Sum(C, RcptBytes)
  BY <1>6, <1>7, SumSubset
<1> QED BY <1>1, <1>3, <1>5, <1>8

LEMMA CoversKept ==
    ASSUME Typed, Typed', NEW p \in Nodes, NEW C, Covers(C, p),
           WireIn(wire', p, C), BagsIn(bag', p, C), BagsIn(receiptsBin', p, C),
           Due(issued, p) <= Due(issued', p)
    PROVE  Covers(C, p)'
<1>1. Due(issued, p) \in Nat /\ Due(issued', p) \in Nat
  BY DueFact DEF Typed, TypeOK
<1>2. Sum(C, RcptBytes) \in Nat
  <2>1. \A r \in C : RcptBytes[r] \in Nat
    BY DEF Covers, RcptBytes, Receipts
  <2> QED BY <2>1, SumNat DEF Covers
<1>3. Sum(C, RcptBytes) <= Due(issued', p)
  <2>1. Sum(C, RcptBytes) <= Due(issued, p)
    BY DEF Covers
  <2> QED BY <2>1, <1>1, <1>2
<1> QED BY <1>3 DEF Covers

LEMMA NextBacked == Typed /\ Typed' /\ Steps /\ Backed => Backed'
<1> SUFFICES ASSUME Typed, Typed', Steps, Backed, NEW p \in Nodes PROVE \E C : Covers(C, p)'
  BY DEF Backed
<1> USE DEF vars, accounts, session, totals
<1>0. /\ wire \subseteq Messages /\ bag \in [Nodes -> Seq(Receipts)] /\ receiptsBin \in [Nodes -> Seq(Receipts)]
      /\ issued \in [Nodes -> [Nodes -> Nat]] /\ fetched \in [Nodes -> [Nodes -> Nat]] /\ epoch \in [Nodes -> Nat]
  BY DEF Typed, TypeOK
<1>1. PICK C : Covers(C, p)
  BY DEF Backed
<1>a. WireIn(wire, p, C) /\ BagsIn(bag, p, C) /\ BagsIn(receiptsBin, p, C) /\ Due(issued, p) \in Nat
  BY <1>0, <1>1, DueFact DEF Covers
<1>2. ASSUME UNCHANGED <<issued, bag, receiptsBin>>, \A m \in wire' : m \in wire \/ MsgIn(m, p, C)
      PROVE  \E D : Covers(D, p)'
  <2>1. WireIn(wire', p, C)
    BY <1>2, <1>a DEF WireIn
  <2>2. Due(issued, p) <= Due(issued', p) /\ BagsIn(bag', p, C) /\ BagsIn(receiptsBin', p, C)
    BY <1>2, <1>a
  <2> QED BY <2>1, <2>2, <1>1, CoversKept
<1>3. ASSUME NEW a \in Nodes, NEW b \in Nodes,
             Connect(a, b) \/ Identify(a, b) \/ Disconnect(a, b) \/ Reconnect(a, b)
             \/ Fetch(a, b) \/ FetchSymbols(a, b)
      PROVE  \E D : Covers(D, p)'
  <2>1. UNCHANGED <<issued, bag, receiptsBin>>
    BY <1>3 DEF Connect, Identify, Disconnect, Reconnect, Fetch, FetchSymbols, Ask
  <2>2. \/ wire' \subseteq wire
        \/ \E k \in {"chunk?", "symbols?"} : wire' = wire \cup {Request(a, b, k)}
        \/ wire' = wire \cup {[kind |-> "receipts?", from |-> a, to |-> b]}
    BY <1>3 DEF Connect, Identify, Disconnect, Reconnect, Fetch, FetchSymbols, Ask
  <2>3. \A m \in wire' : m \in wire \/ MsgIn(m, p, C)
    BY <2>2 DEF MsgIn, Request
  <2> QED BY <2>1, <2>3, <1>2
<1>4. ASSUME NEW n \in Nodes, NEW q \in Nodes, SubmitReceipt(n, q) PROVE \E D : Covers(D, p)'
  <2> PICK r : r = [server |-> q, client |-> n, bytes |-> fetched[n][q], epoch |-> epoch[n]]
    OBVIOUS
  <2>1. r \in Receipts /\ r.server = q /\ RcptBytes[r] = fetched[n][q] /\ fetched[n][q] \in Nat
    BY <1>0 DEF Receipts, RcptBytes
  <2>2. UNCHANGED <<bag, receiptsBin>>
    BY <1>4 DEF SubmitReceipt
  <2>3. CASE q \notin known[n]
    <3>1. UNCHANGED <<issued, wire>>
      BY <2>3, <1>4 DEF SubmitReceipt
    <3> QED BY <3>1, <2>2, <1>2
  <2>4. CASE q \in known[n]
    <3>1. /\ wire' = wire \cup {[kind |-> "receipt", from |-> n, to |-> q, receipt |-> r]}
          /\ issued' = [issued EXCEPT ![n][q] = issued[n][q] + fetched[n][q]]
      BY <2>4, <1>4 DEF SubmitReceipt
    <3>2. Due(issued', p) >= Due(issued, p) /\ (p = q => Due(issued', p) = Due(issued, p) + fetched[n][q])
      <4> PICK b : b = fetched[n][q]
        OBVIOUS
      <4>1. b \in Nat /\ Paid(issued, issued', n, q, b)
        BY <3>1, <2>1 DEF Paid
      <4>2. issued \in [Nodes -> [Nodes -> Nat]] /\ n \in Nodes /\ q \in Nodes /\ p \in Nodes
        BY <1>0
      <4>3. Due(issued', p) >= Due(issued, p) /\ (p = q => Due(issued', p) = Due(issued, p) + b)
        BY ONLY <4>1, <4>2, DueGrows
      <4> QED BY <4>3
    <3>3. CASE p # q
      <4>1. WireIn(wire', p, C)
        BY <3>1, <3>3, <2>1, <1>a DEF WireIn, MsgIn
      <4>2. BagsIn(bag', p, C) /\ BagsIn(receiptsBin', p, C)
        BY <2>2, <1>a
      <4>3. Due(issued, p) <= Due(issued', p)
        <5>1. Due(issued', p) \in Nat
          BY DueFact DEF Typed, TypeOK
        <5> QED BY <5>1, <3>2, <1>a
      <4> QED BY <4>1, <4>2, <4>3, <1>1, CoversKept
    <3>4. CASE p = q
      <4> PICK D : D = C \cup {r}
        OBVIOUS
      <4>1. C \subseteq Receipts /\ IsFiniteSet(C) /\ Sum(C, RcptBytes) <= Due(issued, p)
        BY <1>1 DEF Covers
      <4>2. D \subseteq Receipts /\ IsFiniteSet(D) /\ \A x \in D : RcptBytes[x] \in Nat
        <5>1. IsFiniteSet(D)
          BY <4>1, FS_AddElement
        <5> QED BY <5>1, <4>1, <2>1 DEF RcptBytes, Receipts
      <4>3. Sum(D, RcptBytes) <= Sum(C, RcptBytes) + RcptBytes[r]
        BY <4>1, <4>2, SumAdd
      <4>4. Sum(C, RcptBytes) \in Nat /\ Sum(D, RcptBytes) \in Nat
        BY <4>1, <4>2, SumNat
      <4>5. Sum(D, RcptBytes) <= Due(issued', p)
        BY <4>1, <4>3, <4>4, <3>2, <3>4, <2>1, <1>a
      <4>6. WireIn(wire', p, D)
        BY <3>1, <1>a DEF WireIn, MsgIn, ListIn
      <4>7. BagsIn(bag', p, D) /\ BagsIn(receiptsBin', p, D)
        BY <2>2, <1>a DEF BagsIn, ListIn
      <4> QED BY <4>2, <4>5, <4>6, <4>7 DEF Covers
    <3> QED BY <3>3, <3>4
  <2> QED BY <2>3, <2>4
<1>5. ASSUME NEW n \in Nodes, Abandon(n) PROVE \E D : Covers(D, p)'
  <2> PICK S : S = {m \in wire : m.kind \in {"chunk?", "symbols?"} /\ m.from = n}
                     \cup {m \in wire : m.kind \in {"chunk", "symbols"} /\ m.to = n}
    OBVIOUS
  <2>1. wire' = (wire \ S) \cup {Orphaned(m) : m \in S} /\ UNCHANGED <<issued, bag, receiptsBin>>
    BY <1>5 DEF Abandon
  <2>2. \A m \in S : Orphaned(m).kind = m.kind /\ m.kind \in {"chunk?", "symbols?", "chunk", "symbols"}
    BY <1>0, OrphanedType
  <2>3. \A m \in wire' : m \in wire \/ MsgIn(m, p, C)
    BY <2>1, <2>2 DEF MsgIn
  <2> QED BY <2>1, <2>3, <1>2
<1>6. ASSUME NEW n \in Nodes, SaveTick(n) \/ Restart(n) PROVE \E D : Covers(D, p)'
  <2>1. /\ UNCHANGED <<issued, receiptsBin>> /\ wire' \subseteq wire
        /\ bag' = bag \/ bag' = [bag EXCEPT ![n] = receiptsBin[n]]
    BY <1>6 DEF SaveTick, Restart
  <2>2. BagsIn(bag', p, C)
    BY <2>1, <1>0, <1>a DEF BagsIn
  <2>3. WireIn(wire', p, C)
    BY <2>1, <1>a DEF WireIn
  <2>4. Due(issued, p) <= Due(issued', p) /\ BagsIn(receiptsBin', p, C)
    BY <2>1, <1>a
  <2> QED BY <2>2, <2>3, <2>4, <1>1, CoversKept
<1>7. ASSUME NEW m \in wire,
             Lose(m) \/ RefuseChunk(m) \/ ServeChunk(m) \/ ServeSymbols(m) \/ ReceiveData(m)
             \/ CreditReceipts(m) \/ PresentReceipts(m)
      PROVE  \E D : Covers(D, p)'
  <2>1. UNCHANGED <<issued, bag, receiptsBin>>
    BY <1>7 DEF Lose, RefuseChunk, ServeChunk, ServeSymbols, HandOut, ReceiveData, CreditReceipts, PresentReceipts
  <2>2. CASE wire' \subseteq wire
    BY <2>1, <2>2, <1>2
  <2>3. CASE ServeChunk(m) \/ ServeSymbols(m)
    <3>0. PICK k \in {"chunk", "symbols"} : \E bytes : HandOut(m, k, bytes)
      BY <2>3 DEF ServeChunk, ServeSymbols
    <3>1. PICK bytes : HandOut(m, k, bytes)
      BY <3>0
    <3>2. wire' = (wire \ {m}) \cup {[kind |-> k, from |-> m.to, to |-> m.from, wanted |-> m.wanted, bytes |-> bytes]}
      BY <3>1 DEF HandOut, Reply
    <3>3. \A x \in wire' : x \in wire \/ MsgIn(x, p, C)
      BY <3>2 DEF MsgIn
    <3> QED BY <3>3, <2>1, <1>2
  <2>4. CASE PresentReceipts(m)
    <3>1. wire' = (wire \ {m}) \cup {[kind |-> "receipts", from |-> m.to, to |-> m.from, list |-> bag[m.to]]}
      BY <2>4 DEF PresentReceipts, Reply
    <3>2. ListIn(bag[m.to], p, C)
      <4>1. m.to \in Nodes
        BY <1>0, MessageFact
      <4> QED BY <4>1, <1>a DEF BagsIn
    <3>3. \A x \in wire' : x \in wire \/ MsgIn(x, p, C)
      BY <3>1, <3>2 DEF MsgIn
    <3> QED BY <3>3, <2>1, <1>2
  <2>5. ServeChunk(m) \/ ServeSymbols(m) \/ PresentReceipts(m) \/ wire' \subseteq wire
    BY <1>7 DEF Lose, RefuseChunk, ReceiveData, CreditReceipts, Consume
  <2> QED BY <2>2, <2>3, <2>4, <2>5
<1>8. ASSUME NEW m \in wire, CollectReceipt(m) PROVE \E D : Covers(D, p)'
  <2> PICK n : n = m.to
    OBVIOUS
  <2> PICK c : c = Collected(bag[n], m.receipt)
    OBVIOUS
  <2>1. /\ issued' = issued /\ wire' = wire \ {m} /\ m.kind = "receipt"
        /\ bag' = bag \/ bag' = [bag EXCEPT ![n] = c]
        /\ receiptsBin' = receiptsBin \/ receiptsBin' = [receiptsBin EXCEPT ![n] = bag'[n]]
    BY <1>8 DEF CollectReceipt, Consume
  <2>2. n \in Nodes /\ m.receipt \in Receipts /\ bag[n] \in Seq(Receipts)
    BY <2>1, <1>0, MessageFact
  <2>3. \A i \in DOMAIN c : c[i] = m.receipt \/ \E j \in DOMAIN bag[n] : c[i] = bag[n][j]
    BY <2>2, CollectedFact
  <2>4. m.receipt.server = p => m.receipt \in C
    BY <2>1, <1>a DEF WireIn, MsgIn
  <2>5. ListIn(bag[n], p, C)
    BY <2>2, <1>a DEF BagsIn
  <2>6. ListIn(c, p, C)
    BY <2>3, <2>4, <2>5 DEF ListIn
  <2>7. BagsIn(bag', p, C)
    BY <2>1, <2>6, <1>0, <1>a DEF BagsIn
  <2>8. ListIn(bag'[n], p, C)
    BY <2>2, <2>7 DEF BagsIn
  <2>9. BagsIn(receiptsBin', p, C)
    BY <2>1, <2>8, <1>0, <1>a DEF BagsIn
  <2>10. WireIn(wire', p, C) /\ Due(issued, p) <= Due(issued', p)
    BY <2>1, <1>a DEF WireIn
  <2> QED BY <2>7, <2>9, <2>10, <1>1, CoversKept
<1>9. CASE Tick \/ UNCHANGED vars
  <2>1. UNCHANGED <<issued, bag, receiptsBin, wire>>
    BY <1>9 DEF Tick
  <2> QED BY <2>1, <1>2
<1> QED
  BY <1>3, <1>4, <1>5, <1>6, <1>7, <1>8, <1>9 DEF Steps, Handle

(* A pull of p's receipts by n is under way at most once, and only while n *)
(* has credited p nothing: receipts_pulled_from holds p meanwhile, and is  *)
(* cleared together with what is under way.                                *)
Cr(l, n, p) == l[n][p].credited_by_receipts
Pulls(W, n, p) ==
    {m \in W : (m.kind = "receipts?" /\ m.from = n /\ m.to = p) \/ (m.kind = "receipts" /\ m.from = p /\ m.to = n)}
SinglePull(n, p) ==
    \A m \in Pulls(wire, n, p) :
        n # p /\ p \in pulled[n] /\ Cr(ledger, n, p) = 0 /\ Pulls(wire, n, p) = {m}
Single == \A n, p \in Nodes : SinglePull(n, p)

LEMMA SingleKept ==
    ASSUME NEW n, NEW p, SinglePull(n, p), Pulls(wire', n, p) \subseteq Pulls(wire, n, p),
           Pulls(wire', n, p) # {} => p \in pulled'[n] /\ Cr(ledger', n, p) = Cr(ledger, n, p)
    PROVE  SinglePull(n, p)'
BY DEF SinglePull

(* A change of what a keeps of b.                                          *)
Entry(l, new, a, b, d) == new = [l EXCEPT ![a][b] = d]

CrSame(n, p) == Cr(ledger', n, p) = Cr(ledger, n, p)

(* Serving and receiving leave what is credited alone.                     *)
LEMMA CrData ==
    ASSUME Typed, NEW m \in wire, ServeChunk(m) \/ ServeSymbols(m) \/ ReceiveData(m), NEW n \in Nodes, NEW p \in Nodes
    PROVE  CrSame(n, p)
<1>0. wire \subseteq Messages /\ ledger \in [Nodes -> [Nodes -> Counters]]
  BY DEF Typed, TypeOK
<1> PICK a : a = m.to
  OBVIOUS
<1> PICK b : b = m.from
  OBVIOUS
<1>1. a \in Nodes /\ b \in Nodes
  BY <1>0, MessageFact
<1> PICK c : c = ledger[a][b]
  OBVIOUS
<1>2. c \in Counters
  BY <1>0, <1>1
<1>3. CASE ServeChunk(m) \/ ServeSymbols(m)
  <2>1. PICK k, bytes : HandOut(m, k, bytes)
    BY <1>3 DEF ServeChunk, ServeSymbols
  <2> PICK d : d = [c EXCEPT !.we_served = Saturated(c.we_served + bytes)]
    OBVIOUS
  <2>2. d.credited_by_receipts = c.credited_by_receipts
    BY <1>2 DEF Counters
  <2>3. Entry(ledger, ledger', a, b, d)
    BY <2>1, <1>0, <1>1 DEF HandOut, RecordServed, Entry
  <2>4. /\ n = a /\ p = b => Cr(ledger', n, p) = d.credited_by_receipts
        /\ ~(n = a /\ p = b) => Cr(ledger', n, p) = Cr(ledger, n, p)
    BY <2>3, <1>0, <1>1 DEF Entry, Cr
  <2> QED BY <2>2, <2>4 DEF CrSame, Cr
<1>4. CASE ReceiveData(m)
  <2> PICK d : d = [c EXCEPT !.served_to_us = Saturated(c.served_to_us + m.bytes)]
    OBVIOUS
  <2>1. d.credited_by_receipts = c.credited_by_receipts
    BY <1>2 DEF Counters
  <2>2. ledger' = ledger \/ Entry(ledger, ledger', a, b, d)
    BY <1>4, <1>0, <1>1 DEF ReceiveData, RecordResponse, RecordReceived, Entry
  <2>3. ASSUME Entry(ledger, ledger', a, b, d)
        PROVE  /\ n = a /\ p = b => Cr(ledger', n, p) = d.credited_by_receipts
               /\ ~(n = a /\ p = b) => Cr(ledger', n, p) = Cr(ledger, n, p)
    BY <2>3, <1>0, <1>1 DEF Entry, Cr
  <2> QED BY <2>1, <2>2, <2>3 DEF CrSame, Cr
<1> QED BY <1>3, <1>4

(* What each step may do to the accounts, as far as credit goes.           *)
CrOther ==
    \/ \E a \in Nodes : Restart(a)
    \/ \E m \in wire : CreditReceipts(m)

LEMMA CrStep ==
    ASSUME Typed, Steps, NEW n \in Nodes, NEW p \in Nodes
    PROVE  CrSame(n, p) \/ CrOther
<1> USE DEF vars, accounts, session, totals
<1>1. ASSUME NEW m \in wire, ServeChunk(m) \/ ServeSymbols(m) \/ ReceiveData(m) PROVE CrSame(n, p)
  BY <1>1, CrData
<1>3. ASSUME ledger' = ledger PROVE CrSame(n, p)
  BY <1>3 DEF CrSame
<1>4. ASSUME NEW a \in Nodes, NEW b \in Nodes,
             Connect(a, b) \/ Identify(a, b) \/ Disconnect(a, b) \/ Reconnect(a, b)
             \/ Fetch(a, b) \/ FetchSymbols(a, b) \/ SubmitReceipt(a, b)
      PROVE  ledger' = ledger
  BY <1>4 DEF Connect, Identify, Disconnect, Reconnect, Fetch, FetchSymbols, Ask, SubmitReceipt
<1>5. ASSUME NEW a \in Nodes, Abandon(a) \/ SaveTick(a) PROVE ledger' = ledger
  BY <1>5 DEF Abandon, SaveTick
<1>6. ASSUME NEW m \in wire, Lose(m) \/ RefuseChunk(m) \/ CollectReceipt(m) \/ PresentReceipts(m)
      PROVE  ledger' = ledger
  BY <1>6 DEF Lose, RefuseChunk, CollectReceipt, PresentReceipts
<1>7. CASE Tick \/ UNCHANGED vars
  BY <1>7, <1>3 DEF Tick
<1> QED
  BY <1>1, <1>3, <1>4, <1>5, <1>6, <1>7 DEF Steps, Handle, CrOther

LEMMA NextSingle == Typed /\ Typed' /\ Steps /\ Single => Single'
<1> SUFFICES ASSUME Typed, Typed', Steps, Single, NEW n \in Nodes, NEW p \in Nodes PROVE SinglePull(n, p)'
  BY DEF Single
<1> USE DEF vars, accounts, session, totals
<1>0. /\ wire \subseteq Messages /\ pulled \in [Nodes -> SUBSET Nodes]
      /\ ledger \in [Nodes -> [Nodes -> Counters]] /\ ledgerBin \in [Nodes -> [Nodes -> Counters]]
  BY DEF Typed, TypeOK
<1>a. SinglePull(n, p)
  BY DEF Single
<1>1. ASSUME Pulls(wire', n, p) \subseteq Pulls(wire, n, p), pulled' = pulled, CrSame(n, p) PROVE SinglePull(n, p)'
  <2>1. p \in pulled'[n] \/ Pulls(wire', n, p) = {}
    BY <1>1, <1>a DEF SinglePull
  <2> QED BY <2>1, <1>1, <1>a, SingleKept DEF CrSame
<1>2. ASSUME NEW a \in Nodes, NEW b \in Nodes,
             Connect(a, b) \/ Fetch(a, b) \/ FetchSymbols(a, b) \/ SubmitReceipt(a, b)
      PROVE  SinglePull(n, p)'
  <2>1. pulled' = pulled /\ ledger' = ledger
    BY <1>2 DEF Connect, Fetch, FetchSymbols, Ask, SubmitReceipt
  <2>2. \/ wire' = wire
        \/ \E k \in {"chunk?", "symbols?"} : wire' = wire \cup {Request(a, b, k)}
        \/ \E r : wire' = wire \cup {[kind |-> "receipt", from |-> a, to |-> b, receipt |-> r]}
    BY <1>2 DEF Connect, Fetch, FetchSymbols, Ask, SubmitReceipt
  <2>3. Pulls(wire', n, p) \subseteq Pulls(wire, n, p)
    BY <2>2 DEF Pulls, Request
  <2> QED BY <2>1, <2>3, <1>1 DEF CrSame
<1>3. ASSUME NEW a \in Nodes, NEW b \in Nodes, a # b, Identify(a, b) PROVE SinglePull(n, p)'
  <2> PICK q : q = [kind |-> "receipts?", from |-> a, to |-> b]
    OBVIOUS
  <2>1. ledger' = ledger
    BY <1>3 DEF Identify
  <2>2. CASE ~MayPull(a, b)
    <3>1. pulled' = pulled /\ wire' = wire
      BY <2>2, <1>3 DEF Identify
    <3> QED BY <3>1, <2>1, <1>1 DEF CrSame
  <2>3. CASE MayPull(a, b)
    <3>1. pulled' = [pulled EXCEPT ![a] = pulled[a] \cup {b}] /\ wire' = wire \cup {q}
      BY <2>3, <1>3 DEF Identify
    <3>2. CASE n = a /\ p = b
      <4>1. p \notin pulled[n] /\ Cr(ledger, n, p) = 0
        BY <2>3, <3>2 DEF MayPull, NoHistory, Cr
      <4>2. Pulls(wire, n, p) = {}
        BY <4>1, <1>a DEF SinglePull
      <4>3. Pulls(wire', n, p) = {q}
        BY <4>2, <3>1, <3>2 DEF Pulls
      <4>4. p \in pulled'[n] /\ Cr(ledger', n, p) = 0 /\ n # p
        BY <4>1, <3>1, <3>2, <2>1, <1>3, <1>0
      <4> QED BY <4>3, <4>4 DEF SinglePull
    <3>3. CASE ~(n = a /\ p = b)
      <4>1. Pulls(wire', n, p) \subseteq Pulls(wire, n, p)
        BY <3>1, <3>3 DEF Pulls
      <4>2. Pulls(wire', n, p) # {} => p \in pulled[n]
        BY <4>1, <1>a DEF SinglePull
      <4>3. p \in pulled[n] => p \in pulled'[n]
        BY <3>1, <1>0
      <4> QED BY <4>1, <4>2, <4>3, <2>1, <1>a, SingleKept
    <3> QED BY <3>2, <3>3
  <2> QED BY <2>2, <2>3
<1>4. ASSUME NEW a \in Nodes, NEW b \in Nodes, Disconnect(a, b) \/ Reconnect(a, b) PROVE SinglePull(n, p)'
  <2>1. /\ ledger' = ledger /\ wire' = wire \ Between(a, b)
        /\ pulled' = Forgotten(pulled, {a, b}, {a, b}) \/ pulled' = Forgotten(pulled, {a}, {b})
    BY <1>4 DEF Disconnect, Reconnect
  <2>2. Pulls(wire', n, p) \subseteq Pulls(wire, n, p)
    BY <2>1 DEF Pulls
  <2>3. CASE {n, p} = {a, b}
    <3>1. Pulls(wire', n, p) = {}
      BY <2>1, <2>3 DEF Pulls, Between
    <3> QED BY <3>1, <2>2, <1>a, SingleKept
  <2>4. CASE {n, p} # {a, b}
    <3>1. n # p => (p \in pulled[n] => p \in pulled'[n])
      BY <2>1, <2>4 DEF Forgotten
    <3>2. Pulls(wire', n, p) # {} => n # p /\ p \in pulled[n]
      BY <2>2, <1>a DEF SinglePull
    <3> QED BY <3>1, <3>2, <2>1, <2>2, <1>a, SingleKept
  <2> QED BY <2>3, <2>4
<1>5. ASSUME NEW a \in Nodes, Abandon(a) PROVE SinglePull(n, p)'
  <2> PICK S : S = {m \in wire : m.kind \in {"chunk?", "symbols?"} /\ m.from = a}
                     \cup {m \in wire : m.kind \in {"chunk", "symbols"} /\ m.to = a}
    OBVIOUS
  <2>1. wire' = (wire \ S) \cup {Orphaned(m) : m \in S} /\ UNCHANGED <<ledger, pulled>>
    BY <1>5 DEF Abandon
  <2>2. \A m \in S : Orphaned(m).kind = m.kind /\ m.kind \in {"chunk?", "symbols?", "chunk", "symbols"}
    BY <1>0, OrphanedType
  <2>3. Pulls(wire', n, p) \subseteq Pulls(wire, n, p)
    BY <2>1, <2>2 DEF Pulls
  <2> QED BY <2>1, <2>3, <1>1 DEF CrSame
<1>6. ASSUME NEW a \in Nodes, SaveTick(a) PROVE SinglePull(n, p)'
  <2>1. UNCHANGED <<wire, ledger, pulled>>
    BY <1>6 DEF SaveTick
  <2> QED BY <2>1, <1>1 DEF CrSame
<1>7. ASSUME NEW a \in Nodes, Restart(a) PROVE SinglePull(n, p)'
  <2>1. /\ wire' = {m \in wire : a \notin {m.from, m.to}} /\ ledger' = [ledger EXCEPT ![a] = ledgerBin[a]]
        /\ pulled' = [q \in Nodes |-> IF q = a THEN {} ELSE pulled[q] \ {a}]
    BY <1>7 DEF Restart
  <2>2. Pulls(wire', n, p) \subseteq Pulls(wire, n, p)
    BY <2>1 DEF Pulls
  <2>3. CASE n = a \/ p = a
    <3>1. Pulls(wire', n, p) = {}
      BY <2>1, <2>3 DEF Pulls
    <3> QED BY <3>1, <2>2, <1>a, SingleKept
  <2>4. CASE n # a /\ p # a
    <3>1. ledger'[n] = ledger[n] /\ (p \in pulled[n] => p \in pulled'[n])
      BY <2>1, <2>4, <1>0
    <3>2. Pulls(wire', n, p) # {} => p \in pulled[n]
      BY <2>2, <1>a DEF SinglePull
    <3>3. Cr(ledger', n, p) = Cr(ledger, n, p)
      BY <3>1 DEF Cr
    <3> QED BY <3>1, <3>2, <3>3, <2>2, <1>a, SingleKept
  <2> QED BY <2>3, <2>4
<1>8. ASSUME NEW m \in wire,
             Lose(m) \/ RefuseChunk(m) \/ ServeChunk(m) \/ ServeSymbols(m) \/ ReceiveData(m) \/ CollectReceipt(m)
      PROVE  SinglePull(n, p)'
  <2>1. pulled' = pulled
    BY <1>8 DEF Lose, RefuseChunk, ServeChunk, ServeSymbols, HandOut, ReceiveData, CollectReceipt
  <2>2. CrSame(n, p)
    <3>1. CASE ServeChunk(m) \/ ServeSymbols(m) \/ ReceiveData(m)
      BY <3>1, CrData
    <3>2. CASE Lose(m) \/ RefuseChunk(m) \/ CollectReceipt(m)
      BY <3>2 DEF Lose, RefuseChunk, CollectReceipt, CrSame
    <3> QED BY <3>1, <3>2, <1>8
  <2>3. \/ wire' \subseteq wire
        \/ \E k \in {"chunk", "symbols"} : \E bytes : wire' = (wire \ {m}) \cup
               {[kind |-> k, from |-> m.to, to |-> m.from, wanted |-> m.wanted, bytes |-> bytes]}
    BY <1>8 DEF Lose, RefuseChunk, ServeChunk, ServeSymbols, HandOut, Reply, ReceiveData, CollectReceipt, Consume
  <2>4. Pulls(wire', n, p) \subseteq Pulls(wire, n, p)
    BY <2>3 DEF Pulls
  <2> QED BY <2>1, <2>2, <2>4, <1>1
<1>9. ASSUME NEW m \in wire, PresentReceipts(m) PROVE SinglePull(n, p)'
  <2> PICK a : a = [kind |-> "receipts", from |-> m.to, to |-> m.from, list |-> bag[m.to]]
    OBVIOUS
  <2>1. wire' = (wire \ {m}) \cup {a} /\ UNCHANGED <<pulled, ledger>> /\ m.kind = "receipts?"
    BY <1>9 DEF PresentReceipts, Reply
  <2>2. CASE m.from = n /\ m.to = p
    <3>1. m \in Pulls(wire, n, p)
      BY <2>1, <2>2 DEF Pulls
    <3>2. Pulls(wire, n, p) = {m} /\ n # p /\ p \in pulled[n] /\ Cr(ledger, n, p) = 0
      BY <3>1, <1>a DEF SinglePull
    <3>3. Pulls(wire', n, p) = {a}
      BY <3>2, <2>1, <2>2 DEF Pulls
    <3> QED BY <3>2, <3>3, <2>1 DEF SinglePull
  <2>3. CASE ~(m.from = n /\ m.to = p)
    <3>1. Pulls(wire', n, p) \subseteq Pulls(wire, n, p)
      BY <2>1, <2>3 DEF Pulls
    <3> QED BY <3>1, <2>1, <1>1 DEF CrSame
  <2> QED BY <2>2, <2>3
<1>10. ASSUME NEW m \in wire, CreditReceipts(m) PROVE SinglePull(n, p)'
  <2> PICK v : v = Saturated(ledger[m.to][m.from].credited_by_receipts + CreditOf(m.list, m.from))
    OBVIOUS
  <2>1. /\ wire' = wire \ {m} /\ pulled' = pulled /\ m.kind = "receipts"
        /\ ledger' = ledger \/ ledger' = [ledger EXCEPT ![m.to][m.from].credited_by_receipts = v]
    BY <1>10 DEF CreditReceipts, Consume
  <2>2. Pulls(wire', n, p) = Pulls(wire, n, p) \ {m}
    BY <2>1 DEF Pulls
  <2>3. CASE m.to = n /\ m.from = p
    <3>1. m \in Pulls(wire, n, p)
      BY <2>1, <2>3 DEF Pulls
    <3>2. Pulls(wire', n, p) = {}
      BY <3>1, <2>2, <1>a DEF SinglePull
    <3> QED BY <3>2, <1>a, SingleKept
  <2>4. CASE ~(m.to = n /\ m.from = p)
    <3>1. ledger'[n][p] = ledger[n][p]
      BY <2>1, <2>4, <1>0
    <3>2. CrSame(n, p)
      BY <3>1 DEF CrSame, Cr
    <3> QED BY <3>2, <2>1, <2>2, <1>1
  <2> QED BY <2>3, <2>4
<1>11. CASE Tick \/ UNCHANGED vars
  <2>1. UNCHANGED <<wire, pulled, ledger>>
    BY <1>11 DEF Tick
  <2> QED BY <2>1, <1>1 DEF CrSame
<1> QED
  BY <1>2, <1>3, <1>4, <1>5, <1>6, <1>7, <1>8, <1>9, <1>10, <1>11 DEF Steps, Handle

-----------------------------------------------------------------------------
CreditedPair(n, p) == Cr(ledger, n, p) <= Due(issued, p) /\ Cr(ledgerBin, n, p) <= Due(issued, p)
Credited == \A n, p \in Nodes : CreditedPair(n, p)

LEMMA CrType ==
    ASSUME Typed, NEW n \in Nodes, NEW p \in Nodes
    PROVE  Cr(ledger, n, p) \in Nat /\ Cr(ledgerBin, n, p) \in Nat
<1>1. ledger[n][p] \in Counters /\ ledgerBin[n][p] \in Counters
  BY DEF Typed, TypeOK
<1> QED BY <1>1, ConstantsFact DEF Cr, Counters, Amounts

LEMMA DueKept ==
    ASSUME Typed, Typed', Steps, NEW p \in Nodes
    PROVE  Due(issued, p) <= Due(issued', p) /\ Due(issued, p) \in Nat /\ Due(issued', p) \in Nat
<1> USE DEF vars, accounts, session, totals
<1>0. /\ issued \in [Nodes -> [Nodes -> Nat]] /\ issued' \in [Nodes -> [Nodes -> Nat]]
      /\ fetched \in [Nodes -> [Nodes -> Nat]]
  BY DEF Typed, TypeOK
<1>1. Due(issued, p) \in Nat /\ Due(issued', p) \in Nat
  BY <1>0, DueFact
<1>2. CASE issued' = issued
  BY <1>1, <1>2
<1>3. ASSUME NEW a \in Nodes, NEW b \in Nodes, issued' # issued, SubmitReceipt(a, b)
      PROVE  Due(issued, p) <= Due(issued', p)
  <2> PICK v : v = fetched[a][b]
    OBVIOUS
  <2>1. Paid(issued, issued', a, b, v) /\ v \in Nat
    BY <1>3, <1>0 DEF SubmitReceipt, Paid
  <2>2. issued \in [Nodes -> [Nodes -> Nat]] /\ a \in Nodes /\ b \in Nodes /\ p \in Nodes
    BY <1>0
  <2>3. Due(issued', p) >= Due(issued, p)
    BY ONLY <2>1, <2>2, DueGrows
  <2> QED BY <2>3, <1>1
<1>4. issued' = issued \/ \E a, b \in Nodes : SubmitReceipt(a, b)
  <2>1. \A a, b \in Nodes : Connect(a, b) \/ Identify(a, b) \/ Disconnect(a, b) \/ Reconnect(a, b)
                            \/ Fetch(a, b) \/ FetchSymbols(a, b) => issued' = issued
    BY DEF Connect, Identify, Disconnect, Reconnect, Fetch, FetchSymbols, Ask
  <2>2. \A a \in Nodes : Abandon(a) \/ SaveTick(a) \/ Restart(a) => issued' = issued
    BY DEF Abandon, SaveTick, Restart
  <2>3. \A m \in wire : Handle(m) \/ Lose(m) => issued' = issued
    BY DEF Handle, Lose, RefuseChunk, ServeChunk, ServeSymbols, HandOut, ReceiveData, CollectReceipt,
           PresentReceipts, CreditReceipts
  <2>4. Tick \/ UNCHANGED vars => issued' = issued
    BY DEF Tick
  <2> QED BY <2>1, <2>2, <2>3, <2>4 DEF Steps
<1> QED BY <1>1, <1>2, <1>3, <1>4

(* The first and only crediting of a pull is covered by what was issued.   *)
LEMMA CreditOnce ==
    ASSUME Typed, Single, Backed, NEW m \in wire, CreditReceipts(m)
    PROVE  /\ m.to \in Nodes /\ m.from \in Nodes
           /\ \/ ledger' = ledger
              \/ /\ \A n, p \in Nodes : ~(n = m.to /\ p = m.from) => Cr(ledger', n, p) = Cr(ledger, n, p)
                 /\ Cr(ledger', m.to, m.from) <= Due(issued, m.from)
<1>0. wire \subseteq Messages /\ ledger \in [Nodes -> [Nodes -> Counters]] /\ issued \in [Nodes -> [Nodes -> Nat]]
  BY DEF Typed, TypeOK
<1> PICK n : n = m.to
  OBVIOUS
<1> PICK p : p = m.from
  OBVIOUS
<1> PICK l : l = m.list
  OBVIOUS
<1>1. m.kind = "receipts" /\ n \in Nodes /\ p \in Nodes /\ l \in Seq(Receipts)
  BY <1>0, MessageFact DEF CreditReceipts
<1>2. m \in Pulls(wire, n, p)
  BY <1>1 DEF Pulls
<1>3. Cr(ledger, n, p) = 0
  BY <1>1, <1>2 DEF Single, SinglePull
<1>4. PICK C : Covers(C, p)
  BY <1>1 DEF Backed
<1>5. C \subseteq Receipts /\ IsFiniteSet(C) /\ Sum(C, RcptBytes) <= Due(issued, p) /\ ListIn(l, p, C)
  BY <1>1, <1>4 DEF Covers, WireIn, MsgIn
<1>6. CreditOf(l, p) <= Sum(C, RcptBytes)
  BY <1>1, <1>5, CreditCovered
<1>7. CreditOf(l, p) \in Nat /\ Due(issued, p) \in Nat /\ Sum(C, RcptBytes) \in Nat
  <2>1. \A r \in C : RcptBytes[r] \in Nat
    BY <1>5 DEF RcptBytes, Receipts
  <2>2. Sum(C, RcptBytes) \in Nat
    BY <2>1, <1>5, SumNat
  <2> QED BY <2>2, <1>0, <1>1, CreditFact, DueFact
<1> PICK c : c = ledger[n][p]
  OBVIOUS
<1> PICK v : v = Saturated(c.credited_by_receipts + CreditOf(l, p))
  OBVIOUS
<1>8. v <= Due(issued, p)
  <2> PICK x : x = CreditOf(l, p)
    OBVIOUS
  <2>1. c.credited_by_receipts = 0 /\ 0 \in Amounts /\ x \in Nat
    BY <1>3, <1>7, ConstantsFact DEF Cr, Amounts
  <2>2. Saturated(0 + x) \in Amounts /\ Saturated(0 + x) <= 0 + x
    BY ONLY <2>1, SaturatedFact
  <2>3. v = Saturated(0 + x)
    BY <2>1
  <2>4. v \in Nat /\ v <= x
    BY <2>1, <2>2, <2>3, ConstantsFact DEF Amounts
  <2> QED BY <2>1, <2>4, <1>5, <1>6, <1>7
<1> PICK d : d = [c EXCEPT !.credited_by_receipts = v]
  OBVIOUS
<1>9. c \in Counters /\ d.credited_by_receipts = v
  BY <1>0, <1>1 DEF Counters
<1>10. ledger' = ledger \/ Entry(ledger, ledger', n, p, d)
  BY <1>0, <1>1 DEF CreditReceipts, Entry
<1>11. ASSUME Entry(ledger, ledger', n, p, d), NEW a \in Nodes, NEW b \in Nodes
       PROVE  /\ a = n /\ b = p => Cr(ledger', a, b) = v
              /\ ~(a = n /\ b = p) => Cr(ledger', a, b) = Cr(ledger, a, b)
  <2>1. /\ a = n /\ b = p => Cr(ledger', a, b) = d.credited_by_receipts
        /\ ~(a = n /\ b = p) => Cr(ledger', a, b) = Cr(ledger, a, b)
    BY <1>0, <1>1, <1>11 DEF Entry, Cr
  <2> QED BY <2>1, <1>9
<1>12. Entry(ledger, ledger', n, p, d) => Cr(ledger', n, p) <= Due(issued, p)
  BY <1>1, <1>8, <1>11
<1> QED BY <1>1, <1>10, <1>11, <1>12

LEMMA NextCredited == Typed /\ Typed' /\ Steps /\ Single /\ Backed /\ Credited => Credited'
<1> SUFFICES ASSUME Typed, Typed', Steps, Single, Backed, Credited, NEW n \in Nodes, NEW p \in Nodes
             PROVE  CreditedPair(n, p)'
  BY DEF Credited
<1> USE DEF vars, accounts, session, totals
<1>0. ledger \in [Nodes -> [Nodes -> Counters]] /\ ledgerBin \in [Nodes -> [Nodes -> Counters]]
  BY DEF Typed, TypeOK
<1>a. Due(issued, p) <= Due(issued', p) /\ Due(issued, p) \in Nat /\ Due(issued', p) \in Nat
  BY DueKept
<1>b. Cr(ledger, n, p) \in Nat /\ Cr(ledgerBin, n, p) \in Nat
  BY CrType
<1>c. Cr(ledger', n, p) \in Nat /\ Cr(ledgerBin', n, p) \in Nat
  <2>1. ledger'[n][p] \in Counters /\ ledgerBin'[n][p] \in Counters
    BY DEF Typed, TypeOK
  <2> QED BY <2>1, ConstantsFact DEF Cr, Counters, Amounts
<1>d. Cr(ledger, n, p) <= Due(issued, p) /\ Cr(ledgerBin, n, p) <= Due(issued, p)
  BY DEF Credited, CreditedPair
<1>1. Cr(ledger', n, p) <= Due(issued, p)
  <2>1. CASE CrSame(n, p)
    BY <2>1, <1>d DEF CrSame
  <2>2. ASSUME NEW a \in Nodes, Restart(a) PROVE Cr(ledger', n, p) <= Due(issued, p)
    <3>1. ledger' = [ledger EXCEPT ![a] = ledgerBin[a]]
      BY <2>2 DEF Restart
    <3>2. ledger'[n] = ledger[n] \/ ledger'[n] = ledgerBin[n]
      BY <3>1, <1>0
    <3>3. Cr(ledger', n, p) = Cr(ledger, n, p) \/ Cr(ledger', n, p) = Cr(ledgerBin, n, p)
      BY <3>2 DEF Cr
    <3> QED BY <3>3, <1>d
  <2>3. ASSUME NEW m \in wire, CreditReceipts(m) PROVE Cr(ledger', n, p) <= Due(issued, p)
    <3>1. /\ m.to \in Nodes /\ m.from \in Nodes
          /\ \/ ledger' = ledger
             \/ /\ \A x, y \in Nodes : ~(x = m.to /\ y = m.from) => Cr(ledger', x, y) = Cr(ledger, x, y)
                /\ Cr(ledger', m.to, m.from) <= Due(issued, m.from)
      BY <2>3, CreditOnce
    <3>2. CASE n = m.to /\ p = m.from
      BY <3>1, <3>2, <1>d
    <3>3. CASE ~(n = m.to /\ p = m.from)
      BY <3>1, <3>3, <1>d
    <3> QED BY <3>2, <3>3
  <2> QED BY <2>1, <2>2, <2>3, CrStep DEF CrOther
<1>2. Cr(ledgerBin', n, p) \in {Cr(ledgerBin, n, p), Cr(ledger, n, p), Cr(ledger', n, p)}
  <2>1. \/ ledgerBin' = ledgerBin
        \/ \E a \in Nodes : ledgerBin' = [ledgerBin EXCEPT ![a] = ledger[a]]
        \/ \E a \in Nodes : ledgerBin' = [ledgerBin EXCEPT ![a] = ledger'[a]]
    <3>1. ASSUME NEW m \in wire, CreditReceipts(m) PROVE
             m.to \in Nodes /\ (ledgerBin' = ledgerBin \/ ledgerBin' = [ledgerBin EXCEPT ![m.to] = ledger'[m.to]])
      BY <3>1, CreditOnce DEF CreditReceipts
    <3>2. ASSUME NEW a \in Nodes, SaveTick(a) PROVE ledgerBin' = [ledgerBin EXCEPT ![a] = ledger[a]]
      BY <3>2 DEF SaveTick
    <3>3. \/ ledgerBin' = ledgerBin \/ (\E m \in wire : CreditReceipts(m)) \/ (\E a \in Nodes : SaveTick(a))
      <4>1. \A a, b \in Nodes : Connect(a, b) \/ Identify(a, b) \/ Disconnect(a, b) \/ Reconnect(a, b)
                \/ Fetch(a, b) \/ FetchSymbols(a, b) \/ SubmitReceipt(a, b) => ledgerBin' = ledgerBin
        BY DEF Connect, Identify, Disconnect, Reconnect, Fetch, FetchSymbols, Ask, SubmitReceipt
      <4>2. \A a \in Nodes : Abandon(a) \/ Restart(a) => ledgerBin' = ledgerBin
        BY DEF Abandon, Restart
      <4>3. \A m \in wire : Handle(m) \/ Lose(m) => ledgerBin' = ledgerBin \/ CreditReceipts(m)
        BY DEF Handle, Lose, RefuseChunk, ServeChunk, ServeSymbols, HandOut, ReceiveData, CollectReceipt,
               PresentReceipts
      <4>4. Tick \/ UNCHANGED vars => ledgerBin' = ledgerBin
        BY DEF Tick
      <4> QED BY <4>1, <4>2, <4>3, <4>4 DEF Steps
    <3> QED BY <3>1, <3>2, <3>3
  <2>2. ledgerBin'[n] = ledgerBin[n] \/ ledgerBin'[n] = ledger[n] \/ ledgerBin'[n] = ledger'[n]
    BY <2>1, <1>0
  <2> QED BY <2>2 DEF Cr
<1>3. Cr(ledger', n, p) <= Due(issued', p) /\ Cr(ledgerBin', n, p) <= Due(issued', p)
  <2> PICK x : x = Due(issued, p)
    OBVIOUS
  <2> PICK y : y = Due(issued', p)
    OBVIOUS
  <2>1. Cr(ledgerBin', n, p) <= x
    BY <1>1, <1>2, <1>d
  <2> QED BY <2>1, <1>a, <1>c, <1>1
<1> QED BY <1>3 DEF CreditedPair

(* The credit a node gives a peer for receipts is backed by receipts       *)
(* issued to that peer, each counted once: handle_receipts_response        *)
(* credits a pull at most once and its list without repetition, a pull     *)
(* starts only without history, and whoever restarts from an older         *)
(* ledger.bin has lost the credit it could otherwise give again.           *)
THEOREM SpecCreditBacked == Spec => []CreditBacked
<1>1. Init => Backed /\ Single /\ Credited
  <2> SUFFICES ASSUME Init PROVE Backed /\ Single /\ Credited
    OBVIOUS
  <2>0. /\ wire = {} /\ bag = [n \in Nodes |-> <<>>] /\ receiptsBin = bag
        /\ issued \in [Nodes -> [Nodes -> Nat]]
    BY DEF Init
  <2>1. ASSUME NEW p \in Nodes PROVE Covers({}, p)
    <3>1. IsFiniteSet({}) /\ Sum({}, RcptBytes) = 0 /\ Due(issued, p) \in Nat
      BY <2>0, FS_EmptySet, SumEmpty, DueFact
    <3>2. WireIn(wire, p, {}) /\ BagsIn(bag, p, {}) /\ BagsIn(receiptsBin, p, {})
      BY <2>0 DEF WireIn, BagsIn, ListIn
    <3> QED BY <3>1, <3>2 DEF Covers
  <2>2. Single
    BY <2>0 DEF Single, SinglePull, Pulls
  <2>3. ASSUME NEW n \in Nodes, NEW p \in Nodes PROVE CreditedPair(n, p)
    <3>1. Cr(ledger, n, p) = 0 /\ Cr(ledgerBin, n, p) = 0
      BY DEF Init, NoHistory, Cr
    <3>2. Due(issued, p) \in Nat
      BY <2>0, DueFact
    <3> QED BY <3>1, <3>2 DEF CreditedPair
  <2> QED BY <2>1, <2>2, <2>3 DEF Backed, Credited
<1>2. Credited => CreditBacked
  <2> SUFFICES ASSUME Credited, NEW n \in Nodes, NEW p \in Nodes
               PROVE  ledger[n][p].credited_by_receipts <= IssuedTo(p, Nodes)
    BY DEF CreditBacked
  <2>1. IssuedTo(p, Nodes) = Due(issued, p)
    BY DEF IssuedTo, SumOver, Due, Sum
  <2> QED BY <2>1 DEF Credited, CreditedPair, Cr
<1> QED BY <1>1, <1>2, InitTyped, TypedStep, NextBacked, NextSingle, NextCredited, PTL DEF Spec

=============================================================================
