--------------------------- MODULE RewardsProofs ---------------------------
(***************************************************************************)
(* What is proved of Rewards, for any chain, blocks, miners, shares and    *)
(* processors: the verdicts about blocks hold, a reward is booked once and *)
(* to the satoshi, the PPLNS walk leaves no hole, and the types.           *)
(*                                                                         *)
(* The sums of the model are recursive functions on sets.  What is shown   *)
(* of them for every finite set is shown by its smallest counterexample.   *)
(***************************************************************************)
EXTENDS Rewards, TLAPS, FiniteSetTheorems

----------------------------------------------------------------------------
(***************************************************************************)
(* Sums.  SumOn(f, S) is the sum of f[x] for x in S; it is a recursive     *)
(* function on the subsets of S.                                           *)
(***************************************************************************)
SumOn(f, S) == SumFunctionOnSet(f, S)
Some(s) == CHOOSE x \in s : TRUE

\* g is the sum of f over each subset of S.
IsSum(f, S, g) ==
  g = [s \in SUBSET S |-> IF s = {} THEN 0 ELSE f[Some(s)] + g[s \ {Some(s)}]]

\* Induction over the subsets of a finite set: where the statement fails for
\* some, it fails for one whose smaller sets all have it.
LEMMA SmallestSubset ==
  ASSUME NEW S, IsFiniteSet(S), NEW Bad \in SUBSET SUBSET S, Bad # {}
  PROVE  \E T \in Bad : \A U \in SUBSET T : U # T => U \notin Bad
<1>1. IsWellFoundedOn(StrictSubsetOrdering(S), SUBSET S)
  BY FS_StrictSubsetOrderingWellFounded, FS_FiniteSubsetsOfFinite
<1>2. PICK T \in Bad : \A U \in Bad : ~(<<U, T>> \in StrictSubsetOrdering(S))
  BY <1>1, WFMin
<1>3. ASSUME NEW U \in SUBSET T, U # T PROVE U \notin Bad
  <2>1. U \in SUBSET S /\ T \in SUBSET S
    OBVIOUS
  <2>2. <<U, T>> \in StrictSubsetOrdering(S)
    BY <1>3, <2>1 DEF StrictSubsetOrdering
  <2> QED BY <1>2, <2>2
<1> QED BY <1>3

LEMMA SomeMember == \A s : s # {} => Some(s) \in s
BY DEF Some

\* There is one sum at most, for a set and for its subsets.
LEMMA OneSum ==
  ASSUME NEW f, NEW S, IsFiniteSet(S), NEW T \in SUBSET S,
         NEW g, IsSum(f, S, g), NEW h, IsSum(f, T, h)
  PROVE  \A U \in SUBSET T : g[U] = h[U]
<1> DEFINE Bad == {U \in SUBSET T : g[U] # h[U]}
<1>1. SUFFICES ASSUME Bad # {} PROVE FALSE
  OBVIOUS
<1>2. IsFiniteSet(T)
  BY FS_Subset
<1>3. PICK U \in Bad : \A V \in SUBSET U : V # U => V \notin Bad
  <2> Bad \in SUBSET SUBSET T
    OBVIOUS
  <2> HIDE DEF Bad
  <2> QED BY <1>1, <1>2, SmallestSubset
<1>4. U \in SUBSET T /\ U \in SUBSET S
  OBVIOUS
<1>5. CASE U = {}
  <2>1. g[U] = 0 /\ h[U] = 0
    BY <1>4, <1>5 DEF IsSum
  <2> QED BY <2>1
<1>6. CASE U # {}
  <2> DEFINE V == U \ {Some(U)}
  <2>1. V \in SUBSET U /\ V # U
    BY <1>6, SomeMember
  <2>2. g[V] = h[V]
    BY <1>3, <1>4, <2>1
  <2>3. g[U] = f[Some(U)] + g[V] /\ h[U] = f[Some(U)] + h[V]
    BY <1>4, <1>6 DEF IsSum
  <2> QED BY <2>2, <2>3
<1> QED BY <1>5, <1>6

LEMMA SumOnIsSum ==
  ASSUME NEW f, NEW S, NEW g, IsSum(f, S, g)
  PROVE  \E h : IsSum(f, S, h) /\ SumOn(f, S) = h[S]
BY DEF SumOn, SumFunctionOnSet, FoldFunctionOnSet, MapThenFoldSet, IsSum, Some

\* Where there is a sum for each of its subsets, SumOn goes down by one element.
LEMMA SumOnStep ==
  ASSUME NEW f, NEW S, IsFiniteSet(S), \A T \in SUBSET S : \E g : IsSum(f, T, g)
  PROVE  SumOn(f, S) = IF S = {} THEN 0 ELSE f[Some(S)] + SumOn(f, S \ {Some(S)})
<1>1. PICK g : IsSum(f, S, g) /\ SumOn(f, S) = g[S]
  BY SumOnIsSum
<1>2. CASE S = {}
  BY <1>1, <1>2 DEF IsSum
<1>3. CASE S # {}
  <2> DEFINE T == S \ {Some(S)}
  <2>1. T \in SUBSET S
    OBVIOUS
  <2>2. PICK h : IsSum(f, T, h) /\ SumOn(f, T) = h[T]
    BY <2>1, SumOnIsSum
  <2>3. g[T] = h[T]
    BY <1>1, <2>1, <2>2, OneSum
  <2>4. g[S] = f[Some(S)] + g[T]
    BY <1>1, <1>3 DEF IsSum
  <2> QED BY <1>1, <1>3, <2>2, <2>3, <2>4
<1> QED BY <1>2, <1>3

LEMMA SumExists ==
  ASSUME NEW f, NEW S, IsFiniteSet(S) PROVE \A T \in SUBSET S : \E g : IsSum(f, T, g)
<1> DEFINE Bad == {T \in SUBSET S : ~ \E g : IsSum(f, T, g)}
<1>1. SUFFICES ASSUME Bad # {} PROVE FALSE
  OBVIOUS
<1>2. PICK T \in Bad : \A U \in SUBSET T : U # T => U \notin Bad
  <2> Bad \in SUBSET SUBSET S
    OBVIOUS
  <2> HIDE DEF Bad
  <2> QED BY <1>1, SmallestSubset
<1>3. T \in SUBSET S /\ ~ \E g : IsSum(f, T, g)
  OBVIOUS
<1>4. \A U \in SUBSET T : U # T => \E g : IsSum(f, U, g)
  BY <1>2, <1>3
<1> DEFINE g == [s \in SUBSET T |-> IF s = {} THEN 0 ELSE f[Some(s)] + SumOn(f, s \ {Some(s)})]
<1>5. \A U \in SUBSET T : U # T => g[U] = SumOn(f, U)
  <2> TAKE U \in SUBSET T
  <2> HAVE U # T
  <2>1. IsFiniteSet(U)
    BY <1>3, FS_Subset
  <2>2. \A V \in SUBSET U : \E h : IsSum(f, V, h)
    BY <1>4
  <2>3. SumOn(f, U) = IF U = {} THEN 0 ELSE f[Some(U)] + SumOn(f, U \ {Some(U)})
    BY <2>1, <2>2, SumOnStep
  <2> QED BY <2>3
<1>6. \A s \in SUBSET T : s # {} => g[s \ {Some(s)}] = SumOn(f, s \ {Some(s)})
  <2> TAKE s \in SUBSET T
  <2> HAVE s # {}
  <2> DEFINE U == s \ {Some(s)}
  <2>1. U \in SUBSET T /\ U # T
    BY SomeMember
  <2> HIDE DEF g
  <2> QED BY <1>5, <2>1
<1>7. IsSum(f, T, g)
  BY <1>6 DEF IsSum
<1> QED BY <1>3, <1>7

LEMMA SumStep ==
  ASSUME NEW f, NEW S, IsFiniteSet(S)
  PROVE  SumOn(f, S) = IF S = {} THEN 0 ELSE f[Some(S)] + SumOn(f, S \ {Some(S)})
BY SumExists, SumOnStep

\* f is a natural number all over the finite set S.
Amounts(f, S) == IsFiniteSet(S) /\ \A x \in S : f[x] \in Nat

LEMMA AmountsSubset ==
  ASSUME NEW f, NEW S, Amounts(f, S), NEW T \in SUBSET S PROVE Amounts(f, T)
BY FS_Subset DEF Amounts

LEMMA SumEmpty == \A f : SumOn(f, {}) = 0
BY SumStep, FS_EmptySet

LEMMA SumNat ==
  ASSUME NEW f, NEW S, Amounts(f, S) PROVE SumOn(f, S) \in Nat
<1> DEFINE Bad == {T \in SUBSET S : SumOn(f, T) \notin Nat}
<1>1. SUFFICES ASSUME Bad # {} PROVE FALSE
  OBVIOUS
<1>2. PICK T \in Bad : \A U \in SUBSET T : U # T => U \notin Bad
  <2> Bad \in SUBSET SUBSET S
    OBVIOUS
  <2> HIDE DEF Bad
  <2> QED BY <1>1, SmallestSubset DEF Amounts
<1>3. T \in SUBSET S /\ Amounts(f, T)
  BY AmountsSubset
<1>4. T # {}
  BY SumEmpty
<1> DEFINE U == T \ {Some(T)}
<1>5. Some(T) \in T /\ U \in SUBSET T /\ U # T
  BY <1>4, SomeMember
<1>6. SumOn(f, U) \in Nat
  BY <1>2, <1>3, <1>5
<1> QED BY <1>3, <1>4, <1>5, <1>6, SumStep DEF Amounts

\* A sum can be taken apart at any of its members.
LEMMA SumRemove ==
  ASSUME NEW f, NEW S, Amounts(f, S)
  PROVE  \A x \in S : SumOn(f, S) = f[x] + SumOn(f, S \ {x})
<1> DEFINE Bad == {T \in SUBSET S : \E x \in T : SumOn(f, T) # f[x] + SumOn(f, T \ {x})}
<1>1. SUFFICES ASSUME Bad # {} PROVE FALSE
  OBVIOUS
<1>2. PICK T \in Bad : \A U \in SUBSET T : U # T => U \notin Bad
  <2> Bad \in SUBSET SUBSET S
    OBVIOUS
  <2> HIDE DEF Bad
  <2> QED BY <1>1, SmallestSubset DEF Amounts
<1>3. PICK x \in T : SumOn(f, T) # f[x] + SumOn(f, T \ {x})
  OBVIOUS
<1> DEFINE y == Some(T)
           U == T \ {y}
           V == T \ {x}
           W == T \ {x, y}
<1>4. T \in SUBSET S /\ Amounts(f, T) /\ y \in T /\ T # {}
  BY AmountsSubset, SomeMember
<1>5. SumOn(f, T) = f[y] + SumOn(f, U)
  BY <1>4, SumStep DEF Amounts
<1>6. x # y
  BY <1>3, <1>5
<1>7. x \in U /\ y \in V /\ U \in SUBSET T /\ U # T /\ V \in SUBSET T /\ V # T
      /\ U \ {x} = W /\ V \ {y} = W /\ W \in SUBSET T
  BY <1>4, <1>6
<1>8. \A A \in SUBSET T : A # T => \A z \in A : SumOn(f, A) = f[z] + SumOn(f, A \ {z})
  BY <1>2, <1>4
<1>9. SumOn(f, T) # f[x] + SumOn(f, V)
  BY <1>3
<1> HIDE DEF y, U, V, W, Bad
<1>10. SumOn(f, U) = f[x] + SumOn(f, W) /\ SumOn(f, V) = f[y] + SumOn(f, W)
  BY <1>7, <1>8
<1>11. SumOn(f, W) \in Nat /\ f[x] \in Nat /\ f[y] \in Nat
  BY <1>4, <1>7, AmountsSubset, SumNat DEF Amounts
<1> QED BY <1>5, <1>9, <1>10, <1>11

LEMMA SumAdd ==
  ASSUME NEW f, NEW S, NEW x, x \notin S, Amounts(f, S \cup {x})
  PROVE  SumOn(f, S \cup {x}) = f[x] + SumOn(f, S)
<1>1. (S \cup {x}) \ {x} = S
  OBVIOUS
<1> QED BY <1>1, SumRemove

\* Equal where it is summed up, equal in sum.
LEMMA SumEqual ==
  ASSUME NEW f, NEW g, NEW S, Amounts(f, S), \A x \in S : g[x] = f[x]
  PROVE  SumOn(g, S) = SumOn(f, S)
<1> DEFINE Bad == {T \in SUBSET S : SumOn(g, T) # SumOn(f, T)}
<1>1. SUFFICES ASSUME Bad # {} PROVE FALSE
  OBVIOUS
<1>2. PICK T \in Bad : \A U \in SUBSET T : U # T => U \notin Bad
  <2> Bad \in SUBSET SUBSET S
    OBVIOUS
  <2> HIDE DEF Bad
  <2> QED BY <1>1, SmallestSubset DEF Amounts
<1>3. T \in SUBSET S /\ IsFiniteSet(T)
  BY FS_Subset DEF Amounts
<1>4. T # {}
  BY SumEmpty
<1> DEFINE U == T \ {Some(T)}
<1>5. Some(T) \in T /\ U \in SUBSET T /\ U # T
  BY <1>4, SomeMember
<1>6. SumOn(g, U) = SumOn(f, U)
  BY <1>2, <1>3, <1>5
<1> QED BY <1>3, <1>4, <1>5, <1>6, SumStep

LEMMA SumUnion ==
  ASSUME NEW f, NEW S, NEW T, S \cap T = {}, Amounts(f, S \cup T)
  PROVE  SumOn(f, S \cup T) = SumOn(f, S) + SumOn(f, T)
<1> DEFINE Bad == {A \in SUBSET T : SumOn(f, S \cup A) # SumOn(f, S) + SumOn(f, A)}
<1>0. Amounts(f, S) /\ Amounts(f, T)
  BY AmountsSubset
<1>1. SUFFICES ASSUME Bad # {} PROVE FALSE
  OBVIOUS
<1>2. PICK A \in Bad : \A B \in SUBSET A : B # A => B \notin Bad
  <2> Bad \in SUBSET SUBSET T
    OBVIOUS
  <2> HIDE DEF Bad
  <2> QED BY <1>0, <1>1, SmallestSubset DEF Amounts
<1>3. A \in SUBSET T /\ Amounts(f, A) /\ Amounts(f, S \cup A)
  BY <1>0, AmountsSubset
<1>4. CASE A = {}
  <2>1. S \cup A = S
    BY <1>4
  <2> QED BY <1>0, <1>4, <2>1, SumEmpty, SumNat
<1>5. CASE A # {}
  <2> DEFINE x == Some(A)
             B == A \ {x}
  <2>1. x \in A /\ B \in SUBSET A /\ B # A
    BY <1>5, SomeMember
  <2>2. SumOn(f, S \cup B) = SumOn(f, S) + SumOn(f, B)
    BY <1>2, <1>3, <2>1
  <2>3. SumOn(f, A) = f[x] + SumOn(f, B)
    BY <1>3, <2>1, SumRemove
  <2>4. (S \cup A) \ {x} = S \cup B
    BY <1>3, <2>1
  <2>5. SumOn(f, S \cup A) = f[x] + SumOn(f, S \cup B)
    BY <1>3, <2>1, <2>4, SumRemove
  <2>6. f[x] \in Nat /\ SumOn(f, S) \in Nat /\ SumOn(f, B) \in Nat
    BY <1>0, <1>3, <2>1, AmountsSubset, SumNat DEF Amounts
  <2>7. SumOn(f, S \cup A) # SumOn(f, S) + SumOn(f, A)
    OBVIOUS
  <2> HIDE DEF x, B, Bad
  <2> QED BY <2>2, <2>3, <2>5, <2>6, <2>7
<1> QED BY <1>4, <1>5

\* h is the sum of f and g, and k times f, all over S.
IsPlus(f, g, h, S) == \A x \in S : h[x] = f[x] + g[x]
IsTimes(k, f, h, S) == \A x \in S : h[x] = k * f[x]

LEMMA SumPlus ==
  ASSUME NEW f, NEW g, NEW h, NEW S, Amounts(f, S), Amounts(g, S), IsPlus(f, g, h, S)
  PROVE  SumOn(h, S) = SumOn(f, S) + SumOn(g, S)
<1> DEFINE Bad == {T \in SUBSET S : SumOn(h, T) # SumOn(f, T) + SumOn(g, T)}
<1>1. SUFFICES ASSUME Bad # {} PROVE FALSE
  OBVIOUS
<1>2. PICK T \in Bad : \A U \in SUBSET T : U # T => U \notin Bad
  <2> Bad \in SUBSET SUBSET S
    OBVIOUS
  <2> HIDE DEF Bad
  <2> QED BY <1>1, SmallestSubset DEF Amounts
<1>3. T \in SUBSET S /\ Amounts(f, T) /\ Amounts(g, T)
  BY AmountsSubset
<1>4. T # {}
  BY SumEmpty
<1> DEFINE x == Some(T)
           U == T \ {x}
<1>5. x \in T /\ U \in SUBSET T /\ U # T
  BY <1>4, SomeMember
<1>6. SumOn(h, U) = SumOn(f, U) + SumOn(g, U)
  BY <1>2, <1>3, <1>5
<1>7. SumOn(h, T) = h[x] + SumOn(h, U) /\ SumOn(f, T) = f[x] + SumOn(f, U)
      /\ SumOn(g, T) = g[x] + SumOn(g, U)
  BY <1>3, <1>4, SumStep DEF Amounts
<1>8. f[x] \in Nat /\ g[x] \in Nat /\ h[x] = f[x] + g[x]
      /\ SumOn(f, U) \in Nat /\ SumOn(g, U) \in Nat
  BY <1>3, <1>5, AmountsSubset, SumNat DEF Amounts, IsPlus
<1>9. SumOn(h, T) # SumOn(f, T) + SumOn(g, T)
  OBVIOUS
<1> HIDE DEF x, U, Bad
<1> QED BY <1>6, <1>7, <1>8, <1>9

LEMMA SumTimes ==
  ASSUME NEW f, NEW h, NEW S, NEW k \in Nat, Amounts(f, S), IsTimes(k, f, h, S)
  PROVE  SumOn(h, S) = k * SumOn(f, S)
<1> DEFINE Bad == {T \in SUBSET S : SumOn(h, T) # k * SumOn(f, T)}
<1>1. SUFFICES ASSUME Bad # {} PROVE FALSE
  OBVIOUS
<1>2. PICK T \in Bad : \A U \in SUBSET T : U # T => U \notin Bad
  <2> Bad \in SUBSET SUBSET S
    OBVIOUS
  <2> HIDE DEF Bad
  <2> QED BY <1>1, SmallestSubset DEF Amounts
<1>3. T \in SUBSET S /\ Amounts(f, T)
  BY AmountsSubset
<1>4. T # {}
  BY SumEmpty
<1> DEFINE x == Some(T)
           U == T \ {x}
<1>5. x \in T /\ U \in SUBSET T /\ U # T
  BY <1>4, SomeMember
<1>6. SumOn(h, U) = k * SumOn(f, U)
  BY <1>2, <1>3, <1>5
<1>7. SumOn(h, T) = h[x] + SumOn(h, U) /\ SumOn(f, T) = f[x] + SumOn(f, U)
  BY <1>3, <1>4, SumStep DEF Amounts
<1>8. f[x] \in Nat /\ h[x] = k * f[x] /\ SumOn(f, U) \in Nat
  BY <1>3, <1>5, AmountsSubset, SumNat DEF Amounts, IsTimes
<1>9. SumOn(h, T) # k * SumOn(f, T)
  OBVIOUS
<1> HIDE DEF x, U, Bad
<1>10. \A a, b \in Nat : k * (a + b) = k * a + k * b
  OBVIOUS
<1> QED BY <1>6, <1>7, <1>8, <1>9, <1>10

\* Less everywhere, less in sum; and no member exceeds the sum.
LEMMA SumLess ==
  ASSUME NEW f, NEW g, NEW S, Amounts(f, S), Amounts(g, S), \A x \in S : f[x] <= g[x]
  PROVE  SumOn(f, S) <= SumOn(g, S)
<1> DEFINE d == [x \in S |-> g[x] - f[x]]
<1>1. Amounts(d, S) /\ IsPlus(f, d, g, S)
  BY DEF Amounts, IsPlus
<1> HIDE DEF d
<1>2. SumOn(g, S) = SumOn(f, S) + SumOn(d, S)
  BY <1>1, SumPlus
<1> QED BY <1>1, <1>2, SumNat

LEMMA SumBounds ==
  ASSUME NEW f, NEW S, Amounts(f, S), NEW x \in S PROVE f[x] <= SumOn(f, S)
<1>1. SumOn(f, S) = f[x] + SumOn(f, S \ {x})
  BY SumRemove
<1>2. SumOn(f, S \ {x}) \in Nat /\ f[x] \in Nat
  BY AmountsSubset, SumNat DEF Amounts
<1> QED BY <1>1, <1>2

\* A sum of zeros and ones counts the ones.
LEMMA SumCounts ==
  ASSUME NEW f, NEW S, IsFiniteSet(S), \A x \in S : f[x] \in {0, 1}
  PROVE  SumOn(f, S) = Cardinality({x \in S : f[x] = 1})
<1> DEFINE Ones(T) == {x \in T : f[x] = 1}
           Bad == {T \in SUBSET S : SumOn(f, T) # Cardinality(Ones(T))}
<1>1. SUFFICES ASSUME Bad # {} PROVE FALSE
  OBVIOUS
<1>2. PICK T \in Bad : \A U \in SUBSET T : U # T => U \notin Bad
  <2> Bad \in SUBSET SUBSET S
    OBVIOUS
  <2> HIDE DEF Bad
  <2> QED BY <1>1, SmallestSubset
<1>3. T \in SUBSET S /\ IsFiniteSet(T)
  BY FS_Subset
<1>4. T # {}
  <2>1. SUFFICES ASSUME T = {} PROVE FALSE
    OBVIOUS
  <2>2. Ones(T) = {}
    BY <2>1
  <2> QED BY <2>1, <2>2, SumEmpty, FS_EmptySet
<1> DEFINE x == Some(T)
           U == T \ {x}
<1>5. x \in T /\ U \in SUBSET T /\ U # T /\ x \notin U
  BY <1>4, SomeMember
<1>6. SumOn(f, U) = Cardinality(Ones(U))
  BY <1>2, <1>3, <1>5
<1>7. SumOn(f, T) = f[x] + SumOn(f, U)
  BY <1>3, <1>4, SumStep
<1>8. Ones(U) \in SUBSET S /\ IsFiniteSet(Ones(U)) /\ Cardinality(Ones(U)) \in Nat
  <2>1. Ones(U) \in SUBSET S
    BY <1>3
  <2> HIDE DEF Ones
  <2> QED BY <2>1, FS_Subset, FS_CardinalityType
<1>9. f[x] \in {0, 1}
  BY <1>3, <1>5
<1>10. CASE f[x] = 0
  <2>1. Ones(T) = Ones(U)
    BY <1>5, <1>10
  <2>2. SumOn(f, T) = Cardinality(Ones(T))
    <3> HIDE DEF Ones, U, x
    <3> QED BY <1>6, <1>7, <1>8, <1>10, <2>1
  <2> QED BY <2>2
<1>11. CASE f[x] = 1
  <2>1. Ones(T) = Ones(U) \cup {x} /\ x \notin Ones(U)
    BY <1>5, <1>11
  <2>2. SumOn(f, T) = Cardinality(Ones(T))
    <3> HIDE DEF Ones, U, x
    <3>1. Cardinality(Ones(T)) = Cardinality(Ones(U)) + 1
      BY <1>8, <2>1, FS_AddElement
    <3> QED BY <1>6, <1>7, <1>8, <1>11, <3>1
  <2> QED BY <2>2
<1> QED BY <1>9, <1>10, <1>11

----------------------------------------------------------------------------
(***************************************************************************)
(* How a reward is split.                                                  *)
(***************************************************************************)
LEMMA TotalIsSum == \A f : Total(f) = SumOn(f, DOMAIN f)
BY DEF Total, SumFunction, SumOn

LEMMA TimesMonotone == \A a, b, k \in Nat : a <= b => k * a <= k * b
<1> TAKE a \in Nat, b \in Nat, k \in Nat
<1> HAVE a <= b
<1>1. b - a \in Nat /\ k * (b - a) \in Nat
  OBVIOUS
<1>2. k * b = k * a + k * (b - a)
  OBVIOUS
<1> QED BY <1>1, <1>2

LEMMA TimesCancels == \A a, b, k \in Nat : k # 0 /\ k * a <= k * b => a <= b
<1> TAKE a \in Nat, b \in Nat, k \in Nat
<1> HAVE k # 0 /\ k * a <= k * b
<1> SUFFICES ASSUME b + 1 <= a PROVE FALSE
  OBVIOUS
<1>1. k * (b + 1) <= k * a
  BY TimesMonotone
<1>2. k * (b + 1) = k * b + k
  OBVIOUS
<1>3. k * a \in Nat /\ k * b \in Nat
  OBVIOUS
<1> QED BY <1>1, <1>2, <1>3

LEMMA Division ==
  \A x, k \in Nat : k # 0 => /\ x \div k \in Nat
                             /\ k * (x \div k) <= x
                             /\ x < k * (x \div k) + k
OBVIOUS

\* The pool's fee is a part of the reward.
LEMMA FeeBounded ==
  ASSUME NEW reward \in Nat, NEW percent \in Nat PROVE Fee(reward, percent) \in 0..reward
<1>1. CASE percent >= 100
  BY <1>1 DEF Fee
<1>2. CASE percent < 100
  <2> DEFINE x == reward * percent
             q == x \div 100
  <2>1. x \in Nat /\ x <= reward * 100
    BY <1>2, TimesMonotone
  <2>2. q \in Nat /\ 100 * q <= x
    BY <2>1, Division
  <2>3. 100 * q <= 100 * reward
    BY <2>1, <2>2
  <2>4. Fee(reward, percent) = q
    BY <1>2 DEF Fee
  <2> HIDE DEF q
  <2> QED BY <2>2, <2>3, <2>4
<1> QED BY <1>1, <1>2

\* The order of distribute is total: the ranks of n miners are 0 to n - 1.
Before(work, m) ==
  {o \in DOMAIN work : \/ work[o] > work[m]
                       \/ work[o] = work[m] /\ o < m}

LEMMA RankIs == \A work, m : Rank(work, m) = Cardinality(Before(work, m))
BY DEF Rank, Before

LEMMA RankOrders ==
  ASSUME NEW M \in SUBSET Nat, IsFiniteSet(M), NEW work \in [M -> Nat], NEW m \in M, NEW o \in M,
         m \in Before(work, o)
  PROVE  Rank(work, m) < Rank(work, o)
<1>0. \A x \in M : x \in Nat /\ work[x] \in Nat
  OBVIOUS
<1>1. /\ \A x \in Before(work, m) : x \in Before(work, o)
      /\ Before(work, o) \in SUBSET M
  BY <1>0 DEF Before
<1>2. m \notin Before(work, m)
  BY DEF Before
<1>3. IsFiniteSet(Before(work, o))
  BY <1>1, FS_Subset
<1>4. /\ IsFiniteSet(Before(work, m))
      /\ Cardinality(Before(work, m)) <= Cardinality(Before(work, o))
      /\ Cardinality(Before(work, m)) # Cardinality(Before(work, o))
  BY <1>1, <1>2, <1>3, FS_Subset
<1>5. Cardinality(Before(work, m)) \in Nat /\ Cardinality(Before(work, o)) \in Nat
  BY <1>3, <1>4, FS_CardinalityType
<1> QED BY <1>4, <1>5, RankIs

LEMMA RankRange ==
  ASSUME NEW M \in SUBSET Nat, IsFiniteSet(M), NEW work \in [M -> Nat], NEW m \in M
  PROVE  Rank(work, m) \in 0..(Cardinality(M) - 1)
<1>1. Before(work, m) \in SUBSET M /\ m \notin Before(work, m)
  BY DEF Before
<1>2. /\ IsFiniteSet(Before(work, m))
      /\ Cardinality(Before(work, m)) <= Cardinality(M)
      /\ Cardinality(Before(work, m)) # Cardinality(M)
  BY <1>1, FS_Subset
<1>3. Cardinality(Before(work, m)) \in Nat /\ Cardinality(M) \in Nat
  BY <1>2, FS_CardinalityType
<1> QED BY <1>2, <1>3, RankIs

LEMMA RankBijective ==
  ASSUME NEW M \in SUBSET Nat, IsFiniteSet(M), NEW work \in [M -> Nat]
  PROVE  LET r == [m \in M |-> Rank(work, m)]
         IN  r \in Bijection(M, 0..(Cardinality(M) - 1))
<1> DEFINE r == [m \in M |-> Rank(work, m)]
           n == Cardinality(M)
           R == 0..(n - 1)
<1>1. n \in Nat
  BY FS_CardinalityType
<1>2. IsFiniteSet(R) /\ Cardinality(R) = n
  BY <1>1, FS_Interval
<1>3. r \in [M -> R]
  BY RankRange
<1>4. ASSUME NEW m \in M, NEW o \in M, r[m] = r[o] PROVE m = o
  <2>1. m \in Before(work, o) \/ o \in Before(work, m) \/ m = o
    BY DEF Before
  <2>2. m \in Before(work, o) => r[m] < r[o]
    BY RankOrders
  <2>3. o \in Before(work, m) => r[o] < r[m]
    BY RankOrders
  <2>4. r[m] \in Int /\ r[o] \in Int
    BY <1>1, <1>3
  <2> HIDE DEF r
  <2> QED BY <1>4, <2>1, <2>2, <2>3, <2>4
<1>5. r \in Injection(M, R)
  BY <1>3, <1>4 DEF Injection, IsInjective
<1> HIDE DEF r, R
<1>6. r \in Surjection(M, R)
  BY <1>2, <1>5, FS_Injection
<1>7. r \in Bijection(M, R)
  BY <1>5, <1>6 DEF Bijection
<1> QED BY <1>7 DEF r, R

\* As many miners as there are satoshis left over get one.
LEMMA FirstInRank ==
  ASSUME NEW M \in SUBSET Nat, IsFiniteSet(M), NEW work \in [M -> Nat],
         NEW k \in 0..Cardinality(M)
  PROVE  Cardinality({m \in M : Rank(work, m) < k}) = k
<1> DEFINE L == {m \in M : Rank(work, m) < k}
           r == [m \in M |-> Rank(work, m)]
           b == [m \in L |-> Rank(work, m)]
           K == 0..(k - 1)
<1>1. Cardinality(M) \in Nat /\ k \in Nat
  BY FS_CardinalityType
<1>2. r \in Bijection(M, 0..(Cardinality(M) - 1))
  BY RankBijective
<1>3. \A m, o \in M : r[m] = r[o] => m = o
  BY <1>2 DEF Bijection, Injection, IsInjective
<1>4. \A i \in 0..(Cardinality(M) - 1) : \E m \in M : r[m] = i
  BY <1>2 DEF Bijection, Surjection
<1>5. b \in [L -> K]
  <2>1. \A m \in M : Rank(work, m) \in 0..(Cardinality(M) - 1)
    BY RankRange
  <2>2. \A m \in L : Rank(work, m) \in K
    BY <1>1, <2>1
  <2> QED BY <2>2
<1>6. b \in Injection(L, K)
  BY <1>3, <1>5 DEF Injection, IsInjective
<1>7. \A i \in K : \E m \in L : b[m] = i
  BY <1>1, <1>4
<1>8. b \in Surjection(L, K)
  BY <1>5, <1>7 DEF Surjection
<1>9. ExistsBijection(L, K)
  BY <1>6, <1>8 DEF ExistsBijection, Bijection
<1>10. IsFiniteSet(L)
  BY FS_Subset
<1>11. Cardinality(K) = k
  BY <1>1, FS_Interval
<1> HIDE DEF L, K
<1>12. Cardinality(L) = Cardinality(K)
  BY <1>9, <1>10, FS_Bijection
<1> QED BY <1>11, <1>12 DEF L

\* The floors fall short of the amount by less than a satoshi for each miner.
LEMMA FloorsShort ==
  ASSUME NEW M \in SUBSET Nat, IsFiniteSet(M), NEW work \in [M -> Nat], NEW amount \in Nat,
         Total(work) # 0
  PROVE  /\ Total(work) \in Nat
         /\ Floors(amount, work) \in [M -> Nat]
         /\ Total(Floors(amount, work)) \in Nat
         /\ amount - Total(Floors(amount, work)) \in 0..Cardinality(M)
<1> DEFINE W == Total(work)
           floors == Floors(amount, work)
           share == [m \in M |-> amount * work[m]]
           full == [m \in M |-> W * floors[m]]
           rest == [m \in M |-> share[m] - full[m]]
           one == [m \in M |-> 1]
           most == [m \in M |-> W * one[m]]
           n == Cardinality(M)
<1>1. Amounts(work, M) /\ W = SumOn(work, M) /\ Amounts(one, M)
  BY TotalIsSum DEF Amounts
<1>2. W \in Nat \ {0} /\ n \in Nat
  BY <1>1, SumNat, FS_CardinalityType
<1> HIDE DEF W
<1>3. share \in [M -> Nat] /\ IsTimes(amount, work, share, M)
  BY DEF IsTimes
<1>4. floors = [m \in M |-> share[m] \div W]
  BY DEF Floors, W
<1> HIDE DEF floors, share
<1>5. \A m \in M : /\ floors[m] \in Nat
                   /\ full[m] <= share[m] /\ share[m] < full[m] + W
  BY <1>2, <1>3, <1>4, Division
<1>6. floors \in [M -> Nat]
  BY <1>4, <1>5
<1>7. \A m \in M : full[m] \in Nat /\ most[m] = W
  BY <1>2, <1>5
<1>8. \A m \in M : /\ share[m] \in Nat /\ rest[m] \in Nat /\ rest[m] <= most[m]
                   /\ share[m] = full[m] + rest[m] /\ most[m] \in Nat
  <2> TAKE m \in M
  <2>1. share[m] \in Nat /\ full[m] \in Nat /\ most[m] = W /\ rest[m] = share[m] - full[m]
    BY <1>3, <1>7
  <2> HIDE DEF full, rest, most
  <2> QED BY <1>2, <1>5, <2>1
<1>9. Amounts(share, M) /\ Amounts(floors, M) /\ Amounts(full, M) /\ Amounts(rest, M)
      /\ Amounts(most, M)
  BY <1>5, <1>7, <1>8 DEF Amounts
<1>10. IsTimes(W, floors, full, M) /\ IsTimes(W, one, most, M) /\ \A m \in M : one[m] \in {0, 1}
  BY DEF IsTimes
<1>11. {m \in M : one[m] = 1} = M
  OBVIOUS
<1> HIDE DEF full, most, one, rest
<1>12. /\ SumOn(share, M) = amount * W
       /\ SumOn(full, M) = W * SumOn(floors, M)
       /\ SumOn(most, M) = W * n
  <2>1. SumOn(share, M) = amount * W
    BY <1>1, <1>3, SumTimes
  <2>2. SumOn(full, M) = W * SumOn(floors, M)
    BY <1>2, <1>9, <1>10, SumTimes
  <2>3. SumOn(one, M) = n
    BY <1>10, <1>11, SumCounts
  <2>4. SumOn(most, M) = W * n
    BY <1>1, <1>2, <1>10, <2>3, SumTimes
  <2> QED BY <2>1, <2>2, <2>4
<1>13. SumOn(share, M) = SumOn(full, M) + SumOn(rest, M)
  <2>1. IsPlus(full, rest, share, M)
    BY <1>8 DEF IsPlus
  <2> QED BY <1>9, <2>1, SumPlus
<1>14. SumOn(rest, M) <= SumOn(most, M)
  BY <1>8, <1>9, SumLess
<1>15. SumOn(rest, M) \in Nat /\ SumOn(floors, M) \in Nat
  BY <1>9, SumNat
<1> DEFINE F == SumOn(floors, M)
           R == SumOn(rest, M)
<1>16. W * amount = W * F + R /\ R <= W * n /\ R \in Nat /\ F \in Nat
  BY <1>2, <1>12, <1>13, <1>14, <1>15
<1> HIDE DEF F, R, n
<1>17. W * F <= W * amount
  BY <1>2, <1>16
<1>18. W * amount <= W * (F + n)
  <2>1. W * (F + n) = W * F + W * n
    BY <1>2, <1>16
  <2>2. W * F \in Nat /\ W * n \in Nat
    BY <1>2, <1>16
  <2> QED BY <1>16, <2>1, <2>2
<1>19. F <= amount /\ amount <= F + n
  BY <1>2, <1>16, <1>17, <1>18, TimesCancels
<1>20. Total(floors) = F
  BY <1>6, TotalIsSum DEF F
<1>21. amount - F \in 0..n
  BY <1>2, <1>16, <1>19
<1> QED BY <1>2, <1>6, <1>16, <1>20, <1>21 DEF W, floors, n

\* "The returned credits sum EXACTLY to amountSats".
LEMMA DistributeExact ==
  ASSUME NEW M \in SUBSET Nat, IsFiniteSet(M), NEW work \in [M -> Nat], NEW amount \in Nat,
         Total(work) # 0
  PROVE  /\ Distribute(amount, work) \in [M -> Nat]
         /\ Total(Distribute(amount, work)) = amount
<1> DEFINE floors == Floors(amount, work)
           k == amount - Total(floors)
           extra == [m \in M |-> IF Rank(work, m) < k THEN 1 ELSE 0]
           d == Distribute(amount, work)
<1>1. floors \in [M -> Nat] /\ Total(floors) \in Nat /\ k \in 0..Cardinality(M)
  BY FloorsShort
<1>2. d = [m \in M |-> IF Rank(work, m) < k THEN floors[m] + 1 ELSE floors[m]]
  BY DEF Distribute
<1> HIDE DEF floors, k, d
<1>3. \A m \in M : extra[m] \in {0, 1} /\ d[m] = floors[m] + extra[m]
  BY <1>1, <1>2
<1>4. d \in [M -> Nat]
  BY <1>1, <1>2
<1>5. Amounts(floors, M) /\ Amounts(extra, M)
  BY <1>1, <1>3 DEF Amounts
<1>6. {m \in M : extra[m] = 1} = {m \in M : Rank(work, m) < k}
  OBVIOUS
<1> HIDE DEF extra
<1>7. SumOn(d, M) = SumOn(floors, M) + SumOn(extra, M) /\ SumOn(extra, M) = k
  <2>1. SumOn(d, M) = SumOn(floors, M) + SumOn(extra, M)
    <3>1. IsPlus(floors, extra, d, M)
      BY <1>3 DEF IsPlus
    <3> QED BY <1>5, <3>1, SumPlus
  <2>2. SumOn(extra, M) = Cardinality({m \in M : Rank(work, m) < k})
    BY <1>3, <1>6, SumCounts
  <2> QED BY <1>1, <2>1, <2>2, FirstInRank
<1>8. Total(d) = SumOn(d, M) /\ Total(floors) = SumOn(floors, M)
  BY <1>1, <1>4, TotalIsSum
<1>9. Total(d) = amount
  BY <1>1, <1>7, <1>8 DEF k
<1> QED BY <1>4, <1>9 DEF d

LEMMA SoloExact ==
  ASSUME NEW M \in SUBSET Nat, IsFiniteSet(M), NEW finder \in M, NEW amount \in Nat
  PROVE  Solo(amount, M, finder) \in [M -> Nat] /\ Total(Solo(amount, M, finder)) = amount
<1> DEFINE s == Solo(amount, M, finder)
           who == [m \in M |-> IF m = finder THEN 1 ELSE 0]
<1>1. s \in [M -> Nat] /\ IsTimes(amount, who, s, M) /\ \A m \in M : who[m] \in {0, 1}
  BY DEF Solo, IsTimes
<1>2. {m \in M : who[m] = 1} = {finder}
  OBVIOUS
<1> HIDE DEF who, s
<1>3. SumOn(who, M) = 1
  <2>1. SumOn(who, M) = Cardinality({m \in M : who[m] = 1})
    BY <1>1, SumCounts
  <2> QED BY <1>2, <2>1, FS_Singleton
<1>4. Amounts(who, M)
  BY <1>1 DEF Amounts
<1>5. SumOn(s, M) = amount * 1
  BY <1>1, <1>3, <1>4, SumTimes
<1>6. Total(s) = amount
  BY <1>1, <1>5, TotalIsSum
<1> QED BY <1>1, <1>6 DEF s

\* For any number of miners, works, amount and payment mode, what Calculate
\* returns sums exactly to the amount, although every miner's part is floored
\* (distribute, rewards.go:68, and the three Calculate): the remainder is less
\* than a satoshi for each miner, and the ranks give it to as many.
THEOREM CreditsExact ==
  ASSUME NEW mode, NEW M \in SUBSET Nat, IsFiniteSet(M), NEW work \in [M -> Nat],
         NEW finder \in M, NEW amount \in Nat
  PROVE  /\ Credits(mode, amount, work, finder) \in [M -> Nat]
         /\ Total(Credits(mode, amount, work, finder)) = amount
<1>1. CASE mode = "solo" \/ Total(work) = 0
  <2>1. Credits(mode, amount, work, finder) = Solo(amount, M, finder)
    BY <1>1 DEF Credits
  <2> QED BY <2>1, SoloExact
<1>2. CASE ~(mode = "solo" \/ Total(work) = 0)
  <2>1. Credits(mode, amount, work, finder) = Distribute(amount, work) /\ Total(work) # 0
    BY <1>2 DEF Credits
  <2> QED BY <2>1, DistributeExact
<1> QED BY <1>1, <1>2

----------------------------------------------------------------------------
(***************************************************************************)
(* The verdicts.                                                           *)
(***************************************************************************)
\* So deep in the chain, or so far behind its tip, that no reorganisation
\* changes it.
Mature(b) == OnChain(b) /\ Len(chain) - Height(b) + 1 >= MaturityDepth
Gone(b) == ~OnChain(b) /\ Len(chain) - Height(b) >= OrphanDepth

Confirming == {"tip", "hash", "update"}
Rewarding == {"window", "page", "credit"}

Typed ==
  /\ scheme \in Schemes
  /\ chain \in Seq(Blocks \cup {Other})
  /\ status \in [Blocks -> {"absent", "pending", "confirmed", "orphaned"}]
  /\ rewarded \in [Blocks -> BOOLEAN]
  /\ DOMAIN proc = Processors

\* What a processor goes by: a tip that the chain has reached, a verdict that
\* holds, blocks that are mature.
Sound(r) ==
  /\ r.at \in Confirming => r.b \in Blocks /\ r.todo \subseteq Blocks
  /\ r.at = "hash" => r.tip \in Height(r.b)..Len(chain)
  /\ r.at = "update" =>
       /\ r.verdict \in {"pending", "confirmed", "orphaned"}
       /\ r.verdict = "confirmed" => Mature(r.b)
       /\ r.verdict = "orphaned" => Gone(r.b)
  /\ r.at \in Rewarding => /\ {r.b} \cup r.todo \subseteq Blocks
                           /\ \A b \in {r.b} \cup r.todo : Mature(b)

Settled(b) ==
  /\ rewarded[b] \/ status[b] = "confirmed" => Mature(b)
  /\ status[b] = "orphaned" => Gone(b)

VerdictInv ==
  /\ Typed
  /\ \A b \in Blocks : Settled(b)
  /\ \A p \in Processors : Sound(proc[p])

----------------------------------------------------------------------------
LEMMA Heights == \A b \in Blocks : Height(b) \in Nat \ {0}
<1> TAKE b \in Blocks
<1>1. BlockInfo[b].height \in 1..MaxHeight
  BY RewardsAssumption
<1> QED BY <1>1 DEF Height

\* The chain keeps what is deeper than MaxReorg.
LEMMA ChainStep ==
  ASSUME Typed, Grow
  PROVE  /\ Typed'
         /\ Len(chain') = Len(chain) + 1
         /\ \A b \in Blocks : (Mature(b) => Mature(b)') /\ (Gone(b) => Gone(b)')
<1>1. PICK k \in 0..MaxReorg : Extend(k)
  BY DEF Grow
<1>2. PICK top \in [1..(k + 1) -> Blocks \cup {Other}] :
        chain' = SubSeq(chain, 1, Len(chain) - k) \o top
  BY <1>1 DEF Extend
<1> DEFINE kept == SubSeq(chain, 1, Len(chain) - k)
<1>3. k \in Nat /\ k <= MaxReorg /\ k <= Len(chain) /\ Len(chain) \in Nat /\ Len(chain) - k \in Nat
  BY <1>1, RewardsAssumption DEF Extend, Typed
<1>4. kept \in Seq(Blocks \cup {Other}) /\ Len(kept) = Len(chain) - k
  BY <1>3 DEF Typed
<1>5. \A h \in 1..(Len(chain) - k) : kept[h] = chain[h]
  BY <1>3 DEF Typed
<1>6. top \in Seq(Blocks \cup {Other}) /\ Len(top) = k + 1
  BY <1>2, <1>3
<1>7. chain' \in Seq(Blocks \cup {Other}) /\ Len(chain') = Len(chain) + 1
  BY <1>2, <1>3, <1>4, <1>6
<1>8. \A h \in 1..(Len(chain) - k) : chain'[h] = chain[h]
  BY <1>2, <1>3, <1>4, <1>5, <1>6
<1>9. Typed'
  BY <1>1, <1>7 DEF Typed, Extend, blockVars
<1>10. ASSUME NEW b \in Blocks PROVE (Mature(b) => Mature(b)') /\ (Gone(b) => Gone(b)')
  <2>1. Height(b) \in Nat \ {0}
    BY Heights
  <2>2. MaxReorg \in Nat /\ MaturityDepth \in Nat /\ OrphanDepth \in Nat
        /\ MaxReorg < MaturityDepth /\ MaxReorg <= OrphanDepth
    BY RewardsAssumption
  <2>3. Mature(b) \/ Gone(b) => Height(b) \in 1..(Len(chain) - k)
    BY <1>3, <2>1, <2>2 DEF Mature, Gone, OnChain
  <2>4. Height(b)' = Height(b)
    BY DEF Height
  <2>5. Height(b) \in 1..(Len(chain) - k) => (OnChain(b)' <=> OnChain(b))
    BY <1>3, <1>7, <1>8, <2>1, <2>4 DEF OnChain
  <2>6. Mature(b) => Mature(b)'
    BY <1>3, <1>7, <2>1, <2>2, <2>3, <2>4, <2>5 DEF Mature
  <2>7. Gone(b) => Gone(b)'
    BY <1>3, <1>7, <2>1, <2>2, <2>3, <2>4, <2>5 DEF Gone
  <2> QED BY <2>6, <2>7
<1> QED BY <1>7, <1>9, <1>10

LEMMA GrowStep == VerdictInv /\ Grow => VerdictInv'
<1> SUFFICES ASSUME VerdictInv, Grow PROVE VerdictInv'
  OBVIOUS
<1>1. /\ Typed'
      /\ Len(chain') = Len(chain) + 1
      /\ \A b \in Blocks : (Mature(b) => Mature(b)') /\ (Gone(b) => Gone(b)')
  BY ChainStep DEF VerdictInv
<1>2. UNCHANGED <<status, rewarded, proc>>
  BY DEF Grow, Extend, blockVars
<1>3. \A b \in Blocks : Settled(b)'
  BY <1>1, <1>2 DEF VerdictInv, Settled
<1>4. ASSUME NEW p \in Processors PROVE Sound(proc[p])'
  <2>1. Sound(proc[p]) /\ Len(chain) \in Nat
    BY DEF VerdictInv, Typed
  <2>2. proc[p].at = "hash" => Height(proc[p].b) \in Nat
    BY <2>1, Heights DEF Sound, Confirming
  <2> QED BY <1>1, <1>2, <2>1, <2>2 DEF Sound, Confirming, Rewarding
<1> QED BY <1>1, <1>3, <1>4 DEF VerdictInv

----------------------------------------------------------------------------
\* A step of processor p that leaves the chain alone keeps the invariant if
\* the tables stay settled and p's next place is sound.
LEMMA PassInvStep ==
  ASSUME VerdictInv, NEW p \in Processors, NEW r, Become(p, r), chainVars' = chainVars,
         status' \in [Blocks -> {"absent", "pending", "confirmed", "orphaned"}],
         rewarded' \in [Blocks -> BOOLEAN],
         \A b \in Blocks : Settled(b)',
         Sound(r)
  PROVE  VerdictInv'
<1>1. chain' = chain /\ scheme' = scheme
  BY DEF chainVars
<1>2. \A b : (Mature(b)' <=> Mature(b)) /\ (Gone(b)' <=> Gone(b))
  BY <1>1 DEF Mature, Gone, OnChain
<1>3. DOMAIN proc' = Processors /\ \A q \in Processors : proc'[q] = IF q = p THEN r ELSE proc[q]
  BY DEF Become, VerdictInv, Typed
<1>4. ASSUME NEW q \in Processors PROVE Sound(proc[q])'
  <2>1. Sound(proc'[q])
    BY <1>3 DEF VerdictInv
  <2> QED BY <1>1, <1>2, <2>1 DEF Sound
<1> QED BY <1>1, <1>3, <1>4 DEF VerdictInv, Typed

LEMMA SettledStays ==
  ASSUME VerdictInv, chain' = chain, status' = status, rewarded' = rewarded
  PROVE  \A b \in Blocks : Settled(b)'
BY DEF VerdictInv, Settled, Mature, Gone, OnChain

\* The next place of the confirmation pass.
LEMMA AtTipSound ==
  ASSUME NEW todo \in SUBSET Blocks, NEW r \in AtTip(todo) PROVE Sound(r)
BY DEF AtTip, First, Sound, Confirming, Rewarding

\* The next place of the reward pass.
LEMMA AtWindowSound ==
  ASSUME Typed, NEW todo \in SUBSET Blocks, \A b \in todo : Mature(b), NEW r \in AtWindow(todo)
  PROVE  Sound(r)
<1>1. CASE todo = {}
  BY <1>1 DEF AtWindow, Idle, Sound, Confirming, Rewarding
<1>2. CASE todo # {}
  <2>1. PICK b \in todo : r = Calculating(b, todo \ {b})
    BY <1>2 DEF AtWindow, First
  <2>2. r.at \in Rewarding /\ r.b = b /\ r.todo = todo \ {b}
    BY <2>1 DEF Calculating, Rewarding
  <2> QED BY <2>2 DEF Sound, Confirming, Rewarding
<1> QED BY <1>1, <1>2

LEMMA PassStepInv ==
  ASSUME VerdictInv, NEW p \in Processors, PassStep(p) PROVE VerdictInv'
<1> DEFINE me == proc[p]
<1>0. Sound(me) /\ Typed /\ \A b \in Blocks : Settled(b)
  BY DEF VerdictInv
<1> USE <1>0
<1>1. CASE UnconfirmedBlocks(p)
  <2>1. PICK r \in AtTip({b \in Blocks : status[b] = "pending"}) : Become(p, r)
    BY <1>1 DEF UnconfirmedBlocks, OneOf
  <2>2. Sound(r)
    BY AtTipSound
  <2> QED BY <1>1, <2>1, <2>2, PassInvStep, SettledStays
          DEF UnconfirmedBlocks, Reads, blockVars, chainVars, Typed
<1>2. CASE TipHeight(p)
  <2>1. me.at = "tip" /\ me.b \in Blocks /\ me.todo \in SUBSET Blocks
    BY <1>2 DEF TipHeight, Sound, Confirming
  <2> DEFINE seen == [at |-> "hash", b |-> me.b, todo |-> me.todo, tip |-> Len(chain)]
  <2>2. PICK r : /\ Become(p, r)
                 /\ r \in AtTip(me.todo) \/ (r = seen /\ ~(Len(chain) < Height(me.b)))
    BY <1>2 DEF TipHeight, OneOf
  <2>3. Sound(r)
    <3>1. CASE r \in AtTip(me.todo)
      BY <2>1, <3>1, AtTipSound
    <3>2. CASE r = seen /\ ~(Len(chain) < Height(me.b))
      <4>1. Len(chain) \in Height(me.b)..Len(chain)
        BY <2>1, <3>2, Heights DEF Typed
      <4> QED BY <2>1, <3>2, <4>1 DEF Sound, Confirming, Rewarding
    <3> QED BY <2>2, <3>1, <3>2
  <2> QED BY <1>2, <2>2, <2>3, PassInvStep, SettledStays
          DEF TipHeight, Reads, blockVars, chainVars, Typed
<1>3. CASE BlockHashAt(p)
  <2>1. me.at = "hash" /\ me.b \in Blocks /\ me.todo \in SUBSET Blocks
        /\ me.tip \in Height(me.b)..Len(chain)
    BY <1>3 DEF BlockHashAt, Sound, Confirming
  <2> DEFINE verdict == Verdict(me.b, me.tip)
             known == [at |-> "update", b |-> me.b, todo |-> me.todo, verdict |-> verdict]
  <2>2. PICK r : Become(p, r) /\ (r \in AtTip(me.todo) \/ (r = known /\ verdict # "unknown"))
    BY <1>3 DEF BlockHashAt, OneOf
  <2>3. Sound(r)
    <3>1. CASE r \in AtTip(me.todo)
      BY <2>1, <3>1, AtTipSound
    <3>2. CASE r = known /\ verdict # "unknown"
      <4>1. verdict \in {"pending", "confirmed", "orphaned"}
        BY <3>2 DEF Verdict
      <4>2. Height(me.b) \in Nat /\ me.tip \in Nat /\ Len(chain) \in Nat /\ me.tip <= Len(chain)
            /\ MaturityDepth \in Nat /\ OrphanDepth \in Nat
        BY <2>1, Heights, RewardsAssumption DEF Typed
      <4>3. verdict = "confirmed" => Mature(me.b)
        BY <4>2 DEF Verdict, Mature
      <4>4. verdict = "orphaned" => Gone(me.b)
        BY <4>2 DEF Verdict, Gone
      <4> HIDE DEF verdict
      <4> QED BY <2>1, <3>2, <4>1, <4>3, <4>4 DEF Sound, Confirming, Rewarding
    <3> QED BY <2>2, <3>1, <3>2
  <2> QED BY <1>3, <2>2, <2>3, PassInvStep, SettledStays
          DEF BlockHashAt, Reads, blockVars, chainVars, Typed
<1>4. CASE UpdateBlockConfirmation(p)
  <2>1. me.at = "update" /\ me.b \in Blocks /\ me.todo \in SUBSET Blocks
        /\ me.verdict \in {"pending", "confirmed", "orphaned"}
        /\ (me.verdict = "confirmed" => Mature(me.b)) /\ (me.verdict = "orphaned" => Gone(me.b))
    BY <1>4 DEF UpdateBlockConfirmation, Sound, Confirming
  <2>2. PICK r \in AtTip(me.todo) : Become(p, r)
    BY <1>4 DEF UpdateBlockConfirmation, OneOf
  <2>3. Sound(r)
    BY <2>1, AtTipSound
  <2>4. chain' = chain /\ rewarded' = rewarded /\ status' = [status EXCEPT ![me.b] = me.verdict]
    BY <1>4 DEF UpdateBlockConfirmation, chainVars
  <2>5. \A b \in Blocks : Settled(b)'
    BY <2>1, <2>4 DEF Settled, Mature, Gone, OnChain, Typed
  <2> QED BY <1>4, <2>1, <2>2, <2>3, <2>4, <2>5, PassInvStep
          DEF UpdateBlockConfirmation, Typed
<1>5. CASE ConfirmedUnrewarded(p)
  <2> DEFINE todo == {b \in Blocks : status[b] = "confirmed" /\ ~rewarded[b]}
  <2>1. PICK r \in AtWindow(todo) : Become(p, r)
    BY <1>5 DEF ConfirmedUnrewarded, OneOf
  <2>2. \A b \in todo : Mature(b)
    BY DEF Settled
  <2>3. Sound(r)
    BY <2>2, AtWindowSound
  <2> QED BY <1>5, <2>1, <2>3, PassInvStep, SettledStays
          DEF ConfirmedUnrewarded, Reads, blockVars, chainVars, Typed
<1>6. CASE WorkBetween(p)
  <2>1. PICK r : Become(p, r) /\ r.at = "credit" /\ r.b = me.b /\ r.todo = me.todo
    BY <1>6 DEF WorkBetween
  <2>2. Sound(r)
    BY <1>6, <2>1 DEF WorkBetween, Sound, Confirming, Rewarding
  <2> QED BY <1>6, <2>1, <2>2, PassInvStep, SettledStays
          DEF WorkBetween, Reads, blockVars, chainVars, Typed
<1>7. CASE WorkBackward(p)
  <2>1. PICK r : Become(p, r) /\ r.at \in Rewarding /\ r.b = me.b /\ r.todo = me.todo
    BY <1>7 DEF WorkBackward, Rewarding
  <2>2. Sound(r)
    BY <1>7, <2>1 DEF WorkBackward, Sound, Confirming, Rewarding
  <2> QED BY <1>7, <2>1, <2>2, PassInvStep, SettledStays
          DEF WorkBackward, Reads, blockVars, chainVars, Typed
<1>8. CASE CreditBlockRewards(p)
  <2>1. me.at = "credit" /\ {me.b} \cup me.todo \subseteq Blocks
        /\ \A b \in {me.b} \cup me.todo : Mature(b)
    BY <1>8 DEF CreditBlockRewards, Sound, Rewarding
  <2>2. PICK r \in AtWindow(me.todo) : Become(p, r)
    BY <1>8 DEF CreditBlockRewards, OneOf
  <2>3. Sound(r)
    BY <2>1, AtWindowSound
  <2>4. chain' = chain /\ status' = status
        /\ (rewarded' = rewarded \/ rewarded' = [rewarded EXCEPT ![me.b] = TRUE])
    BY <1>8 DEF CreditBlockRewards, Credit, Write, chainVars
  <2>5. rewarded' \in [Blocks -> BOOLEAN] /\ \A b \in Blocks : Settled(b)'
    BY <2>1, <2>4 DEF Settled, Mature, Gone, OnChain, Typed
  <2> QED BY <1>8, <2>2, <2>3, <2>4, <2>5, PassInvStep DEF CreditBlockRewards, Typed
<1> QED BY <1>1, <1>2, <1>3, <1>4, <1>5, <1>6, <1>7, <1>8 DEF PassStep

\* A pass that ends leaves its processor idle.
LEMMA FailureInv ==
  ASSUME VerdictInv, NEW p \in Processors, PassFails(p) \/ CreditReplyLost(p)
  PROVE  VerdictInv'
<1>1. Become(p, Idle) /\ chainVars' = chainVars /\ chain' = chain /\ status' = status
  BY DEF PassFails, CreditReplyLost, Credit, chainVars, blockVars
<1>2. Sound(Idle)
  BY DEF Sound, Idle, Confirming, Rewarding
<1>3. \/ rewarded' = rewarded
      \/ Mature(proc[p].b) /\ rewarded' = [rewarded EXCEPT ![proc[p].b] = TRUE]
  BY DEF PassFails, CreditReplyLost, Credit, Write, blockVars, VerdictInv, Sound, Rewarding
<1>4. rewarded' \in [Blocks -> BOOLEAN] /\ \A b \in Blocks : Settled(b)'
  BY <1>1, <1>3 DEF VerdictInv, Settled, Mature, Gone, OnChain, Typed
<1> QED BY <1>1, <1>2, <1>4, PassInvStep DEF VerdictInv, Typed

LEMMA InvStep == VerdictInv /\ [Next]_vars => VerdictInv'
<1> SUFFICES ASSUME VerdictInv, [Next]_vars PROVE VerdictInv'
  OBVIOUS
<1>1. CASE Grow
  BY <1>1, GrowStep
<1>2. ASSUME NEW b \in Blocks, InsertBlock(b) PROVE VerdictInv'
  BY <1>2 DEF InsertBlock, chainVars, VerdictInv, Typed, Settled, Sound, Mature, Gone, OnChain
<1>3. ASSUME NEW s \in DOMAIN ShareTable, InsertShare(s) PROVE VerdictInv'
  BY <1>3 DEF InsertShare, chainVars, blockVars, VerdictInv, Typed, Settled, Sound, Mature, Gone,
              OnChain
<1>4. ASSUME NEW p \in Processors, PassStep(p) PROVE VerdictInv'
  BY <1>4, PassStepInv
<1>5. ASSUME NEW p \in Processors, PassFails(p) \/ CreditReplyLost(p) PROVE VerdictInv'
  BY <1>5, FailureInv
<1>6. CASE UNCHANGED vars
  BY <1>6 DEF vars, chainVars, blockVars, VerdictInv, Typed, Settled, Sound, Mature, Gone, OnChain
<1> QED BY <1>1, <1>2, <1>3, <1>4, <1>5, <1>6 DEF Next

\* For any chain, blocks, shares and processors: no block is confirmed or
\* rewarded that is not on the chain, and none is orphaned that is, although
\* tip, hash and status are read and written in steps of their own
\* (CheckBlock, confirm.go:50, and UpdateBlockConfirmation).
THEOREM VerdictsCorrect == Spec => []VerdictsHold
<1>1. Init => VerdictInv
  BY DEF Init, VerdictInv, Typed, Settled, Sound, Idle, Confirming, Rewarding
<1>2. VerdictInv => VerdictsHold
  BY DEF VerdictInv, Settled, VerdictsHold, Mature, Gone
<1> QED BY <1>1, <1>2, InvStep, PTL DEF Spec

----------------------------------------------------------------------------
(***************************************************************************)
(* The books: what is booked for a block is its reward.                    *)
(***************************************************************************)
\* What a processor carries to the credit, or collects on its way there.
Carries(r) ==
  /\ r.at = "credit" => r.work \in [Miners -> Nat]
  /\ r.at = "page" => r.counted \subseteq DOMAIN ShareTable

Balanced(b) ==
  IF rewarded[b]
  THEN /\ Total(paid[b]) = Distributable(BlockInfo[b].reward, FeePercent)
       /\ fees[b] = Fee(BlockInfo[b].reward, FeePercent)
  ELSE (\A m \in Miners : paid[b][m] = 0) /\ fees[b] = 0

BookInv ==
  /\ stored \subseteq DOMAIN ShareTable
  /\ paid \in [Blocks -> [Miners -> Nat]]
  /\ fees \in [Blocks -> Nat]
  /\ \A b \in Blocks : Balanced(b)
  /\ \A p \in Processors : Carries(proc[p])

LEMMA BlockFacts ==
  ASSUME NEW b \in Blocks
  PROVE  /\ BlockInfo[b].reward \in Nat /\ BlockInfo[b].finder \in Miners
         /\ BlockInfo[b].target \in Nat /\ BlockInfo[b].created \in Nat
<1>1. BlockInfo[b] \in [height : 1..MaxHeight, finder : Miners, reward : Nat \ {0},
                        target : Nat \ {0}, created : Nat]
  BY RewardsAssumption
<1> QED BY <1>1

LEMMA ShareFacts ==
  ASSUME NEW s \in DOMAIN ShareTable
  PROVE  /\ ShareTable[s].miner \in Miners /\ ShareTable[s].diff \in Nat /\ Created(s) \in Nat
         /\ Difficulty[s] \in Nat
<1>1. ShareTable[s] \in [miner : Miners, diff : Nat \ {0}, created : Nat]
  BY RewardsAssumption
<1> QED BY <1>1 DEF Difficulty, Created

LEMMA DifficultyAmounts ==
  ASSUME NEW S \in SUBSET DOMAIN ShareTable PROVE Amounts(Difficulty, S)
<1>1. IsFiniteSet(S)
  BY RewardsAssumption, FS_Subset
<1>2. \A s \in S : Difficulty[s] \in Nat
  BY ShareFacts
<1> QED BY <1>1, <1>2 DEF Amounts

LEMMA WorkType ==
  ASSUME NEW S \in SUBSET DOMAIN ShareTable PROVE Work(S) \in [Miners -> Nat]
<1>1. ASSUME NEW m \in Miners PROVE SumFunctionOnSet(Difficulty, Of(m, S)) \in Nat
  <2>1. Of(m, S) \in SUBSET DOMAIN ShareTable
    BY DEF Of
  <2> QED BY <2>1, DifficultyAmounts, SumNat DEF SumOn
<1> QED BY <1>1 DEF Work

\* The works of disjoint sets of shares add up.
LEMMA WorkAdds ==
  ASSUME NEW S \in SUBSET DOMAIN ShareTable, NEW T \in SUBSET DOMAIN ShareTable, S \cap T = {}
  PROVE  /\ Total(Work(S \cup T)) = Total(Work(S)) + Total(Work(T))
         /\ Total(Work(S)) \in Nat /\ Total(Work(T)) \in Nat
<1> DEFINE f == Work(S)
           g == Work(T)
           h == Work(S \cup T)
<1>1. f \in [Miners -> Nat] /\ g \in [Miners -> Nat] /\ h \in [Miners -> Nat]
  BY WorkType
<1>2. ASSUME NEW m \in Miners PROVE h[m] = f[m] + g[m]
  <2>1. Of(m, S) \in SUBSET DOMAIN ShareTable /\ Of(m, T) \in SUBSET DOMAIN ShareTable
        /\ Of(m, S) \cap Of(m, T) = {} /\ Of(m, S \cup T) = Of(m, S) \cup Of(m, T)
    BY DEF Of
  <2>2. Amounts(Difficulty, Of(m, S) \cup Of(m, T))
    BY <2>1, DifficultyAmounts
  <2>3. SumOn(Difficulty, Of(m, S \cup T))
          = SumOn(Difficulty, Of(m, S)) + SumOn(Difficulty, Of(m, T))
    BY <2>1, <2>2, SumUnion
  <2> QED BY <2>3 DEF Work, SumOn
<1> HIDE DEF f, g, h
<1>3. IsPlus(f, g, h, Miners) /\ Amounts(f, Miners) /\ Amounts(g, Miners)
  BY <1>1, <1>2, RewardsAssumption DEF IsPlus, Amounts
<1>4. SumOn(h, Miners) = SumOn(f, Miners) + SumOn(g, Miners)
      /\ SumOn(f, Miners) \in Nat /\ SumOn(g, Miners) \in Nat
  BY <1>3, SumPlus, SumNat
<1>5. Total(h) = SumOn(h, Miners) /\ Total(f) = SumOn(f, Miners) /\ Total(g) = SumOn(g, Miners)
  BY <1>1, TotalIsSum
<1> QED BY <1>4, <1>5 DEF f, g, h

LEMMA ZeroTotal ==
  ASSUME NEW f \in [Miners -> Nat], \A m \in Miners : f[m] = 0 PROVE Total(f) = 0
<1>1. Amounts(f, Miners)
  BY RewardsAssumption DEF Amounts
<1>2. IsTimes(0, f, f, Miners)
  BY DEF IsTimes
<1>3. SumOn(f, Miners) = 0 * SumOn(f, Miners) /\ SumOn(f, Miners) \in Nat
  BY <1>1, <1>2, SumTimes, SumNat
<1> QED BY <1>3, TotalIsSum

\* What a block's books show once they are balanced.
LEMMA BalancedBooks ==
  ASSUME NEW b \in Blocks, paid[b] \in [Miners -> Nat], fees[b] \in Nat, Balanced(b)
  PROVE  /\ Total(paid[b]) + fees[b] = IF rewarded[b] THEN BlockInfo[b].reward ELSE 0
         /\ paid[b] \in [Miners -> 0..BlockInfo[b].reward]
         /\ fees[b] \in 0..BlockInfo[b].reward
<1> DEFINE reward == BlockInfo[b].reward
           part == paid[b]
<1>1. reward \in Nat /\ FeePercent \in Nat /\ IsFiniteSet(Miners)
  BY BlockFacts, RewardsAssumption
<1>2. Fee(reward, FeePercent) \in 0..reward
  BY <1>1, FeeBounded
<1>3. Total(part) \in Nat /\ \A m \in Miners : part[m] <= Total(part)
  <2>1. Amounts(part, Miners) /\ Total(part) = SumOn(part, Miners)
    BY <1>1, TotalIsSum DEF Amounts
  <2> QED BY <2>1, SumNat, SumBounds
<1>4. Total(part) + fees[b] = IF rewarded[b] THEN reward ELSE 0
  <2>1. CASE rewarded[b]
    BY <1>1, <1>2, <2>1 DEF Balanced, Distributable
  <2>2. CASE ~rewarded[b]
    BY <2>2, ZeroTotal DEF Balanced
  <2> QED BY <2>1, <2>2
<1>5. Total(part) <= reward /\ fees[b] <= reward
  BY <1>1, <1>3, <1>4
<1>6. \A m \in Miners : part[m] \in 0..reward
  BY <1>1, <1>3, <1>5
<1> QED BY <1>1, <1>4, <1>5, <1>6

----------------------------------------------------------------------------
LEMMA WriteStep ==
  ASSUME BookInv, Typed, NEW b \in Blocks, NEW work \in [Miners -> Nat], Credit(b, work)
  PROVE  /\ paid' \in [Blocks -> [Miners -> Nat]] /\ fees' \in [Blocks -> Nat]
         /\ \A c \in Blocks : Balanced(c)'
<1>1. CASE rewarded[b]
  BY <1>1 DEF Credit, BookInv, Balanced
<1>2. CASE ~rewarded[b]
  <2> DEFINE reward == BlockInfo[b].reward
             amount == Distributable(reward, FeePercent)
             booked == Booked(b, work)
             fee == Fee(reward, FeePercent)
  <2>1. reward \in Nat /\ BlockInfo[b].finder \in Miners /\ FeePercent \in Nat
        /\ Miners \in SUBSET Nat /\ IsFiniteSet(Miners)
    BY BlockFacts, RewardsAssumption
  <2>2. fee \in Nat /\ amount \in Nat
    <3>1. amount = reward - fee
      BY DEF Distributable
    <3> HIDE DEF reward
    <3>2. fee \in 0..reward
      BY <2>1, FeeBounded
    <3> HIDE DEF fee, amount
    <3> QED BY <2>1, <3>1, <3>2
  <2>3. booked \in [Miners -> Nat] /\ Total(booked) = amount
    <3>1. booked = Credits(scheme, amount, work, BlockInfo[b].finder)
      BY DEF Booked
    <3> HIDE DEF amount, booked
    <3> QED BY <2>1, <2>2, <3>1, CreditsExact
  <2> HIDE DEF booked, fee, amount
  <2>4. /\ rewarded' = [rewarded EXCEPT ![b] = TRUE]
        /\ paid' = [paid EXCEPT ![b] = [m \in Miners |-> paid[b][m] + booked[m]]]
        /\ fees' = [fees EXCEPT ![b] = fees[b] + fee]
    BY <1>2 DEF Credit, Write, booked, fee
  <2>5. paid[b] \in [Miners -> Nat] /\ fees[b] = 0 /\ \A m \in Miners : paid[b][m] = 0
    BY <1>2 DEF BookInv, Balanced
  <2>6. [m \in Miners |-> paid[b][m] + booked[m]] = booked
    BY <2>3, <2>5
  <2>7. paid' = [paid EXCEPT ![b] = booked] /\ fees' = [fees EXCEPT ![b] = fee]
    <3>1. fees[b] + fee = fee
      BY <2>2, <2>5
    <3> QED BY <2>4, <2>6, <3>1, Zenon
  <2>8. paid' \in [Blocks -> [Miners -> Nat]] /\ fees' \in [Blocks -> Nat]
    BY <2>2, <2>3, <2>7 DEF BookInv
  <2>9. \A c \in Blocks : Balanced(c)'
    <3> TAKE c \in Blocks
    <3>1. CASE c = b
      <4>1. rewarded'[c] /\ paid'[c] = booked /\ fees'[c] = fee
        BY <2>4, <2>7, <3>1 DEF BookInv, Typed
      <4> QED BY <2>3, <3>1, <4>1 DEF Balanced, fee, amount
    <3>2. CASE c # b
      <4>1. rewarded'[c] = rewarded[c] /\ paid'[c] = paid[c] /\ fees'[c] = fees[c]
        BY <2>4, <2>7, <3>2 DEF BookInv, Typed
      <4> QED BY <4>1 DEF Balanced, BookInv
    <3> QED BY <3>1, <3>2
  <2> QED BY <2>8, <2>9
<1> QED BY <1>1, <1>2

\* The two outcomes of a page of PPLNS's walk, of which C is counted.
WalkEnds(r, C) ==
  [at |-> "credit", b |-> r.b, todo |-> r.todo, work |-> Work(r.counted \cup C),
   counted |-> r.counted \cup C, cursors |-> r.cursors, known |-> r.known]
WalkGoesOn(r, C, P) ==
  [at |-> "page", b |-> r.b, todo |-> r.todo, counted |-> r.counted \cup C,
   cursors |-> r.cursors \cup {Min({Created(s) : s \in P})}, known |-> r.known]

LEMMA WalkStep ==
  ASSUME NEW p, WorkBackward(p)
  PROVE  LET r == proc[p]
             target == BlockInfo[r.b].target
         IN  \E P \in Page(Older(r.cursors, BlockInfo[r.b].created)) :
             \E C \in Counted(P, Total(Work(r.counted)), target) :
               \/ Become(p, WalkEnds(r, C))
               \/ /\ ~(Cardinality(P) < PageSize) /\ ~(Total(Work(r.counted \cup C)) >= target)
                  /\ Become(p, WalkGoesOn(r, C, P))
BY DEF WorkBackward, WalkEnds, WalkGoesOn

\* A processor's own step, the books left alone or balanced.
LEMMA CarriesStep ==
  ASSUME BookInv, Typed, NEW p \in Processors, NEW r, Become(p, r), Carries(r)
  PROVE  \A q \in Processors : Carries(proc[q])'
<1>1. \A q \in Processors : proc'[q] = IF q = p THEN r ELSE proc[q]
  BY DEF Become, Typed
<1> QED BY <1>1 DEF BookInv, Carries

LEMMA AtTipCarries ==
  ASSUME NEW todo, NEW r \in AtTip(todo) PROVE Carries(r)
BY DEF AtTip, Carries

LEMMA AtWindowCarries ==
  ASSUME NEW todo, NEW r \in AtWindow(todo) PROVE Carries(r)
BY DEF AtWindow, Calculating, Idle, NoWork, Carries

LEMMA ReadsBalance ==
  ASSUME BookInv, stored' = stored, blockVars' = blockVars
  PROVE  /\ stored' \subseteq DOMAIN ShareTable
         /\ paid' \in [Blocks -> [Miners -> Nat]] /\ fees' \in [Blocks -> Nat]
         /\ \A c \in Blocks : Balanced(c)'
BY DEF BookInv, Balanced, blockVars

LEMMA PassBookStep ==
  ASSUME VerdictInv, BookInv, NEW p \in Processors, PassStep(p) PROVE BookInv'
<1> DEFINE me == proc[p]
<1>0. Typed /\ Sound(me) /\ Carries(me)
  BY DEF VerdictInv, BookInv
<1>1. CASE UnconfirmedBlocks(p)
  <2>1. PICK r \in AtTip({b \in Blocks : status[b] = "pending"}) : Become(p, r)
    BY <1>1 DEF UnconfirmedBlocks, OneOf
  <2> QED BY <1>0, <1>1, <2>1, AtTipCarries, CarriesStep, ReadsBalance
          DEF UnconfirmedBlocks, Reads, BookInv
<1>2. CASE TipHeight(p)
  <2>1. PICK r : Become(p, r) /\ (r \in AtTip(me.todo) \/ r.at = "hash")
    BY <1>2 DEF TipHeight, OneOf
  <2>2. Carries(r)
    BY <2>1, AtTipCarries DEF Carries
  <2> QED BY <1>0, <1>2, <2>1, <2>2, CarriesStep, ReadsBalance DEF TipHeight, Reads, BookInv
<1>3. CASE BlockHashAt(p)
  <2>1. PICK r : Become(p, r) /\ (r \in AtTip(me.todo) \/ r.at = "update")
    BY <1>3 DEF BlockHashAt, OneOf
  <2>2. Carries(r)
    BY <2>1, AtTipCarries DEF Carries
  <2> QED BY <1>0, <1>3, <2>1, <2>2, CarriesStep, ReadsBalance DEF BlockHashAt, Reads, BookInv
<1>4. CASE UpdateBlockConfirmation(p)
  <2>1. PICK r \in AtTip(me.todo) : Become(p, r)
    BY <1>4 DEF UpdateBlockConfirmation, OneOf
  <2>2. \A q \in Processors : Carries(proc[q])'
    BY <1>0, <2>1, AtTipCarries, CarriesStep
  <2> QED BY <1>4, <2>2 DEF UpdateBlockConfirmation, BookInv, Balanced
<1>5. CASE ConfirmedUnrewarded(p)
  <2>1. PICK r \in AtWindow({b \in Blocks : status[b] = "confirmed" /\ ~rewarded[b]}) :
          Become(p, r)
    BY <1>5 DEF ConfirmedUnrewarded, OneOf
  <2> QED BY <1>0, <1>5, <2>1, AtWindowCarries, CarriesStep, ReadsBalance
          DEF ConfirmedUnrewarded, Reads, BookInv
<1>6. CASE WorkBetween(p)
  <2> DEFINE to == BlockInfo[me.b].created
             earlier == {BlockInfo[b].created : b \in {c \in Blocks :
                            status[c] # "absent" /\ BlockInfo[c].created < to}}
             from == Max(earlier \cup {0})
             S == {s \in stored : from < Created(s) /\ Created(s) <= to}
             r == [at |-> "credit", b |-> me.b, todo |-> me.todo, work |-> Work(S)]
  <2>1. Become(p, r)
    BY <1>6 DEF WorkBetween
  <2> HIDE DEF from
  <2>2. Carries(r)
    <3>1. S \in SUBSET DOMAIN ShareTable
      BY DEF BookInv
    <3> HIDE DEF S
    <3> QED BY <3>1, WorkType DEF Carries
  <2> HIDE DEF r
  <2> QED BY <1>0, <1>6, <2>1, <2>2, CarriesStep, ReadsBalance DEF WorkBetween, Reads, BookInv
<1>7. CASE WorkBackward(p)
  <2> DEFINE target == BlockInfo[me.b].target
             S == Older(me.cursors, BlockInfo[me.b].created)
  <2>1. PICK P \in Page(S) : \E C \in Counted(P, Total(Work(me.counted)), target) :
          \/ Become(p, WalkEnds(me, C)) \/ Become(p, WalkGoesOn(me, C, P))
    BY <1>7, WalkStep
  <2>2. PICK C \in Counted(P, Total(Work(me.counted)), target) :
          Become(p, WalkEnds(me, C)) \/ Become(p, WalkGoesOn(me, C, P))
    BY <2>1
  <2>3. PICK r : /\ Become(p, r)
                 /\ \/ r.at = "credit" /\ r.work = Work(me.counted \cup C)
                    \/ r.at = "page" /\ r.counted = me.counted \cup C
    <3>1. WalkEnds(me, C).at = "credit" /\ WalkEnds(me, C).work = Work(me.counted \cup C)
      BY DEF WalkEnds
    <3>2. WalkGoesOn(me, C, P).at = "page" /\ WalkGoesOn(me, C, P).counted = me.counted \cup C
      BY DEF WalkGoesOn
    <3> QED BY <2>2, <3>1, <3>2
  <2>4. me.counted \cup C \in SUBSET DOMAIN ShareTable
    <3>1. C \in SUBSET stored
      BY DEF Page, Counted, Older
    <3> QED BY <1>0, <1>7, <3>1 DEF WorkBackward, Carries, BookInv
  <2>5. Carries(r)
    BY <2>3, <2>4, WorkType DEF Carries
  <2> QED BY <1>0, <1>7, <2>3, <2>5, CarriesStep, ReadsBalance DEF WorkBackward, Reads, BookInv
<1>8. CASE CreditBlockRewards(p)
  <2>1. PICK r \in AtWindow(me.todo) : Become(p, r)
    BY <1>8 DEF CreditBlockRewards, OneOf
  <2>2. \A q \in Processors : Carries(proc[q])'
    BY <1>0, <2>1, AtWindowCarries, CarriesStep
  <2>3. me.b \in Blocks /\ me.work \in [Miners -> Nat] /\ Credit(me.b, me.work)
        /\ stored' = stored
    BY <1>0, <1>8 DEF CreditBlockRewards, Sound, Carries, Rewarding
  <2> QED BY <1>0, <2>2, <2>3, WriteStep DEF BookInv
<1> QED BY <1>1, <1>2, <1>3, <1>4, <1>5, <1>6, <1>7, <1>8 DEF PassStep

LEMMA BookStep == VerdictInv /\ BookInv /\ [Next]_vars => BookInv'
<1> SUFFICES ASSUME VerdictInv, BookInv, [Next]_vars PROVE BookInv'
  OBVIOUS
<1>1. CASE Grow
  BY <1>1 DEF Grow, Extend, blockVars, BookInv, Balanced, Carries
<1>2. ASSUME NEW b \in Blocks, InsertBlock(b) PROVE BookInv'
  BY <1>2 DEF InsertBlock, BookInv, Balanced, Carries
<1>3. ASSUME NEW s \in DOMAIN ShareTable, InsertShare(s) PROVE BookInv'
  BY <1>3 DEF InsertShare, blockVars, BookInv, Balanced, Carries
<1>4. ASSUME NEW p \in Processors, PassStep(p) PROVE BookInv'
  BY <1>4, PassBookStep
<1>5. ASSUME NEW p \in Processors, PassFails(p) PROVE BookInv'
  <2>1. Carries(Idle)
    BY DEF Carries, Idle
  <2>2. \A q \in Processors : Carries(proc[q])'
    BY <1>5, <2>1, CarriesStep DEF PassFails, VerdictInv
  <2> QED BY <1>5, <2>2 DEF PassFails, blockVars, BookInv, Balanced
<1>6. ASSUME NEW p \in Processors, CreditReplyLost(p) PROVE BookInv'
  <2>1. Carries(Idle)
    BY DEF Carries, Idle
  <2>2. \A q \in Processors : Carries(proc[q])'
    BY <1>6, <2>1, CarriesStep DEF CreditReplyLost, VerdictInv
  <2>3. /\ proc[p].b \in Blocks /\ proc[p].work \in [Miners -> Nat]
        /\ Credit(proc[p].b, proc[p].work) /\ stored' = stored /\ Typed
    BY <1>6 DEF CreditReplyLost, VerdictInv, BookInv, Sound, Carries, Rewarding
  <2> QED BY <2>2, <2>3, WriteStep DEF BookInv
<1>7. CASE UNCHANGED vars
  BY <1>7 DEF vars, blockVars, BookInv, Balanced, Carries
<1> QED BY <1>1, <1>2, <1>3, <1>4, <1>5, <1>6, <1>7 DEF Next

LEMMA BookInit == Init => BookInv
<1> SUFFICES ASSUME Init PROVE BookInv
  OBVIOUS
<1>1. \A b \in Blocks : Balanced(b)
  BY DEF Init, Balanced
<1> QED BY <1>1 DEF Init, BookInv, Carries, Idle

LEMMA BookHolds == BookInv => BookedOnce
BY BalancedBooks DEF BookInv, BookedOnce

----------------------------------------------------------------------------
(***************************************************************************)
(* PPLNS's walk.                                                           *)
(***************************************************************************)
LEMMA MinIs ==
  ASSUME NEW S \in SUBSET Nat, S # {} PROVE Min(S) \in S /\ \A x \in S : Min(S) <= x
<1>1. PICK m \in S : \A x \in S : ~(<<x, m>> \in OpToRel(<, Nat))
  BY NatLessThanWellFounded, WFMin
<1>2. \A x \in S : ~(x < m)
  BY <1>1 DEF OpToRel
<1>3. \A x \in S : m <= x
  BY <1>2
<1> QED BY <1>3 DEF Min

\* t is one of r's window, and not one that a page's end may have dropped.
Due(r, t) ==
  t \in r.known /\ Created(t) <= BlockInfo[r.b].created /\ Created(t) \notin r.cursors

\* While it walks, a processor has counted what is due down to its last
\* cursor, and nothing beyond.
Walking(r) ==
  /\ r.known \subseteq stored
  /\ r.cursors \subseteq Nat
  /\ \A s \in r.counted : \E c \in r.cursors : c <= Created(s)
  /\ \A t \in r.known : Due(r, t) /\ (\E c \in r.cursors : c <= Created(t)) => t \in r.counted

NoHoles(r) ==
  \A s \in r.counted, t \in r.known : Due(r, t) /\ Created(t) > Created(s) => t \in r.counted

Walked(r) ==
  /\ r.at = "page" => Walking(r)
  /\ "counted" \in DOMAIN r => NoHoles(r)

WalkInv == \A p \in Processors : Walked(proc[p])

LEMMA WalkInvHolds == WalkInv => WindowHasNoHoles
BY DEF WalkInv, Walked, NoHoles, Due, WindowHasNoHoles, Walkers, InWindow

\* A processor's own step.
LEMMA WalkedStep ==
  ASSUME WalkInv, Typed, NEW p \in Processors, NEW r, Become(p, r), Walked(r), stored' = stored
  PROVE  WalkInv'
<1>1. \A q \in Processors : proc'[q] = IF q = p THEN r ELSE proc[q]
  BY DEF Become, Typed
<1>2. ASSUME NEW q \in Processors PROVE Walked(proc[q])'
  <2>1. Walked(proc'[q])
    BY <1>1 DEF WalkInv
  <2> QED BY <2>1 DEF Walked, Walking, NoHoles, Due
<1> QED BY <1>2 DEF WalkInv

LEMMA NotWalking ==
  ASSUME NEW r, r.at # "page", "counted" \notin DOMAIN r PROVE Walked(r)
BY DEF Walked

LEMMA AtTipWalked ==
  ASSUME NEW todo, NEW r \in AtTip(todo) PROVE Walked(r)
<1>1. r.at # "page" /\ "counted" \notin DOMAIN r
  BY DEF AtTip
<1> QED BY <1>1, NotWalking

LEMMA AtWindowWalked ==
  ASSUME NEW todo, NEW r \in AtWindow(todo) PROVE Walked(r)
<1>1. CASE r.at = "page"
  <2>1. r.counted = {} /\ r.cursors = {} /\ r.known = stored
    BY <1>1 DEF AtWindow, Calculating, Idle
  <2> QED BY <2>1 DEF Walked, Walking, NoHoles
<1>2. CASE r.at # "page"
  <2>1. "counted" \notin DOMAIN r
    BY <1>2 DEF AtWindow, Calculating, Idle
  <2> QED BY <1>2, <2>1, NotWalking
<1> QED BY <1>1, <1>2

\* One page, whichever of its shares are counted.
LEMMA PageWalked ==
  ASSUME VerdictInv, BookInv, WalkInv, NEW p \in Processors, WorkBackward(p)
  PROVE  \E r : Become(p, r) /\ Walked(r)
<1> DEFINE me == proc[p]
           before == BlockInfo[me.b].created
           target == BlockInfo[me.b].target
           S == Older(me.cursors, before)
<1>1. me.at = "page" /\ me.b \in Blocks /\ Walking(me) /\ me.counted \subseteq DOMAIN ShareTable
  BY DEF WorkBackward, VerdictInv, Sound, Rewarding, WalkInv, Walked, BookInv, Carries
<1>1a. \A t : Due(me, t) /\ (\E c \in me.cursors : c <= Created(t)) => t \in me.counted
  BY <1>1 DEF Walking, Due
<1>2. PICK P \in Page(S) : \E C \in Counted(P, Total(Work(me.counted)), target) :
        \/ Become(p, WalkEnds(me, C))
        \/ /\ ~(Cardinality(P) < PageSize) /\ ~(Total(Work(me.counted \cup C)) >= target)
           /\ Become(p, WalkGoesOn(me, C, P))
  BY WalkStep
<1>3. PICK C \in Counted(P, Total(Work(me.counted)), target) :
        \/ Become(p, WalkEnds(me, C))
        \/ /\ ~(Cardinality(P) < PageSize) /\ ~(Total(Work(me.counted \cup C)) >= target)
           /\ Become(p, WalkGoesOn(me, C, P))
  BY <1>2
<1>4. stored \subseteq DOMAIN ShareTable /\ \A s \in stored : Created(s) \in Nat
  BY ShareFacts DEF BookInv
<1>5. \A s \in me.counted : Created(s) \in Nat
  BY <1>1, ShareFacts
<1>6. S \subseteq stored /\ P \subseteq S /\ C \subseteq P
  BY DEF Older, Page, Counted
<1>7. \A s \in P, t \in S \ P : Created(s) >= Created(t)
  BY DEF Page
<1>8. \A s \in C, t \in P \ C : Created(s) >= Created(t)
  BY DEF Counted
\* What is due is counted already or in the page's query.
<1>9. ASSUME NEW t, Due(me, t), t \notin me.counted PROVE t \in S
  <2>1. t \in stored /\ Created(t) <= before /\ \A c \in me.cursors : ~(c <= Created(t))
    BY <1>1, <1>9 DEF Walking, Due
  <2>2. CASE me.cursors = {}
    BY <2>1, <2>2 DEF Older
  <2>3. CASE me.cursors # {}
    <3>1. Min(me.cursors) \in me.cursors /\ me.cursors \subseteq Nat
      BY <1>1, <2>3, MinIs DEF Walking
    <3>2. Created(t) < Min(me.cursors)
      BY <1>4, <2>1, <3>1
    <3> QED BY <2>1, <2>3, <3>2 DEF Older
  <2> QED BY <2>2, <2>3
<1>10. \A t : Due(me, t) /\ t \notin me.counted => t \in S
  BY <1>9
<1>11. S \cap me.counted = {}
  <2>1. SUFFICES ASSUME NEW s \in S, s \in me.counted PROVE FALSE
    OBVIOUS
  <2>2. PICK c \in me.cursors : c <= Created(s)
    BY <1>1, <2>1 DEF Walking
  <2>3. Min(me.cursors) <= c /\ Min(me.cursors) \in Nat /\ c \in Nat
    BY <1>1, <2>2, MinIs DEF Walking
  <2>4. Created(s) < Min(me.cursors)
    BY <2>2 DEF Older
  <2> QED BY <1>5, <2>1, <2>2, <2>3, <2>4
<1> DEFINE sum == me.counted \cup C
\* The walk has ended.
<1>12. ASSUME NEW s \in sum, NEW t, Due(me, t), Created(t) > Created(s) PROVE t \in sum
  <2> SUFFICES ASSUME t \notin me.counted PROVE t \in sum
    OBVIOUS
  <2>1. t \in S
    BY <1>10, <1>12
  <2>2. Created(t) \in Nat
    BY <1>4, <1>6, <2>1
  <2>3. CASE s \in me.counted
    <3>1. PICK c \in me.cursors : c <= Created(s)
      BY <1>1, <2>3 DEF Walking
    <3>2. c <= Created(t)
      BY <1>1, <1>5, <1>12, <2>2, <2>3, <3>1 DEF Walking
    <3> QED BY <1>1a, <1>12, <3>1, <3>2
  <2>4. CASE s \in C
    <3>1. Created(s) \in Nat
      BY <1>4, <1>6, <2>4
    <3>2. ~(Created(s) >= Created(t))
      BY <1>12, <2>2, <3>1
    <3>3. t \in P
      BY <1>6, <1>7, <2>1, <2>4, <3>2
    <3> QED BY <1>8, <2>4, <3>2, <3>3
  <2> QED BY <1>12, <2>3, <2>4
<1>13. Walked(WalkEnds(me, C))
  <2> DEFINE r == WalkEnds(me, C)
  <2>1. r.at = "credit" /\ r.counted = sum /\ r.cursors = me.cursors /\ r.known = me.known
        /\ r.b = me.b
    BY DEF WalkEnds
  <2>2. \A t : Due(r, t) => Due(me, t)
    BY <2>1, Zenon DEF Due
  <2> HIDE DEF r, sum
  <2>3. NoHoles(r)
    BY <1>12, <2>1, <2>2 DEF NoHoles
  <2>4. Walked(r)
    BY <2>1, <2>3 DEF Walked
  <2> QED BY <2>4 DEF r
\* The walk goes on: the page is counted as a whole.
<1>14. ASSUME ~(Cardinality(P) < PageSize), ~(Total(Work(sum)) >= target)
       PROVE  Walked(WalkGoesOn(me, C, P))
  <2> DEFINE times == {Created(s) : s \in P}
             last == Min(times)
             r == WalkGoesOn(me, C, P)
  <2>1. r.at = "page" /\ r.counted = sum /\ r.cursors = me.cursors \cup {last}
        /\ r.known = me.known /\ r.b = me.b
    BY DEF WalkGoesOn
  <2>2. C = P
    <3>1. C # P => Total(Work(me.counted)) + Total(Work(C)) >= target
      BY DEF Counted
    <3>2. Total(Work(sum)) = Total(Work(me.counted)) + Total(Work(C))
      <4>1. C \in SUBSET DOMAIN ShareTable /\ me.counted \in SUBSET DOMAIN ShareTable
            /\ me.counted \cap C = {}
        BY <1>1, <1>4, <1>6, <1>11
      <4> QED BY <4>1, WorkAdds
    <3> QED BY <1>14, <3>1, <3>2
  <2>3. P # {}
    <3>1. PageSize \in Nat \ {0} /\ (P = {} => Cardinality(P) = 0)
      BY RewardsAssumption, FS_EmptySet
    <3> QED BY <1>14, <3>1
  <2>4. last \in times /\ last \in Nat /\ \A s \in P : last <= Created(s)
    <3>1. times \in SUBSET Nat /\ times # {}
      BY <1>4, <1>6, <2>3
    <3> HIDE DEF times
    <3>2. last \in times /\ \A x \in times : last <= x
      BY <3>1, MinIs
    <3>3. \A s \in P : Created(s) \in times
      BY DEF times
    <3> HIDE DEF last
    <3> QED BY <3>1, <3>2, <3>3
  <2>5. PICK s0 \in P : last = Created(s0)
    BY <2>4
  <2> HIDE DEF last, times
  <2>6. \A t : Due(r, t) => Due(me, t) /\ Created(t) # last
    BY <2>1, Zenon DEF Due
  <2>7. r.known \subseteq stored /\ r.cursors \subseteq Nat
    BY <1>1, <2>1, <2>4 DEF Walking
  <2>8. \A s \in r.counted : \E c \in r.cursors : c <= Created(s)
    BY <1>1, <1>6, <2>1, <2>4 DEF Walking
  <2>9. ASSUME NEW t, Due(r, t), NEW c \in r.cursors, c <= Created(t) PROVE t \in r.counted
    <3>1. Due(me, t) /\ Created(t) # last
      BY <2>6, <2>9
    <3> SUFFICES ASSUME t \notin sum PROVE FALSE
      BY <2>1
    <3>2. t \in S
      BY <1>10, <3>1
    <3>3. c = last
      BY <1>1a, <2>1, <2>9, <3>1
    <3>4. Created(t) \in Nat /\ ~(Created(s0) >= Created(t))
      BY <1>4, <1>6, <2>4, <2>5, <2>9, <3>1, <3>2, <3>3
    <3>5. t \in P
      BY <1>7, <2>5, <3>2, <3>4
    <3> QED BY <2>2, <3>5
  <2>10. Walking(r)
    BY <2>7, <2>8, <2>9 DEF Walking
  <2>11. NoHoles(r)
    BY <1>12, <2>1, <2>6 DEF NoHoles
  <2> HIDE DEF r
  <2>12. Walked(r)
    BY <2>10, <2>11 DEF Walked
  <2> QED BY <2>12 DEF r
<1> HIDE DEF me, sum, target
<1> QED BY <1>3, <1>13, <1>14 DEF sum

LEMMA PassWalkStep ==
  ASSUME VerdictInv, BookInv, WalkInv, NEW p \in Processors, PassStep(p) PROVE WalkInv'
<1> DEFINE me == proc[p]
<1>1. Typed /\ (stored' = stored)
  BY DEF VerdictInv, PassStep, UnconfirmedBlocks, TipHeight, BlockHashAt, UpdateBlockConfirmation,
         ConfirmedUnrewarded, WorkBetween, WorkBackward, CreditBlockRewards, Reads
<1>2. PICK r : Become(p, r) /\ Walked(r)
  <2>1. CASE UnconfirmedBlocks(p)
    <3>1. PICK r \in AtTip({b \in Blocks : status[b] = "pending"}) : Become(p, r)
      BY <2>1 DEF UnconfirmedBlocks, OneOf
    <3> QED BY <3>1, AtTipWalked
  <2>2. CASE TipHeight(p)
    <3>1. PICK r : /\ Become(p, r)
                   /\ r \in AtTip(me.todo) \/ r = [at |-> "hash", b |-> me.b, todo |-> me.todo,
                                                   tip |-> Len(chain)]
      BY <2>2 DEF TipHeight, OneOf
    <3>2. r \in AtTip(me.todo) \/ (r.at # "page" /\ "counted" \notin DOMAIN r)
      BY <3>1
    <3> QED BY <3>1, <3>2, AtTipWalked, NotWalking
  <2>3. CASE BlockHashAt(p)
    <3> DEFINE verdict == Verdict(me.b, me.tip)
    <3>1. PICK r : /\ Become(p, r)
                   /\ r \in AtTip(me.todo) \/ r = [at |-> "update", b |-> me.b, todo |-> me.todo,
                                                   verdict |-> verdict]
      BY <2>3 DEF BlockHashAt, OneOf
    <3>2. r \in AtTip(me.todo) \/ (r.at # "page" /\ "counted" \notin DOMAIN r)
      BY <3>1
    <3> QED BY <3>1, <3>2, AtTipWalked, NotWalking
  <2>4. CASE UpdateBlockConfirmation(p)
    <3>1. PICK r \in AtTip(me.todo) : Become(p, r)
      BY <2>4 DEF UpdateBlockConfirmation, OneOf
    <3> QED BY <3>1, AtTipWalked
  <2>5. CASE ConfirmedUnrewarded(p)
    <3>1. PICK r \in AtWindow({b \in Blocks : status[b] = "confirmed" /\ ~rewarded[b]}) :
            Become(p, r)
      BY <2>5 DEF ConfirmedUnrewarded, OneOf
    <3> QED BY <3>1, AtWindowWalked
  <2>6. CASE WorkBetween(p)
    <3>1. PICK work : Become(p, [at |-> "credit", b |-> me.b, todo |-> me.todo, work |-> work])
      BY <2>6 DEF WorkBetween
    <3> DEFINE r == [at |-> "credit", b |-> me.b, todo |-> me.todo, work |-> work]
    <3>2. r.at # "page" /\ "counted" \notin DOMAIN r
      OBVIOUS
    <3> HIDE DEF r
    <3>3. Walked(r)
      BY <3>2, NotWalking
    <3> QED BY <3>1, <3>3 DEF r
  <2>7. CASE WorkBackward(p)
    BY <2>7, PageWalked
  <2>8. CASE CreditBlockRewards(p)
    <3>1. PICK r \in AtWindow(me.todo) : Become(p, r)
      BY <2>8 DEF CreditBlockRewards, OneOf
    <3> QED BY <3>1, AtWindowWalked
  <2> QED BY <2>1, <2>2, <2>3, <2>4, <2>5, <2>6, <2>7, <2>8 DEF PassStep
<1> QED BY <1>1, <1>2, WalkedStep

LEMMA WalkInvStep == VerdictInv /\ BookInv /\ WalkInv /\ [Next]_vars => WalkInv'
<1> SUFFICES ASSUME VerdictInv, BookInv, WalkInv, [Next]_vars PROVE WalkInv'
  OBVIOUS
<1>1. ASSUME proc' = proc, stored \subseteq stored' PROVE WalkInv'
  BY <1>1 DEF WalkInv, Walked, Walking, NoHoles, Due
<1>2. CASE Grow
  BY <1>1, <1>2 DEF Grow, Extend
<1>3. ASSUME NEW b \in Blocks, InsertBlock(b) PROVE WalkInv'
  BY <1>1, <1>3 DEF InsertBlock
<1>4. ASSUME NEW s \in DOMAIN ShareTable, InsertShare(s) PROVE WalkInv'
  BY <1>1, <1>4 DEF InsertShare
<1>5. ASSUME NEW p \in Processors, PassStep(p) PROVE WalkInv'
  BY <1>5, PassWalkStep
<1>6. ASSUME NEW p \in Processors, PassFails(p) \/ CreditReplyLost(p) PROVE WalkInv'
  <2>1. Become(p, Idle) /\ stored' = stored /\ Typed
    BY <1>6 DEF PassFails, CreditReplyLost, VerdictInv
  <2>2. Walked(Idle)
    BY NotWalking DEF Idle
  <2> QED BY <2>1, <2>2, WalkedStep
<1>7. CASE UNCHANGED vars
  BY <1>1, <1>7 DEF vars
<1> QED BY <1>2, <1>3, <1>4, <1>5, <1>6, <1>7 DEF Next

LEMMA WalkInit == Init => WalkInv
<1> SUFFICES ASSUME Init PROVE WalkInv
  OBVIOUS
<1>1. Idle.at # "page" /\ "counted" \notin DOMAIN Idle
  BY DEF Idle
<1>2. Walked(Idle)
  BY <1>1, NotWalking
<1> QED BY <1>2 DEF Init, WalkInv

----------------------------------------------------------------------------
(***************************************************************************)
(* The types.                                                              *)
(***************************************************************************)
Places == {"idle", "tip", "hash", "update", "select", "window", "page", "credit"}

Bounded ==
  /\ Len(chain) <= MaxHeight
  /\ faults \in 0..MaxFaults
  /\ \A p \in Processors : proc[p].at \in Places

LEMMA PlaceStep ==
  ASSUME Typed, Bounded, NEW p \in Processors, NEW r, Become(p, r), r.at \in Places
  PROVE  \A q \in Processors : proc'[q].at \in Places
BY DEF Become, Typed, Bounded

LEMMA PassPlace ==
  ASSUME NEW p, PassStep(p) PROVE \E r : Become(p, r) /\ r.at \in Places
<1> DEFINE me == proc[p]
<1>1. \A todo : \A r \in AtTip(todo) : r.at \in Places
  BY DEF AtTip, Places
<1>2. \A todo : \A r \in AtWindow(todo) : r.at \in Places
  BY DEF AtWindow, Calculating, Idle, Places
<1>3. CASE UnconfirmedBlocks(p) \/ UpdateBlockConfirmation(p)
  BY <1>1, <1>3 DEF UnconfirmedBlocks, UpdateBlockConfirmation, OneOf
<1>4. CASE ConfirmedUnrewarded(p) \/ CreditBlockRewards(p)
  BY <1>2, <1>4 DEF ConfirmedUnrewarded, CreditBlockRewards, OneOf
<1>5. CASE TipHeight(p)
  <2>1. PICK r : Become(p, r) /\ (r \in AtTip(me.todo) \/ r.at = "hash")
    BY <1>5 DEF TipHeight, OneOf
  <2> QED BY <1>1, <2>1 DEF Places
<1>6. CASE BlockHashAt(p)
  <2>1. PICK r : Become(p, r) /\ (r \in AtTip(me.todo) \/ r.at = "update")
    BY <1>6 DEF BlockHashAt, OneOf
  <2> QED BY <1>1, <2>1 DEF Places
<1>7. CASE WorkBetween(p)
  <2>1. PICK work : Become(p, [at |-> "credit", b |-> me.b, todo |-> me.todo, work |-> work])
    BY <1>7 DEF WorkBetween
  <2> QED BY <2>1 DEF Places
<1>8. CASE WorkBackward(p)
  <2>1. \A C, P : WalkEnds(me, C).at \in Places /\ WalkGoesOn(me, C, P).at \in Places
    BY DEF WalkEnds, WalkGoesOn, Places
  <2> QED BY <1>8, <2>1, WalkStep
<1> QED BY <1>3, <1>4, <1>5, <1>6, <1>7, <1>8 DEF PassStep

LEMMA BoundedStep == VerdictInv /\ Bounded /\ [Next]_vars => Bounded'
<1> SUFFICES ASSUME VerdictInv, Bounded, [Next]_vars PROVE Bounded'
  OBVIOUS
<1>0. Typed
  BY DEF VerdictInv
<1>1. CASE Grow
  <2>1. Len(chain') = Len(chain) + 1
    BY <1>0, <1>1, ChainStep
  <2>2. Len(chain) < MaxHeight /\ Len(chain) \in Nat /\ MaxHeight \in Nat
        /\ faults' = faults /\ proc' = proc
    BY <1>0, <1>1, RewardsAssumption DEF Grow, Extend, Typed
  <2> QED BY <2>1, <2>2 DEF Bounded
<1>2. ASSUME NEW p \in Processors, PassStep(p) PROVE Bounded'
  <2>1. chain' = chain /\ faults' = faults
    BY <1>2 DEF PassStep, UnconfirmedBlocks, TipHeight, BlockHashAt, UpdateBlockConfirmation,
           ConfirmedUnrewarded, WorkBetween, WorkBackward, CreditBlockRewards, Reads, chainVars
  <2>2. PICK r : Become(p, r) /\ r.at \in Places
    BY <1>2, PassPlace
  <2> QED BY <1>0, <2>1, <2>2, PlaceStep DEF Bounded
<1>3. ASSUME NEW p \in Processors, PassFails(p) \/ CreditReplyLost(p) PROVE Bounded'
  <2>1. chain' = chain /\ Become(p, Idle) /\ Fault /\ Idle.at \in Places
    BY <1>3 DEF PassFails, CreditReplyLost, chainVars, Idle, Places
  <2>2. faults' \in 0..MaxFaults
    BY <2>1, RewardsAssumption DEF Fault, Bounded
  <2> QED BY <1>0, <2>1, <2>2, PlaceStep DEF Bounded
<1>4. CASE UNCHANGED vars
  BY <1>4 DEF vars, chainVars, Bounded
<1>5. ASSUME NEW b \in Blocks, InsertBlock(b) PROVE Bounded'
  BY <1>5 DEF InsertBlock, chainVars, Bounded
<1>6. ASSUME NEW s \in DOMAIN ShareTable, InsertShare(s) PROVE Bounded'
  BY <1>6 DEF InsertShare, chainVars, Bounded
<1> QED BY <1>1, <1>2, <1>3, <1>4, <1>5, <1>6 DEF Next

LEMMA BoundedInit == Init => Bounded
<1> SUFFICES ASSUME Init PROVE Bounded
  OBVIOUS
<1>1. Idle.at \in Places
  BY DEF Idle, Places
<1> QED BY <1>1, RewardsAssumption DEF Init, Bounded

LEMMA Types == VerdictInv /\ BookInv /\ Bounded => TypeOK
<1> SUFFICES ASSUME VerdictInv, BookInv, Bounded PROVE TypeOK
  OBVIOUS
<1>1. ASSUME NEW b \in Blocks
      PROVE  paid[b] \in [Miners -> 0..BlockInfo[b].reward] /\ fees[b] \in 0..BlockInfo[b].reward
  BY BalancedBooks DEF BookInv
<1> QED BY <1>1 DEF VerdictInv, Typed, BookInv, Bounded, Places, TypeOK

RewardInv == VerdictInv /\ BookInv /\ WalkInv /\ Bounded

\* Each part needs the ones before it: the books the blocks that VerdictInv
\* says a processor has in hand, the walk the shares that BookInv types.
LEMMA RewardInvariant == Spec => []RewardInv
<1>1. Init => VerdictInv
  BY DEF Init, VerdictInv, Typed, Settled, Sound, Idle, Confirming, Rewarding
<1>2. Init => RewardInv
  BY <1>1, BookInit, WalkInit, BoundedInit DEF RewardInv
<1>3. RewardInv /\ [Next]_vars => RewardInv'
  BY InvStep, BookStep, WalkInvStep, BoundedStep DEF RewardInv
<1> QED BY <1>2, <1>3, PTL DEF Spec

\* For any processors, shares, works and failures: what is booked for a block
\* is its reward, to the satoshi, or nothing.  The row lock and the flag
\* (CreditBlockRewards, storage/postgres/rewards.go:195) make it once, and
\* CreditsExact with the fee makes it whole.
THEOREM BookedOnceCorrect == Spec => []BookedOnce
<1>1. RewardInv => BookedOnce
  BY BookHolds DEF RewardInv
<1> QED BY <1>1, RewardInvariant, PTL

\* For any table, page size and arrivals: the walk of WorkBackward
\* (storage/postgres/rewards.go:98) leaves out nothing that was there and is
\* newer than what it counts, but for the times of its pages' last shares.
\* It goes on only after a page that it has counted as a whole, because the
\* works of disjoint sets of shares add up.
THEOREM WindowCorrect == Spec => []WindowHasNoHoles
<1>1. RewardInv => WindowHasNoHoles
  BY WalkInvHolds DEF RewardInv
<1> QED BY <1>1, RewardInvariant, PTL

\* The types, among them that no miner and no fee is booked more than the
\* reward (rewards.go:54-119).
THEOREM TypeCorrect == Spec => []TypeOK
<1>1. RewardInv => TypeOK
  BY Types DEF RewardInv
<1> QED BY <1>1, RewardInvariant, PTL
============================================================================
