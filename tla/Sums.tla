-------------------------------- MODULE Sums --------------------------------
(***************************************************************************)
(* Lemmas about the sums of the models: MapThenSumSet of the community     *)
(* modules, which is a fold, a recursive function chosen by its equation.  *)
(* That the equation has one solution is shown by exhibiting it: the sum   *)
(* of the weights of a set is the number of its units, the pairs of an     *)
(* element and a natural number below its weight.                          *)
(***************************************************************************)
EXTENDS Integers, FiniteSets, FiniteSetsExt, FiniteSetTheorems, TLAPS

SumOver(w, S) == MapThenSumSet(LAMBDA x : w[x], S)

Units(w, s) == {p \in s \X Nat : p[2] < w[p[1]]}
Weight(w, s) == Cardinality(Units(w, s))
First(s) == CHOOSE x \in s : TRUE

\* The units of one element are as many as its weight.
LEMMA UnitsOfOne ==
  ASSUME NEW w, NEW x, w[x] \in Nat
  PROVE  IsFiniteSet(Units(w, {x})) /\ Cardinality(Units(w, {x})) = w[x]
<1> DEFINE I == 0 .. (w[x] - 1)
           b == [i \in I |-> <<x, i>>]
<1>1. IsFiniteSet(I) /\ Cardinality(I) = w[x]
  <2>1. /\ 0 \in Int /\ w[x] - 1 \in Int
        /\ (IF 0 > w[x] - 1 THEN 0 ELSE w[x] - 1 - 0 + 1) = w[x]
    OBVIOUS
  <2> QED
    BY <2>1, FS_Interval
<1>2. Units(w, {x}) = {<<x, i>> : i \in I}
  <2>1. \A i \in Nat : i < w[x] <=> i \in I
    OBVIOUS
  <2>2. \A i \in I : i \in Nat
    OBVIOUS
  <2> HIDE DEF I
  <2> QED
    BY <2>1, <2>2 DEF Units
<1>3. b \in Bijection(I, Units(w, {x}))
  <2> HIDE DEF I
  <2>1. b \in [I -> Units(w, {x})]
    BY <1>2
  <2>2. \A i, j \in I : b[i] = b[j] => i = j
    OBVIOUS
  <2>3. \A u \in Units(w, {x}) : \E i \in I : b[i] = u
    BY <1>2
  <2> HIDE DEF b
  <2> QED
    BY <2>1, <2>2, <2>3 DEF Bijection, Injection, Surjection, IsInjective
<1> QED
  BY <1>1, <1>3, FS_Bijection DEF ExistsBijection

\* The units of two sets without a common element are counted apart.
LEMMA UnitsOfTwo ==
  ASSUME NEW w, NEW A, NEW B, A \cap B = {},
         IsFiniteSet(Units(w, A)), IsFiniteSet(Units(w, B))
  PROVE  /\ IsFiniteSet(Units(w, A \cup B))
         /\ Weight(w, A \cup B) = Weight(w, A) + Weight(w, B)
<1> DEFINE one == Units(w, A)
           two == Units(w, B)
<1>1. Units(w, A \cup B) = one \cup two /\ one \cap two = {}
  BY DEF Units
<1>2. Cardinality(one) \in Nat /\ Cardinality(two) \in Nat
  BY FS_CardinalityType
<1>3. /\ IsFiniteSet(one \cup two)
      /\ Cardinality(one \cup two) =
           Cardinality(one) + Cardinality(two) - Cardinality(one \cap two)
  <2> HIDE DEF one, two
  <2>1. IsFiniteSet(one) /\ IsFiniteSet(two)
    BY DEF one, two
  <2> QED BY <2>1, FS_Union
<1>4. Cardinality(one \cap two) = 0
  BY <1>1, FS_EmptySet
<1>5. /\ Weight(w, A \cup B) = Cardinality(one \cup two)
      /\ Weight(w, A) = Cardinality(one) /\ Weight(w, B) = Cardinality(two)
  BY <1>1 DEF Weight
<1> HIDE DEF one, two
<1>6. Weight(w, A \cup B) = Weight(w, A) + Weight(w, B)
  BY <1>2, <1>3, <1>4, <1>5
<1> QED BY <1>1, <1>3, <1>6

\* A smallest set among the subsets of a finite set.
LEMMA SmallestSubset ==
  ASSUME NEW S, IsFiniteSet(S), NEW T, T \subseteq SUBSET S, T # {}
  PROVE  \E s \in T : \A u \in T : ~ (u \subseteq s /\ u # s)
<1>1. IsWellFoundedOn(StrictSubsetOrdering(S), SUBSET S)
  BY FS_StrictSubsetOrderingWellFounded, FS_FiniteSubsetsOfFinite
<1>2. \E s \in T : \A u \in T : ~ (<<u, s>> \in StrictSubsetOrdering(S))
  BY <1>1, WFMin
<1> QED
  BY <1>2 DEF StrictSubsetOrdering

\* Were some subset's units infinite, a smallest such subset would have an
\* element to take out.
LEMMA UnitsFinite ==
  ASSUME NEW S, IsFiniteSet(S), NEW w, \A x \in S : w[x] \in Nat
  PROVE  \A s \in SUBSET S : IsFiniteSet(Units(w, s))
<1> DEFINE T == {s \in SUBSET S : ~ IsFiniteSet(Units(w, s))}
<1> SUFFICES ASSUME T # {} PROVE FALSE
  OBVIOUS
<1>1. PICK s \in T : \A u \in T : ~ (u \subseteq s /\ u # s)
  <2>1. T \subseteq SUBSET S
    OBVIOUS
  <2> HIDE DEF T
  <2> QED
    BY <2>1, SmallestSubset
<1>2. CASE s = {}
  <2>1. Units(w, s) = {}
    BY <1>2 DEF Units
  <2> QED
    BY <2>1, FS_EmptySet
<1>3. CASE s # {}
  <2>1. PICK x \in s : TRUE
    BY <1>3
  <2>2. IsFiniteSet(Units(w, s \ {x})) /\ IsFiniteSet(Units(w, {x}))
    BY <1>1, UnitsOfOne
  <2>3. s = {x} \cup (s \ {x}) /\ {x} \cap (s \ {x}) = {}
    OBVIOUS
  <2>4. IsFiniteSet(Units(w, {x} \cup (s \ {x})))
    BY <2>2, <2>3, UnitsOfTwo
  <2> QED
    BY <2>3, <2>4
<1> QED
  BY <1>2, <1>3

\* The weight of the empty set and of one element is a number, and weights of sets apart add up.
LEMMA WeightType ==
  ASSUME NEW S, IsFiniteSet(S), NEW w, \A x \in S : w[x] \in Nat
  PROVE  Weight(w, {}) = 0 /\ Weight(w, S) \in Nat
<1>1. IsFiniteSet(Units(w, S))
  BY UnitsFinite
<1>2. Units(w, {}) = {}
  BY DEF Units
<1> QED BY <1>1, <1>2, FS_EmptySet, FS_CardinalityType DEF Weight

LEMMA WeightAdds ==
  ASSUME NEW A, IsFiniteSet(A), NEW B, IsFiniteSet(B), A \cap B = {},
         NEW w, \A x \in A \cup B : w[x] \in Nat
  PROVE  Weight(w, A \cup B) = Weight(w, A) + Weight(w, B)
<1>1. IsFiniteSet(Units(w, A)) /\ IsFiniteSet(Units(w, B))
  BY UnitsFinite
<1> QED BY <1>1, UnitsOfTwo

LEMMA WeightOfMore ==
  ASSUME NEW S, IsFiniteSet(S), NEW w, \A x \in S : w[x] \in Nat, NEW x \in S
  PROVE  Weight(w, S) = w[x] + Weight(w, S \ {x})
<1>1. IsFiniteSet({x}) /\ IsFiniteSet(S \ {x})
  BY FS_Singleton, FS_RemoveElement
<1>4. {x} \cap (S \ {x}) = {} /\ {x} \cup (S \ {x}) = S
  OBVIOUS
<1>2. Weight(w, {x}) = w[x]
  BY UnitsOfOne DEF Weight
<1> DEFINE R == S \ {x}
<1>3. Weight(w, {x} \cup R) = Weight(w, {x}) + Weight(w, R)
  <2>1. IsFiniteSet({x}) /\ IsFiniteSet(R) /\ {x} \cap R = {} /\ \A y \in {x} \cup R : w[y] \in Nat
    BY <1>1, <1>4
  <2> HIDE DEF R
  <2> QED BY <2>1, WeightAdds
<1> QED BY <1>2, <1>3, <1>4

\* The equation of the fold that sums the weights of the subsets of S.
Sums(g, w, S) ==
  g = [s \in SUBSET S |->
         IF s = {} THEN 0 ELSE w[First(s)] + g[s \ {First(s)}]]

\* The weights solve the equation, and any other solution agrees with them.
LEMMA FoldIsWeight ==
  ASSUME NEW S, IsFiniteSet(S), NEW w, \A x \in S : w[x] \in Nat
  PROVE  /\ Sums([s \in SUBSET S |-> Weight(w, s)], w, S)
         /\ \A g : Sums(g, w, S) => g[S] = Weight(w, S)
<1>1. ASSUME NEW s \in SUBSET S, s # {}
      PROVE  /\ First(s) \in s
             /\ Weight(w, s) = w[First(s)] + Weight(w, s \ {First(s)})
  <2>1. First(s) \in s
    BY <1>1 DEF First
  <2>2. IsFiniteSet(s) /\ \A x \in s : w[x] \in Nat
    BY FS_Subset
  <2> QED
    BY <2>1, <2>2, WeightOfMore
<1>2. Weight(w, {}) = 0
  BY WeightType
<1>3. Sums([s \in SUBSET S |-> Weight(w, s)], w, S)
  <2> DEFINE h == [s \in SUBSET S |-> Weight(w, s)]
  <2>1. ASSUME NEW s \in SUBSET S
        PROVE  h[s] = IF s = {} THEN 0
                      ELSE w[First(s)] + h[s \ {First(s)}]
    BY <1>1, <1>2
  <2> QED
    BY <2>1 DEF Sums
<1>4. ASSUME NEW g, Sums(g, w, S) PROVE g[S] = Weight(w, S)
  <2> DEFINE T == {s \in SUBSET S : g[s] # Weight(w, s)}
  <2> SUFFICES ASSUME T # {} PROVE FALSE
    OBVIOUS
  <2>1. PICK s \in T : \A u \in T : ~ (u \subseteq s /\ u # s)
    <3>1. T \subseteq SUBSET S
      OBVIOUS
    <3> HIDE DEF T
    <3> QED
      BY <3>1, SmallestSubset
  <2>2. g[s] = IF s = {} THEN 0 ELSE w[First(s)] + g[s \ {First(s)}]
    BY <1>4 DEF Sums
  <2>3. s # {}
    BY <1>2, <2>2
  <2>4. /\ First(s) \in s
        /\ Weight(w, s) = w[First(s)] + Weight(w, s \ {First(s)})
    BY <1>1, <2>3
  <2>5. g[s \ {First(s)}] = Weight(w, s \ {First(s)})
    BY <2>1, <2>4
  <2> QED
    BY <2>2, <2>3, <2>4, <2>5
<1> QED
  BY <1>3, <1>4

LEMMA SumIsWeight ==
  ASSUME NEW S, IsFiniteSet(S), NEW w, \A x \in S : w[x] \in Nat
  PROVE  SumOver(w, S) = Weight(w, S)
<1> DEFINE Body(g) == [s \in SUBSET S |->
             IF s = {} THEN 0
             ELSE w[CHOOSE x \in s : TRUE] + g[s \ {CHOOSE x \in s : TRUE}]]
           fold == CHOOSE g : g = Body(g)
<1>1. SumOver(w, S) = fold[S]
  BY DEF SumOver, MapThenSumSet, MapThenFoldSet
<1>2. \A g : Sums(g, w, S) <=> g = Body(g)
  BY DEF Sums, First
<1>3. \E g : Sums(g, w, S)
  BY FoldIsWeight
<1> HIDE DEF Body
<1>4. fold = Body(fold)
  BY <1>2, <1>3
<1>5. Sums(fold, w, S)
  BY <1>2, <1>4
<1> QED
  BY <1>1, <1>5, FoldIsWeight

\* What a sum is, in any order.
LEMMA SumType ==
  ASSUME NEW S, IsFiniteSet(S), NEW w, \A x \in S : w[x] \in Nat
  PROVE  SumOver(w, {}) = 0 /\ SumOver(w, S) \in Nat
<1>1. SumOver(w, {}) = Weight(w, {})
  BY FS_EmptySet, SumIsWeight
<1> QED BY <1>1, SumIsWeight, WeightType

LEMMA SumOfMore ==
  ASSUME NEW S, IsFiniteSet(S), NEW w, \A x \in S : w[x] \in Nat, NEW x \in S
  PROVE  SumOver(w, S) = w[x] + SumOver(w, S \ {x})
<1>1. SumOver(w, S \ {x}) = Weight(w, S \ {x})
  <2> DEFINE R == S \ {x}
  <2>1. IsFiniteSet(R) /\ \A y \in R : w[y] \in Nat
    BY FS_RemoveElement
  <2> HIDE DEF R
  <2>2. SumOver(w, R) = Weight(w, R)
    BY <2>1, SumIsWeight
  <2> QED BY <2>2 DEF R
<1> QED BY <1>1, SumIsWeight, WeightOfMore

LEMMA SumOfTwo ==
  ASSUME NEW A, IsFiniteSet(A), NEW B, IsFiniteSet(B), A \cap B = {},
         NEW w, \A x \in A \cup B : w[x] \in Nat
  PROVE  SumOver(w, A \cup B) = SumOver(w, A) + SumOver(w, B)
<1>1. SumOver(w, A) = Weight(w, A) /\ SumOver(w, B) = Weight(w, B)
  BY SumIsWeight
<1>2. SumOver(w, A \cup B) = Weight(w, A \cup B)
  <2> DEFINE U == A \cup B
  <2>1. IsFiniteSet(U) /\ \A y \in U : w[y] \in Nat
    BY FS_Union
  <2> HIDE DEF U
  <2>2. SumOver(w, U) = Weight(w, U)
    BY <2>1, SumIsWeight
  <2> QED BY <2>2 DEF U
<1> QED BY <1>1, <1>2, WeightAdds

\* Weights that agree on a set add up to the same.
LEMMA SumSame ==
  ASSUME NEW S, IsFiniteSet(S), NEW w, NEW v, \A x \in S : w[x] \in Nat /\ v[x] = w[x]
  PROVE  SumOver(v, S) = SumOver(w, S)
<1>1. Units(v, S) = Units(w, S)
  BY DEF Units
<1> QED BY <1>1, SumIsWeight DEF Weight

LEMMA SumOfNothing ==
  ASSUME NEW S, IsFiniteSet(S), NEW w, \A x \in S : w[x] = 0
  PROVE  SumOver(w, S) = 0
<1>1. Units(w, S) = {}
  BY DEF Units
<1> QED BY <1>1, FS_EmptySet, SumIsWeight DEF Weight

\* One weight grows.
LEMMA SumGrows ==
  ASSUME NEW S, IsFiniteSet(S), NEW w, NEW v, NEW x \in S, NEW d \in Nat,
         \A y \in S : w[y] \in Nat, v[x] = w[x] + d, \A y \in S \ {x} : v[y] = w[y]
  PROVE  SumOver(v, S) = SumOver(w, S) + d
<1> DEFINE R == S \ {x}
<1>1. IsFiniteSet(R) /\ \A y \in R : w[y] \in Nat /\ v[y] = w[y]
  BY FS_RemoveElement
<1>2. \A y \in S : v[y] \in Nat
  BY <1>1
<1>3. SumOver(w, S) = w[x] + SumOver(w, R) /\ SumOver(v, S) = v[x] + SumOver(v, R)
  BY <1>2, SumOfMore
<1> HIDE DEF R
<1>4. SumOver(v, R) = SumOver(w, R) /\ SumOver(w, R) \in Nat
  BY <1>1, SumSame, SumType
<1> QED BY <1>3, <1>4
=============================================================================
