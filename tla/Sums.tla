-------------------------------- MODULE Sums --------------------------------
(***************************************************************************)
(* Sums over finite sets, as SumFunctionOnSet of the community modules     *)
(* computes them: it takes the elements of the set in some order.  The     *)
(* lemmas say that the order does not matter, so that an element can be    *)
(* split off wherever a proof needs it.                                    *)
(*                                                                         *)
(* SumFunctionOnSet is a recursive function over the subsets of the set.   *)
(* What it computes is shown by looking at a smallest counterexample.      *)
(***************************************************************************)
EXTENDS Integers, FiniteSets, Functions, FiniteSetTheorems, WellFoundedInduction, TLAPS

\* A set of natural numbers has a least element.
LEMMA LeastNumber ==
  ASSUME NEW T, T \subseteq Nat, T # {}
  PROVE  \E n \in T : \A m \in T : n <= m
<1>1. \A m, n \in Nat : m < n => <<m, n>> \in OpToRel(<, Nat)
  BY DEF OpToRel
<1>2. PICK n \in T : \A m \in T : ~ (<<m, n>> \in OpToRel(<, Nat))
  BY NatLessThanWellFounded, WFMin, Zenon
<1>3. n \in Nat /\ \A m \in T : m \in Nat
  OBVIOUS
<1>4. \A m \in T : ~(m < n)
  BY <1>1, <1>2, <1>3, Zenon
<1> QED BY <1>3, <1>4

\* A family of finite sets has one that has no smaller one beside it.
LEMMA SmallestSet ==
  ASSUME NEW F, F # {}, \A T \in F : IsFiniteSet(T)
  PROVE  \E T \in F : \A U \in F : Cardinality(T) <= Cardinality(U)
<1> DEFINE sizes == {Cardinality(T) : T \in F}
<1>1. sizes \subseteq Nat /\ sizes # {}
  BY FS_CardinalityType
<1>2. PICK n \in sizes : \A m \in sizes : n <= m
  BY <1>1, LeastNumber, Zenon
<1> QED BY <1>2

-----------------------------------------------------------------------------
(* The function behind a sum.                                               *)

\* The element of a set that is taken next.
Next1(s) == CHOOSE x \in s : TRUE

\* g is the sum of q over every subset of S.
Sums(q, S, g) ==
  g = [s \in SUBSET S |-> IF s = {} THEN 0 ELSE q[Next1(s)] + g[s \ {Next1(s)}]]

\* The sum over S is what such a function says of S.
LEMMA SumIsAnyOf ==
  ASSUME NEW S, NEW q
  PROVE  SumFunctionOnSet(q, S) = (CHOOSE g : Sums(q, S, g))[S]
  BY DEF SumFunctionOnSet, FoldFunctionOnSet, MapThenFoldSet, Sums, Next1

\* The element that is taken next is one of the set.
LEMMA NextIsMember ==
  ASSUME NEW s, s # {}
  PROVE  Next1(s) \in s
  BY DEF Next1

\* The same over the subsets of at most n elements.
NoLarger(S, n) == {s \in SUBSET S : Cardinality(s) <= n}
\* A function that adds q up over those subsets.
SumsUpto(q, S, n, g) ==
  g = [s \in NoLarger(S, n) |-> IF s = {} THEN 0 ELSE q[Next1(s)] + g[s \ {Next1(s)}]]

\* Without it the set is a smaller subset.
LEMMA SmallerAfterNext ==
  ASSUME NEW S, IsFiniteSet(S), NEW s \in SUBSET S, s # {}
  PROVE  /\ s \ {Next1(s)} \in SUBSET S
         /\ IsFiniteSet(s)
         /\ Cardinality(s) \in Nat
         /\ Cardinality(s \ {Next1(s)}) = Cardinality(s) - 1
  BY NextIsMember, FS_Subset, FS_RemoveElement, FS_CardinalityType

\* There is such a function for the subsets of any size: a smallest size
\* without one is not 0, and the function for the size before can be continued.
LEMMA SumsUptoExist ==
  ASSUME NEW S, IsFiniteSet(S), NEW q, NEW n \in Nat
  PROVE  \E g : SumsUpto(q, S, n, g)
<1> DEFINE bad == {m \in Nat : ~\E g : SumsUpto(q, S, m, g)}
<1> SUFFICES ASSUME bad # {} PROVE FALSE
  OBVIOUS
<1>1. PICK m \in bad : \A k \in bad : m <= k
  BY LeastNumber, Zenon
<1>2. CASE m = 0
  <2>1. \A s \in NoLarger(S, 0) : s = {}
    BY FS_Subset, FS_EmptySet, FS_CardinalityType DEF NoLarger
  <2> DEFINE g == [s \in NoLarger(S, 0) |-> 0]
  <2>2. SumsUpto(q, S, 0, g)
    BY <2>1 DEF SumsUpto
  <2> QED BY <1>2, <2>2
<1>3. CASE m # 0
  <2>1. m - 1 \in Nat /\ m - 1 \notin bad
    BY <1>1, <1>3
  <2>2. PICK g : SumsUpto(q, S, m - 1, g)
    BY <2>1
  <2> DEFINE h == [s \in NoLarger(S, m) |-> IF s = {} THEN 0 ELSE q[Next1(s)] + g[s \ {Next1(s)}]]
  <2>3. ASSUME NEW s \in NoLarger(S, m), s # {}
        PROVE  h[s \ {Next1(s)}] = g[s \ {Next1(s)}]
    <3> DEFINE t == s \ {Next1(s)}
    <3>1. t \in NoLarger(S, m - 1) /\ t \in NoLarger(S, m)
      BY <2>3, SmallerAfterNext DEF NoLarger
    <3>2. g[t] = IF t = {} THEN 0 ELSE q[Next1(t)] + g[t \ {Next1(t)}]
      BY <3>1, <2>2 DEF SumsUpto
    <3> QED BY <3>1, <3>2
  <2>4. SumsUpto(q, S, m, h)
    BY <2>3 DEF SumsUpto
  <2> QED BY <2>4
<1> QED BY <1>2, <1>3

\* There is a function that sums q over every subset of S.
LEMMA SumsExist ==
  ASSUME NEW S, IsFiniteSet(S), NEW q
  PROVE  \E g : Sums(q, S, g)
<1>1. Cardinality(S) \in Nat
  BY FS_CardinalityType
<1>2. PICK g : SumsUpto(q, S, Cardinality(S), g)
  BY <1>1, SumsUptoExist
<1>3. NoLarger(S, Cardinality(S)) = SUBSET S
  BY FS_Subset DEF NoLarger
<1> QED BY <1>2, <1>3 DEF Sums, SumsUpto

-----------------------------------------------------------------------------
(* The order does not matter.                                               *)

\* Every term is an integer.
Integral(q, S) == \A x \in S : q[x] \in Int

\* What the function says of each subset.
AddsUp(q, S, g) ==
  /\ g[{}] = 0
  /\ \A T \in SUBSET S : T # {} => g[T] = q[Next1(T)] + g[T \ {Next1(T)}]

\* Such a function takes one element after the other.
LEMMA SumsAddUp ==
  ASSUME NEW S, NEW q, NEW g, Sums(q, S, g)
  PROVE  AddsUp(q, S, g)
<1>1. \A T \in SUBSET S : g[T] = IF T = {} THEN 0 ELSE q[Next1(T)] + g[T \ {Next1(T)}]
  BY DEF Sums
<1>2. {} \in SUBSET S
  OBVIOUS
<1> QED BY <1>1, <1>2 DEF AddsUp

\* Integers add up to an integer: there is no smallest set with another sum.
LEMMA SumsAreIntegers ==
  ASSUME NEW S, IsFiniteSet(S), NEW q, Integral(q, S), NEW g, AddsUp(q, S, g)
  PROVE  \A T \in SUBSET S : g[T] \in Int
<1>0. /\ g[{}] = 0
      /\ \A T \in SUBSET S : T # {} => g[T] = q[Next1(T)] + g[T \ {Next1(T)}]
  BY DEF AddsUp
<1> DEFINE bad == {T \in SUBSET S : g[T] \notin Int}
<1> SUFFICES ASSUME bad # {} PROVE FALSE
  OBVIOUS
<1>1. PICK T \in bad : \A U \in bad : Cardinality(T) <= Cardinality(U)
  <2>1. \A U \in bad : IsFiniteSet(U)
    BY FS_Subset
  <2> QED BY <2>1, SmallestSet, Zenon
<1>2. T # {}
  <2>1. g[{}] \in Int
    BY <1>0
  <2>2. g[T] \notin Int
    BY <1>1
  <2> QED BY <2>1, <2>2, Zenon
<1>3. T \ {Next1(T)} \in SUBSET S /\ T \ {Next1(T)} \notin bad
  BY <1>1, <1>2, SmallerAfterNext
<1>4. q[Next1(T)] \in Int
  BY <1>1, <1>2, NextIsMember DEF Integral
<1> QED BY <1>0, <1>1, <1>2, <1>3, <1>4

\* Any element may be taken first.
Splits(q, S, g) == \A T \in SUBSET S : \A x \in T : g[T] = q[x] + g[T \ {x}]

\* Splitting off another element than the next gives the same sum: otherwise
\* there is a smallest set for which it does not, and both are split off.
LEMMA SumsSplit ==
  ASSUME NEW S, IsFiniteSet(S), NEW q, Integral(q, S), NEW g, AddsUp(q, S, g)
  PROVE  Splits(q, S, g)
<1>a. \A T \in SUBSET S : g[T] \in Int
  BY SumsAreIntegers
<1>b. \A T \in SUBSET S : T # {} => g[T] = q[Next1(T)] + g[T \ {Next1(T)}]
  BY DEF AddsUp
<1> DEFINE bad == {T \in SUBSET S : \E x \in T : g[T] # q[x] + g[T \ {x}]}
<1> SUFFICES ASSUME bad # {} PROVE FALSE
  BY DEF Splits
<1>1. PICK T \in bad : \A U \in bad : Cardinality(T) <= Cardinality(U)
  <2>1. \A U \in bad : IsFiniteSet(U)
    BY FS_Subset
  <2> QED BY <2>1, SmallestSet, Zenon
<1>2. PICK x \in T : g[T] # q[x] + g[T \ {x}]
  BY <1>1
<1> DEFINE y == Next1(T)
<1>3. T # {} /\ T \in SUBSET S /\ IsFiniteSet(T) /\ Cardinality(T) \in Nat
  BY <1>1, <1>2, SmallerAfterNext
<1>4. y \in T /\ g[T] = q[y] + g[T \ {y}]
  BY <1>b, <1>3, NextIsMember
<1>5. x # y
  BY <1>2, <1>4
<1>6. T \ {y} \notin bad /\ T \ {x} \notin bad
  <2>1. Cardinality(T \ {x}) = Cardinality(T) - 1 /\ Cardinality(T \ {y}) = Cardinality(T) - 1
    BY <1>2, <1>3, <1>4, FS_RemoveElement
  <2>2. \A U \in bad : Cardinality(U) # Cardinality(T) - 1
    BY <1>1, <1>3
  <2> HIDE DEF bad
  <2> QED BY <2>1, <2>2, Zenon
<1>7. g[T \ {y}] = q[x] + g[(T \ {y}) \ {x}]
  BY <1>2, <1>3, <1>5, <1>6
<1>8. g[T \ {x}] = q[y] + g[(T \ {x}) \ {y}]
  BY <1>3, <1>4, <1>5, <1>6
<1>9. g[(T \ {y}) \ {x}] = g[(T \ {x}) \ {y}]
  <2>1. (T \ {y}) \ {x} = (T \ {x}) \ {y}
    OBVIOUS
  <2> QED BY <2>1, Zenon
<1>10. g[(T \ {x}) \ {y}] \in Int /\ q[x] \in Int /\ q[y] \in Int
  BY <1>a, <1>2, <1>3, <1>4 DEF Integral
<1> HIDE DEF y
<1> QED BY <1>2, <1>4, <1>7, <1>8, <1>9, <1>10

\* Functions that agree on U have the same sum over U, within S or alone.
LEMMA SumsAgree ==
  ASSUME NEW S, NEW U \in SUBSET S, IsFiniteSet(S), NEW q, NEW r, \A x \in U : q[x] = r[x],
         NEW g, AddsUp(q, S, g), NEW h, AddsUp(r, U, h)
  PROVE  g[U] = h[U]
<1>0. /\ g[{}] = 0 /\ h[{}] = 0
      /\ \A T \in SUBSET S : T # {} => g[T] = q[Next1(T)] + g[T \ {Next1(T)}]
      /\ \A T \in SUBSET U : T # {} => h[T] = r[Next1(T)] + h[T \ {Next1(T)}]
  BY DEF AddsUp
<1> DEFINE bad == {T \in SUBSET U : g[T] # h[T]}
<1> SUFFICES bad = {}
  OBVIOUS
<1> SUFFICES ASSUME bad # {} PROVE FALSE
  OBVIOUS
<1>1. PICK T \in bad : \A V \in bad : Cardinality(T) <= Cardinality(V)
  <2>1. \A V \in bad : IsFiniteSet(V)
    BY FS_Subset
  <2> QED BY <2>1, SmallestSet, Zenon
<1>2. T \in SUBSET S /\ T \in SUBSET U
  BY <1>1
<1>3. T # {}
  BY <1>0, <1>1
<1>4. T \ {Next1(T)} \in SUBSET U /\ T \ {Next1(T)} \notin bad
  <2>1. /\ Cardinality(T) \in Nat
        /\ Cardinality(T \ {Next1(T)}) = Cardinality(T) - 1
    BY <1>2, <1>3, SmallerAfterNext
  <2> QED BY <1>1, <1>2, <2>1
<1>5. g[T \ {Next1(T)}] = h[T \ {Next1(T)}]
  BY <1>4
<1>6. q[Next1(T)] = r[Next1(T)]
  BY <1>2, <1>3, NextIsMember
<1>7. g[T] = q[Next1(T)] + g[T \ {Next1(T)}]
  BY <1>0, <1>2, <1>3
<1>8. h[T] = r[Next1(T)] + h[T \ {Next1(T)}]
  BY <1>0, <1>2, <1>3
<1> QED BY <1>1, <1>5, <1>6, <1>7, <1>8

-----------------------------------------------------------------------------
(* What proofs use.                                                         *)

\* The sum over S is that of a function that takes one element after the other.
LEMMA SumIs ==
  ASSUME NEW S, IsFiniteSet(S), NEW q
  PROVE  \E g : AddsUp(q, S, g) /\ SumFunctionOnSet(q, S) = g[S]
<1> DEFINE g == CHOOSE g : Sums(q, S, g)
<1>1. Sums(q, S, g)
  BY SumsExist
<1>2. AddsUp(q, S, g)
  BY <1>1, SumsAddUp
<1> QED BY <1>2, SumIsAnyOf, Zenon

\* Nothing adds up to 0.
LEMMA SumEmpty ==
  ASSUME NEW q
  PROVE  SumFunctionOnSet(q, {}) = 0
<1>1. PICK g : AddsUp(q, {}, g) /\ SumFunctionOnSet(q, {}) = g[{}]
  BY SumIs, FS_EmptySet
<1> QED BY <1>1 DEF AddsUp

\* A sum depends on the elements of the set alone.
LEMMA SumAgree ==
  ASSUME NEW S, IsFiniteSet(S), NEW q, NEW r, \A x \in S : q[x] = r[x]
  PROVE  SumFunctionOnSet(q, S) = SumFunctionOnSet(r, S)
<1>1. PICK g : AddsUp(q, S, g) /\ SumFunctionOnSet(q, S) = g[S]
  BY SumIs
<1>2. PICK h : AddsUp(r, S, h) /\ SumFunctionOnSet(r, S) = h[S]
  BY SumIs
<1>3. S \in SUBSET S
  OBVIOUS
<1> QED BY <1>1, <1>2, <1>3, SumsAgree

\* Any element can be split off.
LEMMA SumSplit ==
  ASSUME NEW S, IsFiniteSet(S), NEW q, \A x \in S : q[x] \in Int, NEW x \in S
  PROVE  SumFunctionOnSet(q, S) = q[x] + SumFunctionOnSet(q, S \ {x})
<1>1. PICK g : AddsUp(q, S, g) /\ SumFunctionOnSet(q, S) = g[S]
  BY SumIs
<1>2. IsFiniteSet(S \ {x}) /\ S \ {x} \in SUBSET S /\ S \in SUBSET S
  BY FS_RemoveElement
<1>3. PICK h : AddsUp(q, S \ {x}, h) /\ SumFunctionOnSet(q, S \ {x}) = h[S \ {x}]
  BY <1>2, SumIs
<1>4. g[S \ {x}] = h[S \ {x}]
  BY <1>1, <1>2, <1>3, SumsAgree
<1>5. Splits(q, S, g)
  <2>1. Integral(q, S)
    BY DEF Integral
  <2> QED BY <1>1, <2>1, SumsSplit
<1>6. g[S] = q[x] + g[S \ {x}]
  BY <1>2, <1>5 DEF Splits
<1> QED BY <1>1, <1>3, <1>4, <1>6

\* A sum of integers is an integer.
LEMMA SumType ==
  ASSUME NEW S, IsFiniteSet(S), NEW q, \A x \in S : q[x] \in Int
  PROVE  SumFunctionOnSet(q, S) \in Int
<1>1. PICK g : AddsUp(q, S, g) /\ SumFunctionOnSet(q, S) = g[S]
  BY SumIs
<1>2. S \in SUBSET S
  OBVIOUS
<1> QED BY <1>1, <1>2, SumsAreIntegers DEF Integral

\* An element that joins adds its term.
LEMMA SumAdd ==
  ASSUME NEW S, IsFiniteSet(S), NEW q, \A x \in S : q[x] \in Int, NEW x, x \notin S, q[x] \in Int
  PROVE  SumFunctionOnSet(q, S \cup {x}) = SumFunctionOnSet(q, S) + q[x]
<1>1. IsFiniteSet(S \cup {x}) /\ (S \cup {x}) \ {x} = S
  BY FS_AddElement
<1>2. SumFunctionOnSet(q, S \cup {x}) = q[x] + SumFunctionOnSet(q, (S \cup {x}) \ {x})
  <2>1. x \in S \cup {x} /\ \A y \in S \cup {x} : q[y] \in Int
    OBVIOUS
  <2> QED BY <1>1, <2>1, SumSplit
<1>3. SumFunctionOnSet(q, S) \in Int
  BY SumType
<1>4. SumFunctionOnSet(q, S \cup {x}) = q[x] + SumFunctionOnSet(q, S)
  BY <1>1, <1>2, Zenon
<1> QED BY <1>3, <1>4

\* When one term changes the sum changes by as much.
LEMMA SumExcept ==
  ASSUME NEW S, IsFiniteSet(S), NEW q, \A x \in S : q[x] \in Int, NEW x \in S,
         NEW r, r[x] \in Int, \A y \in S : y # x => r[y] = q[y]
  PROVE  SumFunctionOnSet(r, S) = SumFunctionOnSet(q, S) + r[x] - q[x]
<1>1. IsFiniteSet(S \ {x})
  BY FS_RemoveElement
<1>2. SumFunctionOnSet(r, S \ {x}) = SumFunctionOnSet(q, S \ {x})
  BY <1>1, SumAgree
<1>3. SumFunctionOnSet(q, S) = q[x] + SumFunctionOnSet(q, S \ {x})
  BY SumSplit
<1>4. SumFunctionOnSet(r, S) = r[x] + SumFunctionOnSet(r, S \ {x})
  <2>1. \A y \in S : r[y] \in Int
    OBVIOUS
  <2> QED BY <2>1, SumSplit
<1>5. SumFunctionOnSet(q, S \ {x}) \in Int
  BY <1>1, SumType
<1> QED BY <1>2, <1>3, <1>4, <1>5

\* Numbers that are all 0 add up to 0.
LEMMA SumZero ==
  ASSUME NEW S, IsFiniteSet(S), NEW q, \A x \in S : q[x] = 0
  PROVE  SumFunctionOnSet(q, S) = 0
<1> DEFINE bad == {T \in SUBSET S : SumFunctionOnSet(q, T) # 0}
<1> SUFFICES ASSUME bad # {} PROVE FALSE
  OBVIOUS
<1>1. PICK T \in bad : \A U \in bad : Cardinality(T) <= Cardinality(U)
  <2>1. \A U \in bad : IsFiniteSet(U)
    BY FS_Subset
  <2> QED BY <2>1, SmallestSet, Zenon
<1>2. T \in SUBSET S /\ IsFiniteSet(T) /\ T # {}
  <2>1. SumFunctionOnSet(q, {}) = 0
    BY SumEmpty
  <2> QED BY <1>1, <2>1, FS_Subset
<1>3. PICK x \in T : TRUE
  BY <1>2
<1>4. T \ {x} \notin bad
  <2>1. Cardinality(T \ {x}) = Cardinality(T) - 1 /\ Cardinality(T) \in Nat
    BY <1>2, <1>3, FS_RemoveElement, FS_CardinalityType
  <2> QED BY <1>1, <1>3, <2>1
<1>5. SumFunctionOnSet(q, T) = q[x] + SumFunctionOnSet(q, T \ {x})
  BY <1>2, <1>3, SumSplit
<1> QED BY <1>1, <1>2, <1>3, <1>4, <1>5

\* A sum of natural numbers is a natural number.
LEMMA SumNat ==
  ASSUME NEW S, IsFiniteSet(S), NEW q, \A x \in S : q[x] \in Nat
  PROVE  SumFunctionOnSet(q, S) \in Nat
<1> DEFINE bad == {T \in SUBSET S : SumFunctionOnSet(q, T) \notin Nat}
<1> SUFFICES ASSUME bad # {} PROVE FALSE
  OBVIOUS
<1>1. PICK T \in bad : \A U \in bad : Cardinality(T) <= Cardinality(U)
  <2>1. \A U \in bad : IsFiniteSet(U)
    BY FS_Subset
  <2> QED BY <2>1, SmallestSet, Zenon
<1>2. T \in SUBSET S /\ IsFiniteSet(T) /\ T # {}
  <2>1. SumFunctionOnSet(q, {}) = 0 /\ 0 \in Nat
    BY SumEmpty
  <2> QED BY <1>1, <2>1, FS_Subset
<1>3. PICK x \in T : TRUE
  BY <1>2
<1>4. T \ {x} \notin bad
  <2>1. Cardinality(T \ {x}) = Cardinality(T) - 1 /\ Cardinality(T) \in Nat
    BY <1>2, <1>3, FS_RemoveElement, FS_CardinalityType
  <2> QED BY <1>1, <1>3, <2>1
<1>5. SumFunctionOnSet(q, T) = q[x] + SumFunctionOnSet(q, T \ {x})
  BY <1>2, <1>3, SumSplit
<1> QED BY <1>1, <1>2, <1>3, <1>4, <1>5

\* Two sets without a common element.
LEMMA SumUnion ==
  ASSUME NEW S, IsFiniteSet(S), NEW T, IsFiniteSet(T), S \cap T = {},
         NEW q, \A x \in S \cup T : q[x] \in Int
  PROVE  SumFunctionOnSet(q, S \cup T) = SumFunctionOnSet(q, S) + SumFunctionOnSet(q, T)
<1> DEFINE all == SumFunctionOnSet(q, S)
           bad == {U \in SUBSET T : SumFunctionOnSet(q, S \cup U) # all + SumFunctionOnSet(q, U)}
<1> SUFFICES ASSUME bad # {} PROVE FALSE
  OBVIOUS
<1>0. all \in Int
  BY SumType
<1>1. PICK V \in bad : \A U \in bad : Cardinality(V) <= Cardinality(U)
  <2>1. \A U \in bad : IsFiniteSet(U)
    BY FS_Subset
  <2> QED BY <2>1, SmallestSet, Zenon
<1>2. V \in SUBSET T /\ IsFiniteSet(V) /\ V # {}
  <2>1. SumFunctionOnSet(q, {}) = 0
    BY SumEmpty
  <2>2. SumFunctionOnSet(q, S \cup {}) = all + SumFunctionOnSet(q, {})
    <3>1. S \cup {} = S
      OBVIOUS
    <3> HIDE DEF all
    <3>2. all + 0 = all
      BY <1>0
    <3> QED BY <2>1, <3>1, <3>2 DEF all
  <2>3. {} \notin bad
    BY <2>2
  <2>4. V \in SUBSET T
    BY <1>1
  <2> QED BY <1>1, <2>3, <2>4, FS_Subset
<1>3. PICK x \in V : TRUE
  BY <1>2
<1>4. V \ {x} \in SUBSET T /\ V \ {x} \notin bad
  <2>1. Cardinality(V \ {x}) = Cardinality(V) - 1 /\ Cardinality(V) \in Nat
    BY <1>2, <1>3, FS_RemoveElement, FS_CardinalityType
  <2> QED BY <1>1, <1>2, <1>3, <2>1
<1>5. SumFunctionOnSet(q, S \cup (V \ {x})) = all + SumFunctionOnSet(q, V \ {x})
  BY <1>4
<1>6. SumFunctionOnSet(q, V) = q[x] + SumFunctionOnSet(q, V \ {x})
  BY <1>2, <1>3, SumSplit
<1>7. SumFunctionOnSet(q, S \cup V) = q[x] + SumFunctionOnSet(q, S \cup (V \ {x}))
  <2>1. IsFiniteSet(S \cup V) /\ x \in S \cup V /\ \A y \in S \cup V : q[y] \in Int
    BY <1>2, <1>3, FS_Union
  <2>2. (S \cup V) \ {x} = S \cup (V \ {x})
    BY <1>2, <1>3
  <2> QED BY <2>1, <2>2, SumSplit
<1>8. q[x] \in Int /\ SumFunctionOnSet(q, V \ {x}) \in Int
  <2>1. IsFiniteSet(V \ {x}) /\ \A y \in V \ {x} : q[y] \in Int
    BY <1>2, <1>3, FS_RemoveElement
  <2> QED BY <1>2, <1>3, <2>1, SumType
<1> HIDE DEF all
<1>9. SumFunctionOnSet(q, S \cup V) = all + SumFunctionOnSet(q, V)
  BY <1>0, <1>5, <1>6, <1>7, <1>8
<1> QED BY <1>1, <1>9

\* Some of the numbers add up to no more than all of them.
LEMMA SumSmaller ==
  ASSUME NEW S, IsFiniteSet(S), NEW q, \A x \in S : q[x] \in Nat, NEW T \in SUBSET S
  PROVE  /\ SumFunctionOnSet(q, T) \in Nat
         /\ SumFunctionOnSet(q, S) \in Nat
         /\ SumFunctionOnSet(q, T) <= SumFunctionOnSet(q, S)
<1>1. IsFiniteSet(T) /\ IsFiniteSet(S \ T)
  BY FS_Subset
<1>2. T \cap (S \ T) = {} /\ T \cup (S \ T) = S
  OBVIOUS
<1>3. \A x \in T \cup (S \ T) : q[x] \in Int
  BY <1>2
<1>4. SumFunctionOnSet(q, T \cup (S \ T)) = SumFunctionOnSet(q, T) + SumFunctionOnSet(q, S \ T)
  BY <1>1, <1>2, <1>3, SumUnion
<1>5. SumFunctionOnSet(q, T) \in Nat /\ SumFunctionOnSet(q, S \ T) \in Nat
  BY <1>1, SumNat
<1>6. SumFunctionOnSet(q, S) = SumFunctionOnSet(q, T) + SumFunctionOnSet(q, S \ T)
  BY <1>2, <1>4
<1> QED
  BY <1>5, <1>6

\* h names each element of S otherwise, by an element of T with the same term.
Renames(h, S, r, T, q) ==
  /\ \A x \in S : r[x] = q[h[x]] /\ q[h[x]] \in Int
  /\ \A x, y \in S : h[x] = h[y] => x = y
  /\ T = {h[x] : x \in S}

\* Other names do not change the sum.
LEMMA SumRenamed ==
  ASSUME NEW S, IsFiniteSet(S), NEW T, NEW q, NEW h, NEW r, Renames(h, S, r, T, q)
  PROVE  SumFunctionOnSet(r, S) = SumFunctionOnSet(q, T)
<1>0. /\ \A x \in S : r[x] = q[h[x]] /\ q[h[x]] \in Int
      /\ \A x, y \in S : h[x] = h[y] => x = y
      /\ T = {h[x] : x \in S}
  BY DEF Renames
<1> SUFFICES SumFunctionOnSet(r, S) = SumFunctionOnSet(q, {h[x] : x \in S})
  BY <1>0
<1> DEFINE H(U) == {h[x] : x \in U}
           bad == {U \in SUBSET S : SumFunctionOnSet(r, U) # SumFunctionOnSet(q, H(U))}
<1> SUFFICES ASSUME bad # {} PROVE FALSE
  OBVIOUS
<1>1. PICK V \in bad : \A U \in bad : Cardinality(V) <= Cardinality(U)
  <2>1. \A U \in bad : IsFiniteSet(U)
    BY FS_Subset
  <2> QED BY <2>1, SmallestSet, Zenon
<1>2. V \in SUBSET S /\ IsFiniteSet(V) /\ V # {}
  <2>1. SumFunctionOnSet(r, {}) = 0 /\ SumFunctionOnSet(q, {}) = 0 /\ H({}) = {}
    BY SumEmpty
  <2> QED BY <1>1, <2>1, FS_Subset
<1>3. PICK x \in V : TRUE
  BY <1>2
<1>4. V \ {x} \in SUBSET S /\ V \ {x} \notin bad
  <2>1. Cardinality(V \ {x}) = Cardinality(V) - 1 /\ Cardinality(V) \in Nat
    BY <1>2, <1>3, FS_RemoveElement, FS_CardinalityType
  <2> QED BY <1>1, <1>2, <1>3, <2>1
<1>5. SumFunctionOnSet(r, V \ {x}) = SumFunctionOnSet(q, H(V \ {x}))
  BY <1>4
<1>6. SumFunctionOnSet(r, V) = r[x] + SumFunctionOnSet(r, V \ {x})
  <2>1. \A y \in V : r[y] \in Int
    BY <1>0, <1>2
  <2> QED BY <1>2, <1>3, <2>1, SumSplit
<1>7. SumFunctionOnSet(q, H(V)) = q[h[x]] + SumFunctionOnSet(q, H(V) \ {h[x]})
  <2>1. IsFiniteSet(H(V))
    <3>1. [y \in V |-> h[y]] \in Surjection(V, H(V))
      BY Zenon DEF Surjection
    <3> QED BY <1>2, <3>1, FS_Surjection, Zenon
  <2>2. h[x] \in H(V) /\ \A y \in H(V) : q[y] \in Int
    BY <1>0, <1>2, <1>3
  <2> QED BY <2>1, <2>2, SumSplit
<1>8. H(V) \ {h[x]} = H(V \ {x})
  BY <1>0, <1>2, <1>3
<1>9. r[x] = q[h[x]]
  BY <1>0, <1>2, <1>3
<1> QED BY <1>1, <1>5, <1>6, <1>7, <1>8, <1>9
=============================================================================
