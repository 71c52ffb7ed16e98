--------------------------- MODULE CountingLemmas ---------------------------
(****************************************************************************)
(* Sums over finite sets, ranks among numbers and sublists: what the        *)
(* modules' folds and orderings come to. Induction over a set is first-     *)
(* order here: the sets for which a fact holds are themselves a set, and a  *)
(* set of numbers closed under successor has them all.                      *)
(****************************************************************************)
EXTENDS Sublists, Functions, FiniteSetTheorems, WellFoundedInduction, TLAPS

-----------------------------------------------------------------------------
(* Sums                                                                     *)

\* A set of numbers that has 0 and every successor has them all.
LEMMA SetNatInduction ==
    ASSUME NEW C, 0 \in C, \A n \in Nat : n \in C => n + 1 \in C
    PROVE  Nat \subseteq C
<1>1. SUFFICES ASSUME Nat \ C # {} PROVE FALSE
  OBVIOUS
<1>2. IsWellFoundedOn(OpToRel(<, Nat), Nat)
  BY NatLessThanWellFounded
<1> DEFINE D == Nat \ C
<1>3. D \subseteq Nat /\ D # {}
  BY <1>1
<1>4. PICK n \in D : \A m \in D : ~(<<m, n>> \in OpToRel(<, Nat))
  <2> HIDE DEF D
  <2> QED BY <1>2, <1>3, WFMin
<1>5. \A m \in Nat : m < n => <<m, n>> \in OpToRel(<, Nat)
  BY DEF OpToRel
<1>6. n # 0
  OBVIOUS
<1>7. n - 1 \in Nat /\ n - 1 < n /\ (n - 1) + 1 = n
  BY <1>6
<1>8. n - 1 \in C
  BY <1>4, <1>5, <1>7
<1> QED BY <1>7, <1>8

\* A family that has the empty set and grows by any element has the finite set itself.
LEMMA FiniteSetInduction ==
    ASSUME NEW S, IsFiniteSet(S), NEW C, {} \in C,
           \A T \in SUBSET S : \A x \in S \ T : T \in C => T \cup {x} \in C
    PROVE  S \in C
<1> DEFINE D == {n \in Nat : \A T \in SUBSET S : Cardinality(T) = n => T \in C}
<1>1. 0 \in D
  <2>1. \A T \in SUBSET S : Cardinality(T) = 0 => T = {}
    BY FS_Subset, FS_EmptySet
  <2> QED BY <2>1
<1>2. ASSUME NEW n \in Nat, n \in D
      PROVE  n + 1 \in D
  <2> SUFFICES ASSUME NEW T \in SUBSET S, Cardinality(T) = n + 1
               PROVE  T \in C
    OBVIOUS
  <2>1. IsFiniteSet(T) /\ T # {}
    BY FS_Subset, FS_EmptySet
  <2>2. PICK x : x \in T
    BY <2>1
  <2>3. Cardinality(T \ {x}) = n
    <3>1. Cardinality(T \ {x}) = Cardinality(T) - 1
      BY <2>1, <2>2, FS_RemoveElement
    <3> QED BY <3>1
  <2>4. T \ {x} \in C
    BY <2>3, <1>2
  <2>5. T = (T \ {x}) \cup {x} /\ x \in S \ (T \ {x}) /\ T \ {x} \in SUBSET S
    BY <2>2
  <2> QED BY <2>4, <2>5
<1>3. Nat \subseteq D
  <2> HIDE DEF D
  <2> QED BY <1>1, <1>2, SetNatInduction
<1>4. Cardinality(S) \in Nat
  BY FS_CardinalityType
<1> QED BY <1>3, <1>4

\* The element a fold over a set takes first.
Member(T) == CHOOSE x \in T : TRUE

\* What the fold of SumFunctionOnSet computes, subset by subset.
IsSum(fun, S, g) ==
  g = [T \in SUBSET S |-> IF T = {} THEN 0 ELSE fun[Member(T)] + g[T \ {Member(T)}]]

\* The sum is the value of such a function.
LEMMA SumDef ==
    ASSUME NEW fun, NEW S
    PROVE  SumFunctionOnSet(fun, S) = (CHOOSE g : IsSum(fun, S, g))[S]
  BY DEF SumFunctionOnSet, FoldFunctionOnSet, MapThenFoldSet, IsSum, Member

\* A set that is not empty has a first element.
LEMMA MemberIn ==
    ASSUME NEW T, T # {}
    PROVE  Member(T) \in T
  BY DEF Member

\* For a finite set there is such a function.
LEMMA SumExists ==
    ASSUME NEW fun, NEW S, IsFiniteSet(S)
    PROVE  \E g : IsSum(fun, S, g)
<1> DEFINE Rhs(g, T) == IF T = {} THEN 0 ELSE fun[Member(T)] + g[T \ {Member(T)}]
           Upto(g, n) == \A T \in SUBSET S : Cardinality(T) <= n => g[T] = Rhs(g, T)
           D == {n \in Nat : \E g : Upto(g, n)}
<1>1. 0 \in D
  <2>1. \A T \in SUBSET S : IsFiniteSet(T) /\ Cardinality(T) \in Nat /\ (Cardinality(T) = 0 => T = {})
    BY FS_Subset, FS_EmptySet, FS_CardinalityType
  <2>2. \A T \in SUBSET S : Cardinality(T) <= 0 => T = {}
    BY <2>1
  <2>3. Upto([T \in SUBSET S |-> 0], 0)
    BY <2>2
  <2> QED BY <2>3
<1>2. ASSUME NEW n \in Nat, n \in D
      PROVE  n + 1 \in D
  <2>1. PICK g : Upto(g, n)
    BY <1>2
  <2> DEFINE h == [T \in SUBSET S |-> Rhs(g, T)]
  <2>2. ASSUME NEW T \in SUBSET S, Cardinality(T) <= n + 1
        PROVE  h[T] = Rhs(h, T)
    <3>1. CASE T = {}
      BY <3>1
    <3>2. CASE T # {}
      <4> DEFINE x == Member(T)
      <4>1. x \in T
        BY <3>2, MemberIn
      <4>2. IsFiniteSet(T) /\ Cardinality(T) \in Nat
        BY FS_Subset, FS_CardinalityType
      <4>3. Cardinality(T \ {x}) = Cardinality(T) - 1
        BY <4>1, <4>2, FS_RemoveElement
      <4>4. Cardinality(T \ {x}) <= n
        BY <4>2, <4>3, <2>2
      <4>5. T \ {x} \in SUBSET S
        OBVIOUS
      <4> HIDE DEF x
      <4>6. g[T \ {x}] = Rhs(g, T \ {x})
        BY <4>4, <4>5, <2>1
      <4>7. h[T \ {x}] = Rhs(g, T \ {x})
        BY <4>5
      <4>8. h[T] = fun[x] + g[T \ {x}]
        BY <3>2 DEF x
      <4>9. Rhs(h, T) = fun[x] + h[T \ {x}]
        BY <3>2 DEF x
      <4> QED BY <4>6, <4>7, <4>8, <4>9
    <3> QED BY <3>1, <3>2
  <2>3. Upto(h, n + 1)
    BY <2>2
  <2>4. \E i : Upto(i, n + 1)
    <3> HIDE DEF h, Upto
    <3> QED BY <2>3
  <2> HIDE DEF Upto, h
  <2> QED BY <2>4
<1>3. Nat \subseteq D
  <2> HIDE DEF D
  <2> QED BY <1>1, <1>2, SetNatInduction
<1>4. \A T \in SUBSET S : Cardinality(T) \in Nat /\ Cardinality(T) <= Cardinality(S) /\ Cardinality(S) \in Nat
  BY FS_Subset, FS_CardinalityType
<1>5. PICK g : Upto(g, Cardinality(S))
  BY <1>3, <1>4
<1>6. IsSum(fun, S, [T \in SUBSET S |-> g[T]])
  <2> DEFINE h == [T \in SUBSET S |-> g[T]]
  <2>1. \A T \in SUBSET S : g[T] = Rhs(g, T)
    BY <1>4, <1>5
  <2>2. \A T \in SUBSET S : Rhs(g, T) = Rhs(h, T)
    OBVIOUS
  <2>3. h = [T \in SUBSET S |-> Rhs(h, T)]
    BY <2>1, <2>2
  <2> QED BY <2>3 DEF IsSum
<1> QED BY <1>6

\* On a subset, all of them agree.
LEMMA SumUnique ==
    ASSUME NEW fun, NEW S, NEW T \in SUBSET S, IsFiniteSet(S),
           NEW g, NEW h, IsSum(fun, S, g), IsSum(fun, T, h)
    PROVE  g[T] = h[T]
<1> DEFINE D == {n \in Nat : \A U \in SUBSET T : Cardinality(U) = n => g[U] = h[U]}
<1>0. \A U \in SUBSET T : /\ g[U] = IF U = {} THEN 0 ELSE fun[Member(U)] + g[U \ {Member(U)}]
                          /\ h[U] = IF U = {} THEN 0 ELSE fun[Member(U)] + h[U \ {Member(U)}]
  BY DEF IsSum
<1>1. 0 \in D
  <2>1. \A U \in SUBSET T : Cardinality(U) = 0 => U = {}
    BY FS_Subset, FS_EmptySet
  <2> QED BY <2>1, <1>0
<1>2. ASSUME NEW n \in Nat, n \in D
      PROVE  n + 1 \in D
  <2> SUFFICES ASSUME NEW U \in SUBSET T, Cardinality(U) = n + 1
               PROVE  g[U] = h[U]
    OBVIOUS
  <2>1. IsFiniteSet(U) /\ U # {}
    BY FS_Subset, FS_EmptySet
  <2> DEFINE x == Member(U)
  <2>2. x \in U
    BY <2>1, MemberIn
  <2>3. Cardinality(U \ {x}) = n
    <3> HIDE DEF x
    <3>1. Cardinality(U \ {x}) = Cardinality(U) - 1
      BY <2>1, <2>2, FS_RemoveElement
    <3> QED BY <3>1
  <2> HIDE DEF x
  <2>4. g[U \ {x}] = h[U \ {x}]
    BY <2>3, <1>2
  <2> QED BY <2>1, <2>4, <1>0 DEF x
<1>3. Nat \subseteq D
  <2> HIDE DEF D
  <2> QED BY <1>1, <1>2, SetNatInduction
<1>4. Cardinality(T) \in Nat
  BY FS_Subset, FS_CardinalityType
<1> QED BY <1>3, <1>4

\* Nothing sums to zero.
LEMMA SumEmpty ==
    ASSUME NEW fun
    PROVE  SumFunctionOnSet(fun, {}) = 0
<1>1. IsFiniteSet({})
  BY FS_EmptySet
<1>2. IsSum(fun, {}, CHOOSE g : IsSum(fun, {}, g))
  BY <1>1, SumExists
<1> QED BY <1>2, SumDef DEF IsSum

\* The sum takes the first element, then the rest.
LEMMA SumMember ==
    ASSUME NEW fun, NEW S, IsFiniteSet(S), S # {}
    PROVE  SumFunctionOnSet(fun, S) = fun[Member(S)] + SumFunctionOnSet(fun, S \ {Member(S)})
<1> DEFINE R == S \ {Member(S)}
           g == CHOOSE i : IsSum(fun, S, i)
           h == CHOOSE i : IsSum(fun, R, i)
<1>1. IsFiniteSet(R) /\ R \in SUBSET S
  BY FS_Subset
<1>2. IsSum(fun, S, g)
  BY SumExists
<1>3. IsSum(fun, R, h)
  <2> HIDE DEF R
  <2> QED BY <1>1, SumExists
<1>4. g[R] = h[R]
  <2> HIDE DEF g, h, R
  <2> QED BY <1>1, <1>2, <1>3, SumUnique
<1>5. SumFunctionOnSet(fun, S) = g[S] /\ SumFunctionOnSet(fun, R) = h[R]
  BY SumDef
<1>6. g[S] = fun[Member(S)] + g[R]
  <2> HIDE DEF g
  <2> QED BY <1>2 DEF IsSum
<1> QED BY <1>4, <1>5, <1>6

\* The numbers to be summed are integers.
Ints(fun, S) == \A x \in S : fun[x] \in Int

\* Equal numbers, equal sums.
LEMMA SumAgree ==
    ASSUME NEW f, NEW g, NEW S, IsFiniteSet(S), \A x \in S : f[x] = g[x]
    PROVE  SumFunctionOnSet(f, S) = SumFunctionOnSet(g, S)
<1> DEFINE D == {n \in Nat : \A T \in SUBSET S :
                   Cardinality(T) = n => SumFunctionOnSet(f, T) = SumFunctionOnSet(g, T)}
<1>1. 0 \in D
  <2>1. \A T \in SUBSET S : Cardinality(T) = 0 => T = {}
    BY FS_Subset, FS_EmptySet
  <2> QED BY <2>1, SumEmpty
<1>2. ASSUME NEW n \in Nat, n \in D
      PROVE  n + 1 \in D
  <2> SUFFICES ASSUME NEW T \in SUBSET S, Cardinality(T) = n + 1
               PROVE  SumFunctionOnSet(f, T) = SumFunctionOnSet(g, T)
    OBVIOUS
  <2>1. IsFiniteSet(T) /\ T # {}
    BY FS_Subset, FS_EmptySet
  <2>2. Member(T) \in T
    BY <2>1, MemberIn
  <2>3. Cardinality(T \ {Member(T)}) = n
    <3>1. Cardinality(T \ {Member(T)}) = Cardinality(T) - 1
      BY <2>1, <2>2, FS_RemoveElement
    <3> QED BY <3>1
  <2>4. SumFunctionOnSet(f, T \ {Member(T)}) = SumFunctionOnSet(g, T \ {Member(T)})
    BY <2>3, <1>2
  <2> QED BY <2>1, <2>2, <2>4, SumMember
<1>3. Nat \subseteq D
  <2> HIDE DEF D
  <2> QED BY <1>1, <1>2, SetNatInduction
<1>4. Cardinality(S) \in Nat
  BY FS_CardinalityType
<1> QED BY <1>3, <1>4

\* Any element may be taken first: the order does not matter.
LEMMA SumRemove ==
    ASSUME NEW f, NEW S, IsFiniteSet(S), Ints(f, S), NEW x \in S
    PROVE  /\ SumFunctionOnSet(f, S) = f[x] + SumFunctionOnSet(f, S \ {x})
           /\ SumFunctionOnSet(f, S) \in Int
           /\ SumFunctionOnSet(f, S \ {x}) \in Int
<1> DEFINE Sm(T) == SumFunctionOnSet(f, T)
           D == {n \in Nat : \A T \in SUBSET S : Cardinality(T) = n =>
                   Sm(T) \in Int /\ \A y \in T : Sm(T) = f[y] + Sm(T \ {y})}
<1>1. 0 \in D
  <2>1. \A T \in SUBSET S : Cardinality(T) = 0 => T = {}
    BY FS_Subset, FS_EmptySet
  <2>2. Sm({}) = 0
    BY SumEmpty
  <2> HIDE DEF Sm
  <2>3. ASSUME NEW T \in SUBSET S, Cardinality(T) = 0
        PROVE  Sm(T) \in Int /\ \A y \in T : Sm(T) = f[y] + Sm(T \ {y})
    <3>1. T = {}
      BY <2>1, <2>3
    <3> QED BY <2>2, <3>1
  <2> QED BY <2>3
<1>2. ASSUME NEW n \in Nat, \A m \in 0 .. n : m \in D
      PROVE  n + 1 \in D
  <2> SUFFICES ASSUME NEW T \in SUBSET S, Cardinality(T) = n + 1
               PROVE  Sm(T) \in Int /\ \A y \in T : Sm(T) = f[y] + Sm(T \ {y})
    OBVIOUS
  <2>1. IsFiniteSet(T) /\ T # {}
    BY FS_Subset, FS_EmptySet
  <2> DEFINE z == Member(T)
  <2>2. z \in T
    BY <2>1, MemberIn
  <2>3. Sm(T) = f[z] + Sm(T \ {z})
    BY <2>1, SumMember
  <2> HIDE DEF z, Sm
  <2>4. \A y \in T : Cardinality(T \ {y}) = n /\ IsFiniteSet(T \ {y}) /\ T \ {y} \in SUBSET S
    <3>1. \A y \in T : Cardinality(T \ {y}) = Cardinality(T) - 1 /\ IsFiniteSet(T \ {y})
      BY <2>1, FS_RemoveElement
    <3> QED BY <3>1
  <2>5. \A y \in T : Sm(T \ {y}) \in Int /\ \A w \in T \ {y} : Sm(T \ {y}) = f[w] + Sm((T \ {y}) \ {w})
    BY <2>4, <1>2
  <2>6. Sm(T) \in Int
    BY <2>2, <2>3, <2>5 DEF Ints
  <2>7. ASSUME NEW y \in T, y # z
        PROVE  Sm(T) = f[y] + Sm(T \ {y})
    <3>1. (T \ {z}) \ {y} = (T \ {y}) \ {z}
      OBVIOUS
    <3>2. Sm(T \ {z}) = f[y] + Sm((T \ {z}) \ {y})
      BY <2>2, <2>5, <2>7
    <3>3. Sm(T \ {y}) = f[z] + Sm((T \ {z}) \ {y})
      BY <2>2, <2>5, <2>7, <3>1
    <3>4. Sm((T \ {z}) \ {y}) \in Int
      <4>1. Cardinality((T \ {z}) \ {y}) = Cardinality(T \ {z}) - 1
        BY <2>2, <2>4, <2>7, FS_RemoveElement
      <4>2. Cardinality((T \ {z}) \ {y}) \in Nat /\ Cardinality(T \ {z}) = n
        BY <2>2, <2>4, FS_RemoveElement, FS_Subset, FS_CardinalityType
      <4>3. Cardinality((T \ {z}) \ {y}) \in 0 .. n
        BY <4>1, <4>2
      <4> QED BY <4>3, <1>2
    <3> QED BY <2>2, <2>3, <3>2, <3>3, <3>4 DEF Ints
  <2> QED BY <2>3, <2>6, <2>7
<1>3. Nat \subseteq {n \in Nat : \A m \in 0 .. n : m \in D}
  <2> DEFINE E == {n \in Nat : \A m \in 0 .. n : m \in D}
  <2> HIDE DEF D
  <2>1. 0 \in E
    BY <1>1
  <2>2. \A n \in Nat : n \in E => n + 1 \in E
    <3> TAKE n \in Nat
    <3> HAVE n \in E
    <3>1. n + 1 \in D
      BY <1>2
    <3>2. \A m \in 0 .. (n + 1) : m \in 0 .. n \/ m = n + 1
      OBVIOUS
    <3> QED BY <3>1, <3>2
  <2> HIDE DEF E
  <2>3. Nat \subseteq E
    BY <2>1, <2>2, SetNatInduction
  <2> QED BY <2>3 DEF E
<1>4. Cardinality(S) \in Nat /\ Cardinality(S \ {x}) \in Nat
  BY FS_Subset, FS_CardinalityType
<1>5. Cardinality(S) \in D /\ Cardinality(S \ {x}) \in D
  <2> HIDE DEF D
  <2>1. \A n \in Nat : n \in 0 .. n
    OBVIOUS
  <2> QED BY <1>3, <1>4, <2>1
<1> QED BY <1>5

\* A sum of integers is one.
LEMMA SumType ==
    ASSUME NEW f, NEW S, IsFiniteSet(S), Ints(f, S)
    PROVE  SumFunctionOnSet(f, S) \in Int
<1>1. CASE S = {}
  BY <1>1, SumEmpty
<1>2. CASE S # {}
  BY <1>2, SumRemove
<1> QED BY <1>1, <1>2

\* One element more adds its number.
LEMMA SumAdd ==
    ASSUME NEW f, NEW S, IsFiniteSet(S), NEW x, x \notin S, Ints(f, S \cup {x})
    PROVE  SumFunctionOnSet(f, S \cup {x}) = f[x] + SumFunctionOnSet(f, S)
<1>1. IsFiniteSet(S \cup {x}) /\ (S \cup {x}) \ {x} = S
  BY FS_AddElement
<1> QED BY <1>1, SumRemove

\* Disjoint sets add up.
LEMMA SumUnion ==
    ASSUME NEW f, NEW S, NEW R, IsFiniteSet(S), IsFiniteSet(R), S \cap R = {}, Ints(f, S \cup R)
    PROVE  SumFunctionOnSet(f, S \cup R) = SumFunctionOnSet(f, S) + SumFunctionOnSet(f, R)
<1> DEFINE Sm(T) == SumFunctionOnSet(f, T)
           C == {T \in SUBSET R : Sm(S \cup T) = Sm(S) + Sm(T)}
<1> HIDE DEF Sm
<1>1. {} \in C
  <2>1. Sm(S) \in Int
    BY SumType DEF Ints, Sm
  <2> QED BY <2>1, SumEmpty DEF Sm
<1>2. ASSUME NEW T \in SUBSET R, NEW x \in R \ T, T \in C
      PROVE  T \cup {x} \in C
  <2>1. IsFiniteSet(T) /\ IsFiniteSet(S \cup T)
    BY FS_Subset, FS_Union
  <2>2. Sm(T \cup {x}) = f[x] + Sm(T)
    BY <2>1, SumAdd DEF Ints, Sm
  <2>3. Sm((S \cup T) \cup {x}) = f[x] + Sm(S \cup T)
    BY <2>1, SumAdd DEF Ints, Sm
  <2>4. S \cup (T \cup {x}) = (S \cup T) \cup {x}
    OBVIOUS
  <2>5. Sm(S) \in Int /\ Sm(T) \in Int /\ f[x] \in Int
    BY <2>1, SumType DEF Ints, Sm
  <2>6. Sm(S \cup T) = Sm(S) + Sm(T)
    BY <1>2
  <2>7. Sm(S \cup (T \cup {x})) = f[x] + Sm(S \cup T)
    BY <2>3, <2>4
  <2>8. Sm(S \cup (T \cup {x})) = Sm(S) + Sm(T \cup {x})
    BY <2>2, <2>5, <2>6, <2>7
  <2> QED BY <2>8
<1>3. R \in C
  <2> HIDE DEF C
  <2> QED BY <1>1, <1>2, FiniteSetInduction
<1> QED BY <1>3 DEF Sm

\* Larger numbers, a larger sum.
LEMMA SumMonotone ==
    ASSUME NEW f, NEW g, NEW S, IsFiniteSet(S), Ints(f, S), Ints(g, S),
           \A x \in S : f[x] <= g[x]
    PROVE  SumFunctionOnSet(f, S) <= SumFunctionOnSet(g, S)
<1> DEFINE C == {T \in SUBSET S : SumFunctionOnSet(f, T) <= SumFunctionOnSet(g, T)}
<1>1. {} \in C
  BY SumEmpty
<1>2. ASSUME NEW T \in SUBSET S, NEW x \in S \ T, T \in C
      PROVE  T \cup {x} \in C
  <2>1. IsFiniteSet(T)
    BY FS_Subset
  <2>2. /\ SumFunctionOnSet(f, T \cup {x}) = f[x] + SumFunctionOnSet(f, T)
        /\ SumFunctionOnSet(g, T \cup {x}) = g[x] + SumFunctionOnSet(g, T)
    BY <2>1, SumAdd DEF Ints
  <2>3. SumFunctionOnSet(f, T) \in Int /\ SumFunctionOnSet(g, T) \in Int
    BY <2>1, SumType DEF Ints
  <2>4. f[x] \in Int /\ g[x] \in Int /\ f[x] <= g[x]
    BY DEF Ints
  <2> QED BY <1>2, <2>2, <2>3, <2>4
<1> HIDE DEF C
<1>3. S \in C
  BY <1>1, <1>2, FiniteSetInduction
<1> QED BY <1>3 DEF C

\* The sum of two functions is the sum of their sums.
LEMMA SumOfSums ==
    ASSUME NEW f, NEW g, NEW h, NEW S, IsFiniteSet(S), Ints(f, S), Ints(g, S),
           \A x \in S : h[x] = f[x] + g[x]
    PROVE  SumFunctionOnSet(h, S) = SumFunctionOnSet(f, S) + SumFunctionOnSet(g, S)
<1> DEFINE C == {T \in SUBSET S : SumFunctionOnSet(h, T) = SumFunctionOnSet(f, T) + SumFunctionOnSet(g, T)}
<1>0. Ints(h, S)
  BY DEF Ints
<1>1. {} \in C
  BY SumEmpty
<1>2. ASSUME NEW T \in SUBSET S, NEW x \in S \ T, T \in C
      PROVE  T \cup {x} \in C
  <2>1. IsFiniteSet(T)
    BY FS_Subset
  <2>2. /\ SumFunctionOnSet(f, T \cup {x}) = f[x] + SumFunctionOnSet(f, T)
        /\ SumFunctionOnSet(g, T \cup {x}) = g[x] + SumFunctionOnSet(g, T)
        /\ SumFunctionOnSet(h, T \cup {x}) = h[x] + SumFunctionOnSet(h, T)
    BY <1>0, <2>1, SumAdd DEF Ints
  <2>3. SumFunctionOnSet(f, T) \in Int /\ SumFunctionOnSet(g, T) \in Int
    BY <2>1, SumType DEF Ints
  <2>4. f[x] \in Int /\ g[x] \in Int /\ h[x] = f[x] + g[x]
    BY DEF Ints
  <2> QED BY <1>2, <2>2, <2>3, <2>4
<1> HIDE DEF C
<1>3. S \in C
  BY <1>1, <1>2, FiniteSetInduction
<1> QED BY <1>3 DEF C

\* A common factor comes out of the sum.
LEMMA SumScale ==
    ASSUME NEW f, NEW g, NEW S, NEW k \in Int, IsFiniteSet(S), Ints(f, S),
           \A x \in S : g[x] = k * f[x]
    PROVE  SumFunctionOnSet(g, S) = k * SumFunctionOnSet(f, S)
<1> DEFINE C == {T \in SUBSET S : SumFunctionOnSet(g, T) = k * SumFunctionOnSet(f, T)}
<1>0. Ints(g, S)
  BY DEF Ints
<1>1. {} \in C
  BY SumEmpty
<1>2. ASSUME NEW T \in SUBSET S, NEW x \in S \ T, T \in C
      PROVE  T \cup {x} \in C
  <2>1. IsFiniteSet(T)
    BY FS_Subset
  <2>2. /\ SumFunctionOnSet(f, T \cup {x}) = f[x] + SumFunctionOnSet(f, T)
        /\ SumFunctionOnSet(g, T \cup {x}) = g[x] + SumFunctionOnSet(g, T)
    BY <1>0, <2>1, SumAdd DEF Ints
  <2>3. SumFunctionOnSet(f, T) \in Int /\ f[x] \in Int
    BY <2>1, SumType DEF Ints
  <2>4. \A a, b \in Int : k * (a + b) = k * a + k * b
    OBVIOUS
  <2> QED BY <1>2, <2>2, <2>3, <2>4
<1> HIDE DEF C
<1>3. S \in C
  BY <1>1, <1>2, FiniteSetInduction
<1> QED BY <1>3 DEF C

\* A sum of natural numbers is one.
LEMMA SumNonNegative ==
    ASSUME NEW f, NEW S, IsFiniteSet(S), \A x \in S : f[x] \in Nat
    PROVE  SumFunctionOnSet(f, S) \in Nat
<1> DEFINE C == {T \in SUBSET S : SumFunctionOnSet(f, T) \in Nat}
<1>1. {} \in C
  BY SumEmpty
<1>2. ASSUME NEW T \in SUBSET S, NEW x \in S \ T, T \in C
      PROVE  T \cup {x} \in C
  <2>1. IsFiniteSet(T)
    BY FS_Subset
  <2>2. SumFunctionOnSet(f, T \cup {x}) = f[x] + SumFunctionOnSet(f, T)
    BY <2>1, SumAdd DEF Ints
  <2> QED BY <1>2, <2>2
<1> HIDE DEF C
<1>3. S \in C
  BY <1>1, <1>2, FiniteSetInduction
<1> QED BY <1>3 DEF C

\* A sum of zeros is zero.
LEMMA SumOfZeros ==
    ASSUME NEW f, NEW S, IsFiniteSet(S), \A x \in S : f[x] = 0
    PROVE  SumFunctionOnSet(f, S) = 0
<1> DEFINE C == {T \in SUBSET S : SumFunctionOnSet(f, T) = 0}
<1>1. {} \in C
  BY SumEmpty
<1>2. ASSUME NEW T \in SUBSET S, NEW x \in S \ T, T \in C
      PROVE  T \cup {x} \in C
  <2>1. IsFiniteSet(T)
    BY FS_Subset
  <2>2. SumFunctionOnSet(f, T \cup {x}) = f[x] + SumFunctionOnSet(f, T)
    BY <2>1, SumAdd DEF Ints
  <2> QED BY <1>2, <2>2
<1> HIDE DEF C
<1>3. S \in C
  BY <1>1, <1>2, FiniteSetInduction
<1> QED BY <1>3 DEF C

-----------------------------------------------------------------------------
(* Ranks                                                                    *)

\* The number of elements of S up to d.
RankIn(S, d) == Cardinality({e \in S : e <= d})

\* Numbering a finite set without repetition uses every number.
LEMMA NumberedOnto ==
  ASSUME NEW S, IsFiniteSet(S), NEW f \in [S -> 1 .. Cardinality(S)],
         \A x, y \in S : f[x] = f[y] => x = y,
         NEW k \in 0 .. Cardinality(S)
  PROVE  /\ \A i \in 1 .. Cardinality(S) : \E x \in S : f[x] = i
         /\ IsFiniteSet({x \in S : f[x] <= k}) /\ Cardinality({x \in S : f[x] <= k}) = k
<1> DEFINE n == Cardinality(S)
           T == {x \in S : f[x] <= k}
           g == [x \in T |-> f[x]]
<1>1. n \in Nat /\ k \in Nat
  <2>1. n \in Nat
    BY FS_CardinalityType
  <2> QED BY <2>1
<1>2. IsFiniteSet(1 .. n) /\ Cardinality(1 .. n) = n
  BY <1>1, FS_Interval
<1>3. f \in Injection(S, 1 .. n)
  BY DEF Injection, IsInjective
<1>4. f \in Surjection(S, 1 .. n)
  <2> HIDE DEF n
  <2>1. Cardinality(S) = Cardinality(1 .. n)
    BY <1>2 DEF n
  <2> QED BY <1>2, <1>3, <2>1, FS_Injection
<1>5. \A i \in 1 .. n : \E x \in S : f[x] = i
  BY <1>4 DEF Surjection
<1>6. g \in [T -> 1 .. k]
  <2>1. ASSUME NEW x \in T
        PROVE  f[x] \in 1 .. k
    BY <1>1
  <2> QED BY <2>1
<1>7. g \in Injection(T, 1 .. k)
  BY <1>6 DEF Injection, IsInjective
<1>8. g \in Surjection(T, 1 .. k)
  <2> SUFFICES ASSUME NEW i \in 1 .. k
               PROVE  \E x \in T : g[x] = i
    BY <1>6 DEF Surjection
  <2>1. i \in 1 .. n /\ i <= k
    BY <1>1
  <2>2. PICK x \in S : f[x] = i
    BY <1>5, <2>1
  <2> QED BY <2>1, <2>2
<1>9. IsFiniteSet(T)
  BY FS_Subset
<1>10. Cardinality(1 .. k) = k
  BY <1>1, FS_Interval
<1> HIDE DEF g, T
<1>11. Cardinality(T) = Cardinality(1 .. k)
  BY <1>7, <1>8, <1>9, FS_Surjection
<1> QED BY <1>5, <1>9, <1>10, <1>11 DEF T

\* Ranks are numbers from one to the size of the set, and grow with the elements.
LEMMA RankGrows ==
  ASSUME NEW S \in SUBSET Int, IsFiniteSet(S)
  PROVE  /\ \A d \in Int : RankIn(S, d) \in 0 .. Cardinality(S)
         /\ \A d \in S : RankIn(S, d) \in 1 .. Cardinality(S)
         /\ \A d, e \in Int : d <= e => RankIn(S, d) <= RankIn(S, e)
         /\ \A d \in Int, e \in S : d < e => RankIn(S, d) < RankIn(S, e)
<1> DEFINE U(d) == {e \in S : e <= d}
<1>1. \A d : U(d) \in SUBSET S
  OBVIOUS
<1> HIDE DEF U
<1>2. \A d : /\ IsFiniteSet(U(d)) /\ Cardinality(U(d)) \in Nat /\ Cardinality(U(d)) <= Cardinality(S)
  BY <1>1, FS_Subset, FS_CardinalityType
<1>3. Cardinality(S) \in Nat
  BY FS_CardinalityType
<1>4. \A d \in S : Cardinality(U(d)) # 0
  <2>1. \A d \in S : d \in U(d)
    BY DEF U
  <2> QED BY <1>2, <2>1, FS_EmptySet
<1>5. ASSUME NEW d \in Int, NEW e \in Int, d <= e
      PROVE  Cardinality(U(d)) <= Cardinality(U(e))
  <2>1. U(d) \in SUBSET U(e)
    <3> SUFFICES ASSUME NEW x \in U(d)
                 PROVE  x \in U(e)
      OBVIOUS
    <3>1. x \in S /\ x <= d /\ x \in Int
      BY DEF U
    <3> QED BY <1>5, <3>1 DEF U
  <2> QED BY <1>2, <2>1, FS_Subset
<1>6. ASSUME NEW d \in Int, NEW e \in S, d < e
      PROVE  Cardinality(U(d)) < Cardinality(U(e))
  <2>1. U(d) \in SUBSET U(e) /\ e \in U(e) /\ e \notin U(d)
    <3>1. e \in Int
      OBVIOUS
    <3>2. ASSUME NEW x \in U(d)
          PROVE  x \in U(e)
      <4>1. x \in S /\ x <= d /\ x \in Int
        BY DEF U
      <4> QED BY <1>6, <3>1, <4>1 DEF U
    <3>3. e <= e /\ ~(e <= d)
      BY <1>6, <3>1
    <3> QED BY <3>2, <3>3 DEF U
  <2>2. Cardinality(U(d)) <= Cardinality(U(e)) /\ Cardinality(U(d)) # Cardinality(U(e))
    BY <1>2, <2>1, FS_Subset
  <2> QED BY <1>2, <2>2
<1>7. \A d : RankIn(S, d) = Cardinality(U(d))
  BY DEF RankIn, U
<1>8. \A d \in S : Cardinality(U(d)) \in 1 .. Cardinality(S)
  BY <1>2, <1>3, <1>4
<1>9. \A d \in Int : Cardinality(U(d)) \in 0 .. Cardinality(S)
  BY <1>2, <1>3
<1> QED BY <1>5, <1>6, <1>7, <1>8, <1>9

\* Each rank is some element's, and the elements up to rank k are k.
LEMMA RankOnto ==
  ASSUME NEW S \in SUBSET Int, IsFiniteSet(S), NEW k \in 0 .. Cardinality(S)
  PROVE  /\ \A i \in 1 .. Cardinality(S) : \E d \in S : RankIn(S, d) = i
         /\ Cardinality({d \in S : RankIn(S, d) <= k}) = k
<1> DEFINE f == [d \in S |-> RankIn(S, d)]
<1>1. f \in [S -> 1 .. Cardinality(S)]
  BY RankGrows
<1>2. ASSUME NEW x \in S, NEW y \in S, f[x] = f[y]
      PROVE  x = y
  <2>1. x \in Int /\ y \in Int /\ RankIn(S, x) \in Int /\ RankIn(S, y) \in Int
    BY RankGrows
  <2>2. ~(RankIn(S, x) < RankIn(S, y)) /\ ~(RankIn(S, y) < RankIn(S, x))
    BY <1>2, <2>1
  <2>3. ~(x < y) /\ ~(y < x)
    BY <2>1, <2>2, RankGrows
  <2> QED BY <2>1, <2>3
<1>3. \A d \in S : f[d] = RankIn(S, d)
  OBVIOUS
<1> HIDE DEF f
<1>4. /\ \A i \in 1 .. Cardinality(S) : \E x \in S : f[x] = i
      /\ Cardinality({x \in S : f[x] <= k}) = k
  BY <1>1, <1>2, NumberedOnto
<1>5. {x \in S : f[x] <= k} = {d \in S : RankIn(S, d) <= k}
  BY <1>3
<1> QED BY <1>3, <1>4, <1>5

-----------------------------------------------------------------------------
(* Sublists                                                                 *)

\* What Among computes, prefix by prefix.
IsAmong(seq, S, f) ==
  f = [i \in 0 .. Len(seq) |->
         IF i = 0 THEN << >> ELSE IF seq[i] \in S THEN Append(f[i - 1], seq[i]) ELSE f[i - 1]]

\* Among is the value of such a function.
LEMMA AmongDef ==
  ASSUME NEW seq, NEW S
  PROVE  Among(seq, S) = (CHOOSE f : IsAmong(seq, S, f))[Len(seq)]
BY DEF Among, IsAmong

\* For a sequence there is one.
LEMMA AmongExists ==
  ASSUME NEW R, NEW seq \in Seq(R), NEW S
  PROVE  \E f : IsAmong(seq, S, f)
<1> DEFINE Rhs(f, i) == IF i = 0 THEN << >> ELSE IF seq[i] \in S THEN Append(f[i - 1], seq[i]) ELSE f[i - 1]
           Upto(f, n) == \A i \in 0 .. Len(seq) : i <= n => f[i] = Rhs(f, i)
           D == {n \in Nat : \E f : Upto(f, n)}
<1>1. 0 \in D
  <2>1. Upto([i \in 0 .. Len(seq) |-> << >>], 0)
    OBVIOUS
  <2> QED BY <2>1
<1>2. ASSUME NEW n \in Nat, n \in D
      PROVE  n + 1 \in D
  <2>1. PICK f : Upto(f, n)
    BY <1>2
  <2> DEFINE h == [i \in 0 .. Len(seq) |-> Rhs(f, i)]
  <2>2. ASSUME NEW i \in 0 .. Len(seq), i <= n + 1
        PROVE  h[i] = Rhs(h, i)
    <3>1. CASE i = 0
      BY <3>1
    <3>2. CASE i # 0
      <4>1. i - 1 \in 0 .. Len(seq) /\ i - 1 <= n
        BY <2>2, <3>2
      <4>2. h[i - 1] = f[i - 1]
        BY <2>1, <4>1
      <4>3. h[i] = Rhs(f, i)
        OBVIOUS
      <4> HIDE DEF h
      <4> QED BY <3>2, <4>2, <4>3
    <3> QED BY <3>1, <3>2
  <2>3. Upto(h, n + 1)
    BY <2>2
  <2>4. \E g : Upto(g, n + 1)
    <3> HIDE DEF h, Upto
    <3> QED BY <2>3
  <2> HIDE DEF Upto, h
  <2> QED BY <2>4
<1>3. Nat \subseteq D
  <2> HIDE DEF D
  <2> QED BY <1>1, <1>2, SetNatInduction
<1>4. PICK f : Upto(f, Len(seq))
  <2>1. Len(seq) \in D
    <3> HIDE DEF D
    <3> QED BY <1>3
  <2> HIDE DEF Upto
  <2> QED BY <2>1
<1>5. IsAmong(seq, S, [i \in 0 .. Len(seq) |-> f[i]])
  <2> DEFINE h == [i \in 0 .. Len(seq) |-> f[i]]
  <2>1. \A i \in 0 .. Len(seq) : f[i] = Rhs(f, i)
    BY <1>4
  <2>2. \A i \in 0 .. Len(seq) : Rhs(f, i) = Rhs(h, i)
    OBVIOUS
  <2>3. h = [i \in 0 .. Len(seq) |-> Rhs(h, i)]
    BY <2>1, <2>2
  <2> QED BY <2>3 DEF IsAmong
<1> QED BY <1>5

\* out is the members of S among the first n of seq, in the order of seq.
InOrder(seq, S, n, out, at) ==
  /\ at \in [1 .. Len(out) -> 1 .. n]
  /\ \A k \in 1 .. Len(out) : out[k] = seq[at[k]] /\ seq[at[k]] \in S
  /\ \A k, m \in 1 .. Len(out) : k < m => at[k] < at[m]
  /\ \A j \in 1 .. n : seq[j] \in S => \E k \in 1 .. Len(out) : at[k] = j

\* What is kept of a sequence is in its order.
LEMMA AmongOrder ==
  ASSUME NEW R, NEW seq \in Seq(R), NEW S
  PROVE  Among(seq, S) \in Seq(R) /\ \E at : InOrder(seq, S, Len(seq), Among(seq, S), at)
<1>1. PICK f : IsAmong(seq, S, f) /\ f = CHOOSE g : IsAmong(seq, S, g)
  BY AmongExists
<1>2. \A i \in 0 .. Len(seq) :
        f[i] = IF i = 0 THEN << >> ELSE IF seq[i] \in S THEN Append(f[i - 1], seq[i]) ELSE f[i - 1]
  BY <1>1 DEF IsAmong
<1> DEFINE Ok(i) == f[i] \in Seq(R) /\ \E at : InOrder(seq, S, i, f[i], at)
           D == {i \in Nat : i <= Len(seq) => Ok(i)}
<1>3. 0 \in D
  <2>1. f[0] = << >>
    BY <1>2
  <2>2. << >> \in Seq(R) /\ InOrder(seq, S, 0, << >>, << >>)
    BY DEF InOrder
  <2> QED BY <2>1, <2>2
<1>4. ASSUME NEW n \in Nat, n \in D
      PROVE  n + 1 \in D
  <2> SUFFICES ASSUME n + 1 <= Len(seq)
               PROVE  Ok(n + 1)
    OBVIOUS
  <2>1. n + 1 \in 0 .. Len(seq) /\ n + 1 \in 1 .. Len(seq) /\ n <= Len(seq) /\ seq[n + 1] \in R
    OBVIOUS
  <2>2. f[n + 1] = IF seq[n + 1] \in S THEN Append(f[n], seq[n + 1]) ELSE f[n]
    BY <1>2, <2>1
  <2>3. f[n] \in Seq(R) /\ \E at : InOrder(seq, S, n, f[n], at)
    BY <1>4, <2>1
  <2>4. PICK at : InOrder(seq, S, n, f[n], at)
    BY <2>3
  <2>5. CASE seq[n + 1] \notin S
    <3>1. f[n + 1] = f[n]
      BY <2>2, <2>5
    <3>2. InOrder(seq, S, n + 1, f[n], at)
      BY <2>4, <2>5 DEF InOrder
    <3> QED BY <2>3, <3>1, <3>2
  <2>6. CASE seq[n + 1] \in S
    <3> DEFINE out == Append(f[n], seq[n + 1])
               l == Len(f[n])
               at2 == [k \in 1 .. (l + 1) |-> IF k = l + 1 THEN n + 1 ELSE at[k]]
    <3>1. f[n + 1] = out /\ out \in Seq(R) /\ l \in Nat /\ Len(out) = l + 1
          /\ out[l + 1] = seq[n + 1] /\ \A k \in 1 .. l : out[k] = f[n][k]
      BY <2>1, <2>2, <2>3, <2>6
    <3>2. /\ at \in [1 .. l -> 1 .. n]
          /\ \A k \in 1 .. l : f[n][k] = seq[at[k]] /\ seq[at[k]] \in S
          /\ \A k, m \in 1 .. l : k < m => at[k] < at[m]
          /\ \A j \in 1 .. n : seq[j] \in S => \E k \in 1 .. l : at[k] = j
      BY <2>4 DEF InOrder
    <3> HIDE DEF out, l
    <3>3. at2 \in [1 .. (l + 1) -> 1 .. (n + 1)] /\ at2[l + 1] = n + 1 /\ \A k \in 1 .. l : at2[k] = at[k]
      BY <3>1, <3>2
    <3> HIDE DEF at2
    <3>4. \A k \in 1 .. (l + 1) : k = l + 1 \/ k \in 1 .. l
      BY <3>1
    <3>5. \A k \in 1 .. (l + 1) : out[k] = seq[at2[k]] /\ seq[at2[k]] \in S
      BY <2>6, <3>1, <3>2, <3>3, <3>4
    <3>6. \A k, m \in 1 .. (l + 1) : k < m => at2[k] < at2[m]
      <4> TAKE k, m \in 1 .. (l + 1)
      <4> HAVE k < m
      <4>1. k \in 1 .. l /\ at2[k] = at[k] /\ at[k] \in 1 .. n
        BY <3>1, <3>2, <3>3
      <4>2. CASE m = l + 1
        BY <3>3, <4>1, <4>2
      <4>3. CASE m \in 1 .. l
        BY <3>2, <3>3, <4>1, <4>3
      <4> QED BY <3>4, <4>2, <4>3
    <3>7. \A j \in 1 .. (n + 1) : seq[j] \in S => \E k \in 1 .. (l + 1) : at2[k] = j
      <4> TAKE j \in 1 .. (n + 1)
      <4> HAVE seq[j] \in S
      <4>1. CASE j = n + 1
        BY <3>1, <3>3, <4>1
      <4>2. CASE j \in 1 .. n
        <5>1. PICK k \in 1 .. l : at[k] = j
          BY <3>2, <4>2
        <5> QED BY <3>1, <3>3, <5>1
      <4> QED BY <4>1, <4>2
    <3>8. InOrder(seq, S, n + 1, out, at2)
      BY <3>1, <3>3, <3>5, <3>6, <3>7 DEF InOrder
    <3> QED BY <3>1, <3>8
  <2> QED BY <2>5, <2>6
<1>5. Nat \subseteq D
  <2> HIDE DEF D
  <2> QED BY <1>3, <1>4, SetNatInduction
<1>6. Ok(Len(seq))
  <2> HIDE DEF Ok
  <2> QED BY <1>5
<1>7. Among(seq, S) = f[Len(seq)]
  BY <1>1, AmongDef
<1> QED BY <1>6, <1>7
=============================================================================
