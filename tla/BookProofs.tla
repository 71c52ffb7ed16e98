----------------------------- MODULE BookProofs -----------------------------
(****************************************************************************)
(* The daily book, for any universe, rankings, closes, limits and bands: a  *)
(* book sized, governed or wrapped passes the limits it is checked          *)
(* against, and what is dealt follows from it.                              *)
(****************************************************************************)
EXTENDS Book, CountingLemmas

-----------------------------------------------------------------------------
(* Risk and sizing                                                          *)

\* A book of weights over one denominator.
Books == [n : [Names -> Int], d : Nat \ {0}]

-----------------------------------------------------------------------------
(* Numbers *)

\* A bounded set of numbers has a largest, and a set of numbers a smallest.
LEMMA MaxIn ==
  ASSUME NEW m \in Nat, NEW S \in SUBSET (1 .. m), S # {}
  PROVE  Max(S) \in S /\ \A y \in S : y <= Max(S)
<1> DEFINE D == {n \in Nat : \A T \in SUBSET (1 .. n) : T # {} => \E x \in T : \A y \in T : x >= y}
<1>1. 0 \in D
  <2>1. \A T \in SUBSET (1 .. 0) : T = {}
    OBVIOUS
  <2> QED BY <2>1
<1>2. ASSUME NEW n \in Nat, n \in D
      PROVE  n + 1 \in D
  <2> SUFFICES ASSUME NEW T \in SUBSET (1 .. (n + 1)), T # {}
               PROVE  \E x \in T : \A y \in T : x >= y
    OBVIOUS
  <2>1. CASE n + 1 \in T
    BY <2>1
  <2>2. CASE n + 1 \notin T
    <3>1. T \in SUBSET (1 .. n)
      BY <2>2
    <3> QED BY <3>1, <1>2
  <2> QED BY <2>1, <2>2
<1>3. Nat \subseteq D
  <2> HIDE DEF D
  <2> QED BY <1>1, <1>2, SetNatInduction
<1>4. \E x \in S : \A y \in S : x >= y
  BY <1>3
<1>5. Max(S) \in S /\ \A y \in S : Max(S) >= y
  BY <1>4 DEF Max
<1> QED BY <1>5

\* A set of natural numbers has a smallest.
LEMMA MinIn ==
  ASSUME NEW S \in SUBSET Nat, S # {}
  PROVE  Min(S) \in S /\ \A y \in S : Min(S) <= y
<1> DEFINE D == {n \in Nat : n \in S => \E x \in S : \A y \in S : x <= y}
           E == {n \in Nat : \A k \in 0 .. n : k \in D}
<1>1. 0 \in E
  OBVIOUS
<1>2. ASSUME NEW n \in Nat, n \in E
      PROVE  n + 1 \in E
  <2>1. ASSUME n + 1 \in S
        PROVE  \E x \in S : \A y \in S : x <= y
    <3>1. CASE \E k \in 0 .. n : k \in S
      BY <1>2, <3>1
    <3>2. CASE ~ \E k \in 0 .. n : k \in S
      <4>1. \A y \in S : n + 1 <= y
        BY <3>2
      <4> QED BY <2>1, <4>1
    <3> QED BY <3>1, <3>2
  <2>2. n + 1 \in D
    BY <2>1
  <2>3. \A k \in 0 .. (n + 1) : k \in 0 .. n \/ k = n + 1
    OBVIOUS
  <2> HIDE DEF D
  <2> QED BY <1>2, <2>2, <2>3
<1>3. Nat \subseteq E
  <2> HIDE DEF E
  <2> QED BY <1>1, <1>2, SetNatInduction
<1>4. PICK n \in Nat : n \in S
  OBVIOUS
<1>5. n \in D
  BY <1>3, <1>4
<1>6. \E x \in S : \A y \in S : x <= y
  BY <1>4, <1>5
<1>7. Min(S) \in S /\ \A y \in S : Min(S) <= y
  BY <1>6 DEF Min
<1> QED BY <1>7

\* Integer division leaves a remainder below the divisor.
LEMMA Division ==
  ASSUME NEW g \in Nat \ {0}, NEW x \in Int
  PROVE  /\ x \div g \in Int /\ x % g \in 0 .. (g - 1)
         /\ x = g * (x \div g) + (x % g)
<1>1. g \in Int /\ g > 0
  OBVIOUS
<1> QED BY <1>1

\* Multiplying both sides by a positive number.
LEMMA Multiplied ==
  ASSUME NEW g \in Nat \ {0}, NEW a \in Int, NEW b \in Int
  PROVE  /\ g * a <= g * b <=> a <= b
         /\ g * a > g * b <=> a > b
OBVIOUS

\* The size of a multiple is the multiple of the size.
LEMMA SizeMultiplied ==
  ASSUME NEW k \in Nat, NEW x \in Int
  PROVE  Size(k * x) = k * Size(x) /\ Size(x) \in Nat
BY DEF Size

-----------------------------------------------------------------------------
(* Lowest terms *)

\* v is w, up to a common factor g.
Multiple(g, w, v) ==
  /\ g \in Nat \ {0} /\ w.d = g * v.d
  /\ \A s \in Names : w.n[s] = g * v.n[s]

\* Lowest terms: the book divided by a common factor.
LEMMA LowestIs ==
  ASSUME NEW w \in Books
  PROVE  Lowest(w) \in Books /\ \E g \in Nat \ {0} : Multiple(g, w, Lowest(w))
<1> DEFINE M == {w.d} \cup {Size(w.n[s]) : s \in In(w)}
           g == Max(Common(w))
<1>1. M \in SUBSET Nat /\ M # {} /\ \A y \in M : y > 0
  BY DEF Books, In, Size
<1>2. Min(M) \in Nat /\ Min(M) > 0
  <2> HIDE DEF M
  <2> QED BY <1>1, MinIn
<1>3. Common(w) = {k \in 1 .. Min(M) : w.d % k = 0 /\ \A s \in In(w) : w.n[s] % k = 0}
  BY DEF Common
<1>4. 1 \in Common(w)
  <2> HIDE DEF M
  <2>1. \A x \in Int : x % 1 = 0
    OBVIOUS
  <2>2. w.d \in Int /\ \A s \in In(w) : w.n[s] \in Int
    BY DEF Books, In
  <2> QED BY <1>2, <1>3, <2>1, <2>2
<1>5. g \in Common(w)
  <2> HIDE DEF M
  <2>1. Common(w) \in SUBSET (1 .. Min(M))
    BY <1>3
  <2> QED BY <1>2, <2>1, <1>4, MaxIn
<1>6. g \in Nat \ {0} /\ w.d % g = 0 /\ \A s \in In(w) : w.n[s] % g = 0
  <2> HIDE DEF M, g
  <2> QED BY <1>2, <1>3, <1>5
<1> HIDE DEF g
<1>7. \A s \in Names : w.n[s] \in Int /\ w.n[s] % g = 0
  <2>1. 0 % g = 0
    BY <1>6
  <2> QED BY <1>6, <2>1 DEF In, Books
<1>8. \A x \in Int : x % g = 0 => x = g * (x \div g) /\ x \div g \in Int
  <2> TAKE x \in Int
  <2>1. x \div g \in Int /\ x = g * (x \div g) + (x % g)
    BY <1>6, Division
  <2>2. g * (x \div g) \in Int
    BY <1>6, <2>1
  <2> QED BY <2>1, <2>2
<1>9. Lowest(w) = [n |-> [s \in Names |-> w.n[s] \div g], d |-> w.d \div g]
  BY DEF Lowest, g
<1>10. w.d = g * (w.d \div g) /\ w.d \div g \in Nat \ {0}
  <2>1. w.d \in Nat /\ w.d > 0 /\ w.d = g * (w.d \div g) /\ w.d \div g \in Int
    BY <1>6, <1>8 DEF Books
  <2> QED BY <1>6, <2>1
<1>11. Lowest(w) \in Books
  BY <1>7, <1>8, <1>9, <1>10 DEF Books
<1>12. Multiple(g, w, Lowest(w))
  BY <1>6, <1>7, <1>8, <1>9, <1>10 DEF Multiple
<1> QED BY <1>6, <1>11, <1>12

-----------------------------------------------------------------------------
(* Shrinking a book *)

\* No weight of v is larger than the same weight of w, and none turns negative.
Shrinks(w, v) ==
  /\ v \in Books
  /\ \A s \in Names : /\ Size(v.n[s]) * w.d <= Size(w.n[s]) * v.d
                      /\ w.n[s] >= 0 => v.n[s] >= 0

\* The book w keeps the cap on the gross weight of S.
Fits(w, S, cap) == ~Exceeds(Gross(w, S), w.d, cap)

\* No name is above its cap.
NamesFit(w) == \A s \in Names : ~Exceeds(Size(w.n[s]), w.d, Limits.name)

\* Sizes and grosses are numbers.
LEMMA BookTypes ==
  ASSUME NEW w \in Books
  PROVE  /\ w.d \in Nat /\ w.d > 0 /\ w.n \in [Names -> Int]
         /\ \A s \in Names : Sizes(w)[s] = Size(w.n[s]) /\ Size(w.n[s]) \in Nat
         /\ \A S \in SUBSET Names : IsFiniteSet(S) /\ Gross(w, S) \in Nat /\ Ints(Sizes(w), S) /\ Ints(w.n, S)
<1>1. w.d \in Nat /\ w.d > 0 /\ w.n \in [Names -> Int]
  BY DEF Books
<1>2. \A s \in Names : Sizes(w)[s] = Size(w.n[s]) /\ Size(w.n[s]) \in Nat
  BY <1>1 DEF Sizes, Size
<1>3. ASSUME NEW S \in SUBSET Names
      PROVE  IsFiniteSet(S) /\ Gross(w, S) \in Nat /\ Ints(Sizes(w), S) /\ Ints(w.n, S)
  <2>1. IsFiniteSet(S)
    BY RiskAssumption, FS_Subset
  <2>2. \A s \in S : Sizes(w)[s] \in Nat
    BY <1>2
  <2>3. Gross(w, S) \in Nat
    BY <2>1, <2>2, SumNonNegative DEF Gross
  <2> QED BY <1>1, <2>1, <2>2, <2>3 DEF Ints
<1> QED BY <1>1, <1>2, <1>3

\* A name of a book that shrinks is no larger.
LEMMA Shrunk ==
  ASSUME NEW w, NEW v, Shrinks(w, v), NEW s \in Names
  PROVE  v \in Books /\ Size(v.n[s]) * w.d <= Size(w.n[s]) * v.d
<1> QED BY Zenon DEF Shrinks

\* A book shrinks to itself.
LEMMA ShrinksItself ==
  ASSUME NEW w \in Books
  PROVE  Shrinks(w, w)
BY BookTypes DEF Shrinks

\* And on, through another one.
LEMMA ShrinksOn ==
  ASSUME NEW w \in Books, NEW v, NEW u, Shrinks(w, v), Shrinks(v, u)
  PROVE  Shrinks(w, u)
<1>1. v \in Books /\ u \in Books
  BY DEF Shrinks
<1>2. /\ w.d \in Nat /\ w.d > 0 /\ v.d \in Nat /\ v.d > 0 /\ u.d \in Nat /\ u.d > 0
      /\ \A s \in Names : Size(w.n[s]) \in Nat /\ Size(v.n[s]) \in Nat /\ Size(u.n[s]) \in Nat
  BY <1>1, BookTypes
<1>3. \A a, b, c, p, q, r \in Nat :
        p > 0 /\ q > 0 /\ r > 0 /\ b * p <= a * q /\ c * q <= b * r => c * p <= a * r
  <2> TAKE a, b, c, p, q, r \in Nat
  <2> HAVE p > 0 /\ q > 0 /\ r > 0 /\ b * p <= a * q /\ c * q <= b * r
  <2>1. (c * q) * p <= (b * r) * p
    OBVIOUS
  <2>2. (b * p) * r <= (a * q) * r
    OBVIOUS
  <2>3. (b * r) * p = (b * p) * r /\ (c * q) * p = q * (c * p) /\ (a * q) * r = q * (a * r)
    OBVIOUS
  <2>4. c * p \in Int /\ a * r \in Int /\ (b * p) * r \in Int /\ q \in Nat \ {0}
    OBVIOUS
  <2>5. q * (c * p) <= q * (a * r)
    BY <2>1, <2>2, <2>3, <2>4
  <2> QED BY <2>4, <2>5, Multiplied
<1>4. ASSUME NEW s \in Names
      PROVE  Size(u.n[s]) * w.d <= Size(w.n[s]) * u.d
  <2>1. Size(v.n[s]) * w.d <= Size(w.n[s]) * v.d /\ Size(u.n[s]) * v.d <= Size(v.n[s]) * u.d
    BY DEF Shrinks
  <2> QED BY <1>2, <1>3, <2>1
<1>5. ASSUME NEW s \in Names, w.n[s] >= 0
      PROVE  u.n[s] >= 0
  BY <1>5 DEF Shrinks
<1> QED BY <1>1, <1>4, <1>5 DEF Shrinks

\* Reducing the fractions changes no weight.
LEMMA MultipleShrinks ==
  ASSUME NEW w \in Books, NEW v \in Books, NEW g, Multiple(g, w, v)
  PROVE  Shrinks(w, v)
<1> SUFFICES ASSUME NEW s \in Names
             PROVE  Size(v.n[s]) * w.d <= Size(w.n[s]) * v.d /\ (w.n[s] >= 0 => v.n[s] >= 0)
  BY DEF Shrinks
<1>1. g \in Nat /\ v.n[s] \in Int /\ v.d \in Nat /\ w.d = g * v.d /\ w.n[s] = g * v.n[s]
  BY DEF Multiple, Books
<1>2. Size(w.n[s]) = g * Size(v.n[s]) /\ Size(v.n[s]) \in Nat
  BY <1>1, SizeMultiplied
<1>3. w.n[s] >= 0 => v.n[s] >= 0
  <2>1. g \in Nat \ {0}
    BY DEF Multiple
  <2>2. g * 0 = 0 /\ \A x \in Int : x >= 0 <=> 0 <= x
    BY <1>1
  <2> QED BY <1>1, <2>1, <2>2, Multiplied
<1> QED BY <1>1, <1>2, <1>3

\* A shrunk book keeps the caps on names and on gross weights.
LEMMA ShrinkFits ==
  ASSUME NEW w \in Books, NEW v, Shrinks(w, v), NEW S \in SUBSET Names, NEW cap \in Ratio,
         Fits(w, S, cap)
  PROVE  Fits(v, S, cap)
<1>1. v \in Books
  BY DEF Shrinks
<1> DEFINE f == [s \in Names |-> w.d * Sizes(v)[s]]
           h == [s \in Names |-> v.d * Sizes(w)[s]]
           G == Gross(w, S)
           K == Gross(v, S)
<1>2. /\ w.d \in Nat /\ w.d > 0 /\ v.d \in Nat /\ v.d > 0 /\ IsFiniteSet(S)
      /\ Ints(Sizes(w), S) /\ Ints(Sizes(v), S) /\ G \in Nat /\ K \in Nat
  BY <1>1, BookTypes
<1>3. SumFunctionOnSet(f, S) = w.d * K /\ SumFunctionOnSet(h, S) = v.d * G
  <2>1. (\A s \in S : f[s] = w.d * Sizes(v)[s]) /\ (\A s \in S : h[s] = v.d * Sizes(w)[s])
    OBVIOUS
  <2> HIDE DEF f, h
  <2> QED BY <1>2, <2>1, SumScale DEF Gross
<1>4. Ints(f, S) /\ Ints(h, S) /\ \A s \in S : f[s] <= h[s]
  <2> SUFFICES ASSUME NEW s \in S
               PROVE  f[s] \in Int /\ h[s] \in Int /\ f[s] <= h[s]
    BY DEF Ints
  <2>1. Sizes(v)[s] = Size(v.n[s]) /\ Sizes(w)[s] = Size(w.n[s]) /\ Size(v.n[s]) \in Nat /\ Size(w.n[s]) \in Nat
    BY <1>1, BookTypes
  <2>2. Size(v.n[s]) * w.d <= Size(w.n[s]) * v.d
    <3>1. s \in Names
      OBVIOUS
    <3> QED BY <3>1, Shrunk
  <2> QED BY <1>2, <2>1, <2>2
<1>5. w.d * K <= v.d * G
  <2> HIDE DEF f, h, G, K
  <2> QED BY <1>2, <1>3, <1>4, SumMonotone
<1>6. cap[1] \in Nat /\ cap[2] \in Nat /\ cap[2] > 0
  BY DEF Ratio
<1>7. G * cap[2] <= cap[1] * w.d
  BY <1>2, <1>6 DEF Fits, Exceeds
<1> HIDE DEF G, K
<1>8. w.d * (K * cap[2]) <= w.d * (cap[1] * v.d)
  <2>1. (w.d * K) * cap[2] <= (v.d * G) * cap[2]
    BY <1>2, <1>5, <1>6
  <2>2. v.d * (G * cap[2]) <= v.d * (cap[1] * w.d)
    BY <1>2, <1>6, <1>7
  <2> QED BY <1>2, <1>6, <2>1, <2>2
<1>9. K * cap[2] <= cap[1] * v.d
  <2>1. K * cap[2] \in Int /\ cap[1] * v.d \in Int /\ w.d \in Nat \ {0}
    BY <1>2, <1>6
  <2> QED BY <1>8, <2>1, Multiplied
<1> QED BY <1>2, <1>6, <1>9 DEF Fits, Exceeds, K

\* Shrinking keeps the names under their cap.
LEMMA ShrinkNames ==
  ASSUME NEW w \in Books, NEW v, Shrinks(w, v), NamesFit(w)
  PROVE  NamesFit(v)
<1> DEFINE cap == Limits.name
<1>1. cap[1] \in Nat /\ cap[2] \in Nat /\ cap[2] > 0
  BY RiskAssumption DEF Ratio
<1> HIDE DEF cap
<1> SUFFICES ASSUME NEW s \in Names
             PROVE  ~Exceeds(Size(v.n[s]), v.d, cap)
  BY DEF NamesFit, cap
<1>2. /\ w.d \in Nat /\ w.d > 0 /\ v.d \in Nat /\ v.d > 0
      /\ Size(w.n[s]) \in Nat /\ Size(v.n[s]) \in Nat
      /\ Size(v.n[s]) * w.d <= Size(w.n[s]) * v.d
  <2>1. v \in Books /\ Size(v.n[s]) * w.d <= Size(w.n[s]) * v.d
    BY Shrunk
  <2> QED BY <2>1, BookTypes
<1>3. Size(w.n[s]) * cap[2] <= cap[1] * w.d
  BY <1>1, <1>2 DEF NamesFit, Exceeds, cap
<1>4. \A x, y, p, q, a, b \in Nat : p > 0 /\ x * p <= y * q /\ y * b <= a * p => x * b <= a * q
  <2> TAKE x, y, p, q, a, b \in Nat
  <2> HAVE p > 0 /\ x * p <= y * q /\ y * b <= a * p
  <2>1. (x * p) * b <= (y * q) * b
    OBVIOUS
  <2>2. (y * b) * q <= (a * p) * q
    OBVIOUS
  <2>3. (x * p) * b = p * (x * b) /\ (y * q) * b = (y * b) * q /\ (a * p) * q = p * (a * q)
    OBVIOUS
  <2>4. x * b \in Int /\ a * q \in Int /\ p \in Nat \ {0} /\ (y * b) * q \in Int
    OBVIOUS
  <2>5. p * (x * b) <= p * (a * q)
    BY <2>1, <2>2, <2>3, <2>4
  <2> QED BY <2>4, <2>5, Multiplied
<1>5. Size(v.n[s]) * cap[2] <= cap[1] * v.d
  BY <1>1, <1>2, <1>3, <1>4
<1> QED BY <1>1, <1>2, <1>5 DEF Exceeds

-----------------------------------------------------------------------------
(* The caps *)

\* The weights of S times a/b, before the reduction to lowest terms.
Scaled(w, S, a, b) == [n |-> [s \in Names |-> w.n[s] * (IF s \in S THEN a ELSE b)], d |-> w.d * b]

\* Scaling some names of a book makes a book; by less than one, a smaller one.
LEMMA ScaleIs ==
  ASSUME NEW w \in Books, NEW S \in SUBSET Names, NEW a \in Nat, NEW b \in Nat \ {0}
  PROVE  /\ Scaled(w, S, a, b) \in Books /\ Scale(w, S, a, b) \in Books
         /\ \E g \in Nat \ {0} : Multiple(g, Scaled(w, S, a, b), Scale(w, S, a, b))
         /\ Shrinks(Scaled(w, S, a, b), Scale(w, S, a, b))
         /\ a <= b => Shrinks(w, Scaled(w, S, a, b)) /\ Shrinks(w, Scale(w, S, a, b))
<1> DEFINE raw == Scaled(w, S, a, b)
<1>1. \A s \in Names : w.n[s] \in Int /\ w.d \in Nat /\ w.d > 0
  BY DEF Books
<1>2. w.d * b \in Nat \ {0} /\ \A s \in Names : w.n[s] * a \in Int /\ w.n[s] * b \in Int
  <2>1. \A x, y \in Nat : x > 0 /\ y > 0 => x * y \in Nat \ {0}
    OBVIOUS
  <2>2. w.d \in Nat /\ w.d > 0 /\ b \in Nat /\ b > 0
    BY DEF Books
  <2>3. w.d * b \in Nat \ {0}
    BY <2>1, <2>2
  <2> QED BY <1>1, <2>3
<1>3. raw \in Books
  BY <1>2 DEF Books, Scaled
<1>4. Scale(w, S, a, b) = Lowest(raw)
  BY DEF Scale, Scaled
<1>5. Scale(w, S, a, b) \in Books /\ \E g \in Nat \ {0} : Multiple(g, raw, Scale(w, S, a, b))
  BY <1>3, <1>4, LowestIs
<1>6. Shrinks(raw, Scale(w, S, a, b))
  BY <1>3, <1>5, MultipleShrinks
<1>7. ASSUME a <= b
      PROVE  Shrinks(w, raw)
  <2> SUFFICES ASSUME NEW s \in Names
               PROVE  Size(raw.n[s]) * w.d <= Size(w.n[s]) * raw.d /\ (w.n[s] >= 0 => raw.n[s] >= 0)
    BY <1>3 DEF Shrinks
  <2> DEFINE k == IF s \in S THEN a ELSE b
  <2>1. raw.n[s] = w.n[s] * k /\ raw.d = w.d * b /\ k \in Nat /\ k <= b
    BY <1>7 DEF Scaled
  <2> HIDE DEF k
  <2>2. Size(k * w.n[s]) = k * Size(w.n[s]) /\ Size(w.n[s]) \in Nat
    BY <1>1, <2>1, SizeMultiplied
  <2>3. Size(raw.n[s]) = k * Size(w.n[s])
    BY <1>1, <2>1, <2>2
  <2>4. k * (Size(w.n[s]) * w.d) <= b * (Size(w.n[s]) * w.d)
    BY <1>1, <2>1, <2>2
  <2>5. w.n[s] >= 0 => raw.n[s] >= 0
    BY <1>1, <2>1
  <2> QED BY <1>1, <2>1, <2>2, <2>3, <2>4, <2>5
<1>8. ASSUME a <= b
      PROVE  Shrinks(w, Scale(w, S, a, b))
  BY <1>3, <1>6, <1>7, <1>8, ShrinksOn
<1> QED BY <1>3, <1>5, <1>6, <1>7, <1>8

\* Clipping keeps every name under its cap.
LEMMA ClipFits ==
  ASSUME NEW w \in Books
  PROVE  Clip(w, Limits.name) \in Books /\ NamesFit(Clip(w, Limits.name))
         /\ Shrinks(w, Clip(w, Limits.name))
<1> DEFINE cap == Limits.name
           bound == cap[1] * w.d
           raw == [n |-> [s \in Names |-> Greatest(-bound, Least(bound, w.n[s] * cap[2]))],
                   d |-> w.d * cap[2]]
<1>1. cap[1] \in Nat /\ cap[2] \in Nat /\ cap[2] > 0
  BY RiskAssumption DEF Ratio
<1>2. w.d \in Nat /\ w.d > 0 /\ \A s \in Names : w.n[s] \in Int
  BY DEF Books
<1> HIDE DEF cap
<1>3. bound \in Nat /\ \A s \in Names : w.n[s] * cap[2] \in Int
  BY <1>1, <1>2
<1> HIDE DEF bound
<1>4. \A s \in Names : /\ raw.n[s] \in Int /\ Size(raw.n[s]) <= bound
                       /\ Size(raw.n[s]) <= Size(w.n[s] * cap[2])
                       /\ w.n[s] * cap[2] >= 0 => raw.n[s] >= 0
  BY <1>3 DEF Greatest, Least, Size
<1>5. w.d * cap[2] \in Nat \ {0}
  BY <1>1, <1>2
<1>6. raw \in Books
  BY <1>4, <1>5 DEF Books
<1>7. NamesFit(raw)
  <2> SUFFICES ASSUME NEW s \in Names
               PROVE  ~Exceeds(Size(raw.n[s]), raw.d, cap)
    BY DEF NamesFit, cap
  <2>1. Size(raw.n[s]) \in Nat
    BY <1>4 DEF Size
  <2>2. Size(raw.n[s]) * cap[2] <= bound * cap[2]
    BY <1>1, <1>3, <1>4, <2>1
  <2>3. bound * cap[2] = cap[1] * raw.d
    BY <1>1, <1>2 DEF bound
  <2>4. Size(raw.n[s]) * cap[2] \in Int /\ bound * cap[2] \in Int
    BY <1>1, <1>3, <2>1
  <2> QED BY <2>2, <2>3, <2>4 DEF Exceeds
<1>8. Shrinks(w, raw)
  <2> SUFFICES ASSUME NEW s \in Names
               PROVE  Size(raw.n[s]) * w.d <= Size(w.n[s]) * raw.d /\ (w.n[s] >= 0 => raw.n[s] >= 0)
    BY <1>6 DEF Shrinks
  <2>1. Size(cap[2] * w.n[s]) = cap[2] * Size(w.n[s]) /\ Size(w.n[s]) \in Nat
    BY <1>1, <1>2, SizeMultiplied
  <2>2. Size(raw.n[s]) \in Nat /\ Size(raw.n[s]) <= cap[2] * Size(w.n[s])
    <3>1. cap[2] * w.n[s] = w.n[s] * cap[2]
      BY <1>1, <1>2
    <3>2. Size(raw.n[s]) \in Nat
      BY <1>4 DEF Size
    <3> QED BY <1>4, <2>1, <3>1, <3>2
  <2>3. Size(raw.n[s]) * w.d <= (cap[2] * Size(w.n[s])) * w.d
    BY <1>1, <1>2, <2>1, <2>2
  <2>4. w.n[s] >= 0 => raw.n[s] >= 0
    <3>1. w.n[s] >= 0 => w.n[s] * cap[2] >= 0
      BY <1>1, <1>2
    <3> QED BY <1>4, <3>1
  <2> QED BY <1>1, <1>2, <2>1, <2>3, <2>4
<1>9. Clip(w, cap) = Lowest(raw)
  BY DEF Clip, bound
<1> HIDE DEF raw
<1>10. Lowest(raw) \in Books /\ Shrinks(raw, Lowest(raw))
  BY <1>6, LowestIs, MultipleShrinks
<1> QED BY <1>6, <1>7, <1>8, <1>9, <1>10, ShrinkNames, ShrinksOn DEF cap

\* Scaling to a gross cap keeps it, and grows no weight.
LEMMA CapGrossFits ==
  ASSUME NEW w \in Books, NEW S \in SUBSET Names, NEW cap \in Ratio
  PROVE  CapGross(w, S, cap) \in Books /\ Shrinks(w, CapGross(w, S, cap)) /\ Fits(CapGross(w, S, cap), S, cap)
<1> DEFINE G == Gross(w, S)
           a == cap[1] * w.d
           b == cap[2] * G
           raw == Scaled(w, S, a, b)
<1>1. cap[1] \in Nat /\ cap[2] \in Nat /\ cap[2] > 0 /\ w.d \in Nat /\ w.d > 0 /\ G \in Nat /\ w.n \in [Names -> Int]
  BY BookTypes DEF Ratio
<1>2. CASE ~Exceeds(G, w.d, cap)
  BY <1>2, ShrinksItself DEF CapGross, Fits
<1>3. CASE Exceeds(G, w.d, cap)
  <2>1. CapGross(w, S, cap) = Scale(w, S, a, b)
    BY <1>3 DEF CapGross
  <2>2. a \in Nat /\ b \in Nat /\ a < b
    <3> HIDE DEF G
    <3>1. a \in Nat /\ b \in Nat
      BY <1>1
    <3> QED BY <1>1, <1>3, <3>1 DEF Exceeds
  <2>3. a \in Nat /\ b \in Nat \ {0} /\ a <= b
    BY <2>2
  <2>4. raw \in Books /\ Scale(w, S, a, b) \in Books /\ Shrinks(raw, Scale(w, S, a, b)) /\ Shrinks(w, Scale(w, S, a, b))
    <3> HIDE DEF a, b
    <3> QED BY <2>3, ScaleIs
  <2>5. Gross(raw, S) = a * G
    <3>1. \A s \in S : Sizes(raw)[s] = a * Sizes(w)[s]
      <4> SUFFICES ASSUME NEW s \in S
                   PROVE  Sizes(raw)[s] = a * Sizes(w)[s]
        OBVIOUS
      <4> HIDE DEF a, b
      <4>1. raw.n[s] = w.n[s] * a /\ w.n[s] \in Int
        BY <1>1 DEF Scaled
      <4>2. Size(a * w.n[s]) = a * Size(w.n[s])
        BY <2>3, <4>1, SizeMultiplied
      <4>3. a * w.n[s] = w.n[s] * a
        BY <2>3, <4>1
      <4> QED BY <4>1, <4>2, <4>3 DEF Sizes
    <3> HIDE DEF a, b, raw
    <3>2. IsFiniteSet(S) /\ Ints(Sizes(w), S)
      BY BookTypes
    <3>3. a \in Int
      BY <2>3
    <3> QED BY <3>1, <3>2, <3>3, SumScale DEF Gross
  <2>6. Fits(raw, S, cap)
    <3>1. raw.d = w.d * b
      BY DEF Scaled
    <3> HIDE DEF raw, G
    <3>2. (a * G) * cap[2] = cap[1] * (w.d * b)
      BY <1>1
    <3>3. (a * G) * cap[2] \in Int
      BY <1>1
    <3> QED BY <2>5, <3>1, <3>2, <3>3 DEF Fits, Exceeds
  <2> HIDE DEF raw
  <2> QED BY <2>1, <2>4, <2>6, ShrinkFits
<1> QED BY <1>2, <1>3

\* What the sector caps compute, one sector after the other.
IsCapped(w, sectors, g) ==
  g = [T \in SUBSET sectors |->
         IF T = {} THEN w ELSE CapGross(g[T \ {Member(T)}], Member(T), Limits.sector)]

\* The fold over the sectors is the value of a recursive function.
LEMMA CapSectorsDef ==
  ASSUME NEW w, NEW sectors
  PROVE  CapSectors(w, sectors) = (CHOOSE g : IsCapped(w, sectors, g))[sectors]
BY DEF CapSectors, FoldSet, MapThenFoldSet, IsCapped, Member

\* For finitely many sectors there is one.
LEMMA CappedExists ==
  ASSUME NEW w, NEW sectors, IsFiniteSet(sectors)
  PROVE  \E g : IsCapped(w, sectors, g)
<1> DEFINE Rhs(g, T) == IF T = {} THEN w ELSE CapGross(g[T \ {Member(T)}], Member(T), Limits.sector)
           Upto(g, n) == \A T \in SUBSET sectors : Cardinality(T) <= n => g[T] = Rhs(g, T)
           D == {n \in Nat : \E g : Upto(g, n)}
<1>0. \A T \in SUBSET sectors : IsFiniteSet(T) /\ Cardinality(T) \in Nat /\ (Cardinality(T) = 0 => T = {})
  BY FS_Subset, FS_EmptySet, FS_CardinalityType
<1>1. 0 \in D
  <2>1. \A T \in SUBSET sectors : Cardinality(T) <= 0 => T = {}
    BY <1>0
  <2>2. Upto([T \in SUBSET sectors |-> w], 0)
    BY <2>1
  <2> QED BY <2>2
<1>2. ASSUME NEW n \in Nat, n \in D
      PROVE  n + 1 \in D
  <2>1. PICK g : Upto(g, n)
    BY <1>2
  <2> DEFINE h == [T \in SUBSET sectors |-> Rhs(g, T)]
  <2>2. ASSUME NEW T \in SUBSET sectors, Cardinality(T) <= n + 1
        PROVE  h[T] = Rhs(h, T)
    <3>1. CASE T = {}
      BY <3>1
    <3>2. CASE T # {}
      <4> DEFINE x == Member(T)
      <4>1. x \in T
        BY <3>2, MemberIn
      <4>2. IsFiniteSet(T) /\ Cardinality(T) \in Nat
        BY <1>0
      <4>3. Cardinality(T \ {x}) = Cardinality(T) - 1
        BY <4>1, <4>2, FS_RemoveElement
      <4>4. Cardinality(T \ {x}) <= n
        BY <4>2, <4>3, <2>2
      <4>5. T \ {x} \in SUBSET sectors
        OBVIOUS
      <4> HIDE DEF x
      <4>6. g[T \ {x}] = Rhs(g, T \ {x})
        BY <4>4, <4>5, <2>1
      <4>7. h[T \ {x}] = Rhs(g, T \ {x})
        BY <4>5
      <4>8. h[T] = CapGross(g[T \ {x}], x, Limits.sector)
        BY <3>2 DEF x
      <4>9. Rhs(h, T) = CapGross(h[T \ {x}], x, Limits.sector)
        BY <3>2 DEF x
      <4> QED BY <4>6, <4>7, <4>8, <4>9
    <3> QED BY <3>1, <3>2
  <2>3. Upto(h, n + 1)
    BY <2>2
  <2>4. \E i : Upto(i, n + 1)
    <3> HIDE DEF h, Upto
    <3> QED BY <2>3
  <2> HIDE DEF Upto, h
  <2> QED BY <2>4
<1>3. Nat \subseteq D
  <2> HIDE DEF D
  <2> QED BY <1>1, <1>2, SetNatInduction
<1>4. \A T \in SUBSET sectors : Cardinality(T) \in Nat /\ Cardinality(T) <= Cardinality(sectors) /\ Cardinality(sectors) \in Nat
  BY FS_Subset, FS_CardinalityType
<1>5. PICK g : Upto(g, Cardinality(sectors))
  BY <1>3, <1>4
<1>6. IsCapped(w, sectors, [T \in SUBSET sectors |-> g[T]])
  <2> DEFINE h == [T \in SUBSET sectors |-> g[T]]
  <2>1. \A T \in SUBSET sectors : g[T] = Rhs(g, T)
    BY <1>4, <1>5
  <2>2. \A T \in SUBSET sectors : Rhs(g, T) = Rhs(h, T)
    OBVIOUS
  <2>3. h = [T \in SUBSET sectors |-> Rhs(h, T)]
    BY <2>1, <2>2
  <2> QED BY <2>3 DEF IsCapped
<1> QED BY <1>6

\* The sector caps, in whatever order they are applied, keep every sector under its cap.
LEMMA CapSectorsFits ==
  ASSUME NEW w \in Books, NEW sectors \in SUBSET (SUBSET Names), IsFiniteSet(sectors)
  PROVE  LET v == CapSectors(w, sectors)
         IN  v \in Books /\ Shrinks(w, v) /\ \A S \in sectors : Fits(v, S, Limits.sector)
<1> DEFINE lim == Limits.sector
           Ok(v, T) == v \in Books /\ Shrinks(w, v) /\ \A S \in T : Fits(v, S, lim)
<1>1. PICK g : IsCapped(w, sectors, g) /\ g = CHOOSE i : IsCapped(w, sectors, i)
  BY CappedExists
<1>2. \A T \in SUBSET sectors :
        g[T] = IF T = {} THEN w ELSE CapGross(g[T \ {Member(T)}], Member(T), lim)
  BY <1>1 DEF IsCapped
<1>3. lim \in Ratio
  BY RiskAssumption
<1> HIDE DEF lim
<1> DEFINE D == {n \in Nat : \A T \in SUBSET sectors : Cardinality(T) = n => Ok(g[T], T)}
<1>4. \A T \in SUBSET sectors : IsFiniteSet(T) /\ Cardinality(T) \in Nat /\ (Cardinality(T) = 0 => T = {})
  BY FS_Subset, FS_EmptySet, FS_CardinalityType
<1>5. 0 \in D
  <2> SUFFICES ASSUME NEW T \in SUBSET sectors, Cardinality(T) = 0
               PROVE  Ok(g[T], T)
    OBVIOUS
  <2>1. T = {} /\ g[T] = w
    BY <1>2, <1>4
  <2> QED BY <2>1, ShrinksItself
<1>6. ASSUME NEW n \in Nat, n \in D
      PROVE  n + 1 \in D
  <2> SUFFICES ASSUME NEW T \in SUBSET sectors, Cardinality(T) = n + 1
               PROVE  Ok(g[T], T)
    OBVIOUS
  <2> DEFINE x == Member(T)
             u == g[T \ {x}]
  <2>1. T # {} /\ IsFiniteSet(T)
    BY <1>4, FS_EmptySet
  <2>2. x \in T
    BY <2>1, MemberIn
  <2>3. Cardinality(T \ {x}) = n
    <3> HIDE DEF x
    <3>1. Cardinality(T \ {x}) = Cardinality(T) - 1
      BY <2>1, <2>2, FS_RemoveElement
    <3> QED BY <3>1
  <2>4. Ok(u, T \ {x})
    BY <2>3, <1>6
  <2>5. g[T] = CapGross(u, x, lim)
    BY <1>2, <2>1
  <2> HIDE DEF x, u
  <2>6. x \in SUBSET Names
    BY <2>2
  <2>7. g[T] \in Books /\ Shrinks(u, g[T]) /\ Fits(g[T], x, lim)
    BY <1>3, <2>4, <2>5, <2>6, CapGrossFits
  <2>8. Shrinks(w, g[T])
    BY <2>4, <2>7, ShrinksOn
  <2>9. \A S \in T \ {x} : Fits(g[T], S, lim)
    BY <1>3, <2>4, <2>7, ShrinkFits
  <2> QED BY <2>7, <2>8, <2>9
<1>7. Nat \subseteq D
  <2> HIDE DEF D
  <2> QED BY <1>5, <1>6, SetNatInduction
<1>8. Cardinality(sectors) \in Nat
  BY FS_CardinalityType
<1>9. Ok(g[sectors], sectors)
  <2> HIDE DEF Ok
  <2> QED BY <1>7, <1>8
<1>10. CapSectors(w, sectors) = g[sectors]
  BY <1>1, CapSectorsDef
<1> QED BY <1>9, <1>10 DEF lim

\* The book w keeps the cap on the net weight.
NetFits(w, cap) == ~Exceeds(Size(Net(w)), w.d, cap)

\* The net weight is the gross weight of the dominant side less that of the other one.
LEMMA NetIsOfSides ==
  ASSUME NEW w \in Books, Net(w) # 0
  PROVE  LET side == {s \in Names : w.n[s] * Net(w) > 0}
         IN  /\ Net(w) \in Int
             /\ Size(Net(w)) = Gross(w, side) - Gross(w, Names \ side)
             /\ \E sign \in {-1, 1} :
                  /\ Net(w) = sign * (Gross(w, side) - Gross(w, Names \ side))
                  /\ \A s \in side : w.n[s] = sign * Size(w.n[s])
                  /\ \A s \in Names \ side : w.n[s] = (-sign) * Size(w.n[s])
<1> DEFINE N == Net(w)
           side == {s \in Names : w.n[s] * N > 0}
           rest == Names \ side
           sign == IF N > 0 THEN 1 ELSE -1
           D == Gross(w, side)
           R == Gross(w, rest)
<1>1. N \in Int
  BY BookTypes, SumType DEF Net
<1>2. sign \in {-1, 1} /\ (N > 0 => sign = 1) /\ (N < 0 => sign = -1) /\ (N > 0 \/ N < 0)
  BY <1>1
<1>3. \A s \in Names : w.n[s] \in Int
  BY DEF Books
<1> HIDE DEF N, sign
<1>4. \A x \in Int : (x * N > 0 => x = sign * Size(x)) /\ (~(x * N > 0) => x = (-sign) * Size(x))
  <2> TAKE x \in Int
  <2>1. CASE N > 0
    BY <1>1, <1>2, <2>1 DEF Size
  <2>2. CASE N < 0
    BY <1>1, <1>2, <2>2 DEF Size
  <2> QED BY <1>2, <2>1, <2>2
<1>5. /\ \A s \in side : w.n[s] = sign * Sizes(w)[s]
      /\ \A s \in rest : w.n[s] = (-sign) * Sizes(w)[s]
  BY <1>3, <1>4 DEF Sizes
<1>6. side \in SUBSET Names /\ rest \in SUBSET Names /\ side \cap rest = {} /\ side \cup rest = Names
  OBVIOUS
<1> HIDE DEF side, rest
<1>7. /\ IsFiniteSet(side) /\ IsFiniteSet(rest) /\ D \in Nat /\ R \in Nat
      /\ Ints(Sizes(w), side) /\ Ints(Sizes(w), rest) /\ Ints(w.n, Names)
  BY <1>6, BookTypes
<1>8. SumFunctionOnSet(w.n, side) = sign * D
  BY <1>2, <1>5, <1>7, SumScale DEF Gross
<1>9. SumFunctionOnSet(w.n, rest) = (-sign) * R
  <2>1. -sign \in Int
    BY <1>2
  <2> QED BY <2>1, <1>5, <1>7, SumScale DEF Gross
<1>10. N = SumFunctionOnSet(w.n, side) + SumFunctionOnSet(w.n, rest)
  BY <1>6, <1>7, SumUnion DEF N, Net
<1> HIDE DEF D, R
<1>11. N = sign * (D - R)
  BY <1>2, <1>7, <1>8, <1>9, <1>10
<1>12. Size(N) = D - R
  BY <1>1, <1>2, <1>7, <1>11 DEF Size
<1>13. /\ \A s \in side : w.n[s] = sign * Size(w.n[s])
       /\ \A s \in rest : w.n[s] = (-sign) * Size(w.n[s])
  BY <1>5, <1>6 DEF Sizes
<1> QED BY <1>1, <1>2, <1>11, <1>12, <1>13 DEF N, D, R, side, rest

\* Reducing to lowest terms keeps the net cap.
LEMMA LowestNet ==
  ASSUME NEW w \in Books, NEW v \in Books, NEW g \in Nat \ {0}, Multiple(g, w, v), NEW cap \in Ratio,
         NetFits(w, cap)
  PROVE  NetFits(v, cap)
<1>1. IsFiniteSet(Names) /\ Ints(w.n, Names) /\ Ints(v.n, Names) /\ v.d \in Nat /\ w.d \in Nat
  BY BookTypes
<1>2. Net(w) = g * Net(v) /\ Net(v) \in Int
  BY <1>1, SumScale, SumType DEF Net, Multiple
<1>3. Size(Net(w)) = g * Size(Net(v)) /\ Size(Net(v)) \in Nat /\ w.d = g * v.d
  BY <1>2, SizeMultiplied DEF Multiple
<1>4. cap[1] \in Nat /\ cap[2] \in Nat
  BY DEF Ratio
<1> DEFINE x == Size(Net(v)) * cap[2]
           y == cap[1] * v.d
<1>5. x \in Int /\ y \in Int
  BY <1>1, <1>3, <1>4
<1>6. Size(Net(w)) * cap[2] = g * x /\ cap[1] * w.d = g * y
  BY <1>1, <1>3, <1>4
<1>7. g * x \in Int /\ g * y \in Int
  BY <1>5
<1>8. g * x <= g * y
  <2> HIDE DEF x, y
  <2> QED BY <1>6, <1>7 DEF NetFits, Exceeds
<1>9. x <= y
  <2> HIDE DEF x, y
  <2> QED BY <1>5, <1>8, Multiplied
<1> QED BY <1>5, <1>9 DEF NetFits, Exceeds

\* Trimming the dominant side keeps the net cap, and grows no weight.
LEMMA CapNetFits ==
  ASSUME NEW w \in Books, NEW cap \in Ratio
  PROVE  CapNet(w, cap) \in Books /\ Shrinks(w, CapNet(w, cap)) /\ NetFits(CapNet(w, cap), cap)
<1> DEFINE N == Net(w)
           side == {s \in Names : w.n[s] * N > 0}
           rest == Names \ side
           D == Gross(w, side)
           R == Gross(w, rest)
           a == (D - Size(N)) * cap[2] + cap[1] * w.d
           b == D * cap[2]
           raw == Scaled(w, side, a, b)
<1>1. cap[1] \in Nat /\ cap[2] \in Nat /\ cap[2] > 0 /\ w.d \in Nat /\ w.d > 0 /\ w.n \in [Names -> Int]
  BY BookTypes DEF Ratio
<1>2. side \in SUBSET Names /\ rest \in SUBSET Names /\ side \cap rest = {} /\ side \cup rest = Names
  OBVIOUS
<1>3. D \in Nat /\ R \in Nat
  <2> HIDE DEF side, rest
  <2> QED BY <1>2, BookTypes
<1>4. CASE ~Exceeds(Size(N), w.d, cap)
  BY <1>4, ShrinksItself DEF CapNet, NetFits
<1>5. CASE Exceeds(Size(N), w.d, cap)
  <2>1. CapNet(w, cap) = Scale(w, side, a, b)
    BY <1>5 DEF CapNet
  <2>2. N \in Int /\ N # 0
    <3>1. N \in Int
      BY BookTypes, SumType DEF Net
    <3>2. N # 0
      <4>1. ASSUME N = 0 PROVE FALSE
        <5>1. Size(N) = 0
          BY <4>1 DEF Size
        <5>2. cap[1] * w.d \in Nat /\ 0 * cap[2] = 0
          BY <1>1
        <5> HIDE DEF N
        <5> QED BY <1>5, <5>1, <5>2 DEF Exceeds
      <4> QED BY <4>1
    <3> QED BY <3>1, <3>2
  <2>3. /\ Size(N) = D - R
        /\ \E sign \in {-1, 1} : /\ N = sign * (D - R)
                                 /\ \A s \in side : w.n[s] = sign * Size(w.n[s])
                                 /\ \A s \in rest : w.n[s] = (-sign) * Size(w.n[s])
    BY <2>2, NetIsOfSides
  <2>4. PICK sign \in {-1, 1} : /\ N = sign * (D - R)
                                /\ \A s \in side : w.n[s] = sign * Size(w.n[s])
                                /\ \A s \in rest : w.n[s] = (-sign) * Size(w.n[s])
    BY <2>3
  <2>5. Size(N) \in Nat /\ Size(N) > 0
    BY <2>2 DEF Size
  <2> HIDE DEF N, D, R, side, rest
  <2>6. D > 0 /\ D - Size(N) = R
    BY <1>3, <2>3, <2>5
  <2>7. a = R * cap[2] + cap[1] * w.d /\ a \in Nat /\ b \in Nat /\ b > 0
    BY <1>1, <1>3, <2>6
  <2>8. a <= b
    <3>1. cap[1] * w.d < Size(N) * cap[2]
      BY <1>1, <1>5, <2>5 DEF Exceeds
    <3>2. Size(N) * cap[2] + R * cap[2] = D * cap[2]
      BY <1>1, <1>3, <2>3, <2>5
    <3>3. cap[1] * w.d \in Int /\ Size(N) * cap[2] \in Int /\ R * cap[2] \in Int
      BY <1>1, <1>3, <2>5
    <3> QED BY <2>7, <3>1, <3>2, <3>3
  <2> HIDE DEF a, b
  <2>9. /\ raw \in Books /\ Scale(w, side, a, b) \in Books /\ Shrinks(w, Scale(w, side, a, b))
        /\ \E g \in Nat \ {0} : Multiple(g, raw, Scale(w, side, a, b))
    <3>1. a \in Nat /\ b \in Nat \ {0}
      BY <2>7
    <3> QED BY <1>2, <2>8, <3>1, ScaleIs
  <2>10. NetFits(raw, cap)
    <3>1. /\ \A s \in side : raw.n[s] = (sign * a) * Sizes(w)[s]
          /\ \A s \in rest : raw.n[s] = ((-sign) * b) * Sizes(w)[s]
      <4>1. ASSUME NEW s \in side
            PROVE  raw.n[s] = (sign * a) * Sizes(w)[s]
        <5>1. raw.n[s] = w.n[s] * a /\ w.n[s] = sign * Size(w.n[s]) /\ Sizes(w)[s] = Size(w.n[s])
              /\ Size(w.n[s]) \in Nat
          BY <1>2, <2>4, BookTypes DEF Scaled
        <5> QED BY <2>7, <5>1
      <4>2. ASSUME NEW s \in rest
            PROVE  raw.n[s] = ((-sign) * b) * Sizes(w)[s]
        <5>1. raw.n[s] = w.n[s] * b /\ w.n[s] = (-sign) * Size(w.n[s]) /\ Sizes(w)[s] = Size(w.n[s])
              /\ Size(w.n[s]) \in Nat
          BY <1>2, <2>4, BookTypes DEF Scaled
        <5> QED BY <2>7, <5>1
      <4> QED BY <4>1, <4>2
    <3>2. raw.d = w.d * b
      BY DEF Scaled
    <3> HIDE DEF raw
    <3>3. /\ IsFiniteSet(side) /\ IsFiniteSet(rest) /\ Ints(Sizes(w), side) /\ Ints(Sizes(w), rest)
          /\ Ints(raw.n, Names)
      BY <1>2, <2>9, BookTypes
    <3>4. sign * a \in Int /\ (-sign) * b \in Int
      BY <2>4, <2>7
    <3>5. SumFunctionOnSet(raw.n, side) = (sign * a) * D
      BY <3>1, <3>3, <3>4, SumScale DEF D, Gross
    <3>6. SumFunctionOnSet(raw.n, rest) = ((-sign) * b) * R
      BY <3>1, <3>3, <3>4, SumScale DEF R, Gross
    <3>7. Net(raw) = (sign * a) * D + ((-sign) * b) * R
      BY <1>2, <3>3, <3>5, <3>6, SumUnion DEF Net
    <3>8. Net(raw) = sign * ((cap[1] * w.d) * D)
      <4>1. b = D * cap[2]
        BY DEF b
      <4> QED BY <1>1, <1>3, <2>4, <2>7, <3>7, <4>1
    <3>9. (cap[1] * w.d) * D \in Nat
      BY <1>1, <1>3
    <3>10. Size(Net(raw)) = (cap[1] * w.d) * D
      BY <2>4, <3>8, <3>9 DEF Size
    <3>11. ((cap[1] * w.d) * D) * cap[2] = cap[1] * (w.d * b)
      BY <1>1, <1>3 DEF b
    <3>12. ((cap[1] * w.d) * D) * cap[2] \in Int
      BY <1>1, <3>9
    <3> QED BY <3>2, <3>10, <3>11, <3>12 DEF NetFits, Exceeds
  <2> HIDE DEF raw
  <2>11. NetFits(Scale(w, side, a, b), cap)
    BY <2>9, <2>10, LowestNet
  <2> QED BY <2>1, <2>9, <2>11
<1> QED BY <1>4, <1>5

\* The limits never leave a book that the engine's check refuses, and no sector outgrows its cap.
LEMMA LimitsKept ==
  ASSUME NEW w \in Books, NEW sectors \in SUBSET (SUBSET Names), IsFiniteSet(sectors)
  PROVE  LET v == ApplyRiskLimits(w, sectors)
         IN  /\ v \in Books /\ Shrinks(w, v) /\ CheckOrder(v)
             /\ \A S \in sectors : Fits(v, S, Limits.sector)
<1> DEFINE w1 == Clip(w, Limits.name)
           w2 == CapGross(w1, Names, Limits.gross)
           w3 == CapSectors(w2, sectors)
           w4 == CapNet(w3, Limits.net)
<1>0. Limits.gross \in Ratio /\ Limits.net \in Ratio /\ Limits.sector \in Ratio /\ Names \in SUBSET Names
  BY RiskAssumption
<1>1. w1 \in Books /\ NamesFit(w1) /\ Shrinks(w, w1)
  BY ClipFits
<1> HIDE DEF w1
<1>2. w2 \in Books /\ Shrinks(w1, w2) /\ Fits(w2, Names, Limits.gross)
  BY <1>0, <1>1, CapGrossFits
<1> HIDE DEF w2
<1>3. w3 \in Books /\ Shrinks(w2, w3) /\ \A S \in sectors : Fits(w3, S, Limits.sector)
  BY <1>2, CapSectorsFits
<1> HIDE DEF w3
<1>4. w4 \in Books /\ Shrinks(w3, w4) /\ NetFits(w4, Limits.net)
  BY <1>0, <1>3, CapNetFits
<1> HIDE DEF w4
<1>5. Shrinks(w1, w3) /\ Shrinks(w1, w4) /\ Shrinks(w2, w4) /\ Shrinks(w, w4)
  BY <1>1, <1>2, <1>3, <1>4, ShrinksOn
<1>6. NamesFit(w4)
  BY <1>1, <1>5, ShrinkNames
<1>7. Fits(w4, Names, Limits.gross)
  BY <1>0, <1>2, <1>5, ShrinkFits
<1>8. \A S \in sectors : Fits(w4, S, Limits.sector)
  BY <1>0, <1>3, <1>4, ShrinkFits
<1>9. ApplyRiskLimits(w, sectors) = w4
  BY DEF ApplyRiskLimits, w1, w2, w3, w4
<1>10. CheckOrder(w4)
  BY <1>4, <1>6, <1>7 DEF CheckOrder, NamesFit, Fits, NetFits
<1> QED BY <1>4, <1>5, <1>8, <1>9, <1>10

-----------------------------------------------------------------------------
(* Sizing *)

\* A long book.
NonNegative(w) == \A s \in Names : w.n[s] >= 0

\* Names that lean are weighed by their share.
LEMMA WeighBook ==
  ASSUME NEW S \in SUBSET Names, NEW lean \in [Names -> Nat \ {0}]
  PROVE  Weigh(S, lean) \in Books /\ NonNegative(Weigh(S, lean))
<1>1. CASE S = {}
  BY <1>1 DEF Weigh, NoBook, Books, NonNegative
<1>2. CASE S # {}
  <2>1. IsFiniteSet(S)
    BY RiskAssumption, FS_Subset
  <2>2. PICK x \in S : TRUE
    BY <1>2
  <2>3. Ints(lean, S)
    BY DEF Ints
  <2>4. SumFunctionOnSet(lean, S) = lean[x] + SumFunctionOnSet(lean, S \ {x})
    BY <2>1, <2>2, <2>3, SumRemove
  <2>5. SumFunctionOnSet(lean, S \ {x}) \in Nat
    <3>1. IsFiniteSet(S \ {x}) /\ \A s \in S \ {x} : lean[s] \in Nat
      BY <2>1, FS_Subset
    <3> QED BY <3>1, SumNonNegative
  <2>6. SumFunctionOnSet(lean, S) \in Nat \ {0}
    <3>1. lean[x] \in Nat \ {0}
      BY <2>2
    <3> QED BY <2>4, <2>5, <3>1
  <2>7. Weigh(S, lean) = [n |-> [s \in Names |-> IF s \in S THEN lean[s] ELSE 0],
                          d |-> SumFunctionOnSet(lean, S)]
    BY <1>2 DEF Weigh
  <2> QED BY <2>6, <2>7 DEF Books, NonNegative
<1> QED BY <1>1, <1>2

\* The governor scales a whole book up or down, and turns no weight over.
LEMMA ScaledSign ==
  ASSUME NEW w \in Books, NonNegative(w), NEW f \in Ratio
  PROVE  Scale(w, Names, f[1], f[2]) \in Books /\ NonNegative(Scale(w, Names, f[1], f[2]))
<1>1. f[1] \in Nat /\ f[2] \in Nat \ {0}
  BY DEF Ratio
<1> DEFINE raw == Scaled(w, Names, f[1], f[2])
           out == Scale(w, Names, f[1], f[2])
<1>2. raw \in Books /\ Shrinks(raw, out)
  BY <1>1, ScaleIs
<1>3. NonNegative(raw)
  BY <1>1 DEF Scaled, NonNegative, Books
<1> HIDE DEF raw, out
<1>4. out \in Books /\ NonNegative(out)
  BY <1>2, <1>3 DEF Shrinks, NonNegative
<1> QED BY <1>4 DEF out

\* Volatility targeting keeps a book long.
LEMMA VolTargetBook ==
  ASSUME NEW w \in Books, NonNegative(w), NEW clean \in SUBSET Names, NEW f \in Ratio, NEW cap \in Ratio
  PROVE  VolTarget(w, clean, f, cap) \in Books /\ NonNegative(VolTarget(w, clean, f, cap))
<1> DEFINE v == Only(w, clean)
           u == Scale(v, Names, f[1], f[2])
<1>1. v \in Books /\ NonNegative(v)
  <2>1. v = [n |-> [s \in Names |-> IF s \in clean THEN w.n[s] ELSE 0], d |-> w.d]
    BY DEF Only, Books
  <2>2. w.d \in Nat \ {0} /\ \A s \in Names : w.n[s] \in Int
    BY DEF Books
  <2> QED BY <2>1, <2>2 DEF Books, NonNegative
<1> HIDE DEF v
<1>2. u \in Books /\ NonNegative(u)
  BY <1>1, ScaledSign
<1> HIDE DEF u
<1>3. CapGross(u, Names, cap) \in Books /\ Shrinks(u, CapGross(u, Names, cap))
  BY <1>2, CapGrossFits
<1>4. NonNegative(CapGross(u, Names, cap))
  BY <1>2, <1>3 DEF Shrinks, NonNegative
<1> QED BY <1>3, <1>4 DEF VolTarget, u, v

\* So do the weights of a selection.
LEMMA SizeBookBook ==
  ASSUME NEW S \in SUBSET Names, NEW lean \in [Names -> Nat \ {0}], NEW clean \in SUBSET Names, NEW f \in Ratio
  PROVE  SizeBook(S, lean, clean, f) \in Books /\ NonNegative(SizeBook(S, lean, clean, f))
<1>1. S \cap clean \in SUBSET Names
  OBVIOUS
<1> QED BY <1>1, WeighBook, ScaledSign DEF SizeBook

\* The limits turn no weight over.
LEMMA LimitsNonNegative ==
  ASSUME NEW w \in Books, NonNegative(w)
  PROVE  LET v == ApplyRiskLimits(w, {}) IN v \in Books /\ NonNegative(v) /\ CheckOrder(v)
<1> DEFINE v == ApplyRiskLimits(w, {})
<1>1. v \in Books /\ Shrinks(w, v) /\ CheckOrder(v)
  <2>1. {} \in SUBSET (SUBSET Names) /\ IsFiniteSet({})
    BY FS_EmptySet
  <2> QED BY <2>1, LimitsKept
<1> HIDE DEF v
<1>2. NonNegative(v)
  BY <1>1 DEF Shrinks, NonNegative
<1> QED BY <1>1, <1>2 DEF v

-----------------------------------------------------------------------------
(* The book                                                                 *)

-----------------------------------------------------------------------------
(* One order *)

\* Where one order of a long book leaves the position: nothing but dust of what has left the
\* target, never short of capital that is there, and worth no more than the target's
\* allotment, the band's drift and the crumb of what was held.
LEMMA DeltaFacts ==
  ASSUME NEW s \in Names, NEW e \in Int, target \in Books, target.n[s] >= 0,
         price[s] \in Nat \ {0}, pos[s] \in Int
  PROVE  LET x == pos[s] + Delta(s, e)
             unit == price[s] * target.d
         IN  /\ Delta(s, e) \in Int
             /\ target.n[s] = 0 /\ pos[s] > 0 => x = 0 \/ x * price[s] < Dollar
             /\ e >= 0 /\ pos[s] >= 0 => x >= 0
             /\ x * unit * RebalanceBand[2]
                  <= (target.n[s] * Size(e)) * (RebalanceBand[1] + RebalanceBand[2])
                     + (IF pos[s] > 0 THEN Crumb[s] * target.d * RebalanceBand[2] ELSE 0)
<1> DEFINE n == target.n[s]
           p == pos[s]
           unit == price[s] * target.d
           aim == n * e
           gap == aim - pos[s] * price[s] * target.d
           b1 == RebalanceBand[1]
           b2 == RebalanceBand[2]
           q == Size(gap) \div (target.d * price[s])
           kept == p # 0 /\ aim # 0 /\ Size(gap) * b2 < b1 * Size(aim)
           dust == q * price[s] < Dollar
           crumb == Crumb[s] * target.d
           x == p + Delta(s, e)
<1>1. n \in Nat /\ p \in Int /\ price[s] \in Nat \ {0} /\ target.d \in Nat \ {0}
  BY DEF Books
<1>2. b1 \in Nat /\ b2 \in Nat /\ b2 > 0
  BY BookAssumption DEF Ratio
<1>3. unit \in Nat \ {0} /\ unit = target.d * price[s] /\ pos[s] * price[s] * target.d = p * unit
  <2>1. \A y, z \in Nat : y > 0 /\ z > 0 => y * z \in Nat \ {0}
    OBVIOUS
  <2> QED BY <1>1, <2>1
<1>4. Delta(s, e) = IF kept \/ dust THEN 0 ELSE IF gap > 0 THEN q ELSE -q
  BY DEF Delta
<1>5. aim \in Int /\ gap \in Int /\ gap = aim - p * unit /\ p * unit \in Int
  <2>1. aim \in Int
    BY <1>1
  <2>2. p * unit \in Int
    BY <1>1, <1>3
  <2> HIDE DEF aim, unit
  <2> QED BY <1>3, <2>1, <2>2
<1>6. Size(aim) = n * Size(e) /\ Size(aim) \in Nat /\ Size(e) \in Nat
  <2>1. Size(n * e) = n * Size(e) /\ Size(e) \in Nat
    <3> HIDE DEF n
    <3> QED BY <1>1, SizeMultiplied
  <2>2. Size(aim) \in Nat
    <3> HIDE DEF aim
    <3> QED BY <1>5 DEF Size
  <2> QED BY <2>1, <2>2
<1>7. Size(aim) >= aim /\ (aim >= 0 => Size(aim) = aim) /\ (e >= 0 => aim >= 0) /\ (n = 0 => aim = 0)
  <2>1. (e >= 0 => aim >= 0) /\ (n = 0 => aim = 0)
    BY <1>1
  <2> HIDE DEF aim
  <2> QED BY <1>5, <2>1 DEF Size
<1>8. Size(gap) \in Nat /\ (gap > 0 => Size(gap) = gap) /\ (gap <= 0 => Size(gap) = -gap)
  <2> HIDE DEF gap
  <2> QED BY <1>5 DEF Size
<1> DEFINE r == Size(gap) % unit
<1>9. q \in Int /\ r \in Int /\ r >= 0 /\ r < unit /\ Size(gap) = unit * q + r
  <2> HIDE DEF gap
  <2>1. q = Size(gap) \div unit
    BY <1>3
  <2> HIDE DEF unit, q
  <2>2. Size(gap) \in Int
    BY <1>8
  <2>3. /\ q \in Int /\ r \in 0 .. (unit - 1)
        /\ Size(gap) = unit * q + r
    BY <1>3, <2>1, <2>2, Division
  <2> QED BY <1>3, <2>3
<1> HIDE DEF n, p, unit, aim, gap, b1, b2, q, r
<1>10. q \in Nat
  <2>1. ASSUME q < 0 PROVE FALSE
    <3>1. q <= -1
      BY <1>9, <2>1
    <3>2. unit * q <= unit * (-1)
      BY <1>3, <1>9, <3>1
    <3>3. unit * q \in Int
      BY <1>3, <1>9
    <3> QED BY <1>3, <1>8, <1>9, <3>2, <3>3
  <2> QED BY <1>9, <2>1
<1>11. Delta(s, e) \in Int /\ x \in Int
  BY <1>1, <1>4, <1>10
<1>12. unit * q \in Int /\ unit * x = unit * p + unit * Delta(s, e) /\ unit * x \in Int /\ unit * p = p * unit
  BY <1>1, <1>3, <1>10, <1>11
<1>13. n = 0 /\ p > 0 => x = 0 \/ x * price[s] < Dollar
  <2> SUFFICES ASSUME n = 0, p > 0
               PROVE  x = 0 \/ x * price[s] < Dollar
    OBVIOUS
  <2>1. aim = 0 /\ ~kept
    BY <1>7
  <2>2. gap <= 0 /\ Size(gap) = p * unit
    <3>1. p * unit > 0
      BY <1>1, <1>3
    <3> QED BY <1>5, <1>8, <2>1, <3>1
  <2>3. Delta(s, e) = IF dust THEN 0 ELSE -q
    BY <1>4, <1>5, <2>1, <2>2
  <2>4. unit * (p - q) = r
    BY <1>1, <1>3, <1>9, <1>10, <2>2
  <2>5. p - q = 0
    <3>1. p - q \in Int
      BY <1>1, <1>10
    <3>2. ASSUME p - q >= 1 PROVE FALSE
      <4>1. unit * (p - q) >= unit
        BY <1>3, <3>1, <3>2
      <4> QED BY <1>3, <1>9, <2>4, <4>1
    <3>3. ASSUME p - q <= -1 PROVE FALSE
      <4>1. unit * (p - q) <= -unit
        BY <1>3, <3>1, <3>3
      <4> QED BY <1>3, <1>9, <2>4, <4>1
    <3> QED BY <3>1, <3>2, <3>3
  <2> QED BY <1>1, <1>10, <2>3, <2>5
<1>14. e >= 0 /\ p >= 0 => x >= 0
  <2> SUFFICES ASSUME e >= 0, p >= 0
               PROVE  x >= 0
    OBVIOUS
  <2>1. CASE kept \/ dust \/ gap > 0
    BY <1>1, <1>4, <1>10, <2>1
  <2>2. CASE ~(kept \/ dust) /\ ~(gap > 0)
    <3>1. Delta(s, e) = -q /\ Size(gap) = p * unit - aim
      BY <1>4, <1>5, <1>8, <2>2
    <3>2. unit * q <= unit * p
      <4>1. aim >= 0
        BY <1>7
      <4> QED BY <1>5, <1>9, <1>12, <3>1, <4>1
    <3>3. q <= p
      BY <1>1, <1>3, <1>10, <3>2, Multiplied
    <3> QED BY <1>1, <1>10, <3>1, <3>3
  <2> QED BY <2>1, <2>2
<1>18. crumb \in Nat /\ unit <= crumb /\ (dust => Size(gap) <= crumb)
  <2> DEFINE c == price[s]
             d == target.d
  <2>1. c \in Nat \ {0} /\ d \in Nat \ {0} /\ Dollar \in Nat
    BY <1>1, BookAssumption
  <2>2. unit = c * d /\ crumb = Crumb[s] * d /\ Crumb[s] = IF c < Dollar THEN c + Dollar ELSE c
    BY DEF Crumb, unit
  <2> HIDE DEF c, d, crumb
  <2>3. (c + Dollar) * d = c * d + Dollar * d /\ Dollar * d \in Nat /\ c * d \in Nat
    BY <2>1
  <2>4. crumb \in Nat /\ unit <= crumb
    BY <2>1, <2>2, <2>3
  <2>5. ASSUME dust PROVE Size(gap) <= crumb
    <3>1. q * c < Dollar
      BY <2>5 DEF c
    <3>2. q * c \in Nat /\ unit * q = (q * c) * d
      BY <1>10, <2>1, <2>2
    <3>3. (q * c) * d <= Dollar * d
      BY <2>1, <3>1, <3>2
    <3>4. CASE c < Dollar
      BY <1>3, <1>8, <1>9, <1>12, <2>2, <2>3, <3>2, <3>3, <3>4
    <3>5. CASE ~(c < Dollar)
      <4>1. ASSUME q >= 1 PROVE FALSE
        <5>1. q * c >= c
          BY <1>10, <2>1, <4>1
        <5> QED BY <2>1, <3>1, <3>2, <3>5, <5>1
      <4>2. q = 0
        BY <1>10, <4>1
      <4> QED BY <1>3, <1>8, <1>9, <2>2, <3>5, <4>2
    <3> QED BY <3>4, <3>5
  <2> QED BY <2>4, <2>5
<1> HIDE DEF crumb
<1> DEFINE rest == IF p > 0 THEN crumb ELSE 0
<1>15. ~kept => unit * x <= Size(aim) + rest
  <2> SUFFICES ASSUME ~kept
               PROVE  unit * x <= Size(aim) + rest
    OBVIOUS
  <2>4. CASE dust
    <3>1. unit * x = p * unit
      BY <1>1, <1>4, <1>12, <2>4
    <3>2. p * unit = aim - gap
      BY <1>5
    <3>3. CASE p > 0
      <4>1. -gap <= crumb
        BY <1>5, <1>8, <1>18, <2>4
      <4> QED BY <1>5, <1>6, <1>7, <1>18, <3>1, <3>2, <3>3, <4>1
    <3>4. CASE ~(p > 0)
      <4>1. p * unit <= 0
        BY <1>1, <1>3, <3>4
      <4> QED BY <1>5, <1>6, <3>1, <3>4, <4>1
    <3> QED BY <3>3, <3>4
  <2>1. CASE ~dust /\ gap > 0
    <3>1. unit * x = unit * p + unit * q /\ Size(gap) = gap
      BY <1>4, <1>8, <1>12, <2>1
    <3> QED BY <1>3, <1>5, <1>6, <1>7, <1>9, <1>12, <1>18, <2>1, <3>1
  <2>2. CASE ~dust /\ ~(gap > 0) /\ p > 0
    <3>1. Delta(s, e) = -q /\ Size(gap) = p * unit - aim
      BY <1>4, <1>5, <1>8, <2>2
    <3>2. unit * x = unit * p - unit * q
      BY <1>1, <1>3, <1>10, <3>1
    <3> QED BY <1>3, <1>5, <1>6, <1>7, <1>9, <1>12, <1>18, <2>2, <3>1, <3>2
  <2>3. CASE ~dust /\ ~(gap > 0) /\ ~(p > 0)
    <3>1. x <= 0
      BY <1>1, <1>4, <1>10, <2>3
    <3>2. unit * x <= 0
      BY <1>3, <1>11, <3>1
    <3> QED BY <1>6, <1>12, <2>3, <3>2
  <2> QED BY <2>1, <2>2, <2>3, <2>4
<1>16. (unit * x) * b2 <= Size(aim) * (b1 + b2) + rest * b2
  <2>1. CASE kept
    <3>1. x = p
      BY <1>1, <1>4, <2>1
    <3>2. Size(gap) * b2 < b1 * Size(aim) /\ p * unit = aim - gap
      BY <1>5, <2>1
    <3>3. -gap <= Size(gap) /\ p * unit <= Size(aim) + Size(gap)
      BY <1>5, <1>6, <1>7, <1>8, <3>2
    <3>4. (p * unit) * b2 <= (Size(aim) + Size(gap)) * b2
      BY <1>2, <1>5, <1>6, <1>8, <3>3
    <3>5. (Size(aim) + Size(gap)) * b2 <= Size(aim) * (b1 + b2)
      <4>1. Size(aim) * b2 \in Int /\ Size(gap) * b2 \in Int /\ b1 * Size(aim) \in Int
        BY <1>2, <1>6, <1>8
      <4>2. (Size(aim) + Size(gap)) * b2 = Size(aim) * b2 + Size(gap) * b2
        BY <1>2, <1>6, <1>8
      <4>3. Size(aim) * (b1 + b2) = b1 * Size(aim) + Size(aim) * b2
        BY <1>2, <1>6
      <4> QED BY <3>2, <4>1, <4>2, <4>3
    <3>6. rest * b2 >= 0 /\ rest * b2 \in Int
      BY <1>2, <1>18
    <3>7. (p * unit) * b2 \in Int /\ Size(aim) * (b1 + b2) \in Int /\ (Size(aim) + Size(gap)) * b2 \in Int
      BY <1>2, <1>5, <1>6, <1>8
    <3>8. (p * unit) * b2 <= Size(aim) * (b1 + b2) + rest * b2
      BY <3>4, <3>5, <3>6, <3>7
    <3> QED BY <1>12, <3>1, <3>8
  <2>2. CASE ~kept
    <3>1. unit * x <= Size(aim) + rest
      BY <1>15, <2>2
    <3>2. rest \in Nat
      BY <1>18
    <3> HIDE DEF rest, x
    <3>3. (unit * x) * b2 <= (Size(aim) + rest) * b2
      BY <1>2, <1>6, <1>12, <3>1, <3>2
    <3>4. (Size(aim) + rest) * b2 = Size(aim) * b2 + rest * b2
      BY <1>2, <1>6, <3>2
    <3>5. Size(aim) * (b1 + b2) = Size(aim) * b1 + Size(aim) * b2 /\ Size(aim) * b1 >= 0
      BY <1>2, <1>6
    <3>6. Size(aim) * b1 \in Int /\ Size(aim) * b2 \in Int /\ rest * b2 \in Int /\ (unit * x) * b2 \in Int
      BY <1>2, <1>6, <1>12, <3>2
    <3> QED BY <3>3, <3>4, <3>5, <3>6
  <2> QED BY <2>1, <2>2
<1>17. x * unit = unit * x /\ rest * b2 = IF p > 0 THEN crumb * b2 ELSE 0
  BY <1>2, <1>3, <1>11
<1> QED BY <1>6, <1>11, <1>13, <1>14, <1>16, <1>17 DEF n, p, unit, b1, b2, crumb

-----------------------------------------------------------------------------
(* The daily book *)

\* A name of the plan that is in the target, or has left it.
Dealt(s) == s \in priced \cap (In(target) \cup Left)

\* What an order of today makes of the position of s.
Aimed(s, x) ==
  /\ ~Dealt(s) => x = before[s]
  /\ s \in Left => x = 0 \/ x * price[s] < Dollar
  /\ Dealt(s) =>
       x * (price[s] * target.d) * RebalanceBand[2]
         <= (target.n[s] * Size(deployed)) * (RebalanceBand[1] + RebalanceBand[2])
            + (IF before[s] > 0 THEN Crumb[s] * target.d * RebalanceBand[2] ELSE 0)

\* No name is ranked twice; an order still to be sent starts from the morning's position; once
\* all are sent, or given up, none is left; only orders of today are skipped; the target keeps
\* the limits, and is long in the days that trade.
BookInv ==
  /\ BookTypeOK
  /\ IsInjective(ranked)
  /\ CheckOrder(target)
  /\ step = "wrapped" => \A S \in Sectors : Fits(target, S, Limits.sector)
  /\ step \in {"targeted", "trading", "done"} => NonNegative(target)
  /\ step \in {"scored", "targeted"} => pos = before
  /\ step # "trading" => \A s \in Names : plan[s] = 0
  /\ \A s \in Names : plan[s] # 0 => pos[s] = before[s]
  /\ step \notin {"trading", "done"} => skipped = {}
  /\ step \in {"trading", "done"} => \A s \in Names \ skipped : Aimed(s, pos[s] + plan[s])

\* The empty book passes the checks.
LEMMA NoBookChecked == CheckOrder(NoBook) /\ NoBook \in Books
<1>1. NoBook \in Books
  BY DEF NoBook, Books
<1>2. /\ \A S \in SUBSET Names : Gross(NoBook, S) = 0
      /\ Net(NoBook) = 0
  <2>1. ASSUME NEW S \in SUBSET Names
        PROVE  Gross(NoBook, S) = 0
    <3>1. IsFiniteSet(S) /\ \A s \in S : Sizes(NoBook)[s] = 0
      BY RiskAssumption, FS_Subset DEF Sizes, NoBook, Size
    <3> QED BY <3>1, SumOfZeros DEF Gross
  <2>2. Net(NoBook) = 0
    <3>1. \A s \in Names : NoBook.n[s] = 0
      BY DEF NoBook
    <3> QED BY <3>1, RiskAssumption, SumOfZeros DEF Net
  <2> QED BY <2>1, <2>2
<1>3. \A cap \in Ratio : ~Exceeds(0, 1, cap)
  BY DEF Ratio, Exceeds
<1>4. Size(0) = 0 /\ NoBook.d = 1 /\ \A s \in Names : NoBook.n[s] = 0
  BY DEF Size, NoBook
<1>5. Limits.name \in Ratio /\ Limits.gross \in Ratio /\ Limits.net \in Ratio /\ Names \in SUBSET Names
  BY RiskAssumption
<1>6. ~Exceeds(Gross(NoBook, Names), NoBook.d, Limits.gross)
  BY <1>2, <1>3, <1>4, <1>5
<1>7. ~Exceeds(Size(Net(NoBook)), NoBook.d, Limits.net)
  BY <1>2, <1>3, <1>4, <1>5
<1>8. \A s \in Names : ~Exceeds(Size(NoBook.n[s]), NoBook.d, Limits.name)
  BY <1>3, <1>4, <1>5
<1> QED BY <1>1, <1>6, <1>7, <1>8 DEF CheckOrder

\* At first there is nothing to check.
LEMMA BookInitInv == BookInit => BookInv
<1> SUFFICES ASSUME BookInit
             PROVE  BookInv
  OBVIOUS
<1>1. pos = [s \in Names |-> 0] /\ before = pos /\ plan = pos /\ target = NoBook /\ step = "idle"
      /\ deployed = 0 /\ day = 0 /\ cash = StartingCash /\ ranked = << >>
      /\ price = [s \in Names |-> 1] /\ priced = {} /\ reserved = {} /\ stopped = {} /\ skipped = {}
  BY DEF BookInit
<1>2. BookTypeOK
  <2>1. target \in [n : [Names -> Int], d : Nat \ {0}]
    BY <1>1, NoBookChecked DEF Books
  <2>2. day \in 0 .. MaxDay /\ cash \in Int
    BY <1>1, BookAssumption
  <2>3. pos \in [Names -> Int] /\ plan \in [Names -> Int] /\ \A s \in Names : pos[s] + plan[s] >= 0
    BY <1>1
  <2> QED BY <1>1, <2>1, <2>2, <2>3 DEF BookTypeOK
<1>3. IsInjective(ranked)
  BY <1>1 DEF IsInjective
<1> QED BY <1>1, <1>2, <1>3, NoBookChecked DEF BookInv

\* The types, one by one.
LEMMA BookRanges ==
  ASSUME BookTypeOK
  PROVE  /\ pos \in [Names -> Int] /\ before \in [Names -> Int] /\ plan \in [Names -> Int]
         /\ price \in [Names -> Nat \ {0}] /\ target \in Books /\ cash \in Int /\ deployed \in Int
         /\ priced \in SUBSET Names /\ reserved \in SUBSET Names /\ stopped \in SUBSET Names
         /\ ranked \in Seq(Names) /\ skipped \in SUBSET Names
  BY DEF BookTypeOK, Books, Held

\* Equity is a number.
LEMMA EquityIsInt ==
  ASSUME BookTypeOK
  PROVE  Equity \in Int
<1>1. Ints(Worth, Names) /\ IsFiniteSet(Names)
  <2>1. \A s \in Names : pos[s] * price[s] \in Int
    BY BookRanges
  <2> QED BY <2>1, RiskAssumption DEF Ints, Worth
<1> QED BY <1>1, SumType, BookRanges DEF Equity

\* A target that keeps the limits may be written over the last one.
LEMMA TargetedStep ==
  ASSUME BookInv, NEW w \in Books, NonNegative(w), Targeted(ApplyRiskLimits(w, {}))
  PROVE  BookInv'
<1>1. target' \in Books /\ NonNegative(target)' /\ CheckOrder(target)'
  BY LimitsNonNegative DEF Targeted, NonNegative, CheckOrder, Gross, Net, Sizes, Exceeds
<1>2. /\ step = "scored" /\ step' = "targeted"
      /\ UNCHANGED <<day, pos, cash, before, ranked, price, priced, reserved, stopped, plan, skipped, deployed>>
  BY DEF Targeted, input
<1>3. BookTypeOK'
  <2>1. Held' = Held
    BY <1>2 DEF Held
  <2> QED BY <1>1, <1>2, <2>1 DEF BookTypeOK, BookInv, Books
<1> QED BY <1>1, <1>2, <1>3 DEF BookInv

\* What is selected has a name.
LEMMA WinnersNamed ==
  ASSUME BookTypeOK
  PROVE  Winners \in SUBSET Names /\ (Scored \cap priced) \ (stopped \cup reserved) \in SUBSET Names
  BY DEF Winners, BookTypeOK

\* The three ways to size a book make one that passes the checks.
LEMMA SizedStep ==
  ASSUME BookInv, RankedBook \/ GovernedBook \/ WholeBook
  PROVE  BookInv'
<1>1. BookTypeOK
  BY DEF BookInv
<1>2. Winners \in SUBSET Names /\ (Scored \cap priced) \ (stopped \cup reserved) \in SUBSET Names
  BY <1>1, WinnersNamed
<1>3. Leaning \subseteq [Names -> Nat \ {0}] /\ Governor \subseteq Ratio /\ Limits.gross \in Ratio
  BY RiskAssumption, BookAssumption
<1>4. \A gaps \in Gapped : Governable(gaps) \in SUBSET Names
  BY <1>1 DEF Governable, BookTypeOK
<1>5. CASE RankedBook
  <2>1. PICK lean \in Leaning : Targeted(ApplyRiskLimits(Weigh(Winners, lean), {}))
    BY <1>5 DEF RankedBook
  <2>2. Weigh(Winners, lean) \in Books /\ NonNegative(Weigh(Winners, lean))
    BY <1>2, <1>3, WeighBook
  <2> QED BY <2>1, <2>2, TargetedStep
<1>6. CASE GovernedBook
  <2>1. PICK lean \in Leaning, f \in Governor, gaps \in Gapped :
          Targeted(ApplyRiskLimits(VolTarget(Weigh(Winners, lean), Governable(gaps), f, Limits.gross), {}))
    BY <1>6 DEF GovernedBook
  <2>2. Weigh(Winners, lean) \in Books /\ NonNegative(Weigh(Winners, lean))
    BY <1>2, <1>3, WeighBook
  <2> DEFINE w == VolTarget(Weigh(Winners, lean), Governable(gaps), f, Limits.gross)
  <2>3. w \in Books /\ NonNegative(w)
    BY <1>3, <1>4, <2>2, VolTargetBook
  <2> HIDE DEF w
  <2>4. Targeted(ApplyRiskLimits(w, {}))
    BY <2>1 DEF w
  <2> QED BY <2>3, <2>4, TargetedStep
<1>7. CASE WholeBook
  <2> DEFINE S == (Scored \cap priced) \ (stopped \cup reserved)
  <2>1. PICK lean \in Leaning, f \in Governor, gaps \in Gapped :
          Targeted(ApplyRiskLimits(SizeBook(S, lean, Governable(gaps), f), {}))
    BY <1>7 DEF WholeBook
  <2> DEFINE w == SizeBook(S, lean, Governable(gaps), f)
  <2>2. S \in SUBSET Names
    BY <1>2
  <2>3. w \in Books /\ NonNegative(w)
    <3> HIDE DEF S
    <3> QED BY <1>3, <1>4, <2>2, SizeBookBook
  <2> HIDE DEF w
  <2>4. Targeted(ApplyRiskLimits(w, {}))
    BY <2>1 DEF w
  <2> QED BY <2>3, <2>4, TargetedStep
<1> QED BY <1>5, <1>6, <1>7

\* So does the limits wrapper around any weights.
LEMMA WrappedStep ==
  ASSUME BookInv, Wrapped
  PROVE  BookInv'
<1>1. PICK w \in RawBooks : target' = ApplyRiskLimits(w, Sectors)
  BY DEF Wrapped
<1>2. w \in Books
  BY BookAssumption DEF Books
<1>3. /\ target' \in Books /\ CheckOrder(target)'
      /\ \A S \in Sectors : Fits(target, S, Limits.sector)'
  <2>1. Sectors \in SUBSET (SUBSET Names) /\ IsFiniteSet(Sectors)
    BY RiskAssumption
  <2>2. /\ target' \in Books /\ CheckOrder(target')
        /\ \A S \in Sectors : Fits(target', S, Limits.sector)
    BY <1>1, <1>2, <2>1, LimitsKept
  <2> QED BY <2>2 DEF Fits, CheckOrder, Gross, Net, Sizes, Exceeds
<1>4. /\ step = "idle" /\ step' = "wrapped" /\ day' = MaxDay
      /\ UNCHANGED <<pos, cash, before, ranked, price, priced, reserved, stopped, plan, skipped, deployed>>
  BY DEF Wrapped, input
<1>5. BookTypeOK'
  <2>1. Held' = Held
    BY <1>4 DEF Held
  <2>2. day' \in 0 .. MaxDay
    BY <1>4, BookAssumption
  <2> QED BY <1>3, <1>4, <2>1, <2>2 DEF BookTypeOK, BookInv, Books
<1> QED BY <1>3, <1>4, <1>5 DEF BookInv

\* A new day begins with what is held.
LEMMA ScoreStep ==
  ASSUME BookInv, Score
  PROVE  BookInv'
<1>1. /\ step = "idle" /\ step' = "scored" /\ day' = day + 1 /\ day < MaxDay /\ before' = pos
      /\ price' \in Closes /\ priced' \in Known /\ ranked' \in Rankings /\ reserved' \in Sleeve
      /\ UNCHANGED <<pos, cash, target, plan, skipped, deployed>>
  BY DEF Score
<1>2. PICK down, broken, sour \in Marked :
        stopped' = Stops(down, broken, sour, {s \in Names \ reserved' : pos[s] > 0}, priced')
  BY DEF Score
<1>3. stopped' \subseteq Held'
  BY <1>1, <1>2 DEF Stops, Held
<1>4. price' \in [Names -> Nat \ {0}] /\ priced' \subseteq Names /\ reserved' \subseteq Names /\ ranked' \in Seq(Names)
  BY <1>1, BookAssumption
<1>5. day' \in 0 .. MaxDay
  BY <1>1, BookAssumption DEF BookInv, BookTypeOK
<1>6. \A s \in Names : plan[s] = 0 /\ pos[s] \in Int
  BY <1>1, BookRanges DEF BookInv
<1>7. BookTypeOK'
  BY <1>1, <1>3, <1>4, <1>5, <1>6 DEF BookTypeOK, BookInv
<1>8. CheckOrder(target)'
  BY <1>1 DEF BookInv, CheckOrder, Gross, Net, Sizes, Exceeds
<1>9. IsInjective(ranked)'
  BY <1>1, BookAssumption
<1> QED BY <1>1, <1>6, <1>7, <1>8, <1>9 DEF BookInv

\* Planned on the morning's positions, every order aims where the target allows.
LEMMA PlanStep ==
  ASSUME BookInv, Plan
  PROVE  BookInv'
<1> DEFINE e == Least(Equity, CapitalCeiling)
<1>1. /\ step = "targeted" /\ step' = "trading" /\ deployed' = e
      /\ UNCHANGED <<day, pos, cash, before, ranked, price, priced, reserved, stopped, target, skipped>>
  BY DEF Plan, input
<1>2. plan' = [s \in Names |-> IF Dealt(s) THEN Delta(s, e) ELSE 0]
  BY <1>1 DEF Plan, Dealt
<1>3. BookTypeOK /\ pos = before /\ NonNegative(target)
  BY <1>1 DEF BookInv
<1>4. e \in Int
  <2>1. Equity \in Int
    BY <1>3, EquityIsInt
  <2> QED BY <2>1, BookAssumption DEF Least
<1> HIDE DEF e
<1>5. ASSUME NEW s \in Names
      PROVE  LET x == pos[s] + Delta(s, e)
                 unit == price[s] * target.d
             IN  /\ Delta(s, e) \in Int
                 /\ target.n[s] = 0 /\ pos[s] > 0 => x = 0 \/ x * price[s] < Dollar
                 /\ e >= 0 /\ pos[s] >= 0 => x >= 0
                 /\ x * unit * RebalanceBand[2]
                      <= (target.n[s] * Size(e)) * (RebalanceBand[1] + RebalanceBand[2])
                         + (IF pos[s] > 0 THEN Crumb[s] * target.d * RebalanceBand[2] ELSE 0)
  <2>1. target \in Books /\ target.n[s] >= 0 /\ price[s] \in Nat \ {0} /\ pos[s] \in Int
    BY <1>3, BookRanges DEF NonNegative
  <2> QED BY <1>4, <2>1, DeltaFacts
<1>6. plan' \in [Names -> Int]
  BY <1>2, <1>5
<1>7. \A s \in Names : deployed' >= 0 /\ before'[s] >= 0 => pos'[s] + plan'[s] >= 0
  <2> TAKE s \in Names
  <2>1. pos[s] \in Int
    BY <1>3, BookRanges
  <2>2. plan'[s] = IF Dealt(s) THEN Delta(s, e) ELSE 0
    BY <1>2
  <2> QED BY <1>1, <1>3, <1>5, <2>1, <2>2
<1>8. Held' = Held /\ In(target)' = In(target) /\ Left' = Left /\ \A s \in Names : Dealt(s)' = Dealt(s)
  BY <1>1 DEF Held, In, Left, Dealt
<1>9. BookTypeOK'
  BY <1>1, <1>3, <1>4, <1>6, <1>7, <1>8 DEF BookTypeOK
<1>10. ASSUME NEW s \in Names
       PROVE  Aimed(s, pos[s] + plan[s])'
  <2> DEFINE x == pos[s] + plan'[s]
  <2>1. pos[s] \in Int /\ plan'[s] = IF Dealt(s) THEN Delta(s, e) ELSE 0
    BY <1>2, <1>3, BookRanges
  <2>2. ~Dealt(s) => x = before[s]
    BY <1>3, <2>1
  <2>3. s \in Left => x = 0 \/ x * price[s] < Dollar
    <3> HAVE s \in Left
    <3>1. Dealt(s) /\ target.n[s] = 0 /\ pos[s] > 0
      BY <1>3 DEF Dealt, Left, In, Held
    <3> QED BY <1>5, <2>1, <3>1
  <2>4. Dealt(s) =>
          x * (price[s] * target.d) * RebalanceBand[2]
            <= (target.n[s] * Size(e)) * (RebalanceBand[1] + RebalanceBand[2])
               + (IF before[s] > 0 THEN Crumb[s] * target.d * RebalanceBand[2] ELSE 0)
    BY <1>3, <1>5, <2>1
  <2>5. (pos[s] + plan[s])' = x
    BY <1>1
  <2> HIDE DEF x
  <2>6. Crumb' = Crumb
    BY <1>1 DEF Crumb
  <2> QED BY <1>1, <1>8, <2>2, <2>3, <2>4, <2>5, <2>6 DEF Aimed, Size
<1>11. CheckOrder(target)'
  BY <1>1 DEF BookInv, CheckOrder, Gross, Net, Sizes, Exceeds
<1>12. \A s \in Names : pos'[s] = before'[s]
  BY <1>1, <1>3
<1>13. NonNegative(target)'
  BY <1>1, <1>3 DEF NonNegative
<1> QED BY <1>1, <1>9, <1>10, <1>11, <1>12, <1>13 DEF BookInv

\* Filling one order, passing over one or the rest, or ending the day moves no aim of a name
\* whose order was placed.
LEMMA TradingStep ==
  ASSUME BookInv, Send \/ PassOver \/ RateCapped \/ Finish \/ BreakOff \/ NextDay
  PROVE  BookInv'
<1>1. UNCHANGED <<day, before, ranked, price, priced, reserved, stopped, target, deployed>>
  BY DEF Send, PassOver, RateCapped, Finish, BreakOff, NextDay, input
<1>2. BookTypeOK /\ CheckOrder(target)' /\ IsInjective(ranked)'
  BY <1>1 DEF BookInv, CheckOrder, Gross, Net, Sizes, Exceeds, IsInjective
<1>3. Held' = Held /\ (\A s \in Names : Dealt(s)' = Dealt(s)) /\ Left' = Left /\ Crumb' = Crumb
  BY <1>1 DEF Held, In, Left, Dealt, Crumb
<1>4. ASSUME NEW s \in Names, Aimed(s, pos[s] + plan[s]), pos'[s] + plan'[s] = pos[s] + plan[s]
      PROVE  Aimed(s, pos[s] + plan[s])'
  <2> DEFINE x == pos[s] + plan[s]
             y == pos'[s] + plan'[s]
  <2>1. Aimed(s, x) /\ y = x /\ y = (pos[s] + plan[s])'
    BY <1>4
  <2> HIDE DEF x, y
  <2> QED BY <2>1, <1>1, <1>3 DEF Aimed, Size
<1>5. step \in {"targeted", "trading", "done"} => NonNegative(target)'
  BY <1>1 DEF BookInv, NonNegative
<1>6. CASE Send
  <2>1. PICK t \in Names : Trade(t) /\ step = "trading"
    BY <1>6 DEF Send, NextInLine
  <2>2. step' = "trading" /\ skipped' = skipped
    BY <1>6, <2>1 DEF Send
  <2>3. /\ pos' = [pos EXCEPT ![t] = @ + plan[t]] /\ plan' = [plan EXCEPT ![t] = 0]
        /\ cash' = cash - plan[t] * price[t]
    BY <2>1 DEF Trade
  <2>4. pos' \in [Names -> Int] /\ plan' \in [Names -> Int] /\ cash' \in Int
    BY <1>2, <2>3, BookRanges
  <2>5. \A s \in Names : pos'[s] + plan'[s] = pos[s] + plan[s]
    BY <1>2, <2>3, BookRanges
  <2>6. BookTypeOK'
    BY <1>1, <1>2, <1>3, <2>2, <2>4, <2>5 DEF BookTypeOK
  <2>7. \A s \in Names \ skipped' : Aimed(s, pos[s] + plan[s])'
    BY <1>4, <2>1, <2>2, <2>5 DEF BookInv
  <2>8. \A s \in Names : plan'[s] # 0 => pos'[s] = before'[s]
    BY <1>1, <1>2, <2>3, BookRanges DEF BookInv
  <2> QED BY <1>2, <1>5, <2>1, <2>2, <2>6, <2>7, <2>8 DEF BookInv
<1>7. CASE PassOver \/ RateCapped \/ BreakOff
  <2>1. step = "trading" /\ UNCHANGED <<pos, cash>>
    BY <1>7 DEF PassOver, RateCapped, BreakOff
  <2>2. plan' \in [Names -> Int] /\ \A s \in Names : plan'[s] = plan[s] \/ plan'[s] = 0
    <3>1. plan \in [Names -> Int]
      BY <1>2, BookRanges
    <3> QED BY <1>7, <3>1 DEF PassOver, RateCapped, BreakOff
  <2>3. ASSUME NEW s \in Names
        PROVE  /\ deployed' >= 0 /\ before'[s] >= 0 => pos'[s] + plan'[s] >= 0
               /\ plan'[s] # 0 => pos'[s] = before'[s]
    <3>1. plan[s] \in Int /\ pos[s] \in Int /\ (plan[s] # 0 => pos[s] = before[s])
          /\ (deployed >= 0 /\ before[s] >= 0 => pos[s] + plan[s] >= 0)
      BY <1>2, BookRanges DEF BookInv, BookTypeOK
    <3> QED BY <1>1, <2>1, <2>2, <3>1
  <2>4. CASE PassOver \/ RateCapped
    <3>1. /\ step' = "trading" /\ skipped' \subseteq Names
          /\ \A s \in Names \ skipped' : s \notin skipped /\ plan'[s] = plan[s]
      <4>1. plan \in [Names -> Int] /\ skipped \subseteq Names
        BY <1>2, BookRanges
      <4>2. CASE PassOver
        <5>1. PICK t \in Names : plan' = [plan EXCEPT ![t] = 0] /\ skipped' = skipped \cup {t}
          BY <4>2 DEF PassOver, NextInLine
        <5>2. step' = "trading"
          BY <2>1, <4>2 DEF PassOver
        <5> QED BY <4>1, <5>1, <5>2
      <4>3. CASE RateCapped
        BY <2>1, <4>1, <4>3 DEF RateCapped
      <4> QED BY <2>4, <4>2, <4>3
    <3>2. BookTypeOK'
      BY <1>1, <1>2, <1>3, <2>1, <2>2, <2>3, <3>1 DEF BookTypeOK
    <3>3. \A s \in Names \ skipped' : Aimed(s, pos[s] + plan[s])'
      BY <1>4, <2>1, <3>1 DEF BookInv
    <3> QED BY <1>2, <1>5, <2>1, <2>3, <3>1, <3>2, <3>3 DEF BookInv
  <2>5. CASE BreakOff
    <3>1. step' = "idle" /\ skipped' = {} /\ \A s \in Names : plan'[s] = 0
      BY <2>5 DEF BreakOff
    <3>2. BookTypeOK'
      BY <1>1, <1>2, <1>3, <2>1, <2>2, <2>3, <3>1 DEF BookTypeOK
    <3> QED BY <1>2, <2>1, <3>1, <3>2 DEF BookInv
  <2> QED BY <1>7, <2>4, <2>5
<1>8. CASE Finish
  <2>1. step = "trading" /\ step' = "done" /\ UNCHANGED <<pos, plan, cash, skipped>>
    BY <1>8 DEF Finish
  <2>2. \A s \in Names : plan[s] = 0
    <3>1. \A s \in Names : plan[s] \in Int
      BY <1>2, BookRanges
    <3> QED BY <1>8, <3>1 DEF Finish, NextInLine
  <2>3. BookTypeOK'
    BY <1>1, <1>2, <1>3, <2>1 DEF BookTypeOK
  <2>4. \A s \in Names \ skipped' : Aimed(s, pos[s] + plan[s])'
    BY <1>4, <2>1 DEF BookInv
  <2> QED BY <1>2, <1>5, <2>1, <2>2, <2>3, <2>4 DEF BookInv
<1>9. CASE NextDay
  <2>1. step = "done" /\ step' = "idle" /\ skipped' = {} /\ UNCHANGED <<pos, plan, cash>>
    BY <1>9 DEF NextDay
  <2>2. BookTypeOK'
    BY <1>1, <1>2, <1>3, <2>1 DEF BookTypeOK
  <2> QED BY <1>2, <2>1, <2>2 DEF BookInv
<1> QED BY <1>6, <1>7, <1>8, <1>9

\* Every step of the book keeps the invariant.
LEMMA BookStep ==
  ASSUME BookInv, BookNext \/ UNCHANGED bookVars
  PROVE  BookInv'
<1>1. CASE UNCHANGED bookVars
  <2>1. UNCHANGED <<day, step, pos, cash, before, ranked, price, priced, reserved, stopped, target, plan, skipped, deployed>>
    BY <1>1 DEF bookVars, input
  <2>2. Held' = Held /\ (\A s \in Names : Dealt(s)' = Dealt(s)) /\ Left' = Left /\ Crumb' = Crumb
    BY <2>1 DEF Held, In, Left, Dealt, Crumb
  <2>3. BookTypeOK'
    BY <2>1, <2>2 DEF BookInv, BookTypeOK
  <2>4. CheckOrder(target)' /\ (step = "wrapped" => \A S \in Sectors : Fits(target, S, Limits.sector))'
    BY <2>1 DEF BookInv, CheckOrder, Gross, Net, Sizes, Exceeds, Fits
  <2>5. (step \in {"trading", "done"} => \A s \in Names \ skipped : Aimed(s, pos[s] + plan[s]))'
    BY <2>1, <2>2 DEF BookInv, Aimed, Size
  <2>6. (step \in {"targeted", "trading", "done"} => NonNegative(target))'
    BY <2>1 DEF BookInv, NonNegative
  <2> QED BY <2>1, <2>3, <2>4, <2>5, <2>6 DEF BookInv
<1> QED BY <1>1, ScoreStep, SizedStep, WrappedStep, PlanStep, TradingStep DEF BookNext

-----------------------------------------------------------------------------
(* What follows *)

\* A book that passed the limits passes the pre-trade check.
LEMMA BookNeverRefused == BookInv => NeverRefused
  BY DEF BookInv, NeverRefused, Fits

\* A planned exit that was placed leaves nothing, or less than the dollar that is not traded.
LEMMA BookNothingLingers == BookInv => NothingLingers
<1> SUFFICES ASSUME BookInv, step = "done", NEW s \in priced \ skipped, pos[s] > 0,
                    Worth[s] >= Dollar, s \notin In(target) \cup reserved
             PROVE  FALSE
  BY DEF NothingLingers
<1>1. s \in Names /\ pos[s] \in Int /\ before[s] \in Int /\ pos[s] + plan[s] = pos[s]
  BY BookRanges DEF BookInv
<1>2. Aimed(s, pos[s])
  BY <1>1 DEF BookInv
<1>3. Worth[s] = pos[s] * price[s] /\ Worth[s] \in Int /\ Dollar \in Nat
  <2>1. price[s] \in Nat
    BY <1>1, BookRanges DEF BookInv
  <2> QED BY <1>1, <2>1, BookAssumption DEF Worth
<1>4. CASE before[s] > 0
  BY <1>1, <1>2, <1>3, <1>4 DEF Left, Held, Aimed
<1>5. CASE ~(before[s] > 0)
  BY <1>1, <1>2, <1>5 DEF Left, Held, Aimed, Dealt
<1> QED BY <1>4, <1>5

\* Name by name the drift stays in the band: so does the sum.
LEMMA BookWithinBudget == BookInv => WithinBudget
<1> SUFFICES ASSUME BookInv, step = "done"
             PROVE  (SumFunctionOnSet(Worth, priced \ (reserved \cup skipped))
                        - SumFunctionOnSet(Crumb, Held \cap (priced \ (reserved \cup skipped))))
                       * target.d * RebalanceBand[2]
                     <= Gross(target, Names) * Size(deployed) * (RebalanceBand[1] + RebalanceBand[2])
  BY DEF WithinBudget
<1> DEFINE S == priced \ (reserved \cup skipped)
           H == Held \cap S
           R == S \ H
           b1 == RebalanceBand[1]
           b2 == RebalanceBand[2]
           k == target.d * b2
           m == Size(deployed) * (b1 + b2)
           f == [s \in S |-> k * Worth[s]]
           g == [s \in S |-> m * Sizes(target)[s]]
           rest == [s \in S |-> IF s \in H THEN k * Crumb[s] ELSE 0]
           sum == [s \in S |-> g[s] + rest[s]]
           W == SumFunctionOnSet(Worth, S)
           P == SumFunctionOnSet(Crumb, H)
           G == Gross(target, S)
<1>1. BookTypeOK /\ NonNegative(target) /\ (\A s \in Names \ skipped : Aimed(s, pos[s])) /\ \A s \in Names : pos[s] \in Int /\ before[s] \in Int
  <2>1. BookTypeOK /\ NonNegative(target)
    BY DEF BookInv
  <2>2. ASSUME NEW s \in Names
        PROVE  (s \notin skipped => Aimed(s, pos[s])) /\ pos[s] \in Int /\ before[s] \in Int
    <3>1. pos[s] \in Int /\ before[s] \in Int /\ plan[s] = 0 /\ (s \notin skipped => Aimed(s, pos[s] + plan[s]))
      BY <2>1, BookRanges DEF BookInv
    <3>2. pos[s] + plan[s] = pos[s]
      BY <3>1
    <3> QED BY <3>1, <3>2
  <2> QED BY <2>1, <2>2
<1>2. /\ priced \in SUBSET Names /\ target \in Books /\ price \in [Names -> Nat \ {0}] /\ deployed \in Int
      /\ target.d \in Nat \ {0} /\ b1 \in Nat /\ b2 \in Nat /\ Crumb \in [Names -> Nat]
  <2>1. price \in [Names -> Nat \ {0}] /\ Dollar \in Nat
    BY <1>1, BookRanges, BookAssumption
  <2>2. Crumb \in [Names -> Nat]
    BY <2>1 DEF Crumb
  <2> QED BY <1>1, <2>2, BookRanges, BookAssumption DEF Books, Ratio
<1>3. S \in SUBSET Names /\ H \in SUBSET S /\ R \in SUBSET S /\ H \cap R = {} /\ H \cup R = S
  BY <1>2 DEF Held
<1>4. IsFiniteSet(S) /\ IsFiniteSet(H) /\ IsFiniteSet(R)
  <2> HIDE DEF S, H, R
  <2> QED BY <1>3, RiskAssumption, FS_Subset
<1>5. k \in Nat /\ m \in Nat
  <2>1. Size(deployed) \in Nat
    BY <1>2 DEF Size
  <2> QED BY <1>2, <2>1
<1>6. /\ Ints(Worth, S) /\ Ints(Sizes(target), S) /\ Ints(Crumb, H) /\ G \in Nat /\ Ints(Sizes(target), Names)
      /\ \A s \in S : Sizes(target)[s] = target.n[s] /\ target.n[s] \in Nat /\ Worth[s] = pos[s] * price[s]
  <2>1. ASSUME NEW s \in S
        PROVE  Worth[s] = pos[s] * price[s] /\ Worth[s] \in Int
    BY <1>1, <1>2, <1>3 DEF Worth
  <2>2. ASSUME NEW s \in S
        PROVE  Sizes(target)[s] = target.n[s] /\ target.n[s] \in Nat
    BY <1>1, <1>2, <1>3 DEF NonNegative, Sizes, Size, Books
  <2>3. Ints(Sizes(target), S) /\ G \in Nat /\ Ints(Sizes(target), Names)
    <3> HIDE DEF S
    <3> QED BY <1>2, <1>3, BookTypes
  <2>4. Ints(Crumb, H)
    BY <1>2, <1>3 DEF Ints
  <2> HIDE DEF S, H
  <2> QED BY <2>1, <2>2, <2>3, <2>4 DEF Ints
<1>7. ASSUME NEW s \in S
      PROVE  f[s] \in Int /\ g[s] \in Int /\ rest[s] \in Int /\ sum[s] \in Int /\ f[s] <= sum[s]
  <2> DEFINE x == pos[s]
             unit == price[s] * target.d
             crumb == Crumb[s] * target.d
             bound == (target.n[s] * Size(deployed)) * (b1 + b2)
  <2>1. s \in Names /\ s \notin skipped /\ x \in Int /\ price[s] \in Nat \ {0} /\ Crumb[s] \in Nat /\ target.n[s] \in Nat /\ Size(deployed) \in Nat
    BY <1>1, <1>2, <1>3, <1>6 DEF Size
  <2>2. f[s] = k * (x * price[s]) /\ g[s] = m * target.n[s]
    BY <1>6
  <2>3. f[s] \in Int /\ g[s] \in Nat /\ rest[s] \in Nat
    <3>1. k * Crumb[s] \in Nat /\ k * (x * price[s]) \in Int /\ m * target.n[s] \in Nat
      BY <1>5, <2>1
    <3> HIDE DEF k, m, H
    <3> QED BY <2>2, <3>1
  <2>4. x * unit * b2 = k * (x * price[s]) /\ bound = m * target.n[s] /\ crumb * b2 = k * Crumb[s]
    BY <1>2, <2>1
  <2>5. Dealt(s) => f[s] <= g[s] + rest[s]
    <3> HAVE Dealt(s)
    <3>1. x * unit * b2 <= bound + (IF before[s] > 0 THEN crumb * b2 ELSE 0)
      BY <1>1, <2>1 DEF Aimed
    <3>2. before[s] > 0 => s \in H
      BY <2>1 DEF Held
    <3>3. (IF before[s] > 0 THEN crumb * b2 ELSE 0) <= rest[s]
      BY <2>3, <2>4, <3>2
    <3>4. (IF before[s] > 0 THEN crumb * b2 ELSE 0) \in Int
      <4>1. crumb * b2 \in Int
        BY <1>2, <2>1
      <4> QED BY <4>1
    <3> DEFINE held == IF before[s] > 0 THEN crumb * b2 ELSE 0
    <3>5. f[s] <= g[s] + held /\ held <= rest[s] /\ held \in Int
      <4> HIDE DEF f, g, rest, k, m, unit, crumb, bound
      <4> QED BY <2>2, <2>4, <3>1, <3>3, <3>4
    <3> HIDE DEF f, g, rest, held
    <3> QED BY <2>3, <3>5
  <2>6. ~Dealt(s) => f[s] <= g[s] + rest[s]
    <3> HAVE ~Dealt(s)
    <3>1. x = before[s]
      BY <1>1, <2>1 DEF Aimed
    <3>2. x <= 0
      BY <1>1, <2>1, <3>1 DEF Dealt, Left, Held
    <3>3. x * price[s] <= 0 /\ x * price[s] \in Int
      BY <2>1, <3>2
    <3>4. k * (x * price[s]) <= 0
      <4> HIDE DEF k, x
      <4> QED BY <1>5, <3>3
    <3> HIDE DEF f, g, rest, k, m
    <3> QED BY <2>2, <2>3, <3>4
  <2>8. f[s] <= g[s] + rest[s]
    BY <2>5, <2>6
  <2>7. sum[s] = g[s] + rest[s]
    OBVIOUS
  <2> HIDE DEF f, g, rest, sum, x, unit, crumb, bound
  <2> QED BY <2>3, <2>7, <2>8
<1>8. Ints(f, S) /\ Ints(g, S) /\ Ints(rest, S) /\ Ints(sum, S)
  <2> HIDE DEF f, g, rest, sum, S
  <2> QED BY <1>7 DEF Ints
<1>9. SumFunctionOnSet(f, S) <= SumFunctionOnSet(sum, S)
  <2> HIDE DEF f, g, rest, sum, S
  <2> QED BY <1>4, <1>7, <1>8, SumMonotone
<1>10. SumFunctionOnSet(sum, S) = SumFunctionOnSet(g, S) + SumFunctionOnSet(rest, S)
  <2>1. \A s \in S : sum[s] = g[s] + rest[s]
    OBVIOUS
  <2> HIDE DEF f, g, rest, sum, S
  <2> QED BY <1>4, <1>8, <2>1, SumOfSums
<1>11. SumFunctionOnSet(f, S) = k * W
  <2>1. \A s \in S : f[s] = k * Worth[s]
    OBVIOUS
  <2> HIDE DEF f, S, k
  <2> QED BY <1>4, <1>5, <1>6, <2>1, SumScale
<1>12. SumFunctionOnSet(g, S) = m * G
  <2>1. \A s \in S : g[s] = m * Sizes(target)[s]
    OBVIOUS
  <2> HIDE DEF g, S, m
  <2> QED BY <1>4, <1>5, <1>6, <2>1, SumScale DEF Gross
<1>13. SumFunctionOnSet(rest, S) = k * P
  <2>1. (\A s \in H : rest[s] = k * Crumb[s]) /\ (\A s \in R : rest[s] = 0)
    BY <1>3
  <2> HIDE DEF rest, S, H, R, k
  <2>2. SumFunctionOnSet(rest, H) = k * P
    BY <1>4, <1>5, <1>6, <2>1, SumScale
  <2>3. SumFunctionOnSet(rest, R) = 0
    BY <1>4, <2>1, SumOfZeros
  <2>4. SumFunctionOnSet(rest, S) = SumFunctionOnSet(rest, H) + SumFunctionOnSet(rest, R)
    BY <1>3, <1>4, <1>8, SumUnion
  <2>5. P \in Int
    BY <1>4, <1>6, SumType
  <2>6. k * P \in Int
    BY <1>5, <2>5
  <2> QED BY <2>2, <2>3, <2>4, <2>6
<1>14. W \in Int /\ P \in Int
  <2> HIDE DEF S, H
  <2> QED BY <1>4, <1>6, SumType
<1>15. G <= Gross(target, Names)
  <2> DEFINE T == Names \ S
  <2>1. S \cup T = Names /\ S \cap T = {} /\ T \in SUBSET Names
    BY <1>3
  <2> HIDE DEF S, T
  <2>2. Gross(target, T) \in Nat /\ IsFiniteSet(T)
    BY <1>2, <2>1, BookTypes
  <2>3. Gross(target, Names) = G + Gross(target, T)
    BY <1>4, <1>6, <2>1, <2>2, SumUnion DEF Gross
  <2> QED BY <1>6, <2>2, <2>3
<1> HIDE DEF W, P, G, f, g, rest, sum
<1>16. k * W <= m * G + k * P
  BY <1>9, <1>10, <1>11, <1>12, <1>13
<1>17. Gross(target, Names) \in Nat
  <2>1. Names \in SUBSET Names
    OBVIOUS
  <2> QED BY <1>2, <2>1, BookTypes
<1>18. m * G <= m * Gross(target, Names)
  <2> HIDE DEF m
  <2> QED BY <1>5, <1>6, <1>15, <1>17
<1>19. (W - P) * target.d * b2 = k * W - k * P
  BY <1>2, <1>14
<1>20. Gross(target, Names) * Size(deployed) * (b1 + b2) = m * Gross(target, Names)
  <2>1. Size(deployed) \in Nat
    BY <1>2 DEF Size
  <2> QED BY <1>2, <1>17, <2>1
<1>21. (W - P) * target.d * b2 <= Gross(target, Names) * Size(deployed) * (b1 + b2)
  <2>1. k * W \in Int /\ k * P \in Int /\ m * G \in Int /\ m * Gross(target, Names) \in Int
    <3> HIDE DEF k, m
    <3> QED BY <1>5, <1>6, <1>14, <1>17
  <2> HIDE DEF k, m
  <2> QED BY <1>16, <1>18, <1>19, <1>20, <2>1
<1> QED BY <1>21 DEF W, P, G

-----------------------------------------------------------------------------
(* The selection *)

\* A rank is the place of a name on the ranking.
LEMMA RankIs ==
  ASSUME ranked \in Seq(Names), IsInjective(ranked), NEW i \in 1 .. Len(ranked)
  PROVE  Rank(ranked[i]) = i
BY DEF Rank, IsInjective

\* The two places of the hysteresis are numbers.
LEMMA PlacesAreNumbers ==
  ASSUME BookTypeOK
  PROVE  EnterK \in Nat /\ ExitK \in 0 .. Len(ranked)
<1>1. TopQuantile[1] \in Nat /\ TopQuantile[2] \in Nat \ {0} /\ ExitBand[1] \in Nat /\ ExitBand[2] \in Nat \ {0}
      /\ MaxPositions \in Nat /\ Len(ranked) \in Nat
  BY BookAssumption, BookRanges DEF Ratio
<1>2. (Len(ranked) * TopQuantile[1]) \div TopQuantile[2] \in Int
  <2>1. Len(ranked) * TopQuantile[1] \in Int
    BY <1>1
  <2> QED BY <1>1, <2>1, Division
<1>3. EnterK \in Nat
  <2> DEFINE x == (Len(ranked) * TopQuantile[1]) \div TopQuantile[2]
  <2> HIDE DEF x
  <2>1. x \in Int
    BY <1>2 DEF x
  <2> QED BY <1>1, <2>1 DEF EnterK, x, Capped, Greatest, Least
<1>4. EnterK * ExitBand[1] \in Int
  BY <1>1, <1>3
<1>5. (EnterK * ExitBand[1]) \div ExitBand[2] \in Int
  BY <1>1, <1>4, Division
<1>6. Round(EnterK * ExitBand[1], ExitBand[2]) \in Int
  BY <1>5 DEF Round
<1> QED BY <1>1, <1>3, <1>6 DEF ExitK, Least, Greatest

\* A held name inside the exit rank is kept after the better ones, one to one.
LEMMA HeldKeptFirst ==
  ASSUME BookTypeOK, IsInjective(ranked), NEW s \in Held, s \in Scored, Rank(s) <= ExitK
  PROVE  /\ HeldKept \in Seq(Names)
         /\ \E k \in 1 .. Len(HeldKept) :
              /\ HeldKept[k] = s
              /\ \E f \in Injection(1 .. (k - 1), {t \in Held \cap Scored : Rank(t) < Rank(s)}) : TRUE
<1> DEFINE seq == Best(ExitK)
           out == HeldKept
           T == {t \in Held \cap Scored : Rank(t) < Rank(s)}
<1>1. ranked \in Seq(Names) /\ ExitK \in 0 .. Len(ranked)
  BY BookRanges, PlacesAreNumbers
<1>2. seq = SubSeq(ranked, 1, ExitK)
  BY <1>1 DEF Best, Least
<1>3. seq \in Seq(Names) /\ Len(seq) = ExitK /\ \A i \in 1 .. ExitK : seq[i] = ranked[i]
  BY <1>1, <1>2
<1>4. out = Among(seq, Held)
  BY DEF HeldKept
<1> HIDE DEF seq, out
<1>5. out \in Seq(Names) /\ \E at : InOrder(seq, Held, ExitK, out, at)
  BY <1>3, <1>4, AmongOrder
<1>6. PICK at : InOrder(seq, Held, ExitK, out, at)
  BY <1>5
<1>7. PICK r \in 1 .. Len(ranked) : ranked[r] = s
  BY DEF Scored
<1>8. Rank(s) = r /\ r \in 1 .. ExitK /\ seq[r] = s
  BY <1>1, <1>3, <1>7, RankIs
<1>9. PICK k \in 1 .. Len(out) : at[k] = r
  BY <1>6, <1>8 DEF InOrder
<1>10. out[k] = s
  BY <1>6, <1>8, <1>9 DEF InOrder
<1> DEFINE f == [m \in 1 .. (k - 1) |-> out[m]]
<1>11. ASSUME NEW m \in 1 .. (k - 1)
       PROVE  f[m] = ranked[at[m]] /\ at[m] \in 1 .. Len(ranked) /\ at[m] < r /\ f[m] \in Held
  <2>1. m \in 1 .. Len(out) /\ m < k
    BY <1>5, <1>9
  <2>2. at[m] \in 1 .. ExitK /\ at[m] < r /\ out[m] = seq[at[m]] /\ seq[at[m]] \in Held
    BY <1>6, <1>9, <2>1 DEF InOrder
  <2> QED BY <1>1, <1>3, <2>2
<1>12. ASSUME NEW m \in 1 .. (k - 1)
       PROVE  f[m] \in T /\ Rank(f[m]) = at[m]
  <2>1. Rank(ranked[at[m]]) = at[m]
    BY <1>1, <1>11, RankIs
  <2>2. ranked[at[m]] \in Scored
    BY <1>11 DEF Scored
  <2> HIDE DEF f
  <2> QED BY <1>8, <1>11, <2>1, <2>2
<1>13. ASSUME NEW a \in 1 .. (k - 1), NEW b \in 1 .. (k - 1), f[a] = f[b]
       PROVE  a = b
  <2>1. at[a] = at[b]
    <3> HIDE DEF f
    <3> QED BY <1>12, <1>13
  <2>2. a \in 1 .. Len(out) /\ b \in 1 .. Len(out)
    BY <1>5, <1>9
  <2>3. (a < b => at[a] < at[b]) /\ (b < a => at[b] < at[a]) /\ at[a] \in Int /\ at[b] \in Int
    BY <1>6, <2>2 DEF InOrder
  <2> QED BY <2>1, <2>3
<1>14. f \in Injection(1 .. (k - 1), T)
  <2>1. f \in [1 .. (k - 1) -> T]
    <3>1. \A m \in 1 .. (k - 1) : f[m] \in T
      BY <1>12
    <3> HIDE DEF T
    <3> QED BY <3>1
  <2>2. DOMAIN f = 1 .. (k - 1)
    OBVIOUS
  <2> HIDE DEF f, T
  <2> QED BY <1>13, <2>1, <2>2 DEF Injection, IsInjective
<1> QED BY <1>5, <1>9, <1>10, <1>14 DEF out

\* So one not kept had no seat left.
LEMMA BookSoldForAReason == BookInv => SoldForAReason
<1> SUFFICES ASSUME BookTypeOK, IsInjective(ranked)
             PROVE  SoldForAReason
  BY DEF BookInv
<1> SUFFICES ASSUME NEW s \in Held \ (stopped \cup Winners), s \in Scored, ~(Rank(s) > ExitK)
             PROVE  /\ MaxPositions # 0
                    /\ Cardinality({t \in Held \cap Scored : Rank(t) < Rank(s)}) >= MaxPositions
  BY DEF SoldForAReason
<1> DEFINE T == {t \in Held \cap Scored : Rank(t) < Rank(s)}
           chosen == HeldKept \o Entrants
           n == Capped(Len(chosen))
<1>1. ranked \in Seq(Names) /\ ExitK \in Int /\ EnterK \in Nat /\ MaxPositions \in Nat
  BY BookRanges, PlacesAreNumbers, BookAssumption
<1>2. Rank(s) <= ExitK
  <2>1. PICK r \in 1 .. Len(ranked) : ranked[r] = s
    BY DEF Scored
  <2>2. Rank(s) = r
    BY <1>1, <2>1, RankIs
  <2> QED BY <1>1, <2>2
<1>3. PICK k \in 1 .. Len(HeldKept) :
        HeldKept[k] = s /\ \E f \in Injection(1 .. (k - 1), T) : TRUE
  BY <1>2, HeldKeptFirst
<1>4. HeldKept \in Seq(Names)
  BY <1>2, HeldKeptFirst
<1>5. Entrants \in Seq(Names)
  <2>1. Best(EnterK) \in Seq(Names)
    BY <1>1 DEF Best, Least
  <2> QED BY <2>1, AmongOrder DEF Entrants
<1>6. chosen \in Seq(Names) /\ k \in 1 .. Len(chosen) /\ chosen[k] = s
  BY <1>3, <1>4, <1>5
<1> HIDE DEF chosen
<1>7. n \in Nat /\ n <= Len(chosen) /\ (MaxPositions = 0 => n = Len(chosen)) /\ (n < Len(chosen) => n = MaxPositions)
  BY <1>1, <1>6 DEF Capped, Least
<1>8. Select = SubSeq(chosen, 1, n)
  BY DEF Select, chosen
<1>9. ~(k <= n)
  <2> SUFFICES ASSUME k <= n
               PROVE  FALSE
    OBVIOUS
  <2>1. k \in 1 .. Len(Select) /\ Select[k] = s
    BY <1>6, <1>7, <1>8
  <2>2. s \in Names /\ s \notin stopped \cup reserved
    BY DEF Held
  <2> QED BY <2>1, <2>2 DEF Winners
<1>10. MaxPositions # 0 /\ MaxPositions < k
  BY <1>1, <1>6, <1>7, <1>9
<1>11. Cardinality(1 .. (k - 1)) = k - 1
  BY <1>1, <1>10, FS_Interval
<1>12. IsFiniteSet(T)
  <2>1. T \subseteq Names
    BY DEF Held
  <2> QED BY <2>1, RiskAssumption, FS_Subset
<1>13. Cardinality(1 .. (k - 1)) <= Cardinality(T)
  <2> HIDE DEF T
  <2> QED BY <1>3, <1>12, FS_Injection
<1>14. Cardinality(T) \in Nat
  BY <1>12, FS_CardinalityType
<1> QED BY <1>1, <1>10, <1>11, <1>13, <1>14
=============================================================================
