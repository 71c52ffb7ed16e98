--------------------------- MODULE ResearchProofs ---------------------------
(****************************************************************************)
(* Simulation, validation and the learning loop, for any history and any    *)
(* parameters: a book is decided before the rows it earns and is paid for,  *)
(* training and test do not overlap, an event is anchored when all of it    *)
(* was known and set against a null that can be measured, and a weighting   *)
(* is graded by what it could know.                                         *)
(****************************************************************************)
EXTENDS BookProofs, Backtest, Validation, Studies, Learning

-----------------------------------------------------------------------------
(* Simulation                                                               *)

\* A book on some names only.
Within(w, S) == w \in Books /\ In(w) \subseteq S

\* Reducing the fractions drops no name.
LEMMA LowestIn ==
  ASSUME NEW w \in Books
  PROVE  Lowest(w) \in Books /\ In(Lowest(w)) = In(w)
<1>1. Lowest(w) \in Books
  BY LowestIs
<1>2. PICK g \in Nat \ {0} : Multiple(g, w, Lowest(w))
  BY LowestIs
<1>3. ASSUME NEW s \in Names
      PROVE  w.n[s] = 0 <=> Lowest(w).n[s] = 0
  <2> DEFINE x == Lowest(w).n[s]
  <2>1. x \in Int /\ w.n[s] = g * x
    BY <1>1, <1>2 DEF Multiple, Books
  <2> HIDE DEF x
  <2>2. g * x = 0 <=> x = 0
    BY <2>1
  <2> QED BY <2>1, <2>2 DEF x
<1> QED BY <1>1, <1>3 DEF In

\* Scaling adds no name, and drops none but by zero.
LEMMA ScaleIn ==
  ASSUME NEW w \in Books, NEW S \in SUBSET Names, NEW a \in Nat, NEW b \in Nat \ {0}
  PROVE  /\ Within(Scale(w, S, a, b), In(w))
         /\ a > 0 => In(Scale(w, S, a, b)) = In(w)
<1> DEFINE raw == Scaled(w, S, a, b)
<1>1. raw \in Books /\ Scale(w, S, a, b) = Lowest(raw)
  BY ScaleIs DEF Scale, Scaled
<1>2. \A s \in Names : /\ w.n[s] = 0 => raw.n[s] = 0
                       /\ a > 0 /\ raw.n[s] = 0 => w.n[s] = 0
  <2> TAKE s \in Names
  <2>1. w.n[s] \in Int /\ raw.n[s] = w.n[s] * (IF s \in S THEN a ELSE b)
    BY DEF Books, Scaled
  <2> HIDE DEF raw
  <2> QED BY <2>1
<1> HIDE DEF raw
<1>3. In(raw) \subseteq In(w) /\ (a > 0 => In(raw) = In(w))
  BY <1>2 DEF In
<1> QED BY <1>1, <1>3, LowestIn DEF Within

\* Shrinking adds no name.
LEMMA ShrinksIn ==
  ASSUME NEW w \in Books, NEW v, Shrinks(w, v)
  PROVE  Within(v, In(w))
<1>1. v \in Books
  BY DEF Shrinks
<1> SUFFICES ASSUME NEW s \in Names, v.n[s] # 0
             PROVE  w.n[s] # 0
  BY <1>1 DEF Within, In
<1>2. Size(v.n[s]) * w.d <= Size(w.n[s]) * v.d
  BY Shrunk
<1>3. /\ v.n[s] \in Int /\ w.n[s] \in Int /\ w.d \in Nat \ {0} /\ v.d \in Nat \ {0}
  BY <1>1 DEF Books
<1>4. Size(v.n[s]) \in Nat /\ Size(v.n[s]) > 0 /\ (w.n[s] = 0 => Size(w.n[s]) = 0)
  BY <1>3 DEF Size
<1>5. Size(v.n[s]) * w.d > 0
  BY <1>3, <1>4
<1>6. 0 * v.d = 0 /\ Size(v.n[s]) * w.d \in Int
  BY <1>3, <1>4
<1> QED BY <1>2, <1>4, <1>5, <1>6

\* Positive limits drop no name of a book.
LEMMA LimitsKeepNames ==
  ASSUME NEW w \in Books, Limits.name[1] > 0, Limits.gross[1] > 0, Limits.net[1] > 0
  PROVE  LET v == ApplyRiskLimits(w, {}) IN v \in Books /\ In(v) = In(w)
<1> DEFINE w1 == Clip(w, Limits.name)
           w2 == CapGross(w1, Names, Limits.gross)
           w3 == CapSectors(w2, {})
           w4 == CapNet(w3, Limits.net)
<1>0. Limits.name \in Ratio /\ Limits.gross \in Ratio /\ Limits.net \in Ratio /\ Names \in SUBSET Names
  BY RiskAssumption
<1>1. w1 \in Books /\ In(w1) = In(w)
  <2> DEFINE cap == Limits.name
             bound == cap[1] * w.d
             raw == [n |-> [s \in Names |-> Greatest(-bound, Least(bound, w.n[s] * cap[2]))],
                     d |-> w.d * cap[2]]
  <2>1. cap[1] \in Nat /\ cap[1] > 0 /\ cap[2] \in Nat /\ cap[2] > 0
    BY <1>0 DEF Ratio
  <2>2. w.d \in Nat /\ w.d > 0 /\ \A s \in Names : w.n[s] \in Int
    BY DEF Books
  <2> HIDE DEF cap
  <2>3. bound \in Nat \ {0} /\ w.d * cap[2] \in Nat \ {0}
    <3>1. \A x, y \in Nat : x > 0 /\ y > 0 => x * y \in Nat \ {0}
      OBVIOUS
    <3> QED BY <2>1, <2>2, <3>1
  <2>4. \A s \in Names : w.n[s] * cap[2] \in Int /\ (w.n[s] * cap[2] = 0 <=> w.n[s] = 0)
    BY <2>1, <2>2
  <2> HIDE DEF bound
  <2>5. \A s \in Names : raw.n[s] \in Int /\ (raw.n[s] = 0 <=> w.n[s] = 0)
    BY <2>3, <2>4 DEF Greatest, Least
  <2>6. raw \in Books
    BY <2>3, <2>5 DEF Books
  <2>7. In(raw) = In(w)
    BY <2>5 DEF In
  <2>8. w1 = Lowest(raw)
    BY DEF Clip, bound, cap
  <2> HIDE DEF raw, w1
  <2> QED BY <2>6, <2>7, <2>8, LowestIn
<1> HIDE DEF w1
<1>2. w2 \in Books /\ In(w2) = In(w1)
  <2>1. CASE ~Exceeds(Gross(w1, Names), w1.d, Limits.gross)
    BY <1>1, <2>1 DEF CapGross
  <2>2. CASE Exceeds(Gross(w1, Names), w1.d, Limits.gross)
    <3> DEFINE a == Limits.gross[1] * w1.d
               b == Limits.gross[2] * Gross(w1, Names)
    <3>1. w2 = Scale(w1, Names, a, b)
      BY <2>2 DEF CapGross
    <3>2. Gross(w1, Names) \in Nat /\ w1.d \in Nat /\ w1.d > 0
          /\ Limits.gross[1] \in Nat /\ Limits.gross[2] \in Nat /\ Limits.gross[2] > 0
      BY <1>0, <1>1, BookTypes DEF Ratio
    <3>3. a \in Nat /\ a > 0
      <4>1. \A x, y \in Nat : x > 0 /\ y > 0 => x * y \in Nat /\ x * y > 0
        OBVIOUS
      <4> QED BY <3>2, <4>1
    <3>4. b \in Nat /\ b > a
      <4> DEFINE G == Gross(w1, Names)
      <4> HIDE DEF G
      <4>1. Exceeds(G, w1.d, Limits.gross) /\ G \in Nat
        BY <2>2, <3>2 DEF G
      <4>2. b = Limits.gross[2] * G
        BY DEF G
      <4>3. Limits.gross[2] * G \in Nat /\ G * Limits.gross[2] = Limits.gross[2] * G
        BY <3>2, <4>1
      <4> HIDE DEF a, b
      <4>4. G * Limits.gross[2] > a
        BY <4>1 DEF Exceeds, a
      <4> QED BY <3>3, <4>2, <4>3, <4>4
    <3> HIDE DEF a, b, w2
    <3>5. b \in Nat \ {0}
      BY <3>3, <3>4
    <3> QED BY <1>0, <1>1, <3>1, <3>3, <3>5, ScaleIn DEF Within
  <2> QED BY <2>1, <2>2
<1> HIDE DEF w2
<1>3. w3 = w2
  <2>1. PICK g : IsCapped(w2, {}, g) /\ g = CHOOSE i : IsCapped(w2, {}, i)
    BY FS_EmptySet, CappedExists
  <2>2. g[{}] = w2
    BY <2>1 DEF IsCapped
  <2> QED BY <2>1, <2>2, CapSectorsDef
<1>4. w4 \in Books /\ In(w4) = In(w2)
  <2> DEFINE side == {s \in Names : w2.n[s] * Net(w2) > 0}
             D == Gross(w2, side)
             N == Size(Net(w2))
             cap == Limits.net
             a == (D - N) * cap[2] + cap[1] * w2.d
             b == D * cap[2]
  <2>1. CASE ~Exceeds(N, w2.d, cap)
    BY <1>2, <1>3, <2>1 DEF CapNet
  <2>2. CASE Exceeds(N, w2.d, cap)
    <3>1. w4 = Scale(w2, side, a, b)
      BY <1>3, <2>2 DEF CapNet
    <3>2. cap[1] \in Nat /\ cap[1] > 0 /\ cap[2] \in Nat /\ cap[2] > 0 /\ w2.d \in Nat /\ w2.d > 0
      BY <1>0, <1>2, BookTypes DEF Ratio
    <3>3. Net(w2) \in Int
      BY <1>2, BookTypes, SumType DEF Net
    <3>4. cap[1] * w2.d \in Nat /\ cap[1] * w2.d > 0
      <4>1. \A x, y \in Nat : x > 0 /\ y > 0 => x * y \in Nat /\ x * y > 0
        OBVIOUS
      <4> QED BY <3>2, <4>1
    <3>5. N \in Nat /\ N > 0
      <4>1. N \in Nat
        BY <3>3 DEF Size
      <4>2. N * cap[2] > 0
        <5> HIDE DEF N, cap
        <5>1. N * cap[2] \in Int
          BY <3>2, <4>1
        <5> QED BY <2>2, <3>4, <5>1 DEF Exceeds
      <4> HIDE DEF N, cap
      <4> QED BY <3>2, <4>1, <4>2
    <3>6. Net(w2) # 0
      BY <3>5 DEF Size
    <3>7. N = D - Gross(w2, Names \ side)
      BY <1>2, <3>6, NetIsOfSides
    <3>8. side \in SUBSET Names /\ Names \ side \in SUBSET Names
      OBVIOUS
    <3>9. D \in Nat /\ Gross(w2, Names \ side) \in Nat
      <4> HIDE DEF side
      <4> QED BY <1>2, <3>8, BookTypes
    <3> HIDE DEF side, D, N, cap, w4
    <3>10. D > 0 /\ D - N \in Nat
      BY <3>5, <3>7, <3>9
    <3>11. (D - N) * cap[2] \in Nat /\ b \in Nat \ {0}
      <4>1. \A x, y \in Nat : x * y \in Nat /\ (x > 0 /\ y > 0 => x * y > 0)
        OBVIOUS
      <4>2. (D - N) * cap[2] \in Nat
        BY <3>2, <3>10, <4>1
      <4>3. D * cap[2] \in Nat /\ D * cap[2] > 0
        BY <3>2, <3>9, <3>10, <4>1
      <4> QED BY <4>2, <4>3
    <3>12. a \in Nat /\ a > 0
      BY <3>4, <3>11
    <3> HIDE DEF a, b
    <3> QED BY <1>2, <3>1, <3>8, <3>11, <3>12, ScaleIn DEF Within
  <2> QED BY <2>1, <2>2
<1> HIDE DEF w3, w4
<1>5. ApplyRiskLimits(w, {}) = w4
  BY DEF ApplyRiskLimits, w1, w2, w3, w4
<1> QED BY <1>1, <1>2, <1>4, <1>5

-----------------------------------------------------------------------------
(* Strategies *)

\* No limit and no factor is zero.
LEMMA LimitsPositive ==
  /\ Limits.name[1] > 0 /\ Limits.gross[1] > 0 /\ Limits.net[1] > 0
  /\ \A f \in Factors : f \in Ratio /\ f[1] > 0
<1>1. \A x \in (Nat \ {0}) \X (Nat \ {0}) : x \in Ratio /\ x[1] > 0
  BY DEF Ratio
<1>2. \A x \in Factors \cup {Limits.name, Limits.gross, Limits.net} : x \in Ratio /\ x[1] > 0
  <2>1. Factors \cup {Limits.name, Limits.gross, Limits.net} \subseteq (Nat \ {0}) \X (Nat \ {0})
    BY BacktestAssumption
  <2> QED BY <1>1, <2>1
<1> QED BY <1>2

\* What is tradable has a name.
LEMMA TradableNamed == \A t : Tradable(t) \in SUBSET Names /\ Clean(t) \in SUBSET Names
BY DEF Tradable, Clean

\* Weighing a selection puts every name of it in the book.
LEMMA WeighIn ==
  ASSUME NEW S \in SUBSET Names, NEW lean \in [Names -> Nat \ {0}]
  PROVE  Weigh(S, lean) \in Books /\ In(Weigh(S, lean)) = S
<1>1. Weigh(S, lean) \in Books
  BY WeighBook
<1>2. \A s \in Names : Weigh(S, lean).n[s] # 0 <=> s \in S
  <2>1. CASE S = {}
    BY <2>1 DEF Weigh, NoBook
  <2>2. CASE S # {}
    BY <2>2 DEF Weigh
  <2> QED BY <2>1, <2>2
<1> QED BY <1>1, <1>2 DEF In

\* The tilt of a signal is positive.
LEMMA Tilted ==
  ASSUME NEW sig \in Signals
  PROVE  TiltOf(sig) \in [Names -> Nat \ {0}]
<1> DEFINE v(s) == ScoreOf(sig, s)
           C == {T \in SUBSET Names : T # {} => \E s \in T : \A r \in T : v(s) <= v(r)}
<1>1. \A s \in Names : v(s) \in Int
  BY BacktestAssumption DEF ScoreOf
<1> HIDE DEF v
<1>2. {} \in C
  OBVIOUS
<1>3. ASSUME NEW T \in SUBSET Names, NEW x \in Names \ T, T \in C
      PROVE  T \cup {x} \in C
  <2> SUFFICES \E s \in T \cup {x} : \A r \in T \cup {x} : v(s) <= v(r)
    OBVIOUS
  <2>1. CASE T = {}
    BY <1>1, <2>1
  <2>2. CASE T # {}
    <3>1. PICK s \in T : \A r \in T : v(s) <= v(r)
      BY <1>3, <2>2
    <3>2. CASE v(s) <= v(x)
      BY <1>1, <3>1, <3>2
    <3>3. CASE ~(v(s) <= v(x))
      <4>1. \A r \in T \cup {x} : v(x) <= v(r)
        BY <1>1, <3>1, <3>3
      <4> QED BY <4>1
    <3> QED BY <3>2, <3>3
  <2> QED BY <2>1, <2>2
<1>4. Names \in C
  <2>1. IsFiniteSet(Names)
    BY RiskAssumption
  <2> HIDE DEF C
  <2> QED BY <1>2, <1>3, <2>1, FiniteSetInduction
<1>5. \E s \in Names : \A r \in Names : v(s) <= v(r)
  BY <1>4, BacktestAssumption
<1> DEFINE low == CHOOSE s \in Names : \A r \in Names : v(s) <= v(r)
<1>6. low \in Names /\ \A r \in Names : v(low) <= v(r)
  BY <1>5
<1>7. TiltOf(sig) = [s \in Names |-> 1 + v(s) - v(low)]
  BY DEF TiltOf, v
<1> HIDE DEF low
<1>8. \A s \in Names : 1 + v(s) - v(low) \in Nat \ {0}
  BY <1>1, <1>6
<1> QED BY <1>7, <1>8

\* The book of the whole set holds a name of it, and no other.
LEMMA SizedIn ==
  ASSUME NEW S \in SUBSET Names, NEW sig \in Signals, NEW t, NEW f \in Factors
  PROVE  LET v == SizedBook(S, t, sig, f)
         IN  Within(v, S) /\ (S # {} => In(v) # {})
<1> DEFINE w == SizeBook(S, TiltOf(sig), Clean(t), f)
           R == S \cap Clean(t)
<1>1. TiltOf(sig) \in [Names -> Nat \ {0}] /\ R \in SUBSET Names /\ f \in Ratio /\ f[1] > 0
  BY Tilted, LimitsPositive
<1>2. w \in Books /\ In(w) \subseteq S /\ (S # {} => In(w) # {})
  <2>1. CASE Cardinality(R) < 2
    <3>1. w = Weigh(S, TiltOf(sig))
      BY <2>1 DEF SizeBook
    <3> QED BY <1>1, <3>1, WeighIn
  <2>2. CASE ~(Cardinality(R) < 2)
    <3>1. w = Scale(Weigh(R, TiltOf(sig)), Names, f[1], f[2])
      BY <2>2 DEF SizeBook
    <3>2. R # {}
      BY <2>2, FS_EmptySet
    <3>3. f[1] \in Nat /\ f[2] \in Nat \ {0} /\ Names \in SUBSET Names
      BY <1>1 DEF Ratio
    <3> HIDE DEF w
    <3>4. Weigh(R, TiltOf(sig)) \in Books /\ In(Weigh(R, TiltOf(sig))) = R
      <4> HIDE DEF R
      <4> QED BY <1>1, WeighIn
    <3>5. w \in Books /\ In(w) = R
      <4> HIDE DEF R
      <4> QED BY <1>1, <3>1, <3>3, <3>4, ScaleIn DEF Within
    <3> QED BY <3>2, <3>5
  <2> QED BY <2>1, <2>2
<1> HIDE DEF w
<1>3. SizedBook(S, t, sig, f) = ApplyRiskLimits(w, {})
  BY DEF SizedBook, w
<1>4. ApplyRiskLimits(w, {}) \in Books /\ In(ApplyRiskLimits(w, {})) = In(w)
  BY <1>2, LimitsPositive, LimitsKeepNames
<1> QED BY <1>2, <1>3, <1>4 DEF Within

\* The top names are among the candidates.
LEMMA TopsOf ==
  ASSUME NEW sig, NEW S, NEW k, NEW T \in Tops(sig, S, k)
  PROVE  T \subseteq S
BY DEF Tops

\* Equal weights put every name in the book.
LEMMA EqualIn ==
  ASSUME NEW S \in SUBSET Names
  PROVE  EqualBook(S) \in Books /\ In(EqualBook(S)) = S
<1>1. Alike \in [Names -> Nat \ {0}]
  BY DEF Alike
<1> QED BY <1>1, WeighIn DEF EqualBook

\* Whatever the strategy, its book is of names that had a price.
LEMMA RawIn ==
  ASSUME NEW t \in Int, NEW sig \in Signals, NEW f \in Factors, NEW w \in RawBooksOf(t, sig, f),
         strategy.name \in Strategies
  PROVE  Within(w, Tradable(t))
<1> DEFINE S == Tradable(t)
           past == {s \in Names : FirstPrice[s] + Lookback <= t}
<1>1. S \in SUBSET Names /\ past \in SUBSET S /\ past \in SUBSET Names
  BY BacktestAssumption DEF Tradable
<1>2. \A T \in SUBSET S : Within(EqualBook(T), S)
  BY <1>1, EqualIn DEF Within
<1>3. \A T \in SUBSET S, lean \in [Names -> Nat \ {0}] : Within(Weigh(T, lean), S)
  BY <1>1, WeighIn DEF Within
<1> HIDE DEF past
<1>4. \A R \in SUBSET S : \A k : \A T \in Tops(sig, R, k) : T \in SUBSET S
  BY TopsOf
<1>5. DOMAIN sig \subseteq Names /\ InverseVol \in [Names -> Nat \ {0}] /\ Slots \in Nat
  BY BacktestAssumption
<1>6. CASE strategy.name = "equal"
  BY <1>2, <1>6 DEF RawBooksOf
<1>7. CASE strategy.name = "momentum"
  <2>1. w \in MomentumBooks(t, sig)
    BY <1>7 DEF RawBooksOf
  <2>2. w = EqualBook(S) \/ \E T \in Tops(sig, past, TopShare(past)) : w = EqualBook(T)
    BY <2>1 DEF MomentumBooks, past, EqualBooks
  <2> QED BY <1>1, <1>2, <1>4, <2>2
<1>8. CASE strategy.name = "composite"
  <2>1. w \in CompositeBooks(t, sig)
    BY <1>8 DEF RawBooksOf
  <2>2. w = EqualBook(S) \/ \E T \in Tops(sig, past, Least(Slots, TopShare(past))) : w = Weigh(T, InverseVol)
    BY <2>1 DEF CompositeBooks, past
  <2> QED BY <1>1, <1>2, <1>3, <1>4, <1>5, <2>2
<1>9. CASE strategy.name = "long_short"
  <2> DEFINE active == {s \in DOMAIN sig \cap S : sig[s] # 0}
             k == Least(Slots, Cardinality(active) \div 2)
             Leg(L, sh) == [n |-> [s \in Names |-> IF s \in L THEN 1 ELSE IF s \in sh THEN -1 ELSE 0],
                            d |-> 2 * k]
  <2>1. w \in LongShortBooks(t, sig)
    BY <1>9 DEF RawBooksOf
  <2>2. active \in SUBSET S /\ active \in SUBSET Names
    BY <1>1
  <2>3. IsFiniteSet(active)
    <3> HIDE DEF active
    <3> QED BY <2>2, RiskAssumption, FS_Subset
  <2>4. k \in Int
    <3>1. Cardinality(active) \in Nat
      <4> HIDE DEF active
      <4> QED BY <2>3, FS_CardinalityType
    <3> QED BY <1>5, <3>1 DEF Least
  <2>5. CASE k < 1
    <3>1. w = NoBook
      BY <2>1, <2>5 DEF LongShortBooks
    <3> QED BY <3>1 DEF NoBook, Within, Books, In
  <2>6. CASE ~(k < 1)
    <3>1. w \in {Leg(L, sh) : L \in Tops(sig, active, k),
                 sh \in {active \ T : T \in Tops(sig, active, Cardinality(active) - k)}}
      <4>1. LongShortBooks(t, sig) =
              IF k < 1 THEN {NoBook}
              ELSE {Leg(L, sh) : L \in Tops(sig, active, k),
                      sh \in {active \ T : T \in Tops(sig, active, Cardinality(active) - k)}}
        BY DEF LongShortBooks
      <4> HIDE DEF k, active, Leg
      <4> QED BY <2>1, <2>6, <4>1
    <3>2. PICK L \in Tops(sig, active, k),
                sh \in {active \ T : T \in Tops(sig, active, Cardinality(active) - k)} : w = Leg(L, sh)
      <4> HIDE DEF active, k, Leg
      <4> QED BY <3>1
    <3> HIDE DEF active, k
    <3>3. L \subseteq active /\ sh \subseteq active
      BY TopsOf
    <3>4. 2 * k \in Nat \ {0}
      BY <2>4, <2>6
    <3>5. w \in Books
      BY <3>2, <3>4 DEF Books
    <3>6. In(w) \subseteq L \cup sh
      BY <3>2 DEF In
    <3> QED BY <2>2, <3>3, <3>5, <3>6 DEF Within
  <2> QED BY <2>5, <2>6
<1>10. CASE strategy.name = "insider"
  <2> DEFINE R == {s \in DOMAIN sig \cap S : sig[s] > 0}
  <2>1. R \in SUBSET S /\ w \in EqualBooks(Tops(sig, R, Slots))
    BY <1>10 DEF RawBooksOf, InsiderBooks
  <2> HIDE DEF R
  <2> QED BY <1>2, <1>4, <2>1 DEF EqualBooks
<1>11. CASE strategy.name = "stacked"
  <2> DEFINE R == DOMAIN sig \cap S
  <2>1. R \in SUBSET S /\ w \in EqualBooks(Tops(sig, R, Slots))
    BY <1>11 DEF RawBooksOf, StackedBooks
  <2> HIDE DEF R
  <2> QED BY <1>2, <1>4, <2>1 DEF EqualBooks
<1>12. CASE strategy.name = "tilt"
  <2>1. w = Weigh(S, TiltOf(sig))
    BY <1>12 DEF RawBooksOf
  <2> QED BY <1>3, <2>1, Tilted
<1>13. CASE strategy.name = "sized"
  <2>1. w = SizedBook(S, t, sig, f)
    BY <1>13 DEF RawBooksOf
  <2> QED BY <1>1, <2>1, SizedIn
<1> QED BY <1>6, <1>7, <1>8, <1>9, <1>10, <1>11, <1>12, <1>13 DEF Strategies

\* And the governor adds none.
LEMMA TargetIn ==
  ASSUME NEW t \in Int, NEW sig \in Signals, NEW f \in Factors, NEW w \in TargetWeights(t, sig, f),
         strategy.name \in Strategies
  PROVE  Within(w, Tradable(t))
<1>1. PICK r \in RawBooksOf(t, sig, f) :
        w = Lowest(IF strategy.governed THEN VolTarget(r, Clean(t), f, MaxGross) ELSE r)
  BY DEF TargetWeights
<1>2. Within(r, Tradable(t))
  BY RawIn
<1>3. Within(VolTarget(r, Clean(t), f, MaxGross), Tradable(t))
  <2> DEFINE v == Only(r, Clean(t))
             u == Scale(v, Names, f[1], f[2])
  <2>1. r \in Books /\ MaxGross \in Ratio /\ f[1] \in Nat /\ f[2] \in Nat \ {0} /\ Names \in SUBSET Names
    BY <1>2, LimitsPositive DEF Within, MaxGross, Ratio
  <2>2. v \in Books /\ In(v) \subseteq In(r)
    <3>1. v = [n |-> [s \in Names |-> IF s \in Clean(t) THEN r.n[s] ELSE 0], d |-> r.d]
      BY <2>1 DEF Only, Books
    <3> QED BY <2>1, <3>1 DEF Books, In
  <2> HIDE DEF v
  <2>3. u \in Books /\ In(u) \subseteq In(v)
    BY <2>1, <2>2, ScaleIn DEF Within
  <2> HIDE DEF u
  <2>4. Shrinks(u, CapGross(u, Names, MaxGross))
    BY <2>1, <2>3, CapGrossFits
  <2>5. Within(CapGross(u, Names, MaxGross), In(u))
    BY <2>3, <2>4, ShrinksIn
  <2> QED BY <1>2, <2>2, <2>3, <2>5 DEF VolTarget, Within, u, v
<1> DEFINE x == IF strategy.governed THEN VolTarget(r, Clean(t), f, MaxGross) ELSE r
<1>4. Within(x, Tradable(t))
  BY <1>2, <1>3
<1>5. w = Lowest(x)
  BY <1>1
<1> HIDE DEF x
<1> QED BY <1>4, <1>5, LowestIn DEF Within

-----------------------------------------------------------------------------
(* Accounting *)

\* The row the accounts have been brought to.
Front == IF todo = {} THEN Rows ELSE Now(todo)

\* The book that the latest charge of S paid for.
LastOf(ch, S) == IF S = {} THEN NoBook ELSE ch[Latest(S)].to

\* A row is earned by the book of the last charge, and a charge moves from the one before.
Explained ==
  /\ \A d \in 1 .. Rows : earned[d] # Nothing => earned[d].book = LastOf(charges, {c \in Charged : c <= d})
  /\ \A d \in Charged : charges[d].from = LastOf(charges, {c \in Charged : c < d})

\* Nothing is earned or charged ahead of the front; up to it an engine has earned every row
\* of the schedule and been charged for every day; the last charge led to the book held.
BacktestInv ==
  /\ BacktestTypeOK
  /\ runner = "none" => /\ held = NoBook /\ todo = {} /\ benchmark = {}
                        /\ \A d \in 1 .. Rows : earned[d] = Nothing /\ charges[d] = NoCharge
  /\ DecidedBefore
  /\ Explained
  /\ \A d \in 1 .. Rows : d > Front => earned[d] = Nothing /\ charges[d] = NoCharge
  /\ todo # {} => held = LastOf(charges, Charged)
  /\ runner = "engine" =>
       /\ Warmup + 1 \in 1 .. Rows
       /\ SumFunctionOnSet(DaysCharged, Charged) = Date[Front] - Date[Warmup + 1]
       /\ \A d \in 1 .. Rows : d > Warmup + 1 /\ d <= Front => earned[d] # Nothing
  /\ benchmark # {} => runner = "engine" /\ todo = {}
  /\ \A d \in benchmark : earned[d] # Nothing

\* The next rebalance is the first that is left.
LEMMA NowIn ==
  ASSUME NEW S \in SUBSET (1 .. Rows), S # {}
  PROVE  /\ Now(S) \in S /\ \A r \in S : Now(S) <= r
         /\ \A x \in S : (\A r \in S : x <= r) => Now(S) = x
<1>1. S \in SUBSET Nat /\ Rows \in Nat
  BY BacktestAssumption
<1>2. \E x \in S : \A r \in S : x <= r
  BY <1>1, MinIn
<1>3. Now(S) \in S /\ \A r \in S : Now(S) <= r
  BY <1>2 DEF Now
<1>4. ASSUME NEW x \in S, \A r \in S : x <= r
      PROVE  Now(S) = x
  <2>1. x \in Nat /\ Now(S) \in Nat
    BY <1>1, <1>3, x \in S
  <2>2. x <= Now(S) /\ Now(S) <= x
    BY <1>3, <1>4
  <2> QED BY <2>1, <2>2
<1> QED BY <1>3, <1>4

\* The last of some rows.
LEMMA LatestIn ==
  ASSUME NEW S \in SUBSET (1 .. Rows), S # {}
  PROVE  /\ Latest(S) \in S /\ \A r \in S : r <= Latest(S)
         /\ \A x \in S : (\A r \in S : r <= x) => Latest(S) = x
<1>1. S \in SUBSET Nat /\ Rows \in Nat
  BY BacktestAssumption
<1>2. \E x \in S : \A r \in S : r <= x
  <2>1. Max(S) \in S /\ \A r \in S : r <= Max(S)
    BY <1>1, MaxIn
  <2> QED BY <2>1
<1>3. Latest(S) \in S /\ \A r \in S : r <= Latest(S)
  BY <1>2 DEF Latest
<1>4. ASSUME NEW x \in S, \A r \in S : r <= x
      PROVE  Latest(S) = x
  <2>1. x \in Nat /\ Latest(S) \in Nat
    BY <1>1, <1>3, x \in S
  <2>2. x <= Latest(S) /\ Latest(S) <= x
    BY <1>3, <1>4
  <2> QED BY <2>1, <2>2
<1> QED BY <1>3, <1>4

\* A row or charge that is there is not the absence of one.
LEMMA Something ==
  ASSUME NEW x, NEW y, NEW z
  PROVE  [book |-> x, since |-> y] # Nothing /\ [from |-> x, to |-> y, days |-> z] # NoCharge
<1>1. DOMAIN [book |-> x, since |-> y] # DOMAIN << >>
  BY "book" \in DOMAIN [book |-> x, since |-> y]
<1>2. DOMAIN [from |-> x, to |-> y, days |-> z] # DOMAIN << >>
  BY "from" \in DOMAIN [from |-> x, to |-> y, days |-> z]
<1> QED BY <1>1, <1>2 DEF Nothing, NoCharge

\* The types, one by one.
LEMMA BacktestTypes ==
  ASSUME BacktestTypeOK
  PROVE  /\ held \in Books /\ todo \in SUBSET (1 .. Rows) /\ benchmark \in SUBSET (1 .. Rows)
         /\ \A d \in 1 .. Rows : earned[d] # Nothing => earned[d].book \in Books /\ earned[d].since \in 1 .. Rows
         /\ \A d \in Charged : charges[d].days \in Nat \ {0}
         /\ DOMAIN earned = 1 .. Rows /\ DOMAIN charges = 1 .. Rows
BY DEF BacktestTypeOK, BookOf, Books, Charged

\* At first nothing is earned or charged.
LEMMA BacktestInitInv == BacktestInit => BacktestInv
<1> SUFFICES ASSUME BacktestInit
             PROVE  BacktestInv
  OBVIOUS
<1>1. /\ runner = "none" /\ todo = {} /\ held = NoBook /\ benchmark = {}
      /\ \A d \in 1 .. Rows : earned[d] = Nothing /\ charges[d] = NoCharge
  BY DEF BacktestInit
<1>2. NoBook \in BookOf
  BY DEF NoBook, BookOf
<1>3. BacktestTypeOK
  <2>1. earned \in [1 .. Rows -> {Nothing} \cup [book : BookOf, since : 1 .. Rows]]
    BY DEF BacktestInit
  <2>2. charges \in [1 .. Rows -> {NoCharge} \cup [from : BookOf, to : BookOf, days : Nat \ {0}]]
    BY DEF BacktestInit
  <2>3. strategy \in [name : Strategies, governed : BOOLEAN]
    BY DEF BacktestInit, Strategies
  <2> QED BY <1>1, <1>2, <2>1, <2>2, <2>3 DEF BacktestTypeOK
<1>4. Charged = {}
  BY <1>1 DEF Charged
<1> QED BY <1>1, <1>3, <1>4 DEF BacktestInv, DecidedBefore, Explained

\* A schedule starts on the row after the warmup.
LEMMA ScheduleStarts ==
  ASSUME NEW S \in Schedules
  PROVE  S \in SUBSET (1 .. Rows) /\ S # {} /\ Warmup + 1 \in S /\ Now(S) = Warmup + 1
<1>1. PICK every \in Every : S = {d \in 1 .. Rows : d > Warmup /\ (d - Warmup - 1) % every = 0}
  BY DEF Schedules
<1>2. every \in Nat \ {0} /\ Warmup \in Nat /\ Rows \in Nat /\ MinRebalances \in Nat \ {0}
  BY BacktestAssumption
<1>3. Cardinality(S) >= MinRebalances
  BY DEF Schedules
<1>4. S # {}
  BY <1>2, <1>3, FS_EmptySet
<1>5. Warmup + 1 \in 1 .. Rows
  BY <1>1, <1>2, <1>4
<1>6. (Warmup + 1 - Warmup - 1) % every = 0
  <2>1. Warmup + 1 - Warmup - 1 = 0
    BY <1>2
  <2> QED BY <1>2, <2>1
<1>7. Warmup + 1 \in S /\ \A r \in S : Warmup + 1 <= r
  BY <1>1, <1>2, <1>5, <1>6
<1> QED BY <1>1, <1>4, <1>7, NowIn

\* A schedule is drawn up.
LEMMA BeginStep ==
  ASSUME BacktestInv, BeginSimulate \/ BeginReplay
  PROVE  BacktestInv'
<1>1. /\ runner = "none" /\ runner' \in {"engine", "replay"} /\ todo' \in Schedules
      /\ UNCHANGED <<held, earned, charges, benchmark>>
      /\ strategy' \in [name : Strategies, governed : BOOLEAN]
  BY DEF BeginSimulate, BeginReplay, Replayable, BacktestInv, BacktestTypeOK
<1>2. todo' \in SUBSET (1 .. Rows) /\ todo' # {} /\ Warmup + 1 \in todo' /\ Now(todo') = Warmup + 1
  BY <1>1, ScheduleStarts
<1>3. /\ held = NoBook /\ benchmark = {}
      /\ \A d \in 1 .. Rows : earned[d] = Nothing /\ charges[d] = NoCharge
  BY <1>1 DEF BacktestInv
<1>4. Front' = Warmup + 1 /\ Charged' = {} /\ Warmup + 1 \in 1 .. Rows
  <2>1. Front' = IF todo' = {} THEN Rows ELSE Now(todo')
    BY DEF Front, Now
  <2> QED BY <1>1, <1>2, <1>3, <2>1 DEF Charged
<1>5. BacktestTypeOK'
  BY <1>1, <1>2 DEF BacktestInv, BacktestTypeOK
<1>6. SumFunctionOnSet(DaysCharged, Charged)' = 0
  BY <1>4, SumEmpty DEF DaysCharged
<1>7. Date[Warmup + 1] - Date[Warmup + 1] = 0 /\ Warmup \in Nat
  <2>1. Date[Warmup + 1] \in Int
    BY <1>4, BacktestAssumption
  <2> QED BY <2>1, BacktestAssumption
<1>8. LastOf(charges', Charged') = NoBook
  BY <1>4 DEF LastOf
<1>9. DecidedBefore' /\ Explained'
  BY <1>1, <1>3, <1>4 DEF DecidedBefore, Explained
<1>10. (SumFunctionOnSet(DaysCharged, Charged) = Date[Front] - Date[Warmup + 1])'
  BY <1>4, <1>6, <1>7
<1>11. (\A d \in 1 .. Rows : d > Warmup + 1 /\ d <= Front => earned[d] # Nothing)'
  BY <1>4, <1>7
<1> QED BY <1>1, <1>2, <1>3, <1>4, <1>5, <1>8, <1>9, <1>10, <1>11 DEF BacktestInv

\* A rebalance settles the rows up to the next one.
LEMMA HoldStep ==
  ASSUME BacktestInv, runner \in {"engine", "replay"}, todo # {}, NEW w \in Books,
         Hold(Now(todo), w),
         runner = "engine" => In(w) \subseteq Tradable(Now(todo)),
         runner = "replay" => w # NoBook,
         charges' = IF Now(todo) = Rows \/ (runner = "replay" /\ w = held) THEN charges
                    ELSE [charges EXCEPT ![Now(todo) + 1] = Charge(Now(todo), w)]
  PROVE  BacktestInv'
<1> DEFINE t == Now(todo)
           n == NextOne(t)
           new == ~(t = Rows \/ (runner = "replay" /\ w = held))
           C == Charged
<1>1. BacktestTypeOK
  BY DEF BacktestInv
<1>2. todo \in SUBSET (1 .. Rows) /\ t \in todo /\ (\A r \in todo : t <= r) /\ t \in 1 .. Rows /\ Rows \in Nat
  <2>1. todo \in SUBSET (1 .. Rows)
    BY <1>1, BacktestTypes
  <2> QED BY <2>1, NowIn, BacktestAssumption
<1>3. n \in 1 .. Rows /\ t <= n /\ (t # Rows => t < n)
  <2>1. CASE todo = {t}
    BY <1>2, <2>1 DEF NextOne
  <2>2. CASE todo # {t}
    <3>1. todo \ {t} # {} /\ todo \ {t} \in SUBSET (1 .. Rows) /\ n = Now(todo \ {t})
      BY <1>2, <2>2 DEF NextOne
    <3>2. n \in todo \ {t}
      BY <3>1, NowIn
    <3> HIDE DEF n, t
    <3> QED BY <1>2, <3>2
  <2> QED BY <2>1, <2>2
<1>4. /\ earned' = [d \in 1 .. Rows |-> IF d \in (t + 1) .. n
                                            THEN [book |-> w, since |-> t] ELSE earned[d]]
      /\ held' = w /\ todo' = todo \ {t} /\ UNCHANGED <<runner, strategy, benchmark>>
  BY DEF Hold, Earning
<1>5. Front = t /\ Front' = n
  <2>1. Front' = IF todo' = {} THEN Rows ELSE Now(todo')
    BY DEF Front, Now
  <2>2. CASE todo = {t}
    <3>1. todo' = {}
      BY <1>4, <2>2
    <3> QED BY <2>1, <2>2, <3>1 DEF Front, NextOne
  <2>3. CASE todo # {t}
    <3>1. todo' # {}
      BY <1>2, <1>4, <2>3
    <3> QED BY <1>4, <2>1, <2>3, <3>1 DEF Front, NextOne
  <2> QED BY <2>2, <2>3
<1>6. t = Rows => todo' = {}
  BY <1>2, <1>4
<1>7. (\A c \in C : c \in 1 .. Rows /\ c <= t) /\ C \in SUBSET (1 .. Rows)
  <2> SUFFICES ASSUME NEW c \in C
               PROVE  c \in 1 .. Rows /\ c <= t
    OBVIOUS
  <2>1. c \in 1 .. Rows /\ charges[c] # NoCharge
    BY DEF Charged
  <2>2. ~(c > t)
    BY <1>5, <2>1 DEF BacktestInv
  <2> QED BY <1>2, <2>1, <2>2
<1>8. new => /\ t + 1 \in 1 .. Rows /\ t + 1 <= n
             /\ charges' = [charges EXCEPT ![t + 1] = Charge(t, w)]
  <2>1. new => t < n
    BY <1>3
  <2> HIDE DEF n, t
  <2>2. new => t + 1 \in 1 .. Rows /\ t + 1 <= n
    BY <1>2, <1>3, <2>1
  <2> QED BY <2>2 DEF t
<1>9. ~new => charges' = charges
  OBVIOUS
<1> DEFINE row == Charge(t, w)
<1>10. row = [from |-> held, to |-> w, days |-> Date[n] - Date[t]] /\ row # NoCharge
  BY Something DEF Charge
<1>11. Date[t] \in Int /\ Date[n] \in Int /\ Date[Warmup + 1] = Date[Warmup + 1] /\ (new => Date[n] - Date[t] \in Nat \ {0})
  <2>1. Date[t] \in Int /\ Date[n] \in Int /\ (t < n => Date[t] < Date[n])
    <3> HIDE DEF n, t
    <3> QED BY <1>2, <1>3, BacktestAssumption
  <2>2. new => t < n
    BY <1>3
  <2> HIDE DEF n, t
  <2> QED BY <2>1, <2>2
<1>12. held \in Books /\ DOMAIN charges = 1 .. Rows
  BY <1>1, BacktestTypes
<1> HIDE DEF row, n, t
<1>13. new => charges'[t + 1] = row /\ \A d \in 1 .. Rows : d # t + 1 => charges'[d] = charges[d]
  BY <1>8, <1>12 DEF row
<1>14. Charged' = IF new THEN C \cup {t + 1} ELSE C
  <2>1. CASE ~new
    BY <1>9, <2>1 DEF Charged
  <2>2. CASE new
    BY <1>8, <1>10, <1>13, <2>2 DEF Charged
  <2> QED BY <2>1, <2>2
<1> HIDE DEF new
<1>15. \A c \in C : charges'[c] = charges[c] /\ c # t + 1
  BY <1>2, <1>7, <1>9, <1>13
<1> HIDE DEF C
\* Of the old charges the last one is as it was; a new one comes last.
<1>16. ASSUME NEW S \in SUBSET C
       PROVE  LastOf(charges', S) = LastOf(charges, S)
  <2>1. LastOf(charges', S) = IF S = {} THEN NoBook ELSE charges'[Latest(S)].to
    BY DEF LastOf
  <2>2. S # {} => Latest(S) \in C
    BY <1>7, LatestIn
  <2> QED BY <1>15, <2>1, <2>2 DEF LastOf
<1>17. new => LastOf(charges', C \cup {t + 1}) = w
  <2> HAVE new
  <2> DEFINE S == C \cup {t + 1}
  <2>1. S \in SUBSET (1 .. Rows) /\ S # {} /\ t + 1 \in S /\ \A c \in S : c <= t + 1
    BY <1>2, <1>7, <1>8
  <2> HIDE DEF S
  <2>2. Latest(S) = t + 1
    BY <2>1, LatestIn
  <2>3. LastOf(charges', S) = charges'[Latest(S)].to
    BY <2>1 DEF LastOf
  <2>4. LastOf(charges', S) = w
    BY <1>10, <1>13, <2>2, <2>3
  <2> QED BY <2>4 DEF S
<1>18. held = LastOf(charges, C)
  BY <1>2 DEF BacktestInv, C
<1>19. t # Rows => LastOf(charges', Charged') = w
  <2>1. CASE new
    <3>1. LastOf(charges', Charged') = LastOf(charges', C \cup {t + 1})
      BY <1>14, <2>1 DEF LastOf
    <3> QED BY <1>17, <2>1, <3>1
  <2>2. CASE ~new
    <3>1. LastOf(charges', Charged') = LastOf(charges', C)
      BY <1>14, <2>2 DEF LastOf
    <3>2. LastOf(charges', C) = held
      BY <1>16, <1>18
    <3> QED BY <2>2, <3>1, <3>2 DEF new
  <2> QED BY <2>1, <2>2
<1>20. BacktestTypeOK'
  <2>1. w \in BookOf /\ held \in BookOf
    BY <1>12 DEF Books, BookOf
  <2>2. earned' \in [1 .. Rows -> {Nothing} \cup [book : BookOf, since : 1 .. Rows]]
    BY <1>1, <1>2, <1>4, <2>1 DEF BacktestTypeOK
  <2>3. new => row \in [from : BookOf, to : BookOf, days : Nat \ {0}]
    BY <1>10, <1>11, <2>1
  <2>4. charges' \in [1 .. Rows -> {NoCharge} \cup [from : BookOf, to : BookOf, days : Nat \ {0}]]
    <3>1. CASE new
      <4>1. charges' = [charges EXCEPT ![t + 1] = row]
        BY <1>8, <3>1 DEF row
      <4> QED BY <1>1, <2>3, <3>1, <4>1 DEF BacktestTypeOK
    <3>2. CASE ~new
      BY <1>1, <1>9, <3>2 DEF BacktestTypeOK
    <3> QED BY <3>1, <3>2
  <2>5. todo' \subseteq 1 .. Rows
    BY <1>2, <1>4
  <2> QED BY <1>1, <1>4, <2>1, <2>2, <2>4, <2>5 DEF BacktestTypeOK
<1>21. \A d \in 1 .. Rows : d > n => earned'[d] = Nothing /\ charges'[d] = NoCharge
  <2> SUFFICES ASSUME NEW d \in 1 .. Rows, d > n
               PROVE  earned'[d] = Nothing /\ charges'[d] = NoCharge
    OBVIOUS
  <2>1. d > t /\ earned'[d] = earned[d]
    BY <1>2, <1>3, <1>4
  <2>2. charges'[d] = charges[d]
    <3>1. new => d # t + 1
      BY <1>2, <1>3, <1>8
    <3> QED BY <1>9, <1>13, <3>1
  <2> QED BY <1>5, <2>1, <2>2 DEF BacktestInv
<1>22. DecidedBefore'
  <2> SUFFICES ASSUME NEW d \in 1 .. Rows, earned'[d] # Nothing
               PROVE  /\ earned'[d].since < d
                      /\ runner' = "engine" => In(earned'[d].book) \subseteq Tradable(earned'[d].since)
    BY DEF DecidedBefore, In, Tradable
  <2>1. CASE d \in (t + 1) .. n
    <3>1. earned'[d] = [book |-> w, since |-> t]
      BY <1>4, <2>1
    <3> QED BY <1>2, <1>3, <1>4, <2>1, <3>1 DEF t
  <2>2. CASE d \notin (t + 1) .. n
    <3>1. earned'[d] = earned[d]
      BY <1>4, <2>2
    <3> QED BY <1>4, <3>1 DEF BacktestInv, DecidedBefore
  <2> QED BY <2>1, <2>2
<1>23. ASSUME NEW d \in 1 .. Rows, earned'[d] # Nothing
       PROVE  earned'[d].book = LastOf(charges', {c \in Charged' : c <= d})
  <2> DEFINE S == {c \in Charged' : c <= d}
             O == {c \in C : c <= d}
  <2>1. LastOf(charges', {c \in Charged' : c <= d}) = LastOf(charges', S)
    BY DEF LastOf
  <2>2. CASE d \in (t + 1) .. n
    <3>1. S = Charged'
      <4>1. \A c \in Charged' : c <= t + 1 /\ c \in Int
        BY <1>2, <1>7, <1>14
      <4> QED BY <1>2, <1>3, <2>2, <4>1
    <3>2. t # Rows /\ earned'[d].book = w
      BY <1>2, <1>3, <1>4, <2>2
    <3>3. LastOf(charges', S) = LastOf(charges', Charged')
      <4> HIDE DEF S
      <4> QED BY <3>1 DEF LastOf
    <3> QED BY <1>19, <2>1, <3>2, <3>3
  <2>3. CASE d \notin (t + 1) .. n
    <3>1. earned'[d] = earned[d] /\ earned[d] # Nothing
      BY <1>4, <1>23, <2>3
    <3>2. d <= t
      <4>1. ~(d > t)
        BY <1>5, <3>1 DEF BacktestInv
      <4> QED BY <1>2, <4>1
    <3>3. S = O
      BY <1>2, <1>14, <3>2
    <3>4. O \in SUBSET C
      OBVIOUS
    <3>5. earned[d].book = LastOf(charges, O)
      BY <3>1 DEF BacktestInv, Explained, C
    <3>6. LastOf(charges', S) = LastOf(charges', O)
      <4> HIDE DEF S, O
      <4> QED BY <3>3 DEF LastOf
    <3> HIDE DEF S, O
    <3> QED BY <1>16, <2>1, <3>1, <3>4, <3>5, <3>6
  <2> QED BY <2>2, <2>3
<1>24. ASSUME NEW d \in Charged'
       PROVE  charges'[d].from = LastOf(charges', {c \in Charged' : c < d})
  <2> DEFINE S == {c \in Charged' : c < d}
             O == {c \in C : c < d}
  <2>1. LastOf(charges', {c \in Charged' : c < d}) = LastOf(charges', S)
    BY DEF LastOf
  <2>2. S = O
    BY <1>2, <1>7, <1>14, <1>24
  <2>3. LastOf(charges', S) = LastOf(charges', O)
    <3> HIDE DEF S, O
    <3> QED BY <2>2 DEF LastOf
  <2>4. O \in SUBSET C
    OBVIOUS
  <2>5. CASE d \in C
    <3>1. charges'[d] = charges[d] /\ charges[d].from = LastOf(charges, O)
      BY <1>15, <2>5 DEF BacktestInv, Explained, C
    <3> HIDE DEF S, O
    <3> QED BY <1>16, <2>1, <2>3, <2>4, <3>1
  <2>6. CASE d \notin C
    <3>1. new /\ d = t + 1
      BY <1>14, <1>24, <2>6
    <3>2. O = C
      <4>1. \A c \in C : c < d
        <5>1. \A c \in C : c \in Int /\ c <= t
          BY <1>2, <1>7
        <5>2. t \in Int
          BY <1>2
        <5> QED BY <3>1, <5>1, <5>2
      <4> QED BY <4>1
    <3>3. charges'[d].from = held
      BY <1>10, <1>13, <3>1
    <3>4. LastOf(charges, O) = LastOf(charges, C)
      BY <3>2
    <3> HIDE DEF S, O
    <3> QED BY <1>16, <1>18, <2>1, <2>3, <2>4, <3>3, <3>4
  <2> QED BY <2>5, <2>6
<1>25. Explained'
  <2>1. \A d \in 1 .. Rows : earned'[d] # Nothing => earned'[d].book = LastOf(charges', {c \in Charged' : c <= d})
    BY <1>23
  <2>2. \A d \in Charged' : charges'[d].from = LastOf(charges', {c \in Charged' : c < d})
    BY <1>24
  <2> QED BY <2>1, <2>2 DEF Explained
<1>26. ASSUME runner' = "engine"
       PROVE  (/\ Warmup + 1 \in 1 .. Rows
               /\ SumFunctionOnSet(DaysCharged, Charged) = Date[Front] - Date[Warmup + 1]
               /\ \A d \in 1 .. Rows : d > Warmup + 1 /\ d <= Front => earned[d] # Nothing)'
  <2>1. /\ Warmup + 1 \in 1 .. Rows
        /\ SumFunctionOnSet(DaysCharged, C) = Date[t] - Date[Warmup + 1]
        /\ \A d \in 1 .. Rows : d > Warmup + 1 /\ d <= t => earned[d] # Nothing
    BY <1>4, <1>5, <1>26 DEF BacktestInv, C
  <2>2. Date[Warmup + 1] \in Int
    BY <2>1, BacktestAssumption
  <2>3. \A d \in 1 .. Rows : d > Warmup + 1 /\ d <= n => earned'[d] # Nothing
    <3> SUFFICES ASSUME NEW d \in 1 .. Rows, d > Warmup + 1, d <= n
                 PROVE  earned'[d] # Nothing
      OBVIOUS
    <3>1. CASE d \in (t + 1) .. n
      BY <1>4, <3>1, Something
    <3>2. CASE d \notin (t + 1) .. n
      <4>1. d <= t /\ earned'[d] = earned[d]
        BY <1>2, <1>3, <1>4, <3>2
      <4> QED BY <2>1, <4>1
    <3> QED BY <3>1, <3>2
  <2> DEFINE f == DaysCharged
             g == [d \in Charged' |-> charges'[d].days]
  <2>4. DaysCharged' = g
    BY DEF DaysCharged
  <2>5. \A c \in C : f[c] = charges[c].days /\ f[c] \in Int
    <3>1. \A c \in C : charges[c].days \in Int
      BY <1>1, BacktestTypes DEF C
    <3> QED BY <3>1 DEF DaysCharged, C
  <2>6. IsFiniteSet(C)
    <3>1. IsFiniteSet(1 .. Rows)
      BY <1>2, FS_Interval
    <3> QED BY <1>7, <3>1, FS_Subset
  <2>7. SumFunctionOnSet(g, Charged') = Date[n] - Date[Warmup + 1]
    <3>1. \A c \in C : g[c] = f[c]
      BY <1>14, <1>15, <2>5
    <3>2. new => g[t + 1] = Date[n] - Date[t]
      BY <1>10, <1>13, <1>14
    <3> HIDE DEF f, g
    <3>3. SumFunctionOnSet(g, C) = SumFunctionOnSet(f, C)
      BY <2>6, <3>1, SumAgree
    <3>4. CASE ~new
      <4>1. t = Rows
        BY <1>4, <1>26, <3>4 DEF new
      <4>2. n = t
        BY <1>2, <1>3, <4>1
      <4> QED BY <1>14, <2>1, <3>3, <3>4, <4>2 DEF f
    <3>5. CASE new
      <4>1. t + 1 \notin C
        BY <1>2, <1>7
      <4>2. Ints(g, C \cup {t + 1})
        BY <1>11, <2>5, <3>1, <3>2, <3>5 DEF Ints
      <4>3. SumFunctionOnSet(g, C \cup {t + 1}) = g[t + 1] + SumFunctionOnSet(g, C)
        BY <2>6, <4>1, <4>2, SumAdd
      <4> QED BY <1>11, <1>14, <2>1, <2>2, <3>2, <3>3, <3>5, <4>3 DEF f
    <3> QED BY <3>4, <3>5
  <2>8. SumFunctionOnSet(DaysCharged, Charged)' = SumFunctionOnSet(g, Charged')
    <3> HIDE DEF g
    <3> QED BY <2>4
  <2>9. (Date[Front] - Date[Warmup + 1])' = Date[n] - Date[Warmup + 1]
    BY <1>5
  <2>10. (\A d \in 1 .. Rows : d > Warmup + 1 /\ d <= Front => earned[d] # Nothing)'
    BY <1>5, <2>3
  <2> QED BY <2>1, <2>7, <2>8, <2>9, <2>10
<1>27. benchmark = {} /\ benchmark' = {}
  BY <1>2, <1>4 DEF BacktestInv
<1>28. todo' # {} => held' = LastOf(charges', Charged')
  BY <1>4, <1>6, <1>19
<1>29. runner' # "none"
  BY <1>4
<1>30. (\A d \in 1 .. Rows : d > Front => earned[d] = Nothing /\ charges[d] = NoCharge)'
  BY <1>5, <1>21
<1> QED BY <1>20, <1>22, <1>25, <1>26, <1>27, <1>28, <1>29, <1>30 DEF BacktestInv

\* The empty book has no names.
LEMMA EmptyBook == In(NoBook) = {}
BY DEF In, NoBook

\* A rebalance of the engine keeps the invariant.
LEMMA RebalanceStep ==
  ASSUME BacktestInv, Rebalance
  PROVE  BacktestInv'
<1> DEFINE t == Now(todo)
<1>1. PICK sig \in Signals, f \in Factors : \E w \in TargetWeights(t, sig, f) :
        /\ Hold(t, w)
        /\ charges' = IF t = Rows THEN charges ELSE [charges EXCEPT ![ChargedOn(t)] = Charge(t, w)]
  BY DEF Rebalance
<1>2. PICK w \in TargetWeights(t, sig, f) :
        /\ Hold(t, w)
        /\ charges' = IF t = Rows THEN charges ELSE [charges EXCEPT ![ChargedOn(t)] = Charge(t, w)]
  BY <1>1
<1>3. runner = "engine" /\ todo # {}
  BY DEF Rebalance
<1>4. t \in Int /\ strategy.name \in Strategies
  <2>1. todo \in SUBSET (1 .. Rows) /\ strategy \in [name : Strategies, governed : BOOLEAN]
    BY DEF BacktestInv, BacktestTypeOK
  <2>2. t \in 1 .. Rows
    BY <1>3, <2>1, NowIn
  <2> HIDE DEF t
  <2> QED BY <2>1, <2>2
<1>5. w \in Books /\ In(w) \subseteq Tradable(t)
  <2> HIDE DEF t
  <2> QED BY <1>4, TargetIn DEF Within
<1>6. charges' = IF t = Rows \/ (runner = "replay" /\ w = held) THEN charges
                 ELSE [charges EXCEPT ![t + 1] = Charge(t, w)]
  BY <1>2, <1>3 DEF ChargedOn
<1> QED BY <1>2, <1>3, <1>5, <1>6, HoldStep

\* The replay's book is never empty: there is a name, and no limit is zero.
LEMMA ReplayKeeps ==
  ASSUME BacktestInv, Replay
  PROVE  BacktestInv'
<1> DEFINE t == Now(todo)
<1>1. PICK sig \in Signals, f \in Factors :
        LET w == Lowest(SizedBook(Names, t, sig, f))
        IN  /\ Hold(t, w)
            /\ charges' = IF t = Rows \/ w \in {held, NoBook} THEN charges
                          ELSE [charges EXCEPT ![ChargedOn(t)] = Charge(t, w)]
  BY DEF Replay
<1> DEFINE v == SizedBook(Names, t, sig, f)
           w == Lowest(v)
<1>2. runner = "replay" /\ todo # {}
  BY DEF Replay
<1>3. v \in Books /\ In(v) # {}
  <2>1. Names # {} /\ Names \in SUBSET Names
    BY BacktestAssumption
  <2> HIDE DEF t
  <2> QED BY <2>1, SizedIn DEF Within
<1> HIDE DEF v
<1>4. w \in Books /\ In(w) # {}
  BY <1>3, LowestIn
<1>5. /\ Hold(t, w)
      /\ charges' = IF t = Rows \/ w \in {held, NoBook} THEN charges
                    ELSE [charges EXCEPT ![ChargedOn(t)] = Charge(t, w)]
  BY <1>1 DEF v
<1> HIDE DEF w
<1>6. w # NoBook
  BY <1>4, EmptyBook
<1>7. charges' = IF t = Rows \/ (runner = "replay" /\ w = held) THEN charges
                 ELSE [charges EXCEPT ![t + 1] = Charge(t, w)]
  BY <1>2, <1>5, <1>6 DEF ChargedOn
<1> QED BY <1>2, <1>4, <1>5, <1>6, <1>7, HoldStep

\* The benchmark touches neither.
LEMMA BuyAndHoldStep ==
  ASSUME BacktestInv, BuyAndHold
  PROVE  BacktestInv'
<1>1. /\ runner = "engine" /\ todo = {}
      /\ UNCHANGED <<runner, strategy, todo, held, earned, charges>>
      /\ benchmark' = {d \in Active : \E c \in Active : c < d}
  BY DEF BuyAndHold
<1>2. Warmup \in Nat /\ Rows \in Nat /\ Front = Rows
  BY <1>1, BacktestAssumption DEF Front
<1>3. ASSUME NEW d \in benchmark'
      PROVE  d \in 1 .. Rows /\ earned'[d] # Nothing
  <2>1. d \in 1 .. Rows /\ d > Warmup + 1 /\ d <= Rows
    BY <1>1, <1>2, <1>3 DEF Active
  <2> QED BY <1>1, <1>2, <2>1 DEF BacktestInv
<1>4. BacktestTypeOK'
  BY <1>1, <1>3 DEF BacktestInv, BacktestTypeOK
<1>5. Front' = Front /\ Charged' = Charged /\ DaysCharged' = DaysCharged
  BY <1>1 DEF Front, Charged, DaysCharged, Now
<1>6. DecidedBefore' /\ Explained'
  BY <1>1, <1>5 DEF BacktestInv, DecidedBefore, Explained
<1> QED BY <1>1, <1>3, <1>4, <1>5, <1>6 DEF BacktestInv

\* Every step of a simulation keeps the invariant.
LEMMA BacktestStep ==
  ASSUME BacktestInv, BacktestNext \/ UNCHANGED backtestVars
  PROVE  BacktestInv'
<1>1. CASE BeginSimulate \/ BeginReplay
  BY <1>1, BeginStep
<1>2. CASE Rebalance
  BY <1>2, RebalanceStep
<1>3. CASE Replay
  BY <1>3, ReplayKeeps
<1>4. CASE BuyAndHold
  BY <1>4, BuyAndHoldStep
<1>5. CASE UNCHANGED backtestVars
  <2>1. UNCHANGED <<runner, strategy, todo, held, earned, charges, benchmark>>
    BY <1>5 DEF backtestVars
  <2>2. Front' = Front /\ Charged' = Charged /\ DaysCharged' = DaysCharged
    BY <2>1 DEF Front, Charged, DaysCharged, Now
  <2>3. DecidedBefore' /\ Explained' /\ BacktestTypeOK'
    BY <2>1, <2>2 DEF BacktestInv, DecidedBefore, Explained, BacktestTypeOK
  <2> QED BY <2>1, <2>2, <2>3 DEF BacktestInv
<1> QED BY <1>1, <1>2, <1>3, <1>4, <1>5 DEF BacktestNext

\* So every change of the book was charged, for the days it took.
LEMMA AllPaid == BacktestInv => PaidFor
<1> SUFFICES ASSUME BacktestInv
             PROVE  PaidFor
  OBVIOUS
<1>1. /\ \A d \in 1 .. Rows : earned[d] # Nothing => earned[d].book = LastOf(charges, {c \in Charged : c <= d})
      /\ \A d \in Charged : charges[d].from = LastOf(charges, {c \in Charged : c < d})
  BY DEF BacktestInv, Explained
<1>2. runner = "engine" /\ todo = {} =>
        SumFunctionOnSet(DaysCharged, Charged) = Date[Rows] - Date[Warmup + 1]
  BY DEF BacktestInv, Front
<1>3. \A d \in benchmark : earned[d] # Nothing
  BY DEF BacktestInv
<1> QED BY <1>1, <1>2, <1>3 DEF PaidFor, LastOf

-----------------------------------------------------------------------------
(* Validation                                                               *)

\* The elements between two bounds are counted by their ranks.
LEMMA RankSplit ==
  ASSUME NEW S \in SUBSET Int, IsFiniteSet(S), NEW a \in Int, NEW b \in Int, a <= b
  PROVE  /\ RankIn(S, b) = RankIn(S, a) + Cardinality({e \in S : a < e /\ e <= b})
         /\ Cardinality({e \in S : a < e /\ e <= b}) \in Nat
<1> DEFINE U == {e \in S : e <= a}
           V == {e \in S : a < e /\ e <= b}
           W == {e \in S : e <= b}
<1>1. \A e \in S : e \in Int
  OBVIOUS
<1>2. U \cup V = W /\ U \cap V = {}
  <2>1. \A e \in S : (e <= b <=> e <= a \/ (a < e /\ e <= b)) /\ ~(e <= a /\ a < e)
    BY <1>1
  <2> QED BY <2>1
<1>3. IsFiniteSet(U) /\ IsFiniteSet(V)
  BY FS_Subset
<1>4. Cardinality(U) \in Nat /\ Cardinality(V) \in Nat /\ Cardinality({}) = 0
  BY <1>3, FS_CardinalityType, FS_EmptySet
<1>5. RankIn(S, b) = Cardinality(W) /\ RankIn(S, a) = Cardinality(U)
  BY DEF RankIn
<1> HIDE DEF U, V, W
<1>6. Cardinality(W) = Cardinality(U) + Cardinality(V) - 0
  BY <1>2, <1>3, <1>4, FS_Union
<1> QED BY <1>4, <1>5, <1>6 DEF V

-----------------------------------------------------------------------------
(* Sessions *)

\* The panel has rows on the days of a calendar.
Panelled == sessions = {} \/ \E H \in Holidays : sessions = Weekdays \ H

\* The sessions are days of the calendar.
LEMMA SessionsAre ==
  ASSUME Panelled
  PROVE  /\ sessions \in SUBSET (1 .. 7 * Weeks) /\ sessions \in SUBSET Int /\ sessions \in SUBSET Nat
         /\ IsFiniteSet(sessions) /\ Cardinality(sessions) \in Nat /\ 7 * Weeks \in Nat
<1>1. 7 * Weeks \in Nat
  BY ValidationAssumption
<1>2. sessions \in SUBSET (1 .. 7 * Weeks)
  BY DEF Panelled, Weekdays, Calendar
<1>3. IsFiniteSet(1 .. 7 * Weeks)
  BY <1>1, FS_Interval
<1>4. IsFiniteSet(sessions)
  BY <1>2, <1>3, FS_Subset
<1>5. Cardinality(sessions) \in Nat
  BY <1>4, FS_CardinalityType
<1>6. sessions \in SUBSET Int /\ sessions \in SUBSET Nat
  BY <1>1, <1>2
<1> QED BY <1>1, <1>2, <1>4, <1>5, <1>6

\* The row of a day is its rank among the sessions.
LEMMA RowIsRank == \A d : RowOf(d) = RankIn(sessions, d)
BY DEF RowOf, RankIn

\* The day of a row is a session, in that row.
LEMMA DayIs ==
  ASSUME Panelled, NEW i \in 1 .. Cardinality(sessions)
  PROVE  DayOf(i) \in sessions /\ RowOf(DayOf(i)) = i
<1>1. Cardinality(sessions) \in 0 .. Cardinality(sessions)
  BY SessionsAre
<1>2. \E d \in sessions : RankIn(sessions, d) = i
  BY <1>1, SessionsAre, RankOnto
<1>3. \E d \in sessions : RowOf(d) = i
  BY <1>2, RowIsRank
<1> QED BY <1>3 DEF DayOf

\* By the first session past the bound that purging goes by, a label has ended.
LEMMA LabelsEnd ==
  ASSUME Panelled, NEW d \in sessions, RowOf(d) < Cardinality(sessions)
  PROVE  /\ LabelEnd(d) \in sessions
         /\ \A later \in sessions : LabelTime(d) < later => LabelEnd(d) <= later
<1> DEFINE n == Cardinality(sessions)
           r == IF RowOf(d) + Ahead <= n THEN RowOf(d) + Ahead ELSE n
           last == LabelEnd(d)
           until == d + 2 * Ahead
<1>1. Ahead \in Nat \ {0} /\ d \in Int /\ d \in 1 .. 7 * Weeks /\ n \in Nat /\ RowOf(d) \in 1 .. n
  <2>1. Ahead \in Nat \ {0}
    BY ValidationAssumption
  <2>2. d \in 1 .. 7 * Weeks /\ n \in Nat /\ d \in Int
    BY SessionsAre
  <2>3. RowOf(d) \in 1 .. n
    BY SessionsAre, RowIsRank, RankGrows
  <2> QED BY <2>1, <2>2, <2>3
<1> HIDE DEF n
<1>2. r \in 1 .. n /\ r <= RowOf(d) + Ahead
  BY <1>1 DEF n
<1>3. last = DayOf(r)
  BY DEF LabelEnd, n
<1>4. last \in sessions /\ RowOf(last) = r
  <2> HIDE DEF r, last
  <2> QED BY <1>2, <1>3, DayIs DEF n
<1> HIDE DEF r, last
<1>5. ASSUME NEW later \in sessions, until < later, last > later
      PROVE  FALSE
  <2>1. /\ last \in 1 .. 7 * Weeks /\ 7 * Weeks \in Nat /\ last \in Int
        /\ later \in 1 .. 7 * Weeks /\ later \in Int
    BY <1>4, SessionsAre
  <2>2. until \in Int /\ d <= until /\ until \in 1 .. 7 * Weeks
    BY <1>1, <1>5, <2>1
  <2>3. PICK H \in Holidays : sessions = Weekdays \ H
    BY DEF Panelled
  <2>4. Ahead <= 1 + Cardinality({e \in Weekdays \ H : d < e /\ e <= d + 2 * Ahead})
    BY <1>1, <2>2, CalendarAssumption DEF Calendar
  <2> DEFINE c == Cardinality({e \in sessions : d < e /\ e <= until})
  <2>5. Ahead <= 1 + c
    BY <2>3, <2>4
  <2>6. RowOf(until) = RowOf(d) + c /\ c \in Nat
    BY <1>1, <2>2, SessionsAre, RankSplit, RowIsRank
  <2>7. RowOf(until) < RowOf(later) /\ RowOf(later) < r /\ RowOf(later) \in Int
    <3>1. RankIn(sessions, until) < RankIn(sessions, later) /\ RankIn(sessions, later) < RankIn(sessions, last)
      <4> HIDE DEF until
      <4> QED BY <1>4, <1>5, <2>1, <2>2, SessionsAre, RankGrows
    <3>2. RankIn(sessions, later) \in Int
      BY <2>1, SessionsAre, RankGrows
    <3> QED BY <1>4, <3>1, <3>2, RowIsRank
  <2> HIDE DEF c, until
  <2> QED BY <1>1, <1>2, <2>5, <2>6, <2>7
<1>6. last \in Int /\ \A later \in sessions : later \in Int
  BY <1>4, SessionsAre
<1> QED BY <1>1, <1>4, <1>5, <1>6 DEF last, LabelTime

-----------------------------------------------------------------------------
(* The split *)

\* Labelled days are sessions whose label ends in the panel.
LEMMA LabelledAre ==
  ASSUME Panelled
  PROVE  /\ Labelled \in SUBSET Nat /\ IsFiniteSet(Labelled) /\ Cardinality(Labelled) \in Nat
         /\ \A d \in Labelled : d \in sessions /\ LabelEnd(d) \in sessions
         /\ \A d \in Labelled, later \in sessions : LabelTime(d) < later => LabelEnd(d) <= later
<1>1. \A d \in Labelled : d \in sessions /\ RowOf(d) < Cardinality(sessions)
  BY DEF Labelled, Decisions, Sampled
<1>2. Labelled \in SUBSET Nat /\ IsFiniteSet(Labelled)
  <2>1. Labelled \in SUBSET sessions
    BY <1>1
  <2> QED BY <2>1, SessionsAre, FS_Subset
<1>3. Cardinality(Labelled) \in Nat
  BY <1>2, FS_CardinalityType
<1> QED BY <1>1, <1>2, <1>3, LabelsEnd

\* A sample is a labelled day.
LEMMA DateIs ==
  ASSUME Panelled, NEW i \in 1 .. Samples
  PROVE  DateOf(i) \in Labelled
<1> DEFINE n == Cardinality(Labelled)
           q == (i - 1) \div Members
<1>1. n \in Nat /\ Members \in Nat \ {0}
  BY LabelledAre, ValidationAssumption
<1> HIDE DEF n
<1>2. i - 1 \in Int /\ 0 <= i - 1 /\ i - 1 < n * Members
  <2>1. n * Members \in Int
    BY <1>1
  <2>2. i \in 1 .. (n * Members)
    BY DEF Samples, n
  <2> QED BY <2>1, <2>2
<1>3. q \in Int /\ (i - 1) % Members \in 0 .. (Members - 1) /\ i - 1 = Members * q + ((i - 1) % Members)
  BY <1>1, <1>2, Division
<1> HIDE DEF q
<1>4. Members * q > Members * (0 - 1) /\ Members * n > Members * q
  <2>1. Members * n = n * Members /\ Members * (0 - 1) = 0 - Members
    BY <1>1
  <2>2. Members * q \in Int /\ Members * n \in Int
    BY <1>1, <1>3
  <2> QED BY <1>1, <1>2, <1>3, <2>1, <2>2
<1>5. q > 0 - 1 /\ n > q
  BY <1>1, <1>3, <1>4, Multiplied
<1>6. q + 1 \in 1 .. n /\ q \in Nat
  BY <1>1, <1>3, <1>5
<1>7. Labelled \in SUBSET Int /\ IsFiniteSet(Labelled) /\ n \in 0 .. Cardinality(Labelled)
  BY <1>1, LabelledAre DEF n
<1>8. PICK d \in Labelled : RankIn(Labelled, d) = q + 1
  BY <1>6, <1>7, RankOnto DEF n
<1>9. Cardinality({e \in Labelled : e < d}) = q
  <2> DEFINE V == {e \in Labelled : e < d}
  <2>1. {e \in Labelled : e <= d} = V \cup {d}
    <3>1. d \in Int /\ \A e \in Labelled : e \in Int
      BY <1>7
    <3>2. \A e \in Labelled : e <= d <=> e < d \/ e = d
      BY <3>1
    <3> QED BY <3>2
  <2>2. d \notin V
    BY <1>7
  <2>3. IsFiniteSet(V)
    BY <1>7, FS_Subset
  <2> HIDE DEF V
  <2>4. Cardinality(V \cup {d}) = Cardinality(V) + 1 /\ Cardinality(V) \in Nat
    BY <2>2, <2>3, FS_AddElement, FS_CardinalityType
  <2>5. Cardinality(V) + 1 = q + 1
    BY <1>8, <2>1, <2>4 DEF RankIn
  <2> QED BY <1>6, <2>4, <2>5 DEF V
<1>10. \E e \in Labelled : Cardinality({x \in Labelled : x < e}) = q
  BY <1>9
<1> QED BY <1>10 DEF DateOf, q

\* A fold tests samples.
LEMMA FoldsAre ==
  ASSUME Panelled, folds \in Splits, NEW k \in 1 .. folds
  PROVE  TestOf(k) \in SUBSET (1 .. Samples) /\ Samples \in Nat
<1> DEFINE q == Samples \div folds
           r == Samples % folds
<1>1. folds \in Nat \ {0} /\ Members \in Nat \ {0}
  BY ValidationAssumption
<1>2. Samples \in Nat
  BY <1>1, LabelledAre DEF Samples
<1>3. q \in Int /\ r \in 0 .. (folds - 1) /\ Samples = folds * q + r
  BY <1>1, <1>2, Division
<1>4. FoldEnd(k) = k * q + (IF k < r THEN k ELSE r)
  BY DEF FoldEnd
<1>5. FoldEnd(k - 1) = (k - 1) * q + (IF k - 1 < r THEN k - 1 ELSE r)
  BY DEF FoldEnd
<1> HIDE DEF q, r
<1>6. q >= 0
  <2>1. CASE q < 0
    <3>1. folds * q <= folds * (0 - 1)
      BY <1>1, <1>3, <2>1, Multiplied
    <3>2. folds * (0 - 1) = 0 - folds /\ folds * q \in Int
      BY <1>1, <1>3
    <3> QED BY <1>1, <1>2, <1>3, <3>1, <3>2
  <2> QED BY <1>3, <2>1
<1>7. k \in Nat \ {0} /\ k <= folds
  BY <1>1
<1>8. k * q <= folds * q /\ (k - 1) * q >= 0 /\ k * q \in Int /\ (k - 1) * q \in Int /\ folds * q \in Int
  BY <1>1, <1>3, <1>6, <1>7
<1>9. FoldEnd(k) <= Samples /\ FoldEnd(k - 1) >= 0 /\ FoldEnd(k) \in Int /\ FoldEnd(k - 1) \in Int
  BY <1>1, <1>3, <1>4, <1>5, <1>7, <1>8
<1> QED BY <1>2, <1>9 DEF TestOf

\* What the purge leaves of the samples keeps apart from the fold.
LEMMA TrainApart ==
  ASSUME Panelled, folds \in Splits, NEW k \in 1 .. folds, NEW i \in Train(k), NEW j \in TestOf(k)
  PROVE  LabelEnd(DateOf(i)) <= DateOf(j) \/ LabelEnd(DateOf(j)) <= DateOf(i)
<1> DEFINE test == {DateOf(x) : x \in TestOf(k)}
           start == CHOOSE d \in test : \A e \in test : d <= e
           last == CHOOSE d \in test : \A e \in test : e <= d
<1>1. i \in 1 .. Samples /\ j \in 1 .. Samples
  BY FoldsAre DEF Train
<1>2. ~(LabelTime(DateOf(i)) >= start /\ DateOf(i) <= LabelTime(last))
  BY DEF Train
<1>3. test \in SUBSET Labelled /\ DateOf(j) \in test
  BY FoldsAre, DateIs
<1>4. \A d \in Labelled : /\ d \in Int /\ d \in sessions /\ LabelTime(d) = d + 2 * Ahead
                          /\ \A later \in sessions : LabelTime(d) < later => LabelEnd(d) <= later
  <2>1. \A d \in Labelled : d \in sessions
    BY LabelledAre
  <2> QED BY <2>1, LabelledAre, SessionsAre DEF LabelTime
<1>5. DateOf(i) \in Labelled /\ DateOf(j) \in Labelled /\ Ahead \in Nat
  BY <1>1, DateIs, ValidationAssumption
<1> HIDE DEF test
<1>6. start \in test /\ start <= DateOf(j)
  <2>1. test \in SUBSET Nat /\ test # {}
    BY <1>3, LabelledAre
  <2>2. \E d \in test : \A e \in test : d <= e
    BY <2>1, MinIn
  <2> QED BY <1>3, <2>2
<1>7. last \in test /\ DateOf(j) <= last
  <2>1. test \in SUBSET (1 .. 7 * Weeks) /\ test # {}
    BY <1>3, LabelledAre, SessionsAre
  <2>2. Max(test) \in test /\ \A y \in test : y <= Max(test)
    BY <2>1, SessionsAre, MaxIn
  <2>3. \E d \in test : \A e \in test : e <= d
    BY <2>2
  <2> QED BY <1>3, <2>3
<1> HIDE DEF start, last
<1>8. start \in Labelled /\ last \in Labelled
  BY <1>3, <1>6, <1>7
<1> DEFINE a == DateOf(i)
           b == DateOf(j)
<1>9. /\ a \in Int /\ b \in Int /\ start \in Int /\ last \in Int
      /\ LabelTime(a) = a + 2 * Ahead /\ LabelTime(b) = b + 2 * Ahead /\ LabelTime(last) = last + 2 * Ahead
      /\ LabelTime(a) < b => LabelEnd(a) <= b
      /\ LabelTime(b) < a => LabelEnd(b) <= a
  BY <1>4, <1>5, <1>8
<1>10. ~(LabelTime(a) >= start /\ a <= LabelTime(last)) /\ start <= b /\ b <= last
  BY <1>2, <1>6, <1>7
<1> HIDE DEF a, b
<1>11. LabelEnd(a) <= b \/ LabelEnd(b) <= a
  BY <1>5, <1>9, <1>10
<1> QED BY <1>11 DEF a, b

-----------------------------------------------------------------------------
(* The family *)

\* A day the measurement may use: past the burn-in, on the spacing, with a full horizon.
OnGrid(d) ==
  d \in sessions /\ RowOf(d) > BurnIn /\ (RowOf(d) - 1 - BurnIn) % spacing = 0 /\ Matured(d)

\* The horizon of a matured day is full of sessions.
LEMMA HorizonBehind ==
  ASSUME Panelled, NEW d \in sessions, Matured(d)
  PROVE  /\ Cardinality({e \in sessions : d < e /\ e <= LabelEnd(d)}) = Ahead
         /\ LabelEnd(d) \in sessions /\ RowOf(LabelEnd(d)) = RowOf(d) + Ahead
<1> DEFINE n == Cardinality(sessions)
           last == LabelEnd(d)
<1>1. Ahead \in Nat \ {0} /\ n \in Nat /\ RowOf(d) \in 1 .. n /\ RowOf(d) + Ahead <= n /\ d \in Int
  <2>1. Ahead \in Nat \ {0}
    BY ValidationAssumption
  <2>2. RowOf(d) \in 1 .. n /\ n \in Nat /\ d \in Int
    BY SessionsAre, RowIsRank, RankGrows
  <2> QED BY <2>1, <2>2 DEF Matured
<1> HIDE DEF n
<1>2. RowOf(d) + Ahead \in 1 .. n
  BY <1>1
<1>3. last = DayOf(RowOf(d) + Ahead)
  BY <1>1 DEF LabelEnd, n
<1> HIDE DEF last
<1>4. last \in sessions /\ RowOf(last) = RowOf(d) + Ahead
  BY <1>2, <1>3, DayIs DEF n
<1>5. last \in Int
  BY <1>4, SessionsAre
<1>6. d <= last
  <2>1. ~(last <= d)
    <3>1. last <= d => RowOf(last) <= RowOf(d)
      BY <1>1, <1>5, SessionsAre, RowIsRank, RankGrows
    <3> QED BY <1>1, <1>4, <3>1
  <2> QED BY <1>1, <1>5, <2>1
<1> DEFINE c == Cardinality({e \in sessions : d < e /\ e <= last})
<1>7. RowOf(last) = RowOf(d) + c /\ c \in Nat
  BY <1>1, <1>5, <1>6, SessionsAre, RankSplit, RowIsRank
<1> HIDE DEF c
<1>8. c = Ahead
  BY <1>1, <1>4, <1>7
<1> QED BY <1>4, <1>8 DEF c, last

\* Dates a whole horizon apart share no row of it.
LEMMA GridApart ==
  ASSUME Panelled, spacing \in Spacings, spacing >= Ahead, NEW d, NEW e, OnGrid(d), OnGrid(e), d < e
  PROVE  LabelEnd(d) <= e
<1> DEFINE x == RowOf(d)
           y == RowOf(e)
           last == LabelEnd(d)
<1>1. spacing \in Nat \ {0} /\ BurnIn \in Nat /\ Ahead \in Nat /\ d \in Int /\ e \in Int
  BY SessionsAre, ValidationAssumption DEF OnGrid
<1>2. x \in Int /\ y \in Int /\ x < y
  <2>1. d \in sessions /\ e \in sessions
    BY DEF OnGrid
  <2>2. RowOf(d) \in Int /\ RowOf(e) \in Int
    BY <2>1, SessionsAre, RowIsRank, RankGrows
  <2>3. RowOf(d) < RowOf(e)
    BY <1>1, <2>1, SessionsAre, RowIsRank, RankGrows
  <2> QED BY <2>2, <2>3
<1>3. (x - 1 - BurnIn) % spacing = 0 /\ (y - 1 - BurnIn) % spacing = 0
  BY DEF OnGrid
<1>4. last \in sessions /\ RowOf(last) = x + Ahead /\ last \in Int
  BY HorizonBehind, SessionsAre DEF OnGrid
<1> HIDE DEF x, y
<1> DEFINE a == (x - 1 - BurnIn) \div spacing
           b == (y - 1 - BurnIn) \div spacing
<1>5. a \in Int /\ x - 1 - BurnIn = spacing * a
  <2>1. x - 1 - BurnIn \in Int
    BY <1>1, <1>2
  <2>2. a \in Int /\ x - 1 - BurnIn = spacing * a + ((x - 1 - BurnIn) % spacing)
    BY <1>1, <2>1, Division
  <2>3. spacing * a \in Int
    BY <1>1, <2>2
  <2> HIDE DEF a
  <2> QED BY <1>3, <2>2, <2>3
<1>6. b \in Int /\ y - 1 - BurnIn = spacing * b
  <2>1. y - 1 - BurnIn \in Int
    BY <1>1, <1>2
  <2>2. b \in Int /\ y - 1 - BurnIn = spacing * b + ((y - 1 - BurnIn) % spacing)
    BY <1>1, <2>1, Division
  <2>3. spacing * b \in Int
    BY <1>1, <2>2
  <2> HIDE DEF b
  <2> QED BY <1>3, <2>2, <2>3
<1> HIDE DEF a, b
<1>7. b > a
  <2>1. spacing * b > spacing * a
    BY <1>1, <1>2, <1>5, <1>6
  <2> QED BY <1>1, <1>5, <1>6, <2>1, Multiplied
<1>8. y >= x + spacing
  <2>1. spacing * (a + 1) <= spacing * b
    BY <1>1, <1>5, <1>6, <1>7, Multiplied
  <2>2. spacing * (a + 1) = spacing * a + spacing
    BY <1>1, <1>5
  <2> QED BY <1>1, <1>2, <1>5, <1>6, <2>1, <2>2
<1>9. ~(e < last)
  <2>1. e < last => RowOf(e) < RowOf(last)
    BY <1>1, <1>4, SessionsAre, RowIsRank, RankGrows
  <2>2. RowOf(e) = y
    BY DEF y
  <2> QED BY <1>1, <1>2, <1>4, <1>8, <2>1, <2>2
<1> QED BY <1>1, <1>4, <1>9 DEF last

\* The step-up: the numbered p-values below the line are the largest set that bears its share.
LEMMA StepUp ==
  ASSUME NEW D, IsFiniteSet(D), NEW p \in [D -> Nat], NEW rank \in Ranks(p)
  PROVE  LET m == Cardinality(D)
         IN  /\ BenjaminiHochberg(p, rank) = UNION {R \in SUBSET D : \A s \in R : Significant(p[s], m, Cardinality(R))}
             /\ {s \in D : Significant(p[s], m, 1)} \subseteq BenjaminiHochberg(p, rank)
<1> DEFINE m == Cardinality(D)
           BH == BenjaminiHochberg(p, rank)
           Fair(R) == \A s \in R : Significant(p[s], m, Cardinality(R))
<1>1. m \in Nat /\ Alpha \in Nat /\ DOMAIN p = D
  BY FS_CardinalityType, ValidationAssumption
<1>2. /\ rank \in [D -> 1 .. m]
      /\ \A s, r \in D : s # r => rank[s] # rank[r] /\ (p[s] < p[r] => rank[s] < rank[r])
  BY <1>1 DEF Ranks
<1>3. BH = {s \in D : \E r \in D : rank[s] <= rank[r] /\ Significant(p[r], m, rank[r])}
  BY <1>1 DEF BenjaminiHochberg
<1> HIDE DEF BH, m
<1>4. ASSUME NEW s \in BH
      PROVE  \E R \in SUBSET D : Fair(R) /\ s \in R
  <2>1. PICK r \in D : rank[s] <= rank[r] /\ Significant(p[r], m, rank[r])
    BY <1>3
  <2> DEFINE k == rank[r]
             R == {x \in D : rank[x] <= k}
  <2>2. k \in 0 .. Cardinality(D) /\ k \in Nat
    BY <1>1, <1>2 DEF m
  <2>3. Cardinality(R) = k
    <3>1. rank \in [D -> 1 .. Cardinality(D)] /\ \A x, y \in D : rank[x] = rank[y] => x = y
      BY <1>2 DEF m
    <3> HIDE DEF k
    <3> QED BY <2>2, <3>1, NumberedOnto
  <2>4. ASSUME NEW x \in R
        PROVE  Significant(p[x], m, k)
    <3>1. rank[x] \in Int /\ rank[r] \in Int /\ rank[x] <= rank[r]
      BY <1>1, <1>2
    <3>2. p[x] <= p[r] /\ p[x] \in Nat /\ p[r] \in Nat
      BY <1>2, <3>1
    <3>3. p[x] * m <= p[r] * m /\ p[x] * m \in Nat /\ p[r] * m \in Nat /\ k * Alpha \in Nat
      BY <1>1, <2>2, <3>2
    <3>4. p[r] * m <= k * Alpha
      BY <2>1 DEF Significant
    <3> QED BY <3>3, <3>4 DEF Significant
  <2>5. s \in R /\ R \in SUBSET D
    BY <1>3, <2>1
  <2> HIDE DEF k
  <2> QED BY <2>3, <2>4, <2>5
<1>5. ASSUME NEW R \in SUBSET D, Fair(R), NEW s \in R
      PROVE  s \in BH
  <2> DEFINE K == {rank[x] : x \in R}
  <2>1. K \in SUBSET (1 .. m) /\ K # {}
    BY <1>2
  <2>2. Max(K) \in K /\ \A y \in K : y <= Max(K)
    <3> HIDE DEF K
    <3> QED BY <1>1, <2>1, MaxIn
  <2>3. PICK r \in R : rank[r] = Max(K)
    BY <2>2
  <2>4. \A x \in R : rank[x] <= rank[r]
    BY <2>2, <2>3
  <2> DEFINE k == rank[r]
             g == [x \in R |-> rank[x]]
  <2>5. k \in Nat /\ IsFiniteSet(1 .. k) /\ Cardinality(1 .. k) = k
    <3>1. k \in 1 .. m
      BY <1>2
    <3> HIDE DEF k
    <3>2. k \in Nat \ {0}
      BY <1>1, <3>1
    <3>3. IsFiniteSet(1 .. k) /\ Cardinality(1 .. k) = k - 1 + 1
      BY <3>2, FS_Interval
    <3> QED BY <3>2, <3>3
  <2>6. g \in Injection(R, 1 .. k)
    <3>1. \A x \in R : rank[x] \in 1 .. k
      BY <1>1, <1>2, <2>4
    <3> QED BY <1>2, <3>1 DEF Injection, IsInjective
  <2> HIDE DEF g, k
  <2>7. Cardinality(R) <= k
    BY <2>5, <2>6, FS_Injection
  <2>8. Cardinality(R) \in Nat
    BY FS_Subset, FS_CardinalityType
  <2>9. p[r] * m <= Cardinality(R) * Alpha
    BY <1>5, <2>3 DEF Significant
  <2>10. Cardinality(R) * Alpha <= k * Alpha
    BY <1>1, <2>5, <2>7, <2>8
  <2>11. p[r] * m \in Int /\ Cardinality(R) * Alpha \in Int /\ k * Alpha \in Int
    BY <1>1, <2>5, <2>8
  <2>12. Significant(p[r], m, k)
    BY <2>9, <2>10, <2>11 DEF Significant
  <2> QED BY <1>3, <2>4, <2>12 DEF k
<1>6. BH = UNION {R \in SUBSET D : Fair(R)}
  BY <1>3, <1>4, <1>5
<1>7. {s \in D : Significant(p[s], m, 1)} \subseteq BH
  <2> SUFFICES ASSUME NEW s \in D, Significant(p[s], m, 1)
               PROVE  s \in BH
    OBVIOUS
  <2>1. rank[s] \in Nat \ {0} /\ rank[s] <= rank[s]
    BY <1>1, <1>2
  <2>2. p[s] * m <= Alpha /\ p[s] * m \in Int
    BY <1>1 DEF Significant
  <2>3. Alpha <= rank[s] * Alpha /\ rank[s] * Alpha \in Int
    BY <1>1, <2>1
  <2>4. Significant(p[s], m, rank[s])
    BY <1>1, <2>2, <2>3 DEF Significant
  <2> QED BY <1>3, <2>1, <2>4
<1> QED BY <1>6, <1>7 DEF BH, m

-----------------------------------------------------------------------------
(* The commands *)

\* The largest rejection is kept beside what the splits and the grid need.
ValidationInv ==
  /\ Panelled
  /\ folds \in Splits \cup {0} /\ fold \in 0 .. folds /\ embargo \in Embargoes \cup {0}
  /\ sessions = {} => folds = 0 /\ measuredOn = {}
  /\ fold = 0 => train = {}
  /\ \A i \in train : i \in Train(fold)
  /\ scored \subseteq 1 .. fold
  /\ scorer \in {"none", "composite"} \/ scored # {}
  /\ measuredOn # {} => spacing \in Spacings
  /\ \A d \in measuredOn : OnGrid(d)
  /\ fdr \subseteq DOMAIN pvalue
  /\ LargestRejection

\* At first there are no sessions.
LEMMA ValidationInitInv == ValidationInit => ValidationInv
<1> SUFFICES ASSUME ValidationInit
             PROVE  ValidationInv
  OBVIOUS
<1>1. /\ sessions = {} /\ folds = 0 /\ embargo = 0 /\ fold = 0 /\ train = {}
      /\ scored = {} /\ scorer = "none" /\ spacing = 0 /\ measuredOn = {}
      /\ pvalue = NoFamily /\ fdr = {} /\ bonferroni = {}
  BY DEF ValidationInit
<1>2. DOMAIN pvalue = {}
  BY <1>1 DEF NoFamily
<1>3. LargestRejection
  BY <1>1, <1>2 DEF LargestRejection
<1> QED BY <1>1, <1>2, <1>3 DEF ValidationInv, Panelled

\* What the samples are is settled with the sessions.
LEMMA SameSessions ==
  ASSUME UNCHANGED <<sessions, folds, embargo>>
  PROVE  Train(fold)' = Train(fold')
<1>1. \A d : RowOf(d)' = RowOf(d)
  BY DEF RowOf
<1>2. Labelled' = Labelled
  BY <1>1 DEF Labelled, Decisions, Sampled, RowOf
<1>3. Samples' = Samples /\ \A i : DateOf(i)' = DateOf(i)
  BY <1>2 DEF Samples, DateOf
<1>4. \A x : FoldEnd(x)' = FoldEnd(x)
  BY <1>3 DEF FoldEnd
<1>5. TestOf(fold)' = TestOf(fold')
  BY <1>4, <1>3 DEF TestOf, FoldEnd
<1> QED BY <1>2, <1>3, <1>4, <1>5 DEF Train, TestOf, DateOf, Samples, FoldEnd

\* Every step of the harness keeps it.
LEMMA ValidationStep ==
  ASSUME ValidationInv, ValidationNext \/ UNCHANGED validationVars
  PROVE  ValidationInv'
<1>1. CASE BuildTrainingSet
  <2>1. /\ sessions = {} /\ folds' \in Splits /\ embargo' \in Embargoes
        /\ UNCHANGED <<fold, train, scored, scorer, spacing, measuredOn, pvalue, fdr, bonferroni>>
    BY <1>1 DEF BuildTrainingSet, familyVars
  <2>2. PICK H \in Holidays : sessions' = Weekdays \ H
    BY <1>1 DEF BuildTrainingSet
  <2>3. folds = 0 /\ measuredOn = {} /\ fold = 0 /\ train = {}
    BY <2>1 DEF ValidationInv
  <2>4. sessions' # {} /\ Panelled'
    BY <2>2, CalendarAssumption DEF Panelled, Weekdays, Calendar
  <2>5. fold' \in 0 .. folds'
    BY <2>1, <2>3, ValidationAssumption
  <2>6. LargestRejection' /\ fdr' \subseteq DOMAIN pvalue'
    BY <2>1 DEF ValidationInv, LargestRejection, Significant
  <2> QED BY <2>1, <2>3, <2>4, <2>5, <2>6 DEF ValidationInv
<1>2. CASE Fold
  <2>1. /\ fold < folds /\ fold' = fold + 1
        /\ train' = IF TestOf(fold + 1) = {} THEN {} ELSE Train(fold + 1)
        /\ scored' = scored \/ scored' = scored \cup {fold + 1}
        /\ UNCHANGED <<sessions, folds, embargo, scorer, spacing, measuredOn, pvalue, fdr, bonferroni>>
    BY <1>2 DEF Fold, familyVars
  <2>2. folds \in Nat /\ fold \in Nat
    BY ValidationAssumption DEF ValidationInv
  <2>3. fold' \in 0 .. folds' /\ fold' # 0 /\ folds' # 0
    BY <2>1, <2>2
  <2>4. (\A i \in train : i \in Train(fold))'
    BY <2>1, SameSessions
  <2>5. scored' \subseteq 1 .. fold'
    <3>1. 1 .. fold \subseteq 1 .. (fold + 1) /\ fold + 1 \in 1 .. (fold + 1)
      BY <2>2
    <3>2. scored \subseteq 1 .. fold
      BY DEF ValidationInv
    <3> QED BY <2>1, <3>1, <3>2
  <2>6. scorer' \in {"none", "composite"} \/ scored' # {}
    BY <2>1 DEF ValidationInv
  <2>7. (\A d \in measuredOn : OnGrid(d))' /\ Panelled'
    BY <2>1 DEF ValidationInv, OnGrid, RowOf, Matured, Panelled, Weekdays, Calendar
  <2>8. LargestRejection' /\ fdr' \subseteq DOMAIN pvalue'
    BY <2>1 DEF ValidationInv, LargestRejection, Significant
  <2>9. sessions' # {}
    BY <2>1, <2>2, <2>3 DEF ValidationInv
  <2> QED BY <2>1, <2>3, <2>4, <2>5, <2>6, <2>7, <2>8, <2>9 DEF ValidationInv
<1>3. CASE CompareToBaseline
  <2>1. /\ scorer' \in Recommended
        /\ UNCHANGED <<sessions, folds, embargo, fold, train, scored, spacing, measuredOn, pvalue, fdr, bonferroni>>
    BY <1>3 DEF CompareToBaseline, familyVars
  <2>2. scorer' \in {"none", "composite"} \/ scored' # {}
    BY <2>1 DEF Recommended
  <2>3. (\A i \in train : i \in Train(fold))'
    BY <2>1, SameSessions DEF ValidationInv
  <2>4. (\A d \in measuredOn : OnGrid(d))' /\ Panelled'
    BY <2>1 DEF ValidationInv, OnGrid, RowOf, Matured, Panelled, Weekdays, Calendar
  <2>5. LargestRejection' /\ fdr' \subseteq DOMAIN pvalue'
    BY <2>1 DEF ValidationInv, LargestRejection, Significant
  <2> QED BY <2>1, <2>2, <2>3, <2>4, <2>5 DEF ValidationInv
<1>4. CASE MeasureFamily
  <2>1. /\ sessions = {} /\ spacing' \in Spacings
        /\ UNCHANGED <<folds, embargo, fold, train, scored, scorer, pvalue, fdr, bonferroni>>
    BY <1>4 DEF MeasureFamily, splitVars, familyVars
  <2>2. PICK H \in Holidays : sessions' = Weekdays \ H
    BY <1>4 DEF MeasureFamily
  <2>3. PICK sealed \in BOOLEAN : measuredOn' = MeasuredDates(spacing, IF sealed THEN SealedFrom ELSE 0)'
    BY <1>4 DEF MeasureFamily
  <2>4. (\A d \in measuredOn : OnGrid(d))'
    BY <2>3 DEF MeasuredDates, OnGrid, RowOf, Matured
  <2>5. folds = 0 /\ fold = 0 /\ train = {}
    BY <2>1 DEF ValidationInv
  <2>6. sessions' # {} /\ Panelled'
    BY <2>2, CalendarAssumption DEF Panelled, Weekdays, Calendar
  <2>7. LargestRejection' /\ fdr' \subseteq DOMAIN pvalue'
    BY <2>1 DEF ValidationInv, LargestRejection, Significant
  <2> QED BY <2>1, <2>4, <2>5, <2>6, <2>7 DEF ValidationInv
<1>5. CASE CorrectFamily
  <2>1. UNCHANGED <<sessions, folds, embargo, fold, train, scored, scorer, spacing, measuredOn>>
    BY <1>5 DEF CorrectFamily, splitVars
  <2>2. PICK D \in SUBSET Family \ {{}} : pvalue' \in [D -> PValues]
    BY <1>5 DEF CorrectFamily
  <2>3. PICK rank \in Ranks(pvalue') : fdr' = BenjaminiHochberg(pvalue', rank)
    BY <1>5 DEF CorrectFamily
  <2>4. bonferroni' = {s \in DOMAIN pvalue' : Significant(pvalue'[s], Cardinality(DOMAIN pvalue'), 1)}
    BY <1>5 DEF CorrectFamily
  <2>5. IsFiniteSet(D) /\ DOMAIN pvalue' = D /\ pvalue' \in [D -> Nat]
    <3>1. IsFiniteSet(D)
      BY ValidationAssumption, FS_Subset
    <3> QED BY <2>2, <3>1, ValidationAssumption
  <2>6. /\ BenjaminiHochberg(pvalue', rank) =
             UNION {R \in SUBSET D : \A s \in R : Significant(pvalue'[s], Cardinality(D), Cardinality(R))}
        /\ {s \in D : Significant(pvalue'[s], Cardinality(D), 1)} \subseteq BenjaminiHochberg(pvalue', rank)
    BY <2>5, StepUp
  <2>7. LargestRejection'
    BY <2>3, <2>4, <2>5, <2>6 DEF LargestRejection, Significant
  <2>8. fdr' \subseteq DOMAIN pvalue'
    BY <2>3, <2>5, <2>6
  <2>9. (\A i \in train : i \in Train(fold))'
    BY <2>1, SameSessions DEF ValidationInv
  <2>10. (\A d \in measuredOn : OnGrid(d))' /\ Panelled'
    BY <2>1 DEF ValidationInv, OnGrid, RowOf, Matured, Panelled, Weekdays, Calendar
  <2> QED BY <2>1, <2>7, <2>8, <2>9, <2>10 DEF ValidationInv
<1>6. CASE UNCHANGED validationVars
  <2>1. UNCHANGED <<sessions, folds, embargo, fold, train, scored, scorer, spacing, measuredOn, pvalue, fdr, bonferroni>>
    BY <1>6 DEF validationVars, splitVars, familyVars
  <2>2. (\A i \in train : i \in Train(fold))'
    BY <2>1, SameSessions DEF ValidationInv
  <2>3. (\A d \in measuredOn : OnGrid(d))' /\ Panelled'
    BY <2>1 DEF ValidationInv, OnGrid, RowOf, Matured, Panelled, Weekdays, Calendar
  <2>4. LargestRejection' /\ fdr' \subseteq DOMAIN pvalue'
    BY <2>1 DEF ValidationInv, LargestRejection, Significant
  <2> QED BY <2>1, <2>2, <2>3, <2>4 DEF ValidationInv
<1> QED BY <1>1, <1>2, <1>3, <1>4, <1>5, <1>6 DEF ValidationNext

\* No training label overlaps a test label, and no two measured horizons each other.
LEMMA NothingLeaks == ValidationInv => NoLeak
<1> SUFFICES ASSUME ValidationInv
             PROVE  NoLeak
  OBVIOUS
<1>1. ASSUME fold > 0, NEW i \in train, NEW j \in TestOf(fold)
      PROVE  LabelEnd(DateOf(i)) <= DateOf(j) \/ LabelEnd(DateOf(j)) <= DateOf(i)
  <2>1. folds \in Splits /\ fold \in 1 .. folds
    <3>1. folds \in Nat /\ fold \in 0 .. folds /\ folds \in Splits \cup {0}
      BY ValidationAssumption DEF ValidationInv
    <3> QED BY <1>1, <3>1
  <2> QED BY <2>1, TrainApart DEF ValidationInv
<1>2. \A d \in measuredOn : Cardinality({e \in sessions : d < e /\ e <= LabelEnd(d)}) = Ahead
  BY HorizonBehind DEF ValidationInv, OnGrid
<1>3. spacing >= Ahead => \A d, e \in measuredOn : d < e => LabelEnd(d) <= e
  BY GridApart DEF ValidationInv
<1> QED BY <1>1, <1>2, <1>3 DEF NoLeak

\* The invariant has the types.
LEMMA ValidationTypes == ValidationInv => ValidationTypeOK
<1> SUFFICES ASSUME ValidationInv
             PROVE  ValidationTypeOK
  OBVIOUS
<1>1. sessions \subseteq Weekdays
  BY DEF ValidationInv, Panelled
<1>2. train \subseteq 1 .. Samples
  BY DEF ValidationInv, Train
<1>3. measuredOn \subseteq sessions
  BY DEF ValidationInv, OnGrid
<1>4. fdr \subseteq DOMAIN pvalue /\ bonferroni \subseteq DOMAIN pvalue
  BY DEF ValidationInv, LargestRejection
<1> QED BY <1>1, <1>2, <1>3, <1>4 DEF ValidationInv, ValidationTypeOK

-----------------------------------------------------------------------------
(* Event studies                                                            *)

-----------------------------------------------------------------------------
(* Rows and windows *)

\* The rows of a loaded history.
Loaded == first \in 1 .. Panel

\* They are consecutive rows of the panel.
LEMMA RowsAre ==
  ASSUME Loaded, NEW who
  PROVE  /\ Returns \in SUBSET (1 .. Panel) /\ IsFiniteSet(Returns) /\ Cardinality(Returns) = Panel - first
         /\ BarsOf(who) \in SUBSET Returns /\ BarsOf(who) \in SUBSET Int /\ BarsOf(who) \in SUBSET Nat
         /\ IsFiniteSet(BarsOf(who)) /\ Cardinality(BarsOf(who)) \in Nat
         /\ Panel \in Nat /\ first \in Nat
<1>1. Panel \in Nat \ {0} /\ first \in Nat /\ 1 <= first /\ first <= Panel
  BY StudyAssumption DEF Loaded
<1>2. Returns \in SUBSET (1 .. Panel)
  BY <1>1 DEF Returns
<1>3. IsFiniteSet(Returns) /\ Cardinality(Returns) = Panel - first
  <2>1. /\ IsFiniteSet((first + 1) .. Panel)
        /\ Cardinality((first + 1) .. Panel) = IF first + 1 > Panel THEN 0 ELSE Panel - (first + 1) + 1
    <3>1. first + 1 \in Int /\ Panel \in Int
      BY <1>1
    <3> QED BY <3>1, FS_Interval
  <2> QED BY <1>1, <2>1 DEF Returns
<1>4. BarsOf(who) \in SUBSET Returns
  BY DEF BarsOf
<1>5. IsFiniteSet(BarsOf(who)) /\ Cardinality(BarsOf(who)) \in Nat
  BY <1>3, <1>4, FS_Subset, FS_CardinalityType
<1>6. BarsOf(who) \in SUBSET Int /\ BarsOf(who) \in SUBSET Nat
  <2>1. \A r \in 1 .. Panel : r \in Int /\ r \in Nat
    BY <1>1
  <2> QED BY <1>2, <1>4, <2>1
<1> QED BY <1>1, <1>2, <1>3, <1>4, <1>5, <1>6

\* A position is a rank, counted from 0.
LEMMA PosIsRank ==
  ASSUME Loaded, NEW who, NEW at \in Int
  PROVE  \E h \in Int : /\ Pos(who, at) = RankIn(BarsOf(who), h) - 1
                        /\ \A r \in Int : 2 * r <= at <=> r <= h
<1> DEFINE h == at \div 2
<1>1. h \in Int /\ at % 2 \in 0 .. (2 - 1) /\ at = 2 * h + (at % 2)
  BY Division
<1> HIDE DEF h
<1>2. \A r \in Int : 2 * r <= at <=> r <= h
  BY <1>1
<1>3. {r \in BarsOf(who) : 2 * r <= at} = {r \in BarsOf(who) : r <= h}
  BY <1>2, RowsAre
<1> QED BY <1>1, <1>2, <1>3 DEF Pos, RankIn

\* The rows of a window are those of its ranks, and there are as many.
LEMMA WindowRanks ==
  ASSUME Loaded, NEW who, NEW from \in Nat, NEW to \in Int, from <= to + 1, to < Cardinality(BarsOf(who))
  PROVE  /\ RowsAt(who, from, to) = {r \in BarsOf(who) : RankIn(BarsOf(who), r) \in (from + 1) .. (to + 1)}
         /\ Cardinality(RowsAt(who, from, to)) = to + 1 - from
<1> DEFINE B == BarsOf(who)
           rank(r) == RankIn(B, r)
<1>1. B \in SUBSET Int /\ IsFiniteSet(B) /\ Cardinality(B) \in Nat
  BY RowsAre
<1> HIDE DEF B
<1>2. ASSUME NEW r \in B
      PROVE  Cardinality({q \in B : q < r}) = rank(r) - 1 /\ rank(r) \in Int
  <2> DEFINE U == {q \in B : q < r}
  <2>1. {q \in B : q <= r} = U \cup {r} /\ r \notin U
    <3>1. \A q \in B : q \in Int /\ (q <= r <=> q < r \/ q = r)
      BY <1>1
    <3>2. ~(r < r)
      BY <1>1
    <3> QED BY <3>1, <3>2
  <2>2. IsFiniteSet(U) /\ Cardinality(U) \in Nat
    BY <1>1, FS_Subset, FS_CardinalityType
  <2>3. Cardinality(U \cup {r}) = Cardinality(U) + 1
    BY <2>1, <2>2, FS_AddElement
  <2> QED BY <2>1, <2>2, <2>3 DEF RankIn
<1>3. RowsAt(who, from, to) = {r \in B : rank(r) \in (from + 1) .. (to + 1)}
  <2>1. RowsAt(who, from, to) = {r \in B : Cardinality({q \in B : q < r}) \in from .. to}
    BY DEF RowsAt, B
  <2>2. \A r \in B : Cardinality({q \in B : q < r}) \in from .. to <=> rank(r) \in (from + 1) .. (to + 1)
    BY <1>2
  <2> QED BY <2>1, <2>2
<1> DEFINE T(k) == {r \in B : rank(r) <= k}
<1>4. from \in 0 .. Cardinality(B) /\ to + 1 \in 0 .. Cardinality(B)
  BY <1>1 DEF B
<1>5. Cardinality(T(from)) = from /\ Cardinality(T(to + 1)) = to + 1
  BY <1>1, <1>4, RankOnto
<1>6. {r \in B : rank(r) \in (from + 1) .. (to + 1)} = T(to + 1) \ T(from) /\ T(to + 1) \cap T(from) = T(from)
  <2>1. \A r \in B : rank(r) \in Int
    BY <1>2
  <2> HIDE DEF rank
  <2>2. \A r \in B : /\ rank(r) \in (from + 1) .. (to + 1) <=> rank(r) <= to + 1 /\ ~(rank(r) <= from)
                     /\ rank(r) <= from => rank(r) <= to + 1
    BY <2>1
  <2> QED BY <2>2
<1>7. IsFiniteSet(T(to + 1))
  BY <1>1, FS_Subset
<1> DEFINE X == T(to + 1)
           Y == T(from)
<1>8. Cardinality(X \ Y) = to + 1 - from
  <2>1. IsFiniteSet(X) /\ X \cap Y = Y /\ Cardinality(X) = to + 1 /\ Cardinality(Y) = from
    BY <1>5, <1>6, <1>7
  <2> HIDE DEF X, Y
  <2>2. Cardinality(X \ Y) = Cardinality(X) - Cardinality(X \cap Y)
    BY <2>1, FS_Difference
  <2> QED BY <2>1, <2>2
<1> QED BY <1>3, <1>6, <1>8 DEF rank, B

\* Ranks part by no more than days do.
LEMMA RanksClose ==
  ASSUME NEW S \in SUBSET Int, IsFiniteSet(S), NEW d \in Int, NEW e \in Int, d <= e
  PROVE  RankIn(S, e) - RankIn(S, d) <= e - d
<1> DEFINE V == {x \in S : d < x /\ x <= e}
<1>1. RankIn(S, e) = RankIn(S, d) + Cardinality(V) /\ Cardinality(V) \in Nat
  BY RankSplit
<1>2. V \in SUBSET ((d + 1) .. e)
  <2>1. \A x \in S : x \in Int /\ (d < x /\ x <= e => x \in (d + 1) .. e)
    OBVIOUS
  <2> QED BY <2>1
<1>3. IsFiniteSet((d + 1) .. e) /\ Cardinality((d + 1) .. e) = IF d + 1 > e THEN 0 ELSE e - (d + 1) + 1
  <2>1. d + 1 \in Int
    OBVIOUS
  <2> QED BY <2>1, FS_Interval
<1>4. Cardinality(V) <= Cardinality((d + 1) .. e)
  BY <1>2, <1>3, FS_Subset
<1>5. RankIn(S, d) \in Int
  BY RankGrows
<1> HIDE DEF V
<1> QED BY <1>1, <1>3, <1>4, <1>5

\* Whatever is measured has its whole window, known only by its first row at the anchor, and a
\* model estimated on rows a gap before it.
LEMMA WindowsAre ==
  ASSUME Loaded, NEW who, NEW at \in Int, Measurable(who, at)
  PROVE  /\ Cardinality(EventRows(who, at)) = Post + 1
         /\ Cardinality(EstimationRows(who, at)) = Estimation
         /\ \A r \in EventRows(who, at) : r = Min(EventRows(who, at)) \/ 2 * r > at
         /\ \A e \in EstimationRows(who, at), r \in EventRows(who, at) : e + Gap < r
<1> DEFINE B == BarsOf(who)
           p == Pos(who, at)
           E == EstimationRows(who, at)
           W == EventRows(who, at)
<1>1. Estimation \in Nat /\ Gap \in Nat /\ Post \in Nat
  BY StudyAssumption
<1>2. /\ B \in SUBSET Int /\ B \in SUBSET Nat /\ IsFiniteSet(B) /\ Cardinality(B) \in Nat
      /\ \A r \in B : RankIn(B, r) \in Int
  <2>1. B \in SUBSET Int /\ B \in SUBSET Nat /\ IsFiniteSet(B) /\ Cardinality(B) \in Nat
    BY RowsAre
  <2> HIDE DEF B
  <2>2. \A r \in B : RankIn(B, r) \in 1 .. Cardinality(B)
    BY <2>1, RankGrows
  <2> QED BY <2>1, <2>2
<1>3. PICK h \in Int : p = RankIn(B, h) - 1 /\ \A r \in Int : 2 * r <= at <=> r <= h
  BY PosIsRank
<1>4. p \in Int /\ p - Gap - Estimation >= 0 /\ p + Post < Cardinality(B)
  <2>1. RankIn(B, h) \in Int
    <3> HIDE DEF B
    <3> QED BY <1>2, <1>3, RankGrows
  <2> QED BY <1>3, <2>1 DEF Measurable
<1>5. /\ W = {r \in B : RankIn(B, r) \in (p + 1) .. (p + Post + 1)}
      /\ Cardinality(W) = p + Post + 1 - p
  <2>1. p \in Nat /\ p + Post \in Int /\ p <= p + Post + 1
    <3> HIDE DEF p
    <3> QED BY <1>1, <1>4
  <2> HIDE DEF p
  <2>2. /\ RowsAt(who, p, p + Post) = {r \in B : RankIn(B, r) \in (p + 1) .. (p + Post + 1)}
        /\ Cardinality(RowsAt(who, p, p + Post)) = p + Post + 1 - p
    BY <1>4, <2>1, WindowRanks DEF B
  <2> QED BY <2>2 DEF EventRows, p
<1>6. /\ E = {r \in B : RankIn(B, r) \in (p - Gap - Estimation + 1) .. (p - Gap - 1 + 1)}
      /\ Cardinality(E) = p - Gap - 1 + 1 - (p - Gap - Estimation)
  <2> DEFINE from == p - Gap - Estimation
             to == p - Gap - 1
  <2>1. from \in Nat /\ to \in Int /\ from <= to + 1 /\ to < Cardinality(B)
    <3> HIDE DEF p, B
    <3> QED BY <1>1, <1>2, <1>4
  <2> HIDE DEF from, to
  <2>2. /\ RowsAt(who, from, to) = {r \in B : RankIn(B, r) \in (from + 1) .. (to + 1)}
        /\ Cardinality(RowsAt(who, from, to)) = to + 1 - from
    BY <2>1, WindowRanks DEF B
  <2> QED BY <2>2 DEF EstimationRows, from, to
<1> HIDE DEF B, p, E, W
<1>7. /\ W \in SUBSET Nat
       /\ \A r \in W : r \in B /\ r \in Int /\ RankIn(B, r) \in Int /\ RankIn(B, r) >= p + 1
  <2>1. \A r \in W : r \in B /\ RankIn(B, r) \in (p + 1) .. (p + Post + 1)
    BY <1>5
  <2>2. \A x \in (p + 1) .. (p + Post + 1) : x >= p + 1
    BY <1>1, <1>4
  <2> QED BY <1>2, <2>1, <2>2
<1>8. Cardinality(W) = Post + 1 /\ Cardinality(E) = Estimation
  BY <1>1, <1>4, <1>5, <1>6
<1>9. ASSUME NEW r \in W
      PROVE  r = Min(W) \/ 2 * r > at
  <2>1. W \in SUBSET Nat /\ W # {} /\ r \in B /\ r \in Int /\ RankIn(B, r) >= p + 1
    BY <1>7
  <2>2. Min(W) \in W /\ Min(W) <= r
    BY <2>1, MinIn
  <2> DEFINE m == Min(W)
  <2>3. m \in B /\ m \in Int /\ RankIn(B, m) >= p + 1
    BY <1>7, <2>2
  <2> HIDE DEF m
  <2>4. CASE 2 * r <= at
    <3>1. r <= h
      BY <1>3, <2>1, <2>4
    <3>2. RankIn(B, r) <= RankIn(B, h)
      BY <1>2, <1>3, <2>1, <3>1, RankGrows
    <3>3. m < r => RankIn(B, m) < RankIn(B, r)
      BY <1>2, <2>1, <2>3, RankGrows
    <3>4. m <= r
      BY <2>2 DEF m
    <3>5. RankIn(B, h) = p + 1
      <4>1. RankIn(B, h) \in Int
        BY <1>2, <1>3, RankGrows
      <4> QED BY <1>3, <1>4, <4>1
    <3>6. RankIn(B, m) \in Int /\ RankIn(B, r) \in Int
      BY <1>2, <2>1, <2>3
    <3>7. r = m
      BY <1>4, <2>1, <2>3, <3>2, <3>3, <3>4, <3>5, <3>6
    <3> QED BY <3>7 DEF m
  <2>5. 2 * r \in Int /\ at \in Int
    BY <2>1
  <2> QED BY <2>4, <2>5
<1>10. ASSUME NEW e \in E, NEW r \in W
      PROVE  e + Gap < r
  <2>1. /\ e \in B /\ e \in Int /\ RankIn(B, e) \in Int /\ RankIn(B, e) <= p - Gap
        /\ r \in B /\ r \in Int /\ RankIn(B, r) \in Int /\ RankIn(B, r) >= p + 1
    BY <1>1, <1>2, <1>4, <1>5, <1>6
  <2>2. r <= e => RankIn(B, r) <= RankIn(B, e)
    BY <1>2, <2>1, RankGrows
  <2>3. e <= r => RankIn(B, r) - RankIn(B, e) <= r - e
    BY <1>2, <2>1, RanksClose
  <2> QED BY <1>1, <1>4, <2>1, <2>2, <2>3
<1> QED BY <1>8, <1>9, <1>10 DEF E, W

\* A name that missed no row can be measured wherever the null re-anchors it.
LEMMA AnchorDated ==
  ASSUME Loaded, NEW p \in Low .. High
  PROVE  Min(Returns) = first + 1 /\ AnchorOf(p) \in Int
<1>1. Estimation \in Nat /\ Gap \in Nat /\ Post \in Nat
  BY StudyAssumption
<1>2. /\ Cardinality(Returns) = Panel - first /\ IsFiniteSet(Returns) /\ Returns \in SUBSET (1 .. Panel)
      /\ Panel \in Nat /\ first \in Nat
  BY RowsAre
<1>3. Low = Estimation + Gap /\ High = Panel - first - Post - 1
  BY <1>2 DEF Low, High
<1>4. p \in Int /\ Estimation + Gap <= p /\ p <= Panel - first - Post - 1
  BY <1>1, <1>2, <1>3
<1>5. first + 1 \in Returns /\ \A r \in Returns : r \in Int /\ first + 1 <= r /\ r <= Panel
  BY <1>1, <1>2, <1>4 DEF Returns
<1>6. Min(Returns) = first + 1
  <2>1. Returns \in SUBSET Nat
    BY <1>2
  <2>2. Min(Returns) \in Returns /\ Min(Returns) <= first + 1
    BY <1>5, <2>1, MinIn
  <2>3. Min(Returns) \in Int /\ first + 1 <= Min(Returns)
    BY <1>5, <2>2
  <2>4. first + 1 \in Int
    BY <1>2
  <2> HIDE DEF Returns
  <2> QED BY <2>2, <2>3, <2>4
<1> QED BY <1>2, <1>4, <1>6 DEF AnchorOf

\* A name that never missed a row can be measured from any position the null draws.
LEMMA NullMeasurable ==
  ASSUME Loaded, NEW who, BarsOf(who) = Returns, NEW p \in Low .. High
  PROVE  Measurable(who, AnchorOf(p))
<1>1. Estimation \in Nat /\ Gap \in Nat /\ Post \in Nat
  BY StudyAssumption
<1>2. /\ Cardinality(Returns) = Panel - first /\ IsFiniteSet(Returns) /\ Returns \in SUBSET (1 .. Panel)
      /\ Panel \in Nat /\ first \in Nat
  BY RowsAre
<1>3. Low = Estimation + Gap /\ High = Panel - first - Post - 1
  BY <1>2 DEF Low, High
<1>4. p \in Int /\ Estimation + Gap <= p /\ p <= Panel - first - Post - 1
  BY <1>1, <1>2, <1>3
<1>5. first + 1 \in Returns /\ \A r \in Returns : r \in Int /\ first + 1 <= r /\ r <= Panel
  BY <1>1, <1>2, <1>4 DEF Returns
<1>6. Min(Returns) = first + 1
  BY AnchorDated
<1>7. AnchorOf(p) = 2 * (p + (first + 1))
  BY <1>6 DEF AnchorOf
<1>8. {r \in Returns : 2 * r <= AnchorOf(p)} = (first + 1) .. (p + (first + 1))
  <2>1. \A r \in Int : 2 * r <= 2 * (p + (first + 1)) <=> r <= p + (first + 1)
    BY <1>2, <1>4
  <2>2. \A r \in (first + 1) .. (p + (first + 1)) : r \in (first + 1) .. Panel
    BY <1>1, <1>2, <1>4
  <2>3. \A r \in Returns : r <= p + (first + 1) => r \in (first + 1) .. (p + (first + 1))
    BY <1>2, <1>4, <1>5
  <2> QED BY <1>2, <1>4, <1>5, <1>7, <2>1, <2>2, <2>3 DEF Returns
<1>9. Cardinality((first + 1) .. (p + (first + 1))) = p + 1
  <2>1. first + 1 \in Int /\ p + (first + 1) \in Int /\ ~(first + 1 > p + (first + 1))
    BY <1>1, <1>2, <1>4
  <2>2. Cardinality((first + 1) .. (p + (first + 1))) = (p + (first + 1)) - (first + 1) + 1
    BY <2>1, FS_Interval
  <2> QED BY <1>2, <1>4, <2>2
<1>10. Pos(who, AnchorOf(p)) = p
  <2>1. Pos(who, AnchorOf(p)) = Cardinality({r \in Returns : 2 * r <= AnchorOf(p)}) - 1
    BY DEF Pos
  <2>2. Cardinality({r \in Returns : 2 * r <= AnchorOf(p)}) = p + 1
    BY <1>8, <1>9
  <2> QED BY <1>4, <2>1, <2>2
<1> QED BY <1>1, <1>2, <1>4, <1>10 DEF Measurable

-----------------------------------------------------------------------------
(* Detection *)

\* What a study keeps: what StudyTypeOK bounds, and where the scans and the loaded rows begin.
StudyInv ==
  /\ Loaded /\ disclosed \in {{}} \cup Disclosures
  /\ begun \in Nat /\ scan \in Nat
  /\ scan = 0 => begun = 0 /\ anchors = {} /\ DOMAIN fake = {}
  /\ scan # 0 => first + MinHistory <= begun /\ begun <= scan /\ (scan - begun) % Step = 0
  /\ \A a \in anchors : /\ a \in [who : Listing, kind : Kinds, at : Nat, found : Nat]
                        /\ a.at <= a.found
  /\ \A a \in DOMAIN fake : a \in anchors /\ fake[a] \in Low .. High
  /\ {hits, drawn, tries} \subseteq Nat
  /\ hits <= drawn /\ drawn <= tries /\ tries <= MaxPermutations /\ gate \subseteq Kinds
  /\ AnchoredWhenKnowable

\* The larger of two numbers.
LEMMA Larger ==
  ASSUME NEW x \in Int, NEW y \in Int
  PROVE  /\ Max({x, y}) \in {x, y} /\ x <= Max({x, y}) /\ y <= Max({x, y})
<1>1. \E m \in {x, y} : \A n \in {x, y} : m >= n
  <2>1. CASE x >= y
    BY <2>1
  <2>2. CASE y >= x
    BY <2>2
  <2> QED BY <2>1, <2>2
<1>2. Max({x, y}) \in {x, y} /\ \A n \in {x, y} : Max({x, y}) >= n
  BY <1>1 DEF Max
<1> QED BY <1>2

\* Wherever the scans start, a history of that length is loaded before.
LEMMA BoundsAre ==
  ASSUME NEW b \in Lookbacks, NEW bounds \in {StudyBounds(b), GateBounds(b)}
  PROVE  /\ bounds.first \in 1 .. Panel /\ bounds.scan \in Nat
         /\ bounds.first + MinHistory <= bounds.scan
<1>1. /\ Panel \in Nat \ {0} /\ b \in Nat /\ Buffer \in Nat /\ MinHistory \in Nat /\ Step \in Nat \ {0}
  BY StudyAssumption
<1>2. CASE bounds = StudyBounds(b)
  <2> DEFINE from == Max({1, Panel - b})
  <2>1. from \in {1, Panel - b} /\ 1 <= from
    BY <1>1, Larger
  <2> HIDE DEF from
  <2>2. from \in 1 .. Panel
    BY <1>1, <2>1
  <2>3. bounds.first = from /\ bounds.scan = from + MinHistory
    BY <1>2 DEF StudyBounds, from
  <2> QED BY <1>1, <2>2, <2>3
<1>3. CASE bounds = GateBounds(b)
  <2> DEFINE from == Max({1, Panel - b - Buffer})
             scans == {from + MinHistory + k * Step : k \in 0 .. Panel}
             late == {r \in scans : r >= Panel - b}
  <2>1. from \in {1, Panel - b - Buffer} /\ 1 <= from
    BY <1>1, Larger
  <2> HIDE DEF from
  <2>2. from \in 1 .. Panel /\ from \in Nat
    BY <1>1, <2>1
  <2>3. \A k \in 0 .. Panel : k * Step \in Nat /\ k <= k * Step
    <3>1. ASSUME NEW k \in 0 .. Panel
          PROVE  k * Step \in Nat /\ k <= k * Step
      <4>1. k \in Nat /\ Step - 1 \in Nat
        BY <1>1
      <4>2. k * (Step - 1) \in Nat /\ k * Step = k + k * (Step - 1)
        BY <1>1, <4>1
      <4> QED BY <4>1, <4>2
    <3> QED BY <3>1
  <2>4. \A r \in scans : r \in Nat /\ from + MinHistory <= r
    <3>1. ASSUME NEW k \in 0 .. Panel
          PROVE  from + MinHistory + k * Step \in Nat /\ from + MinHistory <= from + MinHistory + k * Step
      <4>1. k * Step \in Nat
        BY <2>3
      <4> QED BY <1>1, <2>2, <4>1
    <3> QED BY <3>1
  <2>5. from + MinHistory + Panel * Step \in late
    <3>1. Panel \in 0 .. Panel
      BY <1>1
    <3>2. Panel * Step \in Nat /\ Panel <= Panel * Step
      BY <2>3, <3>1
    <3>3. from + MinHistory + Panel * Step >= Panel - b
      BY <1>1, <2>2, <3>2
    <3> QED BY <3>1, <3>3
  <2> HIDE DEF scans
  <2>6. late \in SUBSET Nat /\ late # {}
    BY <2>4, <2>5
  <2>7. Min(late) \in late
    BY <2>6, MinIn
  <2>8. bounds.first = from /\ bounds.scan = Min(late)
    BY <1>3 DEF GateBounds, from, scans
  <2> QED BY <2>2, <2>4, <2>7, <2>8
<1> QED BY <1>2, <1>3

\* The last disclosure of some filings.
LEMMA KnownAtIs ==
  ASSUME NEW fs, IsFiniteSet(fs), fs # {}, \A f \in fs : f.at \in Nat
  PROVE  (\E f \in fs : f.at = KnownAt(fs)) /\ \A f \in fs : f.at <= KnownAt(fs)
<1> DEFINE C == {T \in SUBSET fs : T # {} => \E f \in T : \A g \in T : g.at <= f.at}
<1>1. {} \in C
  OBVIOUS
<1>2. ASSUME NEW T \in SUBSET fs, NEW x \in fs \ T, T \in C
      PROVE  T \cup {x} \in C
  <2>1. CASE T = {}
    BY <2>1
  <2>2. CASE T # {}
    <3>1. PICK f \in T : \A g \in T : g.at <= f.at
      BY <1>2, <2>2
    <3>2. f.at \in Nat /\ x.at \in Nat /\ \A g \in T : g.at \in Nat
      OBVIOUS
    <3>3. CASE x.at <= f.at
      BY <3>1, <3>3
    <3>4. CASE f.at <= x.at
      <4>1. \A g \in T : g.at <= x.at
        BY <3>1, <3>2, <3>4
      <4>2. \A g \in T \cup {x} : g.at <= x.at
        BY <3>2, <4>1
      <4> QED BY <4>2
    <3> QED BY <3>2, <3>3, <3>4
  <2> QED BY <2>1, <2>2
<1>3. fs \in C
  <2> HIDE DEF C
  <2> QED BY <1>1, <1>2, FiniteSetInduction
<1>4. \E x \in {f.at : f \in fs} : \A y \in {f.at : f \in fs} : x >= y
  BY <1>3
<1>5. KnownAt(fs) \in {f.at : f \in fs} /\ \A y \in {f.at : f \in fs} : KnownAt(fs) >= y
  BY <1>4 DEF KnownAt, Max
<1> QED BY <1>5

\* Filings carry times.
LEMMA FilingsAre ==
  ASSUME StudyInv
  PROVE  /\ IsFiniteSet(disclosed) /\ IsFiniteSet(Filings) /\ Filings \in SUBSET disclosed
         /\ \A f \in disclosed : f.who \in Listing /\ f.done \in Nat /\ f.at \in Nat
<1>1. /\ IsFiniteSet(disclosed)
      /\ disclosed \in SUBSET [who : Listing, kind : {"purchase", "leader"}, done : Nat, at : Nat]
  BY StudyAssumption, FS_EmptySet DEF StudyInv
<1>2. Filings \in SUBSET disclosed
  BY DEF Filings
<1>3. IsFiniteSet(Filings)
  BY <1>1, <1>2, FS_Subset
<1> QED BY <1>1, <1>2, <1>3

\* At the time of its last filing all of a cluster is in the window.
LEMMA ClusterKnown ==
  ASSUME StudyInv, NEW who, NEW t \in Nat, NEW fs \in SUBSET disclosed,
         Cardinality(Buys(fs, who, t)) >= ClusterSize
  PROVE  LET at == KnownAt(Buys(fs, who, t))
         IN  /\ at \in Nat /\ at <= t
             /\ Cardinality(Buys(fs, who, at)) >= ClusterSize
<1> DEFINE B == Buys(fs, who, t)
           at == KnownAt(B)
<1>1. ClusterSize \in Nat \ {0} /\ ClusterWindow \in Nat
  BY StudyAssumption
<1>2. /\ IsFiniteSet(fs) /\ \A f \in fs : f.at \in Nat
      /\ IsFiniteSet(B) /\ B \in SUBSET fs /\ \A f \in B : f.at <= t /\ f.at > t - ClusterWindow
  <2>1. IsFiniteSet(fs) /\ \A f \in fs : f.at \in Nat
    BY FilingsAre, FS_Subset
  <2>2. B \in SUBSET fs /\ \A f \in B : f.at <= t /\ f.at > t - ClusterWindow
    BY DEF Buys
  <2> QED BY <2>1, <2>2, FS_Subset
<1>3. B # {}
  BY <1>1, FS_EmptySet
<1> HIDE DEF B
<1>4. (\E f \in B : f.at = at) /\ \A f \in B : f.at <= at
  BY <1>2, <1>3, KnownAtIs
<1>5. at \in Nat /\ at <= t
  BY <1>2, <1>4
<1> HIDE DEF at
<1>6. B \in SUBSET Buys(fs, who, at)
  <2>1. ASSUME NEW f \in B
        PROVE  f \in Buys(fs, who, at)
    <3>1. f \in fs /\ f.kind = "purchase" /\ f.who = who
      BY DEF B, Buys
    <3>2. f.at \in Nat /\ f.at <= at /\ f.at > t - ClusterWindow
      BY <1>2, <1>4, <3>1
    <3>3. f.at > at - ClusterWindow
      BY <1>1, <1>5, <3>2
    <3> QED BY <3>1, <3>2, <3>3 DEF Buys
  <2> QED BY <2>1
<1>7. IsFiniteSet(Buys(fs, who, at))
  <2>1. Buys(fs, who, at) \in SUBSET fs
    BY DEF Buys
  <2> QED BY <1>2, <2>1, FS_Subset
<1>8. Cardinality(B) <= Cardinality(Buys(fs, who, at)) /\ Cardinality(B) \in Nat /\ Cardinality(Buys(fs, who, at)) \in Nat
  BY <1>6, <1>7, <1>2, FS_Subset, FS_CardinalityType
<1>9. Cardinality(B) >= ClusterSize
  BY DEF B
<1> QED BY <1>1, <1>5, <1>8, <1>9 DEF at, B

\* The cluster before a row was found by then.
FoundAt(row, who) ==
  LET cluster == Buys(disclosed, who, 2 * row)
  IN  /\ Cardinality(cluster) >= ClusterSize
      /\ \A f \in cluster : f.at - f.done <= 2 * MinHistory - ClusterWindow
      => \E b \in anchors : b.who = who /\ b.at = KnownAt(cluster)

\* What a scan adds.
LEMMA ScanFinds ==
  ASSUME StudyInv, Scan
  PROVE  /\ anchors \subseteq anchors'
         /\ \A e \in DetectEvents(2 * scan) :
              \E a \in anchors' : a.who = e.who /\ a.kind = e.kind /\ a.at = e.at
         /\ \A a \in anchors' \ anchors :
              \E e \in DetectEvents(2 * scan) :
                ~Seen(e) /\ a = [who |-> e.who, kind |-> e.kind, at |-> e.at, found |-> 2 * scan]
<1> DEFINE New == {[who |-> e.who, kind |-> e.kind, at |-> e.at, found |-> 2 * scan] :
                     e \in {d \in DetectEvents(2 * scan) : ~Seen(d)}}
<1>1. anchors' = anchors \cup New
  BY DEF Scan
<1>2. ASSUME NEW e \in DetectEvents(2 * scan)
      PROVE  \E a \in anchors' : a.who = e.who /\ a.kind = e.kind /\ a.at = e.at
  <2>1. CASE Seen(e)
    <3>1. \E a \in anchors : a.who = e.who /\ a.kind = e.kind /\ a.at = e.at
      BY <2>1 DEF Seen
    <3>2. anchors \subseteq anchors'
      BY <1>1
    <3> QED BY <3>1, <3>2
  <2>2. CASE ~Seen(e)
    <3> DEFINE r == [who |-> e.who, kind |-> e.kind, at |-> e.at, found |-> 2 * scan]
    <3>1. r \in New
      BY <2>2
    <3>2. r.who = e.who /\ r.kind = e.kind /\ r.at = e.at
      OBVIOUS
    <3> HIDE DEF r, New
    <3> QED BY <1>1, <3>1, <3>2
  <2> QED BY <2>1, <2>2
<1> QED BY <1>1, <1>2

\* Each event found is of a name and kind, at a time before the scan.
LEMMA EventsAre ==
  ASSUME StudyInv, NEW t \in Nat, NEW e \in DetectEvents(t)
  PROVE  /\ e.who \in Listing /\ e.kind \in Kinds /\ e.at \in Nat /\ e.at <= t
         /\ e.kind = "insider_cluster_buy" => Cardinality(Buys(Filings, e.who, e.at)) >= ClusterSize
<1>1. CASE \E who \in {s \in Listing : Cardinality(Buys(Filings, s, t)) >= ClusterSize} :
             e = [who |-> who, kind |-> "insider_cluster_buy", at |-> KnownAt(Buys(Filings, who, t))]
  <2>1. PICK who \in Listing :
          /\ Cardinality(Buys(Filings, who, t)) >= ClusterSize
          /\ e = [who |-> who, kind |-> "insider_cluster_buy", at |-> KnownAt(Buys(Filings, who, t))]
    BY <1>1
  <2>2. Filings \in SUBSET disclosed
    BY FilingsAre
  <2>3. LET at == KnownAt(Buys(Filings, who, t))
        IN  at \in Nat /\ at <= t /\ Cardinality(Buys(Filings, who, at)) >= ClusterSize
    BY <2>1, <2>2, ClusterKnown
  <2> QED BY <2>1, <2>3 DEF Kinds
<1>2. CASE \E f \in {g \in Filings : g.kind = "leader" /\ g.at <= t} :
             e = [who |-> f.who, kind |-> "leadership_congress_trade", at |-> f.at]
  <2>1. PICK f \in Filings : f.at <= t /\ e = [who |-> f.who, kind |-> "leadership_congress_trade", at |-> f.at]
    BY <1>2
  <2>2. f.who \in Listing /\ f.at \in Nat
    BY FilingsAre
  <2> QED BY <2>1, <2>2 DEF Kinds
<1> QED BY <1>1, <1>2 DEF DetectEvents

\* A scan finds the clusters of its row that were disclosed soon enough to be loaded.
LEMMA ScanCovers ==
  ASSUME StudyInv, Scan, NEW row \in Nat, row = scan, NEW who \in Listing
  PROVE  FoundAt(row, who)'
<1> DEFINE cluster == Buys(disclosed, who, 2 * row)
<1>1. UNCHANGED <<disclosed, first, begun>> /\ scan \in 1 .. Panel
  BY DEF Scan
<1>2. /\ Panel \in Nat /\ ClusterWindow \in Nat /\ MinHistory \in Nat /\ first \in Nat /\ begun \in Nat
      /\ first + MinHistory <= begun /\ begun <= row
  <2>1. Panel \in Nat /\ ClusterWindow \in Nat /\ MinHistory \in Nat
    BY StudyAssumption
  <2>2. first \in Nat /\ scan # 0
    BY <1>1, <2>1 DEF StudyInv, Loaded
  <2> QED BY <2>1, <2>2 DEF StudyInv
<1>3. ASSUME Cardinality(cluster) >= ClusterSize,
             \A f \in cluster : f.at - f.done <= 2 * MinHistory - ClusterWindow
      PROVE  \E b \in anchors' : b.who = who /\ b.at = KnownAt(cluster)
  <2>1. \A f \in cluster : f \in Filings
    <3>1. ASSUME NEW f \in cluster
          PROVE  f \in Filings
      <4>1. f \in disclosed /\ f.at > 2 * row - ClusterWindow
        BY DEF Buys
      <4>2. f.at \in Nat /\ f.done \in Nat
        BY <4>1, FilingsAre
      <4>3. f.at - f.done <= 2 * MinHistory - ClusterWindow
        BY <1>3
      <4>4. f.done >= 2 * first
        BY <1>2, <4>1, <4>2, <4>3
      <4> QED BY <4>1, <4>4 DEF Filings
    <3> QED BY <3>1
  <2>2. cluster = Buys(Filings, who, 2 * row)
    <3>1. \A f \in Filings : f \in disclosed
      BY DEF Filings
    <3> QED BY <2>1, <3>1 DEF Buys
  <2> HIDE DEF cluster
  <2>3. [who |-> who, kind |-> "insider_cluster_buy", at |-> KnownAt(cluster)] \in DetectEvents(2 * row)
    BY <1>3, <2>2 DEF DetectEvents
  <2>4. \A e \in DetectEvents(2 * row) : \E a \in anchors' : a.who = e.who /\ a.at = e.at
    BY ScanFinds
  <2> QED BY <2>3, <2>4
<1>4. Buys(disclosed, who, 2 * row)' = cluster
  BY <1>1 DEF Buys
<1> HIDE DEF cluster
<1>5. KnownAt(Buys(disclosed, who, 2 * row))' = KnownAt(cluster)
  BY <1>4 DEF KnownAt
<1> QED BY <1>3, <1>4, <1>5 DEF FoundAt

\* Between two scans no row is due.
LEMMA NextScan ==
  ASSUME StudyInv, scan # 0, NEW q \in Nat, scan < q, q < scan + Step
  PROVE  (q - begun) % Step # 0
<1>1. Step \in Nat \ {0} /\ scan \in Nat /\ begun \in Nat /\ begun <= scan /\ (scan - begun) % Step = 0
  BY StudyAssumption DEF StudyInv
<1> DEFINE x == (scan - begun) \div Step
           y == (q - begun) \div Step
           m == (q - begun) % Step
<1>2. x \in Int /\ scan - begun = Step * x
  <2>1. scan - begun \in Int
    BY <1>1
  <2>2. x \in Int /\ scan - begun = Step * x + ((scan - begun) % Step)
    BY <1>1, <2>1, Division
  <2>3. Step * x \in Int
    BY <1>1, <2>2
  <2> HIDE DEF x
  <2> QED BY <1>1, <2>2, <2>3
<1>3. y \in Int /\ q - begun = Step * y + m
  <2>1. q - begun \in Int
    BY <1>1
  <2> QED BY <1>1, <2>1, Division
<1> HIDE DEF x, y, m
<1>4. ASSUME m = 0
      PROVE  FALSE
  <2>1. q - begun = Step * y /\ Step * y \in Int /\ Step * x \in Int
    <3>1. Step * y \in Int /\ Step * x \in Int
      BY <1>1, <1>2, <1>3
    <3> QED BY <1>1, <1>3, <1>4, <3>1
  <2>2. Step * y > Step * x
    BY <1>1, <1>2, <2>1
  <2>3. y > x
    BY <1>1, <1>2, <1>3, <2>2, Multiplied
  <2>4. Step * (x + 1) <= Step * y
    BY <1>1, <1>2, <1>3, <2>3, Multiplied
  <2>5. Step * (x + 1) = Step * x + Step
    BY <1>1, <1>2
  <2> QED BY <1>1, <1>2, <2>1, <2>4, <2>5
<1> QED BY <1>4 DEF m

-----------------------------------------------------------------------------
(* The study *)

\* Before the study there is nothing.
LEMMA StudyInitInv == StudyInit => StudyInv
<1> SUFFICES ASSUME StudyInit
             PROVE  StudyInv
  OBVIOUS
<1>1. Loaded /\ MaxPermutations \in Nat
  BY StudyAssumption DEF StudyInit, Loaded
<1>2. DOMAIN fake = {} /\ anchors = {} /\ disclosed = {} /\ scan = 0 /\ begun = 0 /\ gate = {}
      /\ tries = 0 /\ drawn = 0 /\ hits = 0
  BY DEF StudyInit
<1>3. begun .. (scan - 1) = {}
  BY <1>2
<1> QED BY <1>1, <1>2, <1>3 DEF StudyInv, AnchoredWhenKnowable

\* Loading the history finds nothing yet.
LEMMA CollectKeeps ==
  ASSUME StudyInv, Collect
  PROVE  StudyInv'
<1>1. /\ scan = 0 /\ disclosed' \in Disclosures
      /\ UNCHANGED <<anchors, fake, tries, drawn, hits, gate>>
  BY DEF Collect
<1>0. PICK b \in Lookbacks : \E bounds \in {StudyBounds(b), GateBounds(b)} :
        first' = bounds.first /\ begun' = bounds.scan /\ scan' = begun'
  BY DEF Collect
<1>2. PICK bounds \in {StudyBounds(b), GateBounds(b)} :
        first' = bounds.first /\ begun' = bounds.scan /\ scan' = begun'
  BY <1>0
<1>3. first' \in 1 .. Panel /\ begun' \in Nat /\ first' + MinHistory <= begun'
  BY <1>2, BoundsAre
<1>4. anchors = {} /\ DOMAIN fake = {}
  BY <1>1 DEF StudyInv
<1>5. scan' # 0 /\ begun' <= scan' /\ (scan' - begun') % Step = 0
  <2>1. first' \in Nat /\ first' >= 1 /\ MinHistory \in Nat /\ Step \in Nat \ {0}
    BY <1>3, StudyAssumption
  <2>2. scan' - begun' = 0 /\ 0 % Step = 0
    BY <1>2, <1>3, <2>1
  <2> QED BY <1>2, <1>3, <2>1, <2>2
<1>6. begun' .. (scan' - 1) = {}
  BY <1>2, <1>3
<1>7. AnchoredWhenKnowable'
  BY <1>1, <1>4, <1>6 DEF AnchoredWhenKnowable
<1> QED BY <1>1, <1>2, <1>3, <1>4, <1>5, <1>7 DEF StudyInv, Loaded

\* A scan keeps what earlier scans found and covers its own row.
LEMMA ScanKeeps ==
  ASSUME StudyInv, Scan
  PROVE  StudyInv'
<1>1. /\ scan \in 1 .. Panel /\ scan' = scan + Step
      /\ UNCHANGED <<disclosed, first, begun, fake, tries, drawn, hits, gate>>
  BY DEF Scan
<1>2. /\ Panel \in Nat /\ Step \in Nat \ {0} /\ scan \in Nat /\ scan # 0 /\ begun \in Nat /\ begun <= scan
      /\ first + MinHistory <= begun /\ first + MinHistory \in Int /\ (scan - begun) % Step = 0
      /\ 2 * scan \in Nat
  <2>1. Panel \in Nat /\ Step \in Nat \ {0} /\ MinHistory \in Nat /\ first \in 1 .. Panel
    BY StudyAssumption DEF StudyInv, Loaded
  <2>2. scan \in Nat /\ scan # 0
    BY <1>1, <2>1
  <2>3. begun \in Nat /\ begun <= scan /\ first + MinHistory <= begun /\ (scan - begun) % Step = 0
    BY <2>2 DEF StudyInv
  <2> QED BY <2>1, <2>2, <2>3
<1>3. Filings' = Filings /\ \A fs, who, t : Buys(fs, who, t)' = Buys(fs, who, t)
  BY <1>1 DEF Filings, Buys
<1>4. (scan' - begun') % Step = 0 /\ begun' <= scan'
  <2> DEFINE x == (scan - begun) \div Step
  <2>1. x \in Int /\ scan - begun = Step * x + ((scan - begun) % Step)
    <3>1. scan - begun \in Int
      BY <1>2
    <3> QED BY <1>2, <3>1, Division
  <2> HIDE DEF x
  <2>2. scan - begun = Step * x
    <3>1. Step * x \in Int
      BY <1>2, <2>1
    <3> QED BY <1>2, <2>1, <3>1
  <2>3. scan' - begun' = Step * (x + 1)
    BY <1>1, <1>2, <2>1, <2>2
  <2>4. (Step * (x + 1)) % Step = 0
    BY <1>2, <2>1
  <2> QED BY <1>1, <1>2, <2>3, <2>4
<1>5. ASSUME NEW a \in anchors'
      PROVE  /\ a \in [who : Listing, kind : Kinds, at : Nat, found : Nat] /\ a.at <= a.found
             /\ a.kind = "insider_cluster_buy" => Cardinality(Buys(Filings, a.who, a.at)) >= ClusterSize
  <2>1. CASE a \in anchors
    BY <2>1 DEF StudyInv, AnchoredWhenKnowable
  <2>2. CASE a \notin anchors
    <3>1. PICK e \in DetectEvents(2 * scan) : a = [who |-> e.who, kind |-> e.kind, at |-> e.at, found |-> 2 * scan]
      BY <2>2, ScanFinds
    <3>2. /\ e.who \in Listing /\ e.kind \in Kinds /\ e.at \in Nat /\ e.at <= 2 * scan
          /\ e.kind = "insider_cluster_buy" => Cardinality(Buys(Filings, e.who, e.at)) >= ClusterSize
      BY <1>2, EventsAre
    <3> QED BY <1>2, <3>1, <3>2
  <2> QED BY <2>1, <2>2
<1>6. ASSUME NEW a \in anchors', NEW b \in anchors', a.who = b.who, a.kind = b.kind, a.at = b.at
      PROVE  a = b
  <2>1. CASE a \in anchors /\ b \in anchors
    BY <1>6, <2>1 DEF StudyInv, AnchoredWhenKnowable
  <2>2. CASE a \notin anchors /\ b \notin anchors
    <3>1. /\ \E e \in DetectEvents(2 * scan) : a = [who |-> e.who, kind |-> e.kind, at |-> e.at, found |-> 2 * scan]
          /\ \E e \in DetectEvents(2 * scan) : b = [who |-> e.who, kind |-> e.kind, at |-> e.at, found |-> 2 * scan]
      BY <2>2, ScanFinds
    <3> QED BY <1>6, <3>1
  <2>3. CASE a \in anchors /\ b \notin anchors
    <3>1. PICK e \in DetectEvents(2 * scan) :
            ~Seen(e) /\ b = [who |-> e.who, kind |-> e.kind, at |-> e.at, found |-> 2 * scan]
      BY <2>3, ScanFinds
    <3> QED BY <1>6, <2>3, <3>1 DEF Seen
  <2>4. CASE a \notin anchors /\ b \in anchors
    <3>1. PICK e \in DetectEvents(2 * scan) :
            ~Seen(e) /\ a = [who |-> e.who, kind |-> e.kind, at |-> e.at, found |-> 2 * scan]
      BY <2>4, ScanFinds
    <3> QED BY <1>6, <2>4, <3>1 DEF Seen
  <2> QED BY <2>1, <2>2, <2>3, <2>4
<1>7. ASSUME NEW q \in begun' .. (scan' - 1), (q - begun') % Step = 0, NEW who \in Listing
      PROVE  FoundAt(q, who)'
  <2>1. q \in Nat /\ begun <= q /\ q < scan + Step /\ (q - begun) % Step = 0
    BY <1>1, <1>2, <1>7
  <2>2. CASE q < scan
    <3>1. q \in begun .. (scan - 1)
      BY <1>2, <2>1, <2>2
    <3>2. FoundAt(q, who)
      BY <2>1, <3>1 DEF StudyInv, AnchoredWhenKnowable, FoundAt
    <3>3. anchors \subseteq anchors'
      BY ScanFinds
    <3>4. Buys(disclosed, who, 2 * q)' = Buys(disclosed, who, 2 * q)
      BY <1>1 DEF Buys
    <3>5. KnownAt(Buys(disclosed, who, 2 * q))' = KnownAt(Buys(disclosed, who, 2 * q))
      BY <3>4 DEF KnownAt
    <3> QED BY <3>2, <3>3, <3>4, <3>5 DEF FoundAt
  <2>3. CASE q = scan
    BY <1>2, <2>3, ScanCovers
  <2>4. CASE scan < q
    BY <1>2, <2>1, <2>4, NextScan
  <2> QED BY <1>2, <2>1, <2>2, <2>3, <2>4
<1>8. AnchoredWhenKnowable'
  <2>1. \A row \in {q \in begun' .. (scan' - 1) : (q - begun') % Step = 0}, who \in Listing : FoundAt(row, who)'
    BY <1>7
  <2> QED BY <1>3, <1>5, <1>6, <2>1 DEF AnchoredWhenKnowable, FoundAt
<1>9. \A a \in DOMAIN fake' : a \in anchors' /\ fake'[a] \in (Low .. High)'
  <2>1. (Low .. High)' = Low .. High
    BY <1>1 DEF Low, High, Returns
  <2>2. anchors \subseteq anchors'
    BY ScanFinds
  <2> QED BY <1>1, <2>1, <2>2 DEF StudyInv
<1>10. scan' \in Nat /\ scan' # 0
  BY <1>1, <1>2
<1> QED BY <1>1, <1>2, <1>4, <1>5, <1>8, <1>9, <1>10 DEF StudyInv, Loaded

\* What the measuring leaves alone keeps the events as they are.
LEMMA SameEvents ==
  ASSUME UNCHANGED <<disclosed, first, begun, scan, anchors>>
  PROVE  /\ AnchoredWhenKnowable' = AnchoredWhenKnowable /\ Loaded' = Loaded
         /\ (Low .. High)' = Low .. High
<1>1. Filings' = Filings /\ \A fs, who, t : Buys(fs, who, t)' = Buys(fs, who, t)
  BY DEF Filings, Buys
<1>2. \A fs : KnownAt(fs)' = KnownAt(fs)
  BY DEF KnownAt
<1>3. AnchoredWhenKnowable' = AnchoredWhenKnowable
  BY <1>1, <1>2 DEF AnchoredWhenKnowable
<1> QED BY <1>3 DEF Loaded, Low, High, Returns

\* A re-anchoring counts at most itself.
LEMMA PermuteKeeps ==
  ASSUME StudyInv, NEW kind, Permute(kind)
  PROVE  StudyInv'
<1>1. /\ tries < MaxPermutations /\ tries' = tries + 1 /\ scan > Panel
      /\ fake' \in [EventsOf(kind) -> Low .. High]
      /\ UNCHANGED <<disclosed, first, begun, scan, anchors, gate>>
  BY DEF Permute
<1>2. \/ drawn' = drawn + 1 /\ hits' \in {hits, hits + 1}
      \/ drawn' = drawn /\ hits' = hits
  BY DEF Permute
<1>3. /\ {hits, drawn, tries} \subseteq Nat /\ hits <= drawn /\ drawn <= tries
      /\ MaxPermutations \in Nat /\ Panel \in Nat /\ scan \in Nat
  BY StudyAssumption DEF StudyInv
<1>4. {hits', drawn', tries'} \subseteq Nat /\ hits' <= drawn' /\ drawn' <= tries' /\ tries' <= MaxPermutations
  BY <1>1, <1>2, <1>3
<1>5. \A a \in DOMAIN fake' : a \in anchors' /\ fake'[a] \in (Low .. High)'
  BY <1>1, SameEvents DEF EventsOf
<1>6. scan' # 0
  BY <1>1, <1>3
<1> QED BY <1>1, <1>4, <1>5, <1>6, SameEvents DEF StudyInv

\* A verdict forgets the counts.
LEMMA VerdictKeeps ==
  ASSUME StudyInv, NEW kind \in Kinds, Verdict(kind)
  PROVE  StudyInv'
<1>1. /\ fake' = <<>> /\ tries' = 0 /\ drawn' = 0 /\ hits' = 0
      /\ UNCHANGED <<disclosed, first, begun, scan, anchors>>
  BY DEF Verdict
<1>2. gate' \in {gate, gate \cup {kind}}
  BY DEF Verdict
<1>3. DOMAIN fake' = {}
  BY <1>1
<1>4. gate' \subseteq Kinds /\ MaxPermutations \in Nat
  BY <1>2, StudyAssumption DEF StudyInv
<1>5. {hits', drawn', tries'} \subseteq Nat /\ hits' <= drawn' /\ drawn' <= tries' /\ tries' <= MaxPermutations
  BY <1>1, <1>4
<1> QED BY <1>1, <1>3, <1>4, <1>5, SameEvents DEF StudyInv

\* Every step of a study keeps the invariant.
LEMMA StudyStep ==
  ASSUME StudyInv, StudyNext \/ UNCHANGED studyVars
  PROVE  StudyInv'
<1>1. CASE UNCHANGED studyVars
  BY <1>1, SameEvents DEF StudyInv, studyVars
<1>2. CASE Collect
  BY <1>2, CollectKeeps
<1>3. CASE Scan
  BY <1>3, ScanKeeps
<1>4. CASE \E kind \in Kinds : Permute(kind)
  BY <1>4, PermuteKeeps
<1>5. CASE \E kind \in Kinds : Verdict(kind)
  BY <1>5, VerdictKeeps
<1> QED BY <1>1, <1>2, <1>3, <1>4, <1>5 DEF StudyNext

\* And the invariant has what is wanted of a study.
LEMMA StudyInvImplies ==
  ASSUME StudyInv
  PROVE  StudyTypeOK /\ AnchoredWhenKnowable /\ FairNull
<1>1. StudyTypeOK
  <2>1. begun \in 0 .. scan
    BY DEF StudyInv
  <2>2. first \in 1 .. Panel
    BY DEF StudyInv, Loaded
  <2> QED BY <2>1, <2>2 DEF StudyInv, StudyTypeOK
<1>2. FairNull
  <2> SUFFICES ASSUME NEW a \in DOMAIN fake
               PROVE  LET at == AnchorOf(fake[a])
                      IN  /\ BarsOf(a.who) = Returns => Measurable(a.who, at)
                          /\ \A when \in {at, a.at} : Measurable(a.who, when) =>
                               /\ Cardinality(EventRows(a.who, when)) = Post + 1
                               /\ Cardinality(EstimationRows(a.who, when)) = Estimation
                               /\ \A r \in EventRows(a.who, when) : r = Min(EventRows(a.who, when)) \/ 2 * r > when
                               /\ \A e \in EstimationRows(a.who, when), r \in EventRows(a.who, when) : e + Gap < r
    BY DEF FairNull
  <2> DEFINE at == AnchorOf(fake[a])
  <2>1. Loaded /\ a \in anchors /\ fake[a] \in Low .. High /\ a.at \in Nat
    BY DEF StudyInv
  <2>2. at \in Int
    BY <2>1, AnchorDated
  <2>3. BarsOf(a.who) = Returns => Measurable(a.who, at)
    BY <2>1, NullMeasurable
  <2>4. \A when \in {at, a.at} : when \in Int
    BY <2>1, <2>2
  <2> HIDE DEF at
  <2>5. \A when \in {at, a.at} : Measurable(a.who, when) =>
          /\ Cardinality(EventRows(a.who, when)) = Post + 1
          /\ Cardinality(EstimationRows(a.who, when)) = Estimation
          /\ \A r \in EventRows(a.who, when) : r = Min(EventRows(a.who, when)) \/ 2 * r > when
          /\ \A e \in EstimationRows(a.who, when), r \in EventRows(a.who, when) : e + Gap < r
    BY <2>1, <2>4, WindowsAre
  <2> QED BY <2>3, <2>5 DEF at
<1> QED BY <1>1, <1>2 DEF StudyInv

-----------------------------------------------------------------------------
(* Learning                                                                 *)

\* A panel that grows leaves no window short that was full.
LEMMA ElapsedStays ==
  ASSUME Index \subseteq Index', NEW t, Elapsed(t)
  PROVE  Elapsed(t)'
<1> DEFINE A == {d \in Index : Stamp(d) > t}
           B == {d \in Index' : Stamp(d) > t}
           wA == {d \in A : RankIn(A, d) <= Horizon}
           wB == {d \in B : RankIn(B, d) <= Horizon}
<1>1. Window(t) = wA /\ Window(t)' = wB
  BY DEF Window, RankIn
<1>2. A \subseteq B /\ B \in SUBSET Days
  BY DEF Index
<1>3. IsFiniteSet(Days) /\ Days \in SUBSET Int
  BY LearnAssumption, FS_Interval DEF Days
<1> HIDE DEF A, B
<1>4. A \in SUBSET Int /\ B \in SUBSET Int /\ IsFiniteSet(A) /\ IsFiniteSet(B)
  BY <1>2, <1>3, FS_Subset
<1>5. wA \in SUBSET A /\ Cardinality(wA) = Horizon
  BY <1>1 DEF Elapsed
<1> HIDE DEF wA
<1>6. Cardinality(wA) <= Cardinality(A) /\ Cardinality(A) <= Cardinality(B) /\ Cardinality(A) \in Nat /\ Cardinality(B) \in Nat
  BY <1>2, <1>4, <1>5, FS_Subset, FS_CardinalityType
<1>7. Horizon \in 0 .. Cardinality(B)
  BY <1>5, <1>6, LearnAssumption
<1>8. Cardinality(wB) = Horizon
  BY <1>4, <1>7, RankOnto
<1> HIDE DEF wB
<1> QED BY <1>1, <1>8 DEF Elapsed

\* What has been graded stays graded while bars are only added.
LEMMA GradedStays ==
  ASSUME \A b \in Bars : bar[b] # "none" => bar'[b] # "none",
         NEW models, preds \subseteq preds', \A p \in preds : p.name \in Universe
  PROVE  Graded(models, preds) \subseteq Graded(models, preds)'
<1>1. Index \subseteq Index'
  <2>1. \A n \in Universe, d \in Days : <<n, d>> \in Bars
    BY DEF Bars
  <2> QED BY <2>1 DEF Index
<1> SUFFICES ASSUME NEW p \in Graded(models, preds)
             PROVE  p \in Graded(models, preds)'
  OBVIOUS
<1>2. p \in preds /\ p.model \in models /\ Elapsed(p.at)
  BY DEF Graded
<1>3. PICK d \in Days : bar[<<p.name, d>>] # "none"
  BY DEF Graded
<1>4. Elapsed(p.at)'
  BY <1>1, <1>2, ElapsedStays
<1>5. bar'[<<p.name, d>>] # "none"
  <2>1. <<p.name, d>> \in Bars
    BY <1>2 DEF Bars
  <2> QED BY <1>3, <2>1
<1> QED BY <1>2, <1>4, <1>5 DEF Graded

\* A measurement rests on two grades of the composite.
LEMMA MeasuredTwice ==
  ASSUME NEW model, NEW logged, weighting' \in Weighting(model, logged)', logged \subseteq preds'
  PROVE  weighting' = "graded" => \E p, q \in Graded({"composite"}, preds)' : p # q
<1> SUFFICES ASSUME weighting' = "graded"
             PROVE  \E p, q \in Graded({"composite"}, preds)' : p # q
  OBVIOUS
<1>1. model = "composite" /\ MeasuredIC(model, logged)'
  BY DEF Weighting, ICWeighted, SignalIC
<1>2. PICK p \in Graded({model}, logged)', q \in Graded({model}, logged)' :
        Growth(p.name, p.at)'[1] * Growth(q.name, q.at)'[2] # Growth(q.name, q.at)'[1] * Growth(p.name, p.at)'[2]
  BY <1>1 DEF MeasuredIC, Differ
<1>3. p # q
  BY <1>2
<1>4. p \in Graded({"composite"}, preds)' /\ q \in Graded({"composite"}, preds)'
  BY <1>1, <1>2 DEF Graded
<1> QED BY <1>2, <1>3, <1>4

\* The clock and the rows have their types, and the weights their track record.
LearnRecord ==
  /\ LearnTypeOK
  /\ OwnTrackRecord

\* At first nothing is logged.
LEMMA LearnInitRecord == LearnInit => LearnRecord
<1> SUFFICES ASSUME LearnInit
             PROVE  LearnRecord
  OBVIOUS
<1>1. 0 \in 0 .. 2 * LastDay
  BY LearnAssumption
<1> QED BY <1>1 DEF LearnInit, LearnRecord, LearnTypeOK, OwnTrackRecord

\* Logging adds typed predictions and loses none.
LEMMA LoggedTyped ==
  ASSUME LearnTypeOK, NEW t \in 0 .. clock', clock \in 0 .. clock', clock' \in Nat, NEW model \in Scorers,
         NEW names \in SUBSET Universe, Log(t, model, names)
  PROVE  /\ preds \subseteq preds'
         /\ \A p \in preds' : p.at \in 0 .. clock' /\ p.model \in Scorers /\ p.name \in Universe
<1>1. preds' = preds \cup {[at |-> t, model |-> model, name |-> n] : n \in names}
  BY DEF Log
<1>2. \A p \in preds : p.at \in 0 .. clock' /\ p.model \in Scorers /\ p.name \in Universe
  <2>1. \A x \in 0 .. clock : x \in 0 .. clock'
    OBVIOUS
  <2> QED BY <2>1 DEF LearnTypeOK
<1>3. \A n \in names : LET p == [at |-> t, model |-> model, name |-> n]
                        IN  p.at \in 0 .. clock' /\ p.model \in Scorers /\ p.name \in Universe
  OBVIOUS
<1> QED BY <1>1, <1>2, <1>3

\* Ingesting adds bars and takes none away.
LEMMA IngestedTyped ==
  ASSUME LearnTypeOK, NEW today \in BOOLEAN, bar' = Ingested(today)
  PROVE  /\ bar' \in [Bars -> {"none", "forming", "final"}]
         /\ \A b \in Bars : bar[b] # "none" => bar'[b] # "none"
BY DEF Ingested, LearnTypeOK

\* A weighting has one of three sources.
LEMMA WeightingTyped ==
  ASSUME NEW model, NEW logged, weighting' \in Weighting(model, logged)'
  PROVE  weighting' \in {"graded", "offline", "none"}
BY DEF Weighting, ICWeighted, SignalIC

\* Every step of the loop keeps it.
LEMMA LearnRecordStep ==
  ASSUME LearnRecord, LearnNext \/ UNCHANGED learnVars
  PROVE  LearnRecord'
<1>1. LearnTypeOK /\ OwnTrackRecord /\ clock \in Nat /\ LastDay \in Nat
  BY LearnAssumption DEF LearnRecord, LearnTypeOK
<1>2. CASE Tick
  <2>1. clock' = clock + 1 /\ clock < 2 * LastDay /\ UNCHANGED <<bar, preds, weighting, mode>>
    BY <1>2 DEF Tick
  <2>2. clock' \in 0 .. 2 * LastDay /\ \A x \in 0 .. clock : x \in 0 .. clock'
    BY <1>1, <2>1
  <2>3. LearnTypeOK'
    BY <1>1, <2>1, <2>2 DEF LearnTypeOK
  <2>4. OwnTrackRecord'
    <3>1. \A b \in Bars : bar[b] # "none" => bar'[b] # "none"
      BY <2>1
    <3>2. Graded({"composite"}, preds) \subseteq Graded({"composite"}, preds)'
      BY <1>1, <2>1, <3>1, GradedStays DEF LearnTypeOK
    <3> QED BY <1>1, <2>1, <3>2 DEF OwnTrackRecord
  <2> QED BY <2>3, <2>4 DEF LearnRecord
<1>3. CASE DailyCycle
  <2>1. mode' = mode /\ clock' = clock
    BY <1>3 DEF DailyCycle
  <2>2. PICK today \in BOOLEAN : bar' = Ingested(today)
    BY <1>3 DEF DailyCycle
  <2>3. PICK model \in Scorers, names \in SUBSET Universe :
          /\ \E logged \in {preds} : weighting' \in Weighting(model, logged)'
          /\ Log(clock, model, names)
    BY <1>3 DEF DailyCycle
  <2>4. PICK logged \in {preds} : weighting' \in Weighting(model, logged)'
    BY <2>3
  <2>5. preds \subseteq preds' /\ \A p \in preds' : p.at \in 0 .. clock' /\ p.model \in Scorers /\ p.name \in Universe
    <3>1. clock \in 0 .. clock' /\ clock' \in Nat
      BY <1>1, <2>1
    <3> QED BY <1>1, <2>3, <3>1, LoggedTyped
  <2>6. OwnTrackRecord'
    BY <2>4, <2>5, MeasuredTwice DEF OwnTrackRecord
  <2>7. LearnTypeOK'
    BY <1>1, <2>1, <2>2, <2>4, <2>5, IngestedTyped, WeightingTyped DEF LearnTypeOK
  <2> QED BY <2>6, <2>7 DEF LearnRecord
<1>4. CASE GradingCommand \/ Backfill
  <2>1. UNCHANGED <<clock, preds, weighting, mode>>
    BY <1>4 DEF GradingCommand, Backfill
  <2>2. /\ bar' \in [Bars -> {"none", "forming", "final"}]
        /\ \A b \in Bars : bar[b] # "none" => bar'[b] # "none"
    <3>1. CASE GradingCommand
      BY <1>1, <3>1, IngestedTyped DEF GradingCommand
    <3>2. CASE Backfill
      BY <1>1, <3>2 DEF Backfill, LearnTypeOK
    <3> QED BY <1>4, <3>1, <3>2
  <2>3. LearnTypeOK'
    BY <1>1, <2>1, <2>2 DEF LearnTypeOK
  <2>4. OwnTrackRecord'
    <3>1. Graded({"composite"}, preds) \subseteq Graded({"composite"}, preds)'
      BY <1>1, <2>1, <2>2, GradedStays DEF LearnTypeOK
    <3> QED BY <1>1, <2>1, <3>1 DEF OwnTrackRecord
  <2> QED BY <2>3, <2>4 DEF LearnRecord
<1>5. CASE ReplayStep
  <2>1. PICK d \in Days : /\ Stamp(d) > clock /\ clock' = Stamp(d) /\ bar' = Reveal(Stamp(d))
                          /\ \E logged \in {preds} : weighting' \in Weighting("composite", logged)'
                          /\ \E names \in SUBSET Universe : Log(Stamp(d), "composite", names)
    BY <1>5 DEF ReplayStep
  <2>2. PICK logged \in {preds} : weighting' \in Weighting("composite", logged)'
    BY <2>1
  <2>3. PICK names \in SUBSET Universe : Log(Stamp(d), "composite", names)
    BY <2>1
  <2>4. clock' \in 0 .. 2 * LastDay /\ clock' \in Nat /\ clock \in 0 .. clock' /\ Stamp(d) \in 0 .. clock'
    BY <1>1, <2>1 DEF Days, Stamp
  <2>5. preds \subseteq preds' /\ \A p \in preds' : p.at \in 0 .. clock' /\ p.model \in Scorers /\ p.name \in Universe
    BY <1>1, <2>3, <2>4, LoggedTyped, LearnAssumption
  <2>6. OwnTrackRecord'
    BY <2>2, <2>5, MeasuredTwice DEF OwnTrackRecord
  <2>7. bar' \in [Bars -> {"none", "forming", "final"}]
    BY <2>1 DEF Reveal
  <2>8. mode' \in {"live", "replay"}
    BY <1>5 DEF ReplayStep
  <2>9. LearnTypeOK'
    BY <2>2, <2>4, <2>5, <2>7, <2>8, WeightingTyped DEF LearnTypeOK
  <2> QED BY <2>6, <2>9 DEF LearnRecord
<1>6. CASE UNCHANGED learnVars
  <2>1. UNCHANGED <<clock, bar, preds, weighting, mode>>
    BY <1>6 DEF learnVars
  <2>2. LearnTypeOK'
    BY <1>1, <2>1 DEF LearnTypeOK
  <2>3. OwnTrackRecord'
    <3>1. \A b \in Bars : bar[b] # "none" => bar'[b] # "none"
      BY <2>1
    <3>2. Graded({"composite"}, preds) \subseteq Graded({"composite"}, preds)'
      BY <1>1, <2>1, <3>1, GradedStays DEF LearnTypeOK
    <3> QED BY <1>1, <2>1, <3>2 DEF OwnTrackRecord
  <2> QED BY <2>2, <2>3 DEF LearnRecord
<1> QED BY <1>2, <1>3, <1>4, <1>5, <1>6 DEF LearnNext

-----------------------------------------------------------------------------
(* Grades are final *)

\* The panel of the next state agrees with this one on its rows; new rows come after them.
LEMMA AppendedRows ==
  ASSUME Appended
  PROVE  /\ Index \subseteq Index'
         /\ \A d \in Index, n \in Universe : bar'[<<n, d>>] = bar[<<n, d>>]
         /\ \A d \in Index' \ Index, e \in Index : d > e
<1>1. \A d \in Days, n \in Universe : <<n, d>> \in Bars /\ <<n, d>>[2] = d
  BY DEF Bars
<1>2. Index \subseteq Days /\ Index' \subseteq Days
  BY DEF Index
<1>3. ASSUME NEW d \in Index, NEW n \in Universe
      PROVE  bar'[<<n, d>>] = bar[<<n, d>>]
  <2>1. d \in Int
    BY <1>2, LearnAssumption DEF Days
  <2>2. bar'[<<n, d>>] # bar[<<n, d>>] => d > d
    BY <1>1, <1>2 DEF Appended
  <2> QED BY <2>1, <2>2
<1>4. Index \subseteq Index'
  BY <1>2, <1>3 DEF Index
<1>5. ASSUME NEW d \in Index' \ Index, NEW e \in Index
      PROVE  d > e
  <2>1. PICK n \in Universe : bar'[<<n, d>>] # "none"
    BY DEF Index
  <2>2. bar[<<n, d>>] = "none"
    BY <1>2 DEF Index
  <2> QED BY <1>1, <1>2, <2>1, <2>2 DEF Appended
<1> QED BY <1>3, <1>4, <1>5

\* Bars appended behind the index leave an elapsed window as it was.
LEMMA SameWindow ==
  ASSUME Appended, NEW t, Elapsed(t)
  PROVE  Window(t)' = Window(t)
<1> DEFINE A == {d \in Index : Stamp(d) > t}
           B == {d \in Index' : Stamp(d) > t}
           wA == {d \in A : RankIn(A, d) <= Horizon}
           wB == {d \in B : RankIn(B, d) <= Horizon}
<1>1. Window(t) = wA /\ Window(t)' = wB /\ Cardinality(wA) = Horizon
  BY DEF Window, RankIn, Elapsed
<1>2. A \subseteq B /\ B \in SUBSET Days /\ \A d \in B \ A, e \in A : d > e
  BY AppendedRows DEF Index
<1>3. IsFiniteSet(Days) /\ Days \in SUBSET Int /\ Horizon \in Nat
  BY LearnAssumption, FS_Interval DEF Days
<1> HIDE DEF A, B
<1>4. A \in SUBSET Int /\ B \in SUBSET Int /\ IsFiniteSet(A) /\ IsFiniteSet(B)
  BY <1>2, <1>3, FS_Subset
<1>5. \A d \in A : d \in Int
  BY <1>4
<1>6. \A d \in B : d \in Int
  BY <1>4
<1>7. ASSUME NEW d \in A
      PROVE  RankIn(B, d) = RankIn(A, d)
  <2>1. {e \in B : e <= d} = {e \in A : e <= d}
    <3>1. \A e \in B : e <= d => e \in A
      BY <1>2, <1>5, <1>6
    <3> QED BY <1>2, <3>1
  <2> QED BY <2>1 DEF RankIn
<1>8. ASSUME NEW d \in B \ A
      PROVE  RankIn(B, d) > Horizon
  <2>1. wA \subseteq A /\ IsFiniteSet(wA)
    BY <1>4, FS_Subset
  <2> HIDE DEF wA
  <2>2. IsFiniteSet(wA \cup {d}) /\ Cardinality(wA \cup {d}) = Horizon + 1
    BY <1>1, <2>1, FS_AddElement
  <2> DEFINE U == {e \in B : e <= d}
  <2>3. wA \cup {d} \in SUBSET U
    <3>1. \A e \in wA : e \in B /\ e <= d
      BY <1>2, <1>5, <1>6, <2>1
    <3>2. d <= d
      BY <1>6
    <3> QED BY <3>1, <3>2
  <2>4. IsFiniteSet(U)
    BY <1>4, FS_Subset
  <2>5. RankIn(B, d) = Cardinality(U)
    BY DEF RankIn
  <2> HIDE DEF U
  <2>6. Horizon + 1 <= Cardinality(U) /\ Cardinality(U) \in Nat
    BY <2>2, <2>3, <2>4, FS_Subset, FS_CardinalityType
  <2> QED BY <1>3, <2>5, <2>6
<1>9. ASSUME NEW d \in B \ A
      PROVE  ~(RankIn(B, d) <= Horizon)
  <2>1. RankIn(B, d) \in Int
    BY <1>4, RankGrows
  <2> QED BY <1>3, <1>8, <2>1
<1>10. wB = wA
  BY <1>2, <1>7, <1>9
<1> QED BY <1>1, <1>10

\* And so the outcome measured over it.
LEMMA SameOutcome ==
  ASSUME Appended, NEW n \in Universe, NEW t, Elapsed(t)
  PROVE  Won(n, t)' = Won(n, t)
<1> DEFINE R == Index
           Q == Index'
           has == {d \in R : bar[<<n, d>>] # "none"}
           hasQ == {d \in Q : bar'[<<n, d>>] # "none"}
           prior(d) == Max({e \in R : e < d})
           priorQ(d) == Max({e \in Q : e < d})
           kept == {d \in Window(t) : d # Min(R) /\ {d, prior(d)} \subseteq has}
           keptQ == {d \in Window(t) : d # Min(Q) /\ {d, priorQ(d)} \subseteq hasQ}
           mark(d) == IF bar[<<n, d>>] = "final" THEN Close[<<n, d>>] ELSE Forming[<<n, d>>]
           markQ(d) == IF bar'[<<n, d>>] = "final" THEN Close[<<n, d>>] ELSE Forming[<<n, d>>]
<1>1. Won(n, t) = (Compounded([d \in kept |-> mark(d)]) > Compounded([d \in kept |-> mark(prior(d))]))
  BY DEF Won, Growth, Price
<1>2. Won(n, t)' = (Compounded([d \in keptQ |-> markQ(d)]) > Compounded([d \in keptQ |-> markQ(priorQ(d))]))
  BY SameWindow DEF Won, Growth, Price
<1>3. /\ R \subseteq Q /\ \A d \in Q \ R, e \in R : d > e
      /\ \A d \in R : bar'[<<n, d>>] = bar[<<n, d>>]
  BY AppendedRows
<1>4. Q \in SUBSET Days /\ Window(t) \subseteq R /\ \A d \in Q : d \in Nat
  BY LearnAssumption DEF Index, Window, Days
<1> HIDE DEF R, Q
<1>5. ASSUME NEW d \in R
      PROVE  priorQ(d) = prior(d) /\ markQ(d) = mark(d) /\ (d \in hasQ <=> d \in has)
  <2>1. {e \in Q : e < d} = {e \in R : e < d}
    <3>1. \A e \in Q : e < d => e \in R
      BY <1>3, <1>4
    <3> QED BY <1>3, <3>1
  <2> QED BY <1>3, <2>1
<1>6. ASSUME R # {}
      PROVE  Min(Q) = Min(R) /\ Min(R) \in R /\ \A y \in R : Min(R) <= y
  <2>1. R \in SUBSET Nat /\ Q \in SUBSET Nat /\ Q # {}
    BY <1>3, <1>4, <1>6
  <2>2. Min(R) \in R /\ (\A y \in R : Min(R) <= y) /\ Min(Q) \in Q /\ \A y \in Q : Min(Q) <= y
    BY <1>6, <2>1, MinIn
  <2>3. Min(Q) <= Min(R) /\ Min(R) <= Min(Q)
    <3>1. CASE Min(Q) \in R
      BY <1>3, <2>2, <3>1
    <3>2. CASE Min(Q) \notin R
      <4>1. Min(Q) > Min(R)
        BY <1>3, <2>2, <3>2
      <4>2. Min(Q) <= Min(R) /\ Min(Q) \in Nat /\ Min(R) \in Nat
        BY <1>3, <1>4, <2>2
      <4> QED BY <4>1, <4>2
    <3> QED BY <3>1, <3>2
  <2>4. Min(Q) \in Nat /\ Min(R) \in Nat
    BY <1>3, <1>4, <2>2
  <2> QED BY <2>2, <2>3, <2>4
<1>7. ASSUME NEW d \in Window(t), d # Min(R)
      PROVE  prior(d) \in R
  <2> DEFINE S == {e \in R : e < d}
  <2>1. d \in R /\ Min(R) \in R /\ Min(R) <= d
    BY <1>4, <1>6
  <2>2. Min(R) < d
    BY <1>3, <1>4, <1>7, <2>1
  <2>3. S # {} /\ S \in SUBSET (1 .. LastDay)
    BY <1>3, <1>4, <2>1, <2>2 DEF Days
  <2> HIDE DEF S
  <2>4. Max(S) \in S
    BY <2>3, MaxIn, LearnAssumption
  <2> QED BY <2>4 DEF S
<1>8. keptQ = kept
  <2>1. ASSUME NEW d \in Window(t)
        PROVE  d \in keptQ <=> d \in kept
    <3>1. d \in R /\ R # {} /\ Min(Q) = Min(R)
      BY <1>4, <1>6
    <3>2. CASE d = Min(R)
      BY <3>1, <3>2
    <3>3. CASE d # Min(R)
      <4>1. prior(d) \in R /\ priorQ(d) = prior(d)
        BY <1>5, <1>7, <3>1, <3>3
      <4>2. (d \in hasQ <=> d \in has) /\ (prior(d) \in hasQ <=> prior(d) \in has)
        BY <1>5, <3>1, <4>1
      <4> HIDE DEF has, hasQ, prior, priorQ
      <4> QED BY <3>1, <4>1, <4>2
    <3> QED BY <3>2, <3>3
  <2> QED BY <2>1
<1>9. \A d \in kept : /\ markQ(d) = mark(d)
                      /\ markQ(priorQ(d)) = mark(prior(d))
  <2> SUFFICES ASSUME NEW d \in kept
               PROVE  markQ(d) = mark(d) /\ markQ(priorQ(d)) = mark(prior(d))
    OBVIOUS
  <2>1. d \in R /\ prior(d) \in R
    BY <1>4, <1>7
  <2> HIDE DEF mark, markQ, prior, priorQ, kept
  <2> QED BY <1>5, <2>1
<1>10. /\ [d \in keptQ |-> markQ(d)] = [d \in kept |-> mark(d)]
       /\ [d \in keptQ |-> markQ(priorQ(d))] = [d \in kept |-> mark(prior(d))]
  <2> HIDE DEF mark, markQ, prior, priorQ, kept, keptQ
  <2> QED BY <1>8, <1>9
<1> QED BY <1>1, <1>2, <1>10

\* So no grade of the journal changes.
LEMMA JournalKept ==
  ASSUME LearnTypeOK, Appended, preds \subseteq preds', NEW model
  PROVE  Journal(model) \subseteq Journal(model)'
<1>1. \A b \in Bars : bar[b] # "none" => bar'[b] # "none"
  <2> SUFFICES ASSUME NEW b \in Bars, bar[b] # "none"
               PROVE  bar'[b] # "none"
    OBVIOUS
  <2>1. PICK n \in Universe, d \in Days : b = <<n, d>>
    BY DEF Bars
  <2>2. d \in Index
    BY <2>1 DEF Index
  <2> QED BY <2>1, <2>2, AppendedRows
<1>2. Graded({model}, preds) \subseteq Graded({model}, preds)'
  BY <1>1, GradedStays DEF LearnTypeOK
<1>3. ASSUME NEW p \in Graded({model}, preds)
      PROVE  Won(p.name, p.at)' = Won(p.name, p.at)
  <2>1. p \in preds /\ Elapsed(p.at)
    BY DEF Graded
  <2>2. p.name \in Universe
    BY <2>1 DEF LearnTypeOK
  <2> QED BY <2>1, <2>2, SameOutcome
<1> QED BY <1>2, <1>3 DEF Journal

\* No step forgets a prediction.
LEMMA PredictionsKept ==
  ASSUME LearnNext \/ UNCHANGED learnVars
  PROVE  preds \subseteq preds'
BY DEF LearnNext, learnVars, Tick, DailyCycle, GradingCommand, Backfill, ReplayStep, Log
=============================================================================
