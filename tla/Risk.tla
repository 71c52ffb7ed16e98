-------------------------------- MODULE Risk --------------------------------
(***************************************************************************)
(* The hard limits every target book passes through (portfolio/risk.py).   *)
(* A book is a weight per name over one common denominator; a limit is a   *)
(* fraction.  Arithmetic is exact, so the 1e-9 tolerances are zero.        *)
(***************************************************************************)
EXTENDS Integers, FiniteSetsExt, Functions

CONSTANTS
  Names,    \* the symbols
  Sectors,  \* the classes of the sector map, disjoint sets of names
  Limits    \* RiskLimits: name, gross, net, sector

Ratio == Nat \X (Nat \ {0})

ASSUME RiskAssumption ==
  /\ IsFiniteSet(Names) /\ IsFiniteSet(Sectors) /\ Sectors \subseteq SUBSET Names
  /\ Limits \in [name : Ratio, gross : Ratio, net : Ratio, sector : Ratio]

Least(a, b) == IF a < b THEN a ELSE b
Greatest(a, b) == IF a < b THEN b ELSE a
Size(x) == IF x < 0 THEN -x ELSE x

NoBook == [n |-> [s \in Names |-> 0], d |-> 1]
In(w) == {s \in Names : w.n[s] # 0}

\* A book in lowest terms.
Common(w) ==
  {k \in 1 .. Min({w.d} \cup {Size(w.n[s]) : s \in In(w)}) :
     w.d % k = 0 /\ \A s \in In(w) : w.n[s] % k = 0}

Lowest(w) ==
  LET g == Max(Common(w))
  IN  [n |-> [s \in Names |-> w.n[s] \div g], d |-> w.d \div g]

Sizes(w) == [s \in Names |-> Size(w.n[s])]
Gross(w, S) == SumFunctionOnSet(Sizes(w), S)
Net(w) == SumFunctionOnSet(w.n, Names)

Exceeds(x, d, cap) == x * cap[2] > cap[1] * d

\* The weights of S times a/b.
Scale(w, S, a, b) ==
  Lowest([n |-> [s \in Names |-> w.n[s] * (IF s \in S THEN a ELSE b)], d |-> w.d * b])

Clip(w, cap) ==
  LET bound == cap[1] * w.d
  IN  Lowest([n |-> [s \in Names |-> Greatest(-bound, Least(bound, w.n[s] * cap[2]))],
              d |-> w.d * cap[2]])

CapGross(w, S, cap) ==
  IF Exceeds(Gross(w, S), w.d, cap)
  THEN Scale(w, S, cap[1] * w.d, cap[2] * Gross(w, S))
  ELSE w

\* The dominant side gives up the excess: its gross D becomes D - (|net| - cap).
CapNet(w, cap) ==
  LET side == {s \in Names : w.n[s] * Net(w) > 0}
      D == Gross(w, side)
  IN  IF Exceeds(Size(Net(w)), w.d, cap)
      THEN Scale(w, side, (D - Size(Net(w))) * cap[2] + cap[1] * w.d, D * cap[2])
      ELSE w

CapSectors(w, sectors) == FoldSet(LAMBDA S, v : CapGross(v, S, Limits.sector), w, sectors)

\* Mutant: the net cap first, as if the sector cap could not unbalance the book.
NetFirst(w, sectors) ==
  CapSectors(CapGross(CapNet(Clip(w, Limits.name), Limits.net), Names, Limits.gross), sectors)

ApplyRiskLimits(w, sectors) ==
  CapNet(CapSectors(CapGross(Clip(w, Limits.name), Names, Limits.gross), sectors), Limits.net)

\* What the engine asks of the target before it plans an order.
CheckOrder(w) ==
  /\ \A s \in Names : ~Exceeds(Size(w.n[s]), w.d, Limits.name)
  /\ ~Exceeds(Gross(w, Names), w.d, Limits.gross)
  /\ ~Exceeds(Size(Net(w)), w.d, Limits.net)
=============================================================================
