------------------------------- MODULE Sizing -------------------------------
(***************************************************************************)
(* The sizers that the daily book, the backtest and the replay share       *)
(* (portfolio/sizing.py, cycle.py, strategies.py): raw weights over a set  *)
(* of names, and the volatility governor.  Volatilities are abstracted to  *)
(* the governor's factor, target over estimate.                            *)
(***************************************************************************)
EXTENDS Risk

Weigh(S, lean) ==
  IF S = {} THEN NoBook
  ELSE [n |-> [s \in Names |-> IF s \in S THEN lean[s] ELSE 0],
        d |-> SumFunctionOnSet(lean, S)]

Only(w, S) == [w EXCEPT !.n = [s \in Names |-> IF s \in S THEN w.n[s] ELSE 0]]

\* Names without a clean history drop out; with fewer than two left nothing is governed.
VolTarget(w, clean, f, maxGross) ==
  IF Cardinality(In(w) \cap clean) < 2 THEN w
  ELSE CapGross(Scale(Only(w, clean), Names, f[1], f[2]), Names, maxGross)

\* The whole set, renormalised over the governable names.
SizeBook(S, lean, clean, f) ==
  IF Cardinality(S \cap clean) < 2 THEN Weigh(S, lean)
  ELSE Scale(Weigh(S \cap clean, lean), Names, f[1], f[2])
=============================================================================
