---------------------------- MODULE MCExecution -----------------------------
(***************************************************************************)
(* Instances of Execution for TLC.  Money is in units of half a dollar     *)
(* (Dollar = 2), so that one share at price 1 is dust.                     *)
(***************************************************************************)
EXTENDS Execution, TLC

CONSTANTS daily, intraday, a, b

Weights(wa, wb) == (a :> wa) @@ (b :> wb)

NothingReserved == [d \in Desk |-> {}]

\* Orders: two names, a book within the limits, one over the position limit,
\* and the empty selection that flattens whatever is held and priced.
OrderBooks == [d \in Desk |-> {Weights(2, 2), a :> 1, a :> 3, NoBook}]
OrderQuotes == {Weights(2, 2), Weights(3, 1), b :> 2}

\* Halts: one name, held or not, while the equity moves.
HaltBooks == [d \in Desk |-> {a :> 2, NoBook}]
OneQuote == {a :> 2}

\* The disagreements: one name bought, or bought and trimmed.
OneBook == [d \in Desk |-> {a :> 2}]
TrimBooks == [d \in Desk |-> {a :> 1, a :> 2}]
=============================================================================
