---------------------------- MODULE PaperBroker -----------------------------
(***************************************************************************)
(* The in-memory broker of tests and dry runs (execution/paper_broker.py): *)
(* market orders and marketable limits fill whole and at once, other       *)
(* limits rest, and an id seen before is answered with what became of it.  *)
(* Average prices are exact fractions.                                     *)
(***************************************************************************)
EXTENDS Integers, FiniteSetsExt, Functions, TLC

CONSTANTS
  Listed,  \* symbols
  Ids,     \* client order ids; bound: the orders modelled
  Prices,  \* prices set; 0 is a name without one
  Shares,  \* order sizes
  Opening  \* starting cash

ASSUME PaperAssumption ==
  IsFiniteSet(Listed) /\ 0 \in Prices /\ Prices \subseteq Nat /\ Shares \subseteq Nat /\ Opening \in Int

VARIABLES quote, funds, lots, book

paperVars == <<quote, funds, lots, book>>

Abs(x) == IF x < 0 THEN -x ELSE x
Flat == [qty |-> 0, n |-> 0, d |-> 1]
Status == {"rejected", "accepted", "filled", "cancelled"}
Orders == [id : Ids, sym : Listed, buy : BOOLEAN, qty : Shares, limit : Prices]
Entry == [order : Orders, status : Status, price : Int]

\* limit 0 is a market order.
Marketable(o) ==
  o.limit = 0 \/ IF o.buy THEN quote[o.sym] <= o.limit ELSE quote[o.sym] >= o.limit

Outcome(o) ==
  CASE quote[o.sym] = 0 -> "rejected"
    [] quote[o.sym] # 0 /\ ~Marketable(o) -> "accepted"
    [] OTHER -> "filled"

FillPrice(o) == IF o.limit = 0 THEN quote[o.sym] ELSE o.limit
Signed(o) == IF o.buy THEN o.qty ELSE -o.qty

\* Mutant: a flip through zero keeps the old average.
StickyAverage(lot, q, price) ==
  LET left == lot.qty + q
  IN  CASE left = 0 -> Flat
        [] left # 0 /\ lot.qty * q >= 0 ->
             [qty |-> left, n |-> lot.n * lot.qty + price * q * lot.d, d |-> lot.d * left]
        [] OTHER -> [qty |-> left, n |-> lot.n, d |-> lot.d]

\* Adding averages in; reducing keeps the average; going through zero starts anew.
ApplyFill(lot, q, price) ==
  LET left == lot.qty + q
  IN  CASE left = 0 -> Flat
        [] left # 0 /\ lot.qty * q >= 0 ->
             [qty |-> left, n |-> lot.n * lot.qty + price * q * lot.d, d |-> lot.d * left]
        [] left * lot.qty < 0 -> [qty |-> left, n |-> price, d |-> 1]
        [] OTHER -> [qty |-> left, n |-> lot.n, d |-> lot.d]

PaperInit ==
  /\ quote = [s \in Listed |-> 0]
  /\ funds = Opening
  /\ lots = [s \in Listed |-> Flat]
  /\ book = << >>

SetPrice ==
  /\ \E s \in Listed, p \in Prices \ {0} : quote' = [quote EXCEPT ![s] = p]
  /\ UNCHANGED <<funds, lots, book>>

Remember(o) ==
  book' = [i \in DOMAIN book \cup {o.id} |->
             IF i = o.id THEN [order |-> o, status |-> Outcome(o), price |-> FillPrice(o)] ELSE book[i]]

Settle(o) ==
  IF Outcome(o) = "filled"
  THEN /\ lots' = [lots EXCEPT ![o.sym] = ApplyFill(@, Signed(o), FillPrice(o))]
       /\ funds' = funds - Signed(o) * FillPrice(o)
  ELSE UNCHANGED <<funds, lots>>

\* Mutant: an id seen before is executed again.
SubmitAgain ==
  \E o \in Orders : Remember(o) /\ Settle(o) /\ UNCHANGED quote

Submit ==
  \E o \in Orders :
    /\ o.id \notin DOMAIN book  \* one seen before is only answered
    /\ Remember(o) /\ Settle(o)
    /\ UNCHANGED quote

CancelOrder ==
  /\ \E i \in DOMAIN book :
       /\ book[i].status = "accepted"
       /\ book' = [book EXCEPT ![i].status = "cancelled"]
  /\ UNCHANGED <<quote, funds, lots>>

PaperNext == SetPrice \/ Submit \/ CancelOrder

-----------------------------------------------------------------------------
PaperTypeOK ==
  /\ quote \in [Listed -> Prices] /\ funds \in Int
  /\ lots \in [Listed -> [qty : Int, n : Int, d : Int \ {0}]]
  /\ IsFiniteSet(DOMAIN book) /\ book \in [DOMAIN book -> Entry]
  /\ \A i \in DOMAIN book : book[i].order.id = i

Filled == {i \in DOMAIN book : book[i].status = "filled"}
FilledOf(s) == {i \in Filled : book[i].order.sym = s}
Moved == [i \in DOMAIN book |-> Signed(book[i].order)]
Paid == [i \in DOMAIN book |-> Moved[i] * book[i].price]

\* The account is what the filled orders make it, each counted once, however often an id is
\* sent: no order fills twice, none after it was cancelled or refused (paper_broker.py:32).
FillsExplainAccount ==
  /\ \A s \in Listed : lots[s].qty = SumFunctionOnSet(Moved, FilledOf(s))
  /\ funds = Opening - SumFunctionOnSet(Paid, Filled)

\* A fill of q shares at a price changes cash plus the cost of the position only by the
\* profit on the shares it closes, against their average: averaging in, reducing, closing
\* and going through zero all keep the books (paper_broker.py:62, _apply_fill).
FillBalances(old, new, paid) ==
  LET q == new.qty - old.qty
      closed == CASE old.qty * q >= 0 -> 0
                  [] old.qty * q < 0 /\ Abs(q) < Abs(old.qty) -> -q
                  [] OTHER -> old.qty
      profit == closed * (paid * old.d - old.n * q)  \* over q * old.d
  IN  (new.qty * new.n * old.d - old.qty * old.n * new.d - paid * old.d * new.d) * q = profit * new.d

BooksBalance ==
  [][\A s \in Listed : FillBalances(lots[s], lots'[s], funds - funds')]_paperVars
=============================================================================
