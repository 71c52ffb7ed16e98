------------------------------- MODULE Broker -------------------------------
(***************************************************************************)
(* The broker account the engines trade on: execution/broker.py (the order *)
(* and position vocabulary) and the asynchronous venue behind              *)
(* execution/alpaca.py.  The venue itself is outside the repository; it is *)
(* modelled from how the adapter uses it.  An accepted order keeps working *)
(* and is filled, in parts and at any time, or dropped (expired, rejected  *)
(* late, cancelled).  Quantities are whole shares, the engine's default    *)
(* (settings.fractional_shares = False).                                   *)
(***************************************************************************)
EXTENDS Integers, FiniteSets, FiniteSetsExt, Functions

CONSTANTS
  Desk,            \* the threads that trade the account
  Symbol,          \* the names they trade
  MaxShares,       \* bound: the largest quantity an order is modelled with
  StampsPerSecond  \* how many as_of stamps share one second of an order id

ASSUME BrokerAssumption ==
  /\ MaxShares \in Nat \ {0}
  /\ StampsPerSecond \in Nat \ {0}

VARIABLES
  position,  \* shares held, per symbol (absent in the code = 0 here)
  orders     \* every order the venue ever took, with its progress

broker == <<position, orders>>

-----------------------------------------------------------------------------
Side == {"buy", "sell"}
Quantity == 1 .. MaxShares

\* OrderStatus as far as anything in the code tells the values apart: "working"
\* stands for new / submitted / accepted / partially_filled, "cancelling" for a
\* cancel the venue has taken but not carried out, "done" for a terminal status.
OrderStatus == {"working", "cancelling", "done"}

\* by and asOf are not fields of the code's Order: they name the pass that sent
\* it.  kind is the prefix of the client order id ("flat-" or none).
Kind == {"rebalance", "flatten"}

Order == [kind : Kind, by : Desk, asOf : Nat, sym : Symbol,
          side : Side, qty : Quantity, filled : 0 .. MaxShares,
          status : OrderStatus]

\* client_order_id: the prefix, as_of down to the second, the symbol.
ClientOrderId(o) == <<o.kind, o.asOf \div StampsPerSecond, o.sym>>

Signed(side, n) == IF side = "buy" THEN n ELSE -n

IsOpen(o) == o.status # "done"
OpenOrders == {o \in orders : IsOpen(o)}
Remaining(o) == o.qty - o.filled

\* The signed shares of a set of orders still to be filled.
Shares(S) == SumFunctionOnSet([o \in S |-> Signed(o.side, Remaining(o))], S)

\* Those still working in symbol s: what get_open_orders adds up to.
Working(s) == Shares({o \in OpenOrders : o.sym = s})

\* Shares held once everything that is working has filled.
Effective(s) == position[s] + Working(s)

NewOrder(kind, d, t, s, side, n) ==
  [kind |-> kind, by |-> d, asOf |-> t, sym |-> s, side |-> side, qty |-> n,
   filled |-> 0, status |-> "working"]

\* A client order id the venue has seen is refused (HTTP 422, a BrokerError).
IsDuplicate(o) == \E p \in orders : ClientOrderId(p) = ClientOrderId(o)

Take(o) == orders' = orders \cup {o}

\* DELETE /v2/orders/{id}: the venue takes the request and acts on it later.
RequestCancel(o) ==
  orders' = (orders \ {o}) \cup {[o EXCEPT !.status = "cancelling"]}

-----------------------------------------------------------------------------
\* The venue's own steps.

Fill(o, n) ==
  /\ IsOpen(o)
  /\ n <= Remaining(o)
  /\ position' = [position EXCEPT ![o.sym] = @ + Signed(o.side, n)]
  /\ orders' = (orders \ {o}) \cup
       {[o EXCEPT !.filled = @ + n,
                  !.status = IF o.filled + n = o.qty THEN "done" ELSE @]}

Drop(o) ==
  /\ IsOpen(o)
  /\ orders' = (orders \ {o}) \cup {[o EXCEPT !.status = "done"]}
  /\ UNCHANGED position

BrokerInit ==
  /\ position = [s \in Symbol |-> 0]
  /\ orders = {}

BrokerTypeOK ==
  /\ position \in [Symbol -> Int]
  /\ orders \subseteq Order
=============================================================================
