----------------------------- MODULE Execution ------------------------------
(***************************************************************************)
(* execution/engine.py with the guardrails and the drawdown governor it    *)
(* owns (execution/guardrails.py, portfolio/risk.py), and the part of      *)
(* runtime/cycle.py that builds an engine and calls it.  A desk is one of  *)
(* the trading threads of `serve`; one pass of a desk prices a book, builds*)
(* a fresh engine, and rebalances the shared broker account.  Every broker *)
(* or store call of a pass is a step of its own, so desks, fills, market   *)
(* moves and crashes interleave between any two of them.                   *)
(***************************************************************************)
EXTENDS Broker

CONSTANTS
  Audited,      \* desks whose engine is given audit_store (cycle.py:408)
  CancelsStale, \* desks that pass cancel_stale_orders=True (cycle.py:587)
  ManagesHeld,  \* desks that flatten what left their selection (run_paper_cycle)
  CanFlatten,   \* desks whose engine someone calls halt_and_flatten on
  Reserved,     \* Reserved[d]: the names desk d leaves to another desk
  Book,         \* Book[d]: the target books (partial maps Symbol -> weight)
  Quotes,       \* the price maps a pass may see (no price: not in DOMAIN)
  EquityLevel,  \* the account equities the market can produce
  WeightUnit,   \* a weight w stands for the fraction w / WeightUnit
  MaxPositionWeight, MaxGross, MaxNet,  \* RiskLimits, in the same unit
  Ceiling,      \* settings.capital_ceiling
  MaxDrawdown,  \* settings.max_drawdown_halt, in percent
  MaxDailyLoss, \* settings.max_daily_loss, in percent (0 = off)
  RebalanceBand,\* settings.rebalance_band, in percent (0 = off)
  RateCap,      \* settings.max_orders_per_interval
  MaxQty,       \* sanity_check_order's max_qty
  Dollar,       \* one dollar, in the units of the prices
  MaxPass       \* bound: the number of passes that may start

ASSUME ExecutionAssumption ==
  /\ Audited \subseteq Desk /\ CancelsStale \subseteq Desk
  /\ ManagesHeld \subseteq Desk /\ CanFlatten \subseteq Desk
  /\ Reserved \in [Desk -> SUBSET Symbol]
  /\ EquityLevel \subseteq Nat
  /\ \A d \in Desk : \A b \in Book[d] : DOMAIN b \subseteq Symbol /\ b \in [DOMAIN b -> Int]
  /\ \A q \in Quotes : q \in [DOMAIN q -> Nat]
  /\ WeightUnit \in Nat \ {0} /\ Ceiling \in Nat
  /\ MaxPass \in Nat
  /\ RateCap \in Nat

VARIABLES
  \* the world
  account,   \* what get_account reports: equity, and at the previous close
  armed,     \* assert_live_allowed passes, or the mode is paper
  clock,     \* the latest as_of handed out: utcnow() never repeats
  \* the durable store
  ddRows,    \* risk.drawdown_state rows
  audit,     \* execution.audit rows
  \* one pass of a desk
  pc, asOf, quote, want, todo,
  \* its engine
  reading,   \* the account it read
  peak, tripped, engaged,   \* breaker and kill switch
  seen,      \* the positions it read
  plan, sent, skipped,      \* orders still to submit, allow()s used, any skip
  \* the symbols whose effective holding its snapshot does not cover
  moved

world  == <<account, armed, clock>>
store  == <<ddRows, audit>>
input  == <<asOf, quote, want>>
governor == <<reading, peak, tripped, engaged>>
working == <<seen, plan, sent, skipped>>
vars == <<broker, world, store, pc, input, todo, governor, working, moved>>

-----------------------------------------------------------------------------
Stage == {"idle", "cancelling", "scoring", "building", "built", "flattening",
          "account", "saved", "positions", "submit", "sent"}

NoPeak == -1
NoBook == [s \in {} |-> 0]
Flat   == [s \in Symbol |-> 0]

Abs(n) == IF n < 0 THEN -n ELSE n
Larger(m, n) == IF m < n THEN n ELSE m
Smaller(m, n) == IF m < n THEN m ELSE n
SumOver(f(_), S) == MapThenSumSet(f, S)

\* equity / peak - 1 <= -MaxDrawdown, for a positive peak
Breaches(top, equity) ==
  top > 0 /\ 100 * equity <= (100 - MaxDrawdown) * top

\* equity / last_equity - 1 <= -MaxDailyLoss, when both sides are on
DailyLossHit(a) ==
  /\ MaxDailyLoss > 0 /\ a.last > 0
  /\ 100 * a.equity <= (100 - MaxDailyLoss) * a.last

\* check_order on every name of the book
WithinLimits(b) ==
  /\ \A s \in DOMAIN b : Abs(b[s]) <= MaxPositionWeight
  /\ SumOver(LAMBDA s : Abs(b[s]), DOMAIN b) <= MaxGross
  /\ Abs(SumOver(LAMBDA s : b[s], DOMAIN b)) <= MaxNet

-----------------------------------------------------------------------------
(* Planning: the order a book asks for in symbol s, given the holding cur    *)
(* the engine counts there.  Quantities are compared times TargetDen, so the *)
(* fractional target weight * deployable / price stays exact.                *)

Deployable(d) == Smaller(reading[d].equity, Ceiling)
TargetNum(d, s) == want[d][s] * Deployable(d)
TargetDen(d, s) == WeightUnit * quote[d][s]
Gap(d, s, cur) == TargetNum(d, s) - cur * TargetDen(d, s)

InBand(d, s, cur) ==
  /\ RebalanceBand > 0 /\ cur # 0 /\ TargetNum(d, s) # 0
  /\ 100 * Abs(Gap(d, s, cur)) < RebalanceBand * Abs(TargetNum(d, s))

Tradable(d) == {s \in DOMAIN want[d] \cap DOMAIN quote[d] : quote[d][s] > 0}

Planned(d, cur) ==
  {p \in [sym : Symbol, side : Side, qty : Quantity] :
     /\ p.sym \in Tradable(d)
     /\ ~InBand(d, p.sym, cur[p.sym])
     /\ p.side = (IF Gap(d, p.sym, cur[p.sym]) > 0 THEN "buy" ELSE "sell")
     /\ p.qty = Abs(Gap(d, p.sym, cur[p.sym])) \div TargetDen(d, p.sym)
     /\ p.qty * quote[d][p.sym] >= Dollar}

\* SELLs first; within a side, the book's own order, which the model leaves open.
NextPlanned(d) ==
  LET sells == {p \in plan[d] : p.side = "sell"}
  IN  IF sells # {} THEN sells ELSE plan[d]

AuditRow(d, s, event) == [asOf |-> asOf[d], sym |-> s, event |-> event]
Portfolio == "PORTFOLIO"

-----------------------------------------------------------------------------
\* A pass ends, by returning or by raising into the loop that called it: the
\* engine, its breaker, its kill switch and its rate limiter are garbage.
EndPass(d) ==
  /\ pc' = [pc EXCEPT ![d] = "idle"]
  /\ asOf' = [asOf EXCEPT ![d] = 0]
  /\ quote' = [quote EXCEPT ![d] = NoBook]
  /\ want' = [want EXCEPT ![d] = NoBook]
  /\ todo' = [todo EXCEPT ![d] = {}]
  /\ reading' = [reading EXCEPT ![d] = [equity |-> 0, last |-> 0]]
  /\ peak' = [peak EXCEPT ![d] = NoPeak]
  /\ tripped' = [tripped EXCEPT ![d] = FALSE]
  /\ engaged' = [engaged EXCEPT ![d] = FALSE]
  /\ seen' = [seen EXCEPT ![d] = Flat]
  /\ plan' = [plan EXCEPT ![d] = {}]
  /\ sent' = [sent EXCEPT ![d] = 0]
  /\ skipped' = [skipped EXCEPT ![d] = FALSE]
  /\ moved' = [moved EXCEPT ![d] = {}]

Goto(d, stage) == pc' = [pc EXCEPT ![d] = stage]

Init ==
  /\ BrokerInit
  /\ \E e \in EquityLevel : account = [equity |-> e, last |-> e]
  /\ armed \in BOOLEAN
  /\ clock = 0
  /\ ddRows = {} /\ audit = {}
  /\ pc = [d \in Desk |-> "idle"]
  /\ asOf = [d \in Desk |-> 0]
  /\ quote = [d \in Desk |-> NoBook]
  /\ want = [d \in Desk |-> NoBook]
  /\ todo = [d \in Desk |-> {}]
  /\ reading = [d \in Desk |-> [equity |-> 0, last |-> 0]]
  /\ peak = [d \in Desk |-> NoPeak]
  /\ tripped = [d \in Desk |-> FALSE]
  /\ engaged = [d \in Desk |-> FALSE]
  /\ seen = [d \in Desk |-> Flat]
  /\ plan = [d \in Desk |-> {}]
  /\ sent = [d \in Desk |-> 0]
  /\ skipped = [d \in Desk |-> FALSE]
  /\ moved = [d \in Desk |-> {}]

-----------------------------------------------------------------------------
(* The cycle around the engine: as_of and prices, stale orders, the book.    *)

\* as_of = utcnow() and the price map, of daily bars or of the minutes just ingested.
BeginPass(d) ==
  /\ clock' = clock + 1
  /\ asOf' = [asOf EXCEPT ![d] = clock + 1]
  /\ \E q \in Quotes : quote' = [quote EXCEPT ![d] = q]

\* A daily pass then lists its stale orders.
Start(d) ==
  /\ pc[d] = "idle" /\ clock < MaxPass
  /\ BeginPass(d)
  /\ IF d \in CancelsStale
     THEN /\ todo' = [todo EXCEPT ![d] =
                {ClientOrderId(o) : o \in {p \in OpenOrders :
                                             p.sym \notin Reserved[d]}}]
          /\ Goto(d, "cancelling")
     ELSE Goto(d, "scoring") /\ UNCHANGED todo
  /\ UNCHANGED <<broker, account, armed, store, want, governor, working, moved>>

\* cancel_order on one of them; one that is no longer cancellable raises
\* AlpacaError out of the cycle.
CancelStale(d) ==
  /\ pc[d] = "cancelling"
  /\ \E id \in todo[d] :
       \E o \in {p \in orders : ClientOrderId(p) = id} :
         IF o.status = "working"
         THEN /\ RequestCancel(o)
              /\ todo' = [todo EXCEPT ![d] = @ \ {id}]
              /\ UNCHANGED <<pc, input, governor, working, moved>>
         ELSE EndPass(d) /\ UNCHANGED orders
  /\ UNCHANGED <<position, world, store>>

\* Score, select, and give every held name that left the book an explicit 0 if
\* it has a price.  An empty target builds no engine at all.
Score(d) ==
  /\ \/ pc[d] = "scoring"
     \/ pc[d] = "cancelling" /\ todo[d] = {}
  /\ \E b \in Book[d] :
       LET held == IF d \in ManagesHeld
                   THEN {s \in Symbol \ Reserved[d] : position[s] # 0}
                   ELSE {}
           names == DOMAIN b \cup (held \cap DOMAIN quote[d])
       IN  IF names = {}
           THEN EndPass(d)
           ELSE /\ want' = [want EXCEPT ![d] =
                     [s \in names |-> IF s \in DOMAIN b THEN b[s] ELSE 0]]
                /\ Goto(d, "building")
                /\ UNCHANGED <<asOf, quote, todo, governor, working, moved>>
  /\ UNCHANGED <<broker, world, store>>

-----------------------------------------------------------------------------
(* The engine.                                                              *)

\* Mutants of Build: a breaker restored without its trip; one never restored.
BuildForgetsTrip(d) ==
  /\ pc[d] = "building"
  /\ Goto(d, "built")
  /\ peak' = [peak EXCEPT ![d] =
                Max({NoPeak} \cup {r.peak : r \in {q \in ddRows : d \in Audited}})]
  /\ UNCHANGED <<broker, world, store, input, todo, reading, tripped, engaged,
                 working, moved>>

BuildAfresh(d) ==
  /\ pc[d] = "building"
  /\ Goto(d, "built")
  /\ UNCHANGED <<broker, world, store, input, todo, governor, working, moved>>

\* ExecutionEngine.__init__: a fresh kill switch, breaker and rate limiter; the
\* breaker is seeded from the newest persisted row unless its peak is falsy.
Build(d) ==
  /\ pc[d] = "building"
  /\ Goto(d, "built")
  /\ IF d \in Audited /\ ddRows # {}
     THEN \E r \in ddRows :
            /\ \A q \in ddRows : q.asOf <= r.asOf
            /\ peak' = [peak EXCEPT ![d] = IF r.peak = 0 THEN NoPeak ELSE r.peak]
            /\ tripped' = [tripped EXCEPT ![d] = r.peak # 0 /\ r.tripped]
     ELSE /\ peak' = [peak EXCEPT ![d] = NoPeak]
          /\ tripped' = [tripped EXCEPT ![d] = FALSE]
  /\ UNCHANGED <<broker, world, store, input, todo, reading, engaged, working,
                 moved>>

\* The two refusals before the account is read.
Refuse(d) ==
  /\ pc[d] = "built"
  /\ ~armed \/ engaged[d]
  /\ EndPass(d)
  /\ UNCHANGED <<broker, world, store>>

\* get_account, then breaker.update
ReadAccount(d) ==
  /\ pc[d] = "built" /\ armed /\ ~engaged[d]
  /\ LET top == IF peak[d] = NoPeak THEN account.equity
                ELSE Larger(peak[d], account.equity)
     IN  /\ peak' = [peak EXCEPT ![d] = top]
         /\ tripped' = [tripped EXCEPT ![d] =
                          @ \/ Breaches(top, account.equity)]
  /\ reading' = [reading EXCEPT ![d] = account]
  /\ Goto(d, "account")
  /\ UNCHANGED <<broker, world, store, input, todo, engaged, working, moved>>

\* _save_drawdown_state: a row of its own per as_of, if there is a store
SaveState(d) ==
  /\ pc[d] = "account"
  /\ ddRows' = IF d \in Audited
               THEN {r \in ddRows : r.asOf # asOf[d]} \cup
                      {[asOf |-> asOf[d], peak |-> peak[d],
                        tripped |-> tripped[d]]}
               ELSE ddRows
  /\ Goto(d, "saved")
  /\ UNCHANGED <<broker, world, audit, input, todo, governor, working, moved>>

\* engage the kill switch of this engine, audit the halt, raise
Halt(d, reason) ==
  /\ audit' = IF d \in Audited
              THEN audit \cup {AuditRow(d, Portfolio, reason)} ELSE audit
  /\ EndPass(d)
  /\ UNCHANGED <<broker, world, ddRows>>

HaltDrawdown(d) ==
  /\ pc[d] = "saved" /\ tripped[d]
  /\ Halt(d, "halt:drawdown")

HaltDailyLoss(d) ==
  /\ pc[d] = "saved" /\ ~tripped[d] /\ DailyLossHit(reading[d])
  /\ Halt(d, "halt:daily_loss")

\* check_order raises RiskLimitBreach before any order goes out
RefuseBook(d) ==
  /\ pc[d] = "saved" /\ ~tripped[d] /\ ~DailyLossHit(reading[d])
  /\ ~WithinLimits(want[d])
  /\ EndPass(d)
  /\ UNCHANGED <<broker, world, store>>

\* Mutant of ReadPositions: a tripped breaker does not stop the pass.
TradeThroughTrip(d) ==
  /\ pc[d] = "saved" /\ ~DailyLossHit(reading[d]) /\ WithinLimits(want[d])
  /\ seen' = [seen EXCEPT ![d] = position]
  /\ Goto(d, "positions")
  /\ UNCHANGED <<broker, world, store, input, todo, governor, plan, sent,
                 skipped, moved>>

ReadPositions(d) ==
  /\ pc[d] = "saved" /\ ~tripped[d] /\ ~DailyLossHit(reading[d])
  /\ WithinLimits(want[d])
  /\ seen' = [seen EXCEPT ![d] = position]
  /\ Goto(d, "positions")
  /\ UNCHANGED <<broker, world, store, input, todo, governor, plan, sent,
                 skipped, moved>>

\* Mutant of ReadOpenOrders: what is still working is not counted as held.
PlanFromPositions(d) ==
  /\ pc[d] = "positions"
  /\ plan' = [plan EXCEPT ![d] = Planned(d, seen[d])]
  /\ seen' = [seen EXCEPT ![d] = Flat]
  /\ Goto(d, "submit")
  /\ UNCHANGED <<broker, world, store, input, todo, governor, sent, skipped,
                 moved>>

\* get_open_orders, added to the positions read before; then the whole plan
ReadOpenOrders(d) ==
  /\ pc[d] = "positions"
  /\ plan' = [plan EXCEPT ![d] =
                Planned(d, [s \in Symbol |-> seen[d][s] + Working(s)])]
  /\ seen' = [seen EXCEPT ![d] = Flat]
  /\ Goto(d, "submit")
  /\ UNCHANGED <<broker, world, store, input, todo, governor, sent, skipped,
                 moved>>

-----------------------------------------------------------------------------
(* The submit loop.                                                         *)

Record(d, s, event) ==
  audit' = IF d \in Audited THEN audit \cup {AuditRow(d, s, event)} ELSE audit

Unplan(d, p) == plan' = [plan EXCEPT ![d] = @ \ {p}]
\* Mutant of Spend: the budget is counted down from nothing.
SpendDown(d) == sent' = [sent EXCEPT ![d] = @ - 1]
Spend(d) == sent' = [sent EXCEPT ![d] = @ + 1]
AsOrder(d, p) == NewOrder("rebalance", d, asOf[d], p.sym, p.side, p.qty)

SkipInsane(d) ==
  /\ pc[d] = "submit"
  /\ \E p \in NextPlanned(d) :
       /\ p.qty > MaxQty
       /\ Unplan(d, p)
       /\ Record(d, p.sym, "order_skipped")
  /\ skipped' = [skipped EXCEPT ![d] = TRUE]
  /\ UNCHANGED <<broker, world, ddRows, pc, input, todo, governor, seen, sent,
                 moved>>

\* rate_limiter.allow() refuses: stop submitting, keep what went out
RateCapped(d) ==
  /\ pc[d] = "submit" /\ sent[d] >= RateCap
  /\ \E p \in NextPlanned(d) : p.qty <= MaxQty
  /\ plan' = [plan EXCEPT ![d] = {}]
  /\ Record(d, Portfolio, "order_rate_capped")
  /\ UNCHANGED <<broker, world, ddRows, pc, input, todo, governor, seen, sent,
                 skipped, moved>>

\* Mutant of SubmitRejected: the refusal is logged as an order.
LogBeforeVerdict(d) ==
  /\ pc[d] = "submit" /\ sent[d] < RateCap
  /\ \E p \in NextPlanned(d) :
       /\ p.qty <= MaxQty
       /\ Unplan(d, p)
       /\ Record(d, p.sym, "order")
  /\ Spend(d)
  /\ skipped' = [skipped EXCEPT ![d] = TRUE]
  /\ UNCHANGED <<broker, world, ddRows, pc, input, todo, governor, seen, moved>>

\* BrokerError: refused for a reason of the venue's, or for a duplicate id
SubmitRejected(d) ==
  /\ pc[d] = "submit" /\ sent[d] < RateCap
  /\ \E p \in NextPlanned(d) :
       /\ p.qty <= MaxQty
       /\ Unplan(d, p)
       /\ Record(d, p.sym, "order_rejected")
  /\ Spend(d)
  /\ skipped' = [skipped EXCEPT ![d] = TRUE]
  /\ UNCHANGED <<broker, world, ddRows, pc, input, todo, governor, seen, moved>>

SubmitAccepted(d) ==
  /\ pc[d] = "submit" /\ sent[d] < RateCap
  /\ \E p \in NextPlanned(d) :
       /\ p.qty <= MaxQty
       /\ ~IsDuplicate(AsOrder(d, p))
       /\ Take(AsOrder(d, p))
       /\ Unplan(d, p)
       /\ todo' = [todo EXCEPT ![d] = {p.sym}]
  /\ Spend(d)
  /\ Goto(d, "sent")
  /\ UNCHANGED <<position, world, store, input, governor, seen, skipped, moved>>

\* the audit row of an order, written after the broker has it
AuditOrder(d) ==
  /\ pc[d] = "sent"
  /\ \E s \in todo[d] : Record(d, s, "order")
  /\ todo' = [todo EXCEPT ![d] = {}]
  /\ Goto(d, "submit")
  /\ UNCHANGED <<broker, world, ddRows, input, governor, working, moved>>

\* The request times out or the connection drops after the venue took the order:
\* not a BrokerError, so it leaves rebalance (alpaca.py:79 catches HTTPError only).
SubmitLost(d) ==
  /\ pc[d] = "submit" /\ sent[d] < RateCap
  /\ \E p \in NextPlanned(d) :
       /\ p.qty <= MaxQty
       /\ ~IsDuplicate(AsOrder(d, p))
       /\ Take(AsOrder(d, p))
  /\ EndPass(d)
  /\ UNCHANGED <<position, world, store>>

\* The loop is done: a summary row if anything was skipped, then return.
Finish(d) ==
  /\ pc[d] = "submit" /\ plan[d] = {}
  /\ IF skipped[d] THEN Record(d, Portfolio, "rebalance_summary")
     ELSE UNCHANGED audit
  /\ EndPass(d)
  /\ UNCHANGED <<broker, world, ddRows>>

-----------------------------------------------------------------------------
(* halt_and_flatten on a built engine.  It sends the opposite of every       *)
(* position, does not look at open orders, and lets a BrokerError out.       *)

Flatten(d) ==
  /\ pc[d] = "built" /\ d \in CanFlatten /\ ~engaged[d]
  /\ engaged' = [engaged EXCEPT ![d] = TRUE]
  /\ todo' = [todo EXCEPT ![d] =
                {<<s, position[s]>> : s \in {x \in Symbol : position[x] # 0}}]
  /\ Goto(d, "flattening")
  /\ UNCHANGED <<broker, world, store, input, reading, peak, tripped, working,
                 moved>>

FlattenNext(d) ==
  /\ pc[d] = "flattening"
  /\ \E h \in todo[d] :
       LET o == NewOrder("flatten", d, asOf[d], h[1],
                         IF h[2] > 0 THEN "sell" ELSE "buy", Abs(h[2]))
       IN  /\ Abs(h[2]) <= MaxShares
           /\ ~IsDuplicate(o)
           /\ Take(o)
           /\ Record(d, h[1], "flatten")
           /\ todo' = [todo EXCEPT ![d] = @ \ {h}]
  /\ UNCHANGED <<position, world, ddRows, pc, input, governor, working, moved>>

FlattenDone(d) ==
  /\ pc[d] = "flattening" /\ todo[d] = {}
  /\ Goto(d, "built")
  /\ UNCHANGED <<broker, world, store, input, todo, governor, working, moved>>

-----------------------------------------------------------------------------
\* Any store or broker call raises, or the process dies: the pass is gone, what
\* it wrote and sent stays.
Abort(d) ==
  /\ pc[d] # "idle"
  /\ EndPass(d)
  /\ UNCHANGED <<broker, world, store>>

Crash ==
  /\ \E d \in Desk : pc[d] # "idle"
  /\ pc' = [d \in Desk |-> "idle"]
  /\ asOf' = [d \in Desk |-> 0]
  /\ quote' = [d \in Desk |-> NoBook]
  /\ want' = [d \in Desk |-> NoBook]
  /\ todo' = [d \in Desk |-> {}]
  /\ reading' = [d \in Desk |-> [equity |-> 0, last |-> 0]]
  /\ peak' = [d \in Desk |-> NoPeak]
  /\ tripped' = [d \in Desk |-> FALSE]
  /\ engaged' = [d \in Desk |-> FALSE]
  /\ seen' = [d \in Desk |-> Flat]
  /\ plan' = [d \in Desk |-> {}]
  /\ sent' = [d \in Desk |-> 0]
  /\ skipped' = [d \in Desk |-> FALSE]
  /\ moved' = [d \in Desk |-> {}]
  /\ UNCHANGED <<broker, world, store>>

-----------------------------------------------------------------------------
(* The venue and the market.                                                *)

\* A fill between a desk's two reads shows in neither: the positions are older,
\* the open orders newer.
VenueFill ==
  /\ \E o \in OpenOrders : \E n \in 1 .. Remaining(o) :
       /\ Fill(o, n)
       /\ moved' = [d \in Desk |-> IF pc[d] = "positions"
                                  THEN moved[d] \cup {o.sym} ELSE moved[d]]
  /\ UNCHANGED <<world, store, pc, input, todo, governor, working>>

\* A working order that is dropped takes back shares a desk has counted.
VenueDrop ==
  /\ \E o \in OpenOrders :
       /\ Drop(o)
       /\ moved' = [d \in Desk |-> IF pc[d] \in {"submit", "sent"}
                                  THEN moved[d] \cup {o.sym} ELSE moved[d]]
  /\ UNCHANGED <<world, store, pc, input, todo, governor, working>>

EquityMoves ==
  /\ \E e \in EquityLevel \ {account.equity} :
       account' = [account EXCEPT !.equity = e]
  /\ UNCHANGED <<broker, armed, clock, store, pc, input, todo, governor, working,
                 moved>>

\* The next session: today's close becomes last_equity.
NewSession ==
  /\ account.last # account.equity
  /\ account' = [account EXCEPT !.last = account.equity]
  /\ UNCHANGED <<broker, armed, clock, store, pc, input, todo, governor, working,
                 moved>>

-----------------------------------------------------------------------------
Cycle(d) == Start(d) \/ CancelStale(d) \/ Score(d)

Gates(d) == \/ Build(d) \/ Refuse(d) \/ ReadAccount(d) \/ SaveState(d)
            \/ HaltDrawdown(d) \/ HaltDailyLoss(d) \/ RefuseBook(d)

Trade(d) == \/ ReadPositions(d) \/ ReadOpenOrders(d)
            \/ SkipInsane(d) \/ RateCapped(d) \/ SubmitRejected(d)
            \/ SubmitAccepted(d) \/ AuditOrder(d) \/ SubmitLost(d) \/ Finish(d)

Kill(d) == Flatten(d) \/ FlattenNext(d) \/ FlattenDone(d)

Environment == VenueFill \/ VenueDrop \/ EquityMoves \/ NewSession \/ Crash

Next == \/ \E d \in Desk : Cycle(d) \/ Gates(d) \/ Trade(d) \/ Kill(d) \/ Abort(d)
        \/ Environment

Spec == Init /\ [][Next]_vars

-----------------------------------------------------------------------------
(* Properties.                                                              *)

Reading == [equity : Nat, last : Nat]
Row == [asOf : Nat, peak : Nat, tripped : BOOLEAN]
\* A symbol just sent, a position to flatten, or the id of a stale order.
TodoItem == Symbol \cup (Symbol \X Int) \cup (Kind \X Nat \X Symbol)
Event == {"order", "order_skipped", "order_rejected", "order_rate_capped",
          "rebalance_summary", "halt:drawdown", "halt:daily_loss", "flatten"}

\* Every variable has the shape the steps rely on; an engine's plan holds only
\* orders a broker can be sent (execution/broker.py, engine.py:129-164).
TypeOK ==
  /\ BrokerTypeOK
  /\ account \in Reading /\ armed \in BOOLEAN /\ clock \in Nat
  /\ ddRows \subseteq Row
  /\ audit \subseteq [asOf : Nat, sym : Symbol \cup {Portfolio}, event : Event]
  /\ pc \in [Desk -> Stage]
  /\ asOf \in [Desk -> Nat]
  /\ reading \in [Desk -> Reading]
  /\ peak \in [Desk -> Nat \cup {NoPeak}]
  /\ tripped \in [Desk -> BOOLEAN] /\ engaged \in [Desk -> BOOLEAN]
  /\ seen \in [Desk -> [Symbol -> Int]]
  /\ plan \in [Desk -> SUBSET [sym : Symbol, side : Side, qty : Quantity]]
  /\ sent \in [Desk -> Nat] /\ skipped \in [Desk -> BOOLEAN]
  /\ moved \in [Desk -> SUBSET Symbol]
  /\ todo \in [Desk -> SUBSET TodoItem]
  /\ \A d \in Desk :
       /\ pc[d] = "sent" => todo[d] \subseteq Symbol
       /\ pc[d] = "flattening" => todo[d] \subseteq Symbol \X (Int \ {0})
       /\ pc[d] = "account" => peak[d] \in Nat

Trading(d) == pc[d] \in {"positions", "submit", "sent"}
TripRecorded == \E r \in ddRows : r.tripped

\* Once a drawdown trip is in the store, no audited engine gets as far as the
\* broker's order book again: not after the equity recovers, not in a later
\* cycle's fresh engine, not after a crash or a restart (engine.py:30-33 and
\* 72-77, risk.py:82 "Trips (and stays tripped)").  For one audited desk.
TripIsFinal == \A d \in Audited : Trading(d) => ~TripRecorded

\* The persisted high-water mark never falls from one pass to the next, whatever
\* the equity does and wherever passes die (engine.py:234-254): a fallen mark
\* would hide a drawdown.  For one audited desk.
PeaksRise ==
  \A r, q \in ddRows :
    r.asOf < q.asOf => r.peak <= q.peak /\ (r.tripped => q.tripped)

Placed == {o \in orders' : \A p \in orders : ClientOrderId(p) # ClientOrderId(o)}

\* Why both hold: what an engine between its seeding and its save must know of
\* the rows (the inductive strengthening of TripIsFinal and PeaksRise).
SingleWriter == \A d, e \in Audited : d = e

BeforeSave == {"cancelling", "scoring", "building", "built", "flattening", "account"}

RowsAreOld ==
  /\ \A r \in ddRows : r.asOf <= clock /\ (r.tripped => r.peak > 0)
  /\ \A r, q \in ddRows : r.asOf = q.asOf => r = q
  /\ \A d \in Audited : pc[d] \in BeforeSave =>
       asOf[d] <= clock /\ \A r \in ddRows : r.asOf < asOf[d]

EngineKnows(d) ==
  /\ tripped[d] => peak[d] > 0
  /\ \A r \in ddRows : (r.tripped => tripped[d]) /\ (r.peak > 0 => r.peak <= peak[d])

GovernorInv ==
  /\ RowsAreOld
  /\ PeaksRise
  /\ \A d \in Audited :
       /\ pc[d] \in {"built", "flattening", "account"} => EngineKnows(d)
       /\ pc[d] = "saved" => (TripRecorded => tripped[d])
  /\ TripIsFinal

\* An order never carries its symbol past the pass's target, counting what is
\* held and what is still working (engine.py:117-138).  The two ways the
\* snapshot can be wrong are a fill between get_positions and get_open_orders
\* and an order that was counted and then dropped; no other step may be one.
NeverPastTarget ==
  [][\A o \in Placed :
       (o.kind = "rebalance" /\ o.sym \notin moved[o.by]) =>
         LET after == Effective(o.sym) + Signed(o.side, o.qty)
         IN  IF o.side = "buy"
             THEN after * TargetDen(o.by, o.sym) <= TargetNum(o.by, o.sym)
             ELSE after * TargetDen(o.by, o.sym) >= TargetNum(o.by, o.sym)]_vars

\* The audit log can be believed: an "order" row names an order the venue took,
\* and a pass with a halt row sent no order of a rebalance, before or after
\* (engine.py:91-110 and 195-212, audit.py).
AuditIsTrue ==
  /\ \A a \in audit : a.event = "order" =>
       \E o \in orders : o.asOf = a.asOf /\ o.sym = a.sym
  /\ \A a \in audit : a.event \in {"halt:drawdown", "halt:daily_loss"} =>
       \A o \in orders : o.kind = "rebalance" => o.asOf # a.asOf

\* The audited desks implement the abstract gate: the store's trip row halts
\* it, and no order of a rebalance follows.  For one audited desk.
AuditedOrders == {o \in orders : o.by \in Audited /\ o.kind = "rebalance"}

Gate == INSTANCE HaltGate WITH
  OrderId <- {"rebalance"} \X (0 .. MaxPass) \X Symbol,
  halted  <- TripRecorded,
  sentIds <- {ClientOrderId(o) : o \in AuditedOrders}

ImplementsHaltGate == Gate!Spec

\* What settings.py:52-53 and engine.py:98 say of the daily-loss kill: it stops
\* trading until a human re-arms it.  (Nobody re-arms anything in this model.)
DailyLossNeedsRearm ==
  \A a \in audit : a.event = "halt:daily_loss" =>
    \A o \in orders : o.kind = "rebalance" => o.asOf <= a.asOf

\* What engine.py:118-120 says the open orders are counted for: a re-run before
\* the prior order fills does not submit it a second time.
NoDoubleSubmit ==
  [][\A o \in Placed : (o.kind = "rebalance" /\ o.side = "buy") =>
       (Effective(o.sym) + o.qty) * TargetDen(o.by, o.sym)
          <= TargetNum(o.by, o.sym)]_vars

\* What cycle.py:309-312 says cancelling first is for: a leftover order cannot
\* distort the position accounting, so a long-only book is never sold short.
NoShortSale == \A s \in Symbol : position[s] >= 0
=============================================================================
