# A TLA+ model of market-trader

market-trader scores a universe of equities from point-in-time data, forms a
target book, and trades it on a broker account. `serve` runs up to three trading
threads (the daily schedule, the intraday loop, the news sleeve) against one
broker account and one bitemporal store; a command line collects data, learns
from past predictions and decides which signals may be trusted. What can go wrong
is rarely in one function: it is in what a pass believes after the broker, the
market, another thread or a crash has moved on, and in what a statistic was
allowed to know. This project models that, checks it with TLC, and proves every
safety property it checks with TLAPS. Paths below are relative to `src/market_trader/` of the repository.

## 1. Inventory

| component | state | operations | talks to | module |
|---|---|---|---|---|
| Execution engine (`execution/engine.py`, `guardrails.py`, `audit.py`) | per pass: kill switch, breaker, rate limiter; durable: `execution.audit` and `risk.drawdown_state` rows | `rebalance`, `halt_and_flatten`, save / load of the drawdown state | broker, store | `Execution`, `HaltGate` |
| Governor and limits (`portfolio/risk.py`) | peak, tripped | `seed`, `update`, `check_order`, `apply_risk_limits` | engine, cycle | `Execution`, `Risk` |
| Broker boundary (`execution/broker.py`, `alpaca.py`) | positions, orders, account (at the venue) | submit, cancel, positions, open orders, account, clock | HTTP, asynchronous | `Broker` |
| Paper broker (`execution/paper_broker.py`) | cash, positions, orders | immediate fills, resting limits, cancels | tests, dry cycle | `PaperBroker` |
| Daily book (`runtime/cycle.py`, `portfolio/sizing.py`) | none of its own | cancel stale, score, exits, select, size, flatten the dropped names, rebalance | store, broker, engine | `Execution`, `Book`, `Sleeves` |
| Intraday desk (`runtime/intraday.py`) | none of its own | minute-bar pass, loop | store, broker, engine | `Execution`, `Serve` |
| News sleeve (`runtime/news_sleeve.py`) | `sleeve.news_position` rows | detect, close, open, rebalance, loop | store, broker, engine, feed | `Sleeves` |
| Insider sleeve (`runtime/insider_sleeve.py`, `insider_events.py`) | `sleeve.insider_position` rows | close, open, rebalance | store, broker, engine, event-study gate | `Sleeves`, `Studies` |
| Schedule and serve (`runtime/schedule.py`, `cli.py`) | `was_open`, threads, health server | poll, fire on close, stand down | clock, all desks | `Serve` |
| Bitemporal store (`storage/`, `core/`) | observations by id | add, upsert, `as_of` | everything | `Facts`, `Bitemporal`, `PointInTime` |
| Ingestion (`collectors/`) | a sweep's records | fetch under a budget, dedup, validate, upsert | feeds, store | `Ingest` |
| Learning (`runtime/learning.py`, `evaluation.py`, `scoring.py`) | prediction rows | log, grade, weigh | store | `Learning` |
| Backtest (`backtest/engine.py`, `strategies.py`, `replay.py`) | the last book, returns and costs | rebalance, replay, benchmark | store or price panel | `Backtest` |
| Validation (`forecasting/`, `backtest/splitters.py`, `multiple_testing.py`, `runtime/signal_ic.py`) | none | sample, split, measure, correct | price history | `Validation` |
| Sealed holdout (`backtest/holdout.py`) | the ledger of looks | look, confirm | store | `Holdout` |
| Market memory (`memory/`) | none | detect, anchor, measure, permute, gate | store | `Studies` |
| Language-model tier (`reasoning/`, `collectors/llm_features.py`) | a call counter; `llm.signal` rows | sweep, extract, panel | store, provider | `Factory` |
| Confirmation gate, reconciliation, universe, presentation, alerts, observability, infrastructure | counters and caches only | read-only, text, or not called | | none |

**How they interact.** Threads meet in two places only: the broker account and the
store. A desk reads the account and the store, decides, and sends orders; what it
must remember it writes to the store before or after the broker call it
describes, never with it. The commands run one at a time in processes of their
own; the holdout's and the ingesting ones can overlap with themselves and with
`serve`, and are modelled so.

**What is hard.** One account, several threads, no lock: each pass reads the
account, its positions and its open orders in three requests and then sends
orders one by one, while fills, cancels, other desks and crashes happen in
between. An HTTP timeout leaves it unknown whether an order landed. The engine is
rebuilt every pass, so whatever must outlast a pass (a trip, a mark, a sleeve's
holdings) has to come back from the store. The market clock is polled. A read of
the store is collapsed row by row while others commit. And everything the system
learns is a statement about windows of rows: an off-by-one there costs no
exception, only a track record that could not have been had.

**What correctness means, by component.**

- *Engine and governor*: a drawdown halt is final until somebody resets it; the
  mark never falls; no order overshoots the target; no order is sent twice; the
  audit log matches what the broker got.
- *Daily book*: what it computes passes the engine's limits, its orders stay
  within the capital, a held name is sold for a stated reason only, and of a dropped
  one nothing lingers but dust, unless its order was not placed.
- *Sleeves*: caps and time-boxes hold wherever a pass dies; a story is acted on
  once; every share on the account has an owner; no share is sold that is not there.
- *Schedule, serve*: each watched close fires one daily cycle; no loop ends;
  SIGTERM stands the process down.
- *Store, ingestion*: a read shows one instant, and nothing knowable later; a
  backfill finishes.
- *Learning, replay*: nothing is graded early, and no grade changes when history
  is appended to; a book earns no return it was formed from, and pays for all.
- *Validation, holdout, memory*: no leak between training and test; a holdout is
  looked at once; an event is measured from the time it was knowable.

Everything hard to test, each at its line, is listed as `hazards` in
`PROJECT.json`, with the property that would catch it or the reason why none does.

## 2. What is modelled

### `Broker.tla`: the account

The vocabulary of `execution/broker.py` and the venue behind `AlpacaBroker`. The
venue is not in the repository; it is modelled from how the adapter uses it: an
accepted order works until it is filled (in parts, at any time) or dropped; a
cancel is a request, and the order it names stays in the open-order list until the
venue acts; a client order id it has seen is refused.

| TLA+ | code |
|---|---|
| `position`, `orders` | what `get_positions` and `get_open_orders` report |
| `ClientOrderId` | `f"{as_of:%Y%m%dT%H%M%S}-{symbol}"`, `flat-...` |
| `Working`, `Effective` | engine.py 117-124 |
| `Take`, `RequestCancel` | `submit_order`, `cancel_order` |
| `Fill`, `Drop` | the venue |

### `Execution.tla`: the desks and their engines

A *desk* is a trading thread. A pass of a desk is the sequence below; every broker
or store call is a step, so anything may happen between two of them.

| stage `pc[d]` | actions leaving it | code |
|---|---|---|
| `idle` | `Start` | `as_of`, prices, list of stale orders (cycle.py 307-312) |
| `cancelling` | `CancelStale` | cycle.py 313-314, alpaca.py 109-114 |
| `scoring` | `Score` | cycle.py 321-409: the book, explicit zeros for dropped names, no engine for an empty target |
| `building` | `Build` | engine.py 45-78: a fresh engine seeded from the newest row |
| `built` | `Refuse`, `ReadAccount`, `Flatten` | engine.py 83-89, 219-223 |
| `account` | `SaveState` | engine.py 234-254 |
| `saved` | `HaltDrawdown`, `HaltDailyLoss`, `RefuseBook`, `ReadPositions` | engine.py 91-117 |
| `positions` | `ReadOpenOrders` | engine.py 118-164, the whole plan |
| `submit` | `SkipInsane`, `RateCapped`, `SubmitRejected`, `SubmitAccepted`, `SubmitLost`, `Finish` | engine.py 166-217 |
| `sent` | `AuditOrder` | engine.py 200-212 |
| `flattening` | `FlattenNext`, `FlattenDone` | engine.py 223-232 |
| any | `Abort` | any call raises; the loop logs it (intraday.py 187) |

`VenueFill`, `VenueDrop`, `EquityMoves`, `NewSession` and `Crash` are the world's.
`EndPass` throws the engine away, as returning or raising from `rebalance` does.
A desk's place in the configuration (`Audited`, `CancelsStale`, `ManagesHeld`,
`CanFlatten`, `Reserved`) says which arguments its caller passes: the daily book is
audited and cancels stale orders, the intraday desk is audited and does not cancel.

Quantities follow engine.py 130-156 exactly: the target weight times the
deployable capital over the price, compared with the effective holding, banded,
floored to whole shares, dust dropped. Weights, prices and percents are integers
and the comparisons are cross-multiplied, so nothing is rounded that the code does
not round. What the scoring computes is left open: `Book[d]` is the set of books it
may come up with, including one over the limits and the empty one.

`moved` is the one variable the program does not have: the symbols of which a
fill or a drop has made a desk's snapshot wrong. It is written by the venue's steps
and read by `NeverPastTarget` alone.

### `HaltGate.tla`: what the governor promises

Orders go out one by one until a halt, and none after it. `Execution` implements
it: `halted` is "a tripped row is stored", `sentIds` the ids of the audited desks'
orders.

### `Sleeves.tla`: three books on one account

The news thread and the daily thread (the book, then the insider sleeve) on the
same account and rows. Every row written, every read and every order is a
step, so a pass may die or be overtaken between any two. Quantities are whole
units and an engine is reduced to *read the positions (`seen`), read the open orders
and plan, send in order, maybe halt*; partial fills, bands, dust and the rails are
`Execution`'s subject. Between the two reads the other thread and the venue go on, so
a fill may be in neither.

| stage | actions | code |
|---|---|---|
| news `idle` to `closing` | `NewsStart`: stories, owned names and last actions read once | news_sleeve.py 276-304 |
| `closing` | `NewsClose`, `NewsClosed`: due names recorded closed | news_sleeve.py 305-325 |
| `opening` | `NewsOpen`, `NewsOpened`: event by event, cap and cooldown by the values read first | news_sleeve.py 326-361 |
| `engine`, `reading`, `sending` (and the book's and insider's) | `Halt`, `ReadPositions`, `ReadOpenOrders`, `Send`, `Skip`, `AllSent`, `Fail` | engine.py 80-217, news_sleeve.py 419-422 |
| daily | `DailyStart`, `Reserve`, `Select` | cycle.py 487-561, 341-401 |
| daily, insider's part | `InsiderClose`, `InsiderClosed`, `InsiderOpen`, `InsiderOpened` | insider_sleeve.py 167-235 |
| `idle` | `InsiderAlone`: the sleeve by its own command | insider_sleeve.py 238-289 |
| world | `Fill`, `Drop`, `Tick` | |

The two readers break a tie of `event_time` differently (`OwnedByNews`,
`OwnedByInsider`); that a close and a reopening in one pass do tie is what
`news_cooldown` shows. `excused` is history: an order was dropped, two engines had plans
at once, or a sell filled while an engine that aims at its name was between its reads.
Each of the three can sell a name short, the last one with a single engine: the daily
pass sells a name, the next one reads the position, the sell fills, the open orders no
longer show it, and the name is sold again.

### `Facts.tla`, `Bitemporal.tla`, `PointInTime.tla`, `Ingest.tla`

`Facts` has the ids, the order of corrections and the collapse as sets.
`Bitemporal` is the SQL store under concurrent sessions: a writer merges row by
row (one SELECT each) and commits; the primary key refuses a row inserted since; a
reader takes one SELECT and collapses it in Python row by row, in any order.
`PointInTime` is the promise (storage/bitemporal.py 50-75): one instant per read,
of which the latest revisions, and batches that appear whole. `Ingest` composes
the store with its writers: a sweep over a watchlist under a wall-clock budget
(`StartSweep`, `Fetch`, `FetchFails`, `OutOfBudget`), the gateway (`Dedup`,
`Submit`), a loop with a short lookback and a backfill that skips names it thinks
covered.

### `Serve.tla`: the process

The main thread (boot, serve_forever, signal handler), the daily schedule with its
close edge (`Poll`, `ClockBlip`), the two other loops with their start on a shared
database (`FindSchema`, `CreateSchema`, `NoDatabase`), passes that end or fail, and
lives after lives of the process. `saw` and `ran` are history: the session this
life last saw open, and the cycles started for each close.

### `Risk.tla`, `Sizing.tla`, `Book.tla`: the daily book in numbers

Weights are integers over one denominator, so every cap is exact. `Risk` is
`apply_risk_limits` and `check_order`; `Sizing` the raw books and the volatility
governor; `Book` a day: `Score` (ranking, prices, marks and reserved names from
small sets), a sizing mode, `Plan`, then the orders one by one, sells first:

| action | code | the day |
|---|---|---|
| `Send` | the order is filled whole (engine.py 186-213, paper_broker.py 62-75) | goes on |
| `PassOver` | an insane or refused order is skipped (engine.py 170-175, 188-199) | goes on |
| `RateCapped` | the rest is not sent, and the call returns (engine.py 176-185) | goes on, and has no order left |
| `Finish` | the call returns | completes |
| `BreakOff` | the process dies, or anything but a refusal raises | does not complete |

The next day begins on the account this one left. `skipped` is history: the names whose
order of the day was not placed. `Delta` plans no order inside the no-trade band and none
worth less than a `Dollar`, a constant since prices are in any unit (engine.py 155).
Volatility is abstracted to the governor's factor, and a score to its rank. `Sublists` is the one
helper these modules share: the members of a list that are in a set, in the list's order
(cycle.py 129-130; the watchlist without what is covered).

### The commands

`Commands.tla` puts side by side the components whose properties are about state no
other one writes: a behaviour runs one command on a state of its own. Its modules are:

- `PaperBroker`: orders fill whole at once, rest, are rejected, repeated or
  cancelled; average prices are exact fractions.
- `Learning`: days are in session and then over; the daily bar may be delivered
  while it is forming, late, or never; every cycle logs, grades and weighs; the
  replay reveals a bar in its time. A correlation is abstracted to whether it
  exists, which it does when two of the returns differ; a return is an exact fraction
  of products of closes (`Growth`).
- `Holdout`: overlapping `signal-ic --holdout` commands over one ledger.
- `Backtest`: eight strategies, wrapped by the governor or not, and the learning
  replay, over a schedule of rows. A return is abstracted to *which book earned
  it, and when that was decided*; a cost to the change and the days it is for.
- `Validation`: decision dates, labels in rows, a purge in calendar days, array
  folds, an embargo; the dates of `signal-ic`; Benjamini-Hochberg and Bonferroni.
- `Studies`: scans of the filings, anchors, the event and estimation windows, the
  placebo re-anchorings and the gate.
- `Factory`: the budgeted sweep of the language model while news goes on, and the
  panel's synthesis in exact fractions. No runtime path calls the panel; it is
  modelled because it is the repository's most documented combination rule.

### The proofs

`ExecutionProofs` (the desks), `StoreProofs` (store and ingestion), `SleevesProofs`,
`ServeProofs`, `BookProofs` (the daily book and its limits), `ResearchProofs`
(simulation, validation, event studies, learning), `CommandsProofs` (the paper broker,
the holdout, the language-model tier, and the theorems of the composed specification) and
`CountingLemmas` (sums over sets, ranks and sublists, which the others cite).

The `MC*.tla` modules hold nothing but values for the constants. A definition whose
comment begins with "Mutant:" is a plausible bug of the definition after it, kept to
show that the runs would find it; nothing uses it.

## 3. What the runs show

| run | instance | checks | shows |
|---|---|---|---|
| `execution_halts` | 1 audited desk, 1 name, 3 passes, equities 6, 8, 10, halts at 30 % and 20 % | `TripIsFinal`, `PeaksRise`, `AuditIsTrue`, `ImplementsHaltGate` | the governor, with crashes and aborts between any two steps |
| `execution_orders` | 1 desk, 2 names, 2 passes, a 60 % band, rate cap 1, sanity cap 2, flattening allowed | `TypeOK`, `NeverPastTarget` | the planning and the submit loop under partial fills and drops |
| `sleeves` | 2 names, 1 story, caps 1, holds 2, cooldown 1, `as_of` up to 3 | `TypeOK`, `SlotsHold`, `OneStoryOnePass`, `TimeBoxed`, `NoOrphans`, `ShortNeedsARace` | two threads and the account, every failure between two steps |
| `ingest` | 2 names, 4 observations, a loop, a backfill, a reader, 2 instants | `TypeOK`, `ImplementsPointInTime`, `BackfillCompletes` | reads over a moving table; a backfill that is always finished |
| `serve` | 3 loops, 3 sessions, 2 lives | `TypeOK`, `OneCyclePerClose`, `CycleAfterClose`, `CloseIsFollowedByCycle`, `LoopsSurvive` | clock errors, failing passes, signals and kills around the close edge |
| `commands` | see below | `TypeOK` and 19 properties | each command on its own state |
| `daily_loss_rearm` | 1 desk, 1 name | `DailyLossNeedsRearm` (violated) | a new session trades after a daily-loss halt with nobody re-arming |
| `double_submit` | intraday desk | `NoDoubleSubmit` (violated) | a fill between the two reads is bought twice |
| `stale_cancel` | daily desk | `NoShortSale` (violated) | a cancelling buy is counted and sold |
| `news_cooldown` | 1 name, 2 stories, hold and cooldown 2 | `CooldownHolds` (violated) | a name closed at its horizon is reopened by the same pass |
| `backfill_skips` | as `ingest` | `CoveredIsComplete` (violated) | one row of a loop makes the backfill skip the name's history |
| `sigterm` | 2 loops, 1 session | `StandsDown` (violated) | the handler waits for the loop whose thread it occupies |

The `commands` run has one instance per component:

| module | instance | properties |
|---|---|---|
| `Book` | 4 names in 2 sectors, 3 rankings (one empty, one reversed and shorter), 2 sets of closes, prices and gaps that go missing, 2 days, 2 positions, ceiling 44 of cash 40 that grows, prices from 1 to 4 with a dollar at 4; 625 signed raw books for the limits | `NeverRefused`, `SoldForAReason`, `NothingLingers`, `WithinBudget` |
| `PaperBroker` | 1 symbol, 3 ids, 2 prices and none, 2 sizes, both sides, market and limit | `FillsExplainAccount`, `BooksBalance` |
| `Learning` | 2 names, 3 days, horizon 2, a bar the feed never has, two scorers, 2 predictions | `NoFutureGrades`, `GradesAreFinal`, `OwnTrackRecord` |
| `Holdout` | 3 overlapping commands, 4 instants | `SingleLook`, `ToldTheSealed` |
| `Backtest` | 6 rows over a weekend, a name listed late, rebalances every 2 or 3 rows, 8 strategies with and without the governor | `DecidedBefore`, `PaidFor` |
| `Validation` | 3 weeks with a holiday on either side of a weekend, on both, or none, horizon 3, 3 or 5 folds, 3 signals with p-values around the line | `NoLeak`, `LargestRejection` |
| `Studies` | 10 rows, 2 names, clusters that grow and fade, a late disclosure, a missing row | `AnchoredWhenKnowable`, `FairNull` |
| `Factory` | 2 names, budget 1, 4 hours, 2 sweeps; all panels on a grid of 5 scores and 3 confidences | `NoHindsight`, `PanelOnlyDamps` |

**Bounds.** `MaxPass` caps the passes (the only unbounded counter is `clock`);
`MaxShares` the quantity an order can be modelled with, above everything the
instances' books can ask for. Three passes are the least in which one sets the
mark, one trips and one would betray it; two passes are the least in which an
order of one is working, filled or dropped under the next. `StampsPerSecond = 2`
lets two passes share a second and so collide on their ids. With a rate cap of one
every plan of two orders meets it, and with a sanity cap of two shares some orders
are insane. In `sleeves`, two names and one slot make every open compete; a hold of
two ticks and a clock of three let a name be opened, come due and be looked for
again, and the symmetry of the names is sound since nothing orders them. In
`ingest` one fact has an earlier and a later knowledge time, a revision and a
restated payload of the same id: all ways a row can supersede or replace another.
In `Book`, with the dollar at the highest price, a share is dust unless it costs the
whole of it, and so are up to three of the cheapest: orders are skipped and remains are left;
without the exceptions for dust and for `skipped`, `NothingLingers` and `WithinBudget` fail
in the instance. `sleeves` is the largest run (4.2 million states, under two minutes);
without its excuse for a fill between two reads `ShortNeedsARace` fails in it.
In `serve` three sessions are the least with a close before, at and after a
restart. The `MaxDay`, `LastDay`, `Ids`, `MaxPreds`, `MaxHour`, `MaxSweeps` and
`MaxPermutations` bounds all reach past the first step at which their hazard can
occur: the mutants of `PROJECT.json`, one plausible bug per property, are caught
within them. Where deadlock checking is off, the instance stops when its passes,
sessions or days are spent, and the commands when they are done.

**The violations** are disagreements between a comment or a document and the code,
quoted under `findings`: each is a consequence of something the text overlooks, not
of the model's freedom. In `stale_cancel` the venue must accept a sell of shares
the account does not hold; whether it does depends on the account's permissions.

**Fairness.** It is assumed only where a liveness property is stated. In `Serve`, the threads are scheduled and calls return, every client having
a timeout (WF of the main thread, of each loop and of the schedule), and the clock
can be read again and again between its failures (SF of `Poll`); nothing is assumed
about the market, the signals or the kills, so a session may end unseen.
`sigterm` is violated under the same assumptions: it is no fault of scheduling. In
`Ingest`, a backfill is run again until it is done and its process is scheduled
(WF), and a source asked again and again answers in the end (SF of `Fetch`).
`BackfillCompletes` has a hypothesis instead of a fairness of the store: sessions
stop being lost. Nothing in the engine promises that a pass completes, and
`Execution` and `Sleeves` assume no fairness.

## 4. What is proved

Every invariant and action property of the passing runs, and both refinements, for every
value of the constants that meets the named assumptions. Liveness is not.

**The assumptions.** Most say of what kind a constant is: a count is a natural number, a
set of names is finite, a book a function from names to integers. Those that say more:

| assumption | says | because |
|---|---|---|
| `ExecutionAssumption`, `PaperAssumption` | equities, prices and quotes are not negative | they are account values and prices; a quote of 0 is "no price" |
| `BookAssumption` | a ranking names nobody twice; ratios have positive denominators | it is the index of a sorted series (cycle.py 325) |
| `RiskAssumption` | a limit is a positive fraction | `RiskLimits`, settings.py |
| `SleevesAssumption` | holds are at least one tick, every order at least one unit | settings.py; a flat name is not ordered |
| `BacktestAssumption` | dates rise with the rows | a price panel is sorted |
| `CalendarAssumption` | no closure is so long that twice the horizon in calendar days holds fewer sessions than the horizon but one | "generous bound for purging", dataset.py 79; it leaves room for windows longer than the bound (section 5), and the theorem holds for those too |
| `StudyAssumption` | disclosures are finite and dated | rows of a table |
| `FactoryAssumption` | the weight of the risk view is in [0, 1] | the manager clips it (agents.py 242) |
| `IngestAssumption` | the loop is a writer, recent rows are of the feed, the watchlist is a list | it may name a symbol twice |
| `BrokerAssumption`, `FactsAssumption`, `ServeAssumption`, `HoldoutAssumption`, `LearnAssumption`, `ValidationAssumption` | kinds of the constants | |

TLC evaluates all of them in the runs.

| theorem | says | beyond the constants' assumptions |
|---|---|---|
| `TypeCorrect` | `Spec => []TypeOK` of `Execution` | |
| `TripStopsTrading`, `HighWaterMarkRises` | `[]TripIsFinal`, `[]PeaksRise` | `SingleWriter` |
| `EnginesImplementHaltGate` | `Spec => Gate!Spec` | `SingleWriter` |
| `AuditLogIsTrue` | `[]AuditIsTrue` | |
| `OrdersStopAtTarget` | `NeverPastTarget` | `OneDesk` |
| `StoreTypeCorrect`, `StoreImplementsPointInTime` | `[]StoreTypeOK`, `StoreSpec => PIT!Spec` | |
| `IngestTyped`, `IngestImplementsPointInTime` | `[]TypeOK` and the refinement, of the composed `Spec` | |
| `SleevesTyped` | `[]TypeOK` of `Sleeves` | |
| `CapsHold`, `StoriesActOnce`, `WindowsClose` | `[]SlotsHold`, `[]OneStoryOnePass`, `[]TimeBoxed` | |
| `NoShortWithoutARace`, `EveryHoldingIsOwned` | `[]ShortNeedsARace`, `[]NoOrphans` | |
| `ServeTypeCorrect`, `OncePerClose`, `NeverBeforeTheClose` | `[]TypeOK`, `[]OneCyclePerClose`, `CycleAfterClose` | |
| `CommandsTyped` | `[]TypeOK` of `Commands` | |
| `BooksPassTheCheck`, `SalesHaveReasons`, `DropsAreSold`, `BudgetsHold` | `[]NeverRefused`, `[]SoldForAReason`, `[]NothingLingers`, `[]WithinBudget` | |
| `EachFillCountsOnce`, `FillsKeepTheBooks` | `[]FillsExplainAccount`, `BooksBalance` | |
| `NothingGradedEarly`, `AppendedBarsKeepGrades`, `WeightedByOwnRecord` | `[]NoFutureGrades`, `GradesAreFinal`, `[]OwnTrackRecord` | |
| `NoLookahead`, `EarningsWerePaidFor` | `[]DecidedBefore`, `[]PaidFor` | |
| `LooksAreApart`, `StepUpIsLargest` | `[]NoLeak`, `[]LargestRejection` | |
| `EventsAnchoredWhenKnown`, `NullIsFair` | `[]AnchoredWhenKnowable`, `[]FairNull` | |
| `SignalsAreFounded`, `RiskOnlyDamps` | `[]NoHindsight`, `[]PanelOnlyDamps` | |
| `HoldoutTypeCorrect`, `LookedAtOnce`, `NoShopping` | `[]HoldoutTypeOK`, `[]SingleLook`, `[]ToldTheSealed` of `HoldoutSpec` | |
| `CommandsLookOnce`, `CommandsTellTheSealed` | the same of the composed `Spec` | |

*The governor.* `TripIsFinal` speaks of a desk that is trading and a row in the
store; to be inductive it has to say why the desk would have stopped. `GovernorInv`
says: rows are older than the pass that is about to save, and there is one per
`as_of` (`RowsAreOld`); along them the mark only rises and a trip persists
(`PeaksRise`); an engine between its seeding and its save knows as much as every
row (`EngineKnows`); once saved, it has not tripped unless it knows of it. A step
either keeps what a desk knows (`GovernorMoves`, `GovernorStays`), forgets it with
the pass (`GovernorEnds`, `GovernorCrash`), or is one of `Start`, `Build`,
`ReadAccount`, `SaveState`, each a lemma. `SingleWriter` says at most one desk is
given the store, and is needed: the rows are read and written with no lock, and
with the daily and the intraday loop both armed a trip saved by one is unknown to
the other until its next pass, which may by then be trading.

*The audit log.* No hypothesis on the number of desks: what keeps the log true is not
who writes it but the order of the writes. `AuditInv` says: an `as_of` is handed out
once, so that no row or order carries one from the future and no two running passes
share one (`StampsFresh`); a pass outside its submit loop has sent nothing under its
`as_of` (`NothingSent`), and a running one has no halt row (`NotHalted`); the pass
about to log an order has sent it (`Sent`). The stamps are the clock at full
resolution, as the log stores them, and the model takes it that no two passes start
in the same microsecond.

*The target.* What is held plus what still works is a sum over the open orders of a name.
Taking an order adds its quantity to it, a fill moves shares from one term to the other
and a cancel request changes neither (`TakeWorks`, `FillKeepsEffective`,
`CancelKeepsEffective`): of the venue's steps only a drop disturbs it, and of the desk's
only its own sending. So `AimInv` needs to say little: between its reads the positions a
desk read are the account's, and then each order of its plan aims short of the target,
except in names marked as moved; a plan has one order a name, so that sending one leaves
the others aimed. That the plan aims when it is made is the floor of engine.py 149-156
(`WholeShares`, `PlanAims`). The theorem is of a single desk because another one's orders
move the same sum; `double_submit` shows what a fill between the reads does.

*The store.* The row-by-row collapse seems to need an induction over rows. It does not:
`Kept(best, seen)` says that `best` holds one row per fact, all of them seen, outranking
everything seen of their fact; each collapsed row keeps it, and when nothing is left to do
it *is* the latest revision of each fact. `StoreInv` adds the types and that a closed
session has no rows. `Select` maps to the promise's `Look`, `Deliver` to `Answer`,
`Commit` to `Publish` (of no rows, when all its rows were there), everything else to a
stutter. Ingestion then needs `SweepInv`: what a sweep has fetched is in the feed with one
row per id, so that an ingest's `Submit` is a `Begin`. A symbol listed twice is fetched
twice, and the later fetch's rows replace those of their ids.

*The sleeves.* A cap bounds the names owned, which are read off the newest rows; so
the invariants first say that rows carry no time later than the clock and none of a
name later than the running pass, and two lemmas say how one row changes who owns
what (`NewsOwnership`, `InsiderOwnership`: the two readers break ties differently).
The names of the live set the pass works with contain what the rows own and are at
most the cap while it closes and opens (`Bounded`); for the insider sleeve the
events still to be opened are counted in. A story on an open row is in the acted set
of every later pass. All other steps are frames (`QuietNewsKeeps`,
`QuietInsiderKeeps`).

*The account under the sleeves.* `ShortInv` follows an engine from its plan to its last
order. A fill moves what a name comes to from the working orders to the holdings, so an
engine between its reads may count too little or too much; too much is what sells a name
short, and only a sell that fills then can make it so. Unless that excused it, what the
engine has read of its names is at most what has settled since (`Lagging`), so each order it
then plans sells at most what the name comes to (`Covered`); a name is sent once a pass
(`SentOnce`), and only one engine sends at a time (`NeverShort`). `OrphanInv` adds, along an
undisturbed daily pass, what each stage has established: the reserved names are
what the rows own, everything else on the account is in the book or in the target at zero
(`Placed`), and each name the pass gets rid of is gone or has its order still to be sent
(`Underway`). That needs the two reads to agree on those names, which is `Settled`: nothing
works when the book's engine reads, and of the names the insider sleeve closes nothing
works because the book kept its hands off them. At the last order nothing is underway,
which is `NoOrphans`.

*The schedule.* One bit, `was_open`, stands between a close and its cycle.
`ScheduleInv` ties it to history: a session that lasts has had no cycle
(`OnlyAfterClose`), and while the schedule believes the market open, the session it
saw has had none (`EdgePending`). A restart forgets the bit and so can lose a cycle,
never repeat one.

*Sums, ranks and lists.* A fold over a finite set is a function chosen by its recursion,
and there is an induction principle the provers can use: the sets (or numbers) for which
a fact holds form a set themselves, and `\A S : 0 \in S /\ (\A n \in S : n + 1 \in S) =>
Nat \subseteq S` has no operator parameter. From it `CountingLemmas` gets that the sum
exists and is unique, adds up over members and disjoint sets, respects order and scaling;
that each rank of a finite set of numbers is taken by one member; and what a sublist has
and in what order. Only what a definition written with RECURSIVE computes stays out of
reach, and no module here uses one.

*The daily book.* Each cap of `Risk` divides by what it found and multiplies by the limit,
so a later cap could undo an earlier one only by raising a weight: all of them scale
weights toward zero by a factor at most one (`Shrunk`, `ShrinkFits`), and gross and net are
sums that shrink with their terms; the sectors, capped one after the other, are undone by no
later one for the same reason (`CapSectorsFits`). The lowest terms a book is kept in change no
comparison. `BookInv` carries `CheckOrder(target)` to the order that is sent; for the
budget it says that each name whose order is not skipped is within the band and its
`Crumb` of its allotment once that order is filled (`Aimed`), whether or not it has been;
sales first is not needed. The crumb is what a sell may leave: less than a share where a
share costs a dollar or more, since an order of one share is then no dust, and less than a
share and a dollar where it costs less (`DeltaFacts`). Of a name that left the target a
floored sell leaves nothing, and a dusty one less than a dollar.

*The paper broker.* The account and the sums over the filled orders change by the same
amount in each step (`PaperInv`): an id that was seen is only answered, an order that fills
joins the sums with its own term, and a cancel takes back only what never joined them. `BooksBalance` multiplies three variables; it is proved one
case of `apply fill` at a time (open, average in, reduce, close, turn), with the products
named so that each leaf is linear in them.

*Simulation.* `BacktestInv` divides the rows at the front, the one the accounts have been
brought to: behind it each earned row belongs to the book of the last charge before it,
charges form one chain from cash to the book now held, and the days charged add up to
the time from the first row to the front; ahead of it there is nothing. What a strategy may
hold is bounded through its book's own definitions to the names tradable on that row.

*Validation.* A label's window ends a number of rows after its sample, a purge is of
calendar days, and a fold is a range of positions among the samples. `RowIsRank` and
`Labelled` turn all three into ranks of days; that a sample before the test fold ends
before it is the purge, that one after it starts late enough is the embargo or the order
of the days (`TrainApart`). The step-up's set is the largest because p-values ranked below
a passing one pass with it (`StepUp`).

*Event studies.* `StudyInv` says where the scans began and that every anchor was found no
earlier than it was knowable. A scan adds what it detects unless an event
of the same name, kind and time is there (`ScanFinds`); between two scans no row is due
(`NextScan`); so a cluster that is whole at a due row is found at it or was before, provided
all of its purchases are in the loaded history, which is what the hypothesis on late
disclosures is for. The windows are ranges of ranks among the rows of a name, so
they are whole exactly when `Measurable` says so (`RanksClose`, `NullMeasurable`).

*Learning.* `LearnInv`: a final bar is of a day that is over, a forming one exists only
live. A grade reads the closes from the day of the prediction to its horizon; when a bar of
a later day is appended those closes are the same, so the same grade is computed
(`SameWindow`), and the journal only grows. A weighting by record needs two graded
predictions of the composite, and no later step takes a grade away (`LearnRecord`).

*The language model.* `FactoryInv`: all that is extracted or stored rests on headlines
out, and fresh, when they were read (`Founded`). The panel has two directional analysts
and a risk one, so its sums have at most two terms; the proof is arithmetic over their
numerators, on any grid of scores.

*The holdout.* `HoldoutInv` needs one more fact than the two properties: a command
that looked and found nothing started no later than any row was written
(`NoneBefore`), for a row written before it started would have been knowable to it.
`Commands` implements `HoldoutSpec`, which carries the holdout's theorems over.

**Only model-checked.** Liveness under fairness (`CloseIsFollowedByCycle`, `LoopsSurvive`,
`BackfillCompletes`) is beyond the prover, and so stays with TLC. The expected violations
are counterexamples, which TLC finds and which need no proof.

**What the proofs changed.** A label can end after the calendar bound that purges it, on
the very day of a tested sample; the returns of the two still have no row in common, which is
what `NoLeak` asks (section 5). A watchlist that names a symbol twice made a sweep hold two
rows of one id in the model; in the code the later one is kept (gateway.py 42-48). Sums and
counts were given definitions that the lemmas above speak of.

## 5. What else the models showed

Behaviours met while modelling that no document contradicts outright, or that a
property had to be worded around:

- *Desks.* An empty ranking liquidates the book (cycle.py 397-403). One missing bar
  drops a name from the volatility governor, and so from the book (cycle.py
  267-276). A cancelled order that filled in between raises out of the whole daily
  cycle, and the schedule does not try again. The news sleeve's engine has no audit
  store and ignores a persisted trip. The reserved names are read at `as_of`, minutes
  before the positions.
- *Book.* What a dropped holding is worth below a dollar is never sold (engine.py 155
  against cycle.py 398-400, which flattens names so that none lingers).
- *Process.* Two loops that create the schema at once kill one of the threads, and so
  does a database that is down at their start, while the health check says ok
  (intraday.py 141 says the loop never dies). Daily bars are stamped 21:00 UTC,
  while the close is at 20:00 UTC in summer.
- *Store.* Rows under the same coordinates are replaced in place, so a read at a past
  time is not immutable; two lots of one Form 4 share an id. The daily sweep that
  says the rest is picked up on a later run (cycle.py 457) starts at the first name
  every time and never reaches the tail; so does the language-model sweep, and its
  budget is of a process, not of a day.
- *Learning and research.* The bar of the session in progress may be graded
  (learning.py 64). Labels at the end of a training schedule are of a window cut
  short. Buy-and-hold has no return on its first day and pays no costs, against
  "apples-to-apples" (backtest/engine.py 5-7). An event's window begins with the
  bar at or before its anchor (event_study.py 9-11 says after), and the placebo
  re-anchors events that the observed mean left out. A reply with a NaN score is
  stored as 1.0 (extraction.py 47-64). Purging goes by a bound of twice the horizon
  in calendar days (dataset.py 79, "generous bound for purging"), which a window can
  exceed around a year's end: with a horizon of 5 the label of Friday 23 December 2022
  ends on 3 January 2023, eleven days later. It then ends on the first session after the
  purge and not past it, which is all `CalendarAssumption` asks.

## 6. What is not modelled

- `fractional_shares=True`; limit orders by the engine (it sends none).
- What scores are made of: features, forecasts, covariances, optimisers, calibration,
  drift and metrics are floating-point statistics, abstracted to ranks, factors, and
  whether they exist.
- The venue's reasons for a refusal: `SubmitRejected` is always possible. Paging of
  the open-order list (limit 500).
- The intraday confirmation gate, `orchestration/scheduler.py`, reconciliation: no
  runtime path calls them.
- Parsers and normalisers of the collectors (format conversion); the `since` and
  dataset filters of reads; the in-memory store, which has no sessions; the gateway's
  strict mode, which nobody asks for.
- The intraday desk and the sleeves on one account: `Execution` has the engine in
  detail, `Sleeves` the ownership; their product is too large to check, and nothing
  promises that the intraday book respects a sleeve.
- Universe, presentation, alerts, observability, infrastructure: read-only views
  and I/O.

## 7. What a next step would be

- A theorem of several desks: `NeverPastTarget` with another desk's orders among the
  excuses, and the governor's properties under a lock or a compare-and-set on the
  drawdown rows, with which `SingleWriter` could be dropped.
- An intraday desk beside the sleeves at `Sleeves`' level of detail.
- The confirmation gate, if a runtime path comes to use it.
- The safety halves of the liveness properties (what a loop that ends, or a backfill that
  never does, must have met on the way) as invariants with proofs.
