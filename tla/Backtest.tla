------------------------------ MODULE Backtest ------------------------------
(***************************************************************************)
(* Simulation and learning replay (backtest/engine.py, strategies.py,      *)
(* replay.py): on each rebalance of a schedule a strategy turns what was   *)
(* knowable into a book; the book earns the returns of the rows up to the  *)
(* next rebalance, and its turnover and borrow are charged on the first of *)
(* them.  Returns are abstracted to the book that earned them, a score to  *)
(* a small number, a covariance to the governor's factor.                  *)
(***************************************************************************)
EXTENDS Sizing, Sequences

CONSTANTS
  Rows,           \* number of rows of the price panel
  Date,           \* calendar day of a row
  FirstPrice,     \* row of a name's first price
  Signals,        \* scores of a rebalance: functions on the names that have one
  InverseVol,     \* raw sizes of the names by inverse volatility
  Factors,        \* target volatility over the book's
  Warmup, Every, MinRebalances, \* cmd_simulate's schedule
  Fraction, Slots,              \* quantile and number of positions
  Lookback        \* rows of history a covariance or a momentum needs

\* Limits, volatilities and sizes are positive: some book of the names is always allowed.
ASSUME BacktestAssumption ==
  /\ Rows \in Nat \ {0} /\ Every \subseteq Nat \ {0} /\ Warmup \in Nat /\ MinRebalances \in Nat \ {0}
  /\ Date \in [1 .. Rows -> Int] /\ \A c, d \in 1 .. Rows : c < d => Date[c] < Date[d]
  /\ FirstPrice \in [Names -> Int] /\ Lookback \in Nat /\ Slots \in Nat
  /\ \A sig \in Signals : DOMAIN sig \subseteq Names /\ sig \in [DOMAIN sig -> Int]
  /\ InverseVol \in [Names -> Nat \ {0}]
  /\ Factors \cup {Limits.name, Limits.gross, Limits.net} \subseteq (Nat \ {0}) \X (Nat \ {0})
  /\ Names # {} /\ Fraction \in Ratio

VARIABLES
  runner,    \* "none", then "engine" or "replay"
  strategy,  \* of the engine: its name and whether the governor wraps it
  todo,      \* rebalances left
  held,      \* prev_w: the last book
  earned,    \* of a row: the book that earned its return, and when it was decided
  charges,   \* of a row: what was charged on it
  benchmark  \* the rows buy-and-hold is scored on

backtestVars == <<runner, strategy, todo, held, earned, charges, benchmark>>

Strategies == {"equal", "momentum", "composite", "long_short", "insider", "stacked", "tilt", "sized"}

-----------------------------------------------------------------------------
(* Strategies *)

\* PanelPriceView.universe: the names with a price at or before t.
Tradable(t) == {s \in Names : FirstPrice[s] <= t}

\* Names with a return in every row of the lookback.  The first row of a panel has no
\* returns: the views drop it, the replay does not.
Clean(t) ==
  {s \in Names : \/ FirstPrice[s] + Lookback <= t
                 \/ runner = "engine" /\ FirstPrice[s] = 1}

ScoreOf(sig, s) == IF s \in DOMAIN sig THEN sig[s] ELSE 0

\* The k best names of S, ties as the sort leaves them.
Tops(sig, S, k) ==
  {T \in SUBSET S : /\ Cardinality(T) = Least(k, Cardinality(S))
                    /\ \A s \in T, r \in S \ T : ScoreOf(sig, s) >= ScoreOf(sig, r)}

Alike == [s \in Names |-> 1]
EqualBook(S) == Weigh(S, Alike)
EqualBooks(Ts) == {EqualBook(T) : T \in Ts}

TopShare(S) == Greatest(1, (Cardinality(S) * Fraction[1]) \div Fraction[2])

MomentumBooks(t, sig) ==
  LET ranked == {s \in Names : FirstPrice[s] + Lookback <= t}
  IN  IF t <= Lookback THEN {EqualBook(Tradable(t))}
      ELSE EqualBooks(Tops(sig, ranked, TopShare(ranked)))

CompositeBooks(t, sig) ==
  LET ranked == {s \in Names : FirstPrice[s] + Lookback <= t}
  IN  IF t <= Lookback + 1 THEN {EqualBook(Tradable(t))}
      ELSE {Weigh(T, InverseVol) : T \in Tops(sig, ranked, Least(Slots, TopShare(ranked)))}

LongShortBooks(t, sig) ==
  LET active == {s \in DOMAIN sig \cap Tradable(t) : sig[s] # 0}
      k == Least(Slots, Cardinality(active) \div 2)
      Leg(L, sh) == [n |-> [s \in Names |-> IF s \in L THEN 1 ELSE IF s \in sh THEN -1 ELSE 0],
                     d |-> 2 * k]
  IN  IF k < 1 THEN {NoBook}
      ELSE {Leg(L, sh) : L \in Tops(sig, active, k),
                         sh \in {active \ T : T \in Tops(sig, active, Cardinality(active) - k)}}

InsiderBooks(t, sig) ==
  EqualBooks(Tops(sig, {s \in DOMAIN sig \cap Tradable(t) : sig[s] > 0}, Slots))

\* Mutant: whatever has a score is held, listed or not.
StackedAnything(t, sig) == EqualBooks(Tops(sig, DOMAIN sig, Slots))

StackedBooks(t, sig) == EqualBooks(Tops(sig, DOMAIN sig \cap Tradable(t), Slots))

\* A positive size for every name, larger for a higher score.
TiltOf(sig) ==
  LET low == CHOOSE s \in Names : \A r \in Names : ScoreOf(sig, s) <= ScoreOf(sig, r)
  IN  [s \in Names |-> 1 + ScoreOf(sig, s) - ScoreOf(sig, low)]

\* SizedBookStrategy, and the replay's own call of the sizer over every name of the panel.
SizedBook(S, t, sig, f) == ApplyRiskLimits(SizeBook(S, TiltOf(sig), Clean(t), f), {})

RawBooksOf(t, sig, f) ==
  CASE strategy.name = "equal" -> {EqualBook(Tradable(t))}
    [] strategy.name = "momentum" -> MomentumBooks(t, sig)
    [] strategy.name = "composite" -> CompositeBooks(t, sig)
    [] strategy.name = "long_short" -> LongShortBooks(t, sig)
    [] strategy.name = "insider" -> InsiderBooks(t, sig)
    [] strategy.name = "stacked" -> StackedBooks(t, sig)
    [] strategy.name = "tilt" -> {Weigh(Tradable(t), TiltOf(sig))}
    [] strategy.name = "sized" -> {SizedBook(Tradable(t), t, sig, f)}

MaxGross == IF strategy.name = "long_short" THEN <<2, 1>> ELSE <<1, 1>>

TargetWeights(t, sig, f) ==
  {Lowest(IF strategy.governed THEN VolTarget(w, Clean(t), f, MaxGross) ELSE w) :
     w \in RawBooksOf(t, sig, f)}

-----------------------------------------------------------------------------
(* Accounting *)

NoCharge == <<>>
Nothing == <<>>

Now(S) == CHOOSE t \in S : \A r \in S : t <= r
NextOne(t) == IF todo = {t} THEN Rows ELSE Now(todo \ {t})

\* Mutant: the rebalance's own row, whose return was known when the book was formed.
EarningToday(t) == t .. NextOne(t)

Earning(t) == (t + 1) .. NextOne(t)

\* Mutant: charged when the book is given up.
ChargedLast(t) == NextOne(t)

ChargedOn(t) == t + 1

BacktestInit ==
  /\ runner = "none" /\ strategy = [name |-> "equal", governed |-> FALSE] /\ todo = {}
  /\ held = NoBook
  /\ earned = [d \in 1 .. Rows |-> Nothing]
  /\ charges = [d \in 1 .. Rows |-> NoCharge]
  /\ benchmark = {}

\* index[60 :: rebalance], or not enough history.
Schedules ==
  {S \in {{d \in 1 .. Rows : d > Warmup /\ (d - Warmup - 1) % every = 0} : every \in Every} :
     Cardinality(S) >= MinRebalances}

BeginSimulate ==
  /\ runner = "none" /\ runner' = "engine"
  /\ todo' \in Schedules
  /\ strategy' \in [name : Strategies, governed : BOOLEAN]
  /\ UNCHANGED <<held, earned, charges, benchmark>>

\* At least two rebalances, whatever the command asks for.
Replayable == {S \in Schedules : Cardinality(S) > 1}

BeginReplay ==
  /\ runner = "none" /\ runner' = "replay"
  /\ todo' \in Replayable
  /\ UNCHANGED <<strategy, held, earned, charges, benchmark>>

Charge(t, w) ==
  [from |-> held, to |-> w, days |-> Date[NextOne(t)] - Date[t]]

Hold(t, w) ==
  /\ earned' = [d \in 1 .. Rows |-> IF d \in Earning(t) /\ (runner = "engine" \/ w # NoBook)
                                     THEN [book |-> w, since |-> t] ELSE earned[d]]
  /\ held' = w
  /\ todo' = todo \ {t}
  /\ UNCHANGED <<runner, strategy, benchmark>>

Rebalance ==
  /\ runner = "engine" /\ todo # {}
  /\ LET t == Now(todo)
     IN  \E sig \in Signals, f \in Factors : \E w \in TargetWeights(t, sig, f) :
           /\ Hold(t, w)
           /\ charges' = IF t = Rows THEN charges
                         ELSE [charges EXCEPT ![ChargedOn(t)] = Charge(t, w)]

\* An empty book earns nothing and is dropped from the returns; an unchanged one is free.
Replay ==
  /\ runner = "replay" /\ todo # {}
  /\ LET t == Now(todo)
     IN  \E sig \in Signals, f \in Factors :
           LET w == Lowest(SizedBook(Names, t, sig, f))
           IN  /\ Hold(t, w)
               /\ charges' = IF t = Rows \/ w \in {held, NoBook} THEN charges
                             ELSE [charges EXCEPT ![ChargedOn(t)] = Charge(t, w)]

\* The rows a simulation is summarised over: those after its first rebalance.
Active == (Warmup + 2) .. Rows

\* Held from the first rebalance, and free of costs.  Its daily returns are the changes of its
\* equity, which has no change on the first of the rows.
BuyAndHold ==
  /\ runner = "engine" /\ todo = {} /\ benchmark = {}
  /\ benchmark' = {d \in Active : \E c \in Active : c < d}
  /\ UNCHANGED <<runner, strategy, todo, held, earned, charges>>

BacktestNext == BeginSimulate \/ BeginReplay \/ Rebalance \/ Replay \/ BuyAndHold

-----------------------------------------------------------------------------
BookOf == [n : [Names -> Int], d : Nat \ {0}]

BacktestTypeOK ==
  /\ runner \in {"none", "engine", "replay"}
  /\ strategy \in [name : Strategies, governed : BOOLEAN]
  /\ todo \subseteq 1 .. Rows /\ benchmark \subseteq 1 .. Rows
  /\ held \in BookOf
  /\ earned \in [1 .. Rows -> {Nothing} \cup [book : BookOf, since : 1 .. Rows]]
  /\ charges \in [1 .. Rows -> {NoCharge} \cup [from : BookOf, to : BookOf, days : Nat \ {0}]]

Charged == {d \in 1 .. Rows : charges[d] # NoCharge}
DaysCharged == [d \in Charged |-> charges[d].days]
Latest(S) == CHOOSE d \in S : \A e \in S : e <= d

\* A return is earned by a book decided at an earlier close, on names that had a price by
\* then (engine.py:99, pit.py:106).  The replay sizes over every name of the panel.
DecidedBefore ==
  \A d \in 1 .. Rows : earned[d] # Nothing =>
    LET e == earned[d]
    IN  e.since < d /\ (runner = "engine" => In(e.book) \subseteq Tradable(e.since))

\* Whatever book earned a day has been paid for by then: the charges up to that day lead
\* from cash to it, and in the engine they cover every day of the schedule, so that a short
\* book owes borrow without a gap (engine.py:92-106, costs.py:62).  The benchmark is scored on
\* no day the candidate is not (engine.py:5).
PaidFor ==
  /\ \A d \in 1 .. Rows : earned[d] # Nothing =>
       LET paid == {c \in Charged : c <= d}
       IN  earned[d].book = IF paid = {} THEN NoBook ELSE charges[Latest(paid)].to
  /\ \A d \in Charged :
       LET earlier == {c \in Charged : c < d}
       IN  charges[d].from = IF earlier = {} THEN NoBook ELSE charges[Latest(earlier)].to
  /\ runner = "engine" /\ todo = {} =>
       SumFunctionOnSet(DaysCharged, Charged) = Date[Rows] - Date[Warmup + 1]
  /\ \A d \in benchmark : earned[d] # Nothing
=============================================================================
