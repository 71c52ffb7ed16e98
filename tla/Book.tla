-------------------------------- MODULE Book --------------------------------
(***************************************************************************)
(* The daily book (runtime/cycle.py, portfolio/sizing.py): a ranking and   *)
(* the exit discipline become a target, the target becomes whole-share     *)
(* orders, sells first, and the names that left the target are sold to     *)
(* nothing.  Scores, volatilities and news are abstracted to the ranking,  *)
(* the raw leaning of the sizing mode, the governor's factor and the marks *)
(* on deteriorating names; the account is the paper broker's.              *)
(***************************************************************************)
EXTENDS Sizing, Sublists

CONSTANTS
  Rankings,   \* the rankings a day may produce, best first; <<>> when nothing scored
  Closes,     \* the closes the venue may mark the account at
  Known,      \* sets of names the store may have a close for
  Marked,     \* sets of names down, broken down or with bad news
  Gapped,     \* sets of names with a hole in their history
  Sleeve,     \* sets of names the sleeves own
  Leaning,    \* raw sizes of the names (inverse volatility, conviction, tilt)
  Governor,   \* target volatility over the book's, as a fraction
  RawBooks,   \* signed books of the strategies that are wrapped, not ranked
  TopQuantile, ExitBand, MaxPositions, RebalanceBand, CapitalCeiling, StartingCash,
  Dollar,     \* one dollar, in the unit the prices and the cash are counted in
  MaxDay      \* bound: the days modelled

ASSUME BookAssumption ==
  /\ Rankings \subseteq {r \in Seq(Names) : IsInjective(r)}
  /\ Closes \subseteq [Names -> Nat \ {0}] /\ Leaning \subseteq [Names -> Nat \ {0}]
  /\ Known \cup Marked \cup Gapped \cup Sleeve \subseteq SUBSET Names
  /\ Governor \subseteq Ratio /\ RawBooks \subseteq [n : [Names -> Int], d : Nat \ {0}]
  /\ {TopQuantile, ExitBand, RebalanceBand} \subseteq Ratio /\ {MaxPositions, MaxDay, Dollar} \subseteq Nat
  /\ CapitalCeiling \in Int /\ StartingCash \in Int

VARIABLES
  day, step,    \* "idle", "scored", "targeted", "trading", "done", "wrapped"
  pos, cash,    \* the account
  before,       \* the account's positions when the day began
  ranked, price, priced, reserved, stopped,
  target,       \* the risk-managed book
  plan,         \* shares still to trade, per name
  skipped,      \* the names whose order of the day was not placed
  deployed      \* the equity the orders were sized on

input == <<before, ranked, price, priced, reserved, stopped>>
bookVars == <<day, step, pos, cash, input, target, plan, skipped, deployed>>

-----------------------------------------------------------------------------
Worth == [s \in Names |-> pos[s] * price[s]]
Equity == cash + SumFunctionOnSet(Worth, Names)

Rank(s) == CHOOSE i \in 1 .. Len(ranked) : ranked[i] = s
Scored == {ranked[i] : i \in 1 .. Len(ranked)}

\* Positions of another sleeve are neither selected nor flattened.
Held == {s \in Names \ reserved : before[s] > 0}

\* Python's round: halves go to the even neighbour.
Round(a, b) ==
  LET q == a \div b
      twice == 2 * (a % b)
  IN  IF twice > b \/ (twice = b /\ q % 2 = 1) THEN q + 1 ELSE q

Capped(k) == IF MaxPositions = 0 THEN k ELSE Least(k, MaxPositions)
EnterK == Capped(Greatest(1, (Len(ranked) * TopQuantile[1]) \div TopQuantile[2]))
ExitK == Least(Len(ranked), Greatest(EnterK, Round(EnterK * ExitBand[1], ExitBand[2])))

Best(k) == SubSeq(ranked, 1, Least(k, Len(ranked)))

HeldKept == Among(Best(ExitK), Held)
Entrants == Among(Best(EnterK), Names \ Held)

\* Mutant: the cap is applied to the ranking, so a better entrant displaces a held name.
SelectByRank ==
  LET chosen == SelectSeq(ranked, LAMBDA s : \/ s \in Held /\ Rank(s) <= ExitK
                                             \/ Rank(s) <= EnterK)
  IN  SubSeq(chosen, 1, Capped(Len(chosen)))

Select ==
  LET chosen == HeldKept \o Entrants
  IN  SubSeq(chosen, 1, Capped(Len(chosen)))

Winners == {s \in Names : \E i \in 1 .. Len(Select) : Select[i] = s} \ (stopped \cup reserved)

\* Mutant: exits are drawn from the whole universe.
StopsOfAll(down, broken, sour, held, prices) == ((down \cup broken) \cap prices) \cup sour

\* Today's exits: past the floor, below the trailing high (both need a price), bad news.
Stops(down, broken, sour, held, prices) == held \cap (((down \cup broken) \cap prices) \cup sour)

-----------------------------------------------------------------------------
BookInit ==
  /\ day = 0 /\ step = "idle"
  /\ pos = [s \in Names |-> 0] /\ cash = StartingCash
  /\ before = pos /\ ranked = <<>> /\ price = [s \in Names |-> 1] /\ priced = {} /\ reserved = {} /\ stopped = {}
  /\ target = NoBook /\ plan = pos /\ skipped = {} /\ deployed = 0

\* Prices, scores, the sleeves' names and the exit discipline are read.
Score ==
  /\ step = "idle" /\ day < MaxDay
  /\ day' = day + 1 /\ step' = "scored"
  /\ before' = pos
  /\ price' \in Closes /\ priced' \in Known
  /\ ranked' \in Rankings
  /\ reserved' \in Sleeve
  /\ \E down, broken, sour \in Marked :
       stopped' = Stops(down, broken, sour, {s \in Names \ reserved' : pos[s] > 0}, priced')
  /\ UNCHANGED <<pos, cash, target, plan, skipped, deployed>>

Targeted(w) ==
  /\ step = "scored"
  /\ step' = "targeted"
  /\ target' = w
  /\ UNCHANGED <<day, pos, cash, input, plan, skipped, deployed>>

\* _trailing_returns: the names with a whole row of returns on every day.
Governable(gaps) == priced \ gaps

\* equal, inverse_vol, conviction
RankedBook ==
  \E lean \in Leaning : Targeted(ApplyRiskLimits(Weigh(Winners, lean), {}))

GovernedBook ==
  \E lean \in Leaning, f \in Governor, gaps \in Gapped :
    Targeted(ApplyRiskLimits(VolTarget(Weigh(Winners, lean), Governable(gaps), f, Limits.gross), {}))

WholeBook ==
  \E lean \in Leaning, f \in Governor, gaps \in Gapped :
    Targeted(ApplyRiskLimits(
      SizeBook((Scored \cap priced) \ (stopped \cup reserved), lean, Governable(gaps), f), {}))

\* RiskManagedStrategy: a backtest's signed book, with the sector map; it is not traded.
Wrapped ==
  /\ step = "idle" /\ day < MaxDay
  /\ \E w \in RawBooks : target' = ApplyRiskLimits(w, Sectors)
  /\ day' = MaxDay /\ step' = "wrapped"
  /\ UNCHANGED <<pos, cash, input, plan, skipped, deployed>>

-----------------------------------------------------------------------------
\* Mutant: only names the ranking still mentions are sold to nothing.
LeftOfRanked == {s \in Held \cap priced \cap Scored : s \notin In(target)}

\* The names the target no longer mentions.
Left == {s \in Held \cap priced : s \notin In(target)}

\* Mutant: shares are rounded to the nearest.
Nearest(s, equity) ==
  LET gap == target.n[s] * equity - pos[s] * price[s] * target.d
      shares == Round(Size(gap), target.d * price[s])
  IN  IF gap > 0 THEN shares ELSE -shares

\* Shares to trade for one name: |weight * equity / price - held|, floored; none inside the
\* no-trade band, and none when they come to less than a dollar.
Delta(s, equity) ==
  LET aim == target.n[s] * equity
      gap == aim - pos[s] * price[s] * target.d
      kept == /\ pos[s] # 0 /\ aim # 0
              /\ Size(gap) * RebalanceBand[2] < RebalanceBand[1] * Size(aim)
      shares == Size(gap) \div (target.d * price[s])
      dust == shares * price[s] < Dollar
  IN  IF kept \/ dust THEN 0 ELSE IF gap > 0 THEN shares ELSE -shares

Plan ==
  /\ step = "targeted"
  /\ step' = "trading"
  /\ deployed' = Least(Equity, CapitalCeiling)
  /\ plan' = [s \in Names |->
               IF s \in priced \cap (In(target) \cup Left) THEN Delta(s, deployed') ELSE 0]
  /\ UNCHANGED <<day, pos, cash, input, target, skipped>>

\* The names whose order is next: sells before buys.
NextInLine ==
  LET sells == {s \in Names : plan[s] < 0}
  IN  IF sells # {} THEN sells ELSE {s \in Names : plan[s] > 0}

Trade(s) ==
  /\ pos' = [pos EXCEPT ![s] = @ + plan[s]]
  /\ cash' = cash - plan[s] * price[s]
  /\ plan' = [plan EXCEPT ![s] = 0]

\* The paper broker fills at once.
Send ==
  /\ step = "trading"
  /\ \E s \in NextInLine : Trade(s)
  /\ UNCHANGED <<day, step, input, target, skipped, deployed>>

\* An order that fails the sanity check, or that the venue refuses, is passed over: the rest
\* of the book still trades.
PassOver ==
  /\ step = "trading"
  /\ \E s \in NextInLine :
       /\ plan' = [plan EXCEPT ![s] = 0]
       /\ skipped' = skipped \cup {s}
  /\ UNCHANGED <<day, step, pos, cash, input, target, deployed>>

\* The rate limiter's cap is reached: the rest of the orders is not sent, the fills stay and
\* the pass returns normally.
RateCapped ==
  /\ step = "trading" /\ NextInLine # {}
  /\ plan' = [s \in Names |-> 0]
  /\ skipped' = skipped \cup {s \in Names : plan[s] # 0}
  /\ UNCHANGED <<day, step, pos, cash, input, target, deployed>>

Finish ==
  /\ step = "trading" /\ NextInLine = {}
  /\ step' = "done"
  /\ UNCHANGED <<day, pos, cash, input, target, plan, skipped, deployed>>

\* The process dies, or anything but a refusal raises, between two orders: the day does not
\* complete.
BreakOff ==
  /\ step = "trading"
  /\ step' = "idle"
  /\ plan' = [s \in Names |-> 0] /\ skipped' = {}
  /\ UNCHANGED <<day, pos, cash, input, target, deployed>>

NextDay ==
  /\ step = "done"
  /\ step' = "idle"
  /\ skipped' = {}
  /\ UNCHANGED <<day, pos, cash, input, target, plan, deployed>>

BookNext ==
  \/ Score \/ RankedBook \/ GovernedBook \/ WholeBook \/ Wrapped
  \/ Plan \/ Send \/ PassOver \/ RateCapped \/ Finish \/ BreakOff \/ NextDay

-----------------------------------------------------------------------------
\* A sell never goes through zero.
BookTypeOK ==
  /\ day \in 0 .. MaxDay
  /\ step \in {"idle", "scored", "targeted", "trading", "done", "wrapped"}
  /\ pos \in [Names -> Int] /\ before \in [Names -> Int] /\ cash \in Int
  /\ price \in [Names -> Nat \ {0}] /\ priced \subseteq Names
  /\ ranked \in Seq(Names) /\ reserved \subseteq Names /\ stopped \subseteq Held
  /\ target \in [n : [Names -> Int], d : Nat \ {0}]
  /\ plan \in [Names -> Int] /\ deployed \in Int /\ skipped \subseteq Names
  /\ \A s \in Names : deployed >= 0 /\ before[s] >= 0 => pos[s] + plan[s] >= 0

\* Whatever the sizing, the strategy and the order in which clipping, gross, sector and net
\* caps interact, the engine's pre-trade check never refuses the target, and no sector
\* outgrows its cap (risk.py: apply_risk_limits against check_order).
NeverRefused ==
  /\ CheckOrder(target)
  /\ step = "wrapped" =>
       \A S \in Sectors : ~Exceeds(Gross(target, S), target.d, Limits.sector)

\* A held name leaves the ranked book only for a reason the strategy states: it fell out of
\* the exit band, a stop fired, or held names ahead of it fill the book; never to make room
\* for a fresh entrant (cycle.py:117, _select_with_hysteresis).
SoldForAReason ==
  step = "scored" =>
    \A s \in Held \ (stopped \cup Winners) :
      \/ s \notin Scored \/ Rank(s) > ExitK
      \/ /\ MaxPositions # 0
         /\ Cardinality({t \in Held \cap Scored : Rank(t) < Rank(s)}) >= MaxPositions

\* After a completed day every position is in the target, reserved by a sleeve, without a
\* price, worth less than the dollar below which no order is sent, or one whose sell was
\* skipped or rate-capped: nothing else that the book dropped lingers (cycle.py:397).
NothingLingers ==
  step = "done" =>
    {s \in priced \ skipped : pos[s] > 0 /\ Worth[s] >= Dollar} \subseteq In(target) \cup reserved

\* What a sell may leave beyond its aim: part of a share, and dust where shares are cheaper
\* than a dollar.
Crumb == [s \in Names |-> IF price[s] < Dollar THEN price[s] + Dollar ELSE price[s]]

\* What the book holds at a completed day's end, orders that were not placed apart, is no
\* more than its target allots to it on the capital it was sized on, except for the crumb
\* that a sell leaves of a name it already held and the drift the no-trade band tolerates
\* (engine.py:129-156).
WithinBudget ==
  step = "done" =>
    LET own == priced \ (reserved \cup skipped)
        worth == SumFunctionOnSet(Worth, own)
        residue == SumFunctionOnSet(Crumb, Held \cap own)
    IN  (worth - residue) * target.d * RebalanceBand[2]
          <= Gross(target, Names) * Size(deployed) * (RebalanceBand[1] + RebalanceBand[2])
=============================================================================
