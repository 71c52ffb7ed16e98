------------------------------ MODULE Learning ------------------------------
(***************************************************************************)
(* The learning loop: every cycle logs its ranking, later runs grade it    *)
(* against what the names did (runtime/learning.py), the measured IC       *)
(* weights the next composite (cycle.py, scoring.py), two commands report  *)
(* on it, and a replay advances the same loop over history on a store that *)
(* reveals each bar in its time (backtest/replay.py).  Day d is in session *)
(* at clock 2d - 1 and its bar is stamped 2d; a correlation is abstracted  *)
(* to whether it exists and whether it is material.                        *)
(***************************************************************************)
EXTENDS Integers, FiniteSetsExt, Functions

CONSTANTS
  Universe,  \* symbols
  LastDay,   \* bound: the trading days modelled
  Horizon,   \* bars a prediction is graded over
  Close,     \* [Universe \X 1 .. LastDay -> Nat \ {0}]: the closes
  Forming,   \* the same of a session that is not over
  Absent,    \* the bars the daily feed never has
  Scorers,   \* model versions
  MaxPreds   \* bound: the predictions modelled

ASSUME LearnAssumption == LastDay \in Nat /\ Horizon \in Nat /\ "composite" \in Scorers

VARIABLES
  clock, bar, preds,
  weighting,  \* the IC the last composite was weighted by
  mode        \* "live" or "replay"

learnVars == <<clock, bar, preds, weighting, mode>>

Days == 1 .. LastDay
Bars == Universe \X Days
Stamp(d) == 2 * d

-----------------------------------------------------------------------------
\* The panel of the store: one row per day on which any name has a bar.
Index == {d \in Days : \E n \in Universe : bar[<<n, d>>] # "none"}
Price(n, d) == IF bar[<<n, d>>] = "final" THEN Close[<<n, d>>] ELSE Forming[<<n, d>>]

\* The first Horizon rows strictly after t.
Window(t) ==
  LET after == {d \in Index : Stamp(d) > t}
  IN  {d \in after : Cardinality({e \in after : e <= d}) <= Horizon}

\* Mutant: whatever part of the window has formed is graded.
Started(t) == Window(t) # {}

Elapsed(t) == Cardinality(Window(t)) = Horizon

Compounded(f) == FoldFunction(LAMBDA x, y : x * y, 1, f)

\* The compounded return of the window, as the fraction 1 is multiplied by: pct_change has a
\* value where the row and the one before it both have a bar; a missing return counts as flat.
Growth(n, t) ==
  LET rows == Index
      has == {d \in rows : bar[<<n, d>>] # "none"}
      before(d) == Max({e \in rows : e < d})
      held == {d \in Window(t) : d # Min(rows) /\ {d, before(d)} \subseteq has}
  IN  <<Compounded([d \in held |-> Price(n, d)]), Compounded([d \in held |-> Price(n, before(d))])>>

\* The compounded return is positive.
Won(n, t) == Growth(n, t)[1] > Growth(n, t)[2]

\* A name that never had a bar has no column, and is not graded.
Graded(models, logged) ==
  {p \in logged : /\ p.model \in models
                 /\ Elapsed(p.at)
                 /\ \E d \in Days : bar[<<p.name, d>>] # "none"}

\* The self-evaluation's journal: the decisions of a model that can be judged, and how they
\* ended.
Journal(model) == {[about |-> p, won |-> Won(p.name, p.at)] : p \in Graded({model}, preds)}

-----------------------------------------------------------------------------
LearnInit ==
  /\ clock = 0
  /\ bar = [b \in Bars |-> "none"]
  /\ preds = {}
  /\ weighting = "none"
  /\ mode = "live"

Tick ==
  /\ mode = "live" /\ clock < 2 * LastDay
  /\ clock' = clock + 1
  /\ UNCHANGED <<bar, preds, weighting, mode>>

\* The daily bars up to today, with the one of the session in progress or without it.
Ingested(withToday) ==
  [b \in Bars |->
     IF b \in Absent THEN bar[b]
     ELSE IF Stamp(b[2]) <= clock THEN "final"
     ELSE IF withToday /\ Stamp(b[2]) = clock + 1 THEN "forming"
     ELSE bar[b]]

\* Logging is idempotent: a prediction is its name, its time and its model.
Log(t, model, scored) ==
  /\ preds' = preds \cup {[at |-> t, model |-> model, name |-> n] : n \in scored}
  /\ Cardinality(preds') <= MaxPreds

\* Two of the realised returns are not the same.
Differ(G) ==
  \E p, q \in G :
    LET a == Growth(p.name, p.at)
        b == Growth(q.name, q.at)
    IN  a[1] * b[2] # b[1] * a[2]

\* Mutant: the predictions of every scorer count.
GradedOfAll(model, logged) == Differ(Graded(Scorers, logged))

\* _measured_signal_ic: an IC needs outcomes that differ (and a signal that varied).
MeasuredIC(model, logged) == Differ(Graded({model}, logged))

\* _signal_ic_for_weighting: the scorer's own grades, or the offline measurement.
SignalIC(model, logged) ==
  {"offline"} \cup (IF MeasuredIC(model, logged) THEN {"graded"} ELSE {})

\* ic_weighted_scorer: signals below the bar are dropped; when none is left, equal weights.
ICWeighted(measured) == measured \cup {"none"}

\* build_scorer: only the composite is weighted.
Weighting(model, logged) ==
  IF model = "composite" THEN ICWeighted(SignalIC(model, logged)) ELSE {"none"}

DailyCycle ==
  /\ mode = "live"
  /\ \E today \in BOOLEAN : bar' = Ingested(today)
  /\ \E model \in Scorers, scored \in SUBSET Universe :
       /\ \E logged \in {preds} : weighting' \in Weighting(model, logged)'
       /\ Log(clock, model, scored)
  /\ UNCHANGED <<clock, mode>>

\* score-predictions and evaluate: fresh bars, then every graded prediction is reported.
GradingCommand ==
  /\ mode = "live"
  /\ \E today \in BOOLEAN : bar' = Ingested(today)
  /\ UNCHANGED <<clock, preds, weighting, mode>>

\* Another source supplies a bar the daily feed never had.
Backfill ==
  /\ mode = "live"
  /\ \E b \in Absent : /\ Stamp(b[2]) <= clock /\ bar[b] = "none"
                        /\ bar' = [bar EXCEPT ![b] = "final"]
  /\ UNCHANGED <<clock, preds, weighting, mode>>

-----------------------------------------------------------------------------
\* Mutant: the replay's store holds the whole history from the start.
RevealAll(t) == [b \in Bars |-> IF b \in Absent THEN "none" ELSE "final"]

\* What has become known by t.
Reveal(t) == [b \in Bars |-> IF b \in Absent \/ Stamp(b[2]) > t THEN "none" ELSE "final"]

\* One rebalance: reveal, grade, weigh, log.  The schedule is days of the index.
ReplayStep ==
  /\ mode = "replay" \/ (clock = 0 /\ preds = {})
  /\ mode' = "replay"
  /\ \E d \in Days :
       /\ Stamp(d) > clock
       /\ clock' = Stamp(d)
       /\ bar' = Reveal(Stamp(d))
       /\ \E logged \in {preds} : weighting' \in Weighting("composite", logged)'
       /\ \E scored \in SUBSET Universe : Log(Stamp(d), "composite", scored)

LearnNext == Tick \/ DailyCycle \/ GradingCommand \/ Backfill \/ ReplayStep

-----------------------------------------------------------------------------
LearnTypeOK ==
  /\ clock \in 0 .. 2 * LastDay
  /\ bar \in [Bars -> {"none", "forming", "final"}]
  /\ \A p \in preds : p.at \in 0 .. clock /\ p.model \in Scorers /\ p.name \in Universe
  /\ weighting \in {"graded", "offline", "none"} /\ mode \in {"live", "replay"}

\* A step that only appends new days to the panel changes no grade already given: neither the
\* outcome of a prediction in the journal nor the fact that it is there (learning.py:61,
\* _forward_returns_at; evaluation.py:60).  Late and corrected bars may.
Appended == \A b \in Bars : bar'[b] # bar[b] => \A d \in Index : b[2] > d

GradesAreFinal ==
  [][bar' # bar /\ Appended => \A model \in Scorers : Journal(model) \subseteq Journal(model)']_learnVars

\* No prediction is graded against a day that is not over, except, live, one whose session
\* bar the feed delivered while it was forming; the replay never (replay.py:12).
NoFutureGrades ==
  \A p \in Graded(Scorers, preds) : \A d \in Window(p.at) :
    Stamp(d) <= clock \/ (mode = "live" /\ \E n \in Universe : bar[<<n, d>>] = "forming")

\* The composite is weighted by its own track record: not before two predictions of the
\* composite, of whatever cycle, have been followed by a whole horizon of bars
\* (cycle.py:43, _measured_signal_ic).
OwnTrackRecord ==
  weighting = "graded" => \E p, q \in Graded({"composite"}, preds) : p # q
=============================================================================
