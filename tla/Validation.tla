----------------------------- MODULE Validation -----------------------------
(***************************************************************************)
(* What a signal or a model must pass (runtime/scoring.py, signal_ic.py,   *)
(* forecasting/dataset.py, backtest/splitters.py, multiple_testing.py):    *)
(* the forecaster is scored by purged cross-validation on samples taken    *)
(* from the price history and set against a baseline; a family of signals  *)
(* is measured on dates of the history, or of its sealed tail, and         *)
(* corrected for its size.  A sample is a name on a decision date; its     *)
(* label is realised over the next Ahead rows, and the purge only knows a  *)
(* bound of that in calendar days.                                         *)
(***************************************************************************)
EXTENDS Integers, FiniteSetsExt, Sequences

CONSTANTS
  Weeks,            \* calendar weeks of history, five sessions each
  Holidays,         \* sets of sessions that may not be held
  Ahead,            \* horizon_days: rows a label looks ahead
  Stride, MaxDates, \* the training schedule
  Members,          \* names of a decision date, numbered
  Splits,           \* numbers of folds
  Embargoes,        \* samples dropped after the test fold
  Family,           \* the candidate signals
  BurnIn, Spacings, \* rows before the first date a signal is measured on, rows between two
  SealedShare,      \* share of the history in the holdout, a fraction
  Alpha, PValues    \* in the same unit

ASSUME ValidationAssumption ==
  /\ Weeks \in Nat /\ Splits \subseteq Nat \ {0, 1} /\ Embargoes \subseteq Nat
  /\ {Ahead, Stride, Members} \cup Spacings \subseteq Nat \ {0} /\ {MaxDates, BurnIn, Alpha} \subseteq Nat
  /\ IsFiniteSet(Family) /\ PValues \subseteq Nat

VARIABLES
  sessions,  \* the days of the panel's rows
  folds,     \* number of folds; 0 before the split, or when a family is tested
  embargo,
  fold,      \* the current one
  train,     \* positions of the samples it trains on
  scored,    \* the folds with an AUC
  scorer,    \* what the comparison recommends; "none" before
  spacing, measuredOn, \* the dates a family is measured on, and how far apart
  pvalue,    \* of the measured signals
  fdr, bonferroni  \* the signals that pass

splitVars == <<folds, embargo, fold, train, scored, scorer>>
familyVars == <<pvalue, fdr, bonferroni>>
validationVars == <<sessions, splitVars, spacing, measuredOn, familyVars>>

-----------------------------------------------------------------------------
(* Samples *)

Calendar == 1 .. 7 * Weeks
Weekdays == {d \in Calendar : d % 7 \notin {6, 0}}

\* There is a history; and no closure is so long that twice as many days as the horizon has
\* rows hold fewer sessions than that but one ("generous bound for purging", dataset.py:79).
ASSUME CalendarAssumption ==
  \A H \in Holidays :
    /\ Weekdays \ H # {}
    /\ \A d \in Calendar : d + 2 * Ahead \in Calendar =>
         Ahead <= 1 + Cardinality({e \in Weekdays \ H : d < e /\ e <= d + 2 * Ahead})

RowOf(d) == Cardinality({e \in sessions : e <= d})
DayOf(i) == CHOOSE d \in sessions : RowOf(d) = i

\* dates[::every][-max_dates:]
Sampled == {d \in sessions : (RowOf(d) - 1) % Stride = 0}
Decisions == {d \in Sampled : Cardinality({e \in Sampled : e > d}) < MaxDates}

\* A date has a label when a row follows it; at the end the window is cut short.
Labelled == {d \in Decisions : RowOf(d) < Cardinality(sessions)}
LabelEnd(d) == DayOf(IF RowOf(d) + Ahead <= Cardinality(sessions)
                     THEN RowOf(d) + Ahead ELSE Cardinality(sessions))

\* Mutant: as if a session were a day.
TightTime(d) == d + Ahead

\* The bound of the label's end that purging goes by.
LabelTime(d) == d + 2 * Ahead

\* Samples in order of their date.
Samples == Cardinality(Labelled) * Members
DateOf(i) ==
  CHOOSE d \in Labelled : Cardinality({e \in Labelled : e < d}) = (i - 1) \div Members

-----------------------------------------------------------------------------
(* The split *)

\* np.array_split: the first folds are one longer.
FoldEnd(k) ==
  k * (Samples \div folds) + (IF k < Samples % folds THEN k ELSE Samples % folds)

TestOf(k) == (FoldEnd(k - 1) + 1) .. FoldEnd(k)

\* Mutant: an embargo on either side of the fold and no purge.
Unpurged(k) ==
  {i \in (1 .. Samples) \ TestOf(k) : i < FoldEnd(k - 1) - embargo \/ i > FoldEnd(k) + embargo}

Train(k) ==
  LET test == {DateOf(i) : i \in TestOf(k)}
      from == CHOOSE d \in test : \A e \in test : d <= e
      to == LabelTime(CHOOSE d \in test : \A e \in test : e <= d)
  IN  {i \in (1 .. Samples) \ TestOf(k) :
         /\ ~(LabelTime(DateOf(i)) >= from /\ DateOf(i) <= to)
         /\ i \notin (FoldEnd(k) + 1) .. (FoldEnd(k) + embargo)}

-----------------------------------------------------------------------------
(* The family *)

\* holdout_start: the first day of the sealed tail of the history.
SealedFrom ==
  LET n == Cardinality(sessions)
  IN  DayOf(Min({n, 1 + (n * (SealedShare[2] - SealedShare[1])) \div SealedShare[2]}))

\* _forward_returns_at: nothing before the whole horizon has followed.
Matured(d) == RowOf(d) + Ahead <= Cardinality(sessions)

\* The dates a signal can be measured on, dates[warmup::every][-max_dates:] from since on.
MeasuredDates(every, since) ==
  LET grid == {d \in sessions : RowOf(d) > BurnIn /\ (RowOf(d) - 1 - BurnIn) % every = 0}
  IN  {d \in grid : /\ Cardinality({e \in grid : e > d}) < MaxDates
                    /\ d >= since /\ Matured(d)}

NoFamily == [s \in {} |-> 0]

Significant(p, m, k) == p * m <= k * Alpha

\* The rank of a signal, ties in the order of the dictionary.
Ranks(p) ==
  {rank \in [DOMAIN p -> 1 .. Cardinality(DOMAIN p)] :
     \A s, r \in DOMAIN p : s # r => rank[s] # rank[r] /\ (p[s] < p[r] => rank[s] < rank[r])}

\* Mutant: stops at the first rank above the line.
FirstFailure(p, rank) ==
  LET m == Cardinality(DOMAIN p)
  IN  {s \in DOMAIN p : \A r \in DOMAIN p :
         rank[r] <= rank[s] => Significant(p[r], m, rank[r])}

BenjaminiHochberg(p, rank) ==
  LET m == Cardinality(DOMAIN p)
  IN  {s \in DOMAIN p : \E r \in DOMAIN p :
         rank[s] <= rank[r] /\ Significant(p[r], m, rank[r])}

ValidationInit ==
  /\ sessions = {} /\ folds = 0 /\ embargo = 0 /\ fold = 0 /\ train = {}
  /\ scored = {} /\ scorer = "none" /\ spacing = 0 /\ measuredOn = {}
  /\ pvalue = NoFamily /\ fdr = {} /\ bonferroni = {}

BuildTrainingSet ==
  /\ sessions = {}
  /\ \E H \in Holidays : sessions' = Weekdays \ H
  /\ folds' \in Splits /\ embargo' \in Embargoes
  /\ UNCHANGED <<fold, train, scored, scorer, spacing, measuredOn, familyVars>>

\* An empty fold is skipped; so is one whose training or test labels are all alike.
Fold ==
  /\ fold < folds
  /\ fold' = fold + 1
  /\ train' = IF TestOf(fold + 1) = {} THEN {} ELSE Train(fold + 1)
  /\ \/ UNCHANGED scored
     \/ /\ Cardinality(train') > 1 /\ Cardinality(TestOf(fold + 1)) > 1
        /\ scored' = scored \cup {fold + 1}
  /\ UNCHANGED <<sessions, folds, embargo, scorer, spacing, measuredOn, familyVars>>

\* validate-forecaster's verdict on the mean AUC of the folds: strictly better than the
\* baseline's, which the mean of no fold is not.
Recommended == {"composite"} \cup (IF scored = {} THEN {} ELSE {"forecast"})

CompareToBaseline ==
  /\ folds > 0 /\ fold = folds /\ scorer = "none"
  /\ scorer' \in Recommended
  /\ UNCHANGED <<sessions, folds, embargo, fold, train, scored, spacing, measuredOn, familyVars>>

\* signal-ic, over the history or its sealed tail.
MeasureFamily ==
  /\ sessions = {}
  /\ \E H \in Holidays : sessions' = Weekdays \ H
  /\ spacing' \in Spacings
  /\ \E sealed \in BOOLEAN :
       measuredOn' = MeasuredDates(spacing, IF sealed THEN SealedFrom ELSE 0)'
  /\ UNCHANGED <<splitVars, familyVars>>

\* Only the signals that could be measured on some date count as trials.
CorrectFamily ==
  /\ measuredOn # {} /\ pvalue = NoFamily
  /\ \E measured \in SUBSET Family \ {{}} : pvalue' \in [measured -> PValues]
  /\ \E rank \in Ranks(pvalue') : fdr' = BenjaminiHochberg(pvalue', rank)
  /\ bonferroni' = {s \in DOMAIN pvalue' : Significant(pvalue'[s], Cardinality(DOMAIN pvalue'), 1)}
  /\ UNCHANGED <<sessions, splitVars, spacing, measuredOn>>

ValidationNext ==
  BuildTrainingSet \/ Fold \/ CompareToBaseline \/ MeasureFamily \/ CorrectFamily

-----------------------------------------------------------------------------
ValidationTypeOK ==
  /\ sessions \subseteq Weekdays
  /\ folds \in Splits \cup {0} /\ fold \in 0 .. folds /\ embargo \in Embargoes \cup {0}
  /\ train \subseteq 1 .. Samples /\ scored \subseteq 1 .. fold
  /\ scorer \in {"none", "composite"} \/ scored # {}
  /\ measuredOn \subseteq sessions
  /\ fdr \subseteq DOMAIN pvalue /\ bonferroni \subseteq DOMAIN pvalue

\* No row is in the returns of two looks that are counted apart: whatever a fold trains on has
\* its label realised by the day of a tested sample, or begins when that one's is, weekends and
\* long closures included (splitters.py:82, dataset.py:79); the dates a signal is measured on
\* have their whole horizon behind them and, when sampled that far apart, none of it in common
\* (signal_ic.py:76).
NoLeak ==
  /\ fold > 0 => \A i \in train, j \in TestOf(fold) :
       \/ LabelEnd(DateOf(i)) <= DateOf(j)
       \/ LabelEnd(DateOf(j)) <= DateOf(i)
  /\ \A d \in measuredOn : Cardinality({e \in sessions : d < e /\ e <= LabelEnd(d)}) = Ahead
  /\ spacing >= Ahead => \A d, e \in measuredOn : d < e => LabelEnd(d) <= e

\* What passes is the largest set in which each p-value bears a false share of Alpha, however
\* ties were ordered, and it holds whatever passes family-wise (multiple_testing.py:38).
LargestRejection ==
  /\ fdr = UNION {R \in SUBSET DOMAIN pvalue :
                    \A s \in R : Significant(pvalue[s], Cardinality(DOMAIN pvalue), Cardinality(R))}
  /\ bonferroni \subseteq fdr
=============================================================================
