------------------------------ MODULE Factory -------------------------------
(***************************************************************************)
(* The language-model signal factory (collectors/llm_features.py,          *)
(* reasoning/budget.py, extraction.py, agents.py, features/llm.py): a      *)
(* sweep asks the budgeted model about each name with recent headlines     *)
(* and stores what it could parse, while the news threads and the daily    *)
(* cycle go on; a panel of analysts makes one number of several replies.   *)
(* Headlines are the times they were published at.                         *)
(***************************************************************************)
EXTENDS Integers, FiniteSetsExt, Functions, Sequences

CONSTANTS
  Symbols,     \* the names in the order of the sweep
  Budget,      \* completions a process may ask for
  NewsWindow,  \* age at which a headline is no longer read
  ReadWindow,  \* age at which a stored signal is no longer used
  MaxHour, MaxSweeps, \* bounds: the clock, the invocations
  Grid,      \* the grid of scores: -Grid .. Grid, confidences 0 .. Grid
  RiskWeight   \* of the panel, a fraction

\* The manager clips its weight to [0, 1].
ASSUME FactoryAssumption ==
  /\ {NewsWindow, ReadWindow, MaxHour, Budget, Grid} \subseteq Nat /\ Grid # 0
  /\ Symbols \in Seq(Range(Symbols))
  /\ RiskWeight \in Nat \X (Nat \ {0}) /\ RiskWeight[1] <= RiskWeight[2]

VARIABLES
  hour,
  headlines,  \* those published: <<name, hour>>
  sweep,      \* "idle", "asking", "storing"
  asOf,       \* when the sweep read its headlines
  heads,      \* the headlines it read
  left,       \* the names left to ask about
  calls,      \* the provider's count
  extracted,  \* what it has so far
  signals,    \* llm.signal: name, knowledge_time, when it was stored, what it rests on
  sweeps,
  views       \* of the panel: the analysts' scores and confidences

factoryVars == <<hour, headlines, sweep, asOf, heads, left, calls, extracted, signals, sweeps, views>>

Swept == Range(Symbols)
Directional == {"news", "technical"}
Roles == Directional \cup {"risk"}
View == [score : (-Grid) .. Grid, confidence : 0 .. Grid]
Neutral == [score |-> 0, confidence |-> 0]
NoPanel == [r \in {} |-> Neutral]

-----------------------------------------------------------------------------
(* The sweep *)

FactoryInit ==
  /\ hour = 0 /\ headlines = {}
  /\ sweep = "idle" /\ asOf = 0 /\ heads = {} /\ left = <<>> /\ calls = 0
  /\ extracted = {} /\ signals = {} /\ sweeps = 0
  /\ views = NoPanel

Hour ==
  /\ views = NoPanel
  /\ hour < MaxHour
  /\ hour' = hour + 1
  /\ UNCHANGED <<headlines, sweep, asOf, heads, left, calls, extracted, signals, sweeps, views>>

Publish(s) ==
  /\ views = NoPanel
  /\ headlines' = headlines \cup {<<s, hour>>}
  /\ UNCHANGED <<hour, sweep, asOf, heads, left, calls, extracted, signals, sweeps, views>>

\* headlines_by_symbol, at the sweep's own time.
BeginSweep ==
  /\ sweep = "idle" /\ sweeps < MaxSweeps /\ views = NoPanel
  /\ sweep' = "asking" /\ sweeps' = sweeps + 1
  /\ asOf' = hour
  /\ heads' = {h \in headlines : h[2] > hour - NewsWindow}
  /\ left' = Symbols /\ calls' = 0 /\ extracted' = {}
  /\ UNCHANGED <<hour, headlines, signals, views>>

\* Mutant: the headlines of a name are read when its turn comes.
ReadLate(s) == {h[2] : h \in {n \in headlines : n[1] = s}}

Read(s) == {h[2] : h \in {n \in heads : n[1] = s}}

\* BudgetedProvider: counted in the process, not over the day.
Affordable == calls < Budget

\* A name without headlines costs nothing.
Skip ==
  /\ sweep = "asking" /\ left # <<>> /\ Read(Head(left)) = {}
  /\ left' = Tail(left)
  /\ UNCHANGED <<hour, headlines, sweep, asOf, heads, calls, extracted, signals, sweeps, views>>

\* The call is counted before it is made, whatever becomes of it.  A reply that cannot be
\* parsed and a provider error leave no signal.
Ask ==
  /\ sweep = "asking" /\ left # <<>> /\ Read(Head(left)) # {} /\ Affordable
  /\ calls' = calls + 1
  /\ left' = Tail(left)
  /\ \E parsed \in BOOLEAN :
       extracted' = IF parsed THEN extracted \cup {[who |-> Head(left), known |-> asOf, from |-> Read(Head(left))]}
                    ELSE extracted
  /\ UNCHANGED <<hour, headlines, sweep, asOf, heads, signals, sweeps, views>>

\* The names are done, or the budget is spent on one that has headlines.
Stop ==
  /\ sweep = "asking"
  /\ left # <<>> => (Read(Head(left)) # {} /\ ~Affordable)
  /\ sweep' = "storing"
  /\ UNCHANGED <<hour, headlines, asOf, heads, left, calls, extracted, signals, sweeps, views>>

\* One ingest of the whole batch.
Store ==
  /\ sweep = "storing"
  /\ signals' = signals \cup {[who |-> e.who, known |-> e.known, written |-> hour, from |-> e.from] : e \in extracted}
  /\ sweep' = "idle"
  /\ UNCHANGED <<hour, headlines, asOf, heads, left, calls, extracted, sweeps, views>>

\* Killed, or the ingest fails: every reply is lost.
Lose ==
  /\ sweep \in {"asking", "storing"}
  /\ sweep' = "idle"
  /\ UNCHANGED <<hour, headlines, asOf, heads, left, calls, extracted, signals, sweeps, views>>

-----------------------------------------------------------------------------
(* The panel *)

Voters(v) == {r \in Directional \cap DOMAIN v : v[r].confidence > 0}
Weight(v) == SumFunctionOnSet([r \in Voters(v) |-> v[r].confidence], Voters(v))
Votes(v) == SumFunctionOnSet([r \in Voters(v) |-> v[r].score * v[r].confidence], Voters(v))

Far(x) == IF x < 0 THEN -x ELSE x

\* Mutant: an analyst that abstained counts in the mean confidence.
MeanOfAll(v) == <<Weight(v), Grid * Cardinality(Directional \cap DOMAIN v)>>

MeanConfidence(v) == <<Weight(v), Grid * Cardinality(Voters(v))>>

Deviations(v) == [r \in Voters(v) |-> Far(v[r].score * Weight(v) - Votes(v)) * v[r].confidence]

\* One minus half the weighted deviation from the combined score Votes / Weight.
Agreement(v) ==
  LET whole == 2 * Weight(v) * Weight(v) * Grid
  IN  <<whole - SumFunctionOnSet(Deviations(v), Voters(v)), whole>>

\* Danger in the sign of the risk analyst's score, blended by its confidence.
Damping(v) ==
  IF "risk" \in DOMAIN v /\ v["risk"].confidence > 0
  THEN LET whole == RiskWeight[2] * 2 * Grid * Grid
       IN  <<whole - v["risk"].confidence * RiskWeight[1] * (Grid - v["risk"].score), whole>>
  ELSE <<1, 1>>

\* Score over Weight * Grid, confidence as a fraction.
Synthesize(v) ==
  IF Voters(v) = {} THEN [score |-> <<0, 1>>, confidence |-> <<0, 1>>]
  ELSE [score |-> <<Votes(v), Weight(v) * Grid>>,
        confidence |-> <<MeanConfidence(v)[1] * Agreement(v)[1] * Damping(v)[1],
                         MeanConfidence(v)[2] * Agreement(v)[2] * Damping(v)[2]>>]

\* An unparseable or failing analyst is neutral; a spent budget leaves no panel.  A panel
\* shares no state with a sweep: its behaviours are those where nothing else happens.
RunPanel ==
  /\ sweep = "idle" /\ views = NoPanel /\ hour = 0 /\ headlines = {} /\ sweeps = 0
  /\ \E asked \in SUBSET Roles \ {{}} : views' \in [asked -> View]
  /\ UNCHANGED <<hour, headlines, sweep, asOf, heads, left, calls, extracted, signals, sweeps>>

FactoryNext ==
  \/ Hour \/ BeginSweep \/ Skip \/ Ask \/ Stop \/ Store \/ Lose \/ RunPanel
  \/ \E s \in Swept : Publish(s)

-----------------------------------------------------------------------------
FactoryTypeOK ==
  /\ hour \in 0 .. MaxHour /\ asOf <= hour
  /\ sweep \in {"idle", "asking", "storing"}
  /\ calls \in 0 .. Budget
  /\ \A g \in signals : g.who \in Swept /\ g.known <= g.written /\ g.written <= hour
  /\ DOMAIN views \subseteq Roles

\* The features at t: the latest read of the window.
Used(s, t, rows) ==
  LET reads == {g \in rows : g.who = s /\ g.known <= t /\ g.known > t - ReadWindow}
  IN  {g \in reads : \A o \in reads : o.known <= g.known}

\* Replayed at any time, a signal rests on headlines that had been published by then and were
\* fresh, though the reply came later (llm_features.py:95, features/llm.py:33).
NoHindsight ==
  \A s \in Swept, t \in 0 .. MaxHour : \A g \in Used(s, t, signals) :
    g.from # {} /\ \A h \in g.from : h <= t /\ h > t - NewsWindow - ReadWindow /\ h <= g.known

\* a / b <= c / d for positive denominators
AtMost(x, y) == x[1] * y[2] <= y[1] * x[2]

\* An analyst that failed is as good as one that was not asked, and the risk analyst lowers
\* the conviction and never the score (agents.py:221, 241).
PanelOnlyDamps ==
  views # NoPanel =>
    LET sane == {r \in DOMAIN views : views[r].confidence > 0}
        full == Synthesize(views)
        spoke == Synthesize(Restrict(views, sane))
        calm == Synthesize(Restrict(views, DOMAIN views \ {"risk"}))
    IN  /\ AtMost(full.confidence, spoke.confidence) /\ AtMost(spoke.confidence, full.confidence)
        /\ full.score = spoke.score /\ full.score = calm.score
        /\ AtMost(<<0, 1>>, full.confidence) /\ AtMost(full.confidence, calm.confidence)
        /\ AtMost(calm.confidence, <<1, 1>>)
=============================================================================
