------------------------------ MODULE Studies -------------------------------
(***************************************************************************)
(* Event studies (memory/taxonomy.py, study_runner.py, event_study.py):    *)
(* the history is scanned for events, each is anchored at the time it      *)
(* became knowable, its abnormal return is measured over the rows that     *)
(* follow against a model estimated on rows before, and the mean is set    *)
(* against random re-anchorings of the same names; what survives is the    *)
(* gate of the insider sleeve.  Only the recent part of the store is       *)
(* loaded.  Returns are abstracted to the rows they are summed over.  Row  *)
(* i of the price history is dated 2 * i; filings come at any time between *)
(* the first row and the last.                                             *)
(***************************************************************************)
EXTENDS Integers, FiniteSetsExt

CONSTANTS
  Listing,      \* the names
  Panel,        \* number of rows of the price history
  Holes,        \* set of <<name, row>> without a return
  Disclosures,  \* sets of filings the history may hold: [who, kind, done, at]
  Lookbacks, Buffer,  \* rows studied, and rows a gate loads before those
  MinHistory, Step,  \* the scans
  ClusterSize, ClusterWindow,
  Estimation, Gap, Post,
  MaxPermutations, Level

ASSUME StudyAssumption ==
  /\ Panel \in Nat \ {0} /\ {Estimation, Gap, Post, MinHistory, Buffer, MaxPermutations} \subseteq Nat
  /\ {Step, ClusterSize} \subseteq Nat \ {0} /\ ClusterWindow \in Nat /\ Lookbacks \subseteq Nat
  /\ \A D \in Disclosures :
       IsFiniteSet(D) /\ D \subseteq [who : Listing, kind : {"purchase", "leader"}, done : Nat, at : Nat]

VARIABLES
  disclosed, \* the filings in the store: of a trade done then, known at
  first, begun, \* first row loaded, first row scanned
  scan,      \* row of the next scan; 0 before the study
  anchors,   \* the events: [who, kind, at, found]
  fake,      \* the re-anchoring being measured: the position of each event
  tries,     \* re-anchorings made
  drawn, hits, \* those that could be measured, and that did as well as the events
  gate       \* the kinds that passed

studyVars == <<disclosed, first, begun, scan, anchors, fake, tries, drawn, hits, gate>>

Kinds == {"insider_cluster_buy", "leadership_congress_trade"}

-----------------------------------------------------------------------------
(* Detection *)

\* as_of(DISTANT_FUTURE, since): by the time of the trade.
Filings == {f \in disclosed : f.done >= 2 * first}

Buys(fs, who, t) ==
  {f \in fs : f.kind = "purchase" /\ f.who = who /\ f.at <= t /\ f.at > t - ClusterWindow}

\* Mutant: the anchor is the filing that opened the cluster.
OpenedAt(fs) == Min({f.at : f \in fs})

KnownAt(fs) == Max({f.at : f \in fs})

DetectEvents(t) ==
  {[who |-> who, kind |-> "insider_cluster_buy", at |-> KnownAt(Buys(Filings, who, t))] :
     who \in {s \in Listing : Cardinality(Buys(Filings, s, t)) >= ClusterSize}}
  \cup
  {[who |-> f.who, kind |-> "leadership_congress_trade", at |-> f.at] :
     f \in {g \in Filings : g.kind = "leader" /\ g.at <= t}}

\* Mutant: an event is known by the scan that found it.
AlreadySeenInScan(e) == \E a \in anchors : a.who = e.who /\ a.at = e.at /\ a.found = 2 * scan

Seen(e) == \E a \in anchors : a.who = e.who /\ a.kind = e.kind /\ a.at = e.at

-----------------------------------------------------------------------------
(* Measurement: positions count from 0 in the rows the name has a return for *)

Returns == (first + 1) .. Panel
BarsOf(who) == {r \in Returns : <<who, r>> \notin Holes}
Pos(who, at) == Cardinality({r \in BarsOf(who) : 2 * r <= at}) - 1
RowsAt(who, from, to) ==
  {r \in BarsOf(who) : Cardinality({q \in BarsOf(who) : q < r}) \in from .. to}

EstimationRows(who, at) == RowsAt(who, Pos(who, at) - Gap - Estimation, Pos(who, at) - Gap - 1)
EventRows(who, at) == RowsAt(who, Pos(who, at), Pos(who, at) + Post)

\* event_car has an answer.
Measurable(who, at) ==
  /\ Pos(who, at) - Gap - Estimation >= 0
  /\ Pos(who, at) + Post < Cardinality(BarsOf(who))

Low == Estimation + Gap

\* Mutant: a window longer than the history.
HighWithoutPost == Cardinality(Returns) - 1

High == Cardinality(Returns) - Post - 1

\* The date of a position of the panel.
AnchorOf(p) == 2 * (p + Min(Returns))

-----------------------------------------------------------------------------
StudyInit ==
  /\ disclosed = {} /\ first = 1 /\ begun = 0 /\ scan = 0 /\ anchors = {} /\ fake = <<>>
  /\ tries = 0 /\ drawn = 0 /\ hits = 0 /\ gate = {}

\* event-study: nothing older than the lookback is loaded.
StudyBounds(b) ==
  LET from == Max({1, Panel - b}) IN [first |-> from, scan |-> from + MinHistory]

\* The gate: some rows more are loaded, and the scans start with the lookback.
GateBounds(b) ==
  LET from == Max({1, Panel - b - Buffer})
      scans == {from + MinHistory + k * Step : k \in 0 .. Panel}
  IN  [first |-> from, scan |-> Min({r \in scans : r >= Panel - b})]

Collect ==
  /\ scan = 0
  /\ disclosed' \in Disclosures
  /\ \E b \in Lookbacks : \E bounds \in {StudyBounds(b), GateBounds(b)} :
       first' = bounds.first /\ begun' = bounds.scan /\ scan' = begun'
  /\ UNCHANGED <<anchors, fake, tries, drawn, hits, gate>>

Scan ==
  /\ scan \in 1 .. Panel
  /\ anchors' = anchors \cup
       {[who |-> e.who, kind |-> e.kind, at |-> e.at, found |-> 2 * scan] :
          e \in {d \in DetectEvents(2 * scan) : ~Seen(d)}}
  /\ scan' = scan + Step
  /\ UNCHANGED <<disclosed, first, begun, fake, tries, drawn, hits, gate>>

EventsOf(kind) == {a \in anchors : a.kind = kind}
Observed(kind) == {a \in EventsOf(kind) : Measurable(a.who, a.at)}

\* The same events on random dates; the mean over those that can be measured.
Permute(kind) ==
  /\ scan > Panel /\ kind \notin gate /\ tries < MaxPermutations
  /\ tries' = tries + 1
  /\ fake = <<>> \/ \E a \in DOMAIN fake : a.kind = kind
  /\ Cardinality(Observed(kind)) >= 2 /\ Low < High
  /\ fake' \in [EventsOf(kind) -> Low .. High]
  /\ \/ /\ \E a \in EventsOf(kind) : Measurable(a.who, AnchorOf(fake'[a]))
        /\ drawn' = drawn + 1
        /\ hits' \in {hits, hits + 1}
     \/ /\ \A a \in EventsOf(kind) : ~Measurable(a.who, AnchorOf(fake'[a]))
        /\ UNCHANGED <<drawn, hits>>
  /\ UNCHANGED <<disclosed, first, begun, scan, anchors, gate>>

\* p = (1 + hits) / (1 + drawn), at most the level.
Unlikely == (1 + hits) * Level[2] <= Level[1] * (1 + drawn)

\* Of the mean over the events only its sign is kept.
Verdict(kind) ==
  /\ tries = MaxPermutations /\ \E a \in DOMAIN fake : a.kind = kind
  /\ \E drift \in BOOLEAN :
       gate' = IF drift /\ Unlikely THEN gate \cup {kind} ELSE gate
  /\ fake' = <<>> /\ tries' = 0 /\ drawn' = 0 /\ hits' = 0
  /\ UNCHANGED <<disclosed, first, begun, scan, anchors>>

StudyNext == Collect \/ Scan \/ \E kind \in Kinds : Permute(kind) \/ Verdict(kind)

-----------------------------------------------------------------------------
StudyTypeOK ==
  /\ first \in 1 .. Panel /\ scan \in Nat /\ begun \in 0 .. scan
  /\ \A a \in anchors : a.who \in Listing /\ a.kind \in Kinds /\ a.at <= a.found
  /\ \A a \in DOMAIN fake : a \in anchors /\ fake[a] \in Low .. High
  /\ hits <= drawn /\ drawn <= tries /\ tries <= MaxPermutations
  /\ gate \subseteq Kinds

\* An event is counted once however many scans see it, by the time it is anchored at the
\* whole of it had been disclosed, and no cluster is missed because only part of the history
\* was loaded, if its purchases were disclosed soon enough (study_runner.py:75, 46,
\* taxonomy.py:71).
AnchoredWhenKnowable ==
  /\ \A a, b \in anchors : a.who = b.who /\ a.kind = b.kind /\ a.at = b.at => a = b
  /\ \A a \in anchors :
       a.kind = "insider_cluster_buy" => Cardinality(Buys(Filings, a.who, a.at)) >= ClusterSize
  /\ \A row \in {q \in begun .. (scan - 1) : (q - begun) % Step = 0}, who \in Listing :
       LET cluster == Buys(disclosed, who, 2 * row)
       IN  /\ Cardinality(cluster) >= ClusterSize
           /\ \A f \in cluster : f.at - f.done <= 2 * MinHistory - ClusterWindow
           => \E b \in anchors : b.who = who /\ b.at = KnownAt(cluster)

\* The null re-anchors an event only where its own name can be measured, if it never missed a
\* row; and whatever is measured, event or null, has its full window, none of it but the row
\* it is anchored in known by then, and a model that never saw the window
\* (event_study.py:181, 56).
FairNull ==
  \A a \in DOMAIN fake :
    LET at == AnchorOf(fake[a])
    IN  /\ BarsOf(a.who) = Returns => Measurable(a.who, at)
        /\ \A when \in {at, a.at} : Measurable(a.who, when) =>
             /\ Cardinality(EventRows(a.who, when)) = Post + 1
             /\ Cardinality(EstimationRows(a.who, when)) = Estimation
             /\ \A r \in EventRows(a.who, when) : r = Min(EventRows(a.who, when)) \/ 2 * r > when
             /\ \A e \in EstimationRows(a.who, when), r \in EventRows(a.who, when) : e + Gap < r
=============================================================================
