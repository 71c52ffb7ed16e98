------------------------------- MODULE Sleeves -------------------------------
(***************************************************************************)
(* The event sleeves beside the daily book, on one account and one store:  *)
(* runtime/news_sleeve.py (a thread of its own), runtime/insider_sleeve.py *)
(* with insider_events.py (run by the daily thread after the book, under   *)
(* the same as_of, or alone from the command line), and the part of        *)
(* runtime/cycle.py that reserves the sleeves' names.                      *)
(*                                                                         *)
(* A sleeve keeps what it owns in store rows, written before the broker is *)
(* asked.  Every row, every read and every order is a step, the engine's   *)
(* reads of positions and of open orders included.  Holdings are whole     *)
(* units, each worth an order: partial fills, bands and dust are           *)
(* Execution's subject, not repeated here.                                 *)
(***************************************************************************)
EXTENDS Integers, FiniteSets, Functions

CONSTANTS
  Symbol, Story,
  NewsNames, InsiderNames,  \* news_sleeve_max_names, insider_sleeve_max_names
  NewsHold, InsiderHold,    \* *_hold_days, in ticks of the clock
  Cooldown,                 \* news_sleeve_cooldown_days, in the same ticks
  BookUnits, NewsUnits, InsiderUnits,  \* what a target weight buys of a name
  Quotable,                 \* the sets of names that may have a price in a pass
  MaxClock                  \* bound: the last as_of that is handed out

ASSUME SleevesAssumption ==
  /\ IsFiniteSet(Symbol)
  /\ NewsNames \in Nat /\ InsiderNames \in Nat
  /\ NewsHold \in Nat \ {0} /\ InsiderHold \in Nat \ {0} /\ Cooldown \in Nat
  /\ BookUnits \in Nat \ {0} /\ NewsUnits \in Nat \ {0} /\ InsiderUnits \in Nat \ {0}
  /\ Quotable \subseteq SUBSET Symbol
  /\ MaxClock \in Nat

VARIABLES
  clock,     \* the last as_of handed out
  newsRows,  \* sleeve.news_position observations
  insRows,   \* sleeve.insider_position observations
  held,      \* settled units, per name
  working,   \* orders the broker has taken and not finished
  \* one pass of a thread
  pc, asOf, priced, down, target, plan, used,
  seen,      \* the positions its engine has read
  events,    \* what the pass detected and has still to look at
  reserved,  \* the daily pass's reserved names
  \* history
  book,      \* the names the last daily book selected
  clean,     \* since the last daily pass began nobody else acted and nothing failed
  excused    \* an order was dropped, two engines had plans at the same time, or a
             \* sell filled between the two reads of an engine that aims at its name

rows == <<newsRows, insRows>>
account == <<held, working>>
input == <<asOf, priced, down>>
history == <<book, clean, excused>>
vars == <<clock, rows, account, pc, input, target, plan, seen, used, events,
          reserved, history>>

-----------------------------------------------------------------------------
Thread == {"news", "daily"}
Stage == {"idle", "closing", "opening", "engine", "reading", "sending",
          "reserving", "booking", "insClosing", "insOpening", "insEngine",
          "insReading", "insSending"}

NoTarget == [s \in {} |-> 0]
Nothing == [s \in Symbol |-> 0]
NewsRow == [sym : Symbol, at : Nat, status : {"open", "closed"},
            story : Story, exit : Nat]
InsRow == [sym : Symbol, at : Nat, status : {"open", "closed"}, exit : Nat]

Known(R, t) == {r \in R : r.at <= t}
Opens(R) == {r \in R : r.status = "open"}
Closes(R) == {r \in R : r.status = "closed"}
SymsOf(R) == {r.sym : r \in R}

\* _latest_by_symbol: the rows with the greatest event_time of a name.  A close and
\* a reopening of one pass carry the same one; the store returns them as written.
Newest(R, s) == {r \in R : r.sym = s /\ \A q \in R : q.sym = s => q.at <= r.at}

\* The news reader keeps the first of a tie (">"), so the close; the insider reader
\* the last (">="), so the reopening.
OwnedByNews(R) == {s \in SymsOf(R) : Newest(R, s) \subseteq Opens(R)}
OwnedByInsider(R) == {s \in SymsOf(R) : Newest(R, s) \cap Opens(R) # {}}

ActiveNews == OwnedByNews(newsRows)
ActiveInsider == OwnedByInsider(insRows)

Quantities == [o \in working |-> o.qty]
Working(s) == SumFunctionOnSet(Quantities, {o \in working : o.sym = s})
Effective(s) == held[s] + Working(s)

Goto(t, stage) == pc' = [pc EXCEPT ![t] = stage]

\* A pass is over, whether it returned or raised into its loop.
EndPass(t) ==
  /\ Goto(t, "idle")
  /\ asOf' = [asOf EXCEPT ![t] = 0]
  /\ priced' = [priced EXCEPT ![t] = {}]
  /\ down' = [down EXCEPT ![t] = {}]
  /\ target' = [target EXCEPT ![t] = NoTarget]
  /\ plan' = [plan EXCEPT ![t] = {}]
  /\ seen' = [seen EXCEPT ![t] = Nothing]
  /\ used' = [used EXCEPT ![t] = {}]
  /\ events' = [events EXCEPT ![t] = {}]
  /\ reserved' = IF t = "daily" THEN {} ELSE reserved

Init ==
  /\ clock = 0
  /\ newsRows = {} /\ insRows = {}
  /\ held = Nothing
  /\ working = {}
  /\ pc = [t \in Thread |-> "idle"]
  /\ asOf = [t \in Thread |-> 0]
  /\ priced = [t \in Thread |-> {}]
  /\ down = [t \in Thread |-> {}]
  /\ target = [t \in Thread |-> NoTarget]
  /\ plan = [t \in Thread |-> {}]
  /\ seen = [t \in Thread |-> Nothing]
  /\ used = [t \in Thread |-> {}]
  /\ events = [t \in Thread |-> {}]
  /\ reserved = {} /\ book = {}
  /\ clean = FALSE /\ excused = FALSE

\* as_of = utcnow(), the prices, and which owned names sit below their stop.
Begin(t, stage, owned) ==
  /\ pc[t] = "idle" /\ clock < MaxClock
  /\ clock' = clock + 1
  /\ asOf' = [asOf EXCEPT ![t] = clock + 1]
  /\ \E P \in Quotable : \E D \in SUBSET (P \cap owned) :
       priced' = [priced EXCEPT ![t] = P] /\ down' = [down EXCEPT ![t] = D]
  /\ Goto(t, stage)
  /\ UNCHANGED <<rows, account, target, plan, seen, used, reserved, book, excused>>

\* Mutant: the target is what is still to buy.
AimGap(t, s, units) ==
  target' = [target EXCEPT ![t] = [x \in DOMAIN @ \cup {s} |->
                                     IF x = s THEN units - held[s] ELSE @[x]]]

\* target[sym] = w of the pass's rebalance.
Aim(t, s, units) ==
  target' = [target EXCEPT ![t] = [x \in DOMAIN @ \cup {s} |->
                                     IF x = s THEN units ELSE @[x]]]

-----------------------------------------------------------------------------
(* The news sleeve.  It alone writes newsRows, so what it read when the pass *)
(* began (active, acted, last_action) is the rows older than the pass.       *)

OldNews == {r \in newsRows : r.at < asOf["news"]}
NewNews == {r \in newsRows : r.at = asOf["news"]}
\* Mutant: only the stories of positions still open count as acted on.
ActedWhileOpen == {r.story : r \in {q \in OldNews : q.sym \in OwnedByNews(OldNews)}}
Acted == {r.story : r \in OldNews}
LiveNews == (OwnedByNews(OldNews) \ SymsOf(Closes(NewNews))) \cup SymsOf(Opens(NewNews))

\* as_of - last_action[sym] < cooldown
CoolingDown(s) ==
  \E r \in Newest(OldNews, s) : asOf["news"] - r.at < Cooldown

\* detect_news_events: at most one event per name, named by its latest story; only
\* those with a positive tone and enough confidence are kept here.
Detections == UNION {{{<<s, f[s]>> : s \in S} : f \in [S -> Story]} : S \in SUBSET Symbol}

\* feed.fetch_recent, ingest, and what the store then holds.
NewsStart ==
  /\ Begin("news", "closing", ActiveNews)
  /\ \E E \in Detections : events' = [events EXCEPT !["news"] = E]
  /\ clean' = FALSE

\* Mutant: an off-by-one at the end of the window.
OverdueNews ==
  {r \in OldNews :
     /\ r.sym \in OwnedByNews(OldNews) /\ r \in Newest(OldNews, r.sym)
     /\ r.exit < asOf["news"] \/ r.sym \in down["news"]}

\* Past the drift window, or stopped out.
DueNews ==
  {r \in OldNews :
     /\ r.sym \in OwnedByNews(OldNews) /\ r \in Newest(OldNews, r.sym)
     /\ r.exit <= asOf["news"] \/ r.sym \in down["news"]}

NewsClose ==
  /\ pc["news"] = "closing"
  /\ \E r \in DueNews :
       /\ r.sym \notin SymsOf(Closes(NewNews))
       /\ Aim("news", r.sym, 0)
       /\ newsRows' = newsRows \cup {[sym |-> r.sym, at |-> asOf["news"],
                                      status |-> "closed", story |-> r.story,
                                      exit |-> 0]}
  /\ UNCHANGED <<clock, insRows, account, pc, input, plan, seen, used, events,
                 reserved, history>>

NewsClosed ==
  /\ pc["news"] = "closing"
  /\ SymsOf(DueNews) \subseteq SymsOf(Closes(NewNews))
  /\ Goto("news", "opening")
  /\ UNCHANGED <<clock, rows, account, input, target, plan, seen, used, events,
                 reserved, history>>

Fresh(s, h) ==
  /\ s \in priced["news"]
  /\ h \notin Acted /\ s \notin LiveNews
  /\ ~CoolingDown(s)

\* One event of the loop, most confident first (the order is left open).  The row is
\* written, and the prediction logged, before any order goes out.
NewsOpen ==
  /\ pc["news"] = "opening"
  /\ Cardinality(LiveNews) < NewsNames
  /\ \E e \in events["news"] :
       /\ Fresh(e[1], e[2])
       /\ events' = [events EXCEPT !["news"] = @ \ {e}]
       /\ Aim("news", e[1], NewsUnits)
       /\ newsRows' = newsRows \cup {[sym |-> e[1], at |-> asOf["news"],
                                      status |-> "open", story |-> e[2],
                                      exit |-> asOf["news"] + NewsHold]}
  /\ UNCHANGED <<clock, insRows, account, pc, input, plan, seen, used, reserved,
                 history>>

\* No slot or no event is left: execute, if anything is to be executed.
NewsOpened ==
  /\ pc["news"] = "opening"
  /\ Cardinality(LiveNews) >= NewsNames \/ \A e \in events["news"] : ~Fresh(e[1], e[2])
  /\ IF target["news"] = NoTarget
     THEN EndPass("news")
     ELSE /\ Goto("news", "engine") /\ events' = [events EXCEPT !["news"] = {}]
          /\ UNCHANGED <<input, target, plan, seen, used, reserved>>
  /\ UNCHANGED <<clock, rows, account, history>>

-----------------------------------------------------------------------------
(* The daily thread: the book, then the insider sleeve under the same as_of. *)

DailyStart ==
  /\ Begin("daily", "reserving", ActiveInsider)
  /\ clean' = (pc["news"] = "idle" /\ working = {})
  /\ UNCHANGED events

\* run_insider_sleeve_live_pass: the sleeve alone, from the command line.
InsiderAlone ==
  /\ Begin("daily", "insClosing", ActiveInsider)
  /\ clean' = FALSE
  /\ UNCHANGED events

\* The names the sleeves own as of the pass's as_of, read after minutes of ingestion.
Reserve ==
  /\ pc["daily"] = "reserving"
  /\ reserved' = OwnedByNews(Known(newsRows, asOf["daily"]))
                   \cup OwnedByInsider(Known(insRows, asOf["daily"]))
  /\ Goto("daily", "booking")
  /\ UNCHANGED <<clock, rows, account, input, target, plan, seen, used, events, history>>

\* Mutant: the book flattens only what it remembers selecting.
HeldByLastBook == {s \in book : held[s] # 0} \ reserved
HeldByBook == {s \in Symbol : held[s] # 0} \ reserved

\* Whatever the scoring, the exits and the selection come up with (W), and an explicit
\* 0 for what is held, not reserved, priced and not selected.
Select ==
  /\ pc["daily"] = "booking"
  /\ \E W \in SUBSET (priced["daily"] \ reserved) :
       /\ book' = W
       /\ target' = [target EXCEPT !["daily"] =
            [s \in W \cup (HeldByBook \cap priced["daily"]) |->
               IF s \in W THEN BookUnits ELSE 0]]
  /\ clean' = (clean /\ HeldByBook \subseteq priced["daily"])
  /\ Goto("daily", IF target'["daily"] = NoTarget THEN "insClosing" ELSE "engine")
  /\ UNCHANGED <<clock, rows, account, input, plan, seen, used, events, reserved, excused>>

OldIns == {r \in insRows : r.at < asOf["daily"]}
NewIns == {r \in insRows : r.at = asOf["daily"]}
LiveIns == (OwnedByInsider(OldIns) \ SymsOf(Closes(NewIns))) \cup SymsOf(Opens(NewIns))
\* Mutant: the slots of names already held are free as well.
AllSlots == InsiderNames
InsiderSlots == InsiderNames - Cardinality(LiveIns)

DueInsider ==
  {r \in OldIns :
     /\ r.status = "open" /\ r \in Newest(OldIns, r.sym)
     /\ r.exit <= asOf["daily"] \/ r.sym \in down["daily"]}

InsiderClose ==
  /\ pc["daily"] = "insClosing"
  /\ \E r \in DueInsider :
       /\ r.sym \notin SymsOf(Closes(NewIns))
       /\ Aim("daily", r.sym, 0)
       /\ insRows' = insRows \cup {[sym |-> r.sym, at |-> asOf["daily"],
                                    status |-> "closed", exit |-> 0]}
  /\ UNCHANGED <<clock, newsRows, account, pc, input, plan, seen, used, events, reserved,
                 history>>

\* insider_cluster_entries: fresh clusters of a gated type on names the sleeve does
\* not hold, cut off at the free slots before the prices are looked at.
ClusterEntries == {E \in SUBSET (Symbol \ LiveIns) : Cardinality(E) <= InsiderSlots}

InsiderClosed ==
  /\ pc["daily"] = "insClosing"
  /\ SymsOf(DueInsider) \subseteq SymsOf(Closes(NewIns))
  /\ \E E \in ClusterEntries : events' = [events EXCEPT !["daily"] = E]
  /\ Goto("daily", "insOpening")
  /\ UNCHANGED <<clock, rows, account, input, target, plan, seen, used, reserved, history>>

InsiderOpen ==
  /\ pc["daily"] = "insOpening"
  /\ \E s \in events["daily"] \cap priced["daily"] :
       /\ events' = [events EXCEPT !["daily"] = @ \ {s}]
       /\ Aim("daily", s, InsiderUnits)
       /\ insRows' = insRows \cup {[sym |-> s, at |-> asOf["daily"],
                                    status |-> "open",
                                    exit |-> asOf["daily"] + InsiderHold]}
  /\ UNCHANGED <<clock, newsRows, account, pc, input, plan, seen, used, reserved, history>>

InsiderOpened ==
  /\ pc["daily"] = "insOpening"
  /\ events["daily"] \cap priced["daily"] = {}
  /\ IF target["daily"] = NoTarget
     THEN EndPass("daily")
     ELSE /\ Goto("daily", "insEngine") /\ events' = [events EXCEPT !["daily"] = {}]
          /\ UNCHANGED <<input, target, plan, seen, used, reserved>>
  /\ UNCHANGED <<clock, rows, account, history>>

-----------------------------------------------------------------------------
(* The engines.                                                              *)

Other(t) == IF t = "news" THEN "daily" ELSE "news"
AtEngine(t) == pc[t] \in {"engine", "insEngine"}
AtReading(t) == pc[t] \in {"reading", "insReading"}
AtSending(t) == pc[t] \in {"sending", "insSending"}

\* After its engine a book goes on to the insider sleeve, and a sleeve ends.
Leave(t) ==
  IF t = "daily" /\ pc[t] \in {"engine", "sending"}
  THEN /\ Goto(t, "insClosing")
       /\ target' = [target EXCEPT ![t] = NoTarget]
       /\ plan' = [plan EXCEPT ![t] = {}]
       /\ UNCHANGED <<input, seen, used, events, reserved>>
  ELSE EndPass(t)

\* get_positions: what has settled so far.
ReadPositions(t) ==
  /\ AtEngine(t)
  /\ seen' = [seen EXCEPT ![t] = held]
  /\ Goto(t, IF pc[t] = "engine" THEN "reading" ELSE "insReading")
  /\ UNCHANGED <<clock, rows, account, input, target, plan, used, events, reserved,
                 history>>

\* Mutant: working orders are not counted as held.
OutgoingFromSeen(t) ==
  {[sym |-> s, qty |-> target[t][s] - seen[t][s]] :
     s \in {x \in DOMAIN target[t] \cap priced[t] : target[t][x] # seen[t][x]}}

\* The positions read before, and the orders that are open now.
Counted(t, s) == seen[t][s] + Working(s)

Outgoing(t) ==
  {[sym |-> s, qty |-> target[t][s] - Counted(t, s)] :
     s \in {x \in DOMAIN target[t] \cap priced[t] : target[t][x] # Counted(t, x)}}

\* get_open_orders, another request: then every order of the target is planned.
ReadOpenOrders(t) ==
  /\ AtReading(t)
  /\ plan' = [plan EXCEPT ![t] = Outgoing(t)]
  /\ seen' = [seen EXCEPT ![t] = Nothing]
  /\ Goto(t, IF pc[t] = "reading" THEN "sending" ELSE "insSending")
  /\ clean' = (clean /\ DOMAIN target[t] \subseteq priced[t])
  /\ excused' = (excused \/ AtSending(Other(t)))
  /\ UNCHANGED <<clock, rows, account, input, target, used, events, reserved, book>>

\* The engine returns no order: the governor of the book, or a daily loss.
Halt(t) ==
  /\ AtEngine(t)
  /\ clean' = FALSE
  /\ Leave(t)
  /\ UNCHANGED <<clock, rows, account, book, excused>>

NextOut(t) ==
  LET sells == {o \in plan[t] : o.qty < 0}
  IN  IF sells # {} THEN sells ELSE plan[t]

Send(t) ==
  /\ AtSending(t)
  /\ \E o \in NextOut(t) :
       /\ o.sym \notin used[t]
       /\ plan' = [plan EXCEPT ![t] = @ \ {o}]
       /\ used' = [used EXCEPT ![t] = @ \cup {o.sym}]
       /\ working' = working \cup {[sym |-> o.sym, qty |-> o.qty,
                                    by |-> t, at |-> asOf[t]]}
  /\ UNCHANGED <<clock, rows, held, pc, input, target, seen, events, reserved, history>>

\* Rate-capped, insane or refused (always so if the as_of and the name made an id the
\* venue has seen): the pass goes on with the next order.
Skip(t) ==
  /\ AtSending(t)
  /\ \E o \in NextOut(t) : plan' = [plan EXCEPT ![t] = @ \ {o}]
  /\ clean' = FALSE
  /\ UNCHANGED <<clock, rows, account, pc, input, target, seen, used, events,
                 reserved, book, excused>>

AllSent(t) ==
  /\ AtSending(t) /\ plan[t] = {}
  /\ Leave(t)
  /\ UNCHANGED <<clock, rows, account, history>>

\* Any call raises into the loop of the thread; the sleeve of a book that raised is
\* not run, and a sleeve that raises fails only itself.
Fail(t) ==
  /\ pc[t] # "idle"
  /\ EndPass(t)
  /\ clean' = FALSE
  /\ UNCHANGED <<clock, rows, account, book, excused>>

-----------------------------------------------------------------------------
(* The world.                                                                *)

\* A fill between the two reads of an engine is in neither: a buy is bought again, a
\* sell is sold again.
Unseen(o) == \E t \in Thread : AtReading(t) /\ o.sym \in DOMAIN target[t]

Fill ==
  /\ \E o \in working :
       /\ working' = working \ {o}
       /\ held' = [held EXCEPT ![o.sym] = @ + o.qty]
       /\ excused' = (excused \/ (o.qty < 0 /\ Unseen(o)))
  /\ UNCHANGED <<clock, rows, pc, input, target, plan, seen, used, events, reserved,
                 book, clean>>

\* Expired, or cancelled as stale by a daily pass (cycle.py:312-314).
Drop ==
  /\ \E o \in working : working' = working \ {o}
  /\ clean' = FALSE /\ excused' = TRUE
  /\ UNCHANGED <<clock, rows, held, pc, input, target, plan, seen, used, events, reserved,
                 book>>

Tick ==
  /\ clock < MaxClock /\ clock' = clock + 1
  /\ UNCHANGED <<rows, account, pc, input, target, plan, seen, used, events, reserved,
                 history>>

NewsPass == NewsStart \/ NewsClose \/ NewsClosed \/ NewsOpen \/ NewsOpened
DailyPass == \/ DailyStart \/ InsiderAlone \/ Reserve \/ Select
             \/ InsiderClose \/ InsiderClosed \/ InsiderOpen \/ InsiderOpened
Engine(t) == \/ ReadPositions(t) \/ ReadOpenOrders(t) \/ Halt(t)
             \/ Send(t) \/ Skip(t) \/ AllSent(t) \/ Fail(t)

Next == NewsPass \/ DailyPass \/ (\E t \in Thread : Engine(t)) \/ Fill \/ Drop \/ Tick

Spec == Init /\ [][Next]_vars

-----------------------------------------------------------------------------
(* Properties.                                                               *)

TypeOK ==
  /\ clock \in Nat
  /\ newsRows \subseteq NewsRow /\ insRows \subseteq InsRow
  /\ held \in [Symbol -> Int]
  /\ working \subseteq [sym : Symbol, qty : Int \ {0}, by : Thread, at : Nat]
  /\ pc \in [Thread -> Stage] /\ asOf \in [Thread -> Nat]
  /\ priced \in [Thread -> SUBSET Symbol] /\ down \in [Thread -> SUBSET Symbol]
  /\ \A t \in Thread : /\ DOMAIN target[t] \subseteq Symbol
                       /\ \A s \in DOMAIN target[t] : target[t][s] \in Nat
  /\ plan \in [Thread -> SUBSET [sym : Symbol, qty : Int \ {0}]]
  /\ seen \in [Thread -> [Symbol -> Int]] /\ used \in [Thread -> SUBSET Symbol]
  /\ events["news"] \subseteq Symbol \X Story /\ events["daily"] \subseteq Symbol
  /\ reserved \subseteq Symbol /\ book \subseteq Symbol
  /\ clean \in BOOLEAN /\ excused \in BOOLEAN

\* A sleeve never owns more names than its cap, at any step of a pass and wherever it
\* dies: the closes are on record before the opens that take their slots
\* (news_sleeve.py:309-312 and insider_sleeve.py:188-199).
SlotsHold ==
  /\ Cardinality(ActiveNews) <= NewsNames
  /\ Cardinality(ActiveInsider) <= InsiderNames

\* One pass may act on a story, on every name it mentions; no later pass may, closed,
\* failed or forgotten as that one may be (news_sleeve.py:289 and 329).
OneStoryOnePass ==
  \A r, q \in Opens(newsRows) : r.story = q.story => r.at = q.at

\* Once a pass has closed what was due, nothing its sleeve owns is past its window
\* (news_sleeve.py:295-314, insider_sleeve.py:171-186).
TimeBoxed ==
  /\ pc["news"] \in {"opening", "engine", "reading", "sending"} =>
       \A s \in ActiveNews : \A r \in Newest(newsRows, s) : r.exit > asOf["news"]
  /\ pc["daily"] \in {"insOpening", "insEngine", "insReading", "insSending"} =>
       \A s \in ActiveInsider : \A r \in Newest(insRows, s) :
         r.status = "open" => r.exit > asOf["daily"]

\* Whatever a pass that died, was capped or was halted left on the account with no
\* owner, the next daily pass that runs undisturbed sells: after it every holding is
\* in the book or on a sleeve's record (cycle.py:341-401, news_sleeve.py:352-361).
NoOrphans ==
  clean /\ pc["news"] = "idle" /\ pc["daily"] = "idle" =>
    \A s \in Symbol : Effective(s) # 0 => s \in book \cup ActiveNews \cup ActiveInsider

\* Book and sleeves sell the same names, but a name can only be sold short through two
\* engines that plan at once, a dropped order, or a sell that fills between the request
\* for the positions and the one for the open orders of an engine that aims at the name
\* (engine.py:117-124), and may sell it again.
ShortNeedsARace == ~excused => \A s \in Symbol : Effective(s) >= 0

\* "It respects a per-name cooldown" (news_sleeve.py:7): no open within the cooldown of
\* an earlier action on the name.
CooldownHolds ==
  \A r \in Opens(newsRows), q \in newsRows :
    r.sym = q.sym /\ q # r /\ q.at <= r.at => r.at - q.at >= Cooldown
=============================================================================
