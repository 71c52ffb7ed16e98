--------------------------- MODULE SleevesProofs ----------------------------
(****************************************************************************)
(* What the sleeves own and what is left to nobody, for any number of       *)
(* names and stories, any caps, windows and cooldown, and wherever a pass   *)
(* dies. A sleeve's record is written by its thread alone, under an as_of   *)
(* no earlier row carries: the names it owns are among those the pass in    *)
(* progress believes it owns. On the account, an engine's plan closes the   *)
(* distance of each name to its target, and sending closes it once.         *)
(****************************************************************************)
EXTENDS Sleeves, CountingLemmas

\* The types the ownership proofs need.
SleeveTypes ==
  /\ clock \in Nat
  /\ newsRows \subseteq NewsRow /\ insRows \subseteq InsRow
  /\ pc \in [Thread -> Stage] /\ asOf \in [Thread -> Nat]
  /\ down \in [Thread -> SUBSET Symbol]
  /\ DOMAIN events = Thread
  /\ events["news"] \subseteq Symbol \X Story /\ events["daily"] \subseteq Symbol

\* What the news sleeve owns, and believes it owns.
NewsInv ==
  /\ asOf["news"] <= clock
  /\ \A r \in newsRows :
       /\ r.at <= clock
       /\ pc["news"] # "idle" => r.at <= asOf["news"]
       /\ r.status = "open" => r.exit = r.at + NewsHold
  /\ Cardinality(ActiveNews) <= NewsNames
  /\ pc["news"] \in {"closing", "opening"} => Cardinality(LiveNews) <= NewsNames
  /\ pc["news"] \in {"opening", "engine", "reading", "sending"} =>
       SymsOf(DueNews) \subseteq SymsOf(Closes(NewNews))
  /\ OneStoryOnePass

\* Of a daily pass, before it opens a position of the insider sleeve and after.
BeforeOpening == {"reserving", "booking", "engine", "reading", "sending", "insClosing"}
AfterClosing == {"insOpening", "insEngine", "insReading", "insSending"}

\* The same of the insider sleeve.
InsiderInv ==
  /\ asOf["daily"] <= clock
  /\ \A r \in insRows :
       /\ r.at <= clock
       /\ pc["daily"] # "idle" => r.at <= asOf["daily"]
       /\ r.status = "open" => r.exit = r.at + InsiderHold
  /\ Cardinality(ActiveInsider) <= InsiderNames
  /\ pc["daily"] \in BeforeOpening => Cardinality(LiveIns) <= InsiderNames
  /\ pc["daily"] = "insOpening" => Cardinality(LiveIns \cup events["daily"]) <= InsiderNames
  /\ pc["daily"] \in AfterClosing => SymsOf(DueInsider) \subseteq SymsOf(Closes(NewIns))

\* Both, and the types.
SleevesInv == SleeveTypes /\ NewsInv /\ InsiderInv

-----------------------------------------------------------------------------
(* Records and cardinalities                                                *)

\* The rows older than a pass, and the rows of it.
Before(R, a) == {r \in R : r.at < a}
Under(R, a) == {r \in R : r.at = a}

\* What is owned now was owned when the pass began and not closed, or was opened by it.
LEMMA NewsOwnership ==
  ASSUME NEW R \in SUBSET NewsRow, NEW a \in Nat, \A r \in R : r.at <= a
  PROVE  OwnedByNews(R) \subseteq (OwnedByNews(Before(R, a)) \ SymsOf(Closes(Under(R, a))))
                                     \cup SymsOf(Opens(Under(R, a)))
<1>1. ASSUME NEW s \in OwnedByNews(R), s \notin SymsOf(Opens(Under(R, a)))
      PROVE  s \in OwnedByNews(Before(R, a)) \ SymsOf(Closes(Under(R, a)))
  <2>1. Newest(R, s) \subseteq Opens(R) /\ \E r \in R : r.sym = s
    BY DEF OwnedByNews, SymsOf
  <2>2. \A q \in R : q.sym = s => q.at # a
    <3>1. ASSUME NEW q \in R, q.sym = s, q.at = a
          PROVE  FALSE
      <4>1. q \in Newest(R, s)
        BY <3>1 DEF Newest
      <4>2. q \in Opens(Under(R, a))
        BY <2>1, <3>1, <4>1 DEF Opens, Under
      <4>3. QED
        BY <1>1, <3>1, <4>2 DEF SymsOf
    <3>2. QED
      BY <3>1
  <2>3. \A q \in R : q.sym = s => q \in Before(R, a)
    BY <2>2 DEF Before, NewsRow
  <2>4. Newest(Before(R, a), s) = Newest(R, s)
    BY <2>3 DEF Newest, Before
  <2>5. s \in OwnedByNews(Before(R, a))
    BY <2>1, <2>3, <2>4 DEF OwnedByNews, SymsOf, Opens, Newest
  <2>6. s \notin SymsOf(Closes(Under(R, a)))
    BY <2>2 DEF SymsOf, Closes, Under
  <2>7. QED
    BY <2>5, <2>6
<1>2. QED
  BY <1>1

\* The same of the insider sleeve, whose reader prefers the open of a tie.
LEMMA InsiderOwnership ==
  ASSUME NEW R \in SUBSET InsRow, NEW a \in Nat, \A r \in R : r.at <= a
  PROVE  OwnedByInsider(R) \subseteq
           (OwnedByInsider(Before(R, a)) \ SymsOf(Closes(Under(R, a))))
             \cup SymsOf(Opens(Under(R, a)))
<1>1. ASSUME NEW s \in OwnedByInsider(R), s \notin SymsOf(Opens(Under(R, a)))
      PROVE  s \in OwnedByInsider(Before(R, a)) \ SymsOf(Closes(Under(R, a)))
  <2>1. PICK r \in Newest(R, s) : r.status = "open"
    BY DEF OwnedByInsider, Opens
  <2>2. r \in R /\ r.sym = s /\ \A q \in R : q.sym = s => q.at <= r.at
    BY <2>1 DEF Newest
  <2>3. r.at < a
    <3>1. r.at # a
      BY <1>1, <2>1, <2>2 DEF SymsOf, Opens, Under
    <3>2. QED
      BY <2>2, <3>1 DEF InsRow
  <2>4. r \in Newest(Before(R, a), s)
    BY <2>2, <2>3 DEF Newest, Before
  <2>5. s \in OwnedByInsider(Before(R, a))
    BY <2>1, <2>2, <2>3, <2>4 DEF OwnedByInsider, SymsOf, Opens, Before
  <2>6. s \notin SymsOf(Closes(Under(R, a)))
    BY <2>2, <2>3 DEF SymsOf, Closes, Under, InsRow
  <2>7. QED
    BY <2>5, <2>6
<1>2. QED
  BY <1>1

\* The names a thread believes it owns are symbols, of which there are finitely many.
LEMMA LiveSymbols ==
  ASSUME SleeveTypes
  PROVE  /\ LiveNews \subseteq Symbol /\ IsFiniteSet(LiveNews)
         /\ LiveIns \subseteq Symbol /\ IsFiniteSet(LiveIns)
<1>1. LiveNews \subseteq Symbol
  BY DEF SleeveTypes, LiveNews, OwnedByNews, SymsOf, Opens, OldNews, NewNews, NewsRow
<1>2. LiveIns \subseteq Symbol
  BY DEF SleeveTypes, LiveIns, OwnedByInsider, SymsOf, Opens, OldIns, NewIns, InsRow
<1>3. QED
  BY <1>1, <1>2, SleevesAssumption, FS_Subset

\* A bound on a finite set bounds its subsets.
LEMMA Bounded ==
  ASSUME NEW n \in Nat, NEW S, IsFiniteSet(S), Cardinality(S) <= n, NEW R \in SUBSET S
  PROVE  IsFiniteSet(R) /\ Cardinality(R) \in Nat /\ Cardinality(R) <= n
<1>1. IsFiniteSet(R) /\ Cardinality(R) <= Cardinality(S)
  BY FS_Subset
<1>2. Cardinality(R) \in Nat /\ Cardinality(S) \in Nat
  BY <1>1, FS_CardinalityType
<1>3. QED
  BY <1>1, <1>2
-----------------------------------------------------------------------------
(* The news sleeve                                                          *)

\* The stages of an engine at work.
Engines == {"engine", "reading", "sending", "insReading", "insSending"}

\* Nothing is written: the pass is over, goes on, or goes on to its engine.
QuietNews ==
  /\ newsRows' = newsRows /\ clock' \in Nat /\ clock <= clock'
  /\ \/ pc'["news"] = "idle" /\ asOf'["news"] = 0
     \/ /\ asOf'["news"] = asOf["news"] /\ down'["news"] = down["news"]
        /\ \/ pc'["news"] = pc["news"]
           \/ /\ pc["news"] # "idle" /\ pc'["news"] \in Engines
              /\ pc'["news"] \notin {"insReading", "insSending"} =>
                   pc["news"] \in {"opening", "engine", "reading"}

\* A step that writes nothing of the sleeve keeps its invariant.
LEMMA QuietNewsKeeps ==
  ASSUME SleeveTypes, NewsInv, QuietNews
  PROVE  NewsInv'
<1>1. clock \in Nat /\ asOf["news"] \in Nat /\ \A r \in newsRows : r.at \in Nat
  BY DEF SleeveTypes, NewsRow, Thread
<1>2. ActiveNews' = ActiveNews /\ OneStoryOnePass' /\ newsRows' = newsRows
  BY DEF QuietNews, ActiveNews, OwnedByNews, NewsInv, OneStoryOnePass, Newest, Opens, SymsOf
<1>3. CASE pc'["news"] = "idle" /\ asOf'["news"] = 0
  BY <1>1, <1>2, <1>3 DEF QuietNews, NewsInv
<1>4. CASE ~(pc'["news"] = "idle" /\ asOf'["news"] = 0)
  <2>1. asOf'["news"] = asOf["news"] /\ down'["news"] = down["news"]
    BY <1>4 DEF QuietNews
  <2>2. OldNews' = OldNews /\ NewNews' = NewNews
    BY <1>2, <2>1 DEF OldNews, NewNews
  <2>3. LiveNews' = LiveNews /\ SymsOf(DueNews)' = SymsOf(DueNews)
        /\ SymsOf(Closes(NewNews))' = SymsOf(Closes(NewNews))
    BY <2>1, <2>2 DEF LiveNews, DueNews
  <2>4. /\ pc'["news"] \in {"closing", "opening"} => pc["news"] = pc'["news"]
        /\ pc'["news"] \in {"opening", "engine", "reading", "sending"}
             => pc["news"] \in {"opening", "engine", "reading", "sending"}
        /\ pc'["news"] # "idle" => pc["news"] # "idle"
    BY <1>4 DEF QuietNews, Engines
  <2>5. \A r \in newsRows' : /\ r.at <= clock'
                             /\ pc'["news"] # "idle" => r.at <= asOf'["news"]
                             /\ r.status = "open" => r.exit = r.at + NewsHold
    BY <1>1, <1>2, <2>1, <2>4 DEF QuietNews, NewsInv
  <2>6. asOf'["news"] <= clock'
    BY <1>1, <2>1 DEF QuietNews, NewsInv
  <2>7. QED
    BY <1>2, <2>3, <2>4, <2>5, <2>6 DEF NewsInv
<1>5. QED
  BY <1>3, <1>4

\* A pass begins under an as_of later than every row.
LEMMA NewsStartKeeps ==
  ASSUME SleeveTypes, NewsInv, NewsStart
  PROVE  NewsInv'
<1>1. /\ newsRows' = newsRows /\ clock' = clock + 1 /\ asOf'["news"] = clock + 1
      /\ pc'["news"] = "closing"
  BY DEF NewsStart, Begin, Goto, SleeveTypes, rows, Thread
<1>2. clock \in Nat /\ \A r \in newsRows : r.at \in Nat /\ r.at <= clock
  BY DEF SleeveTypes, NewsInv, NewsRow
<1>3. OldNews' = newsRows /\ NewNews' = {}
  BY <1>1, <1>2 DEF OldNews, NewNews
<1>4. LiveNews' = ActiveNews /\ ActiveNews' = ActiveNews /\ OneStoryOnePass'
  BY <1>1, <1>3
  DEF LiveNews, ActiveNews, OwnedByNews, SymsOf, Opens, Closes, Newest, NewsInv, OneStoryOnePass
<1>5. QED
  BY <1>1, <1>2, <1>4 DEF NewsInv

\* A close takes nothing more into ownership.
LEMMA NewsCloseKeeps ==
  ASSUME SleeveTypes, NewsInv, NewsClose, SleeveTypes'
  PROVE  NewsInv'
<1>1. PICK r \in DueNews : newsRows' = newsRows \cup {[sym |-> r.sym, at |-> asOf["news"],
                                      status |-> "closed", story |-> r.story, exit |-> 0]}
  BY DEF NewsClose
<1>2. UNCHANGED <<clock, pc, asOf, down>> /\ pc["news"] = "closing"
  BY DEF NewsClose, input
<1> DEFINE x == [sym |-> r.sym, at |-> asOf["news"], status |-> "closed",
                 story |-> r.story, exit |-> 0]
<1>3. x.sym = r.sym /\ x.at = asOf["news"] /\ x.status = "closed" /\ newsRows' = newsRows \cup {x}
  BY <1>1
<1> HIDE DEF x
<1>4. asOf["news"] \in Nat /\ asOf["news"] <= clock
  BY DEF SleeveTypes, NewsInv, Thread
<1>5. OldNews' = OldNews /\ Opens(NewNews)' = Opens(NewNews)
      /\ SymsOf(Closes(NewNews)) \subseteq SymsOf(Closes(NewNews))'
  BY <1>2, <1>3, <1>4 DEF OldNews, NewNews, Opens, Closes, SymsOf
<1>6. LiveNews' \subseteq LiveNews
  BY <1>5 DEF LiveNews, SymsOf
<1>7. Cardinality(LiveNews') <= NewsNames /\ IsFiniteSet(LiveNews')
  BY <1>2, <1>6, LiveSymbols, Bounded, SleevesAssumption DEF NewsInv
<1>8. \A q \in newsRows' : /\ q.at <= clock' /\ q.at <= asOf'["news"]
                           /\ q.status = "open" => q.exit = q.at + NewsHold
  BY <1>2, <1>3, <1>4 DEF NewsInv
<1>9. ActiveNews' \subseteq LiveNews'
  <2>1. newsRows' \in SUBSET NewsRow /\ asOf'["news"] \in Nat
    BY DEF SleeveTypes, Thread
  <2>2. QED
    BY <1>8, <2>1, NewsOwnership DEF ActiveNews, LiveNews, OldNews, NewNews, Before, Under
<1>10. Cardinality(ActiveNews') <= NewsNames
  BY <1>7, <1>9, Bounded, SleevesAssumption
<1>11. OneStoryOnePass'
  BY <1>3 DEF NewsInv, OneStoryOnePass, Opens
<1>12. QED
  BY <1>2, <1>4, <1>7, <1>8, <1>10, <1>11 DEF NewsInv

\* Everything due has been closed.
LEMMA NewsClosedKeeps ==
  ASSUME SleeveTypes, NewsInv, NewsClosed
  PROVE  NewsInv'
<1>1. /\ pc'["news"] = "opening" /\ pc["news"] = "closing"
      /\ UNCHANGED <<clock, newsRows, asOf, down>>
  BY DEF NewsClosed, Goto, SleeveTypes, rows, input, Thread
<1>2. /\ LiveNews' = LiveNews /\ ActiveNews' = ActiveNews /\ SymsOf(DueNews)' = SymsOf(DueNews)
      /\ SymsOf(Closes(NewNews))' = SymsOf(Closes(NewNews))
  BY <1>1 DEF LiveNews, ActiveNews, DueNews, OldNews, NewNews, OwnedByNews
<1>3. OneStoryOnePass'
  BY <1>1 DEF NewsInv, OneStoryOnePass
<1>4. QED
  BY <1>1, <1>2, <1>3 DEF NewsInv, NewsClosed

\* An open takes a free slot, and a story no earlier pass acted on.
LEMMA NewsOpenKeeps ==
  ASSUME SleeveTypes, NewsInv, NewsOpen, SleeveTypes'
  PROVE  NewsInv'
<1>1. PICK e \in events["news"] :
        /\ Fresh(e[1], e[2])
        /\ newsRows' = newsRows \cup {[sym |-> e[1], at |-> asOf["news"], status |-> "open",
                                      story |-> e[2], exit |-> asOf["news"] + NewsHold]}
  BY DEF NewsOpen
<1>2. /\ UNCHANGED <<clock, pc, asOf, down>> /\ pc["news"] = "opening"
      /\ Cardinality(LiveNews) < NewsNames
  BY DEF NewsOpen, input
<1> DEFINE x == [sym |-> e[1], at |-> asOf["news"], status |-> "open",
                 story |-> e[2], exit |-> asOf["news"] + NewsHold]
<1>3. /\ x.sym = e[1] /\ x.at = asOf["news"] /\ x.status = "open" /\ x.story = e[2]
      /\ x.exit = asOf["news"] + NewsHold /\ newsRows' = newsRows \cup {x}
  BY <1>1
<1> HIDE DEF x
<1>4. asOf["news"] \in Nat /\ asOf["news"] <= clock
  BY DEF SleeveTypes, NewsInv, Thread
<1>5. /\ OldNews' = OldNews /\ Opens(NewNews)' = Opens(NewNews) \cup {x}
      /\ Closes(NewNews)' = Closes(NewNews)
  BY <1>2, <1>3, <1>4 DEF OldNews, NewNews, Opens, Closes
<1>6. LiveNews' = LiveNews \cup {e[1]}
  BY <1>3, <1>5 DEF LiveNews, SymsOf
<1>7. Cardinality(LiveNews') <= NewsNames /\ IsFiniteSet(LiveNews')
  <2>1. IsFiniteSet(LiveNews) /\ Cardinality(LiveNews) \in Nat
    BY LiveSymbols, FS_CardinalityType
  <2>2. e[1] \notin LiveNews
    BY <1>1 DEF Fresh
  <2>3. Cardinality(LiveNews') = Cardinality(LiveNews) + 1 /\ IsFiniteSet(LiveNews')
    BY <1>6, <2>1, <2>2, FS_AddElement
  <2>4. QED
    BY <1>2, <2>1, <2>3, SleevesAssumption
<1>8. \A q \in newsRows' : /\ q.at <= clock' /\ q.at <= asOf'["news"]
                           /\ q.status = "open" => q.exit = q.at + NewsHold
  BY <1>2, <1>3, <1>4 DEF NewsInv
<1>9. Cardinality(ActiveNews') <= NewsNames
  <2>1. newsRows' \in SUBSET NewsRow /\ asOf'["news"] \in Nat
    BY DEF SleeveTypes, Thread
  <2>2. ActiveNews' \subseteq LiveNews'
    BY <1>8, <2>1, NewsOwnership DEF ActiveNews, LiveNews, OldNews, NewNews, Before, Under
  <2>3. QED
    BY <1>7, <2>2, Bounded, SleevesAssumption
<1>10. OneStoryOnePass'
  <2>1. \A q \in newsRows : q.story = x.story => q.at = asOf["news"]
    <3>1. \A q \in newsRows : q.at \in Nat /\ q.at <= asOf["news"]
      BY <1>2 DEF NewsInv, SleeveTypes, NewsRow
    <3>2. \A q \in OldNews : q.story # x.story
      BY <1>1, <1>3 DEF Fresh, Acted
    <3>3. QED
      BY <1>4, <3>1, <3>2 DEF OldNews
  <2>2. QED
    BY <1>3, <2>1 DEF NewsInv, OneStoryOnePass, Opens
<1>11. SymsOf(DueNews)' \subseteq SymsOf(Closes(NewNews))'
  <2>1. DueNews' = DueNews
    BY <1>2, <1>5 DEF DueNews
  <2>2. QED
    BY <1>2, <1>5, <2>1 DEF NewsInv, SymsOf
<1>12. QED
  BY <1>2, <1>4, <1>7, <1>8, <1>9, <1>10, <1>11 DEF NewsInv
-----------------------------------------------------------------------------
(* The insider sleeve                                                       *)

\* Nothing is written: the pass is over, goes on, or moves on either side of its opening.
QuietInsider ==
  /\ insRows' = insRows /\ clock' \in Nat /\ clock <= clock'
  /\ \/ pc'["daily"] = "idle" /\ asOf'["daily"] = 0
     \/ /\ asOf'["daily"] = asOf["daily"] /\ down'["daily"] = down["daily"]
        /\ \/ pc'["daily"] = pc["daily"] /\ events'["daily"] = events["daily"]
           \/ pc["daily"] \in BeforeOpening /\ pc'["daily"] \in BeforeOpening
           \/ pc["daily"] \in AfterClosing /\ pc'["daily"] \in {"insEngine", "insReading", "insSending"}

\* A step that writes nothing of the sleeve keeps its invariant.
LEMMA QuietInsiderKeeps ==
  ASSUME SleeveTypes, InsiderInv, QuietInsider
  PROVE  InsiderInv'
<1>1. clock \in Nat /\ asOf["daily"] \in Nat /\ \A r \in insRows : r.at \in Nat
  BY DEF SleeveTypes, InsRow, Thread
<1>2. ActiveInsider' = ActiveInsider /\ insRows' = insRows
  BY DEF QuietInsider, ActiveInsider
<1>3. CASE pc'["daily"] = "idle" /\ asOf'["daily"] = 0
  BY <1>1, <1>2, <1>3 DEF QuietInsider, InsiderInv, BeforeOpening, AfterClosing
<1>4. CASE ~(pc'["daily"] = "idle" /\ asOf'["daily"] = 0)
  <2>1. asOf'["daily"] = asOf["daily"] /\ down'["daily"] = down["daily"]
    BY <1>4 DEF QuietInsider
  <2>2. OldIns' = OldIns /\ NewIns' = NewIns
    BY <1>2, <2>1 DEF OldIns, NewIns
  <2>3. LiveIns' = LiveIns /\ SymsOf(DueInsider)' = SymsOf(DueInsider)
        /\ SymsOf(Closes(NewIns))' = SymsOf(Closes(NewIns))
    BY <2>1, <2>2 DEF LiveIns, DueInsider
  <2>4. /\ pc'["daily"] \in BeforeOpening => pc["daily"] \in BeforeOpening
        /\ pc'["daily"] = "insOpening" => pc["daily"] = "insOpening"
                                          /\ events'["daily"] = events["daily"]
        /\ pc'["daily"] \in AfterClosing => pc["daily"] \in AfterClosing
        /\ pc'["daily"] # "idle" => pc["daily"] # "idle"
    BY <1>4 DEF QuietInsider, BeforeOpening, AfterClosing
  <2>5. \A r \in insRows' : /\ r.at <= clock'
                            /\ pc'["daily"] # "idle" => r.at <= asOf'["daily"]
                            /\ r.status = "open" => r.exit = r.at + InsiderHold
    BY <1>1, <1>2, <2>1, <2>4 DEF QuietInsider, InsiderInv
  <2>6. asOf'["daily"] <= clock'
    BY <1>1, <2>1 DEF QuietInsider, InsiderInv
  <2>7. QED
    BY <1>2, <2>3, <2>4, <2>5, <2>6 DEF InsiderInv
<1>5. QED
  BY <1>3, <1>4

\* A daily pass, or the sleeve alone, begins under an as_of later than every row.
LEMMA DailyStartKeeps ==
  ASSUME SleeveTypes, InsiderInv, DailyStart \/ InsiderAlone
  PROVE  InsiderInv'
<1>1. /\ insRows' = insRows /\ clock' = clock + 1 /\ asOf'["daily"] = clock + 1
      /\ pc'["daily"] \in {"reserving", "insClosing"}
  BY DEF DailyStart, InsiderAlone, Begin, Goto, SleeveTypes, rows, Thread
<1>2. clock \in Nat /\ \A r \in insRows : r.at \in Nat /\ r.at <= clock
  BY DEF SleeveTypes, InsiderInv, InsRow
<1>3. OldIns' = insRows /\ NewIns' = {}
  BY <1>1, <1>2 DEF OldIns, NewIns
<1>4. LiveIns' = ActiveInsider /\ ActiveInsider' = ActiveInsider
  BY <1>1, <1>3 DEF LiveIns, ActiveInsider, SymsOf, Opens, Closes
<1>5. QED
  BY <1>1, <1>2, <1>4 DEF InsiderInv, AfterClosing

\* A close takes nothing more into ownership.
LEMMA InsiderCloseKeeps ==
  ASSUME SleeveTypes, InsiderInv, InsiderClose, SleeveTypes'
  PROVE  InsiderInv'
<1>1. PICK r \in DueInsider : insRows' = insRows \cup {[sym |-> r.sym, at |-> asOf["daily"],
                                                        status |-> "closed", exit |-> 0]}
  BY DEF InsiderClose
<1>2. UNCHANGED <<clock, pc, asOf, down>> /\ pc["daily"] = "insClosing"
  BY DEF InsiderClose, input
<1> DEFINE x == [sym |-> r.sym, at |-> asOf["daily"], status |-> "closed", exit |-> 0]
<1>3. x.at = asOf["daily"] /\ x.status = "closed" /\ insRows' = insRows \cup {x}
  BY <1>1
<1> HIDE DEF x
<1>4. asOf["daily"] \in Nat /\ asOf["daily"] <= clock
  BY DEF SleeveTypes, InsiderInv, Thread
<1>5. OldIns' = OldIns /\ Opens(NewIns)' = Opens(NewIns)
      /\ SymsOf(Closes(NewIns)) \subseteq SymsOf(Closes(NewIns))'
  BY <1>2, <1>3, <1>4 DEF OldIns, NewIns, Opens, Closes, SymsOf
<1>6. LiveIns' \subseteq LiveIns
  BY <1>5 DEF LiveIns, SymsOf
<1>7. Cardinality(LiveIns') <= InsiderNames /\ IsFiniteSet(LiveIns')
  BY <1>2, <1>6, LiveSymbols, Bounded, SleevesAssumption DEF InsiderInv, BeforeOpening
<1>8. \A q \in insRows' : /\ q.at <= clock' /\ q.at <= asOf'["daily"]
                          /\ q.status = "open" => q.exit = q.at + InsiderHold
  BY <1>2, <1>3, <1>4 DEF InsiderInv
<1>9. ActiveInsider' \subseteq LiveIns'
  <2>1. insRows' \in SUBSET InsRow /\ asOf'["daily"] \in Nat
    BY DEF SleeveTypes, Thread
  <2>2. QED
    BY <1>8, <2>1, InsiderOwnership DEF ActiveInsider, LiveIns, OldIns, NewIns, Before, Under
<1>10. Cardinality(ActiveInsider') <= InsiderNames
  BY <1>7, <1>9, Bounded, SleevesAssumption
<1>11. QED
  BY <1>2, <1>4, <1>7, <1>8, <1>10 DEF InsiderInv, AfterClosing

\* Everything due has been closed, and the entries fit the free slots.
LEMMA InsiderClosedKeeps ==
  ASSUME SleeveTypes, InsiderInv, InsiderClosed
  PROVE  InsiderInv'
<1>1. /\ pc'["daily"] = "insOpening" /\ pc["daily"] = "insClosing"
      /\ UNCHANGED <<clock, insRows, asOf, down>>
  BY DEF InsiderClosed, Goto, SleeveTypes, rows, input, Thread
<1>2. /\ LiveIns' = LiveIns /\ ActiveInsider' = ActiveInsider
      /\ SymsOf(DueInsider)' = SymsOf(DueInsider)
      /\ SymsOf(Closes(NewIns))' = SymsOf(Closes(NewIns))
  BY <1>1 DEF LiveIns, ActiveInsider, DueInsider, OldIns, NewIns
<1>3. PICK E \in ClusterEntries : events'["daily"] = E
  BY DEF InsiderClosed, SleeveTypes, Thread
<1>4. Cardinality(LiveIns \cup E) <= InsiderNames
  <2>1. E \subseteq Symbol \ LiveIns /\ Cardinality(E) <= InsiderNames - Cardinality(LiveIns)
    BY DEF ClusterEntries, InsiderSlots
  <2>2. IsFiniteSet(E) /\ IsFiniteSet(LiveIns)
    BY <2>1, LiveSymbols, SleevesAssumption, FS_Subset
  <2>3. Cardinality(LiveIns \cup E)
          = Cardinality(LiveIns) + Cardinality(E) - Cardinality(LiveIns \cap E)
    BY <2>2, FS_Union
  <2>4. Cardinality(LiveIns \cap E) = 0
    <3>1. LiveIns \cap E = {}
      BY <2>1
    <3>2. QED
      BY <3>1, FS_EmptySet
  <2>5. Cardinality(LiveIns) \in Nat /\ Cardinality(E) \in Nat
    BY <2>2, FS_CardinalityType
  <2>6. QED
    BY <2>1, <2>3, <2>4, <2>5, SleevesAssumption
<1>5. QED
  BY <1>1, <1>2, <1>3, <1>4 DEF InsiderInv, InsiderClosed, BeforeOpening

\* An open takes one of the entries, which have their slots already.
LEMMA InsiderOpenKeeps ==
  ASSUME SleeveTypes, InsiderInv, InsiderOpen, SleeveTypes'
  PROVE  InsiderInv'
<1>1. PICK s \in events["daily"] :
        /\ events' = [events EXCEPT !["daily"] = @ \ {s}]
        /\ insRows' = insRows \cup {[sym |-> s, at |-> asOf["daily"], status |-> "open",
                                     exit |-> asOf["daily"] + InsiderHold]}
  BY DEF InsiderOpen
<1>2. UNCHANGED <<clock, pc, asOf, down>> /\ pc["daily"] = "insOpening"
  BY DEF InsiderOpen, input
<1> DEFINE x == [sym |-> s, at |-> asOf["daily"], status |-> "open",
                 exit |-> asOf["daily"] + InsiderHold]
<1>3. /\ x.sym = s /\ x.at = asOf["daily"] /\ x.status = "open"
      /\ x.exit = asOf["daily"] + InsiderHold /\ insRows' = insRows \cup {x}
  BY <1>1
<1> HIDE DEF x
<1>4. asOf["daily"] \in Nat /\ asOf["daily"] <= clock
  BY DEF SleeveTypes, InsiderInv, Thread
<1>5. /\ OldIns' = OldIns /\ Opens(NewIns)' = Opens(NewIns) \cup {x}
      /\ Closes(NewIns)' = Closes(NewIns)
  BY <1>2, <1>3, <1>4 DEF OldIns, NewIns, Opens, Closes
<1>6. LiveIns' = LiveIns \cup {s}
  BY <1>3, <1>5 DEF LiveIns, SymsOf
<1>7. events'["daily"] = events["daily"] \ {s}
  BY <1>1 DEF SleeveTypes, Thread
<1>8. /\ IsFiniteSet(LiveIns \cup events["daily"])
      /\ Cardinality(LiveIns \cup events["daily"]) <= InsiderNames
  <2>1. LiveIns \cup events["daily"] \subseteq Symbol
    BY LiveSymbols DEF SleeveTypes
  <2>2. QED
    BY <1>2, <2>1, SleevesAssumption, FS_Subset DEF InsiderInv
<1>9. /\ LiveIns' \cup events'["daily"] \subseteq LiveIns \cup events["daily"]
      /\ LiveIns' \subseteq LiveIns \cup events["daily"]
  BY <1>6, <1>7
<1>10. Cardinality(LiveIns' \cup events'["daily"]) <= InsiderNames
  BY <1>8, <1>9, Bounded, SleevesAssumption
<1>11. \A q \in insRows' : /\ q.at <= clock' /\ q.at <= asOf'["daily"]
                           /\ q.status = "open" => q.exit = q.at + InsiderHold
  BY <1>2, <1>3, <1>4 DEF InsiderInv
<1>12. Cardinality(ActiveInsider') <= InsiderNames
  <2>1. insRows' \in SUBSET InsRow /\ asOf'["daily"] \in Nat
    BY DEF SleeveTypes, Thread
  <2>2. ActiveInsider' \subseteq LiveIns'
    BY <1>11, <2>1, InsiderOwnership DEF ActiveInsider, LiveIns, OldIns, NewIns, Before, Under
  <2>3. ActiveInsider' \subseteq LiveIns \cup events["daily"]
    BY <1>9, <2>2
  <2>4. QED
    BY <1>8, <2>3, Bounded, SleevesAssumption
<1>13. SymsOf(DueInsider)' \subseteq SymsOf(Closes(NewIns))'
  <2>1. DueInsider' = DueInsider
    BY <1>2, <1>5 DEF DueInsider
  <2>2. QED
    BY <1>2, <1>5, <2>1 DEF InsiderInv, SymsOf, AfterClosing
<1>14. QED
  BY <1>2, <1>4, <1>10, <1>11, <1>12, <1>13 DEF InsiderInv, BeforeOpening
-----------------------------------------------------------------------------
(* The composition                                                          *)

\* Initially nothing is owned and nobody runs.
LEMMA SleevesInitInv == Init => SleevesInv
<1> SUFFICES ASSUME Init PROVE SleevesInv
  OBVIOUS
<1>1. SleeveTypes
  BY DEF Init, SleeveTypes, Thread, Stage
<1>2. ActiveNews = {} /\ ActiveInsider = {}
  BY DEF Init, ActiveNews, ActiveInsider, OwnedByNews, OwnedByInsider, SymsOf
<1>3. Cardinality({}) = 0
  BY FS_EmptySet
<1>4. pc["news"] = "idle" /\ pc["daily"] = "idle" /\ asOf["news"] = 0 /\ asOf["daily"] = 0
  BY DEF Init, Thread
<1>5. QED
  BY <1>1, <1>2, <1>3, <1>4, SleevesAssumption
  DEF Init, SleevesInv, NewsInv, InsiderInv, OneStoryOnePass, Opens, BeforeOpening, AfterClosing

\* A pass that ends leaves the other thread's alone.
LEMMA EndPassQuiet ==
  ASSUME SleeveTypes, NEW t \in Thread, EndPass(t), UNCHANGED <<clock, rows>>
  PROVE  SleeveTypes' /\ QuietNews /\ QuietInsider
<1>1. /\ pc' = [pc EXCEPT ![t] = "idle"] /\ asOf' = [asOf EXCEPT ![t] = 0]
      /\ down' = [down EXCEPT ![t] = {}] /\ events' = [events EXCEPT ![t] = {}]
  BY DEF EndPass, Goto
<1>2. SleeveTypes'
  BY <1>1 DEF SleeveTypes, rows, Thread, Stage
<1>3. CASE t = "news"
  BY <1>1, <1>2, <1>3 DEF SleeveTypes, QuietNews, QuietInsider, rows, Thread
<1>4. CASE t = "daily"
  BY <1>1, <1>2, <1>4 DEF SleeveTypes, QuietNews, QuietInsider, rows, Thread
<1>5. QED
  BY <1>3, <1>4 DEF Thread

\* A pass that moves on writes nothing.
LEMMA GotoQuiet ==
  ASSUME SleeveTypes, NEW t \in Thread, NEW stage \in Stage, Goto(t, stage),
         UNCHANGED <<clock, rows, asOf, down>>,
         events' = events \/ events' = [events EXCEPT ![t] = {}],
         t = "news" => /\ pc[t] # "idle" /\ stage \in Engines
                       /\ stage \notin {"insReading", "insSending"} =>
                            pc[t] \in {"opening", "engine", "reading"},
         t = "daily" => \/ pc[t] \in BeforeOpening /\ stage \in BeforeOpening
                        \/ pc[t] \in AfterClosing /\ stage \in {"insEngine", "insReading", "insSending"}
  PROVE  SleeveTypes' /\ QuietNews /\ QuietInsider
<1>1. pc' = [pc EXCEPT ![t] = stage]
  BY DEF Goto
<1>2. SleeveTypes'
  BY <1>1 DEF SleeveTypes, rows, Thread
<1>3. CASE t = "news"
  BY <1>1, <1>2, <1>3 DEF SleeveTypes, QuietNews, QuietInsider, rows, Thread
<1>4. CASE t = "daily"
  BY <1>1, <1>2, <1>4 DEF SleeveTypes, QuietNews, QuietInsider, rows, Thread
<1>5. QED
  BY <1>3, <1>4 DEF Thread

\* A step that touches neither records nor passes.
LEMMA IdleQuiet ==
  ASSUME SleeveTypes, UNCHANGED <<rows, pc, asOf, down, events>>,
         clock' \in Nat, clock <= clock'
  PROVE  SleeveTypes' /\ QuietNews /\ QuietInsider
<1>1. SleeveTypes'
  BY DEF SleeveTypes, rows
<1>2. QED
  BY <1>1 DEF QuietNews, QuietInsider, rows

\* The engines, the market and the steps of a pass between its records.
LEMMA QuietSteps ==
  ASSUME SleeveTypes, NewsOpened \/ Reserve \/ Select \/ InsiderOpened
                        \/ (\E t \in Thread : Engine(t)) \/ Fill \/ Drop \/ Tick \/ UNCHANGED vars
  PROVE  SleeveTypes' /\ QuietNews /\ QuietInsider
<1>1. CASE NewsOpened
  <2>1. CASE EndPass("news")
    BY <1>1, <2>1, EndPassQuiet DEF NewsOpened, Thread
  <2>2. CASE ~EndPass("news")
    BY <1>1, <2>2, GotoQuiet DEF NewsOpened, Thread, Stage, input, rows, Engines
  <2>3. QED
    BY <2>1, <2>2
<1>2. CASE Reserve \/ Select
  BY <1>2, GotoQuiet DEF Reserve, Select, Thread, Stage, input, rows, BeforeOpening
<1>3. CASE InsiderOpened
  <2>1. CASE EndPass("daily")
    BY <1>3, <2>1, EndPassQuiet DEF InsiderOpened, Thread
  <2>2. CASE ~EndPass("daily")
    BY <1>3, <2>2, GotoQuiet DEF InsiderOpened, Thread, Stage, input, rows, AfterClosing
  <2>3. QED
    BY <2>1, <2>2
<1>4. ASSUME NEW t \in Thread, Engine(t)
      PROVE  SleeveTypes' /\ QuietNews /\ QuietInsider
  <2>1. ASSUME Leave(t), UNCHANGED <<clock, rows>>, AtEngine(t) \/ AtSending(t)
        PROVE  SleeveTypes' /\ QuietNews /\ QuietInsider
    <3>1. CASE t = "daily" /\ pc[t] \in {"engine", "sending"}
      BY <2>1, <3>1, GotoQuiet DEF Leave, Stage, input, BeforeOpening
    <3>2. CASE ~(t = "daily" /\ pc[t] \in {"engine", "sending"})
      BY <2>1, <3>2, EndPassQuiet DEF Leave
    <3>3. QED
      BY <3>1, <3>2
  <2>2. CASE ReadPositions(t) \/ ReadOpenOrders(t)
    <3>1. CASE pc[t] \in {"engine", "reading"}
      <4>1. Goto(t, "reading") \/ Goto(t, "sending")
        BY <2>2, <3>1 DEF ReadPositions, ReadOpenOrders, AtEngine, AtReading
      <4>2. QED
        BY <2>2, <3>1, <4>1, GotoQuiet
        DEF ReadPositions, ReadOpenOrders, Stage, input, Thread, BeforeOpening, Engines
    <3>2. CASE pc[t] \in {"insEngine", "insReading"}
      <4>1. Goto(t, "insReading") \/ Goto(t, "insSending")
        BY <2>2, <3>2 DEF ReadPositions, ReadOpenOrders, AtEngine, AtReading
      <4>2. QED
        BY <2>2, <3>2, <4>1, GotoQuiet
        DEF ReadPositions, ReadOpenOrders, Stage, input, Thread, AfterClosing, Engines
    <3>3. QED
      BY <2>2, <3>1, <3>2 DEF ReadPositions, ReadOpenOrders, AtEngine, AtReading
  <2>3. CASE Halt(t) \/ AllSent(t)
    BY <2>1, <2>3 DEF Halt, AllSent
  <2>4. CASE Send(t) \/ Skip(t)
    BY <2>4, IdleQuiet DEF Send, Skip, input, SleeveTypes
  <2>5. CASE Fail(t)
    BY <2>5, EndPassQuiet DEF Fail
  <2>6. QED
    BY <1>4, <2>2, <2>3, <2>4, <2>5 DEF Engine
<1>5. CASE Fill \/ Drop \/ Tick \/ UNCHANGED vars
  BY <1>5, IdleQuiet DEF Fill, Drop, Tick, vars, input, SleeveTypes
<1>6. QED
  BY <1>1, <1>2, <1>3, <1>4, <1>5

\* The sleeve that does not act sees nothing of the other's records and passes.
LEMMA NewsActs ==
  ASSUME SleeveTypes, NewsStart \/ NewsClose \/ NewsClosed \/ NewsOpen
  PROVE  SleeveTypes' /\ QuietInsider
<1>1. CASE NewsStart
  <2>1. PICK E \in Detections : events' = [events EXCEPT !["news"] = E]
    BY <1>1 DEF NewsStart
  <2>2. E \subseteq Symbol \X Story
    BY DEF Detections
  <2>3. PICK D \in SUBSET Symbol : down' = [down EXCEPT !["news"] = D]
    BY <1>1, SleevesAssumption DEF NewsStart, Begin
  <2>4. /\ clock' = clock + 1 /\ asOf' = [asOf EXCEPT !["news"] = clock + 1]
        /\ pc' = [pc EXCEPT !["news"] = "closing"] /\ UNCHANGED rows
    BY <1>1 DEF NewsStart, Begin, Goto
  <2>5. SleeveTypes'
    BY <2>1, <2>2, <2>3, <2>4 DEF SleeveTypes, rows, Thread, Stage
  <2>6. QED
    BY <2>1, <2>3, <2>4, <2>5 DEF SleeveTypes, QuietInsider, rows, Thread
<1>2. CASE NewsClose
  <2>1. PICK r \in newsRows : newsRows' = newsRows \cup {[sym |-> r.sym, at |-> asOf["news"],
                                      status |-> "closed", story |-> r.story, exit |-> 0]}
    BY <1>2 DEF NewsClose, DueNews, OldNews
  <2>2. newsRows' \subseteq NewsRow
    BY <2>1 DEF SleeveTypes, NewsRow, Thread
  <2>3. QED
    BY <1>2, <2>2 DEF NewsClose, SleeveTypes, QuietInsider, input
<1>3. CASE NewsClosed
  BY <1>3 DEF NewsClosed, Goto, SleeveTypes, QuietInsider, input, rows, Thread, Stage
<1>4. CASE NewsOpen
  <2>1. PICK e \in Symbol \X Story, E \in SUBSET events["news"] :
          /\ events' = [events EXCEPT !["news"] = E]
          /\ newsRows' = newsRows \cup {[sym |-> e[1], at |-> asOf["news"], status |-> "open",
                                         story |-> e[2], exit |-> asOf["news"] + NewsHold]}
    BY <1>4 DEF NewsOpen, SleeveTypes
  <2>2. newsRows' \subseteq NewsRow
    BY <2>1, SleevesAssumption DEF SleeveTypes, NewsRow, Thread
  <2>3. QED
    BY <1>4, <2>1, <2>2 DEF NewsOpen, SleeveTypes, QuietInsider, input, Thread
<1>5. QED
  BY <1>1, <1>2, <1>3, <1>4

\* And the other way round.
LEMMA DailyActs ==
  ASSUME SleeveTypes, DailyStart \/ InsiderAlone \/ InsiderClose \/ InsiderClosed \/ InsiderOpen
  PROVE  SleeveTypes' /\ QuietNews
<1>1. CASE DailyStart \/ InsiderAlone
  <2>1. PICK D \in SUBSET Symbol : down' = [down EXCEPT !["daily"] = D]
    BY <1>1, SleevesAssumption DEF DailyStart, InsiderAlone, Begin
  <2>2. PICK stage \in {"reserving", "insClosing"} :
          /\ clock' = clock + 1 /\ asOf' = [asOf EXCEPT !["daily"] = clock + 1]
          /\ pc' = [pc EXCEPT !["daily"] = stage] /\ UNCHANGED <<rows, events>>
    BY <1>1 DEF DailyStart, InsiderAlone, Begin, Goto
  <2>3. SleeveTypes'
    BY <2>1, <2>2 DEF SleeveTypes, rows, Thread, Stage
  <2>4. QED
    BY <2>1, <2>2, <2>3 DEF SleeveTypes, QuietNews, rows, Thread
<1>2. CASE InsiderClose
  <2>1. PICK r \in insRows : insRows' = insRows \cup {[sym |-> r.sym, at |-> asOf["daily"],
                                                       status |-> "closed", exit |-> 0]}
    BY <1>2 DEF InsiderClose, DueInsider, OldIns
  <2>2. insRows' \subseteq InsRow
    BY <2>1 DEF SleeveTypes, InsRow, Thread
  <2>3. QED
    BY <1>2, <2>2 DEF InsiderClose, SleeveTypes, QuietNews, input
<1>3. CASE InsiderClosed
  <2>1. PICK E \in SUBSET Symbol : events' = [events EXCEPT !["daily"] = E]
    BY <1>3 DEF InsiderClosed, ClusterEntries
  <2>2. pc' = [pc EXCEPT !["daily"] = "insOpening"] /\ UNCHANGED <<clock, rows, asOf, down>>
    BY <1>3 DEF InsiderClosed, Goto, input
  <2>3. QED
    BY <2>1, <2>2 DEF SleeveTypes, QuietNews, rows, Thread, Stage
<1>4. CASE InsiderOpen
  <2>1. PICK s \in Symbol, E \in SUBSET events["daily"] :
          /\ events' = [events EXCEPT !["daily"] = E]
          /\ insRows' = insRows \cup {[sym |-> s, at |-> asOf["daily"], status |-> "open",
                                       exit |-> asOf["daily"] + InsiderHold]}
    BY <1>4 DEF InsiderOpen, SleeveTypes
  <2>2. insRows' \subseteq InsRow
    BY <2>1, SleevesAssumption DEF SleeveTypes, InsRow, Thread
  <2>3. QED
    BY <1>4, <2>1, <2>2 DEF InsiderOpen, SleeveTypes, QuietNews, input, Thread
<1>5. QED
  BY <1>1, <1>2, <1>3, <1>4

\* The invariant is inductive.
LEMMA SleevesStep == SleevesInv /\ [Next]_vars => SleevesInv'
<1> SUFFICES ASSUME SleevesInv, [Next]_vars PROVE SleevesInv'
  OBVIOUS
<1> USE DEF SleevesInv
<1>1. CASE NewsStart \/ NewsClose \/ NewsClosed \/ NewsOpen
  BY <1>1, NewsActs, QuietInsiderKeeps, NewsStartKeeps, NewsCloseKeeps, NewsClosedKeeps,
     NewsOpenKeeps
<1>2. CASE DailyStart \/ InsiderAlone \/ InsiderClose \/ InsiderClosed \/ InsiderOpen
  BY <1>2, DailyActs, QuietNewsKeeps, DailyStartKeeps, InsiderCloseKeeps, InsiderClosedKeeps,
     InsiderOpenKeeps
<1>3. CASE NewsOpened \/ Reserve \/ Select \/ InsiderOpened
             \/ (\E t \in Thread : Engine(t)) \/ Fill \/ Drop \/ Tick \/ UNCHANGED vars
  BY <1>3, QuietSteps, QuietNewsKeeps, QuietInsiderKeeps
<1>4. QED
  BY <1>1, <1>2, <1>3 DEF Next, NewsPass, DailyPass

\* In every behaviour of the sleeves the invariant holds.
LEMMA SleevesInvariant == Spec => []SleevesInv
  BY SleevesInitInv, SleevesStep, PTL DEF Spec

\* What was due has been closed, so nothing owned is past its window.
LEMMA NothingOverdue == SleevesInv => TimeBoxed
<1> SUFFICES ASSUME SleevesInv PROVE TimeBoxed
  OBVIOUS
<1> USE DEF SleevesInv
<1>1. ASSUME pc["news"] \in {"opening", "engine", "reading", "sending"},
             NEW s \in ActiveNews, NEW r \in Newest(newsRows, s)
      PROVE  r.exit > asOf["news"]
  <2>1. /\ r \in newsRows /\ r.sym = s /\ r.at \in Nat /\ r.exit \in Nat /\ r.status = "open"
        /\ asOf["news"] \in Nat /\ \A q \in newsRows : q.sym = s => q.at <= r.at
    BY DEF Newest, ActiveNews, OwnedByNews, Opens, SleeveTypes, NewsRow, Thread
  <2>2. r.at <= asOf["news"] /\ r.exit = r.at + NewsHold
    BY <1>1, <2>1 DEF NewsInv
  <2>3. CASE r.at = asOf["news"]
    BY <2>1, <2>2, <2>3, SleevesAssumption
  <2>4. CASE r.at < asOf["news"]
    <3>1. ASSUME r.exit <= asOf["news"]
          PROVE  FALSE
      <4>1. \A q \in newsRows : q.sym = s => q \in OldNews
        BY <2>1, <2>4 DEF OldNews, SleeveTypes, NewsRow
      <4>2. Newest(OldNews, s) = Newest(newsRows, s)
        BY <4>1 DEF Newest, OldNews
      <4>3. s \in OwnedByNews(OldNews)
        BY <2>1, <4>1, <4>2 DEF ActiveNews, OwnedByNews, SymsOf, Opens, Newest
      <4>4. r \in DueNews
        BY <2>1, <3>1, <4>1, <4>2, <4>3 DEF DueNews
      <4>5. PICK q \in newsRows : q.sym = s /\ q.at = asOf["news"]
        BY <1>1, <2>1, <4>4 DEF NewsInv, SymsOf, Closes, NewNews
      <4>6. QED
        BY <2>1, <2>4, <4>5
    <3>2. QED
      BY <2>1, <3>1
  <2>5. QED
    BY <2>1, <2>2, <2>3, <2>4
<1>2. ASSUME pc["daily"] \in AfterClosing,
             NEW s \in ActiveInsider, NEW r \in Newest(insRows, s), r.status = "open"
      PROVE  r.exit > asOf["daily"]
  <2>1. /\ r \in insRows /\ r.sym = s /\ r.at \in Nat /\ r.exit \in Nat
        /\ asOf["daily"] \in Nat /\ \A q \in insRows : q.sym = s => q.at <= r.at
    BY DEF Newest, SleeveTypes, InsRow, Thread
  <2>2. r.at <= asOf["daily"] /\ r.exit = r.at + InsiderHold
    BY <1>2, <2>1 DEF InsiderInv, AfterClosing
  <2>3. CASE r.at = asOf["daily"]
    BY <2>1, <2>2, <2>3, SleevesAssumption
  <2>4. CASE r.at < asOf["daily"]
    <3>1. ASSUME r.exit <= asOf["daily"]
          PROVE  FALSE
      <4>1. r \in DueInsider
        BY <1>2, <2>1, <2>4, <3>1 DEF DueInsider, OldIns, Newest
      <4>2. PICK q \in insRows : q.sym = s /\ q.at = asOf["daily"]
        BY <1>2, <2>1, <4>1 DEF InsiderInv, SymsOf, Closes, NewIns
      <4>3. QED
        BY <2>1, <2>4, <4>2
    <3>2. QED
      BY <2>1, <3>1
  <2>5. QED
    BY <2>1, <2>2, <2>3, <2>4
<1>3. QED
  BY <1>1, <1>2 DEF TimeBoxed, AfterClosing

-----------------------------------------------------------------------------
(* What a name comes to                                                     *)

\* The types, with what the sums over the working orders need.
Typed == TypeOK /\ IsFiniteSet(working) /\ DOMAIN target = Thread /\ DOMAIN events = Thread

\* What a name comes to is a number.
LEMMA EffectiveType ==
  ASSUME Typed, NEW s \in Symbol
  PROVE  Working(s) \in Int /\ Effective(s) \in Int
<1> DEFINE W == {o \in working : o.sym = s}
<1>1. IsFiniteSet(W)
  BY FS_Subset DEF Typed
<1>2. Ints(Quantities, W)
  BY DEF Typed, TypeOK, Ints, Quantities
<1>3. SumFunctionOnSet(Quantities, W) \in Int
  <2> HIDE DEF W
  <2> QED BY <1>1, <1>2, SumType
<1> QED BY <1>3 DEF Working, Effective, Typed, TypeOK

\* What a set of orders comes to of a name.
TotalOf(W, s) == SumFunctionOnSet([o \in W |-> o.qty], {o \in W : o.sym = s})

\* An order more counts for its name and no other.
LEMMA OneOrderMore ==
  ASSUME NEW W, IsFiniteSet(W), NEW x, x \notin W, \A o \in W \cup {x} : o.qty \in Int, NEW s
  PROVE  /\ TotalOf(W, s) \in Int
         /\ TotalOf(W \cup {x}, s) = IF x.sym = s THEN x.qty + TotalOf(W, s) ELSE TotalOf(W, s)
<1> DEFINE f == [o \in W |-> o.qty]
           g == [o \in W \cup {x} |-> o.qty]
           A == {o \in W : o.sym = s}
<1>1. IsFiniteSet(A) /\ x \notin A
  BY FS_Subset
<1>2. /\ \A o \in A : f[o] = g[o] 
      /\ Ints(g, A \cup {x}) /\ Ints(f, A) /\ g[x] = x.qty
  BY DEF Ints
<1>3. SumFunctionOnSet(f, A) = SumFunctionOnSet(g, A) /\ SumFunctionOnSet(f, A) \in Int
  <2> HIDE DEF A, f, g
  <2> QED BY <1>1, <1>2, SumAgree, SumType
<1>4. CASE x.sym = s
  <2>1. {o \in W \cup {x} : o.sym = s} = A \cup {x}
    BY <1>4
  <2>2. SumFunctionOnSet(g, A \cup {x}) = g[x] + SumFunctionOnSet(g, A)
    <3> HIDE DEF A, f, g
    <3> QED BY <1>1, <1>2, SumAdd
  <2> QED BY <1>2, <1>3, <1>4, <2>1, <2>2 DEF TotalOf
<1>5. CASE x.sym # s
  <2>1. {o \in W \cup {x} : o.sym = s} = A
    BY <1>5
  <2> QED BY <1>3, <1>5, <2>1 DEF TotalOf
<1> QED BY <1>4, <1>5

\* A fill moves units from an order to the holding: the name comes to the same.
LEMMA FillEffect ==
  ASSUME Typed, NEW o \in working, working' = working \ {o},
         held' = [held EXCEPT ![o.sym] = @ + o.qty], NEW s \in Symbol
  PROVE  Effective(s)' = Effective(s)
<1> DEFINE W == working \ {o}
<1>1. working = W \cup {o} /\ o \notin W /\ IsFiniteSet(W) /\ \A x \in W \cup {o} : x.qty \in Int
  BY FS_Subset DEF Typed, TypeOK
<1>2. TotalOf(W, s) \in Int /\ TotalOf(W \cup {o}, s) = IF o.sym = s THEN o.qty + TotalOf(W, s) ELSE TotalOf(W, s)
  <2> HIDE DEF W
  <2> QED BY <1>1, OneOrderMore
<1>3. Working(s)' = TotalOf(W, s) /\ Working(s) = TotalOf(W \cup {o}, s)
  BY <1>1 DEF Working, Quantities, TotalOf
<1>4. held[s] \in Int /\ o.qty \in Int /\ held'[s] = IF o.sym = s THEN held[s] + o.qty ELSE held[s]
  BY DEF Typed, TypeOK
<1> HIDE DEF W
<1> QED BY <1>2, <1>3, <1>4 DEF Effective

\* A new order counts at once.
LEMMA SendEffect ==
  ASSUME Typed, NEW x, x \notin working, x.qty \in Int, working' = working \cup {x}, held' = held,
         NEW s \in Symbol
  PROVE  Effective(s)' = IF x.sym = s THEN Effective(s) + x.qty ELSE Effective(s)
<1>1. \A o \in working \cup {x} : o.qty \in Int
  BY DEF Typed, TypeOK
<1>2. TotalOf(working, s) \in Int
      /\ TotalOf(working \cup {x}, s) = IF x.sym = s THEN x.qty + TotalOf(working, s) ELSE TotalOf(working, s)
  BY <1>1, OneOrderMore DEF Typed
<1>3. Working(s)' = TotalOf(working \cup {x}, s) /\ Working(s) = TotalOf(working, s)
  BY DEF Working, Quantities, TotalOf
<1>4. held[s] \in Int
  BY DEF Typed, TypeOK
<1> QED BY <1>2, <1>3, <1>4 DEF Effective

\* While the account stands still so does every name.
LEMMA SameEffect ==
  ASSUME UNCHANGED account, NEW s
  PROVE  Effective(s)' = Effective(s)
BY DEF account, Effective, Working, Quantities

\* What SleeveTypes does not say of the types.
LEMMA TypedFrom ==
  ASSUME SleeveTypes', held' \in [Symbol -> Int], IsFiniteSet(working'),
         working' \subseteq [sym : Symbol, qty : Int \ {0}, by : Thread, at : Nat],
         priced' \in [Thread -> SUBSET Symbol], DOMAIN target' = Thread,
         \A t \in Thread : /\ DOMAIN target'[t] \subseteq Symbol
                           /\ \A s \in DOMAIN target'[t] : target'[t][s] \in Nat,
         plan' \in [Thread -> SUBSET [sym : Symbol, qty : Int \ {0}]],
         seen' \in [Thread -> [Symbol -> Int]],
         used' \in [Thread -> SUBSET Symbol], reserved' \subseteq Symbol, book' \subseteq Symbol,
         clean' \in BOOLEAN, excused' \in BOOLEAN
  PROVE  Typed'
BY DEF Typed, TypeOK, SleeveTypes

\* The pass of a thread is over.
LEMMA EndPassTyped ==
  ASSUME Typed, SleeveTypes', NEW t \in Thread, EndPass(t), UNCHANGED <<account, book, excused>>,
         clean' \in BOOLEAN
  PROVE  Typed'
<1>1. /\ priced' = [priced EXCEPT ![t] = {}]
      /\ target' = [target EXCEPT ![t] = NoTarget] /\ plan' = [plan EXCEPT ![t] = {}]
      /\ seen' = [seen EXCEPT ![t] = Nothing] /\ used' = [used EXCEPT ![t] = {}]
      /\ reserved' = IF t = "daily" THEN {} ELSE reserved
  BY DEF EndPass, Goto
<1>2. DOMAIN NoTarget = {}
  BY DEF NoTarget
<1> USE DEF Typed, TypeOK
<1>3. priced' \in [Thread -> SUBSET Symbol] /\ used' \in [Thread -> SUBSET Symbol]
      /\ reserved' \subseteq Symbol /\ seen' \in [Thread -> [Symbol -> Int]]
  BY <1>1 DEF Nothing
<1>4. plan' \in [Thread -> SUBSET [sym : Symbol, qty : Int \ {0}]]
  BY <1>1
<1>5. DOMAIN target' = Thread /\ \A u \in Thread : /\ DOMAIN target'[u] \subseteq Symbol
                           /\ \A s \in DOMAIN target'[u] : target'[u][s] \in Nat
  BY <1>1, <1>2
<1>6. UNCHANGED <<held, working, book, excused>>
  BY DEF account
<1> QED BY <1>3, <1>4, <1>5, <1>6, TypedFrom

\* The target a pass aims at for one name.
LEMMA AimEffect ==
  ASSUME Typed, NEW t \in Thread, NEW s \in Symbol, NEW units \in Nat, Aim(t, s, units)
  PROVE  /\ DOMAIN target' = Thread
         /\ \A u \in Thread : u # t => target'[u] = target[u]
         /\ DOMAIN target'[t] = DOMAIN target[t] \cup {s}
         /\ \A x \in DOMAIN target'[t] : target'[t][x] = IF x = s THEN units ELSE target[t][x]
BY DEF Aim, Typed

\* A step of a pass that touches only its target.
LEMMA AimTyped ==
  ASSUME Typed, SleeveTypes', NEW t \in Thread, NEW s \in Symbol, NEW units \in Nat,
         Aim(t, s, units), UNCHANGED <<account, input, plan, seen, used, reserved, history>>
  PROVE  Typed'
<1>1. DOMAIN target' = Thread /\ \A u \in Thread : /\ DOMAIN target'[u] \subseteq Symbol
                           /\ \A x \in DOMAIN target'[u] : target'[u][x] \in Nat
  <2>1. ASSUME NEW u \in Thread
        PROVE  DOMAIN target'[u] \subseteq Symbol /\ \A x \in DOMAIN target'[u] : target'[u][x] \in Nat
    <3>1. CASE u = t
      <4>1. DOMAIN target'[t] = DOMAIN target[t] \cup {s} /\ DOMAIN target[t] \subseteq Symbol
        BY AimEffect DEF Typed, TypeOK
      <4>2. ASSUME NEW x \in DOMAIN target'[t] PROVE target'[t][x] \in Nat
        <5>1. target'[t][x] = IF x = s THEN units ELSE target[t][x]
          BY <4>2, AimEffect
        <5>2. x # s => target[t][x] \in Nat
          BY <4>1, <4>2 DEF Typed, TypeOK
        <5> QED BY <5>1, <5>2
      <4> QED BY <3>1, <4>1, <4>2
    <3>2. CASE u # t
      <4>1. target'[u] = target[u]
        BY <3>2, AimEffect
      <4> QED BY <4>1 DEF Typed, TypeOK
    <3> QED BY <3>1, <3>2
  <2> QED BY <2>1, AimEffect
<1> QED BY <1>1, TypedFrom DEF Typed, TypeOK, account, input, history

\* A step that leaves what SleeveTypes does not speak of.
LEMMA SameTyped ==
  ASSUME Typed, SleeveTypes', UNCHANGED <<account, input, target, plan, seen, used, reserved, history>>
  PROVE  Typed'
BY TypedFrom DEF Typed, TypeOK, account, input, history

\* A pass begins.
LEMMA BeginTyped ==
  ASSUME Typed, SleeveTypes', NEW t \in Thread, NEW stage, NEW owned, Begin(t, stage, owned),
         clean' \in BOOLEAN
  PROVE  Typed'
<1>1. PICK P \in SUBSET Symbol : priced' = [priced EXCEPT ![t] = P]
  BY SleevesAssumption DEF Begin
<1>2. priced' \in [Thread -> SUBSET Symbol]
  BY <1>1 DEF Typed, TypeOK
<1>3. UNCHANGED <<held, working, target, plan, seen, used, reserved, book, excused>>
  BY DEF Begin, account
<1> QED BY <1>2, <1>3, TypedFrom DEF Typed, TypeOK

\* What an engine counts a name as is a number.
LEMMA CountedType ==
  ASSUME Typed, NEW t \in Thread, NEW s \in Symbol
  PROVE  Counted(t, s) \in Int /\ seen[t][s] \in Int
<1>1. Working(s) \in Int
  BY EffectiveType
<1>2. seen[t][s] \in Int
  BY DEF Typed, TypeOK
<1> QED BY <1>1, <1>2 DEF Counted

\* What is planned is an order of a name.
LEMMA OutgoingTyped ==
  ASSUME Typed, NEW t \in Thread
  PROVE  Outgoing(t) \subseteq [sym : Symbol, qty : Int \ {0}]
<1> SUFFICES ASSUME NEW s \in DOMAIN target[t] \cap priced[t], target[t][s] # Counted(t, s)
             PROVE  [sym |-> s, qty |-> target[t][s] - Counted(t, s)] \in [sym : Symbol, qty : Int \ {0}]
  BY DEF Outgoing
<1>1. s \in Symbol /\ target[t][s] \in Int
  BY DEF Typed, TypeOK
<1>2. Counted(t, s) \in Int
  BY <1>1, CountedType
<1> QED BY <1>1, <1>2

\* A pass that leaves its engine.
LEMMA LeaveTyped ==
  ASSUME Typed, SleeveTypes', NEW t \in Thread, Leave(t), UNCHANGED <<account, book, excused>>,
         clean' \in BOOLEAN
  PROVE  Typed'
<1>1. CASE EndPass(t)
  BY <1>1, EndPassTyped
<1>2. CASE ~EndPass(t)
  <2>1. /\ target' = [target EXCEPT ![t] = NoTarget] /\ plan' = [plan EXCEPT ![t] = {}]
        /\ UNCHANGED <<input, seen, used, reserved>>
    BY <1>2 DEF Leave
  <2>2. DOMAIN NoTarget = {}
    BY DEF NoTarget
  <2>3. DOMAIN target' = Thread /\ \A u \in Thread : /\ DOMAIN target'[u] \subseteq Symbol
                             /\ \A s \in DOMAIN target'[u] : target'[u][s] \in Nat
    BY <2>1, <2>2 DEF Typed, TypeOK
  <2>4. plan' \in [Thread -> SUBSET [sym : Symbol, qty : Int \ {0}]]
    BY <2>1 DEF Typed, TypeOK
  <2> QED BY <2>1, <2>3, <2>4, TypedFrom DEF Typed, TypeOK, account, input
<1> QED BY <1>1, <1>2

\* The news thread's steps keep the types.
LEMMA NewsTyped ==
  ASSUME Typed, SleeveTypes', NewsPass
  PROVE  Typed'
<1>1. CASE NewsStart
  BY <1>1, BeginTyped DEF NewsStart, Thread
<1>2. CASE NewsClose
  <2>1. PICK r \in newsRows : Aim("news", r.sym, 0)
    BY <1>2 DEF NewsClose, DueNews, OldNews
  <2>2. r.sym \in Symbol
    BY DEF Typed, TypeOK, NewsRow
  <2> QED BY <1>2, <2>1, <2>2, AimTyped DEF NewsClose, Thread
<1>3. CASE NewsClosed
  BY <1>3, SameTyped DEF NewsClosed
<1>4. CASE NewsOpen
  <2>1. PICK e \in Symbol \X Story : Aim("news", e[1], NewsUnits)
    BY <1>4 DEF NewsOpen, Typed, TypeOK
  <2> QED BY <1>4, <2>1, AimTyped, SleevesAssumption DEF NewsOpen, Thread
<1>5. CASE NewsOpened
  <2>1. CASE EndPass("news")
    BY <1>5, <2>1, EndPassTyped DEF NewsOpened, Thread, history, Typed, TypeOK
  <2>2. CASE ~EndPass("news")
    BY <1>5, <2>2, SameTyped DEF NewsOpened
  <2> QED BY <2>1, <2>2
<1> QED BY <1>1, <1>2, <1>3, <1>4, <1>5 DEF NewsPass

\* The selection of the book.
LEMMA SelectTyped ==
  ASSUME Typed, SleeveTypes', Select
  PROVE  Typed'
<1>1. PICK W \in SUBSET (priced["daily"] \ reserved) :
        /\ book' = W
        /\ target' = [target EXCEPT !["daily"] =
             [s \in W \cup (HeldByBook \cap priced["daily"]) |-> IF s \in W THEN BookUnits ELSE 0]]
  BY DEF Select
<1>2. W \subseteq Symbol /\ HeldByBook \subseteq Symbol
  BY DEF Typed, TypeOK, Thread, HeldByBook
<1>3. DOMAIN target' = Thread /\ \A u \in Thread : /\ DOMAIN target'[u] \subseteq Symbol
                           /\ \A s \in DOMAIN target'[u] : target'[u][s] \in Nat
  BY <1>1, <1>2, SleevesAssumption DEF Typed, TypeOK
<1>4. UNCHANGED <<held, working, priced, plan, seen, used, reserved, excused>> /\ clean' \in BOOLEAN
  BY DEF Select, account, input, Typed, TypeOK
<1> QED BY <1>1, <1>2, <1>3, <1>4, TypedFrom DEF Typed, TypeOK

\* The daily thread's steps keep the types.
LEMMA DailyTyped ==
  ASSUME Typed, SleeveTypes', DailyPass
  PROVE  Typed'
<1>1. CASE DailyStart \/ InsiderAlone
  BY <1>1, BeginTyped DEF DailyStart, InsiderAlone, Thread
<1>2. CASE Reserve
  <2>1. reserved' \subseteq Symbol
    BY <1>2 DEF Reserve, OwnedByNews, OwnedByInsider, Known, SymsOf, Typed, TypeOK, NewsRow, InsRow
  <2> QED BY <1>2, <2>1, TypedFrom DEF Reserve, Typed, TypeOK, account, input, history
<1>3. CASE Select
  BY <1>3, SelectTyped
<1>4. CASE InsiderClose
  <2>1. PICK r \in insRows : Aim("daily", r.sym, 0)
    BY <1>4 DEF InsiderClose, DueInsider, OldIns
  <2>2. r.sym \in Symbol
    BY DEF Typed, TypeOK, InsRow
  <2> QED BY <1>4, <2>1, <2>2, AimTyped DEF InsiderClose, Thread
<1>5. CASE InsiderClosed
  BY <1>5, SameTyped DEF InsiderClosed
<1>6. CASE InsiderOpen
  <2>1. PICK s \in Symbol : Aim("daily", s, InsiderUnits)
    BY <1>6 DEF InsiderOpen, Typed, TypeOK
  <2> QED BY <1>6, <2>1, AimTyped, SleevesAssumption DEF InsiderOpen, Thread
<1>7. CASE InsiderOpened
  <2>1. CASE EndPass("daily")
    BY <1>7, <2>1, EndPassTyped DEF InsiderOpened, Thread, history, Typed, TypeOK
  <2>2. CASE ~EndPass("daily")
    BY <1>7, <2>2, SameTyped DEF InsiderOpened
  <2> QED BY <2>1, <2>2
<1> QED BY <1>1, <1>2, <1>3, <1>4, <1>5, <1>6, <1>7 DEF DailyPass

\* What a send does: an order of the plan becomes a working order of its name.
LEMMA SendOf ==
  ASSUME Typed, NEW t \in Thread, Send(t)
  PROVE  \E o \in plan[t] : \E x :
           /\ o.sym \notin used[t] /\ o.sym \in Symbol /\ o.qty \in Int \ {0}
           /\ x \in [sym : Symbol, qty : Int \ {0}, by : Thread, at : Nat]
           /\ x.sym = o.sym /\ x.qty = o.qty /\ x.by = t /\ x.at = asOf[t]
           /\ plan' = [plan EXCEPT ![t] = @ \ {o}]
           /\ used' = [used EXCEPT ![t] = @ \cup {o.sym}]
           /\ working' = working \cup {x}
<1>1. NextOut(t) \subseteq plan[t]
  BY DEF NextOut
<1>2. PICK o \in plan[t] :
        /\ o.sym \notin used[t]
        /\ plan' = [plan EXCEPT ![t] = @ \ {o}] /\ used' = [used EXCEPT ![t] = @ \cup {o.sym}]
        /\ working' = working \cup {[sym |-> o.sym, qty |-> o.qty, by |-> t, at |-> asOf[t]]}
  BY <1>1 DEF Send
<1>3. o \in [sym : Symbol, qty : Int \ {0}] /\ asOf[t] \in Nat
  BY DEF Typed, TypeOK
<1> QED BY <1>2, <1>3

\* The engines keep the types.
LEMMA EngineTyped ==
  ASSUME Typed, SleeveTypes', NEW t \in Thread, Engine(t)
  PROVE  Typed'
<1>1. CASE ReadPositions(t) \/ ReadOpenOrders(t)
  <2>1. plan' \in [Thread -> SUBSET [sym : Symbol, qty : Int \ {0}]]
    <3>1. plan' = plan \/ plan' = [plan EXCEPT ![t] = Outgoing(t)]
      BY <1>1 DEF ReadPositions, ReadOpenOrders
    <3>2. plan \in [Thread -> SUBSET [sym : Symbol, qty : Int \ {0}]]
      BY DEF Typed, TypeOK
    <3> QED BY <3>1, <3>2, OutgoingTyped
  <2>2. seen' \in [Thread -> [Symbol -> Int]]
    BY <1>1 DEF ReadPositions, ReadOpenOrders, Nothing, Typed, TypeOK
  <2>3. clean' \in BOOLEAN /\ excused' \in BOOLEAN
    BY <1>1 DEF ReadPositions, ReadOpenOrders, Typed, TypeOK, AtSending, history
  <2> QED BY <1>1, <2>1, <2>2, <2>3, TypedFrom
          DEF ReadPositions, ReadOpenOrders, Typed, TypeOK, account, input, history
<1>2. CASE Halt(t)
  BY <1>2, LeaveTyped DEF Halt
<1>3. CASE Send(t)
  <2>1. PICK o \in plan[t], x \in [sym : Symbol, qty : Int \ {0}, by : Thread, at : Nat] :
           /\ o.sym \in Symbol
           /\ plan' = [plan EXCEPT ![t] = @ \ {o}]
           /\ used' = [used EXCEPT ![t] = @ \cup {o.sym}]
           /\ working' = working \cup {x}
    BY <1>3, SendOf
  <2>2. IsFiniteSet(working') /\ working' \subseteq [sym : Symbol, qty : Int \ {0}, by : Thread, at : Nat]
    BY <2>1, FS_AddElement DEF Typed, TypeOK
  <2>3. plan' \in [Thread -> SUBSET [sym : Symbol, qty : Int \ {0}]] /\ used' \in [Thread -> SUBSET Symbol]
    BY <2>1 DEF Typed, TypeOK
  <2> QED BY <1>3, <2>2, <2>3, TypedFrom DEF Send, Typed, TypeOK, input, history
<1>4. CASE Skip(t)
  <2>1. PICK o : plan' = [plan EXCEPT ![t] = @ \ {o}]
    BY <1>4 DEF Skip
  <2>2. plan' \in [Thread -> SUBSET [sym : Symbol, qty : Int \ {0}]]
    BY <2>1 DEF Typed, TypeOK
  <2> QED BY <1>4, <2>2, TypedFrom DEF Skip, Typed, TypeOK, account, input
<1>5. CASE AllSent(t)
  BY <1>5, LeaveTyped DEF AllSent, history, Typed, TypeOK
<1>6. CASE Fail(t)
  BY <1>6, EndPassTyped DEF Fail
<1> QED BY <1>1, <1>2, <1>3, <1>4, <1>5, <1>6 DEF Engine

\* The market keeps the types.
LEMMA WorldTyped ==
  ASSUME Typed, SleeveTypes', Fill \/ Drop \/ Tick \/ UNCHANGED vars
  PROVE  Typed'
<1>1. CASE Fill \/ Drop
  <2>1. PICK o \in working : working' = working \ {o}
              /\ \/ held' = [held EXCEPT ![o.sym] = @ + o.qty]
                 \/ held' = held
    BY <1>1 DEF Fill, Drop
  <2>2. held' \in [Symbol -> Int]
    BY <2>1 DEF Typed, TypeOK
  <2>3. IsFiniteSet(working')
    BY <2>1, FS_Subset DEF Typed
  <2>4. clean' \in BOOLEAN /\ excused' \in BOOLEAN
    BY <1>1 DEF Fill, Drop, Unseen, Typed, TypeOK
  <2> QED BY <1>1, <2>1, <2>2, <2>3, <2>4, TypedFrom DEF Fill, Drop, Typed, TypeOK, input
<1>2. CASE Tick \/ UNCHANGED vars
  BY <1>2, SameTyped DEF Tick, vars
<1> QED BY <1>1, <1>2

\* Every step keeps the types.
LEMMA TypedStep ==
  ASSUME Typed, SleeveTypes', [Next]_vars
  PROVE  Typed'
BY NewsTyped, DailyTyped, EngineTyped, WorldTyped DEF Next

\* Initially.
LEMMA TypedInit == Init => Typed
<1> SUFFICES ASSUME Init PROVE Typed
  OBVIOUS
<1>1. IsFiniteSet(working)
  BY FS_EmptySet DEF Init
<1>2. DOMAIN NoTarget = {}
  BY DEF NoTarget
<1>3. DOMAIN target = Thread /\ DOMAIN events = Thread
      /\ \A t \in Thread : target[t] = NoTarget /\ events[t] = {}
  BY DEF Init
<1>4. \A t \in Thread : /\ DOMAIN target[t] \subseteq Symbol
                         /\ \A s \in DOMAIN target[t] : target[t][s] \in Nat
  BY <1>2, <1>3
<1>5. SleeveTypes
  BY SleevesInitInv DEF SleevesInv
<1>6. /\ held \in [Symbol -> Int] /\ working = {} /\ priced \in [Thread -> SUBSET Symbol]
      /\ plan \in [Thread -> SUBSET [sym : Symbol, qty : Int \ {0}]]
      /\ seen \in [Thread -> [Symbol -> Int]]
      /\ used \in [Thread -> SUBSET Symbol] /\ reserved \subseteq Symbol /\ book \subseteq Symbol
      /\ clean \in BOOLEAN /\ excused \in BOOLEAN
  <2>1. /\ held = Nothing /\ seen = [t \in Thread |-> Nothing] /\ priced = [t \in Thread |-> {}]
        /\ plan = [t \in Thread |-> {}] /\ used = [t \in Thread |-> {}]
    BY DEF Init
  <2>2. held \in [Symbol -> Int] /\ priced \in [Thread -> SUBSET Symbol]
        /\ seen \in [Thread -> [Symbol -> Int]] /\ used \in [Thread -> SUBSET Symbol]
    BY <2>1 DEF Nothing
  <2>3. plan \in [Thread -> SUBSET [sym : Symbol, qty : Int \ {0}]]
    BY <2>1
  <2>4. working = {} /\ reserved = {} /\ book = {} /\ clean = FALSE /\ excused = FALSE
    BY DEF Init
  <2> QED BY <2>2, <2>3, <2>4
<1> QED BY <1>1, <1>3, <1>4, <1>5, <1>6 DEF Typed, TypeOK, SleeveTypes

-----------------------------------------------------------------------------
(* No name is sold short                                                    *)

\* No order still to be sent sells more than its name comes to, unless the name has been
\* ordered in this pass already.
Covered(t) ==
  \A o \in plan[t] : o.sym \notin used[t] => Effective(o.sym) + o.qty >= 0

\* What an engine has read of the names it aims at is no more than has settled since.
Lagging(t) ==
  \A s \in DOMAIN target[t] : seen[t][s] <= held[s]

\* A pass has ordered every name it has an order of at the broker.
SentOnce ==
  \A o \in working :
    /\ o.at <= clock
    /\ \A t \in Thread : pc[t] # "idle" /\ o.by = t /\ o.at = asOf[t] => o.sym \in used[t]

\* Unless excused, no name is short, one engine sends at a time, what it can cover, and
\* no other reads more than there is.
NeverShort ==
  ~excused =>
    /\ \A s \in Symbol : Effective(s) >= 0
    /\ ~(AtSending("news") /\ AtSending("daily"))
    /\ \A t \in Thread : AtSending(t) => Covered(t)
    /\ \A t \in Thread : AtReading(t) => Lagging(t)

\* What a sending thread has still to send, and what a reading one has read.
Pending(t) ==
  /\ AtSending(t)' => AtSending(t) /\ plan'[t] \subseteq plan[t]
  /\ AtReading(t)' => AtReading(t) /\ seen'[t] = seen[t] /\ target'[t] = target[t]

\* A step that reads, plans and sends nothing for a thread: its pass is over, begins, or
\* goes on.
Calm(t) ==
  \/ pc'[t] = "idle"
  \/ ~AtSending(t)' /\ ~AtReading(t)' /\ asOf'[t] = clock + 1
  \/ pc[t] # "idle" /\ asOf'[t] = asOf[t] /\ used'[t] = used[t] /\ Pending(t)
  \/ UNCHANGED <<pc[t], asOf[t], used[t], plan[t], seen[t], target[t]>>

\* The stages at which an engine has begun.
Sends == {"reading", "insReading", "sending", "insSending"}

\* The end of a pass is calm for both threads.
LEMMA EndPassCalm ==
  ASSUME Typed, NEW t \in Thread, EndPass(t), NEW u \in Thread
  PROVE  Calm(u)
<1>1. CASE u = t
  BY <1>1 DEF EndPass, Goto, Calm, Typed, TypeOK
<1>2. CASE u # t
  BY <1>2 DEF EndPass, Goto, Calm, Typed, TypeOK
<1> QED BY <1>1, <1>2

\* So is a pass that moves to a stage at which nothing is sent.
LEMMA GotoCalm ==
  ASSUME Typed, NEW t \in Thread, NEW stage \in Stage \ Sends,
         Goto(t, stage), pc[t] # "idle", UNCHANGED <<asOf, used, seen>>,
         \A u \in Thread : u # t => plan'[u] = plan[u] /\ target'[u] = target[u],
         NEW u \in Thread
  PROVE  Calm(u)
<1>1. CASE u = t
  BY <1>1 DEF Goto, Calm, Pending, AtSending, AtReading, Sends, Typed, TypeOK
<1>2. CASE u # t
  BY <1>2 DEF Goto, Calm, Typed, TypeOK
<1> QED BY <1>1, <1>2

\* And the beginning of one.
LEMMA BeginCalm ==
  ASSUME Typed, NEW t \in Thread, NEW stage \in Stage \ Sends, NEW owned,
         Begin(t, stage, owned), NEW u \in Thread
  PROVE  Calm(u)
<1>1. CASE u = t
  BY <1>1 DEF Begin, Goto, Calm, AtSending, AtReading, Sends, Typed, TypeOK
<1>2. CASE u # t
  BY <1>2 DEF Begin, Goto, Calm, Typed, TypeOK
<1> QED BY <1>1, <1>2

\* And a pass that sets a target before its engine.
LEMMA AimCalm ==
  ASSUME Typed, NEW t \in Thread, NEW s \in Symbol, NEW units \in Nat, Aim(t, s, units),
         UNCHANGED <<pc, asOf, used, plan, seen>>, ~AtSending(t), ~AtReading(t), NEW u \in Thread
  PROVE  Calm(u)
<1>1. CASE u = t
  BY <1>1 DEF Calm, Pending, AtSending, AtReading
<1>2. CASE u # t
  BY <1>2, AimEffect DEF Calm
<1> QED BY <1>1, <1>2

\* A pass that leaves its engine.
LEMMA LeaveCalm ==
  ASSUME Typed, NEW t \in Thread, Leave(t), NEW u \in Thread
  PROVE  Calm(u)
<1>1. CASE EndPass(t)
  BY <1>1, EndPassCalm
<1>2. CASE ~EndPass(t)
  <2>1. /\ Goto(t, "insClosing") /\ pc[t] # "idle" /\ target' = [target EXCEPT ![t] = NoTarget]
        /\ plan' = [plan EXCEPT ![t] = {}] /\ UNCHANGED <<asOf, used, seen>>
    BY <1>2 DEF Leave, input
  <2>2. \A v \in Thread : v # t => plan'[v] = plan[v] /\ target'[v] = target[v]
    BY <2>1 DEF Typed, TypeOK
  <2> QED BY <2>1, <2>2, GotoCalm DEF Stage, Sends
<1> QED BY <1>1, <1>2

\* Everything but the engines' planning and sending is calm, and moves no name.
LEMMA CalmSteps ==
  ASSUME Typed,
         \/ NewsPass \/ DailyPass \/ Tick \/ UNCHANGED vars
         \/ \E t \in Thread : Halt(t) \/ Skip(t) \/ AllSent(t) \/ Fail(t)
  PROVE  /\ \A t \in Thread : Calm(t)
         /\ UNCHANGED account /\ excused' = excused /\ clock <= clock'
<1>0. clock \in Nat
  BY DEF Typed, TypeOK
<1>1. CASE NewsPass
  <2>1. UNCHANGED account /\ excused' = excused /\ clock <= clock'
    BY <1>0, <1>1 DEF NewsPass, NewsStart, Begin, NewsClose, NewsClosed, NewsOpen, NewsOpened, history
  <2>2. ASSUME NEW u \in Thread PROVE Calm(u)
    <3>1. CASE NewsStart
      BY <3>1, BeginCalm DEF NewsStart, Thread, Stage, Sends
    <3>2. CASE NewsClose
      <4>1. PICK r \in newsRows : Aim("news", r.sym, 0)
        BY <3>2 DEF NewsClose, DueNews, OldNews
      <4>2. r.sym \in Symbol
        BY DEF Typed, TypeOK, NewsRow
      <4> QED BY <3>2, <4>1, <4>2, AimCalm DEF NewsClose, Thread, AtSending, AtReading, input
    <3>3. CASE NewsClosed
      BY <3>3, GotoCalm DEF NewsClosed, Thread, Stage, Sends, input
    <3>4. CASE NewsOpen
      <4>1. PICK e \in Symbol \X Story : Aim("news", e[1], NewsUnits)
        BY <3>4 DEF NewsOpen, Typed, TypeOK
      <4> QED BY <3>4, <4>1, AimCalm, SleevesAssumption DEF NewsOpen, Thread, AtSending, AtReading, input
    <3>5. CASE NewsOpened
      BY <3>5, EndPassCalm, GotoCalm DEF NewsOpened, Thread, Stage, Sends, input
    <3> QED BY <1>1, <3>1, <3>2, <3>3, <3>4, <3>5 DEF NewsPass
  <2> QED BY <2>1, <2>2
<1>2. CASE DailyPass
  <2>1. UNCHANGED account /\ excused' = excused /\ clock <= clock'
    BY <1>0, <1>2 DEF DailyPass, DailyStart, InsiderAlone, Begin, Reserve, Select, InsiderClose, InsiderClosed,
       InsiderOpen, InsiderOpened, history
  <2>2. ASSUME NEW u \in Thread PROVE Calm(u)
    <3>1. CASE DailyStart \/ InsiderAlone
      BY <3>1, BeginCalm DEF DailyStart, InsiderAlone, Thread, Stage, Sends
    <3>2. CASE Reserve
      BY <3>2, GotoCalm DEF Reserve, Thread, Stage, Sends, input
    <3>3. CASE Select
      <4>1. \A v \in Thread : v # "daily" => plan'[v] = plan[v] /\ target'[v] = target[v]
        BY <3>3 DEF Select, Typed, TypeOK
      <4>2. Goto("daily", "insClosing") \/ Goto("daily", "engine")
        BY <3>3 DEF Select
      <4>3. UNCHANGED <<asOf, used, seen>> /\ pc["daily"] # "idle"
        BY <3>3 DEF Select, input
      <4> QED BY <4>1, <4>2, <4>3, GotoCalm DEF Thread, Stage, Sends
    <3>4. CASE InsiderClose
      <4>1. PICK r \in insRows : Aim("daily", r.sym, 0)
        BY <3>4 DEF InsiderClose, DueInsider, OldIns
      <4>2. r.sym \in Symbol
        BY DEF Typed, TypeOK, InsRow
      <4> QED BY <3>4, <4>1, <4>2, AimCalm DEF InsiderClose, Thread, AtSending, AtReading, input
    <3>5. CASE InsiderClosed
      BY <3>5, GotoCalm DEF InsiderClosed, Thread, Stage, Sends, input
    <3>6. CASE InsiderOpen
      <4>1. PICK s \in Symbol : Aim("daily", s, InsiderUnits)
        BY <3>6 DEF InsiderOpen, Typed, TypeOK
      <4> QED BY <3>6, <4>1, AimCalm, SleevesAssumption DEF InsiderOpen, Thread, AtSending, AtReading, input
    <3>7. CASE InsiderOpened
      BY <3>7, EndPassCalm, GotoCalm DEF InsiderOpened, Thread, Stage, Sends, input
    <3> QED BY <1>2, <3>1, <3>2, <3>3, <3>4, <3>5, <3>6, <3>7 DEF DailyPass
  <2> QED BY <2>1, <2>2
<1>3. ASSUME NEW t \in Thread, Halt(t) \/ Skip(t) \/ AllSent(t) \/ Fail(t)
      PROVE  /\ \A u \in Thread : Calm(u)
             /\ UNCHANGED account /\ excused' = excused /\ clock <= clock'
  <2>1. UNCHANGED account /\ excused' = excused /\ clock <= clock'
    BY <1>0, <1>3 DEF Halt, Skip, AllSent, Fail, history
  <2>2. CASE Skip(t)
    <3>1. /\ AtSending(t) /\ UNCHANGED <<pc, asOf, used, seen, target>>
          /\ \A u \in Thread : plan'[u] \subseteq plan[u]
      BY <2>2 DEF Skip, input, Typed, TypeOK
    <3>2. \A u \in Thread : u = t \/ plan'[u] = plan[u]
      BY <2>2 DEF Skip, Typed, TypeOK
    <3> QED BY <2>1, <3>1, <3>2 DEF Calm, Pending, AtSending, AtReading
  <2>3. CASE ~Skip(t)
    BY <1>3, <2>1, <2>3, LeaveCalm, EndPassCalm DEF Halt, AllSent, Fail
  <2> QED BY <2>2, <2>3
<1>4. CASE Tick \/ UNCHANGED vars
  BY <1>0, <1>4 DEF Tick, vars, Calm, input, history, account
<1> QED BY <1>1, <1>2, <1>3, <1>4

\* The three together.
ShortInv == Typed /\ SentOnce /\ NeverShort

\* A step that is calm for both threads keeps both, if it moves no name and takes nothing
\* from what a reading engine has seen.
LEMMA CalmKeeps ==
  ASSUME ShortInv, Typed', \A t \in Thread : Calm(t), \A s \in Symbol : Effective(s)' = Effective(s),
         excused => excused', working' \subseteq working, clock <= clock', clock' \in Nat,
         ~excused' => \A t \in Thread : AtReading(t) =>
                        \A s \in DOMAIN target[t] : held'[s] >= held[s]
  PROVE  SentOnce' /\ NeverShort'
<1>1. \A o \in working : o.at \in Nat /\ o.at <= clock /\ clock \in Nat
  BY DEF ShortInv, SentOnce, Typed, TypeOK
<1>2. SentOnce'
  <2> SUFFICES ASSUME NEW o \in working, NEW t \in Thread, pc'[t] # "idle", o.by = t, o.at = asOf'[t],
                      working' \subseteq working
               PROVE  o.sym \in used'[t]
    BY <1>1 DEF SentOnce
  <2>1. asOf'[t] # clock + 1
    BY <1>1
  <2> QED BY <2>1 DEF Calm, ShortInv, SentOnce
<1>3. NeverShort'
  <2> SUFFICES ASSUME ~excused'
               PROVE  /\ \A s \in Symbol : Effective(s)' >= 0
                      /\ ~(AtSending("news")' /\ AtSending("daily")')
                      /\ \A t \in Thread : AtSending(t)' => Covered(t)'
                      /\ \A t \in Thread : AtReading(t)' => Lagging(t)'
    BY DEF NeverShort
  <2>0. /\ \A s \in Symbol : Effective(s) >= 0
        /\ ~(AtSending("news") /\ AtSending("daily"))
        /\ \A t \in Thread : AtSending(t) => Covered(t)
        /\ \A t \in Thread : AtReading(t) => Lagging(t)
    BY DEF ShortInv, NeverShort
  <2>1. \A s \in Symbol : Effective(s)' >= 0
    BY <2>0
  <2>2. \A t \in Thread : AtSending(t)' =>
          AtSending(t) /\ plan'[t] \subseteq plan[t] /\ used'[t] = used[t]
    BY DEF Calm, Pending, AtSending
  <2>3. ~(AtSending("news")' /\ AtSending("daily")')
    BY <2>0, <2>2 DEF Thread
  <2>4. ASSUME NEW t \in Thread, AtSending(t)' PROVE Covered(t)'
    <3>1. Covered(t) /\ plan'[t] \subseteq plan[t] /\ used'[t] = used[t]
      BY <2>0, <2>2, <2>4
    <3>2. \A o \in plan[t] : o.sym \in Symbol
      BY DEF ShortInv, Typed, TypeOK
    <3> QED BY <3>1, <3>2 DEF Covered
  <2>5. ASSUME NEW t \in Thread, AtReading(t)' PROVE Lagging(t)'
    <3>1. AtReading(t) /\ seen'[t] = seen[t] /\ target'[t] = target[t]
      BY <2>5 DEF Calm, Pending, AtReading
    <3>2. \A s \in DOMAIN target[t] : seen[t][s] <= held[s] /\ held[s] <= held'[s]
      BY <2>0, <3>1 DEF Lagging
    <3>3. \A s \in DOMAIN target[t] : seen[t][s] \in Int /\ held[s] \in Int /\ held'[s] \in Int
      BY DEF ShortInv, Typed, TypeOK
    <3> QED BY <3>1, <3>2, <3>3 DEF Lagging
  <2> QED BY <2>1, <2>3, <2>4, <2>5
<1> QED BY <1>2, <1>3

\* A fill moves no name; a sell that an engine in the middle of its reads has seen only
\* half of is excused.
LEMMA FillKeeps ==
  ASSUME ShortInv, Typed', Fill, clock' \in Nat
  PROVE  /\ SentOnce' /\ NeverShort'
         /\ \A s \in Symbol : Effective(s)' = Effective(s)
<1>1. PICK o \in working : /\ working' = working \ {o}
                           /\ held' = [held EXCEPT ![o.sym] = @ + o.qty]
                           /\ excused' = (excused \/ (o.qty < 0 /\ Unseen(o)))
  BY DEF Fill
<1>2. Typed /\ UNCHANGED <<clock, pc, asOf, used, plan, seen, target>>
  BY DEF Fill, ShortInv, input
<1>3. \A s \in Symbol : Effective(s)' = Effective(s)
  BY <1>1, <1>2, FillEffect
<1>4. \A t \in Thread : Calm(t)
  BY <1>2 DEF Calm
<1>5. ASSUME ~excused', NEW t \in Thread, AtReading(t), NEW s \in DOMAIN target[t]
      PROVE  held'[s] >= held[s]
  <2>1. s \in Symbol /\ held[s] \in Int /\ o.qty \in Int
    BY <1>2 DEF Typed, TypeOK
  <2>2. held'[s] = IF o.sym = s THEN held[s] + o.qty ELSE held[s]
    BY <1>1, <1>2, <2>1 DEF Typed, TypeOK
  <2>3. o.sym = s => Unseen(o)
    BY <1>5 DEF Unseen
  <2>4. ~(o.qty < 0 /\ Unseen(o))
    BY <1>1, <1>5
  <2>5. o.sym = s => o.qty >= 0
    BY <2>1, <2>3, <2>4
  <2> QED BY <2>1, <2>2, <2>5
<1>6. (excused => excused') /\ working' \subseteq working /\ clock <= clock'
  BY <1>1, <1>2 DEF Typed, TypeOK
<1> QED BY <1>3, <1>4, <1>5, <1>6, CalmKeeps

\* The first read sees what has settled.
LEMMA ReadPositionsKeeps ==
  ASSUME ShortInv, NEW t \in Thread, ReadPositions(t)
  PROVE  SentOnce' /\ NeverShort'
<1>1. /\ UNCHANGED <<clock, account, asOf, used, plan, target, excused>> /\ pc[t] # "idle"
      /\ UNCHANGED <<held, working>>
  BY DEF ReadPositions, account, input, AtEngine, history
<1>2. /\ \A u \in Thread : u # t => pc'[u] = pc[u] /\ seen'[u] = seen[u]
      /\ pc'[t] \in {"reading", "insReading"} /\ seen'[t] = held
  BY DEF ReadPositions, Goto, ShortInv, Typed, TypeOK
<1>3. SentOnce'
  <2>1. \A u \in Thread : pc'[u] # "idle" => pc[u] # "idle"
    BY <1>1, <1>2
  <2> QED BY <1>1, <2>1 DEF ShortInv, SentOnce
<1>4. NeverShort'
  <2> SUFFICES ASSUME ~excused
               PROVE  /\ \A s \in Symbol : Effective(s)' >= 0
                      /\ ~(AtSending("news")' /\ AtSending("daily")')
                      /\ \A u \in Thread : AtSending(u)' => Covered(u)'
                      /\ \A u \in Thread : AtReading(u)' => Lagging(u)'
    BY <1>1 DEF NeverShort
  <2>0. /\ \A s \in Symbol : Effective(s) >= 0
        /\ ~(AtSending("news") /\ AtSending("daily"))
        /\ \A u \in Thread : AtSending(u) => Covered(u)
        /\ \A u \in Thread : AtReading(u) => Lagging(u)
    BY DEF ShortInv, NeverShort
  <2>1. \A s : Effective(s)' = Effective(s)
    BY <1>1, SameEffect
  <2>2. \A u \in Thread : AtSending(u)' => AtSending(u)
    BY <1>2 DEF AtSending
  <2>3. \A u \in Thread : AtReading(u)' => AtReading(u) \/ u = t
    BY <1>2 DEF AtReading
  <2>4. \A s \in DOMAIN target[t] : held[s] \in Int
    BY DEF ShortInv, Typed, TypeOK
  <2>5. Lagging(t)'
    BY <1>1, <1>2, <2>4 DEF Lagging
  <2>6. ASSUME NEW u \in Thread, u # t, AtReading(u)' PROVE Lagging(u)'
    BY <1>1, <1>2, <2>0, <2>3, <2>6 DEF Lagging
  <2>7. ASSUME NEW u \in Thread, AtSending(u)' PROVE Covered(u)'
    BY <1>1, <2>0, <2>1, <2>2, <2>7 DEF Covered
  <2> QED BY <2>0, <2>1, <2>2, <2>5, <2>6, <2>7 DEF Thread
<1> QED BY <1>3, <1>4

\* Planning: every order of the plan closes the distance of its name to the target, from
\* what the two reads counted.
LEMMA PlanAims ==
  ASSUME Typed, NEW t \in Thread, ReadOpenOrders(t)
  PROVE  /\ \A o \in plan'[t] :
              /\ o.sym \in DOMAIN target[t] /\ o.sym \in Symbol
              /\ Counted(t, o.sym) + o.qty = target[t][o.sym]
         /\ \A s \in DOMAIN target[t] \cap priced[t] :
              Counted(t, s) = target[t][s] \/ \E o \in plan'[t] : o.sym = s
<1>1. plan'[t] = Outgoing(t)
  BY DEF ReadOpenOrders, Typed, TypeOK
<1>2. \A s \in DOMAIN target[t] : s \in Symbol /\ target[t][s] \in Int
  BY DEF Typed, TypeOK
<1>3. ASSUME NEW o \in plan'[t]
      PROVE  /\ o.sym \in DOMAIN target[t] /\ o.sym \in Symbol
             /\ Counted(t, o.sym) + o.qty = target[t][o.sym]
  <2>1. PICK s \in DOMAIN target[t] : o = [sym |-> s, qty |-> target[t][s] - Counted(t, s)]
    BY <1>1, <1>3 DEF Outgoing
  <2>2. o.sym = s /\ o.qty = target[t][s] - Counted(t, s) /\ s \in Symbol
    BY <1>2, <2>1
  <2>3. Counted(t, s) \in Int /\ target[t][s] \in Int
    BY <1>2, <2>2, CountedType
  <2> QED BY <2>2, <2>3
<1>4. ASSUME NEW s \in DOMAIN target[t] \cap priced[t], Counted(t, s) # target[t][s]
      PROVE  \E o \in plan'[t] : o.sym = s
  <2>1. [sym |-> s, qty |-> target[t][s] - Counted(t, s)] \in plan'[t]
    BY <1>1, <1>4 DEF Outgoing
  <2> QED BY <2>1
<1> QED BY <1>3, <1>4

\* Planning keeps both, unless the other engine is sending: then it is excused.
LEMMA ReadOpenOrdersKeeps ==
  ASSUME ShortInv, NEW t \in Thread, ReadOpenOrders(t)
  PROVE  SentOnce' /\ NeverShort'
<1>1. UNCHANGED <<clock, held, working, asOf, used, target>> /\ pc[t] # "idle" /\ AtReading(t)
  BY DEF ReadOpenOrders, account, input, AtReading
<1>2. /\ \A u \in Thread : u # t => pc'[u] = pc[u] /\ plan'[u] = plan[u] /\ seen'[u] = seen[u]
      /\ pc'[t] \in {"sending", "insSending"}
  BY DEF ReadOpenOrders, Goto, ShortInv, Typed, TypeOK
<1>3. SentOnce'
  <2>1. \A u \in Thread : pc'[u] # "idle" => pc[u] # "idle"
    BY <1>1, <1>2
  <2> QED BY <1>1, <2>1 DEF ShortInv, SentOnce
<1>4. NeverShort'
  <2> SUFFICES ASSUME ~excused'
               PROVE  /\ \A s \in Symbol : Effective(s)' >= 0
                      /\ ~(AtSending("news")' /\ AtSending("daily")')
                      /\ \A u \in Thread : AtSending(u)' => Covered(u)'
                      /\ \A u \in Thread : AtReading(u)' => Lagging(u)'
    BY DEF NeverShort
  <2>1. ~excused /\ ~AtSending(Other(t))
    BY DEF ReadOpenOrders, ShortInv, Typed, TypeOK
  <2>2. \A u \in Thread : u # t => ~AtSending(u)'
    BY <1>2, <2>1 DEF AtSending, Other, Thread
  <2>3. ~(AtSending("news")' /\ AtSending("daily")')
    BY <2>2 DEF Thread
  <2>4. \A s : Effective(s)' = Effective(s)
    BY <1>1, SameEffect DEF account
  <2>5. \A s \in Symbol : Effective(s)' >= 0
    BY <2>1, <2>4 DEF ShortInv, NeverShort
  <2>6. Lagging(t)
    BY <1>1, <2>1 DEF ShortInv, NeverShort
  <2>7. ASSUME NEW o \in plan'[t] PROVE Effective(o.sym) + o.qty >= 0
    <3>1. o.sym \in DOMAIN target[t] /\ o.sym \in Symbol /\ Counted(t, o.sym) + o.qty = target[t][o.sym]
      BY <2>7, PlanAims DEF ShortInv
    <3>2. seen[t][o.sym] <= held[o.sym] /\ target[t][o.sym] \in Nat
      BY <2>6, <3>1 DEF Lagging, ShortInv, Typed, TypeOK
    <3>3. Working(o.sym) \in Int /\ seen[t][o.sym] \in Int /\ held[o.sym] \in Int
      BY <3>1, EffectiveType, CountedType DEF ShortInv, Typed, TypeOK
    <3>4. o \in [sym : Symbol, qty : Int \ {0}]
      BY <2>7, OutgoingTyped DEF ReadOpenOrders, ShortInv, Typed, TypeOK
    <3>5. o.qty \in Int
      BY <3>4
    <3> QED BY <3>1, <3>2, <3>3, <3>5 DEF Counted, Effective
  <2>8. Covered(t)'
    BY <2>4, <2>7 DEF Covered
  <2>9. ASSUME NEW u \in Thread, AtReading(u)' PROVE Lagging(u)'
    <3>1. u # t /\ AtReading(u)
      BY <1>2, <2>9 DEF AtReading
    <3> QED BY <1>1, <1>2, <2>1, <3>1 DEF Lagging, ShortInv, NeverShort
  <2> QED BY <2>2, <2>3, <2>5, <2>8, <2>9
<1> QED BY <1>3, <1>4

\* Sending moves the name of the order, and no other.
LEMMA SendMoves ==
  ASSUME ShortInv, NEW t \in Thread, Send(t)
  PROVE  \E o \in plan[t] :
           /\ o.sym \notin used[t] /\ o.sym \in Symbol
           /\ Effective(o.sym)' = Effective(o.sym) + o.qty
           /\ \A s \in Symbol : s # o.sym => Effective(s)' = Effective(s)
           /\ plan'[t] = plan[t] \ {o} /\ used'[t] = used[t] \cup {o.sym}
<1>1. PICK o \in plan[t], x \in [sym : Symbol, qty : Int \ {0}, by : Thread, at : Nat] :
           /\ o.sym \notin used[t] /\ o.sym \in Symbol /\ o.qty \in Int \ {0}
           /\ x.sym = o.sym /\ x.qty = o.qty /\ x.by = t /\ x.at = asOf[t]
           /\ plan' = [plan EXCEPT ![t] = @ \ {o}]
           /\ used' = [used EXCEPT ![t] = @ \cup {o.sym}]
           /\ working' = working \cup {x}
  BY SendOf DEF ShortInv
<1>2. x \notin working
  BY <1>1 DEF ShortInv, SentOnce, Send, AtSending
<1>3. held' = held
  BY DEF Send
<1>4. \A s \in Symbol : Effective(s)' = IF x.sym = s THEN Effective(s) + x.qty ELSE Effective(s)
  BY <1>1, <1>2, <1>3, SendEffect DEF ShortInv
<1>5. plan'[t] = plan[t] \ {o} /\ used'[t] = used[t] \cup {o.sym}
  BY <1>1 DEF ShortInv, Typed, TypeOK
<1> QED BY <1>1, <1>4, <1>5

\* Sending keeps both.
LEMMA SendKeeps ==
  ASSUME SleevesInv, ShortInv, NEW t \in Thread, Send(t)
  PROVE  SentOnce' /\ NeverShort'
<1>1. UNCHANGED <<clock, held, pc, asOf, target, seen, excused>> /\ AtSending(t)
  BY DEF Send, input, history
<1>2. PICK o \in plan[t], x \in [sym : Symbol, qty : Int \ {0}, by : Thread, at : Nat] :
           /\ x.sym = o.sym /\ x.qty = o.qty /\ x.by = t /\ x.at = asOf[t]
           /\ used' = [used EXCEPT ![t] = @ \cup {o.sym}]
           /\ working' = working \cup {x}
  BY SendOf DEF ShortInv
<1>3. \A u \in Thread : used[u] \subseteq used'[u] /\ o.sym \in used'[t]
  BY <1>2 DEF ShortInv, Typed, TypeOK
<1>4. asOf[t] <= clock
  BY DEF SleevesInv, NewsInv, InsiderInv, Thread
<1>5. SentOnce'
  <2>1. \A w \in working' : w \in working \/ w = x
    BY <1>2
  <2> QED BY <1>1, <1>2, <1>3, <1>4, <2>1 DEF ShortInv, SentOnce
<1>6. NeverShort'
  <2> SUFFICES ASSUME ~excused
               PROVE  /\ \A s \in Symbol : Effective(s)' >= 0
                      /\ ~(AtSending("news")' /\ AtSending("daily")')
                      /\ \A u \in Thread : AtSending(u)' => Covered(u)'
                      /\ \A u \in Thread : AtReading(u)' => Lagging(u)'
    BY <1>1 DEF NeverShort
  <2>1. /\ \A s \in Symbol : Effective(s) >= 0
        /\ ~(AtSending("news") /\ AtSending("daily"))
        /\ Covered(t)
        /\ \A u \in Thread : AtReading(u) => Lagging(u)
    BY <1>1 DEF ShortInv, NeverShort
  <2>2. PICK p \in plan[t] :
           /\ p.sym \notin used[t] /\ p.sym \in Symbol
           /\ Effective(p.sym)' = Effective(p.sym) + p.qty
           /\ \A s \in Symbol : s # p.sym => Effective(s)' = Effective(s)
           /\ plan'[t] = plan[t] \ {p} /\ used'[t] = used[t] \cup {p.sym}
    BY SendMoves
  <2>3. \A s \in Symbol : Effective(s)' >= 0
    BY <2>1, <2>2 DEF Covered
  <2>4. \A q \in plan[t] : q.sym \in Symbol
    BY DEF ShortInv, Typed, TypeOK
  <2>5. Covered(t)'
    BY <2>1, <2>2, <2>4 DEF Covered
  <2>6. \A u \in Thread : (AtSending(u)' <=> AtSending(u)) /\ (AtReading(u)' <=> AtReading(u))
    BY <1>1 DEF AtSending, AtReading
  <2>7. \A u \in Thread : AtSending(u) => u = t
    <3>1. CASE t = "news"
      BY <1>1, <2>1, <3>1 DEF Thread
    <3>2. CASE t = "daily"
      BY <1>1, <2>1, <3>2 DEF Thread
    <3> QED BY <3>1, <3>2 DEF Thread
  <2>8. \A u \in Thread : AtReading(u)' => Lagging(u)'
    BY <1>1, <2>1, <2>6 DEF Lagging
  <2> QED BY <2>1, <2>3, <2>5, <2>6, <2>7, <2>8 DEF Thread
<1> QED BY <1>5, <1>6

\* A dropped order leaves its name where nobody planned it: it is excused.
LEMMA DropKeeps ==
  ASSUME ShortInv, Drop
  PROVE  SentOnce' /\ NeverShort'
BY DEF Drop, ShortInv, SentOnce, NeverShort, input

\* The three parts together are inductive.
LEMMA ShortStep ==
  ASSUME SleevesInv, ShortInv, [Next]_vars
  PROVE  ShortInv'
<1>1. SleeveTypes' /\ clock' \in Nat
  BY SleevesStep DEF SleevesInv, SleeveTypes
<1>2. Typed'
  BY <1>1, TypedStep DEF ShortInv
<1>3. SentOnce' /\ NeverShort'
  <2>1. CASE \E t \in Thread : ReadPositions(t) \/ ReadOpenOrders(t)
    BY <2>1, ReadPositionsKeeps, ReadOpenOrdersKeeps
  <2>2. CASE \E t \in Thread : Send(t)
    BY <2>2, SendKeeps
  <2>3. CASE Fill
    BY <1>1, <1>2, <2>3, FillKeeps
  <2>4. CASE Drop
    BY <2>4, DropKeeps
  <2>5. CASE \/ NewsPass \/ DailyPass \/ Tick \/ UNCHANGED vars
             \/ \E t \in Thread : Halt(t) \/ Skip(t) \/ AllSent(t) \/ Fail(t)
    <3>1. /\ \A t \in Thread : Calm(t)
          /\ UNCHANGED account /\ excused' = excused /\ clock <= clock'
      BY <2>5, CalmSteps DEF ShortInv
    <3>2. UNCHANGED <<held, working>> /\ \A s \in Symbol : Effective(s)' = Effective(s)
      BY <3>1, SameEffect DEF account
    <3>3. \A t \in Thread : \A s \in DOMAIN target[t] : held[s] \in Int
      BY DEF ShortInv, Typed, TypeOK
    <3>4. \A t \in Thread : \A s \in DOMAIN target[t] : held'[s] >= held[s]
      BY <3>2, <3>3
    <3> QED BY <1>1, <1>2, <3>1, <3>2, <3>4, CalmKeeps
  <2> QED BY <2>1, <2>2, <2>3, <2>4, <2>5 DEF Next, Engine
<1> QED BY <1>2, <1>3 DEF ShortInv

\* And hold initially.
LEMMA ShortInit == Init => ShortInv
<1> SUFFICES ASSUME Init PROVE ShortInv
  OBVIOUS
<1>1. Typed
  BY TypedInit
<1>2. working = {} /\ \A t \in Thread : ~AtSending(t) /\ ~AtReading(t)
  BY DEF Init, AtSending, AtReading
<1>3. \A s \in Symbol : Effective(s) = 0
  <2> SUFFICES ASSUME NEW s \in Symbol PROVE Effective(s) = 0
    OBVIOUS
  <2>1. {o \in working : o.sym = s} = {} /\ held[s] = 0
    BY <1>2 DEF Init, Nothing
  <2>2. Working(s) = 0
    BY <2>1, SumEmpty DEF Working
  <2> QED BY <2>1, <2>2 DEF Effective
<1> QED BY <1>1, <1>2, <1>3 DEF ShortInv, SentOnce, NeverShort, Thread

-----------------------------------------------------------------------------
(* Every holding has an owner                                               *)

\* What the sleeves own.
Owned == ActiveNews \cup ActiveInsider

\* What is not owned, or is no longer, the pass has a target for.
Placed ==
  /\ \A s \in Symbol : Effective(s) # 0 => s \in book \cup Owned \cup DOMAIN target["daily"]
  /\ \A s \in DOMAIN target["daily"] : target["daily"][s] # 0 => s \in book \cup Owned

\* The names the pass gets rid of.
Loose == DOMAIN target["daily"] \ (book \cup Owned)

\* Each is gone, or has an order still to be sent that sells it.
Underway ==
  /\ \A o \in plan["daily"] :
       /\ o.sym \in DOMAIN target["daily"]
       /\ o.sym \in Loose /\ o.sym \notin used["daily"] => Effective(o.sym) + o.qty = 0
  /\ \A s \in Loose : Effective(s) = 0 \/ \E o \in plan["daily"] : o.sym = s

\* Along an undisturbed daily pass, from its first snapshot to its last order.
Owners ==
  /\ pc["news"] = "idle"
  /\ pc["daily"] = "reserving" => \A r \in newsRows : r.at <= asOf["daily"]
  /\ pc["daily"] = "booking" => reserved = Owned
  /\ pc["daily"] \notin {"reserving", "booking"} => Placed
  /\ pc["daily"] = "idle" => DOMAIN target["daily"] = {}
  /\ AtSending("daily") => Underway

\* Nothing works on a name it gets rid of, so its two reads agree on that name: the book
\* finds no order, the insider sleeve closes names the book kept its hands off.
InsiderStages == {"insClosing", "insOpening", "insEngine", "insReading"}
Settled ==
  /\ pc["daily"] = "reserving" => \A r \in insRows : r.at < asOf["daily"]
  /\ pc["daily"] \in {"reserving", "booking", "engine", "reading"} => working = {}
  /\ pc["daily"] \notin {"idle", "reserving"} => OwnedByInsider(OldIns) \subseteq reserved
  /\ pc["daily"] \in {"engine", "reading", "sending"} =>
       DOMAIN target["daily"] \cap reserved = {}
  /\ pc["daily"] \in InsiderStages \cup {"sending"} => \A o \in working : o.sym \notin reserved
  /\ pc["daily"] \in InsiderStages => Loose \subseteq reserved
  /\ AtReading("daily") => \A s \in Loose : seen["daily"][s] = held[s]

\* In an undisturbed pass both hold.
Accounted == clean => Owners /\ Settled

\* With what the sleeves and the account keep.
OrphanInv == SleevesInv /\ ShortInv /\ Accounted

\* Names that come to the same, under rows, targets and selection that stand still.
LEMMA PlacedStays ==
  ASSUME Placed, \A s \in Symbol : Effective(s)' = Effective(s),
         UNCHANGED <<rows, book>>, target'["daily"] = target["daily"], Typed
  PROVE  Placed'
<1>1. Owned' = Owned
  BY DEF Owned, ActiveNews, ActiveInsider, rows
<1>2. DOMAIN target["daily"] \subseteq Symbol
  BY DEF Typed, TypeOK, Thread
<1> QED BY <1>1, <1>2 DEF Placed

\* And orders that stand still.
LEMMA UnderwayStays ==
  ASSUME Underway, \A s \in Symbol : Effective(s)' = Effective(s),
         UNCHANGED <<rows, book, used, plan>>, target'["daily"] = target["daily"], Typed
  PROVE  Underway'
<1>1. DOMAIN target["daily"] \subseteq Symbol /\ \A o \in plan["daily"] : o.sym \in Symbol
  BY DEF Typed, TypeOK, Thread
<1>2. Loose' = Loose /\ Loose \subseteq Symbol
  BY <1>1 DEF Loose, Owned, ActiveNews, ActiveInsider, rows
<1> QED BY <1>1, <1>2 DEF Underway

\* When every order of a target is out, what it covers is owned or gone.
LEMMA TargetReached ==
  ASSUME OrphanInv, clean, AtSending("daily"), plan["daily"] = {},
         UNCHANGED <<account, rows, book>>, DOMAIN target'["daily"] = {}
  PROVE  Placed'
<1>1. Owned' = Owned
  BY DEF Owned, ActiveNews, ActiveInsider, rows
<1>2. \A s \in Symbol : Effective(s)' = Effective(s)
  BY SameEffect
<1>3. Placed /\ Underway
  BY DEF OrphanInv, Accounted, Owners, AtSending
<1>4. \A s \in Loose : Effective(s) = 0
  BY <1>3 DEF Underway
<1> QED BY <1>1, <1>2, <1>3, <1>4 DEF Placed, Loose

\* The selection covers everything held without an owner.
LEMMA SelectPlaces ==
  ASSUME OrphanInv, Select
  PROVE  clean' => Owners'
<1> SUFFICES ASSUME clean' PROVE Owners'
  OBVIOUS
<1>1. PICK W \in SUBSET (priced["daily"] \ reserved) :
        /\ book' = W
        /\ target' = [target EXCEPT !["daily"] =
             [s \in W \cup (HeldByBook \cap priced["daily"]) |-> IF s \in W THEN BookUnits ELSE 0]]
  BY DEF Select
<1>2. clean /\ HeldByBook \subseteq priced["daily"] /\ pc["daily"] = "booking"
  BY DEF Select, OrphanInv, ShortInv, Typed, TypeOK
<1>3. pc["news"] = "idle" /\ working = {} /\ reserved = Owned
  BY <1>2 DEF OrphanInv, Accounted, Owners, Settled
<1>4. Owned' = Owned /\ UNCHANGED <<held, working>>
  BY DEF Select, Owned, ActiveNews, ActiveInsider, rows, account
<1>5. "daily" \in Thread /\ DOMAIN target = Thread
  BY DEF OrphanInv, ShortInv, Typed, Thread
<1>6. /\ DOMAIN target'["daily"] = W \cup HeldByBook
      /\ \A s \in DOMAIN target'["daily"] : target'["daily"][s] # 0 => s \in W
  BY <1>1, <1>2, <1>5
<1>7. ASSUME NEW s \in Symbol PROVE Effective(s)' = held[s]
  <2>1. {o \in working : o.sym = s} = {} /\ held[s] \in Int
    BY <1>3 DEF OrphanInv, ShortInv, Typed, TypeOK
  <2>2. Working(s) = 0
    BY <2>1, SumEmpty DEF Working
  <2> QED BY <1>4, <2>1, <2>2 DEF Effective, Working, Quantities
<1>8. \A s \in Symbol : held[s] # 0 => s \in Owned \cup HeldByBook
  BY <1>3 DEF HeldByBook
<1>9. Placed'
  BY <1>1, <1>4, <1>6, <1>7, <1>8 DEF Placed
<1>10. pc'["news"] = "idle" /\ pc'["daily"] \in {"insClosing", "engine"}
  BY <1>3, <1>5 DEF Select, Goto, OrphanInv, ShortInv, Typed, TypeOK, Thread
<1> QED BY <1>9, <1>10 DEF Owners, AtSending

\* A close of the insider sleeve gives up one name, for which the pass has a target.
LEMMA InsiderClosePlaces ==
  ASSUME OrphanInv, InsiderClose
  PROVE  clean' => Owners'
<1> SUFFICES ASSUME clean' PROVE Owners'
  OBVIOUS
<1>1. PICK r \in insRows : /\ Aim("daily", r.sym, 0)
                           /\ insRows' = insRows \cup {[sym |-> r.sym, at |-> asOf["daily"],
                                                        status |-> "closed", exit |-> 0]}
  BY DEF InsiderClose, DueInsider, OldIns
<1>2. UNCHANGED <<pc, newsRows, account, book, clean>> /\ pc["daily"] = "insClosing"
  BY DEF InsiderClose, history
<1>3. r.sym \in Symbol /\ Typed
  BY DEF OrphanInv, ShortInv, Typed, TypeOK, InsRow
<1>4. clean /\ Placed /\ pc["news"] = "idle"
  BY <1>2 DEF OrphanInv, Accounted, Owners, Settled
<1>5. /\ DOMAIN target'["daily"] = DOMAIN target["daily"] \cup {r.sym}
      /\ \A x \in DOMAIN target'["daily"] : target'["daily"][x] = IF x = r.sym THEN 0 ELSE target["daily"][x]
  BY <1>1, <1>3, AimEffect DEF Thread
<1>6. ASSUME NEW s \in Owned, s # r.sym PROVE s \in Owned'
  <2>1. Newest(insRows', s) = Newest(insRows, s)
    BY <1>1, <1>6 DEF Newest
  <2>2. s \in ActiveInsider => s \in ActiveInsider'
    BY <1>1, <2>1 DEF ActiveInsider, OwnedByInsider, SymsOf, Opens
  <2> QED BY <1>2, <1>6, <2>2 DEF Owned, ActiveNews
<1>7. \A s \in Symbol : Effective(s)' = Effective(s)
  BY <1>2, SameEffect
<1>8. Placed'
  BY <1>2, <1>4, <1>5, <1>6, <1>7 DEF Placed
<1> QED BY <1>2, <1>4, <1>8 DEF Owners, AtSending

\* An open of the insider sleeve takes the name it aims at into its record.
LEMMA InsiderOpenPlaces ==
  ASSUME OrphanInv, InsiderOpen
  PROVE  clean' => Owners'
<1> SUFFICES ASSUME clean' PROVE Owners'
  OBVIOUS
<1>1. PICK n \in Symbol : /\ Aim("daily", n, InsiderUnits)
                          /\ insRows' = insRows \cup {[sym |-> n, at |-> asOf["daily"],
                                   status |-> "open", exit |-> asOf["daily"] + InsiderHold]}
  BY DEF InsiderOpen, OrphanInv, ShortInv, Typed, TypeOK
<1> DEFINE x == [sym |-> n, at |-> asOf["daily"],
                 status |-> "open", exit |-> asOf["daily"] + InsiderHold]
<1>2. UNCHANGED <<pc, newsRows, account, book, clean>> /\ pc["daily"] = "insOpening"
  BY DEF InsiderOpen, history
<1>3. Typed
  BY DEF OrphanInv, ShortInv
<1>4. clean /\ Placed /\ pc["news"] = "idle"
  BY <1>2 DEF OrphanInv, Accounted, Owners, Settled
<1>5. /\ DOMAIN target'["daily"] = DOMAIN target["daily"] \cup {n}
      /\ \A y \in DOMAIN target'["daily"] : y # n => target'["daily"][y] = target["daily"][y]
  BY <1>1, <1>3, AimEffect, SleevesAssumption DEF Thread
<1>6. ASSUME NEW s \in Owned, s # n PROVE s \in Owned'
  <2>1. Newest(insRows', s) = Newest(insRows, s)
    BY <1>1, <1>6 DEF Newest
  <2>2. s \in ActiveInsider => s \in ActiveInsider'
    BY <1>1, <2>1 DEF ActiveInsider, OwnedByInsider, SymsOf, Opens
  <2> QED BY <1>2, <1>6, <2>2 DEF Owned, ActiveNews
<1>7. n \in Owned'
  <2>1. x.sym = n /\ x.at = asOf["daily"] /\ x.status = "open" /\ insRows' = insRows \cup {x}
    BY <1>1
  <2>2. \A r \in insRows : r.at <= asOf["daily"]
    BY <1>2 DEF OrphanInv, SleevesInv, InsiderInv
  <2>3. asOf["daily"] \in Nat
    BY <1>3 DEF Typed, TypeOK, Thread
  <2> HIDE DEF x
  <2>4. x \in Newest(insRows', n)
    BY <2>1, <2>2, <2>3 DEF Newest
  <2> QED BY <2>1, <2>4 DEF Owned, ActiveInsider, OwnedByInsider, SymsOf, Opens
<1>8. \A s \in Symbol : Effective(s)' = Effective(s)
  BY <1>2, SameEffect
<1>9. Placed'
  BY <1>2, <1>4, <1>5, <1>6, <1>7, <1>8 DEF Placed
<1> QED BY <1>2, <1>4, <1>9 DEF Owners, AtSending

\* The steps of the daily pass.
LEMMA DailyPlaces ==
  ASSUME OrphanInv, DailyPass
  PROVE  clean' => Owners'
<1> SUFFICES ASSUME clean' PROVE Owners'
  OBVIOUS
<1>0. /\ Typed /\ pc \in [Thread -> Stage] /\ "daily" \in Thread /\ "news" \in Thread
      /\ DOMAIN target = Thread /\ clock \in Nat
  BY DEF OrphanInv, ShortInv, Typed, TypeOK, Thread
<1>1. CASE DailyStart
  <2>1. pc["news"] = "idle" /\ working = {} /\ UNCHANGED <<newsRows, working>>
    BY <1>1 DEF DailyStart, Begin, rows, account
  <2>2. pc'["daily"] = "reserving" /\ pc'["news"] = "idle" /\ asOf'["daily"] = clock + 1
    BY <1>0, <1>1, <2>1 DEF DailyStart, Begin, Goto, Typed, TypeOK
  <2>3. \A r \in newsRows : r.at \in Nat /\ r.at <= clock
    BY DEF OrphanInv, SleevesInv, SleeveTypes, NewsInv, NewsRow
  <2>4. \A r \in newsRows' : r.at <= asOf'["daily"]
    BY <1>0, <2>1, <2>2, <2>3
  <2> QED BY <2>1, <2>2, <2>4 DEF Owners, AtSending
<1>2. CASE InsiderAlone
  BY <1>2 DEF InsiderAlone
<1>3. CASE Reserve
  <2>1. clean /\ pc["daily"] = "reserving" /\ UNCHANGED <<rows, working>>
    BY <1>3 DEF Reserve, history, account
  <2>2. pc["news"] = "idle" /\ working = {} /\ \A r \in newsRows : r.at <= asOf["daily"]
    BY <2>1 DEF OrphanInv, Accounted, Owners, Settled
  <2>3. \A r \in insRows : r.at <= asOf["daily"]
    BY <2>1 DEF OrphanInv, SleevesInv, InsiderInv
  <2>4. Known(newsRows, asOf["daily"]) = newsRows /\ Known(insRows, asOf["daily"]) = insRows
    BY <2>2, <2>3 DEF Known
  <2>5. reserved' = Owned /\ Owned' = Owned
    BY <1>3, <2>1, <2>4 DEF Reserve, Owned, ActiveNews, ActiveInsider, rows
  <2>6. pc'["daily"] = "booking" /\ pc'["news"] = "idle"
    BY <1>0, <1>3, <2>2 DEF Reserve, Goto
  <2> QED BY <2>1, <2>2, <2>5, <2>6 DEF Owners, AtSending
<1>4. CASE Select
  BY <1>4, SelectPlaces
<1>5. CASE InsiderClose
  BY <1>5, InsiderClosePlaces
<1>6. CASE InsiderClosed
  <2>1. clean /\ pc["daily"] = "insClosing" /\ UNCHANGED <<rows, account, book, target>>
    BY <1>6 DEF InsiderClosed, history
  <2>2. pc["news"] = "idle" /\ Placed
    BY <2>1 DEF OrphanInv, Accounted, Owners, Settled
  <2>3. Placed'
    BY <1>0, <2>1, <2>2, SameEffect, PlacedStays
  <2>4. pc'["daily"] = "insOpening" /\ pc'["news"] = "idle"
    BY <1>0, <1>6, <2>2 DEF InsiderClosed, Goto
  <2> QED BY <2>3, <2>4 DEF Owners, AtSending
<1>7. CASE InsiderOpen
  BY <1>7, InsiderOpenPlaces
<1>8. CASE InsiderOpened
  <2>1. clean /\ pc["daily"] = "insOpening" /\ UNCHANGED <<rows, account, book>>
    BY <1>8 DEF InsiderOpened, history
  <2>2. pc["news"] = "idle" /\ Placed
    BY <2>1 DEF OrphanInv, Accounted, Owners, Settled
  <2>3. DOMAIN NoTarget = {}
    BY DEF NoTarget
  <2>4. CASE target["daily"] = NoTarget
    <3>1. EndPass("daily")
      BY <1>8, <2>4 DEF InsiderOpened
    <3>2. target'["daily"] = target["daily"] /\ pc'["daily"] = "idle" /\ pc'["news"] = "idle"
      BY <1>0, <2>2, <2>4, <3>1 DEF EndPass, Goto
    <3>3. Placed'
      BY <1>0, <2>1, <2>2, <3>2, SameEffect, PlacedStays
    <3> QED BY <2>3, <2>4, <3>2, <3>3 DEF Owners, AtSending
  <2>5. CASE target["daily"] # NoTarget
    <3>1. Goto("daily", "insEngine") /\ target' = target
      BY <1>8, <2>5 DEF InsiderOpened
    <3>2. pc'["daily"] = "insEngine" /\ pc'["news"] = "idle"
      BY <1>0, <2>2, <3>1 DEF Goto
    <3>3. Placed'
      BY <1>0, <2>1, <2>2, <3>1, SameEffect, PlacedStays
    <3> QED BY <3>2, <3>3 DEF Owners, AtSending
  <2> QED BY <2>4, <2>5
<1> QED BY <1>1, <1>2, <1>3, <1>4, <1>5, <1>6, <1>7, <1>8 DEF DailyPass

\* What an undisturbed engine plans sells the names the pass gets rid of.
LEMMA PlanSells ==
  ASSUME OrphanInv, clean, pc["daily"] \in {"reading", "insReading"}, ReadOpenOrders("daily"),
         DOMAIN target["daily"] \subseteq priced["daily"]
  PROVE  Underway'
<1>1. Typed /\ Placed /\ Settled /\ "daily" \in Thread
  BY DEF OrphanInv, ShortInv, Accounted, Owners, Thread
<1>2. UNCHANGED <<rows, account, book, target, used>>
  BY DEF ReadOpenOrders
<1>3. Loose' = Loose /\ \A s : Effective(s)' = Effective(s)
  BY <1>2, SameEffect DEF Loose, Owned, ActiveNews, ActiveInsider, rows
<1>4. ASSUME NEW s \in Loose
      PROVE  s \in Symbol /\ Counted("daily", s) = Effective(s) /\ target["daily"][s] = 0
  <2>1. s \in Symbol
    BY <1>1 DEF Loose, Typed, TypeOK
  <2>2. seen["daily"][s] = held[s]
    BY <1>1 DEF Settled, AtReading
  <2>3. target["daily"][s] = 0
    BY <1>1 DEF Placed, Loose
  <2> QED BY <2>1, <2>2, <2>3 DEF Counted, Effective
<1>5. ASSUME NEW o \in plan'["daily"]
      PROVE  /\ o.sym \in DOMAIN target["daily"]
             /\ o.sym \in Loose => Effective(o.sym) + o.qty = 0
  <2>1. o.sym \in DOMAIN target["daily"] /\ Counted("daily", o.sym) + o.qty = target["daily"][o.sym]
    BY <1>1, <1>5, PlanAims
  <2> QED BY <1>4, <2>1
<1>6. ASSUME NEW s \in Loose
      PROVE  Effective(s) = 0 \/ \E o \in plan'["daily"] : o.sym = s
  <2>1. s \in DOMAIN target["daily"] \cap priced["daily"]
    BY DEF Loose
  <2>2. Counted("daily", s) = target["daily"][s] \/ \E o \in plan'["daily"] : o.sym = s
    BY <1>1, <2>1, PlanAims
  <2> QED BY <1>4, <2>2
<1> QED BY <1>2, <1>3, <1>5, <1>6 DEF Underway

\* What an undisturbed engine sends leaves nothing of its name that the pass gets rid of.
LEMMA SendSells ==
  ASSUME OrphanInv, clean, AtSending("daily"), Send("daily")
  PROVE  Placed' /\ Underway'
<1>1. Typed /\ Placed /\ Underway /\ "daily" \in Thread /\ ShortInv
  BY DEF OrphanInv, ShortInv, Accounted, Owners, Thread, AtSending
<1>2. UNCHANGED <<rows, book, target>>
  BY DEF Send, history
<1>3. Owned' = Owned /\ Loose' = Loose
  BY <1>2 DEF Loose, Owned, ActiveNews, ActiveInsider, rows
<1>4. PICK p \in plan["daily"] :
           /\ p.sym \notin used["daily"] /\ p.sym \in Symbol
           /\ Effective(p.sym)' = Effective(p.sym) + p.qty
           /\ \A s \in Symbol : s # p.sym => Effective(s)' = Effective(s)
           /\ plan'["daily"] = plan["daily"] \ {p} /\ used'["daily"] = used["daily"] \cup {p.sym}
  BY <1>1, SendMoves
<1>5. p.sym \in DOMAIN target["daily"] /\ (p.sym \in Loose => Effective(p.sym)' = 0)
  BY <1>1, <1>4 DEF Underway
<1>6. Placed'
  BY <1>1, <1>2, <1>3, <1>4, <1>5 DEF Placed
<1>7. \A o \in plan["daily"] : o.sym \in Symbol
  BY <1>1 DEF Typed, TypeOK
<1>8. ASSUME NEW o \in plan'["daily"]
      PROVE  /\ o.sym \in DOMAIN target'["daily"]
             /\ o.sym \in Loose' /\ o.sym \notin used'["daily"] => Effective(o.sym)' + o.qty = 0
  BY <1>1, <1>2, <1>3, <1>4, <1>7, <1>8 DEF Underway
<1>9. ASSUME NEW s \in Loose'
      PROVE  Effective(s)' = 0 \/ \E o \in plan'["daily"] : o.sym = s
  <2>1. s \in Loose /\ s \in Symbol
    BY <1>1, <1>3 DEF Loose, Typed, TypeOK
  <2>2. CASE s = p.sym
    BY <1>5, <2>1, <2>2
  <2>3. CASE s # p.sym
    BY <1>1, <1>4, <2>1, <2>3 DEF Underway
  <2> QED BY <2>2, <2>3
<1> QED BY <1>6, <1>8, <1>9 DEF Underway

\* The engines: undisturbed only the daily one runs, and sells what the pass gets rid of.
LEMMA EnginePlaces ==
  ASSUME OrphanInv, NEW t \in Thread, Engine(t)
  PROVE  clean' => Owners'
<1> SUFFICES ASSUME clean' PROVE Owners'
  OBVIOUS
<1>0. /\ Typed /\ pc \in [Thread -> Stage] /\ "daily" \in Thread /\ "news" \in Thread
      /\ DOMAIN target = Thread
  BY DEF OrphanInv, ShortInv, Typed, TypeOK, Thread
<1>1. clean /\ (ReadPositions(t) \/ ReadOpenOrders(t) \/ Send(t) \/ AllSent(t))
  BY DEF Engine, ReadPositions, ReadOpenOrders, Halt, Send, Skip, AllSent, Fail, history,
         OrphanInv, ShortInv, Typed, TypeOK
<1>2. pc["news"] = "idle"
  BY <1>1 DEF OrphanInv, Accounted, Owners
<1>3. t = "daily"
  BY <1>1, <1>2 DEF ReadPositions, ReadOpenOrders, Send, AllSent, AtEngine, AtReading, AtSending, Thread
<1>4. Placed
  BY <1>1, <1>3 DEF OrphanInv, Accounted, Owners, ReadPositions, ReadOpenOrders, Send, AllSent,
                    AtEngine, AtReading, AtSending
<1>5. CASE ReadPositions(t)
  <2>1. UNCHANGED <<rows, account, book, target>>
    BY <1>5 DEF ReadPositions, history
  <2>2. Placed'
    BY <1>0, <1>4, <2>1, SameEffect, PlacedStays
  <2>3. pc'["news"] = "idle" /\ pc'["daily"] \in {"reading", "insReading"}
    BY <1>0, <1>2, <1>3, <1>5 DEF ReadPositions, Goto
  <2> QED BY <2>2, <2>3 DEF Owners, AtSending
<1>6. CASE ReadOpenOrders(t)
  <2>1. DOMAIN target["daily"] \subseteq priced["daily"] /\ pc["daily"] \in {"reading", "insReading"}
    BY <1>1, <1>3, <1>6 DEF ReadOpenOrders, AtReading, OrphanInv, ShortInv, Typed, TypeOK
  <2>2. UNCHANGED <<rows, account, book, target>>
    BY <1>6 DEF ReadOpenOrders
  <2>3. Placed' /\ Underway'
    BY <1>0, <1>1, <1>3, <1>4, <1>6, <2>1, <2>2, SameEffect, PlacedStays, PlanSells
  <2>4. pc'["news"] = "idle" /\ pc'["daily"] \in {"sending", "insSending"}
    BY <1>0, <1>2, <1>3, <1>6 DEF ReadOpenOrders, Goto
  <2> QED BY <2>3, <2>4 DEF Owners
<1>7. CASE Send(t)
  <2>1. AtSending("daily") /\ UNCHANGED pc
    BY <1>3, <1>7 DEF Send
  <2>2. Placed' /\ Underway'
    BY <1>1, <1>3, <1>7, <2>1, SendSells
  <2> QED BY <1>2, <2>1, <2>2 DEF Owners, AtSending
<1>8. CASE AllSent(t)
  <2>1. Leave("daily") /\ plan["daily"] = {} /\ UNCHANGED <<rows, account, book>> /\ AtSending("daily")
    BY <1>3, <1>8 DEF AllSent, history
  <2>2. target'["daily"] = NoTarget /\ pc'["news"] = "idle" /\ pc'["daily"] \in {"idle", "insClosing"}
    BY <1>0, <1>2, <2>1 DEF Leave, EndPass, Goto
  <2>3. DOMAIN target'["daily"] = {}
    BY <2>2 DEF NoTarget
  <2>4. Placed'
    BY <1>1, <2>1, <2>3, TargetReached
  <2> QED BY <2>2, <2>3, <2>4 DEF Owners, AtSending
<1> QED BY <1>1, <1>5, <1>6, <1>7, <1>8

\* Undisturbed the news thread is idle: its steps end the claim.
LEMMA NewsDisturbs ==
  ASSUME OrphanInv, NewsPass
  PROVE  ~clean'
<1>1. CASE NewsStart
  BY <1>1 DEF NewsStart
<1>2. CASE ~NewsStart
  <2>1. clean' = clean /\ pc["news"] # "idle"
    BY <1>2 DEF NewsPass, NewsClose, NewsClosed, NewsOpen, NewsOpened, history
  <2> QED BY <2>1 DEF OrphanInv, Accounted, Owners
<1> QED BY <1>1, <1>2

\* Fills move no name.
LEMMA WorldPlaces ==
  ASSUME OrphanInv, Typed', Fill \/ Drop \/ Tick \/ UNCHANGED vars, clock' \in Nat
  PROVE  clean' => Owners'
<1> SUFFICES ASSUME clean' PROVE Owners'
  OBVIOUS
<1>1. clean /\ (Fill \/ Tick \/ UNCHANGED vars) /\ Typed /\ Owners
  BY DEF Drop, Fill, Tick, vars, history, OrphanInv, ShortInv, Accounted
<1>2. UNCHANGED <<rows, pc, asOf, target, plan, used, reserved, book>>
  BY <1>1 DEF Fill, Tick, vars, history, input
<1>3. \A s \in Symbol : Effective(s)' = Effective(s)
  <2>1. CASE Fill
    BY <2>1, FillKeeps DEF OrphanInv
  <2>2. CASE Tick \/ UNCHANGED vars
    BY <2>2, SameEffect DEF Tick, vars
  <2> QED BY <1>1, <2>1, <2>2
<1>4. Owned' = Owned /\ newsRows' = newsRows
  BY <1>2 DEF Owned, ActiveNews, ActiveInsider, rows
<1>5. Placed => Placed'
  BY <1>1, <1>2, <1>3, PlacedStays
<1>6. Underway => Underway'
  BY <1>1, <1>2, <1>3, UnderwayStays
<1> QED BY <1>1, <1>2, <1>4, <1>5, <1>6 DEF Owners, AtSending

-----------------------------------------------------------------------------
(* Nothing works on what is got rid of                                      *)

\* A step that leaves records, account, targets and reservations, and stays on its side of
\* the insider sleeve's planning.
LEMMA SettledStays ==
  ASSUME Settled, UNCHANGED <<rows, account, book>>, asOf'["daily"] = asOf["daily"],
         target'["daily"] = target["daily"], reserved' = reserved, seen'["daily"] = seen["daily"],
         \/ pc'["daily"] = pc["daily"]
         \/ pc["daily"] \in InsiderStages /\ pc'["daily"] \in {"insOpening", "insEngine"}
  PROVE  Settled'
<1>1. OldIns' = OldIns /\ Loose' = Loose /\ UNCHANGED <<held, working, insRows>>
  BY DEF OldIns, Loose, Owned, ActiveNews, ActiveInsider, rows, account
<1> QED BY <1>1 DEF Settled, InsiderStages, AtReading

\* The pass begins, with nothing working and every row older than it.
LEMMA StartSettles ==
  ASSUME OrphanInv, DailyStart, clean'
  PROVE  Settled'
<1>1. working' = {} /\ insRows' = insRows
  BY DEF DailyStart, Begin, rows, account
<1>2. pc'["daily"] = "reserving" /\ asOf'["daily"] = clock + 1 /\ clock \in Nat
  BY DEF DailyStart, Begin, Goto, OrphanInv, ShortInv, Typed, TypeOK, Thread
<1>3. \A r \in insRows : r.at \in Nat /\ r.at <= clock
  BY DEF OrphanInv, SleevesInv, SleeveTypes, InsiderInv, InsRow
<1>4. \A r \in insRows' : r.at < asOf'["daily"]
  BY <1>1, <1>2, <1>3
<1> QED BY <1>1, <1>2, <1>4 DEF Settled, InsiderStages, AtReading

\* What the insider sleeve owns is reserved.
LEMMA ReserveSettles ==
  ASSUME OrphanInv, Reserve, clean'
  PROVE  Settled'
<1>1. clean /\ pc["daily"] = "reserving" /\ UNCHANGED <<insRows, working, asOf>>
  BY DEF Reserve, history, account, rows, input
<1>2. working = {} /\ \A r \in insRows : r.at < asOf["daily"] /\ r.at <= asOf["daily"]
  BY <1>1 DEF OrphanInv, Accounted, Settled, SleevesInv, InsiderInv
<1>3. OldIns' = insRows /\ Known(insRows, asOf["daily"]) = insRows
  BY <1>1, <1>2 DEF OldIns, Known
<1>4. OwnedByInsider(OldIns') \subseteq reserved'
  BY <1>3 DEF Reserve
<1>5. pc'["daily"] = "booking"
  BY DEF Reserve, Goto, OrphanInv, ShortInv, Typed, TypeOK, Thread
<1> QED BY <1>1, <1>2, <1>4, <1>5 DEF Settled, InsiderStages, AtReading

\* The book aims at nothing that is reserved.
LEMMA SelectSettles ==
  ASSUME OrphanInv, Select, clean'
  PROVE  Settled'
<1>1. clean /\ pc["daily"] = "booking" /\ UNCHANGED <<insRows, working, asOf, reserved>>
  BY DEF Select, OrphanInv, ShortInv, Typed, TypeOK, account, rows, input
<1>2. working = {} /\ OwnedByInsider(OldIns) \subseteq reserved
  BY <1>1 DEF OrphanInv, Accounted, Settled
<1>3. PICK W \in SUBSET (priced["daily"] \ reserved) :
        target' = [target EXCEPT !["daily"] =
             [s \in W \cup (HeldByBook \cap priced["daily"]) |-> IF s \in W THEN BookUnits ELSE 0]]
  BY DEF Select
<1>4. DOMAIN target'["daily"] = W \cup (HeldByBook \cap priced["daily"])
  BY <1>3 DEF OrphanInv, ShortInv, Typed, Thread
<1>5. DOMAIN target'["daily"] \cap reserved = {}
  BY <1>4 DEF HeldByBook
<1>6. pc'["daily"] = IF target'["daily"] = NoTarget THEN "insClosing" ELSE "engine"
  BY DEF Select, Goto, OrphanInv, ShortInv, Typed, TypeOK, Thread
<1>7. pc'["daily"] = "insClosing" => Loose' = {}
  BY <1>6 DEF Loose, NoTarget
<1>8. OldIns' = OldIns
  BY <1>1 DEF OldIns
<1> QED BY <1>1, <1>2, <1>5, <1>6, <1>7, <1>8 DEF Settled, InsiderStages, AtReading

\* A close of the insider sleeve is of a name it owned when the pass began.
LEMMA InsiderCloseSettles ==
  ASSUME OrphanInv, InsiderClose, clean'
  PROVE  Settled'
<1>1. PICK r \in DueInsider : /\ Aim("daily", r.sym, 0)
                              /\ insRows' = insRows \cup {[sym |-> r.sym, at |-> asOf["daily"],
                                                           status |-> "closed", exit |-> 0]}
  BY DEF InsiderClose
<1>2. /\ UNCHANGED <<pc, asOf, newsRows, working, book, reserved>> /\ pc["daily"] = "insClosing"
      /\ clean
  BY DEF InsiderClose, history, input, account
<1>3. /\ OwnedByInsider(OldIns) \subseteq reserved /\ Loose \subseteq reserved
      /\ \A o \in working : o.sym \notin reserved
  BY <1>2 DEF OrphanInv, Accounted, Settled, InsiderStages
<1>4. asOf["daily"] \in Nat /\ Typed /\ r.sym \in Symbol
  BY <1>1 DEF OrphanInv, ShortInv, Typed, TypeOK, Thread, InsRow, DueInsider, OldIns
<1>5. OldIns' = OldIns
  BY <1>1, <1>2, <1>4 DEF OldIns
<1>6. r.sym \in reserved
  BY <1>1, <1>3 DEF DueInsider, OwnedByInsider, Opens, SymsOf, Newest
<1>7. DOMAIN target'["daily"] = DOMAIN target["daily"] \cup {r.sym}
  BY <1>1, <1>4, AimEffect DEF Thread
<1>8. ASSUME NEW s \in Owned, s # r.sym PROVE s \in Owned'
  <2>1. Newest(insRows', s) = Newest(insRows, s)
    BY <1>1, <1>8 DEF Newest
  <2>2. s \in ActiveInsider => s \in ActiveInsider'
    BY <1>1, <2>1 DEF ActiveInsider, OwnedByInsider, SymsOf, Opens
  <2> QED BY <1>2, <1>8, <2>2 DEF Owned, ActiveNews
<1>9. Loose' \subseteq reserved
  BY <1>2, <1>3, <1>6, <1>7, <1>8 DEF Loose
<1> QED BY <1>2, <1>3, <1>5, <1>9 DEF Settled, InsiderStages, AtReading

\* An open of the insider sleeve gets rid of nothing.
LEMMA InsiderOpenSettles ==
  ASSUME OrphanInv, InsiderOpen, clean'
  PROVE  Settled'
<1>1. PICK n \in Symbol : /\ Aim("daily", n, InsiderUnits)
                          /\ insRows' = insRows \cup {[sym |-> n, at |-> asOf["daily"],
                                   status |-> "open", exit |-> asOf["daily"] + InsiderHold]}
  BY DEF InsiderOpen, OrphanInv, ShortInv, Typed, TypeOK
<1> DEFINE x == [sym |-> n, at |-> asOf["daily"],
                 status |-> "open", exit |-> asOf["daily"] + InsiderHold]
<1>2. /\ UNCHANGED <<pc, asOf, newsRows, working, book, reserved>> /\ pc["daily"] = "insOpening"
      /\ clean
  BY DEF InsiderOpen, history, input, account
<1>3. /\ OwnedByInsider(OldIns) \subseteq reserved /\ Loose \subseteq reserved
      /\ \A o \in working : o.sym \notin reserved
  BY <1>2 DEF OrphanInv, Accounted, Settled, InsiderStages
<1>4. asOf["daily"] \in Nat /\ Typed
  BY DEF OrphanInv, ShortInv, Typed, TypeOK, Thread
<1>5. x.sym = n /\ x.at = asOf["daily"] /\ x.status = "open" /\ insRows' = insRows \cup {x}
  BY <1>1
<1> HIDE DEF x
<1>6. OldIns' = OldIns
  BY <1>2, <1>4, <1>5 DEF OldIns
<1>7. DOMAIN target'["daily"] = DOMAIN target["daily"] \cup {n}
  BY <1>1, <1>4, AimEffect, SleevesAssumption DEF Thread
<1>8. ASSUME NEW s \in Owned, s # n PROVE s \in Owned'
  <2>1. Newest(insRows', s) = Newest(insRows, s)
    BY <1>5, <1>8 DEF Newest
  <2>2. s \in ActiveInsider => s \in ActiveInsider'
    BY <1>5, <2>1 DEF ActiveInsider, OwnedByInsider, SymsOf, Opens
  <2> QED BY <1>2, <1>8, <2>2 DEF Owned, ActiveNews
<1>9. n \in Owned'
  <2>1. \A r \in insRows : r.at <= asOf["daily"]
    BY <1>2 DEF OrphanInv, SleevesInv, InsiderInv
  <2>2. x \in Newest(insRows', n)
    BY <1>4, <1>5, <2>1 DEF Newest
  <2> QED BY <1>5, <2>2 DEF Owned, ActiveInsider, OwnedByInsider, SymsOf, Opens
<1>10. Loose' \subseteq reserved
  BY <1>2, <1>3, <1>7, <1>8, <1>9 DEF Loose
<1> QED BY <1>2, <1>3, <1>6, <1>10 DEF Settled, InsiderStages, AtReading

\* The steps of the daily pass.
LEMMA DailySettles ==
  ASSUME OrphanInv, DailyPass, clean'
  PROVE  Settled'
<1>0. pc \in [Thread -> Stage] /\ "daily" \in Thread /\ DOMAIN target = Thread
  BY DEF OrphanInv, ShortInv, Typed, TypeOK, Thread
<1>1. CASE DailyStart \/ Reserve \/ Select \/ InsiderClose \/ InsiderOpen
  BY <1>1, StartSettles, ReserveSettles, SelectSettles, InsiderCloseSettles, InsiderOpenSettles
<1>2. CASE InsiderAlone
  BY <1>2 DEF InsiderAlone
<1>3. CASE InsiderClosed
  <2>1. /\ clean /\ pc["daily"] = "insClosing" /\ pc'["daily"] = "insOpening"
        /\ UNCHANGED <<rows, account, book, asOf, target, reserved, seen>>
    BY <1>0, <1>3 DEF InsiderClosed, history, input, Goto
  <2> QED BY <2>1, SettledStays DEF OrphanInv, Accounted, InsiderStages
<1>4. CASE InsiderOpened
  <2>1. clean /\ pc["daily"] = "insOpening" /\ UNCHANGED <<rows, account, book>>
    BY <1>4 DEF InsiderOpened, history
  <2>2. CASE target["daily"] = NoTarget
    <3>1. pc'["daily"] = "idle"
      BY <1>0, <1>4, <2>2 DEF InsiderOpened, EndPass, Goto
    <3> QED BY <3>1 DEF Settled, InsiderStages, AtReading
  <2>3. CASE target["daily"] # NoTarget
    <3>1. pc'["daily"] = "insEngine" /\ UNCHANGED <<asOf, target, reserved, seen>>
      BY <1>0, <1>4, <2>3 DEF InsiderOpened, Goto, input
    <3> QED BY <2>1, <3>1, SettledStays DEF OrphanInv, Accounted, InsiderStages
  <2> QED BY <2>2, <2>3
<1> QED BY <1>1, <1>2, <1>3, <1>4 DEF DailyPass

\* The engines.
LEMMA EngineSettles ==
  ASSUME OrphanInv, NEW t \in Thread, Engine(t), clean'
  PROVE  Settled'
<1>0. /\ Typed /\ pc \in [Thread -> Stage] /\ "daily" \in Thread /\ DOMAIN target = Thread
      /\ DOMAIN seen = Thread
  BY DEF OrphanInv, ShortInv, Typed, TypeOK, Thread
<1>1. clean /\ (ReadPositions(t) \/ ReadOpenOrders(t) \/ Send(t) \/ AllSent(t))
  BY DEF Engine, ReadPositions, ReadOpenOrders, Halt, Send, Skip, AllSent, Fail, history,
         OrphanInv, ShortInv, Typed, TypeOK
<1>2. Owners /\ Settled
  BY <1>1 DEF OrphanInv, Accounted
<1>3. t = "daily"
  BY <1>1, <1>2
  DEF Owners, ReadPositions, ReadOpenOrders, Send, AllSent, AtEngine, AtReading, AtSending, Thread
<1>4. CASE ReadPositions(t)
  <2>1. /\ UNCHANGED <<rows, account, book, target, asOf, reserved>> /\ seen'["daily"] = held
        /\ UNCHANGED <<insRows, working, held>>
    BY <1>0, <1>3, <1>4 DEF ReadPositions, history, input, rows, account
  <2>2. \/ pc["daily"] = "engine" /\ pc'["daily"] = "reading"
        \/ pc["daily"] = "insEngine" /\ pc'["daily"] = "insReading"
    BY <1>0, <1>3, <1>4 DEF ReadPositions, AtEngine, Goto
  <2>3. OldIns' = OldIns /\ Loose' = Loose
    BY <2>1 DEF OldIns, Loose, Owned, ActiveNews, ActiveInsider, rows
  <2> QED BY <1>2, <2>1, <2>2, <2>3 DEF Settled, InsiderStages
<1>5. CASE ReadOpenOrders(t)
  <2>1. UNCHANGED <<insRows, working, target, asOf, reserved>>
    BY <1>5 DEF ReadOpenOrders, input, rows, account
  <2>2. \/ pc["daily"] = "reading" /\ pc'["daily"] = "sending"
        \/ pc["daily"] = "insReading" /\ pc'["daily"] = "insSending"
    BY <1>0, <1>3, <1>5 DEF ReadOpenOrders, AtReading, Goto
  <2>3. OldIns' = OldIns
    BY <2>1 DEF OldIns
  <2> QED BY <1>2, <2>1, <2>2, <2>3 DEF Settled, InsiderStages, AtReading
<1>6. CASE Send(t)
  <2>1. UNCHANGED <<insRows, pc, target, asOf, reserved>> /\ AtSending("daily")
    BY <1>3, <1>6 DEF Send, input, rows
  <2>2. PICK o \in plan["daily"] : \E x : x.sym = o.sym /\ working' = working \cup {x}
    BY <1>0, <1>3, <1>6, SendOf
  <2>3. o.sym \in DOMAIN target["daily"]
    BY <1>2, <2>1 DEF Owners, Underway
  <2>4. OldIns' = OldIns
    BY <2>1 DEF OldIns
  <2>5. pc["daily"] = "sending" => \A w \in working' : w.sym \notin reserved
    BY <1>2, <2>2, <2>3 DEF Settled
  <2> QED BY <1>2, <2>1, <2>4, <2>5 DEF Settled, InsiderStages, AtReading, AtSending
<1>7. CASE AllSent(t)
  <2>1. Leave("daily") /\ UNCHANGED <<insRows, working>> /\ AtSending("daily")
    BY <1>3, <1>7 DEF AllSent, rows, account
  <2>2. CASE pc["daily"] = "sending"
    <3>1. pc'["daily"] = "insClosing" /\ target'["daily"] = NoTarget /\ UNCHANGED <<asOf, reserved>>
      BY <1>0, <2>1, <2>2 DEF Leave, Goto, input
    <3>2. Loose' = {} /\ OldIns' = OldIns
      BY <2>1, <3>1 DEF Loose, NoTarget, OldIns
    <3> QED BY <1>2, <2>1, <2>2, <3>1, <3>2 DEF Settled, InsiderStages, AtReading
  <2>3. CASE pc["daily"] = "insSending"
    <3>1. pc'["daily"] = "idle"
      BY <1>0, <2>1, <2>3 DEF Leave, EndPass, Goto
    <3> QED BY <3>1 DEF Settled, InsiderStages, AtReading
  <2> QED BY <2>1, <2>2, <2>3 DEF AtSending
<1> QED BY <1>1, <1>4, <1>5, <1>6, <1>7

\* A fill is of a name the pass does not get rid of.
LEMMA WorldSettles ==
  ASSUME OrphanInv, Fill \/ Drop \/ Tick \/ UNCHANGED vars, clean'
  PROVE  Settled'
<1>1. clean /\ (Fill \/ Tick \/ UNCHANGED vars) /\ Typed /\ Settled
  BY DEF Drop, Fill, Tick, vars, history, OrphanInv, ShortInv, Accounted
<1>2. CASE Fill
  <2>1. PICK o \in working : working' = working \ {o} /\ held' = [held EXCEPT ![o.sym] = @ + o.qty]
    BY <1>2 DEF Fill
  <2>2. UNCHANGED <<rows, insRows, pc, asOf, target, seen, reserved, book>>
    BY <1>2 DEF Fill, input, rows
  <2>3. OldIns' = OldIns /\ Loose' = Loose
    BY <2>2 DEF OldIns, Loose, Owned, ActiveNews, ActiveInsider, rows
  <2>4. AtReading("daily") => \A s \in Loose : seen'["daily"][s] = held'[s]
    <3> SUFFICES ASSUME AtReading("daily"), NEW s \in Loose PROVE seen'["daily"][s] = held'[s]
      OBVIOUS
    <3>1. pc["daily"] = "insReading"
      BY <1>1, <2>1 DEF Settled, AtReading
    <3>2. o.sym # s
      BY <1>1, <2>1, <3>1 DEF Settled, InsiderStages
    <3>3. held'[s] = held[s]
      BY <1>1, <2>1, <3>2 DEF Typed, TypeOK, Loose
    <3> QED BY <1>1, <2>2, <3>3 DEF Settled
  <2>5. AtReading("daily")' => AtReading("daily")
    BY <2>2 DEF AtReading
  <2> QED BY <1>1, <2>1, <2>2, <2>3, <2>4, <2>5 DEF Settled
<1>3. CASE Tick \/ UNCHANGED vars
  <2>1. UNCHANGED <<rows, account, book, asOf, target, reserved, seen, pc>>
    BY <1>3 DEF Tick, vars, input, history
  <2> QED BY <1>1, <2>1, SettledStays
<1> QED BY <1>1, <1>2, <1>3

\* The whole is inductive.
LEMMA OrphanStep == OrphanInv /\ [Next]_vars => OrphanInv'
<1> SUFFICES ASSUME OrphanInv, [Next]_vars PROVE OrphanInv'
  OBVIOUS
<1>1. SleevesInv' /\ ShortInv' /\ Typed' /\ clock' \in Nat
  BY SleevesStep, ShortStep DEF OrphanInv, SleevesInv, SleeveTypes, ShortInv
<1>2. clean' => Owners'
  BY <1>1, NewsDisturbs, DailyPlaces, EnginePlaces, WorldPlaces DEF Next
<1>3. clean' => Settled'
  BY NewsDisturbs, DailySettles, EngineSettles, WorldSettles DEF Next
<1>4. Accounted'
  BY <1>2, <1>3 DEF Accounted
<1> QED BY <1>1, <1>4 DEF OrphanInv

\* No pass has begun.
LEMMA OrphanInit == Init => OrphanInv
BY SleevesInitInv, ShortInit DEF Init, OrphanInv, Accounted

\* In every behaviour of the sleeves it holds.
LEMMA OrphanInvariant == Spec => []OrphanInv
BY OrphanInit, OrphanStep, PTL DEF Spec

-----------------------------------------------------------------------------
\* No sleeve ever owns more names than its cap, wherever a pass of it dies
\* (news_sleeve.py:309-312 and insider_sleeve.py:188-199).
THEOREM CapsHold == Spec => []SlotsHold
<1>1. SleevesInv => SlotsHold
  BY DEF SleevesInv, NewsInv, InsiderInv, SlotsHold
<1>2. QED
  BY <1>1, SleevesInvariant, PTL

\* No story is acted on by two passes, closed, failed or forgotten as the first may be
\* (news_sleeve.py:289 and 329).
THEOREM StoriesActOnce == Spec => []OneStoryOnePass
<1>1. SleevesInv => OneStoryOnePass
  BY DEF SleevesInv, NewsInv
<1>2. QED
  BY <1>1, SleevesInvariant, PTL

\* After the closes of a pass nothing its sleeve owns is past its window
\* (news_sleeve.py:295-314, insider_sleeve.py:171-186).
THEOREM WindowsClose == Spec => []TimeBoxed
  BY NothingOverdue, SleevesInvariant, PTL

\* Every variable of the sleeves, the passes and the account has its type (news_sleeve.py,
\* insider_sleeve.py, cycle.py:260-401).
THEOREM SleevesTyped == Spec => []TypeOK
<1>1. OrphanInv => TypeOK
  BY DEF OrphanInv, ShortInv, Typed
<1> QED BY <1>1, OrphanInvariant, PTL

\* Book and sleeves sell the same names, and yet no name is sold short but through two
\* engines that plan at once, a dropped order, or a sell that fills between the two reads of
\* an engine that aims at its name (engine.py:117-124).
THEOREM NoShortWithoutARace == Spec => []ShortNeedsARace
<1>1. OrphanInv => ShortNeedsARace
  BY DEF OrphanInv, ShortInv, NeverShort, ShortNeedsARace
<1> QED BY <1>1, OrphanInvariant, PTL

\* After a daily pass that ran undisturbed every holding is in the book or on a sleeve's
\* record, whatever earlier passes left (cycle.py:341-401, news_sleeve.py:352-361).
THEOREM EveryHoldingIsOwned == Spec => []NoOrphans
<1>1. OrphanInv => NoOrphans
  BY DEF OrphanInv, Accounted, Owners, Placed, Owned, NoOrphans
<1> QED BY <1>1, OrphanInvariant, PTL
=============================================================================
