---------------------------- MODULE ServeProofs -----------------------------
(***************************************************************************)
(* The daily schedule over any number of sessions and of lives of the      *)
(* process, whichever loops are armed.                                     *)
(***************************************************************************)
EXTENDS Serve, TLAPS

\* A cycle has only ever run for a session that is over.
OnlyAfterClose == \A s \in Session : ran[s] > 0 => s < session \/ (s = session /\ ~open)

\* The schedule remembers an open market only while the close it waits for has had no cycle.
EdgePending == wasOpen = "open" => saw \in Session /\ ran[saw] = 0

ScheduleInv == TypeOK /\ OnlyAfterClose /\ EdgePending /\ OneCyclePerClose

\* Nothing has run before the market has opened.
LEMMA ServeInit == Init => ScheduleInv
<1> SUFFICES ASSUME Init PROVE ScheduleInv
  OBVIOUS
<1>1. TypeOK
  <2>1. session \in 0 .. MaxSession /\ life \in 0 .. MaxLife /\ saw \in 0 .. session
    BY ServeAssumption DEF Init
  <2>2. ran \in [Session -> Nat]
    BY DEF Init
  <2>3. /\ open \in BOOLEAN /\ (open => session > 0) /\ asked \in BOOLEAN /\ schema \in BOOLEAN
        /\ main = "down" /\ wasOpen = "unknown" /\ pc = [l \in Loop |-> "none"]
    BY DEF Init
  <2>4. QED
    BY <2>1, <2>2, <2>3 DEF TypeOK
<1>2. OnlyAfterClose /\ EdgePending /\ OneCyclePerClose
  BY DEF Init, OnlyAfterClose, EdgePending, OneCyclePerClose
<1>3. QED
  BY <1>1, <1>2 DEF ScheduleInv

\* The threads, the main thread and the database never touch what the schedule knows.
LEMMA QuietStep ==
  ASSUME ScheduleInv, UNCHANGED <<session, open, ran, saw>>, wasOpen' = wasOpen, TypeOK'
  PROVE  ScheduleInv'
  BY DEF ScheduleInv, OnlyAfterClose, EdgePending, OneCyclePerClose

\* A new life knows nothing of the market.
LEMMA BootStep == ScheduleInv /\ Boot => ScheduleInv'
<1> SUFFICES ASSUME ScheduleInv, Boot PROVE ScheduleInv'
  OBVIOUS
<1>1. TypeOK'
  <2>1. life' \in 0 .. MaxLife /\ saw' \in 0 .. session'
    BY ServeAssumption DEF ScheduleInv, TypeOK, Boot, market
  <2>2. asked' \in BOOLEAN /\ main' = "starting" /\ wasOpen' = "unknown"
    BY DEF Boot
  <2>3. QED
    BY <2>1, <2>2 DEF ScheduleInv, TypeOK, Boot, market
<1>2. (OnlyAfterClose /\ EdgePending /\ OneCyclePerClose)'
  BY DEF ScheduleInv, Boot, market, OnlyAfterClose, EdgePending, OneCyclePerClose
<1>3. QED
  BY <1>1, <1>2 DEF ScheduleInv

\* A session that begins has had no cycle.
LEMMA OpensStep == ScheduleInv /\ Opens => ScheduleInv'
<1> SUFFICES ASSUME ScheduleInv, Opens PROVE ScheduleInv'
  OBVIOUS
<1>1. TypeOK'
  BY ServeAssumption DEF ScheduleInv, TypeOK, Opens, history
<1>2. OnlyAfterClose'
  BY DEF ScheduleInv, TypeOK, Opens, history, OnlyAfterClose, Session
<1>3. (EdgePending /\ OneCyclePerClose)'
  BY DEF ScheduleInv, Opens, history, EdgePending, OneCyclePerClose
<1>4. QED
  BY <1>1, <1>2, <1>3 DEF ScheduleInv

\* Nor does its close run one.
LEMMA ClosesStep == ScheduleInv /\ Closes => ScheduleInv'
<1> SUFFICES ASSUME ScheduleInv, Closes PROVE ScheduleInv'
  OBVIOUS
<1>1. TypeOK'
  BY DEF ScheduleInv, TypeOK, Closes, history
<1>2. (OnlyAfterClose /\ EdgePending /\ OneCyclePerClose)'
  BY DEF ScheduleInv, Closes, history, OnlyAfterClose, EdgePending, OneCyclePerClose
<1>3. QED
  BY <1>1, <1>2 DEF ScheduleInv

\* A poll that finds the market open waits for the close of the running session, which has
\* had no cycle; one that finds the close runs it and stops waiting.
LEMMA PollStep == ScheduleInv /\ Poll => ScheduleInv'
<1> SUFFICES ASSUME ScheduleInv, Poll PROVE ScheduleInv'
  OBVIOUS
<1> USE DEF ScheduleInv
<1>1. /\ ran \in [Session -> Nat] /\ session \in Nat /\ saw \in 0 .. session /\ session <= MaxSession
      /\ MaxSession \in Nat /\ open \in BOOLEAN /\ (open => session > 0)
  BY ServeAssumption DEF TypeOK
<1>2. UNCHANGED <<session, open>>
  BY DEF Poll, market
<1>3. ran' = [s \in Session |-> IF s = saw /\ wasOpen = "open" /\ ~open THEN ran[s] + 1 ELSE ran[s]]
  <2>1. CASE wasOpen = "open" /\ ~open
    <3>1. saw' = saw
      BY <2>1 DEF Poll
    <3>2. QED
      BY <2>1 DEF Poll
  <2>2. CASE ~(wasOpen = "open" /\ ~open)
    <3>1. ran' = ran
      BY <2>2 DEF Poll
    <3>2. QED
      BY <1>1, <2>2, <3>1
  <2>3. QED
    BY <2>1, <2>2
<1>4. TypeOK'
  <2>1. pc' \in [Loop -> {"none", "starting", "creating", "check", "pass", "sleep", "dead"}]
    BY DEF Poll, TypeOK, Goto
  <2>2. ran' \in [Session -> Nat]
    BY <1>1, <1>3
  <2>3. QED
    BY <1>1, <2>1, <2>2 DEF Poll, TypeOK, market
<1>5. CASE wasOpen = "open" /\ ~open
  <2>1. saw \in Session /\ ran[saw] = 0 /\ wasOpen' = "closed"
    BY <1>5 DEF EdgePending, Poll
  <2>2. OneCyclePerClose'
    BY <1>1, <1>3, <2>1 DEF OneCyclePerClose
  <2>3. OnlyAfterClose'
    BY <1>1, <1>2, <1>3, <1>5, <2>1 DEF OnlyAfterClose
  <2>4. QED
    BY <1>4, <2>1, <2>2, <2>3 DEF EdgePending
<1>6. CASE ~(wasOpen = "open" /\ ~open)
  <2>1. \A s \in Session : ran'[s] = ran[s]
    BY <1>3, <1>6
  <2>2. (OneCyclePerClose /\ OnlyAfterClose)'
    BY <1>2, <2>1 DEF OneCyclePerClose, OnlyAfterClose
  <2>3. EdgePending'
    <3>1. SUFFICES ASSUME open PROVE session \in Session /\ ran[session] = 0 /\ saw' = session
      BY <2>1 DEF Poll, EdgePending
    <3>2. session \in Session
      BY <1>1, <3>1 DEF Session
    <3>3. QED
      BY <1>1, <3>1, <3>2 DEF OnlyAfterClose, Poll
  <2>4. QED
    BY <1>4, <2>2, <2>3
<1>7. QED
  BY <1>5, <1>6

\* A clock that cannot be read leaves a pending close pending.
LEMMA BlipStep == ScheduleInv /\ ClockBlip => ScheduleInv'
<1> SUFFICES ASSUME ScheduleInv, ClockBlip PROVE ScheduleInv'
  OBVIOUS
<1>1. TypeOK'
  BY DEF ScheduleInv, TypeOK, ClockBlip, Goto, market, history
<1>2. (OnlyAfterClose /\ EdgePending /\ OneCyclePerClose)'
  BY DEF ScheduleInv, ClockBlip, market, history, OnlyAfterClose, EdgePending, OneCyclePerClose
<1>3. QED
  BY <1>1, <1>2 DEF ScheduleInv

\* The main thread comes and goes.
LEMMA MainStep == ScheduleInv /\ (Signal \/ MainRuns \/ Exit) => ScheduleInv'
<1> SUFFICES ASSUME ScheduleInv, Signal \/ MainRuns \/ Exit PROVE ScheduleInv'
  OBVIOUS
<1>1. TypeOK'
  <2>1. CASE Signal
    BY <2>1 DEF ScheduleInv, TypeOK, Signal, market, history
  <2>2. CASE MainRuns
    BY <2>2 DEF ScheduleInv, TypeOK, MainRuns, market, history
  <2>3. CASE Exit
    BY <2>3 DEF ScheduleInv, TypeOK, Exit, market, history
  <2>4. QED
    BY <2>1, <2>2, <2>3
<1>2. QED
  BY <1>1, QuietStep DEF Signal, MainRuns, Exit, market, history

\* So do the threads.
LEMMA ThreadStep ==
  ASSUME ScheduleInv, NEW l \in Loop, StartThread(l) \/ LoopStep(l) \/ StartDaily
  PROVE  ScheduleInv'
<1> DEFINE Stages == {"none", "starting", "creating", "check", "pass", "sleep", "dead"}
<1>1. /\ UNCHANGED <<session, open, ran, saw, wasOpen, life, main, asked>>
      /\ schema' \in {schema, TRUE}
      /\ \E m \in Loop, to \in Stages : pc' = [pc EXCEPT ![m] = to]
  <2>1. CASE StartThread(l)
    BY <2>1 DEF StartThread, market, history
  <2>2. CASE StartDaily
    BY <2>2 DEF StartDaily, Goto, Rest, market, history, Loop
  <2>3. CASE FindSchema(l)
    BY <2>3 DEF FindSchema, Goto, Rest, market, history
  <2>4. CASE CreateSchema(l)
    BY <2>4 DEF CreateSchema, Goto, market, history
  <2>5. CASE NoDatabase(l)
    BY <2>5 DEF NoDatabase, Goto, Rest, market, history
  <2>6. CASE Check(l)
    BY <2>6 DEF Check, Goto, Rest, market, history
  <2>7. CASE CheckFails(l) \/ PassEnds(l) \/ PassFails(l) \/ Wake(l)
    BY <2>7 DEF CheckFails, PassEnds, PassFails, Wake, Goto, Rest, market, history
  <2>8. QED
    BY <2>1, <2>2, <2>3, <2>4, <2>5, <2>6, <2>7 DEF LoopStep
<1>2. TypeOK'
  BY <1>1 DEF ScheduleInv, TypeOK
<1>3. QED
  BY <1>1, <1>2, QuietStep

\* The invariant is inductive: one step per action.
LEMMA ScheduleStep == ScheduleInv /\ [Next]_vars => ScheduleInv'
<1> SUFFICES ASSUME ScheduleInv, [Next]_vars PROVE ScheduleInv'
  OBVIOUS
<1>1. CASE UNCHANGED vars
  BY <1>1, QuietStep DEF ScheduleInv, TypeOK, vars, market, history
<1>2. CASE DailyStep
  BY <1>2, PollStep, BlipStep, ThreadStep DEF DailyStep, Loop
<1>3. QED
  BY <1>1, <1>2, OpensStep, ClosesStep, BootStep, MainStep, ThreadStep DEF Next

\* In every behaviour of the process the invariant holds.
LEMMA ScheduleInvariant == Spec => []ScheduleInv
  BY ServeInit, ScheduleStep, PTL DEF Spec

-----------------------------------------------------------------------------
\* The variables keep their types.
THEOREM ServeTypeCorrect == Spec => []TypeOK
  BY ScheduleInvariant, PTL DEF ScheduleInv

\* No close starts two daily cycles, whatever fails, blips or is restarted (schedule.py:1-6).
THEOREM OncePerClose == Spec => []OneCyclePerClose
  BY ScheduleInvariant, PTL DEF ScheduleInv

\* A cycle is for the session this life last saw, once it is over (schedule.py:72-78).
THEOREM NeverBeforeTheClose == Spec => CycleAfterClose
<1>1. ScheduleInv /\ [Next]_vars =>
        [\A s \in Session : ran'[s] # ran[s] => s = saw /\ (s < session \/ ~open)]_vars
  <2> SUFFICES ASSUME ScheduleInv, Next, NEW s \in Session, ran'[s] # ran[s]
               PROVE  s = saw /\ ~open
    OBVIOUS
  <2>1. Poll
    BY DEF Next, Opens, Closes, Boot, MainRuns, Signal, Exit, StartThread, LoopStep, DailyStep,
           FindSchema, CreateSchema, NoDatabase, Check, CheckFails, PassEnds, PassFails, Wake,
           StartDaily, ClockBlip, Rest, market, history
  <2>2. ran \in [Session -> Nat]
    BY DEF ScheduleInv, TypeOK
  <2>3. QED
    BY <2>1, <2>2 DEF Poll
<1>2. QED
  BY <1>1, ScheduleInvariant, PTL DEF Spec, CycleAfterClose
=============================================================================
