------------------------------- MODULE Serve -------------------------------
(***************************************************************************)
(* The engine process: `market-trader serve` (cli.py:100-211), its main    *)
(* thread with the health server and the signal handler, and the three     *)
(* daemon threads it may start: the daily schedule (runtime/schedule.py),  *)
(* the intraday loop (runtime/intraday.py) and the news sleeve's loop      *)
(* (runtime/news_sleeve.py).  What a cycle does to the account is the      *)
(* subject of Execution and Sleeves; here a cycle starts, and ends well or *)
(* with an exception.                                                      *)
(***************************************************************************)
EXTENDS Integers

CONSTANTS
  Armed,       \* the loops whose switch is on, the broker's keys being set
  MaxSession,  \* bound: market sessions
  MaxLife      \* bound: lives of the process

Loop == {"daily", "intraday", "news"}

ASSUME ServeAssumption ==
  Armed \subseteq Loop /\ MaxSession \in Nat /\ MaxLife \in Nat

VARIABLES
  session, open,  \* the market: the last session that began, and whether it lasts
  life,           \* lives of the process so far
  main,           \* the main thread
  asked,          \* the shutdown request of the health server
  pc,             \* the loops
  schema,         \* the tables of the database exist
  wasOpen,        \* the daily schedule's was_open
  \* history
  saw,            \* the last session this life's schedule found open; 0: none
  ran             \* daily cycles started for the close of each session

market == <<session, open>>
history == <<saw, ran>>
vars == <<market, life, main, asked, pc, schema, wasOpen, history>>

Session == 1 .. MaxSession

-----------------------------------------------------------------------------
Init ==
  /\ session = 0 /\ open = FALSE
  /\ life = 0 /\ main = "down" /\ asked = FALSE
  /\ pc = [l \in Loop |-> "none"]
  /\ schema \in BOOLEAN
  /\ wasOpen = "unknown"
  /\ saw = 0 /\ ran = [s \in Session |-> 0]

-----------------------------------------------------------------------------
(* The market: weekends and holidays are long closures.                      *)

Opens ==
  /\ ~open /\ session < MaxSession
  /\ session' = session + 1 /\ open' = TRUE
  /\ UNCHANGED <<life, main, asked, pc, schema, wasOpen, history>>

Closes ==
  /\ open
  /\ open' = FALSE
  /\ UNCHANGED <<session, life, main, asked, pc, schema, wasOpen, history>>

-----------------------------------------------------------------------------
(* The main thread.                                                          *)

\* cmd_serve up to the handlers; `restart: unless-stopped` makes further lives.
Boot ==
  /\ main = "down" /\ life < MaxLife
  /\ life' = life + 1 /\ main' = "starting" /\ asked' = FALSE
  /\ wasOpen' = "unknown" /\ saw' = 0
  /\ UNCHANGED <<market, pc, schema, ran>>

StartThread(l) ==
  /\ main = "starting" /\ l \in Armed /\ pc[l] = "none"
  /\ pc' = [pc EXCEPT ![l] = "starting"]
  /\ UNCHANGED <<market, life, main, asked, schema, wasOpen, history>>

\* The interpreter runs a signal handler in the main thread, between two of its
\* instructions: _stand_down asks the server to stop and waits until it has.
Signal ==
  /\ main \in {"starting", "serving"}
  /\ main' = "handler" /\ asked' = TRUE
  /\ UNCHANGED <<market, life, pc, schema, wasOpen, history>>

\* The main thread's own steps: into BaseServer.serve_forever, which looks at the
\* request between two polls of its socket, and out of it.  BaseServer.shutdown returns
\* when the loop has been left; a handler in its wait keeps this thread from leaving it.
MainRuns ==
  /\ \/ main = "starting" /\ \A l \in Armed : pc[l] # "none"
     \/ main = "serving" /\ asked
  /\ main' = IF main = "starting" THEN "serving" ELSE "stopped"
  /\ UNCHANGED <<market, life, asked, pc, schema, wasOpen, history>>

\* cmd_serve returned, or the process was killed: the daemon threads end with it.
Exit ==
  /\ main # "down" /\ main' = "down"
  /\ pc' = [l \in Loop |-> "none"]
  /\ UNCHANGED <<market, life, asked, schema, wasOpen, history>>

-----------------------------------------------------------------------------
(* The loops.  `stop` and `max_iterations` are None.                         *)

Goto(l, from, to) == pc[l] = from /\ pc' = [pc EXCEPT ![l] = to]
Rest == UNCHANGED <<market, life, main, asked, schema, wasOpen, history>>

\* The daily schedule makes its clients without asking anybody; the two other loops
\* look first whether the tables exist.
StartDaily == Goto("daily", "starting", "check") /\ Rest

FindSchema(l) ==
  /\ l # "daily" /\ Goto(l, "starting", IF schema THEN "check" ELSE "creating")
  /\ Rest

\* create_all: the second of two creators is refused, as nothing is when the database
\* cannot be reached.  Neither is caught inside the loop: the thread ends.
CreateSchema(l) ==
  /\ Goto(l, "creating", IF schema THEN "dead" ELSE "check")
  /\ schema' = TRUE
  /\ UNCHANGED <<market, life, main, asked, wasOpen, history>>

NoDatabase(l) ==
  /\ l # "daily"
  /\ Goto(l, "starting", "dead") \/ Goto(l, "creating", "dead")
  /\ Rest

\* intraday and news: a pass if the market is open, and a failure of either is a
\* warning.
Check(l) ==
  /\ l # "daily" /\ Goto(l, "check", IF open THEN "pass" ELSE "sleep")
  /\ Rest

CheckFails(l) == l # "daily" /\ Goto(l, "check", "sleep") /\ Rest
PassEnds(l) == Goto(l, "pass", "sleep") /\ Rest

\* Mutant: the exception of a pass leaves the loop.
PassEscapes(l) == Goto(l, "pass", "dead") /\ Rest

PassFails(l) == Goto(l, "pass", "sleep") /\ Rest

Wake(l) == Goto(l, "sleep", "check") /\ Rest

\* Mutant: was_open is advanced when nothing fires, so that a failed cycle is retried.
PollRetries ==
  /\ wasOpen' = IF open \/ wasOpen = "open" THEN "open" ELSE "closed"
  /\ saw' = IF open THEN session ELSE saw
  /\ IF wasOpen = "open" /\ ~open
     THEN /\ Goto("daily", "check", "pass")
          /\ ran' = [s \in Session |-> IF s = saw THEN ran[s] + 1 ELSE ran[s]]
     ELSE Goto("daily", "check", "sleep") /\ UNCHANGED ran
  /\ UNCHANGED <<market, life, main, asked, schema>>

\* The schedule: the close edge, and was_open advanced before the cycle runs.
Poll ==
  /\ wasOpen' = IF open THEN "open" ELSE "closed"
  /\ saw' = IF open THEN session ELSE saw
  /\ IF wasOpen = "open" /\ ~open
     THEN /\ Goto("daily", "check", "pass")
          /\ ran' = [s \in Session |-> IF s = saw THEN ran[s] + 1 ELSE ran[s]]
     ELSE Goto("daily", "check", "sleep") /\ UNCHANGED ran
  /\ UNCHANGED <<market, life, main, asked, schema>>

\* Mutant: an unreachable clock reads as "not open".
BlipCloses ==
  /\ wasOpen' = "closed"
  /\ IF wasOpen = "open"
     THEN /\ Goto("daily", "check", "pass")
          /\ ran' = [s \in Session |-> IF s = saw THEN ran[s] + 1 ELSE ran[s]]
     ELSE Goto("daily", "check", "sleep") /\ UNCHANGED ran
  /\ UNCHANGED <<market, life, main, asked, schema, saw>>

\* Mutant: an unreachable clock leaves the schedule as it started.
BlipForgets ==
  /\ Goto("daily", "check", "sleep")
  /\ wasOpen' = "unknown"
  /\ UNCHANGED <<market, life, main, asked, schema, history>>

\* Mutant: an unreachable clock leaves no value at all.
BlipForgetsEdge ==
  /\ Goto("daily", "check", "sleep")
  /\ wasOpen' = "error"
  /\ UNCHANGED <<market, life, main, asked, schema, history>>

\* "A clock blip must not look like a close": now_open = bool(was_open).
ClockBlip ==
  /\ Goto("daily", "check", "sleep")
  /\ wasOpen' = IF wasOpen = "open" THEN "open" ELSE "closed"
  /\ UNCHANGED <<market, life, main, asked, schema, history>>

-----------------------------------------------------------------------------
LoopStep(l) ==
  \/ FindSchema(l) \/ CreateSchema(l) \/ NoDatabase(l)
  \/ Check(l) \/ CheckFails(l) \/ PassEnds(l) \/ PassFails(l) \/ Wake(l)

DailyStep == StartDaily \/ Poll \/ ClockBlip

Next ==
  \/ Opens \/ Closes
  \/ Boot \/ MainRuns \/ Signal \/ Exit
  \/ \E l \in Loop : StartThread(l) \/ LoopStep(l)
  \/ DailyStep

\* The threads are scheduled, calls to the broker and the database return (every
\* client has a timeout), and the clock can be read again after some failures.
Fairness ==
  /\ WF_vars(MainRuns \/ (main = "stopped" /\ Exit) \/ \E l \in Loop : StartThread(l))
  /\ \A l \in Loop : WF_vars(LoopStep(l))
  /\ WF_vars(DailyStep) /\ SF_vars(Poll)

Spec == Init /\ [][Next]_vars /\ Fairness

-----------------------------------------------------------------------------
(* Properties.                                                               *)

TypeOK ==
  /\ session \in 0 .. MaxSession /\ open \in BOOLEAN /\ (open => session > 0)
  /\ life \in 0 .. MaxLife
  /\ main \in {"down", "starting", "serving", "handler", "stopped"}
  /\ asked \in BOOLEAN /\ schema \in BOOLEAN
  /\ pc \in [Loop -> {"none", "starting", "creating", "check", "pass", "sleep", "dead"}]
  /\ wasOpen \in {"unknown", "open", "closed"}
  /\ saw \in 0 .. session
  /\ ran \in [Session -> Nat]

\* "Once per trading day" (schedule.py:1-6): whatever fails, blips or is restarted, no
\* session's close starts a second daily cycle.
OneCyclePerClose == \A s \in Session : ran[s] <= 1

\* The cycle reads the bars of a session that has ended: none is started for a session
\* that still lasts, or that this life of the process never saw.
CycleAfterClose ==
  [][\A s \in Session : ran'[s] # ran[s] => s = saw /\ (s < session \/ ~open)]_vars

\* A session the schedule found open gets its cycle when the clock can be read before
\* the next one opens, in the life that watched it.
CloseIsFollowedByCycle ==
  \A s \in Session :
    (saw = s /\ session = s /\ ~open /\ main # "down")
      ~> (ran[s] = 1 \/ session # s \/ main = "down")

\* "One bad pass must never kill the loop" (intraday.py:187, news_sleeve.py:418): a
\* loop that has come to its first check asks again for ever.
LoopsSurvive ==
  \A l \in Loop : pc[l] = "check" ~> (pc[l] = "sleep" \/ main = "down")

\* "On SIGTERM, stands down cleanly" (OPERATIONS.md:92-93).
StandsDown == main = "handler" ~> main \in {"stopped", "down"}
=============================================================================
