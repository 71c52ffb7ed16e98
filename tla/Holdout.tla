------------------------------ MODULE Holdout -------------------------------
(***************************************************************************)
(* The sealed holdout (backtest/holdout.py, cmd_signal_ic): a command      *)
(* takes its time, measures the tail of the history (which lasts), then    *)
(* looks for a verdict that was knowable at ITS time and, finding none,    *)
(* records its own.  Nothing locks the ledger between the look and the     *)
(* record, nor between two commands.  One signal; the measured numbers are *)
(* abstracted to the verdict.                                              *)
(***************************************************************************)
EXTENDS Integers

CONSTANTS
  Command,  \* the invocations of signal-ic --holdout
  MaxTime   \* bound on the clock

ASSUME HoldoutAssumption == MaxTime \in Nat

VARIABLES
  now,
  stage,   \* of each command: "idle", "measuring", "looked", "done"
  at,      \* when it started: decided_at
  verdict, \* what it measured
  ledger,  \* rows: when they were decided and written, and the verdict
  told     \* the rows a finished command reports: one, or none

holdoutVars == <<now, stage, at, verdict, ledger, told>>

Row == [at : Nat, written : Nat, passed : BOOLEAN]

HoldoutInit ==
  /\ now = 0
  /\ stage = [c \in Command |-> "idle"]
  /\ at = [c \in Command |-> 0]
  /\ verdict = [c \in Command |-> FALSE]
  /\ ledger = {}
  /\ told = [c \in Command |-> {}]

Start(c) ==
  /\ stage[c] = "idle"
  /\ stage' = [stage EXCEPT ![c] = "measuring"]
  /\ at' = [at EXCEPT ![c] = now]
  /\ \E v \in BOOLEAN : verdict' = [verdict EXCEPT ![c] = v]
  /\ UNCHANGED <<now, ledger, told>>

\* Mutant: only the looks of the same instant are read.
KnowableToday(c) == {r \in ledger : r.at = at[c]}

\* What a command can read: a row's knowledge_time is the time it was decided at.
Knowable(c) == {r \in ledger : r.at <= at[c]}

\* Mutant: the latest look is the one that counts.
LastLook(rows) == {r \in rows : \A q \in rows : q.at <= r.at}

\* The first look is the one that counts.
FirstLook(rows) == {r \in rows : \A q \in rows : r.at <= q.at}

LookAndRepeat(c) ==
  /\ stage[c] = "measuring" /\ Knowable(c) # {}
  /\ stage' = [stage EXCEPT ![c] = "done"]
  /\ told' = [told EXCEPT ![c] = FirstLook(Knowable(c))]
  /\ UNCHANGED <<now, at, verdict, ledger>>

LookFindsNone(c) ==
  /\ stage[c] = "measuring" /\ Knowable(c) = {}
  /\ stage' = [stage EXCEPT ![c] = "looked"]
  /\ UNCHANGED <<now, at, verdict, ledger, told>>

\* An upsert: a row decided at the same instant is the same row.
Record(c) ==
  /\ stage[c] = "looked"
  /\ LET row == [at |-> at[c], written |-> now, passed |-> verdict[c]]
     IN  /\ ledger' = {r \in ledger : r.at # at[c]} \cup {row}
         /\ told' = [told EXCEPT ![c] = {row}]
  /\ stage' = [stage EXCEPT ![c] = "done"]
  /\ UNCHANGED <<now, at, verdict>>

\* The command is killed, or its measurement fails.
Abandon(c) ==
  /\ stage[c] \in {"measuring", "looked"}
  /\ stage' = [stage EXCEPT ![c] = "done"]
  /\ UNCHANGED <<now, at, verdict, ledger, told>>

Wait ==
  /\ now < MaxTime
  /\ now' = now + 1
  /\ UNCHANGED <<stage, at, verdict, ledger, told>>

HoldoutNext ==
  \/ Wait
  \/ \E c \in Command : Start(c) \/ LookAndRepeat(c) \/ LookFindsNone(c) \/ Record(c) \/ Abandon(c)

HoldoutSpec == HoldoutInit /\ [][HoldoutNext]_holdoutVars

-----------------------------------------------------------------------------
HoldoutTypeOK ==
  /\ now \in Nat
  /\ stage \in [Command -> {"idle", "measuring", "looked", "done"}]
  /\ at \in [Command -> Nat]
  /\ verdict \in [Command -> BOOLEAN]
  /\ ledger \in SUBSET Row
  /\ told \in [Command -> SUBSET Row]

\* A signal is looked at once: a command that started after a verdict was written records
\* none of its own, so only commands that overlapped can both be in the ledger
\* (holdout.py:97, confirm_on_holdout).
SingleLook ==
  \A r, q \in ledger : q.at <= r.written

\* Whoever starts after a verdict was written is never told one decided later: a re-run
\* cannot shop for a better number (holdout.py:61).
ToldTheSealed ==
  \A c \in Command : \A r \in told[c] : \A q \in ledger : q.written < at[c] => r.at <= q.at
=============================================================================
