------------------------------ MODULE HaltGate ------------------------------
(***************************************************************************)
(* What the drawdown governor promises (execution/engine.py:1-11, 30-33):  *)
(* trading goes on order by order until it is halted, and a halt is for    *)
(* good.  Nothing here knows of desks, engines, stores or crashes.         *)
(***************************************************************************)
CONSTANT OrderId

VARIABLES
  halted,  \* the governor has stopped the book
  sentIds  \* the orders that went out under it

Init == halted = FALSE /\ sentIds = {}

Send == /\ ~halted
        /\ \E id \in OrderId \ sentIds : sentIds' = sentIds \cup {id}
        /\ UNCHANGED halted

Halt == /\ ~halted
        /\ halted' = TRUE
        /\ UNCHANGED sentIds

Next == Send \/ Halt

Spec == Init /\ [][Next]_<<halted, sentIds>>
=============================================================================
