---------------------------- MODULE PointInTime -----------------------------
(***************************************************************************)
(* What the store promises its readers (storage/bitemporal.py:50-75): one  *)
(* instant at which the reader looked, at which it saw, of every fact, the *)
(* latest revision knowable by the time it asked about; and batches that   *)
(* appear whole.                                                           *)
(***************************************************************************)
EXTENDS Facts

CONSTANTS Reader, Instant

VARIABLES facts, asking, view, answer

vars == <<facts, asking, view, answer>>

Init ==
  /\ facts = {}
  /\ asking = [r \in Reader |-> FALSE]
  /\ view = [r \in Reader |-> {}]
  /\ answer = [r \in Reader |-> {}]

Publish ==
  /\ \E B \in SUBSET Feed : OneRowPerId(B) /\ facts' = Replace(facts, B)
  /\ UNCHANGED <<asking, view, answer>>

Look(r) ==
  /\ ~asking[r]
  /\ asking' = [asking EXCEPT ![r] = TRUE]
  /\ \E k \in Instant : view' = [view EXCEPT ![r] = Latest(Readable(facts, k))]
  /\ UNCHANGED <<facts, answer>>

Answer(r) ==
  /\ asking[r]
  /\ asking' = [asking EXCEPT ![r] = FALSE]
  /\ answer' = [answer EXCEPT ![r] = view[r]]
  /\ view' = [view EXCEPT ![r] = {}]
  /\ UNCHANGED facts

Next == Publish \/ \E r \in Reader : Look(r) \/ Answer(r)

Spec == Init /\ [][Next]_vars
=============================================================================
