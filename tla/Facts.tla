------------------------------- MODULE Facts --------------------------------
(***************************************************************************)
(* The bitemporal fact: core/schema.py, core/identity.py and the two       *)
(* helpers every store shares (storage/bitemporal.py).  A logical key      *)
(* (source, dataset, entity, event_time, ref) is one value, a Fact; times  *)
(* are numbers, naive UTC being the only clock of the store.               *)
(***************************************************************************)
EXTENDS Integers

CONSTANTS
  Feed  \* the observations the sources and the program may ever present

ASSUME FactsAssumption ==
  \A o \in Feed : o.kt \in Nat /\ o.rev \in Nat

\* deterministic_id: the bitemporal coordinates, not the payload.
SameId(o, c) == o.fact = c.fact /\ o.kt = c.kt /\ o.rev = c.rev

\* (knowledge_time, revision), compared as a tuple.
Newer(o, c) == o.kt > c.kt \/ (o.kt = c.kt /\ o.rev > c.rev)

Readable(F, k) == {o \in F : o.kt <= k}

\* The most recent revision of each fact in a set of rows.
Latest(F) == {o \in F : \A c \in F : c.fact = o.fact => ~Newer(c, o)}

Replace(F, B) == {o \in F : \A b \in B : ~SameId(o, b)} \cup B

OneRowPerId(F) == \A o, c \in F : SameId(o, c) => o = c
=============================================================================
