------------------------------ MODULE Sublists ------------------------------
(***************************************************************************)
(* The list comprehension with a condition, which keeps the order          *)
(* (runtime/cycle.py, cli.py).                                             *)
(***************************************************************************)
EXTENDS Integers, Sequences

\* The members of seq that are in S, in its order.
Among(seq, S) ==
  LET upto[i \in 0 .. Len(seq)] ==
        IF i = 0 THEN << >>
        ELSE IF seq[i] \in S THEN Append(upto[i - 1], seq[i]) ELSE upto[i - 1]
  IN  upto[Len(seq)]
=============================================================================
