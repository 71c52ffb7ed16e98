----------------------------- MODULE MCSleeves ------------------------------
(***************************************************************************)
(* Instances of Sleeves for TLC.                                           *)
(***************************************************************************)
EXTENDS Sleeves, TLC

CONSTANTS a, b, s1, s2

\* Every name is quoted in a pass, or none is.
Quotes == {Symbol, {}}

Names == Permutations(Symbol)
=============================================================================
