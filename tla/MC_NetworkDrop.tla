--------------------------- MODULE MC_NetworkDrop ---------------------------
(* A small instance of NetworkDrop: two experiments that may give the     *)
(* same match flags, so that their rules are equal.                       *)
EXTENDS NetworkDrop, TLC

CONSTANTS e1, e2, m1

MCExps == {e1, e2}
MCMatches == {m1}
MCSymmetry == Permutations(MCExps)

=============================================================================
