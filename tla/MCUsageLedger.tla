--------------------------- MODULE MCUsageLedger ---------------------------
(* Finite instances of UsageLedger. *)
EXTENDS UsageLedger, TLC

CONSTANTS a1, a2, a3

SymmetryOfTwo   == Permutations({a1, a2})
SymmetryOfThree == Permutations({a1, a2, a3})
=============================================================================
