--------------------------- MODULE AscendingOrder ---------------------------
(***************************************************************************)
(* A finite set of numbers as the sequence in which they ascend: what      *)
(* sorting by a key that no two elements share makes of the keys.          *)
(***************************************************************************)
EXTENDS Integers, FiniteSets

(* How many elements of S are not above n. *)
Place(S, n) == Cardinality({k \in S : k <= n})

Ascending(S) == [i \in 1 .. Cardinality(S) |-> CHOOSE n \in S : Place(S, n) = i]
=============================================================================
