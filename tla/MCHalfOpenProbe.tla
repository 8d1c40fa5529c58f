-------------------------- MODULE MCHalfOpenProbe --------------------------
(* Finite instances of HalfOpenProbe. *)
EXTENDS HalfOpenProbe, TLC

CONSTANTS g1, g2, q1, q2, q3, a1, l1, l2, l3, l4, l5

(* Two requests on the first process, one on the second. *)
HomeOfThree == (q1 :> g1) @@ (q2 :> g1) @@ (q3 :> g2)
HomeOfTwo   == (q1 :> g1) @@ (q2 :> g2)
HomeOfOne   == [q \in Request |-> g1]

(* The retry times that open routes may start with. *)
AnyWait == {0, Cooldown, Never}
Due     == {0}

OneAccount  == [r \in Route |-> a1]

(* Lease identities are interchangeable, and so are the two requests of g1. *)
SymmetryOfThree == Permutations({q1, q2}) \union Permutations(LeaseId)
(* Of two processes with one request each, the processes with their requests.  *)
SymmetryOfTwo   ==
  Permutations(LeaseId) \union {(g1 :> g2) @@ (g2 :> g1) @@ (q1 :> q2) @@ (q2 :> q1)}
=============================================================================
