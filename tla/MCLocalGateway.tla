--------------------------- MODULE MCLocalGateway ---------------------------
(* Finite instance of LocalGateway. *)
EXTENDS LocalGateway

CONSTANTS q1, q2, a1

OneAccount == [r \in Route |-> a1]
=============================================================================
