-------------------------- MODULE MCCandidatePlan --------------------------
(* Finite instances of CandidatePlan: three models, the first with two routes. *)
EXTENDS CandidatePlan

ThreeModels   == 1 .. 3
FourRoutes    == 1 .. 4
ModelOfFour   == <<1, 1, 2, 3>>
(* The route with the lower number comes last. *)
PriorityOfFour == <<1, 0, 0, 0>>
=============================================================================
