--------------------------- MODULE CandidatePlan ---------------------------
(***************************************************************************)
(* candidate_plan of the domain crate: the depth-first expansion of a      *)
(* logical model and its ordered fallbacks into an ordered plan of routes. *)
(* Every repository calls it, with the routes that it finds eligible and   *)
(* the fallbacks that an operator has added one by one.                    *)
(*                                                                         *)
(* The recursion of visit is kept as a stack of the models being visited,  *)
(* each with the fallbacks it still has to look at.                        *)
(***************************************************************************)
EXTENDS Integers, Sequences, SequencesExt, AscendingOrder

CONSTANTS
  Model,        \* logical models
  Route,        \* provider routes
  ModelOf,      \* ModelOf[r]: the logical model of route r
  Priority,     \* Priority[r]: unique among the routes of a model
  MaxFallbacks  \* bound: fallbacks of one model

ASSUME ConstantsAssumption ==
  /\ IsFiniteSet(Model) /\ IsFiniteSet(Route)
  /\ ModelOf \in [Route -> Model]
  /\ Priority \in [Route -> Nat]
  /\ \A r, s \in Route : (ModelOf[r] = ModelOf[s] /\ Priority[r] = Priority[s]) => r = s
  /\ MaxFallbacks \in Nat

VARIABLES
  fallbacks,  \* model_fallbacks: the targets of every model, by priority
  requested,  \* the requested model of the call under way
  eligible,   \* the routes the repository passes to the call
  stack,      \* visiting: the active calls of visit, the innermost last
  visited,    \* the models visited so far
  output,     \* the plan so far
  result      \* "none" before the call and during it, then what it returns

config == <<fallbacks>>
call   == <<requested, eligible>>
vars   == <<config, call, stack, visited, output, result>>

Results == {"none", "planning", "ok", "unknown_model", "cycle"}
Frame   == [model : Model, rest : Seq(Model)]

TypeOK ==
  /\ fallbacks \in [Model -> Seq(Model)]
  /\ requested \in Model
  /\ eligible \subseteq Route
  /\ stack \in Seq(Frame) /\ Len(stack) <= Cardinality(Model)
  /\ visited \subseteq Model
  /\ output \in Seq(Route)
  /\ result \in Results

Init ==
  /\ fallbacks = [m \in Model |-> <<>>]
  /\ requested \in Model
  /\ eligible = {}
  /\ stack = <<>> /\ visited = {} /\ output = <<>>
  /\ result = "none"

(* add_fallback: a row of its own. Only the order of the priorities counts, so  *)
(* that it is enough to add the fallbacks of a model in that order.             *)
AddFallback(source, target) ==
  /\ result = "none"
  /\ Len(fallbacks[source]) < MaxFallbacks
  /\ fallbacks' = [fallbacks EXCEPT ![source] = Append(@, target)]
  /\ UNCHANGED <<call, stack, visited, output, result>>

-----------------------------------------------------------------------------
(* candidate_plan *)

(* Variant: the routes of a model in the order of the query's rows. *)
UnsortedRoutes(m) == SetToSeq({r \in eligible : ModelOf[r] = m})

(* Routes of one model, sorted by priority. *)
ByPriority(routes) ==
  LET priorities == Ascending({Priority[r] : r \in routes})
  IN  [i \in DOMAIN priorities |-> CHOOSE r \in routes : Priority[r] = priorities[i]]

(* routes_by_model *)
RoutesOf(m) == ByPriority({r \in eligible : ModelOf[r] = m})

OnStack(m) == \E i \in DOMAIN stack : stack[i].model = m

(* Variants: no look at the active calls, and none at any call. *)
MeetsVisited(m) == IF m \in visited THEN "again" ELSE "new"
MeetsNothing(m) == "new"

(* What visit finds a model to be when it is called with it. *)
Meets(m) ==
  IF OnStack(m) THEN "cycle" ELSE IF m \in visited THEN "again" ELSE "new"

(* The call, with the routes the repository has found eligible. *)
Plan(m, routes) ==
  /\ result = "none"
  /\ requested' = m
  /\ eligible' = routes
  /\ IF \E r \in routes : ModelOf[r] = m
       THEN /\ result' = "planning"
            /\ stack' = <<[model |-> m, rest |-> fallbacks[m]]>>
            /\ visited' = {m}
            /\ output' = RoutesOf(m)'
       ELSE /\ result' = "unknown_model"
            /\ UNCHANGED <<stack, visited, output>>
  /\ UNCHANGED config

(* The innermost call of visit takes its next fallback. *)
Visit ==
  /\ result = "planning"
  /\ stack # <<>>
  /\ Last(stack).rest # <<>>
  /\ LET next  == Head(Last(stack).rest)
         stays == [stack EXCEPT ![Len(stack)].rest = Tail(@)]
         kind  == Meets(next)
     IN  /\ stack' = IF kind = "new"
                       THEN Append(stays, [model |-> next, rest |-> fallbacks[next]])
                       ELSE stays
         /\ visited' = visited \union {next}
         /\ output' = IF kind = "new" THEN output \o RoutesOf(next) ELSE output
         /\ result' = IF kind = "cycle" THEN "cycle" ELSE result
  /\ UNCHANGED <<config, call>>

(* The innermost call has looked at all of its fallbacks. *)
Return ==
  /\ result = "planning"
  /\ stack # <<>>
  /\ Last(stack).rest = <<>>
  /\ stack' = Front(stack)
  /\ UNCHANGED <<config, call, visited, output, result>>

(* The outermost call has returned. The plan holds the requested model's routes *)
(* at least, so that NoEligibleRoute is never returned.                         *)
Finish ==
  /\ result = "planning"
  /\ stack = <<>>
  /\ result' = "ok"
  /\ UNCHANGED <<config, call, stack, visited, output>>

Next ==
  \/ \E source, target \in Model : AddFallback(source, target)
  \/ \E m \in Model, routes \in SUBSET Route : Plan(m, routes)
  \/ Visit \/ Return \/ Finish

Spec == Init /\ [][Next]_vars

-----------------------------------------------------------------------------
(* The reference definition *)

(* A way from the requested model along fallbacks. *)
IsWay(way) ==
  /\ way \in Seq(Model) /\ way # <<>>
  /\ way[1] = requested
  /\ \A i \in 1 .. Len(way) - 1 : way[i + 1] \in ToSet(fallbacks[way[i]])

(* A way that a fallback of its last model leads back into. *)
IsLoop(way) ==
  /\ IsWay(way)
  /\ \E i \in 1 .. Len(way) : way[i] \in ToSet(fallbacks[way[Len(way)]])

(* The ways that are long enough to meet every model. Longer ones come back to  *)
(* a model of their own, and then so does one of these.                         *)
Ways == {way \in UNION {[1 .. n -> Model] : n \in 1 .. Cardinality(Model)} : IsWay(way)}

WaysTo(m) == {way \in Ways : Last(way) = m}

Reachable == {Last(way) : way \in Ways}

(* Among the fallbacks of m, a is before b wherever b is. *)
FallbackBefore(m, a, b) ==
  \E k \in DOMAIN fallbacks[m] :
    /\ fallbacks[m][k] = a
    /\ \A l \in 1 .. k : fallbacks[m][l] # b

(* Of two ways the one that a depth-first search takes first: it is where the   *)
(* other goes on, or takes an earlier fallback where they part.                 *)
WayBefore(v, w) ==
  \/ IsStrictPrefix(v, w)
  \/ \E i \in 1 .. Len(v) - 1 :
       /\ i < Len(w)
       /\ \A j \in 1 .. i : v[j] = w[j]
       /\ FallbackBefore(v[i], v[i + 1], w[i + 1])

(* Models in the order of their first ways, the routes of one by priority. *)
ModelBefore(m, n) == \E v \in WaysTo(m) : \A w \in WaysTo(n) : WayBefore(v, w)

RouteBefore(r, s) ==
  IF ModelOf[r] = ModelOf[s] THEN Priority[r] < Priority[s]
  ELSE ModelBefore(ModelOf[r], ModelOf[s])

-----------------------------------------------------------------------------
(* Properties *)

(* The documented order of candidates: a plan has every eligible route of every *)
(* model that can be reached, once, and in the order source model, fallbacks by *)
(* priority, the fallbacks of each, whatever ways lead to a model.              *)
PlanIsOrdered ==
  result = "ok" =>
    /\ ToSet(output) = {r \in eligible : ModelOf[r] \in Reachable}
    /\ \A i, j \in DOMAIN output : i < j => RouteBefore(output[i], output[j])

(* FallbackCycle is returned exactly when some way from the requested model     *)
(* comes back to a model of its own: a model that two ways lead to is not taken *)
(* for a cycle.                                                                 *)
CyclesAreFound ==
  /\ result = "cycle" => \E way \in Ways : IsLoop(way)
  /\ result = "ok" => ~ \E way \in Ways : IsLoop(way)
=============================================================================
