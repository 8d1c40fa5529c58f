------------------------ MODULE CandidatePlan_proofs ------------------------
(***************************************************************************)
(* What candidate_plan returns, for fallback graphs of every size: when it *)
(* is FallbackCycle, and which routes a plan has in which order.           *)
(*                                                                         *)
(* Two arguments. For cycles, the models whose visit has returned form an  *)
(* order in which each comes after its fallbacks. For the plan, the active *)
(* calls part the ways into those ahead of the search and those it has     *)
(* behind it: what is not ahead is visited, and comes before all that is.  *)
(***************************************************************************)
EXTENDS CandidatePlan, AscendingOrder_proofs, SequenceTheorems, TLAPS

(* FallbackCycle is the result exactly when some way from the requested model   *)
(* comes back to a model of its own.                                            *)
CyclesAreDecided ==
  /\ result = "cycle" => \E way : IsLoop(way)
  /\ result = "ok" => ~ \E way : IsLoop(way)

-----------------------------------------------------------------------------
(* The inductive invariant *)

SearchTypes ==
  /\ fallbacks \in [Model -> Seq(Model)]
  /\ requested \in Model
  /\ stack \in Seq(Frame)
  /\ visited \subseteq Model
  /\ result \in Results

(* The models whose visit has returned, in the order in which it has: each      *)
(* comes after all of its fallbacks.                                            *)
IsOrder(order) ==
  /\ order \in Seq(Model)
  /\ \A i \in 1 .. Len(order) : \A m \in ToSet(fallbacks[order[i]]) :
       \E j \in 1 .. i - 1 : order[j] = m

(* The fallbacks of an active model are still to be looked at, have returned,   *)
(* or are being visited.                                                        *)
FallbacksAreSeen(order, i) ==
  \A m \in ToSet(fallbacks[stack[i].model]) :
    \/ m \in ToSet(stack[i].rest)
    \/ m \in ToSet(order)
    \/ i < Len(stack) /\ m = stack[i + 1].model

Searched(order) ==
  /\ IsOrder(order)
  /\ requested \in visited
  /\ \A m \in visited : m \in ToSet(order) \/ OnStack(m)
  /\ \A i \in 1 .. Len(stack) : FallbacksAreSeen(order, i)

(* The active calls are a way, and look at fallbacks only. *)
StackIsWay ==
  /\ stack # <<>> => stack[1].model = requested
  /\ \A i \in 1 .. Len(stack) - 1 :
       stack[i + 1].model \in ToSet(fallbacks[stack[i].model])
  /\ \A i \in 1 .. Len(stack) :
       ToSet(stack[i].rest) \subseteq ToSet(fallbacks[stack[i].model])

SearchInv ==
  /\ SearchTypes
  /\ result = "planning" => StackIsWay /\ \E order : Searched(order)
  /\ result = "ok" => \E order : IsOrder(order) /\ requested \in ToSet(order)
  /\ result = "cycle" => \E way : IsLoop(way)

-----------------------------------------------------------------------------
(* Where every model comes after its fallbacks, no way comes back *)

(* A way does not leave the models of an order. *)
LEMMA WaysStayInOrder ==
  ASSUME SearchTypes, NEW order, IsOrder(order), requested \in ToSet(order),
         NEW way, IsWay(way)
  PROVE  \A i \in 1 .. Len(way) : way[i] \in ToSet(order)
<1> DEFINE out == {i \in 1 .. Len(way) : way[i] \notin ToSet(order)}
<1>1. SUFFICES ASSUME out # {} PROVE FALSE
  OBVIOUS
<1>2. way \in Seq(Model) /\ Len(way) \in Nat
  BY DEF IsWay
<1>3. PICK i \in out : \A k \in out : i <= k
  <2>1. out \in SUBSET Nat
    BY <1>2
  <2> HIDE DEF out
  <2>2. QED
    BY <1>1, <2>1, SmallestOf
<1>4. i # 1
  BY DEF IsWay
<1>5. i - 1 \in 1 .. Len(way) - 1 /\ i - 1 \notin out
  BY <1>2, <1>3, <1>4
<1>6. way[i - 1] \in ToSet(order) /\ way[i] \in ToSet(fallbacks[way[i - 1]])
  BY <1>2, <1>5 DEF IsWay
<1>7. PICK j \in 1 .. Len(order) : order[j] = way[i - 1]
  BY <1>6 DEF IsOrder, ToSet
<1>8. PICK k \in 1 .. j - 1 : order[k] = way[i]
  BY <1>6, <1>7 DEF IsOrder
<1>9. k \in DOMAIN order
  BY <1>7, <1>8 DEF IsOrder
<1>10. QED
  BY <1>3, <1>8, <1>9 DEF ToSet

LEMMA NoLoopInOrder ==
  ASSUME SearchTypes, NEW order, IsOrder(order), requested \in ToSet(order)
  PROVE  ~ \E way : IsLoop(way)
<1>1. SUFFICES ASSUME NEW way, IsLoop(way) PROVE FALSE
  OBVIOUS
<1>2. IsWay(way) /\ way \in Seq(Model) /\ Len(way) \in Nat
  BY <1>1 DEF IsLoop, IsWay
<1>3. PICK back \in 1 .. Len(way) : way[back] \in ToSet(fallbacks[way[Len(way)]])
  BY <1>1 DEF IsLoop
<1> DEFINE places == {n \in 1 .. Len(order) :
                        \E i \in back .. Len(way) : way[i] = order[n]}
<1>4. order \in Seq(Model) /\ Len(order) \in Nat /\ DOMAIN order = 1 .. Len(order)
  BY DEF IsOrder
<1>5. places # {}
  <2>1. way[back] \in ToSet(order)
    BY <1>2, WaysStayInOrder
  <2>2. PICK n \in 1 .. Len(order) : order[n] = way[back]
    BY <1>4, <2>1 DEF ToSet
  <2>3. back \in back .. Len(way)
    BY <1>2
  <2>4. QED
    BY <2>2, <2>3
<1>6. PICK n \in places : \A k \in places : n <= k
  <2>1. places \in SUBSET Nat
    BY <1>4
  <2> HIDE DEF places
  <2>2. QED
    BY <1>5, <2>1, SmallestOf
<1>7. PICK i \in back .. Len(way) : way[i] = order[n]
  BY <1>6
<1>8. \E k \in back .. Len(way) : way[k] \in ToSet(fallbacks[way[i]])
  <2>1. CASE i = Len(way)
    BY <1>2, <1>3, <2>1
  <2>2. CASE i # Len(way)
    BY <1>2, <1>7, <2>2 DEF IsWay
  <2>3. QED
    BY <2>1, <2>2
<1>9. PICK k \in back .. Len(way) : way[k] \in ToSet(fallbacks[order[n]])
  BY <1>7, <1>8
<1>10. PICK j \in 1 .. n - 1 : order[j] = way[k]
  BY <1>4, <1>6, <1>9 DEF IsOrder
<1>11. j \in places /\ j < n
  BY <1>4, <1>6, <1>9, <1>10
<1>12. QED
  BY <1>4, <1>6, <1>11

-----------------------------------------------------------------------------
(* The steps of the search *)

LEMMA SearchInit == Init => SearchInv
BY DEF Init, SearchInv, SearchTypes, Results

LEMMA PlanKeeps ==
  ASSUME SearchInv, NEW m \in Model, NEW routes, Plan(m, routes)
  PROVE  SearchInv'
<1>1. SearchTypes /\ fallbacks' = fallbacks /\ requested' = m
  BY DEF SearchInv, Plan, config
<1>2. CASE result' = "unknown_model"
  BY <1>1, <1>2 DEF Plan, SearchInv, SearchTypes, Results
<1>3. CASE result' = "planning"
  <2> DEFINE frame == [model |-> m, rest |-> fallbacks[m]]
  <2>1. stack' = <<frame>> /\ visited' = {m}
    BY <1>3 DEF Plan
  <2>2. frame \in Frame
    BY <1>1 DEF SearchTypes, Frame
  <2>3. /\ stack' \in Seq(Frame) /\ Len(stack') = 1 /\ DOMAIN stack' = {1}
        /\ stack'[1].model = m /\ stack'[1].rest = fallbacks[m]
    BY <2>1, <2>2
  <2>4. SearchTypes'
    BY <1>1, <1>3, <2>1, <2>3 DEF SearchTypes, Results
  <2>5. StackIsWay'
    BY <1>1, <2>3 DEF StackIsWay
  <2>6. Searched(<<>>)'
    <3>1. IsOrder(<<>>)'
      BY DEF IsOrder
    <3>2. OnStack(m)'
      BY <2>3 DEF OnStack
    <3>3. \A i \in 1 .. Len(stack') : FallbacksAreSeen(<<>>, i)'
      BY <1>1, <2>3 DEF FallbacksAreSeen
    <3>4. QED
      BY <1>1, <2>1, <3>1, <3>2, <3>3 DEF Searched
  <2>7. QED
    BY <1>3, <2>4, <2>5, <2>6 DEF SearchInv
<1>4. QED
  BY <1>2, <1>3 DEF Plan

LEMMA ReturnKeeps ==
  ASSUME SearchInv, Return
  PROVE  SearchInv'
<1>1. /\ SearchTypes /\ StackIsWay /\ stack # <<>> /\ Last(stack).rest = <<>>
      /\ stack' = Front(stack) /\ result = "planning"
      /\ UNCHANGED <<fallbacks, requested, visited, result>>
  BY DEF SearchInv, Return, config, call
<1>2. PICK order : Searched(order)
  BY <1>1 DEF SearchInv
<1>0. PICK n, last, next :
        n = Len(stack) /\ last = stack[n].model /\ next = Append(order, last)
  OBVIOUS
<1>3. /\ stack \in Seq(Frame) /\ n \in Nat /\ n > 0 /\ stack[n] \in Frame
      /\ stack[n].rest = <<>> /\ last \in Model
  <2>1. stack \in Seq(Frame) /\ n \in Nat /\ n > 0
    BY <1>0, <1>1 DEF SearchTypes
  <2>2. stack[n] \in Frame
    BY <1>0, <2>1
  <2>3. QED
    BY <1>0, <1>1, <2>1, <2>2 DEF Last, Frame
<1>4. /\ stack' \in Seq(Frame) /\ Len(stack') = n - 1
      /\ \A i \in 1 .. n - 1 : stack'[i] = stack[i]
  <2>1. stack' = SubSeq(stack, 1, n - 1)
    BY <1>0, <1>1 DEF Front
  <2>2. QED
    BY <1>0, <1>3, <2>1
<1>5. order \in Seq(Model) /\ Len(order) \in Nat /\ DOMAIN order = 1 .. Len(order)
  BY <1>2 DEF Searched, IsOrder
<1>6. /\ next \in Seq(Model) /\ Len(next) = Len(order) + 1
      /\ next[Len(next)] = last
      /\ \A i \in 1 .. Len(order) : next[i] = order[i]
  BY <1>0, <1>3, <1>5
<1>7. ToSet(next) = ToSet(order) \union {last}
  BY <1>5, <1>6 DEF ToSet
<1>8. \A m \in ToSet(fallbacks[last]) : m \in ToSet(order)
  <2>1. FallbacksAreSeen(order, n)
    BY <1>0, <1>2, <1>3 DEF Searched
  <2>2. ToSet(<<>>) = {}
    BY DEF ToSet
  <2>3. QED
    BY <1>0, <1>3, <2>1, <2>2 DEF FallbacksAreSeen
<1>9. IsOrder(next)
  <2> SUFFICES ASSUME NEW i \in 1 .. Len(next), NEW m \in ToSet(fallbacks[next[i]])
               PROVE  \E j \in 1 .. i - 1 : next[j] = m
    BY <1>6 DEF IsOrder
  <2>1. CASE i = Len(next)
    <3>1. PICK j \in 1 .. Len(order) : order[j] = m
      <4>1. next[i] = last
        BY <1>6, <2>1
      <4>2. m \in ToSet(order)
        BY <1>8, <4>1
      <4>3. QED
        BY <1>5, <4>2 DEF ToSet
    <3>2. QED
      BY <1>5, <1>6, <2>1, <3>1
  <2>2. CASE i # Len(next)
    <3>1. i \in 1 .. Len(order) /\ next[i] = order[i]
      BY <1>5, <1>6, <2>2
    <3>2. PICK j \in 1 .. i - 1 : order[j] = m
      BY <1>2, <3>1 DEF Searched, IsOrder
    <3>3. QED
      BY <1>5, <1>6, <3>1, <3>2
  <2>3. QED
    BY <2>1, <2>2
<1>10. \A m \in visited : m \in ToSet(next) \/ OnStack(m)'
  <2> SUFFICES ASSUME NEW m \in visited, m \notin ToSet(next) PROVE OnStack(m)'
    OBVIOUS
  <2>1. OnStack(m) /\ m # last
    BY <1>2, <1>7 DEF Searched
  <2>2. PICK i \in 1 .. n : stack[i].model = m
    BY <1>0, <1>3, <2>1 DEF OnStack
  <2>3. i \in 1 .. n - 1 /\ i \in DOMAIN stack'
    BY <1>0, <1>3, <1>4, <2>1, <2>2
  <2>4. QED
    BY <1>4, <2>2, <2>3 DEF OnStack
<1>11. ASSUME NEW i \in 1 .. n - 1 PROVE FallbacksAreSeen(next, i)'
  <2>1. FallbacksAreSeen(order, i) /\ stack'[i] = stack[i]
    BY <1>0, <1>2, <1>3, <1>4 DEF Searched
  <2>2. CASE i = n - 1
    <3>1. i + 1 = n /\ i < Len(stack) /\ stack[i + 1].model = last
      BY <1>0, <1>3, <2>2
    <3>2. QED
      BY <1>1, <1>7, <2>1, <3>1 DEF FallbacksAreSeen
  <2>3. CASE i # n - 1
    <3>1. i + 1 \in 1 .. n - 1 /\ stack'[i + 1] = stack[i + 1]
      BY <1>3, <1>4, <2>3
    <3>2. QED
      <4>1. i < Len(stack')
        BY <1>3, <1>4, <3>1
      <4>2. QED
        BY <1>1, <1>7, <2>1, <3>1, <4>1 DEF FallbacksAreSeen
  <2>4. QED
    BY <2>2, <2>3
<1>12. Searched(next)'
  <2>1. IsOrder(next)'
    BY <1>1, <1>9 DEF IsOrder
  <2>2. requested' \in visited'
    BY <1>1, <1>2 DEF Searched
  <2>3. \A m \in visited' : m \in ToSet(next) \/ OnStack(m)'
    BY <1>1, <1>10
  <2>4. \A i \in 1 .. Len(stack') : FallbacksAreSeen(next, i)'
    BY <1>4, <1>11
  <2>5. QED
    BY <2>1, <2>2, <2>3, <2>4 DEF Searched
<1>13. StackIsWay'
  <2>1. stack' # <<>> => stack'[1].model = requested
    BY <1>0, <1>1, <1>3, <1>4 DEF StackIsWay
  <2>2. ASSUME NEW i \in 1 .. Len(stack') - 1
        PROVE  stack'[i + 1].model \in ToSet(fallbacks[stack'[i].model])
    <3>1. i \in 1 .. n - 1 /\ i + 1 \in 1 .. n - 1
      BY <1>3, <1>4
    <3>2. QED
      BY <1>0, <1>1, <1>3, <1>4, <3>1 DEF StackIsWay
  <2>3. ASSUME NEW i \in 1 .. Len(stack')
        PROVE  ToSet(stack'[i].rest) \subseteq ToSet(fallbacks[stack'[i].model])
    <3>1. i \in 1 .. Len(stack) /\ stack'[i] = stack[i]
      BY <1>0, <1>3, <1>4
    <3>2. QED
      BY <1>1, <3>1 DEF StackIsWay
  <2>4. QED
    BY <1>1, <2>1, <2>2, <2>3 DEF StackIsWay
<1>14. SearchTypes'
  BY <1>1, <1>4 DEF SearchTypes
<1>15. QED
  BY <1>1, <1>12, <1>13, <1>14 DEF SearchInv

LEMMA VisitKeeps ==
  ASSUME SearchInv, Visit
  PROVE  SearchInv'
<1>1. /\ SearchTypes /\ StackIsWay /\ stack # <<>> /\ Last(stack).rest # <<>>
      /\ result = "planning"
      /\ UNCHANGED <<fallbacks, requested>>
  BY DEF SearchInv, Visit, config, call
<1>2. PICK order : Searched(order)
  BY <1>1 DEF SearchInv
<1>0. PICK n, rest, m, kind : /\ n = Len(stack) /\ rest = stack[n].rest /\ m = Head(rest)
                              /\ kind = Meets(m)
  OBVIOUS
<1>3. stack \in Seq(Frame) /\ n \in Nat /\ n > 0 /\ DOMAIN stack = 1 .. n
  BY <1>0, <1>1 DEF SearchTypes
<1>4. /\ stack[n].model \in Model /\ rest \in Seq(Model) /\ rest # <<>>
      /\ stack[n] = [model |-> stack[n].model, rest |-> rest]
  <2>1. stack[n] \in Frame
    BY <1>3
  <2>2. QED
    BY <1>0, <1>1, <2>1 DEF Frame, Last
<1>5. /\ m \in Model /\ Tail(rest) \in Seq(Model)
      /\ ToSet(rest) = {m} \union ToSet(Tail(rest))
  <2>1. m = rest[1] /\ Len(rest) > 0 /\ Len(rest) \in Nat /\ DOMAIN rest = 1 .. Len(rest)
    BY <1>0, <1>4
  <2>2. /\ Tail(rest) \in Seq(Model) /\ Len(Tail(rest)) = Len(rest) - 1
        /\ DOMAIN Tail(rest) = 1 .. Len(rest) - 1
        /\ \A i \in 1 .. Len(rest) - 1 : Tail(rest)[i] = rest[i + 1]
    BY <1>4
  <2>3. ASSUME NEW i \in 1 .. Len(rest), i # 1 PROVE rest[i] \in ToSet(Tail(rest))
    <3>1. i - 1 \in 1 .. Len(rest) - 1 /\ (i - 1) + 1 = i
      BY <2>1, <2>3
    <3>2. Tail(rest)[i - 1] = rest[i]
      BY <2>2, <3>1
    <3>3. QED
      BY <2>2, <3>1, <3>2 DEF ToSet
  <2>4. ToSet(rest) \subseteq {m} \union ToSet(Tail(rest))
    <3> SUFFICES ASSUME NEW k \in ToSet(rest), k # m PROVE k \in ToSet(Tail(rest))
      OBVIOUS
    <3>1. PICK i \in 1 .. Len(rest) : rest[i] = k
      BY <2>1 DEF ToSet
    <3>2. QED
      BY <2>1, <2>3, <3>1
  <2>5. {m} \union ToSet(Tail(rest)) \subseteq ToSet(rest)
    BY <2>1, <2>2 DEF ToSet
  <2>6. m \in Model
    BY <1>4, <2>1
  <2>7. QED
    BY <2>2, <2>4, <2>5, <2>6
<1>6. m \in ToSet(fallbacks[stack[n].model])
  <2>1. n \in 1 .. Len(stack)
    BY <1>0, <1>3
  <2>2. ToSet(stack[n].rest) \subseteq ToSet(fallbacks[stack[n].model])
    BY <1>1, <2>1 DEF StackIsWay
  <2>3. QED
    BY <1>0, <1>5, <2>2
<1>7. PICK stays : stays = [stack EXCEPT ![n].rest = Tail(rest)]
  OBVIOUS
<1>8. /\ stays \in Seq(Frame) /\ Len(stays) = n
      /\ \A i \in 1 .. n : /\ stays[i].model = stack[i].model
                           /\ stays[i].rest = IF i = n THEN Tail(rest) ELSE stack[i].rest
  <2>1. \A i \in 1 .. n : stack[i] \in Frame
    BY <1>3
  <2>2. /\ [stack[n] EXCEPT !.rest = Tail(rest)] \in Frame
        /\ [stack[n] EXCEPT !.rest = Tail(rest)].model = stack[n].model
        /\ [stack[n] EXCEPT !.rest = Tail(rest)].rest = Tail(rest)
    <3>1. stack[n] \in Frame
      BY <1>3, <2>1
    <3>2. QED
      BY <1>5, <3>1 DEF Frame
  <2>3. stays = [stack EXCEPT ![n] = [stack[n] EXCEPT !.rest = Tail(rest)]]
    BY <1>7
  <2>4. stays \in Seq(Frame) /\ Len(stays) = n
    BY <1>0, <1>3, <2>2, <2>3
  <2>5. \A i \in 1 .. n : stays[i] = IF i = n THEN [stack[n] EXCEPT !.rest = Tail(rest)]
                                      ELSE stack[i]
    BY <1>3, <2>3
  <2>6. QED
    BY <2>2, <2>4, <2>5
<1>9. /\ stack' = IF kind = "new" THEN Append(stays, [model |-> m, rest |-> fallbacks[m]])
                  ELSE stays
      /\ visited' = visited \union {m}
      /\ result' = IF kind = "cycle" THEN "cycle" ELSE result
  BY <1>0, <1>7 DEF Visit, Last
<1>10. PICK pushed : pushed = Append(stays, [model |-> m, rest |-> fallbacks[m]])
  OBVIOUS
<1>11. /\ pushed \in Seq(Frame) /\ Len(pushed) = n + 1
       /\ pushed[n + 1].model = m /\ pushed[n + 1].rest = fallbacks[m]
       /\ \A i \in 1 .. n : pushed[i] = stays[i]
  <2>1. [model |-> m, rest |-> fallbacks[m]] \in Frame
    BY <1>1, <1>5 DEF SearchTypes, Frame
  <2>2. QED
    BY <1>3, <1>8, <1>10, <2>1
<1>12. SearchTypes'
  BY <1>1, <1>5, <1>8, <1>9, <1>10, <1>11 DEF SearchTypes, Results
<1>13. order \in Seq(Model) /\ IsOrder(order)'
  BY <1>1, <1>2 DEF Searched, IsOrder
<1>14. CASE kind = "cycle"
  <2> DEFINE way == [i \in 1 .. n |-> stack[i].model]
  <2>1. PICK k \in 1 .. n : stack[k].model = m
    BY <1>0, <1>3, <1>14 DEF Meets, OnStack
  <2>2. way \in Seq(Model) /\ Len(way) = n /\ \A i \in 1 .. n : way[i] = stack[i].model
    <3>1. \A i \in 1 .. n : stack[i].model \in Model
      <4>1. \A i \in 1 .. n : stack[i] \in Frame
        BY <1>3
      <4>2. QED
        BY <4>1 DEF Frame
    <3>2. QED
      BY <1>3, <3>1
  <2> HIDE DEF way
  <2>3. way[1] = requested /\ way # <<>>
    BY <1>1, <1>3, <2>2 DEF StackIsWay
  <2>4. \A i \in 1 .. n - 1 : way[i + 1] \in ToSet(fallbacks[way[i]])
    <3> SUFFICES ASSUME NEW i \in 1 .. n - 1 PROVE way[i + 1] \in ToSet(fallbacks[way[i]])
      OBVIOUS
    <3>1. i \in 1 .. n /\ i + 1 \in 1 .. n
      BY <1>3
    <3>2. QED
      BY <1>0, <1>1, <2>2, <3>1 DEF StackIsWay
  <2>5. way[k] \in ToSet(fallbacks[way[n]])
    BY <1>3, <1>6, <2>1, <2>2
  <2>6. IsLoop(way)
    BY <2>1, <2>2, <2>3, <2>4, <2>5 DEF IsLoop, IsWay
  <2>7. PICK loop : IsLoop(loop)
    BY <2>6
  <2>8. IsLoop(loop)'
    BY <1>1, <2>7 DEF IsLoop, IsWay
  <2>9. result' = "cycle"
    BY <1>9, <1>14
  <2>10. QED
    BY <1>12, <2>8, <2>9 DEF SearchInv
<1>15. CASE kind = "again"
  <2>1. stack' = stays /\ result' = "planning"
    BY <1>1, <1>9, <1>15
  <2>2. m \in visited /\ ~ OnStack(m)
    BY <1>0, <1>15 DEF Meets
  <2>3. m \in ToSet(order)
    BY <1>2, <2>2 DEF Searched
  <2>4. StackIsWay'
    <3>1. stack'[1].model = requested'
      BY <1>1, <1>3, <1>8, <2>1 DEF StackIsWay
    <3>2. ASSUME NEW i \in 1 .. n - 1
          PROVE  stays[i + 1].model \in ToSet(fallbacks[stays[i].model])
      <4>1. i \in 1 .. n /\ i + 1 \in 1 .. n
        BY <1>3
      <4>2. QED
        BY <1>0, <1>1, <1>8, <4>1 DEF StackIsWay
    <3>3. ASSUME NEW i \in 1 .. n
          PROVE  ToSet(stays[i].rest) \subseteq ToSet(fallbacks[stays[i].model])
      <4>1. CASE i = n
        BY <1>0, <1>1, <1>3, <1>5, <1>8, <4>1 DEF StackIsWay
      <4>2. CASE i # n
        BY <1>0, <1>1, <1>8, <4>2 DEF StackIsWay
      <4>3. QED
        BY <4>1, <4>2
    <3>4. QED
      BY <1>1, <1>8, <2>1, <3>1, <3>2, <3>3 DEF StackIsWay
  <2>5. \A k \in visited' : k \in ToSet(order) \/ OnStack(k)'
    <3> SUFFICES ASSUME NEW k \in visited', k \notin ToSet(order) PROVE OnStack(k)'
      OBVIOUS
    <3>1. OnStack(k)
      BY <1>2, <1>9, <2>3 DEF Searched
    <3>2. PICK i \in 1 .. n : stack[i].model = k
      BY <1>3, <3>1 DEF OnStack
    <3>3. QED
      BY <1>8, <2>1, <3>2 DEF OnStack
  <2>6. ASSUME NEW i \in 1 .. n PROVE FallbacksAreSeen(order, i)'
    <3>1. FallbacksAreSeen(order, i)
      BY <1>0, <1>2 DEF Searched
    <3>2. i < n => i + 1 \in 1 .. n
      BY <1>3
    <3>3. CASE i = n
      BY <1>0, <1>1, <1>3, <1>5, <1>8, <2>1, <2>3, <3>1, <3>3 DEF FallbacksAreSeen
    <3>4. CASE i # n
      BY <1>0, <1>1, <1>3, <1>8, <2>1, <3>1, <3>2, <3>4 DEF FallbacksAreSeen
    <3>5. QED
      BY <3>3, <3>4
  <2>7. requested' \in visited'
    BY <1>1, <1>2, <1>9 DEF Searched
  <2>8. Searched(order)'
    BY <1>8, <1>13, <2>1, <2>5, <2>6, <2>7 DEF Searched
  <2>9. QED
    BY <1>12, <2>1, <2>4, <2>8 DEF SearchInv
<1>16. CASE kind = "new"
  <2>1. stack' = pushed /\ result' = "planning"
    BY <1>1, <1>9, <1>10, <1>16
  <2>2. StackIsWay'
    <3>1. stack'[1].model = requested'
      BY <1>1, <1>3, <1>8, <1>11, <2>1 DEF StackIsWay
    <3>2. ASSUME NEW i \in 1 .. n
          PROVE  pushed[i + 1].model \in ToSet(fallbacks[pushed[i].model])
      <4>1. CASE i = n
        BY <1>3, <1>6, <1>8, <1>11, <4>1
      <4>2. CASE i # n
        <5>1. i + 1 \in 1 .. n /\ i \in 1 .. n - 1
          BY <1>3, <4>2
        <5>2. QED
          BY <1>0, <1>1, <1>8, <1>11, <5>1 DEF StackIsWay
      <4>3. QED
        BY <4>1, <4>2
    <3>3. ASSUME NEW i \in 1 .. n + 1
          PROVE  ToSet(pushed[i].rest) \subseteq ToSet(fallbacks[pushed[i].model])
      <4>1. CASE i = n + 1
        BY <1>11, <4>1
      <4>2. CASE i = n
        <5>1. n \in 1 .. n /\ n \in 1 .. Len(stack)
          BY <1>0, <1>3
        <5>2. ToSet(rest) \subseteq ToSet(fallbacks[stack[n].model])
          BY <1>0, <1>1, <5>1 DEF StackIsWay
        <5>3. pushed[n].rest = Tail(rest) /\ pushed[n].model = stack[n].model
          BY <1>8, <1>11, <5>1
        <5>4. QED
          BY <1>5, <4>2, <5>2, <5>3
      <4>3. CASE i \in 1 .. n /\ i # n
        BY <1>0, <1>1, <1>8, <1>11, <4>3 DEF StackIsWay
      <4>4. QED
        BY <1>3, <4>1, <4>2, <4>3
    <3>4. Len(stack') = n + 1 /\ (n + 1) - 1 = n
      BY <1>3, <1>11, <2>1
    <3>5. QED
      BY <1>1, <2>1, <3>1, <3>2, <3>3, <3>4 DEF StackIsWay
  <2>3. \A k \in visited' : k \in ToSet(order) \/ OnStack(k)'
    <3> SUFFICES ASSUME NEW k \in visited', k \notin ToSet(order) PROVE OnStack(k)'
      OBVIOUS
    <3>1. DOMAIN pushed = 1 .. n + 1
      BY <1>11
    <3>2. CASE k = m
      BY <1>3, <1>11, <2>1, <3>1, <3>2 DEF OnStack
    <3>3. CASE k # m
      <4>1. OnStack(k)
        BY <1>2, <1>9, <3>3 DEF Searched
      <4>2. PICK i \in 1 .. n : stack[i].model = k
        BY <1>3, <4>1 DEF OnStack
      <4>3. i \in 1 .. n + 1 /\ pushed[i].model = k
        BY <1>3, <1>8, <1>11, <4>2
      <4>4. QED
        BY <2>1, <3>1, <4>3 DEF OnStack
    <3>4. QED
      BY <3>2, <3>3
  <2>4. ASSUME NEW i \in 1 .. n + 1 PROVE FallbacksAreSeen(order, i)'
    <3>1. CASE i = n + 1
      BY <1>1, <1>11, <2>1, <3>1 DEF FallbacksAreSeen
    <3>2. CASE i = n
      <4>1. FallbacksAreSeen(order, n)
        BY <1>0, <1>2, <1>3 DEF Searched
      <4>2. \A k \in ToSet(fallbacks[stack[n].model]) :
              k = m \/ k \in ToSet(Tail(rest)) \/ k \in ToSet(order)
        BY <1>0, <1>3, <1>5, <4>1 DEF FallbacksAreSeen
      <4>3. /\ pushed[n].model = stack[n].model /\ pushed[n].rest = Tail(rest)
            /\ n < Len(pushed) /\ pushed[n + 1].model = m
        <5>1. n \in 1 .. n /\ n < n + 1
          BY <1>3
        <5>2. QED
          BY <1>8, <1>11, <5>1
      <4>4. QED
        BY <1>1, <2>1, <3>2, <4>2, <4>3 DEF FallbacksAreSeen
    <3>3. CASE i \in 1 .. n /\ i # n
      <4>1. FallbacksAreSeen(order, i)
        BY <1>0, <1>2, <3>3 DEF Searched
      <4>2. i + 1 \in 1 .. n /\ i < n /\ i < n + 1
        BY <1>3, <3>3
      <4>3. /\ pushed[i].model = stack[i].model /\ pushed[i].rest = stack[i].rest
            /\ pushed[i + 1].model = stack[i + 1].model
        BY <1>8, <1>11, <3>3, <4>2
      <4>4. QED
        BY <1>1, <1>11, <2>1, <4>1, <4>2, <4>3 DEF FallbacksAreSeen
    <3>4. QED
      BY <1>3, <3>1, <3>2, <3>3
  <2>5. requested' \in visited'
    BY <1>1, <1>2, <1>9 DEF Searched
  <2>6. Searched(order)'
    BY <1>11, <1>13, <2>1, <2>3, <2>4, <2>5 DEF Searched
  <2>7. QED
    BY <1>12, <2>1, <2>2, <2>6 DEF SearchInv
<1>17. kind \in {"cycle", "again", "new"}
  BY <1>0 DEF Meets
<1>18. QED
  BY <1>14, <1>15, <1>16, <1>17

LEMMA FinishKeeps ==
  ASSUME SearchInv, Finish
  PROVE  SearchInv'
<1>1. /\ SearchTypes /\ stack = <<>> /\ result' = "ok"
      /\ UNCHANGED <<fallbacks, requested, stack, visited>>
  BY DEF SearchInv, Finish, config, call
<1>2. PICK order : Searched(order)
  BY DEF SearchInv, Finish
<1>3. requested \in ToSet(order)
  BY <1>1, <1>2 DEF Searched, OnStack
<1>4. IsOrder(order)' /\ requested' \in ToSet(order)
  BY <1>1, <1>2, <1>3 DEF Searched, IsOrder
<1>5. QED
  BY <1>1, <1>4 DEF SearchInv, SearchTypes, Results

LEMMA SearchStep == SearchInv /\ [Next]_vars => SearchInv'
<1> SUFFICES ASSUME SearchInv, [Next]_vars PROVE SearchInv'
  OBVIOUS
<1>1. ASSUME NEW source \in Model, NEW target \in Model, AddFallback(source, target)
      PROVE  SearchInv'
  <2>1. fallbacks' \in [Model -> Seq(Model)]
    BY <1>1 DEF AddFallback, SearchInv, SearchTypes
  <2>2. QED
    BY <1>1, <2>1 DEF AddFallback, SearchInv, SearchTypes, call
<1>2. CASE UNCHANGED vars
  <2>1. UNCHANGED <<fallbacks, requested, stack, visited, result>>
    BY <1>2 DEF vars, config, call
  <2>2. SearchTypes'
    BY <2>1 DEF SearchInv, SearchTypes
  <2>3. result' = "planning" => StackIsWay' /\ \E order : Searched(order)'
    <3> SUFFICES ASSUME result = "planning"
                 PROVE  StackIsWay' /\ \E order : Searched(order)'
      BY <2>1
    <3>1. PICK order : Searched(order)
      BY DEF SearchInv
    <3>2. Searched(order)'
      BY <2>1, <3>1 DEF Searched, IsOrder, OnStack, FallbacksAreSeen
    <3>3. StackIsWay'
      BY <2>1 DEF SearchInv, StackIsWay
    <3>4. QED
      BY <3>2, <3>3
  <2>4. result' = "ok" => \E order : IsOrder(order)' /\ requested' \in ToSet(order)
    BY <2>1 DEF SearchInv, IsOrder
  <2>5. result' = "cycle" => \E way : IsLoop(way)'
    BY <2>1 DEF SearchInv, IsLoop, IsWay
  <2>6. QED
    BY <2>2, <2>3, <2>4, <2>5 DEF SearchInv
<1>3. QED
  BY <1>1, <1>2, PlanKeeps, VisitKeeps, ReturnKeeps, FinishKeeps DEF Next

(* candidate_plan reports a cycle exactly when one can be reached, whatever     *)
(* graph the calls of add_fallback have built: visiting and visited together    *)
(* tell a model that two ways lead to from one on a cycle.                      *)
THEOREM CyclesAreAlwaysDecided == Spec => []CyclesAreDecided
<1>1. SearchInv => CyclesAreDecided
  BY NoLoopInOrder DEF SearchInv, CyclesAreDecided
<1>2. QED
  BY <1>1, SearchInit, SearchStep, PTL DEF Spec

-----------------------------------------------------------------------------
(* The order of the plan *)

(* How many of its fallbacks an active call has taken, and which. *)
Position(i) == Len(fallbacks[stack[i].model]) - Len(stack[i].rest)
Taken(i)    == {fallbacks[stack[i].model][k] : k \in 1 .. Position(i)}

(* The models whose visit has returned. *)
Completed == {m \in visited : ~ OnStack(m)}

StackIsDistinct ==
  \A i, j \in 1 .. Len(stack) : stack[i].model = stack[j].model => i = j

(* An active call has the end of its fallbacks still to look at, waits for the  *)
(* one before it, and has completed all others.                                 *)
FrameIsSound(i) ==
  /\ stack[i].model \in visited
  /\ Position(i) \in 0 .. Len(fallbacks[stack[i].model])
  /\ \A k \in 1 .. Len(stack[i].rest) :
       stack[i].rest[k] = fallbacks[stack[i].model][Position(i) + k]
  /\ i < Len(stack) =>
       Position(i) > 0 /\ fallbacks[stack[i].model][Position(i)] = stack[i + 1].model
  /\ \A k \in 1 .. Position(i) :
       i = Len(stack) \/ k < Position(i) => fallbacks[stack[i].model][k] \in Completed

(* A way that the search has still to take: where it leaves the active calls it *)
(* goes to a model that the innermost of these has not taken.                   *)
Ahead(way) ==
  \E i \in 1 .. Len(stack) :
    /\ i < Len(way)
    /\ \A j \in 1 .. i : way[j] = stack[j].model
    /\ way[i + 1] \notin Taken(i)

FramesAreSound ==
  /\ requested \in visited
  /\ stack # <<>> => stack[1].model = requested
  /\ \A i \in 1 .. Len(stack) : FrameIsSound(i)
  /\ \A m \in Completed : ToSet(fallbacks[m]) \subseteq Completed

(* Every visited model has a way that is not ahead any more. *)
VisitedAreReached == \A m \in visited : \E way \in WaysTo(m) : ~ Ahead(way)

PlanIsSound ==
  /\ ToSet(output) = {r \in eligible : ModelOf[r] \in visited}
  /\ \A i, j \in DOMAIN output : i < j => RouteBefore(output[i], output[j])

OrderTypes ==
  /\ SearchTypes
  /\ eligible \in SUBSET Route
  /\ output \in Seq(Route)

OrderInv ==
  /\ OrderTypes
  /\ StackIsDistinct
  /\ result \in {"planning", "ok"} => FramesAreSound /\ VisitedAreReached /\ PlanIsSound
  /\ result = "ok" => stack = <<>>
  /\ result = "cycle" => \E way \in Ways : IsLoop(way)

-----------------------------------------------------------------------------
(* What the definitions say of sequences and ways *)

(* The routes of a model are sorted by priority, each of them once. *)
LEMMA ByPriorityIsSorted ==
  ASSUME NEW routes \in SUBSET Route,
         \A r, s \in routes : Priority[r] = Priority[s] => r = s
  PROVE  /\ ByPriority(routes) \in Seq(Route)
         /\ ToSet(ByPriority(routes)) = routes
         /\ \A i, j \in DOMAIN ByPriority(routes) :
              i < j => Priority[ByPriority(routes)[i]] < Priority[ByPriority(routes)[j]]
<1> DEFINE keys == {Priority[r] : r \in routes}
           sort == Ascending(keys)
           plan == ByPriority(routes)
           with == [r \in routes |-> Priority[r]]
<1>1. keys \in SUBSET Int
  BY ConstantsAssumption
<1>2. IsFiniteSet(keys)
  <2>1. IsFiniteSet(routes)
    BY ConstantsAssumption, FS_Subset
  <2>2. with \in Surjection(routes, keys)
    <3>1. with \in [routes -> keys] /\ \A k \in keys : \E r \in routes : with[r] = k
      OBVIOUS
    <3> HIDE DEF with, keys
    <3>2. QED
      BY <3>1, Fun_IsSurj
  <2> HIDE DEF with, keys
  <2>3. QED
    BY <2>1, <2>2, FS_Surjection
<1>3. plan = [i \in DOMAIN sort |-> CHOOSE r \in routes : Priority[r] = sort[i]]
  BY DEF ByPriority
<1>4. \A k \in keys : \E r \in routes : Priority[r] = k
  OBVIOUS
<1>5. \A r \in routes : Priority[r] \in keys
  OBVIOUS
<1> HIDE DEF keys, plan
<1>6. /\ Cardinality(keys) \in Nat
      /\ sort \in [1 .. Cardinality(keys) -> keys]
      /\ \A n \in keys : \E i \in 1 .. Cardinality(keys) : sort[i] = n
      /\ \A i, j \in 1 .. Cardinality(keys) : i < j => sort[i] < sort[j]
  BY <1>1, <1>2, AscendingIsSorted
<1> HIDE DEF sort
<1>7. DOMAIN plan = 1 .. Cardinality(keys)
  BY <1>3, <1>6
<1>8. \A i \in 1 .. Cardinality(keys) : plan[i] \in routes /\ Priority[plan[i]] = sort[i]
  <2> SUFFICES ASSUME NEW i \in 1 .. Cardinality(keys)
               PROVE  plan[i] \in routes /\ Priority[plan[i]] = sort[i]
    OBVIOUS
  <2>1. plan[i] = CHOOSE r \in routes : Priority[r] = sort[i]
    BY <1>3, <1>6
  <2>2. \E r \in routes : Priority[r] = sort[i]
    BY <1>4, <1>6
  <2>3. QED
    BY <2>1, <2>2
<1>9. plan \in Seq(Route)
  <2>1. plan \in [1 .. Cardinality(keys) -> Route]
    BY <1>3, <1>7, <1>8
  <2>2. QED
    BY <1>6, <2>1
<1>10. ASSUME NEW r \in routes PROVE r \in ToSet(plan)
  <2>1. PICK i \in 1 .. Cardinality(keys) : sort[i] = Priority[r]
    BY <1>5, <1>6
  <2>2. plan[i] = r
    BY <1>8, <2>1
  <2>3. QED
    BY <1>7, <2>2 DEF ToSet
<1>11. ToSet(plan) \subseteq routes
  BY <1>7, <1>8 DEF ToSet
<1>12. \A i, j \in DOMAIN plan : i < j => Priority[plan[i]] < Priority[plan[j]]
  BY <1>6, <1>7, <1>8
<1>13. ToSet(plan) = routes
  BY <1>10, <1>11
<1>14. QED
  BY <1>9, <1>12, <1>13 DEF plan

(* A sequence without repetitions is not longer than there are models. *)
LEMMA DistinctIsShort ==
  ASSUME NEW way \in Seq(Model),
         \A i, j \in 1 .. Len(way) : way[i] = way[j] => i = j
  PROVE  Len(way) <= Cardinality(Model)
<1>1. Len(way) \in Nat /\ way \in [1 .. Len(way) -> Model]
  OBVIOUS
<1>2. way \in Injection(1 .. Len(way), Model)
  BY <1>1, Fun_IsInj
<1>3. IsFiniteSet(Model)
  BY ConstantsAssumption
<1>4. Cardinality(1 .. Len(way)) <= Cardinality(Model)
  BY <1>2, <1>3, FS_Injection
<1>5. Cardinality(1 .. Len(way)) = Len(way)
  BY <1>1, FS_Interval
<1>6. QED
  BY <1>4, <1>5

LEMMA DistinctIsInWays ==
  ASSUME NEW way, IsWay(way), \A i, j \in 1 .. Len(way) : way[i] = way[j] => i = j
  PROVE  way \in Ways
<1>1. way \in Seq(Model) /\ Len(way) \in Nat /\ Len(way) # 0
  BY DEF IsWay
<1>2. Len(way) <= Cardinality(Model) /\ Cardinality(Model) \in Nat
  BY <1>1, DistinctIsShort, ConstantsAssumption, FS_CardinalityType
<1>3. Len(way) \in 1 .. Cardinality(Model) /\ way \in [1 .. Len(way) -> Model]
  BY <1>1, <1>2
<1>4. QED
  BY <1>3 DEF Ways

LEMMA WaysAreWays ==
  ASSUME NEW way \in Ways
  PROVE  IsWay(way) /\ way \in Seq(Model) /\ Len(way) \in Nat \ {0}
BY DEF Ways, IsWay

-----------------------------------------------------------------------------
(* Ways and the active calls *)

(* A way that is not ahead is before one that is.                               *)
LEMMA AheadIsLater ==
  ASSUME OrderTypes, FramesAreSound,
         NEW v, IsWay(v), ~ Ahead(v), NEW w, IsWay(w), Ahead(w)
  PROVE  WayBefore(v, w)
<1>1. PICK i \in 1 .. Len(stack) :
        /\ i < Len(w)
        /\ \A j \in 1 .. i : w[j] = stack[j].model
        /\ w[i + 1] \notin Taken(i)
  BY DEF Ahead
<1>2. /\ v \in Seq(Model) /\ Len(v) \in Nat \ {0} /\ v[1] = requested
      /\ w \in Seq(Model) /\ Len(w) \in Nat /\ w[1] = requested
      /\ Len(stack) \in Nat
  BY DEF IsWay, OrderTypes, SearchTypes
<1> DEFINE parts == {j \in 1 .. i : j <= Len(v) /\ v[j] # w[j]}
<1>3. CASE parts = {} /\ Len(v) <= i
  <2>1. Len(v) < Len(w) /\ \A j \in 1 .. Len(v) : v[j] = w[j]
    BY <1>1, <1>2, <1>3
  <2>2. SubSeq(v, 1, Len(v)) = SubSeq(w, 1, Len(v))
    BY <1>2, <2>1
  <2>3. IsStrictPrefix(v, w)
    BY <1>2, <2>1, <2>2 DEF IsStrictPrefix, IsPrefix
  <2>4. QED
    BY <2>3 DEF WayBefore
<1>4. CASE parts = {} /\ Len(v) > i
  <2>1. i < Len(v) /\ \A j \in 1 .. i : v[j] = w[j]
    BY <1>1, <1>2, <1>4
  <2>2. v[i + 1] \in Taken(i)
    BY <1>1, <2>1 DEF Ahead
  <2>3. PICK k \in 1 .. Position(i) : fallbacks[stack[i].model][k] = v[i + 1]
    BY <2>2 DEF Taken
  <2>4. Position(i) \in 0 .. Len(fallbacks[stack[i].model])
    BY <1>1 DEF FramesAreSound, FrameIsSound
  <2>5. v[i] = stack[i].model /\ v[i] \in Model
    BY <1>1, <1>2, <2>1
  <2>6. k \in DOMAIN fallbacks[v[i]]
    BY <2>3, <2>4, <2>5 DEF OrderTypes, SearchTypes
  <2>7. \A l \in 1 .. k : l \in 1 .. Position(i)
    BY <2>3, <2>4
  <2>8. \A l \in 1 .. k : fallbacks[v[i]][l] # w[i + 1]
    BY <1>1, <2>5, <2>7 DEF Taken
  <2>9. FallbackBefore(v[i], v[i + 1], w[i + 1])
    BY <2>3, <2>5, <2>6, <2>8 DEF FallbackBefore
  <2>10. i \in 1 .. Len(v) - 1
    BY <1>1, <1>2, <2>1
  <2>11. QED
    BY <1>1, <2>1, <2>9, <2>10 DEF WayBefore
<1>5. CASE parts # {}
  <2>1. PICK j \in parts : \A l \in parts : j <= l
    <3>1. parts \in SUBSET Nat
      OBVIOUS
    <3> HIDE DEF parts
    <3>2. QED
      BY <1>5, <3>1, SmallestOf
  <2>2. j # 1
    BY <1>2, <2>1
  <2>3. PICK h \in 1 .. i - 1 : j = h + 1
    <3>1. j - 1 \in 1 .. i - 1 /\ j = (j - 1) + 1
      BY <1>2, <2>1, <2>2
    <3>2. QED
      BY <3>1
  <2>4. h < Len(v) /\ h < Len(w) /\ h < Len(stack) /\ h \in 1 .. Len(stack) /\ j \in 1 .. i
    BY <1>1, <1>2, <2>1, <2>3
  <2>5. \A l \in 1 .. h : v[l] = w[l] /\ w[l] = stack[l].model
    BY <1>1, <1>2, <2>1, <2>3, <2>4
  <2>6. v[h + 1] \in Taken(h)
    BY <2>4, <2>5 DEF Ahead
  <2>7. PICK k \in 1 .. Position(h) : fallbacks[stack[h].model][k] = v[h + 1]
    BY <2>6 DEF Taken
  <2>8. FrameIsSound(h)
    BY <2>4 DEF FramesAreSound
  <2>9. w[h + 1] = stack[h + 1].model /\ v[h + 1] # w[h + 1]
    BY <1>1, <2>1, <2>3, <2>4
  <2>10. fallbacks[stack[h].model][Position(h)] = w[h + 1]
    BY <2>4, <2>8, <2>9 DEF FrameIsSound
  <2>11. Position(h) \in 0 .. Len(fallbacks[stack[h].model])
    BY <2>8 DEF FrameIsSound
  <2>12. Position(h) \in Nat /\ k < Position(h)
    <3>1. k # Position(h)
      BY <2>7, <2>9, <2>10
    <3>2. QED
      BY <2>7, <2>11, <3>1
  <2>13. w[h + 1] \notin Completed
    <3>1. h + 1 \in DOMAIN stack
      BY <1>2, <2>4 DEF OrderTypes, SearchTypes
    <3>2. QED
      BY <2>9, <3>1 DEF Completed, OnStack
  <2>14. ASSUME NEW l \in 1 .. k PROVE fallbacks[stack[h].model][l] # w[h + 1]
    <3>1. l \in 1 .. Position(h) /\ l < Position(h)
      BY <2>7, <2>12
    <3>2. fallbacks[stack[h].model][l] \in Completed
      BY <2>8, <3>1 DEF FrameIsSound
    <3>3. QED
      BY <2>13, <3>2
  <2>15. v[h] = stack[h].model /\ v[h] \in Model
    <3>1. h \in 1 .. h /\ h \in 1 .. Len(v)
      BY <1>2, <2>4
    <3>2. v[h] = stack[h].model
      BY <2>5, <3>1
    <3>3. v[h] \in Model
      BY <1>2, <3>1
    <3>4. QED
      BY <3>2, <3>3
  <2>16. k \in DOMAIN fallbacks[v[h]]
    BY <2>7, <2>11, <2>15 DEF OrderTypes, SearchTypes
  <2>17. FallbackBefore(v[h], v[h + 1], w[h + 1])
    BY <2>7, <2>14, <2>15, <2>16 DEF FallbackBefore
  <2>18. h \in 1 .. Len(v) - 1
    BY <1>2, <2>4
  <2>19. QED
    BY <2>4, <2>5, <2>17, <2>18 DEF WayBefore
<1>6. QED
  BY <1>2, <1>3, <1>4, <1>5

(* A way does not leave a set of models that has all of their fallbacks. *)
LEMMA ClosedIsNotLeft ==
  ASSUME NEW C, \A m \in C : ToSet(fallbacks[m]) \subseteq C,
         NEW way, IsWay(way), NEW j \in 1 .. Len(way), way[j] \in C
  PROVE  Last(way) \in C
<1>1. way \in Seq(Model) /\ Len(way) \in Nat
  BY DEF IsWay
<1> DEFINE out == {k \in j .. Len(way) : way[k] \notin C}
<1>2. CASE out = {}
  <2>1. Len(way) \in j .. Len(way)
    BY <1>1
  <2>2. QED
    BY <1>2, <2>1 DEF Last
<1>3. CASE out # {}
  <2>1. PICK k \in out : \A l \in out : k <= l
    <3>1. out \in SUBSET Nat
      BY <1>1
    <3> HIDE DEF out
    <3>2. QED
      BY <1>3, <3>1, SmallestOf
  <2>2. k # j
    OBVIOUS
  <2>3. k - 1 \in j .. Len(way) /\ k - 1 \in 1 .. Len(way) - 1 /\ (k - 1) + 1 = k
    BY <1>1, <2>1, <2>2
  <2>4. way[k - 1] \in C
    BY <1>1, <2>1, <2>3
  <2>5. way[k] \in ToSet(fallbacks[way[k - 1]])
    BY <2>3 DEF IsWay
  <2>6. QED
    BY <2>1, <2>4, <2>5
<1>4. QED
  BY <1>2, <1>3

(* What is not ahead has been visited. *)
LEMMA NotAheadIsVisited ==
  ASSUME OrderTypes, FramesAreSound, NEW way, IsWay(way), ~ Ahead(way)
  PROVE  Last(way) \in visited
<1>1. /\ way \in Seq(Model) /\ Len(way) \in Nat \ {0} /\ way[1] = requested
      /\ Len(stack) \in Nat /\ DOMAIN stack = 1 .. Len(stack)
  BY DEF IsWay, OrderTypes, SearchTypes
<1> DEFINE off == {j \in 1 .. Len(way) : j > Len(stack) \/ way[j] # stack[j].model}
<1>2. CASE off = {}
  <2>1. Len(way) \in 1 .. Len(stack) /\ way[Len(way)] = stack[Len(way)].model
    BY <1>1, <1>2
  <2>2. QED
    BY <2>1 DEF FramesAreSound, FrameIsSound, Last
<1>3. CASE off # {}
  <2>1. PICK j \in off : \A l \in off : j <= l
    <3>1. off \in SUBSET Nat
      BY <1>1
    <3> HIDE DEF off
    <3>2. QED
      BY <1>3, <3>1, SmallestOf
  <2>2. CASE j = 1
    <3>1. Len(stack) = 0
      <4>1. Len(stack) # 0 => stack # <<>>
        OBVIOUS
      <4>2. Len(stack) # 0 => stack[1].model = way[1]
        BY <1>1, <4>1 DEF FramesAreSound
      <4>3. QED
        BY <1>1, <2>1, <2>2, <4>2
    <3>2. way[1] \in Completed
      BY <1>1, <3>1 DEF FramesAreSound, Completed, OnStack
    <3>3. Last(way) \in Completed
      BY <1>1, <3>2, ClosedIsNotLeft DEF FramesAreSound
    <3>4. QED
      BY <3>3 DEF Completed
  <2>3. CASE j # 1
    <3>1. PICK h \in 1 .. Len(way) : j = h + 1
      <4>1. j - 1 \in 1 .. Len(way) /\ j = (j - 1) + 1
        BY <1>1, <2>1, <2>3
      <4>2. QED
        BY <4>1
    <3>2. h < Len(way) /\ h \in 1 .. Len(stack) /\ \A l \in 1 .. h : way[l] = stack[l].model
      BY <1>1, <2>1, <3>1
    <3>3. way[h + 1] \in Taken(h)
      BY <3>2 DEF Ahead
    <3>4. PICK k \in 1 .. Position(h) : fallbacks[stack[h].model][k] = way[h + 1]
      BY <3>3 DEF Taken
    <3>5. FrameIsSound(h)
      BY <3>2 DEF FramesAreSound
    <3>6. h = Len(stack) \/ k < Position(h)
      <4>1. SUFFICES ASSUME h # Len(stack) PROVE k < Position(h)
        OBVIOUS
      <4>2. h < Len(stack) /\ h + 1 \in 1 .. Len(stack)
        <5> HIDE DEF off
        <5>1. h \in Nat /\ h <= Len(stack) /\ h > 0
          BY <1>1, <3>2
        <5>2. Len(stack) \in Nat
          BY <1>1
        <5>3. QED
          BY <4>1, <5>1, <5>2
      <4>3. way[h + 1] # stack[h + 1].model
        BY <1>1, <2>1, <3>1, <4>2
      <4>4. k # Position(h)
        BY <3>4, <3>5, <4>2, <4>3 DEF FrameIsSound
      <4>5. Position(h) \in Nat
        BY <3>5 DEF FrameIsSound
      <4>6. QED
        BY <3>4, <4>4, <4>5
    <3>7. way[h + 1] \in Completed
      BY <3>4, <3>5, <3>6 DEF FrameIsSound
    <3>8. Last(way) \in Completed
      BY <2>1, <3>1, <3>7, ClosedIsNotLeft DEF FramesAreSound
    <3>9. QED
      BY <3>8 DEF Completed
  <2>4. QED
    BY <2>2, <2>3
<1>4. QED
  BY <1>2, <1>3

(* The active calls are a way, and it is not ahead. *)
StackHasWay ==
  \E way \in WaysTo(stack[Len(stack)].model) :
    /\ Len(way) = Len(stack) /\ \A i \in 1 .. Len(stack) : way[i] = stack[i].model
    /\ ~ Ahead(way)

LEMMA StackIsReached ==
  OrderTypes /\ StackIsDistinct /\ FramesAreSound /\ stack # <<>> => StackHasWay
<1> SUFFICES ASSUME OrderTypes, StackIsDistinct, FramesAreSound, stack # <<>>
             PROVE  StackHasWay
  OBVIOUS
<1> DEFINE n   == Len(stack)
           way == [i \in 1 .. n |-> stack[i].model]
<1>1. n \in Nat /\ n > 0 /\ stack \in Seq(Frame) /\ \A i \in 1 .. n : stack[i] \in Frame
  BY DEF OrderTypes, SearchTypes
<1>2. way \in Seq(Model) /\ Len(way) = n /\ \A i \in 1 .. n : way[i] = stack[i].model
  <2>1. \A i \in 1 .. n : stack[i].model \in Model
    BY <1>1 DEF Frame
  <2> HIDE DEF n
  <2>2. QED
    BY <1>1, <2>1
<1> HIDE DEF way
<1>3. ASSUME NEW i \in 1 .. n - 1
      PROVE  /\ Position(i) \in 1 .. Len(fallbacks[stack[i].model])
             /\ fallbacks[stack[i].model][Position(i)] = stack[i + 1].model
  <2>1. i \in 1 .. n /\ i < n
    BY <1>1
  <2>2. FrameIsSound(i)
    BY <2>1 DEF FramesAreSound
  <2>3. QED
    BY <2>1, <2>2 DEF FrameIsSound
<1>4. IsWay(way)
  <2>1. way # <<>> /\ way[1] = requested
    BY <1>1, <1>2 DEF FramesAreSound
  <2>2. ASSUME NEW i \in 1 .. Len(way) - 1 PROVE way[i + 1] \in ToSet(fallbacks[way[i]])
    <3>1. i \in 1 .. n - 1 /\ i \in 1 .. n /\ i + 1 \in 1 .. n
      BY <1>1, <1>2
    <3>2. stack[i].model \in Model
      BY <1>2, <3>1
    <3>3. Position(i) \in DOMAIN fallbacks[stack[i].model]
      BY <1>3, <3>1, <3>2 DEF OrderTypes, SearchTypes
    <3>4. stack[i + 1].model \in ToSet(fallbacks[stack[i].model])
      BY <1>3, <3>1, <3>3 DEF ToSet
    <3>5. QED
      BY <1>2, <3>1, <3>4
  <2>3. QED
    BY <1>2, <2>1, <2>2 DEF IsWay
<1>5. way \in Ways
  BY <1>2, <1>4, DistinctIsInWays DEF StackIsDistinct
<1>6. ~ Ahead(way)
  <2> SUFFICES ASSUME NEW i \in 1 .. n, i < Len(way) PROVE way[i + 1] \in Taken(i)
    BY DEF Ahead
  <2>1. i \in 1 .. n - 1 /\ i + 1 \in 1 .. n
    BY <1>1, <1>2
  <2>2. /\ Position(i) \in 1 .. Position(i)
        /\ fallbacks[stack[i].model][Position(i)] = way[i + 1]
    BY <1>2, <1>3, <2>1
  <2>3. QED
    BY <2>2 DEF Taken
<1>7. Last(way) = stack[n].model
  BY <1>1, <1>2 DEF Last
<1>8. QED
  BY <1>2, <1>5, <1>6, <1>7 DEF WaysTo, StackHasWay

-----------------------------------------------------------------------------
(* What a step of the search does to the active calls *)

Visits(n, next) ==
  /\ n = Len(stack) /\ n > 0
  /\ stack[n].rest # <<>> /\ next = stack[n].rest[1]
  /\ \A i \in 1 .. n : stack'[i].model = stack[i].model
  /\ \A i \in 1 .. n - 1 : stack'[i].rest = stack[i].rest
  /\ stack'[n].rest = Tail(stack[n].rest)
  /\ visited' = visited \union {next}
  /\ IF Meets(next) = "new"
       THEN /\ Len(stack') = n + 1
            /\ stack'[n + 1].model = next /\ stack'[n + 1].rest = fallbacks[next]
            /\ output' = output \o RoutesOf(next)
       ELSE Len(stack') = n /\ output' = output
  /\ result' = IF Meets(next) = "cycle" THEN "cycle" ELSE "planning"

LEMMA VisitVisits ==
  ASSUME SearchTypes, Visit
  PROVE  \E n \in Nat, next \in Model : Visits(n, next)
<1> DEFINE n     == Len(stack)
           rest  == stack[n].rest
           next  == Head(rest)
           top   == [stack[n] EXCEPT !.rest = Tail(rest)]
           stays == [stack EXCEPT ![n].rest = Tail(rest)]
           frame == [model |-> next, rest |-> fallbacks[next]]
<1>1. /\ stack # <<>> /\ rest # <<>> /\ result = "planning"
      /\ stack' = IF Meets(next) = "new" THEN Append(stays, frame) ELSE stays
      /\ visited' = visited \union {next}
      /\ output' = IF Meets(next) = "new" THEN output \o RoutesOf(next) ELSE output
      /\ result' = IF Meets(next) = "cycle" THEN "cycle" ELSE result
  BY DEF Visit, Last
<1>2. stack \in Seq(Frame) /\ n \in Nat /\ n > 0 /\ stack[n] \in Frame
  <2>1. stack \in Seq(Frame) /\ n \in Nat /\ n > 0
    BY <1>1 DEF SearchTypes
  <2>2. QED
    BY <2>1
<1>3. rest \in Seq(Model) /\ next = rest[1] /\ next \in Model /\ Tail(rest) \in Seq(Model)
  <2>1. rest \in Seq(Model) /\ rest # <<>>
    BY <1>1, <1>2 DEF Frame
  <2> HIDE DEF rest
  <2>2. QED
    BY <2>1
<1>4. top \in Frame /\ top.model = stack[n].model /\ top.rest = Tail(rest)
  BY <1>2, <1>3 DEF Frame
<1>5. stays = [stack EXCEPT ![n] = top]
  OBVIOUS
<1>6. frame \in Frame
  BY <1>3 DEF SearchTypes, Frame
<1>7. frame.model = next /\ frame.rest = fallbacks[next]
  OBVIOUS
<1> HIDE DEF n, rest, next, top, stays, frame
<1>8. /\ stays \in Seq(Frame) /\ Len(stays) = n
      /\ \A i \in 1 .. n : stays[i] = IF i = n THEN top ELSE stack[i]
  BY <1>2, <1>4, <1>5 DEF n
<1>9. /\ Len(Append(stays, frame)) = n + 1
      /\ Append(stays, frame)[n + 1] = frame
      /\ \A i \in 1 .. n : Append(stays, frame)[i] = stays[i]
  BY <1>2, <1>6, <1>8
<1>10. \A i \in 1 .. n : stack'[i] = IF i = n THEN top ELSE stack[i]
  BY <1>1, <1>8, <1>9
<1>11. n \in 1 .. n /\ \A i \in 1 .. n - 1 : i \in 1 .. n /\ i # n
  BY <1>2
<1>12. /\ \A i \in 1 .. n : stack'[i].model = stack[i].model
       /\ \A i \in 1 .. n - 1 : stack'[i].rest = stack[i].rest
       /\ stack'[n].rest = Tail(rest)
  BY <1>4, <1>10, <1>11
<1>13. IF Meets(next) = "new"
         THEN /\ Len(stack') = n + 1
              /\ stack'[n + 1].model = next /\ stack'[n + 1].rest = fallbacks[next]
              /\ output' = output \o RoutesOf(next)
         ELSE Len(stack') = n /\ output' = output
  BY <1>1, <1>7, <1>8, <1>9
<1>14. Visits(n, next)
  BY <1>1, <1>2, <1>3, <1>12, <1>13 DEF Visits, n, rest
<1>15. QED
  BY <1>2, <1>3, <1>14

LEMMA ReturnPops ==
  ASSUME SearchTypes, Return
  PROVE  \E n \in Nat : /\ n = Len(stack) /\ n > 0 /\ stack[n].rest = <<>>
                        /\ Len(stack') = n - 1
                        /\ \A i \in 1 .. n - 1 : stack'[i] = stack[i]
<1>1. stack \in Seq(Frame) /\ Len(stack) \in Nat /\ Len(stack) > 0
  BY DEF SearchTypes, Return
<1>2. stack' = SubSeq(stack, 1, Len(stack) - 1) /\ stack[Len(stack)].rest = <<>>
  BY DEF Return, Front, Last
<1>3. PICK n \in Nat : n = Len(stack) /\ n > 0
  BY <1>1
<1>4. Len(stack') = n - 1 /\ \A i \in 1 .. n - 1 : stack'[i] = stack[i]
  BY <1>1, <1>2, <1>3
<1>5. QED
  BY <1>2, <1>3, <1>4

(* A fallback that the innermost call takes is one of its model's. *)
LEMMA NextIsFallback ==
  ASSUME OrderTypes, FramesAreSound, NEW n \in Nat, NEW next \in Model, Visits(n, next)
  PROVE  /\ Position(n) \in Nat /\ Position(n) + 1 \in 1 .. Len(fallbacks[stack[n].model])
         /\ fallbacks[stack[n].model][Position(n) + 1] = next
         /\ next \in ToSet(fallbacks[stack[n].model])
<1>1. n \in 1 .. Len(stack) /\ stack \in Seq(Frame)
  BY DEF Visits, OrderTypes, SearchTypes
<1>2. stack[n] \in Frame
  BY <1>1
<1>3. FrameIsSound(n)
  BY <1>1 DEF FramesAreSound
<1>4. stack[n].rest \in Seq(Model) /\ Len(stack[n].rest) \in Nat /\ Len(stack[n].rest) > 0
  BY <1>2 DEF Frame, Visits
<1>5. fallbacks[stack[n].model] \in Seq(Model)
  BY <1>2 DEF OrderTypes, SearchTypes, Frame
<1>6. Position(n) \in Nat /\ Position(n) + 1 \in 1 .. Len(fallbacks[stack[n].model])
  <2>1. Position(n) \in 0 .. Len(fallbacks[stack[n].model])
    BY <1>3 DEF FrameIsSound
  <2>2. Position(n) = Len(fallbacks[stack[n].model]) - Len(stack[n].rest)
    BY DEF Position
  <2>3. PICK p \in Nat, l \in Nat, r \in Nat :
          /\ l = Len(fallbacks[stack[n].model]) /\ r = Len(stack[n].rest) /\ r > 0
          /\ p = Position(n)
    BY <1>4, <1>5, <2>1
  <2>4. p = l - r /\ r > 0
    BY <2>2, <2>3
  <2>5. p + 1 \in 1 .. l
    BY <2>4
  <2>6. QED
    BY <2>3, <2>5
<1>7. 1 \in 1 .. Len(stack[n].rest)
  BY <1>4
<1>8. fallbacks[stack[n].model][Position(n) + 1] = next
  BY <1>3, <1>7 DEF FrameIsSound, Visits
<1>9. Position(n) + 1 \in DOMAIN fallbacks[stack[n].model]
  BY <1>5, <1>6
<1>10. QED
  BY <1>6, <1>8, <1>9 DEF ToSet

(* After a step of the innermost call all active calls are sound again, when    *)
(* the model that it met is completed or is being visited now.                  *)
LEMMA FramesStaySound ==
  ASSUME OrderTypes, FramesAreSound, UNCHANGED fallbacks,
         NEW n \in Nat, NEW next \in Model, Visits(n, next),
         Completed' = Completed,
         Meets(next) = "new" \/ (Meets(next) = "again" /\ next \in Completed)
  PROVE  \A i \in 1 .. Len(stack') : FrameIsSound(i)'
<1>1. /\ n = Len(stack) /\ n > 0 /\ n \in 1 .. n
      /\ \A i \in 1 .. n - 1 : i \in 1 .. n /\ i # n /\ i < n /\ i + 1 \in 1 .. n
  BY DEF Visits
<1>2. \A i \in 1 .. n : stack[i] \in Frame
  BY <1>1 DEF OrderTypes, SearchTypes
<1>3. ASSUME NEW i \in 1 .. n
      PROVE  /\ stack[i].rest \in Seq(Model) /\ Len(stack[i].rest) \in Nat
             /\ fallbacks[stack[i].model] \in Seq(Model)
             /\ Len(fallbacks[stack[i].model]) \in Nat
             /\ FrameIsSound(i)
  <2>1. stack[i] \in Frame
    BY <1>2
  <2>2. stack[i].rest \in Seq(Model) /\ stack[i].model \in Model
    BY <2>1 DEF Frame
  <2>3. FrameIsSound(i)
    BY <1>1 DEF FramesAreSound
  <2>4. QED
    BY <2>2, <2>3 DEF OrderTypes, SearchTypes
<1>4. /\ Tail(stack[n].rest) \in Seq(Model)
      /\ Len(Tail(stack[n].rest)) = Len(stack[n].rest) - 1
      /\ \A k \in 1 .. Len(stack[n].rest) - 1 : Tail(stack[n].rest)[k] = stack[n].rest[k + 1]
  <2>1. stack[n].rest \in Seq(Model) /\ stack[n].rest # <<>>
    BY <1>1, <1>3 DEF Visits
  <2>2. QED
    BY <2>1
<1>5. /\ Position(n)' = Position(n) + 1
      /\ \A i \in 1 .. n - 1 : Position(i)' = Position(i)
  <2>1. Position(n)' = Len(fallbacks[stack[n].model]) - (Len(stack[n].rest) - 1)
    BY <1>1, <1>4 DEF Position, Visits
  <2>2. Position(n)' = Position(n) + 1
    <3>1. Position(n) = Len(fallbacks[stack[n].model]) - Len(stack[n].rest)
      BY DEF Position
    <3>2. Len(fallbacks[stack[n].model]) \in Nat /\ Len(stack[n].rest) \in Nat
      BY <1>1, <1>3
    <3>3. QED
      BY <2>1, <3>1, <3>2
  <2>3. \A i \in 1 .. n - 1 : Position(i)' = Position(i)
    BY <1>1 DEF Position, Visits
  <2>4. QED
    BY <2>2, <2>3
<1>6. ASSUME NEW i \in 1 .. n - 1 PROVE FrameIsSound(i)'
  <2>1. FrameIsSound(i) /\ i \in 1 .. n /\ i < n /\ i + 1 \in 1 .. n
    BY <1>1, <1>3
  <2>2. /\ stack'[i].model = stack[i].model /\ stack'[i].rest = stack[i].rest
        /\ stack'[i + 1].model = stack[i + 1].model
        /\ Position(i)' = Position(i) /\ i < Len(stack') /\ i # Len(stack')
    BY <1>1, <1>5, <2>1 DEF Visits
  <2>3. stack[i].model \in visited'
    BY <2>1 DEF FrameIsSound, Visits
  <2>4. QED
    BY <1>1, <2>1, <2>2, <2>3 DEF FrameIsSound
<1>7. FrameIsSound(n)'
  <2>1. FrameIsSound(n)
    BY <1>1, <1>3
  <2> DEFINE fb   == fallbacks[stack[n].model]
             rest == stack[n].rest
  <2>2. stack'[n].model = stack[n].model /\ stack'[n].rest = Tail(rest)
    BY <1>1 DEF Visits
  <2>3. stack'[n].model \in visited'
    BY <2>1, <2>2 DEF FrameIsSound, Visits
  <2>4. /\ Position(n) \in Nat /\ Position(n) + 1 \in 1 .. Len(fb)
        /\ fb[Position(n) + 1] = next
    BY NextIsFallback
  <2>5. ASSUME NEW k \in 1 .. Len(rest) - 1
        PROVE  Tail(rest)[k] = fb[(Position(n) + 1) + k]
    <3>1. Tail(rest)[k] = rest[k + 1] /\ k + 1 \in 1 .. Len(rest)
      BY <1>1, <1>3, <1>4
    <3>2. rest[k + 1] = fb[Position(n) + (k + 1)]
      BY <2>1, <3>1 DEF FrameIsSound
    <3>3. Position(n) + (k + 1) = (Position(n) + 1) + k
      BY <2>4
    <3>4. QED
      BY <3>1, <3>2, <3>3
  <2>6. n < Len(stack') => stack'[n + 1].model = next
    BY <1>1 DEF Visits
  <2>7. ASSUME NEW k \in 1 .. Position(n) + 1, n = Len(stack') \/ k < Position(n) + 1
        PROVE  fb[k] \in Completed'
    <3>1. CASE k = Position(n) + 1
      <4>1. n = Len(stack')
        BY <2>4, <2>7, <3>1
      <4>2. Meets(next) = "again"
        BY <1>1, <4>1 DEF Visits
      <4>3. QED
        BY <2>4, <3>1, <4>2
    <3>2. CASE k # Position(n) + 1
      <4>1. k \in 1 .. Position(n)
        BY <2>4, <3>2
      <4>2. QED
        BY <1>1, <2>1, <4>1 DEF FrameIsSound
    <3>3. QED
      BY <3>1, <3>2
  <2>8. Len(stack'[n].rest) = Len(rest) - 1
    BY <1>4, <2>2
  <2>9. fallbacks'[stack'[n].model] = fb
    BY <2>2
  <2> HIDE DEF fb, rest
  <2>10. Position(n)' \in 0 .. Len(fb) /\ Position(n)' > 0
    BY <1>5, <2>4
  <2>11. \A k \in 1 .. Len(stack'[n].rest) : stack'[n].rest[k] = fb[Position(n)' + k]
    BY <1>5, <2>2, <2>5, <2>8
  <2>12. n < Len(stack') => fb[Position(n)'] = stack'[n + 1].model
    BY <1>5, <2>4, <2>6
  <2>13. \A k \in 1 .. Position(n)' :
           n = Len(stack') \/ k < Position(n)' => fb[k] \in Completed'
    BY <1>5, <2>7
  <2>14. QED
    BY <2>3, <2>9, <2>10, <2>11, <2>12, <2>13 DEF FrameIsSound
<1>8. CASE Meets(next) = "new"
  <2>1. Len(stack') = n + 1 /\ stack'[n + 1].model = next /\ stack'[n + 1].rest = fallbacks[next]
    BY <1>8 DEF Visits
  <2>2. fallbacks[next] \in Seq(Model) /\ Len(fallbacks[next]) \in Nat
    BY DEF OrderTypes, SearchTypes
  <2>3. Position(n + 1)' = 0
    BY <2>1, <2>2 DEF Position
  <2>4. next \in visited'
    BY DEF Visits
  <2>5. \A k \in 1 .. Len(fallbacks[next]) : fallbacks[next][k] = fallbacks[next][0 + k]
    OBVIOUS
  <2>6. FrameIsSound(n + 1)'
    BY <2>1, <2>2, <2>3, <2>4, <2>5 DEF FrameIsSound
  <2>7. \A i \in 1 .. n + 1 : i \in 1 .. n - 1 \/ i = n \/ i = n + 1
    BY <1>1
  <2>8. QED
    BY <1>6, <1>7, <2>1, <2>6, <2>7
<1>9. CASE Meets(next) = "again"
  <2>1. Len(stack') = n
    BY <1>9 DEF Visits
  <2>2. \A i \in 1 .. n : i \in 1 .. n - 1 \/ i = n
    BY <1>1
  <2>3. QED
    BY <1>6, <1>7, <2>1, <2>2
<1>10. QED
  BY <1>8, <1>9

-----------------------------------------------------------------------------
(* Ways and their order depend on the fallbacks and the requested model only. *)
LEMMA SameGraph ==
  ASSUME UNCHANGED <<fallbacks, requested>>
  PROVE  /\ \A way : IsWay(way)' <=> IsWay(way)
         /\ \A way : IsLoop(way)' <=> IsLoop(way)
         /\ Ways' = Ways
         /\ \A m : WaysTo(m)' = WaysTo(m)
         /\ \A r, s : RouteBefore(r, s)' <=> RouteBefore(r, s)
<1>1. \A way : IsWay(way)' <=> IsWay(way)
  BY DEF IsWay
<1>2. \A way : IsLoop(way)' <=> IsLoop(way)
  BY <1>1 DEF IsLoop
<1>3. Ways' = Ways
  <2>1. PICK short : short = UNION {[1 .. n -> Model] : n \in 1 .. Cardinality(Model)}
    OBVIOUS
  <2>2. Ways = {way \in short : IsWay(way)} /\ Ways' = {way \in short : IsWay(way)'}
    BY <2>1 DEF Ways
  <2>3. QED
    BY <1>1, <2>2
<1>4. \A m : WaysTo(m)' = WaysTo(m)
  BY <1>3 DEF WaysTo
<1>5. \A v, w : WayBefore(v, w)' <=> WayBefore(v, w)
  BY DEF WayBefore, FallbackBefore
<1>6. \A m, k : ModelBefore(m, k)' <=> ModelBefore(m, k)
  BY <1>4, <1>5 DEF ModelBefore
<1>7. \A r, s : RouteBefore(r, s)' <=> RouteBefore(r, s)
  BY <1>6 DEF RouteBefore
<1>8. QED
  BY <1>1, <1>2, <1>3, <1>4, <1>7

(* A fallback that is met anew or again leaves the completed models as they are. *)
LEMMA VisitCompletesNone ==
  ASSUME SearchTypes, SearchTypes', NEW n \in Nat, NEW next \in Model, Visits(n, next),
         Meets(next) # "cycle"
  PROVE  Completed' = Completed
<1>1. DOMAIN stack = 1 .. n /\ DOMAIN stack' = 1 .. Len(stack')
  BY DEF SearchTypes, Visits
<1>2. CASE Meets(next) = "new"
  <2>1. Len(stack') = n + 1 /\ stack'[n + 1].model = next /\ next \notin visited
    BY <1>2 DEF Visits, Meets
  <2>2. n + 1 \in DOMAIN stack' /\ \A i \in DOMAIN stack' : i \in 1 .. n \/ i = n + 1
    BY <1>1, <2>1
  <2>3. \A m \in Model : OnStack(m)' <=> OnStack(m) \/ m = next
    <3>1. \A i \in 1 .. n : i \in DOMAIN stack' /\ stack'[i].model = stack[i].model
      BY <1>1, <2>1 DEF Visits
    <3>2. QED
      BY <1>1, <2>1, <2>2, <3>1 DEF OnStack
  <2>4. QED
    BY <2>1, <2>3 DEF Completed, Visits, SearchTypes
<1>3. CASE Meets(next) = "again"
  <2>1. Len(stack') = n /\ visited' = visited
    BY <1>3 DEF Visits, Meets
  <2>2. \A m : OnStack(m)' <=> OnStack(m)
    BY <1>1, <2>1 DEF OnStack, Visits
  <2>3. QED
    BY <2>1, <2>2 DEF Completed
<1>4. QED
  BY <1>2, <1>3 DEF Meets

(* A step of the innermost call puts no way ahead again. *)
LEMMA VisitPutsNoneAhead ==
  ASSUME OrderTypes, FramesAreSound, UNCHANGED fallbacks,
         NEW n \in Nat, NEW next \in Model, Visits(n, next),
         NEW way, IsWay(way), Ahead(way)'
  PROVE  Ahead(way)
<1>1. PICK i \in 1 .. Len(stack') :
        /\ i < Len(way)
        /\ \A j \in 1 .. i : way[j] = stack'[j].model
        /\ way[i + 1] \notin Taken(i)'
  BY DEF Ahead
<1>2. n = Len(stack) /\ n > 0 /\ Len(way) \in Nat
  BY DEF Visits, IsWay
<1>3. CASE i \in 1 .. n
  <2>1. \A j \in 1 .. i : j \in 1 .. n /\ way[j] = stack[j].model
    BY <1>1, <1>2, <1>3 DEF Visits
  <2>2. stack'[i].model = stack[i].model
    BY <1>3 DEF Visits
  <2>3. Taken(i) \subseteq Taken(i)'
    <3>1. CASE i # n
      <4>1. stack'[i].rest = stack[i].rest
        BY <1>2, <1>3, <3>1 DEF Visits
      <4>2. QED
        BY <2>2, <4>1 DEF Taken, Position
    <3>2. CASE i = n
      <4>1. Position(n) \in Nat
        BY NextIsFallback
      <4>2. stack[n] \in Frame /\ stack[n].rest # <<>>
        BY <1>2 DEF OrderTypes, SearchTypes, Visits
      <4>3. stack[n].rest \in Seq(Model) /\ stack[n].model \in Model
        BY <4>2 DEF Frame
      <4>4. Len(Tail(stack[n].rest)) = Len(stack[n].rest) - 1
        BY <4>2, <4>3
      <4>5. PICK f \in Nat, r \in Nat : f = Len(fallbacks[stack[n].model]) /\ r = Len(stack[n].rest)
        BY <4>3 DEF OrderTypes, SearchTypes
      <4>6. Position(n) = f - r /\ Position(n)' = f - (r - 1)
        BY <2>2, <3>2, <4>4, <4>5 DEF Position, Visits
      <4>7. \A k \in 1 .. Position(n) : k \in 1 .. Position(n)'
        BY <4>1, <4>5, <4>6
      <4>8. QED
        BY <2>2, <3>2, <4>7 DEF Taken
    <3>3. QED
      BY <3>1, <3>2
  <2>4. QED
    BY <1>1, <1>2, <1>3, <2>1, <2>3 DEF Ahead
<1>4. CASE i \notin 1 .. n
  <2>1. Meets(next) = "new" /\ i = n + 1 /\ stack'[n + 1].model = next
    BY <1>1, <1>2, <1>4 DEF Visits
  <2>2. way[n + 1] = next /\ n < Len(way) /\ n \in 1 .. Len(stack)
    BY <1>1, <1>2, <2>1
  <2>3. \A j \in 1 .. n : way[j] = stack[j].model
    BY <1>1, <1>2, <2>1 DEF Visits
  <2>4. next \notin Taken(n)
    <3>1. next \notin visited
      BY <2>1 DEF Meets
    <3>2. FrameIsSound(n)
      BY <2>2 DEF FramesAreSound
    <3>3. QED
      BY <1>2, <3>1, <3>2 DEF FrameIsSound, Taken, Completed
  <2>5. QED
    BY <2>2, <2>3, <2>4 DEF Ahead
<1>5. QED
  BY <1>3, <1>4

(* All routes of the plan are before those of a model that is visited now. *)
LEMMA VisitedAreBefore ==
  ASSUME OrderTypes, FramesAreSound, VisitedAreReached,
         NEW m \in visited, NEW next \in Model, next \notin visited
  PROVE  ModelBefore(m, next)
<1>1. PICK v \in WaysTo(m) : ~ Ahead(v)
  BY DEF VisitedAreReached
<1>2. IsWay(v)
  BY WaysAreWays DEF WaysTo
<1>3. ASSUME NEW w \in WaysTo(next) PROVE WayBefore(v, w)
  <2>1. IsWay(w) /\ Last(w) = next
    BY WaysAreWays DEF WaysTo
  <2>2. Ahead(w)
    BY <2>1, NotAheadIsVisited
  <2>3. QED
    BY <1>1, <1>2, <2>1, <2>2, AheadIsLater
<1>4. QED
  BY <1>3 DEF ModelBefore

(* The routes of one model among those of the call. *)
LEMMA RoutesOfIsSorted ==
  ASSUME OrderTypes, NEW m \in Model
  PROVE  /\ RoutesOf(m) \in Seq(Route)
         /\ ToSet(RoutesOf(m)) = {r \in eligible : ModelOf[r] = m}
         /\ \A i, j \in DOMAIN RoutesOf(m) :
              i < j => RouteBefore(RoutesOf(m)[i], RoutesOf(m)[j])
<1> DEFINE routes == {r \in eligible : ModelOf[r] = m}
<1>1. routes \in SUBSET Route
  BY DEF OrderTypes
<1>2. \A r, s \in routes : Priority[r] = Priority[s] => r = s
  BY <1>1, ConstantsAssumption
<1>3. RoutesOf(m) = ByPriority(routes)
  BY DEF RoutesOf
<1> HIDE DEF routes
<1>4. /\ RoutesOf(m) \in Seq(Route) /\ ToSet(RoutesOf(m)) = routes
      /\ \A i, j \in DOMAIN RoutesOf(m) :
           i < j => Priority[RoutesOf(m)[i]] < Priority[RoutesOf(m)[j]]
  BY <1>1, <1>2, <1>3, ByPriorityIsSorted
<1>5. \A i \in DOMAIN RoutesOf(m) : ModelOf[RoutesOf(m)[i]] = m
  BY <1>4 DEF routes, ToSet
<1>6. QED
  BY <1>4, <1>5 DEF RouteBefore, routes

LEMMA OrderInit == Init => OrderInv
<1> SUFFICES ASSUME Init PROVE OrderInv
  OBVIOUS
<1>1. SearchTypes
  BY SearchInit DEF SearchInv
<1>2. QED
  BY <1>1 DEF Init, OrderInv, OrderTypes, StackIsDistinct

LEMMA OrderPlan ==
  ASSUME OrderInv, SearchInv', NEW m \in Model, NEW routes \in SUBSET Route, Plan(m, routes)
  PROVE  OrderInv'
<1>1. SearchTypes' /\ OrderTypes
  BY DEF SearchInv, OrderInv
<1>2. CASE result' = "unknown_model"
  BY <1>1, <1>2 DEF Plan, OrderInv, OrderTypes, StackIsDistinct
<1>3. CASE result' = "planning"
  <2>1. /\ stack' = <<[model |-> m, rest |-> fallbacks[m]]>> /\ visited' = {m}
        /\ output' = RoutesOf(m)' /\ requested' = m /\ eligible' = routes
        /\ fallbacks' = fallbacks
    BY <1>3 DEF Plan, config
  <2>2. /\ Len(stack') = 1 /\ DOMAIN stack' = {1} /\ 1 .. Len(stack') = {1}
        /\ stack'[1].model = m /\ stack'[1].rest = fallbacks[m]
    BY <2>1
  <2>3. /\ output' \in Seq(Route)
        /\ ToSet(output') = {r \in routes : ModelOf[r] = m}
        /\ (\A i, j \in DOMAIN output : i < j => RouteBefore(output[i], output[j]))'
    <3> DEFINE own  == {r \in routes : ModelOf[r] = m}
               plan == ByPriority(own)
    <3>1. output' = plan
      BY <2>1 DEF RoutesOf, ByPriority, Ascending, Place
    <3>2. own \in SUBSET Route /\ \A r, s \in own : Priority[r] = Priority[s] => r = s
      BY ConstantsAssumption
    <3> HIDE DEF own, plan
    <3>3. /\ plan \in Seq(Route) /\ ToSet(plan) = own
          /\ \A i, j \in DOMAIN plan : i < j => Priority[plan[i]] < Priority[plan[j]]
      BY <3>2, ByPriorityIsSorted DEF plan
    <3>4. \A i \in DOMAIN plan : ModelOf[plan[i]] = m
      BY <3>3 DEF own, ToSet
    <3>5. QED
      BY <3>1, <3>3, <3>4 DEF RouteBefore, own
  <2>4. OrderTypes'
    BY <1>1, <2>1, <2>3 DEF OrderTypes
  <2>5. StackIsDistinct'
    BY <2>2 DEF StackIsDistinct
  <2>6. Completed' = {}
    BY <2>1, <2>2 DEF Completed, OnStack
  <2>7. FrameIsSound(1)'
    <3>1. fallbacks[m] \in Seq(Model) /\ Len(fallbacks[m]) \in Nat
      BY <1>1 DEF OrderTypes, SearchTypes
    <3>2. Position(1)' = 0
      BY <2>1, <2>2, <3>1 DEF Position
    <3>3. \A k \in 1 .. Len(fallbacks[m]) : fallbacks[m][k] = fallbacks[m][0 + k]
      OBVIOUS
    <3>4. QED
      BY <2>1, <2>2, <3>1, <3>2, <3>3 DEF FrameIsSound
  <2>8. FramesAreSound'
    BY <2>1, <2>2, <2>6, <2>7 DEF FramesAreSound
  <2>9. VisitedAreReached'
    <3>1. stack' # <<>>
      BY <2>2
    <3>2. PICK way \in WaysTo(m)' : ~ Ahead(way)'
      <4>1. (OrderTypes /\ StackIsDistinct /\ FramesAreSound /\ stack # <<>> =>
               StackHasWay)'
        BY StackIsReached, PTL
      <4>2. (StackHasWay)'
        BY <2>4, <2>5, <2>8, <3>1, <4>1
      <4>3. QED
        BY <2>2, <4>2 DEF StackHasWay
    <3>3. QED
      BY <2>1, <3>2 DEF VisitedAreReached
  <2>10. PlanIsSound'
    BY <2>1, <2>3 DEF PlanIsSound
  <2>11. QED
    BY <1>3, <2>4, <2>5, <2>8, <2>9, <2>10 DEF OrderInv
<1>4. QED
  BY <1>2, <1>3 DEF Plan

LEMMA OrderReturn ==
  ASSUME OrderInv, SearchInv', Return
  PROVE  OrderInv'
<1>1. /\ SearchTypes' /\ OrderTypes /\ StackIsDistinct
      /\ FramesAreSound /\ VisitedAreReached /\ PlanIsSound
  BY DEF SearchInv, OrderInv, Return
<1>2. UNCHANGED <<fallbacks, requested, eligible, visited, output, result>> /\ result = "planning"
  BY DEF Return, config, call
<1>3. PICK n \in Nat : /\ n = Len(stack) /\ n > 0 /\ stack[n].rest = <<>>
                       /\ Len(stack') = n - 1
                       /\ \A i \in 1 .. n - 1 : stack'[i] = stack[i]
  BY <1>1, ReturnPops DEF OrderTypes
<1>4. DOMAIN stack = 1 .. n /\ DOMAIN stack' = 1 .. n - 1 /\ n \in 1 .. n
  BY <1>1, <1>3 DEF OrderTypes, SearchTypes
<1>5. \A i \in 1 .. n - 1 : i \in 1 .. n /\ i < n
  BY <1>3
<1>6. OrderTypes'
  BY <1>1, <1>2 DEF OrderTypes
<1>7. StackIsDistinct'
  BY <1>1, <1>3, <1>5 DEF StackIsDistinct
<1>8. Completed' = Completed \union {stack[n].model}
  <2>1. stack[n].model \in visited
    BY <1>1, <1>3, <1>4 DEF FramesAreSound, FrameIsSound
  <2>2. \A m : OnStack(m)' <=> OnStack(m) /\ m # stack[n].model
    <3> SUFFICES ASSUME NEW m PROVE OnStack(m)' <=> OnStack(m) /\ m # stack[n].model
      OBVIOUS
    <3>1. OnStack(m)' <=> \E i \in 1 .. n - 1 : stack[i].model = m
      BY <1>3, <1>4 DEF OnStack
    <3>2. OnStack(m) <=> \E i \in 1 .. n : stack[i].model = m
      BY <1>4 DEF OnStack
    <3>3. \A i \in 1 .. n - 1 : stack[i].model # stack[n].model
      BY <1>1, <1>3, <1>4, <1>5 DEF StackIsDistinct
    <3>4. \A i \in 1 .. n : i = n \/ i \in 1 .. n - 1
      BY <1>3
    <3>5. QED
      BY <1>5, <3>1, <3>2, <3>3, <3>4
  <2>3. QED
    BY <1>2, <2>1, <2>2 DEF Completed
<1>9. \A i \in 1 .. n - 1 : Position(i)' = Position(i) /\ Taken(i)' = Taken(i)
  BY <1>2, <1>3 DEF Position, Taken
<1>10. ASSUME NEW i \in 1 .. n - 1 PROVE FrameIsSound(i)'
  <2>1. FrameIsSound(i) /\ i < n /\ i \in 1 .. n /\ i + 1 \in 1 .. n
    BY <1>1, <1>3, <1>5 DEF FramesAreSound
  <2>2. stack'[i] = stack[i] /\ Position(i)' = Position(i)
    BY <1>3, <1>9
  <2>3. Position(i) > 0 /\ fallbacks[stack[i].model][Position(i)] = stack[i + 1].model
    BY <1>3, <2>1 DEF FrameIsSound
  <2>4. i < n - 1 => stack'[i + 1] = stack[i + 1]
    BY <1>3
  <2>5. ASSUME NEW k \in 1 .. Position(i), i = n - 1 \/ k < Position(i)
        PROVE  fallbacks[stack[i].model][k] \in Completed'
    <3>1. CASE k < Position(i)
      BY <1>8, <2>1, <3>1 DEF FrameIsSound
    <3>2. CASE ~ (k < Position(i))
      <4>1. Position(i) \in Int
        BY <2>1 DEF FrameIsSound, OrderTypes, SearchTypes
      <4>2. k = Position(i) /\ i + 1 = n
        BY <1>3, <2>5, <3>2, <4>1
      <4>3. QED
        BY <1>8, <2>3, <4>2
    <3>3. QED
      BY <3>1, <3>2
  <2>6. QED
    BY <1>2, <1>3, <2>1, <2>2, <2>3, <2>4, <2>5 DEF FrameIsSound
<1>11. ToSet(fallbacks[stack[n].model]) \subseteq Completed
  <2>1. FrameIsSound(n)
    BY <1>1, <1>3, <1>4 DEF FramesAreSound
  <2>2. stack[n] \in Frame
    BY <1>1, <1>4 DEF OrderTypes, SearchTypes
  <2>3. fallbacks[stack[n].model] \in Seq(Model) /\ Len(fallbacks[stack[n].model]) \in Nat
    BY <1>1, <2>2 DEF OrderTypes, SearchTypes, Frame
  <2>4. Position(n) = Len(fallbacks[stack[n].model])
    BY <1>3, <2>3 DEF Position
  <2>5. \A k \in 1 .. Len(fallbacks[stack[n].model]) :
          fallbacks[stack[n].model][k] \in Completed
    BY <1>3, <2>1, <2>4 DEF FrameIsSound
  <2>6. QED
    BY <2>3, <2>5 DEF ToSet
<1>12. FramesAreSound'
  <2>1. stack' # <<>> => stack'[1].model = requested'
    <3> SUFFICES ASSUME stack' # <<>> PROVE stack'[1].model = requested'
      OBVIOUS
    <3>1. 1 \in 1 .. n - 1
      <4>1. Len(stack') # 0
        BY <1>1 DEF SearchTypes
      <4>2. QED
        BY <1>3, <4>1
    <3>2. QED
      BY <1>1, <1>2, <1>3, <3>1 DEF FramesAreSound
  <2>2. \A m \in Completed' : ToSet(fallbacks[m]) \subseteq Completed'
    BY <1>1, <1>8, <1>11 DEF FramesAreSound
  <2>3. requested' \in visited'
    BY <1>1, <1>2 DEF FramesAreSound
  <2>4. QED
    BY <1>2, <1>3, <1>10, <2>1, <2>2, <2>3 DEF FramesAreSound
<1>13. VisitedAreReached'
  <2>1. ASSUME NEW way, Ahead(way)' PROVE Ahead(way)
    <3>1. PICK i \in 1 .. n - 1 : /\ i < Len(way) /\ \A j \in 1 .. i : way[j] = stack'[j].model
                                  /\ way[i + 1] \notin Taken(i)'
      BY <1>3, <2>1 DEF Ahead
    <3>2. \A j \in 1 .. i : j \in 1 .. n - 1
      BY <1>3
    <3>3. QED
      BY <1>3, <1>5, <1>9, <3>1, <3>2 DEF Ahead
  <2>2. QED
    BY <1>1, <1>2, <2>1, SameGraph DEF VisitedAreReached
<1>14. PlanIsSound'
  BY <1>1, <1>2, SameGraph DEF PlanIsSound
<1>15. QED
  BY <1>2, <1>6, <1>7, <1>12, <1>13, <1>14 DEF OrderInv

(* One sequence after another. *)
LEMMA Joined ==
  ASSUME NEW S, NEW a \in Seq(S), NEW b \in Seq(S)
  PROVE  /\ a \o b \in Seq(S) /\ Len(a) \in Nat /\ Len(b) \in Nat
         /\ DOMAIN a = 1 .. Len(a) /\ DOMAIN b = 1 .. Len(b)
         /\ DOMAIN (a \o b) = 1 .. Len(a) + Len(b)
         /\ \A i \in DOMAIN a : i \in DOMAIN (a \o b) /\ (a \o b)[i] = a[i]
         /\ \A j \in DOMAIN b : Len(a) + j \in DOMAIN (a \o b) /\ (a \o b)[Len(a) + j] = b[j]
         /\ \A i \in DOMAIN (a \o b) :
              i \in DOMAIN a \/ \E j \in DOMAIN b : i = Len(a) + j
         /\ ToSet(a \o b) = ToSet(a) \union ToSet(b)
<1>1. PICK m \in Nat, n \in Nat : m = Len(a) /\ n = Len(b)
  OBVIOUS
<1>2. DOMAIN a = 1 .. m /\ DOMAIN b = 1 .. n
  BY <1>1
<1> DEFINE c == a \o b
<1>3. c \in Seq(S)
  OBVIOUS
<1>4. Len(c) = m + n /\ DOMAIN c = 1 .. m + n
  BY <1>1, <1>2
<1>5. \A i \in 1 .. m : i \in 1 .. m + n /\ c[i] = a[i]
  BY <1>1, <1>2
<1>6. \A j \in 1 .. n : m + j \in 1 .. m + n /\ c[m + j] = b[j]
  BY <1>1, <1>2
<1> HIDE DEF c
<1>7. ASSUME NEW i \in 1 .. m + n PROVE i \in 1 .. m \/ \E j \in 1 .. n : i = m + j
  <2>1. CASE i > m
    <3>1. i - m \in 1 .. n /\ i = m + (i - m)
      BY <2>1
    <3>2. QED
      BY <3>1
  <2>2. QED
    BY <2>1
<1>8. ToSet(c) = ToSet(a) \union ToSet(b)
  <2>1. ASSUME NEW e \in ToSet(c) PROVE e \in ToSet(a) \union ToSet(b)
    <3>1. PICK i \in 1 .. m + n : e = c[i]
      BY <1>4 DEF ToSet
    <3>2. (\E k \in 1 .. m : e = a[k]) \/ (\E j \in 1 .. n : e = b[j])
      BY <1>5, <1>6, <1>7, <3>1
    <3>3. QED
      BY <1>2, <3>2 DEF ToSet
  <2>2. ASSUME NEW e \in ToSet(a) PROVE e \in ToSet(c)
    BY <1>2, <1>4, <1>5 DEF ToSet
  <2>3. ASSUME NEW e \in ToSet(b) PROVE e \in ToSet(c)
    BY <1>2, <1>4, <1>6 DEF ToSet
  <2>4. QED
    BY <2>1, <2>2, <2>3
<1>9. QED
  BY <1>1, <1>2, <1>3, <1>4, <1>5, <1>6, <1>7, <1>8 DEF c

LEMMA OrderVisit ==
  ASSUME OrderInv, SearchInv', Visit
  PROVE  OrderInv'
<1>1. /\ SearchTypes' /\ OrderTypes /\ SearchTypes /\ StackIsDistinct
      /\ FramesAreSound /\ VisitedAreReached /\ PlanIsSound
  BY DEF SearchInv, OrderInv, OrderTypes, Visit
<1>2. UNCHANGED <<fallbacks, requested, eligible>>
  BY DEF Visit, config, call
<1>3. PICK n \in Nat, next \in Model : Visits(n, next)
  BY <1>1, VisitVisits
<1>4. /\ DOMAIN stack = 1 .. n /\ DOMAIN stack' = 1 .. Len(stack') /\ n \in 1 .. n
      /\ Len(stack) = n /\ n > 0
  BY <1>1, <1>3 DEF Visits, SearchTypes
<1>5. next \in ToSet(fallbacks[stack[n].model])
  BY <1>1, <1>3, NextIsFallback
<1>6. CASE Meets(next) = "cycle"
  <2>1. /\ Len(stack') = n /\ result' = "cycle" /\ output' = output
        /\ \A i \in 1 .. n : stack'[i].model = stack[i].model
    BY <1>3, <1>6 DEF Visits
  <2>2. OrderTypes'
    BY <1>1, <1>2, <2>1 DEF OrderTypes
  <2>3. StackIsDistinct'
    BY <1>1, <1>4, <2>1 DEF StackIsDistinct
  <2>4. PICK i \in 1 .. n : stack[i].model = next
    BY <1>4, <1>6 DEF Meets, OnStack
  <2>5. stack # <<>>
    BY <1>4
  <2>6. PICK way \in Ways : /\ Len(way) = n
                            /\ \A j \in 1 .. n : way[j] = stack[j].model
    BY <1>1, <1>4, <2>5, StackIsReached DEF StackHasWay, WaysTo
  <2>7. IsLoop(way)
    BY <1>4, <1>5, <2>4, <2>6, WaysAreWays DEF IsLoop
  <2>8. way \in Ways' /\ IsLoop(way)'
    BY <1>2, <2>7, SameGraph
  <2>9. QED
    BY <2>1, <2>2, <2>3, <2>8 DEF OrderInv
<1>7. CASE Meets(next) # "cycle"
  <2>1. result' = "planning"
    BY <1>3, <1>7 DEF Visits
  <2>2. Completed' = Completed
    BY <1>1, <1>3, <1>7, VisitCompletesNone
  <2>3. Meets(next) = "new" \/ (Meets(next) = "again" /\ next \in Completed)
    BY <1>7 DEF Meets, Completed
  <2>4. \A i \in 1 .. Len(stack') : FrameIsSound(i)'
    BY <1>1, <1>2, <1>3, <2>2, <2>3, FramesStaySound
  <2>5. FramesAreSound'
    <3>1. stack'[1].model = requested'
      <4>1. stack # <<>> /\ 1 \in 1 .. n
        BY <1>4
      <4>2. QED
        BY <1>1, <1>2, <1>3, <4>1 DEF Visits, FramesAreSound
    <3>2. requested' \in visited'
      BY <1>1, <1>2, <1>3 DEF FramesAreSound, Visits
    <3>3. \A m \in Completed' : ToSet(fallbacks'[m]) \subseteq Completed'
      BY <1>1, <1>2, <2>2 DEF FramesAreSound
    <3>4. QED
      BY <2>4, <3>1, <3>2, <3>3 DEF FramesAreSound
  <2>6. StackIsDistinct'
    <3>1. CASE Meets(next) = "new"
      <4>1. Len(stack') = n + 1 /\ stack'[n + 1].model = next
        BY <1>3, <3>1 DEF Visits
      <4>2. \A i \in 1 .. n : stack'[i].model = stack[i].model /\ stack[i].model # next
        BY <1>3, <1>4, <3>1 DEF Visits, Meets, OnStack
      <4>3. \A i \in 1 .. Len(stack') : i \in 1 .. n \/ i = n + 1
        BY <4>1
      <4>4. \A i, j \in 1 .. n : stack[i].model = stack[j].model => i = j
        BY <1>1, <1>4 DEF StackIsDistinct
      <4>5. QED
        BY <4>1, <4>2, <4>3, <4>4 DEF StackIsDistinct
    <3>2. CASE Meets(next) # "new"
      BY <1>1, <1>3, <1>4, <3>2 DEF Visits, StackIsDistinct
    <3>3. QED
      BY <3>1, <3>2
  <2>7. ASSUME NEW m \in visited
        PROVE  \E way \in WaysTo(m) : way \in WaysTo(m)' /\ ~ Ahead(way)'
    <3>1. PICK way \in WaysTo(m) : ~ Ahead(way)
      BY <1>1 DEF VisitedAreReached
    <3>2. IsWay(way)
      BY WaysAreWays DEF WaysTo
    <3>3. ~ Ahead(way)'
      BY <1>1, <1>2, <1>3, <3>1, <3>2, VisitPutsNoneAhead
    <3>4. QED
      BY <1>2, <3>1, <3>3, SameGraph
  <2>8. CASE Meets(next) = "again"
    <3>1. visited' = visited /\ output' = output
      BY <1>3, <2>8 DEF Visits, Meets
    <3>2. OrderTypes'
      BY <1>1, <1>2, <3>1 DEF OrderTypes
    <3>3. VisitedAreReached'
      BY <2>7, <3>1 DEF VisitedAreReached
    <3>4. PlanIsSound'
      BY <1>1, <1>2, <3>1, SameGraph DEF PlanIsSound
    <3>5. QED
      BY <2>1, <2>5, <2>6, <3>2, <3>3, <3>4 DEF OrderInv
  <2>9. CASE Meets(next) = "new"
    <3> DEFINE more == RoutesOf(next)
    <3>1. /\ visited' = visited \union {next} /\ next \notin visited
          /\ output' = output \o more
          /\ Len(stack') = n + 1 /\ stack'[n + 1].model = next
      BY <1>3, <2>9 DEF Visits, Meets
    <3>2. /\ more \in Seq(Route) /\ ToSet(more) = {r \in eligible : ModelOf[r] = next}
          /\ \A i, j \in DOMAIN more : i < j => RouteBefore(more[i], more[j])
      BY <1>1, RoutesOfIsSorted
    <3> HIDE DEF more
    <3>3. output \in Seq(Route) /\ eligible \in SUBSET Route
      BY <1>1 DEF OrderTypes
    <3>4. PICK plan, o : plan = output \o more /\ o = Len(output)
      OBVIOUS
    <3>5. /\ plan \in Seq(Route) /\ o \in Nat
          /\ DOMAIN output = 1 .. o /\ DOMAIN more = 1 .. Len(more)
          /\ \A i \in DOMAIN output : plan[i] = output[i]
          /\ \A j \in DOMAIN more : plan[o + j] = more[j]
          /\ \A i \in DOMAIN plan : i \in DOMAIN output \/ \E j \in DOMAIN more : i = o + j
          /\ ToSet(plan) = ToSet(output) \union ToSet(more)
      <4>1. output \in Seq(Route) /\ more \in Seq(Route)
        BY <3>2, <3>3
      <4> USE <3>4
      <4>2. /\ plan \in Seq(Route) /\ o \in Nat
            /\ DOMAIN output = 1 .. o /\ DOMAIN more = 1 .. Len(more)
        BY <4>1, Joined
      <4>3. \A i \in DOMAIN output : plan[i] = output[i]
        BY <4>1, Joined
      <4>4. \A j \in DOMAIN more : plan[o + j] = more[j]
        BY <4>1, Joined
      <4>5. \A i \in DOMAIN plan : i \in DOMAIN output \/ \E j \in DOMAIN more : i = o + j
        BY <4>1, Joined
      <4>6. ToSet(plan) = ToSet(output) \union ToSet(more)
        BY <4>1, Joined
      <4>7. QED
        BY <4>2, <4>3, <4>4, <4>5, <4>6
    <3>6. OrderTypes'
      BY <1>1, <1>2, <3>1, <3>3, <3>4, <3>5 DEF OrderTypes
    <3>7. VisitedAreReached'
      <4>1. stack' # <<>>
        BY <1>4, <3>1
      <4>2. PICK way \in WaysTo(next)' : ~ Ahead(way)'
        <5>1. (OrderTypes /\ StackIsDistinct /\ FramesAreSound /\ stack # <<>> =>
                 StackHasWay)'
          BY StackIsReached, PTL
        <5>2. (StackHasWay)'
          BY <2>5, <2>6, <3>6, <4>1, <5>1
        <5>3. QED
          BY <3>1, <5>2 DEF StackHasWay
      <4>3. QED
        BY <2>7, <3>1, <4>2 DEF VisitedAreReached
    <3>8. ToSet(output') = {r \in eligible' : ModelOf[r] \in visited'}
      BY <1>1, <1>2, <3>1, <3>2, <3>4, <3>5 DEF PlanIsSound
    <3>9. ASSUME NEW i \in DOMAIN plan, NEW j \in DOMAIN plan, i < j
          PROVE  RouteBefore(plan[i], plan[j])
      <4>1. CASE i \in DOMAIN output /\ j \in DOMAIN output
        BY <1>1, <3>5, <3>9, <4>1 DEF PlanIsSound
      <4>2. CASE i \in DOMAIN output /\ j \notin DOMAIN output
        <5>1. PICK l \in DOMAIN more : j = o + l
          BY <3>5, <4>2
        <5>2. /\ output[i] \in ToSet(output) /\ plan[i] = output[i]
              /\ more[l] \in ToSet(more) /\ plan[j] = more[l]
          BY <3>5, <4>2, <5>1 DEF ToSet
        <5>3. ModelOf[plan[i]] \in visited /\ ModelOf[plan[j]] = next
          BY <1>1, <3>2, <5>2 DEF PlanIsSound
        <5>4. ModelBefore(ModelOf[plan[i]], next)
          BY <1>1, <3>1, <5>3, VisitedAreBefore
        <5>5. QED
          BY <3>1, <5>3, <5>4 DEF RouteBefore
      <4>3. CASE i \notin DOMAIN output
        <5>1. PICK k \in DOMAIN more : i = o + k
          BY <3>5, <4>3
        <5>2. j \notin DOMAIN output
          BY <3>5, <3>9, <4>3, <5>1
        <5>3. PICK l \in DOMAIN more : j = o + l
          BY <3>5, <5>2
        <5>4. k < l
          BY <3>5, <3>9, <5>1, <5>3
        <5>5. QED
          BY <3>2, <3>5, <5>1, <5>3, <5>4
      <4>4. QED
        BY <4>1, <4>2, <4>3
    <3>10. PlanIsSound'
      <4>1. (\A i, j \in DOMAIN output : i < j => RouteBefore(output[i], output[j]))'
        BY <1>2, <3>1, <3>4, <3>9, SameGraph
      <4>2. QED
        BY <3>8, <4>1 DEF PlanIsSound
    <3>11. QED
      BY <2>1, <2>5, <2>6, <3>6, <3>7, <3>10 DEF OrderInv
  <2>10. QED
    BY <2>3, <2>8, <2>9
<1>8. QED
  BY <1>6, <1>7

(* A step that leaves the search alone, or only ends it. *)
LEMMA OrderRests ==
  ASSUME OrderInv, SearchTypes',
         UNCHANGED <<fallbacks, requested, eligible, stack, visited, output>>,
         result' = result \/ (result = "planning" /\ result' = "ok" /\ stack = <<>>)
  PROVE  OrderInv'
<1>1. OrderTypes' /\ StackIsDistinct'
  BY DEF OrderInv, OrderTypes, StackIsDistinct
<1>2. /\ \A m : WaysTo(m)' = WaysTo(m)
      /\ \A way : Ahead(way)' <=> Ahead(way)
      /\ \A way : IsLoop(way)' <=> IsLoop(way)
      /\ Ways' = Ways
  BY SameGraph DEF Ahead, Taken, Position
<1>3. FramesAreSound => FramesAreSound'
  <2>1. Completed' = Completed /\ \A i : Position(i)' = Position(i)
    BY DEF Completed, OnStack, Position
  <2>2. \A i : FrameIsSound(i)' <=> FrameIsSound(i)
    BY <2>1 DEF FrameIsSound
  <2>3. QED
    BY <2>1, <2>2 DEF FramesAreSound
<1>4. VisitedAreReached => VisitedAreReached'
  BY <1>2 DEF VisitedAreReached
<1>5. PlanIsSound => PlanIsSound'
  BY SameGraph DEF PlanIsSound
<1>6. QED
  BY <1>1, <1>2, <1>3, <1>4, <1>5 DEF OrderInv

LEMMA OrderStep == OrderInv /\ SearchInv' /\ [Next]_vars => OrderInv'
<1> SUFFICES ASSUME OrderInv, SearchInv', [Next]_vars PROVE OrderInv'
  OBVIOUS
<1>1. SearchTypes'
  BY DEF SearchInv
<1>2. ASSUME NEW source \in Model, NEW target \in Model, AddFallback(source, target)
      PROVE  OrderInv'
  BY <1>1, <1>2 DEF AddFallback, call, OrderInv, OrderTypes, StackIsDistinct
<1>3. CASE Finish
  BY <1>1, <1>3, OrderRests DEF Finish, config, call
<1>4. CASE UNCHANGED vars
  BY <1>1, <1>4, OrderRests DEF vars, config, call
<1>5. QED
  BY <1>2, <1>3, <1>4, OrderPlan, OrderVisit, OrderReturn DEF Next

LEMMA OrderIsInvariant == Spec => [](OrderInv /\ SearchInv)
<1>1. Init => OrderInv /\ SearchInv
  BY OrderInit, SearchInit
<1>2. OrderInv /\ SearchInv /\ [Next]_vars => (OrderInv /\ SearchInv)'
  BY OrderStep, SearchStep
<1>3. QED
  BY <1>1, <1>2, PTL DEF Spec

(* The variables stay in their types, and the recursion of visit is never       *)
(* deeper than there are models: no model is active twice.                      *)
THEOREM TypeCorrect == Spec => []TypeOK
<1>1. OrderInv => TypeOK
  <2> SUFFICES ASSUME OrderInv PROVE TypeOK
    OBVIOUS
  <2>1. /\ stack \in Seq(Frame) /\ Len(stack) \in Nat
        /\ \A i \in 1 .. Len(stack) : stack[i] \in Frame
    BY DEF OrderInv, OrderTypes, SearchTypes
  <2>2. Len(stack) <= Cardinality(Model)
    <3>1. PICK n \in Nat : n = Len(stack)
      BY <2>1
    <3> DEFINE way == [i \in 1 .. n |-> stack[i].model]
    <3>2. way \in Seq(Model) /\ Len(way) = n /\ \A i \in 1 .. n : way[i] = stack[i].model
      <4>1. \A i \in 1 .. n : stack[i].model \in Model
        BY <2>1, <3>1 DEF Frame
      <4>2. QED
        BY <3>1, <4>1
    <3> HIDE DEF way
    <3>3. \A i, j \in 1 .. n : way[i] = way[j] => i = j
      BY <3>1, <3>2 DEF OrderInv, StackIsDistinct
    <3>4. QED
      BY <3>1, <3>2, <3>3, DistinctIsShort
  <2>3. QED
    BY <2>1, <2>2 DEF OrderInv, OrderTypes, SearchTypes, TypeOK
<1>2. QED
  BY <1>1, OrderIsInvariant, PTL

(* Whatever graph of fallbacks, routes and priorities a call is given, its plan *)
(* has every eligible route of every model that can be reached, once, in the    *)
(* order of the models' first ways and of the routes' priorities.               *)
THEOREM PlanAlwaysOrdered == Spec => []PlanIsOrdered
<1>1. OrderInv => PlanIsOrdered
  <2> SUFFICES ASSUME OrderInv, result = "ok" PROVE PlanIsOrdered
    BY DEF PlanIsOrdered
  <2>1. OrderTypes /\ FramesAreSound /\ VisitedAreReached /\ PlanIsSound /\ stack = <<>>
    BY DEF OrderInv
  <2>2. visited = Reachable
    <3>1. ASSUME NEW m \in visited PROVE m \in Reachable
      BY <2>1 DEF VisitedAreReached, WaysTo, Reachable
    <3>2. ASSUME NEW way \in Ways PROVE Last(way) \in visited
      <4>1. ~ Ahead(way)
        BY <2>1 DEF Ahead
      <4>2. QED
        BY <2>1, <4>1, WaysAreWays, NotAheadIsVisited
    <3>3. QED
      BY <3>1, <3>2 DEF Reachable
  <2>3. QED
    BY <2>1, <2>2 DEF PlanIsOrdered, PlanIsSound
<1>2. QED
  BY <1>1, OrderIsInvariant, PTL

(* FallbackCycle is the result exactly when one of the ways that are no longer  *)
(* than there are models comes back to a model of its own.                      *)
THEOREM CyclesAlwaysFound == Spec => []CyclesAreFound
<1>1. OrderInv /\ SearchInv => CyclesAreFound
  BY NoLoopInOrder DEF OrderInv, SearchInv, CyclesAreFound
<1>2. QED
  BY <1>1, OrderIsInvariant, PTL
=============================================================================
