----------------------- MODULE HalfOpenProbe_proofs ------------------------
(***************************************************************************)
(* Proofs about HalfOpenProbe, for any number of processes, requests,      *)
(* routes, accounts and lease identities, and any length of a lease.       *)
(***************************************************************************)
EXTENDS HalfOpenProbe, TLAPS

(* Every action of a request, for the case analysis on Next. *)
LEMMA NextCases ==
  ASSUME Next
  PROVE  \/ \E q \in Request : \/ Query(q) \/ ExecuteFails(q) \/ StreamFails(q)
                               \/ DeleteLease(q) \/ Abandon(q)
         \/ \E q \in Request, r \in Route :
              \/ AcquireProbe(q, r) \/ RefuseProbe(q, r) \/ Commit(q, r)
              \/ Completes(q, r) \/ Settle(q, r) \/ ForgetLease(q, r)
              \/ AcquireUnheard(q, r) \/ SecretFails(q, r)
         \/ \E g \in Gateway : Crash(g) \/ Start(g)
         \/ Tick
BY DEF Next, Progress, Disturbance

-----------------------------------------------------------------------------
(* Types *)

LEMMA CapturedType ==
  ASSUME routeState \in [Route -> RouteStates], retryIn \in [Route -> RetryTime]
  PROVE  Captured \in Snapshot
BY DEF Captured, Snapshot, RetryTime

LEMMA SnapshotTypes ==
  ASSUME TypeOK, NEW g \in Gateway
  PROVE  /\ SnapshotRoutes(g) \in SUBSET Route
         /\ SnapshotProbed(g) \in [Gateway -> Snapshot]
<1>1. snapshot[g].closed \in SUBSET Route /\ snapshot[g].retryIn \in [Route -> RetryTime]
  BY DEF TypeOK, Snapshot
<1>2. SnapshotRoutes(g) \in SUBSET Route
  BY <1>1 DEF SnapshotRoutes, SnapshotDue
<1> DEFINE waits == [r \in Route |-> IF r \in SnapshotRoutes(g) THEN Never
                                     ELSE snapshot[g].retryIn[r]]
<1>3. waits \in [Route -> RetryTime]
  BY <1>1 DEF RetryTime
<1>4. SnapshotProbed(g) = [snapshot EXCEPT ![g] = [snapshot[g] EXCEPT !.retryIn = waits]]
  BY DEF SnapshotProbed, TypeOK
<1>5. [snapshot[g] EXCEPT !.retryIn = waits] \in Snapshot
  <2> HIDE DEF waits
  <2>1. snapshot[g] \in Snapshot
    BY DEF TypeOK
  <2>2. QED
    BY <1>3, <2>1 DEF Snapshot
<1>6. SnapshotProbed(g) \in [Gateway -> Snapshot]
  BY <1>4, <1>5 DEF TypeOK
<1>7. QED
  BY <1>2, <1>6

LEMMA ScanTypes ==
  ASSUME TypeOK, NEW q \in Request, NEW rows \in SUBSET Route,
         NEW closed \in SUBSET Route, Scan(q, rows, closed)
  PROVE  /\ phase' \in [Request -> Phases]
         /\ todo' \in [Request -> SUBSET Route]
         /\ seenClosed' \in [Request -> SUBSET Route]
         /\ eligible' \in [Request -> SUBSET Route]
         /\ snapshot' \in [Gateway -> Snapshot]
<1> DEFINE probing == \E r \in rows \ closed : IsFirst(r, rows)
           routes  == IF rows # {} THEN rows \cap closed ELSE SnapshotRoutes(Home[q])
<1>1. Home[q] \in Gateway
  BY ConstantsAssumption
<1>2. routes \in SUBSET Route
  BY <1>1, SnapshotTypes
<1>3. snapshot' \in [Gateway -> Snapshot]
  BY <1>1, SnapshotTypes DEF Scan, TypeOK
<1>4. (IF probing THEN "planning" ELSE IF routes # {} THEN "routed" ELSE "idle") \in Phases
  BY DEF Phases
<1> HIDE DEF probing, routes
<1>5. QED
  BY <1>2, <1>3, <1>4 DEF TypeOK, Scan, probing, routes

LEMMA ForgottenTypes ==
  ASSUME TypeOK, NEW q \in Request, Forgotten(q)
  PROVE  /\ phase' \in [Request -> Phases]
         /\ todo' \in [Request -> SUBSET Route]
         /\ seenClosed' \in [Request -> SUBSET Route]
         /\ eligible' \in [Request -> SUBSET Route]
         /\ verdict' \in [Request -> Verdict]
         /\ toRelease' \in [Request -> SUBSET Route]
         /\ deleting' \in [Request -> Deletion]
BY DEF TypeOK, Forgotten, Phases, Verdict, Success, RetryTime, Deletion

LEMMA GoOnTypes ==
  ASSUME TypeOK, NEW q \in Request, NEW released \in BOOLEAN, GoOn(q, released)
  PROVE  /\ phase' \in [Request -> Phases]
         /\ eligible' \in [Request -> SUBSET Route]
         /\ verdict' \in [Request -> Verdict]
<1>1. CASE ~ released
  BY <1>1 DEF TypeOK, GoOn
<1>2. CASE released
  <2>1. PICK r \in eligible[q], rest \in SUBSET eligible[q],
             p \in {"idle", "routed"} :
           /\ eligible' = [eligible EXCEPT ![q] = rest]
           /\ phase' = [phase EXCEPT ![q] = p]
           /\ verdict' = [verdict EXCEPT ![q] = Success]
    BY <1>2 DEF GoOn
  <2>2. rest \in SUBSET Route /\ p \in Phases /\ Success \in Verdict
    BY <2>1 DEF TypeOK, Phases, Verdict, Success, RetryTime
  <2>3. QED
    BY <2>1, <2>2 DEF TypeOK
<1>3. QED
  BY <1>1, <1>2

LEMMA TakeLeaseTypes ==
  ASSUME TypeOK, NEW g \in Gateway, NEW r \in Route, NEW id \in LeaseId,
         TakeLease(g, r, id)
  PROVE  /\ lease' \in [Route -> Lease]
         /\ routeState' \in [Route -> RouteStates]
BY ConstantsAssumption DEF TypeOK, TakeLease, Lease, RouteStates

LEMMA PassedType ==
  ASSUME NEW t \in RetryTime
  PROVE  /\ Passed(t) \in RetryTime
         /\ t \in Nat => Passed(t) \in Nat
BY ConstantsAssumption DEF Passed, RetryTime

LEMMA TypeInit == Init => TypeOK
<1> SUFFICES ASSUME Init PROVE TypeOK
  OBVIOUS
<1>1. routeState \in [Route -> RouteStates]
  BY DEF Init, RouteStates
<1>2. retryIn \in [Route -> RetryTime]
  <2>1. PICK open \in SUBSET Route :
          \E wait \in [open -> FirstWait] :
            retryIn = [r \in Route |-> IF r \in open THEN wait[r] ELSE Never]
    BY DEF Init
  <2>2. PICK wait \in [open -> FirstWait] :
          retryIn = [r \in Route |-> IF r \in open THEN wait[r] ELSE Never]
    BY <2>1
  <2>3. FirstWait \subseteq RetryTime /\ Never \in RetryTime
    BY ConstantsAssumption DEF RetryTime
  <2>4. QED
    BY <2>2, <2>3
<1>3. lease \in [Route -> Lease]
  BY DEF Init, Lease, NoLease
<1>4. snapshot \in [Gateway -> Snapshot]
  BY <1>1, <1>2, CapturedType DEF Init
<1>5. QED
  BY <1>1, <1>2, <1>3, <1>4, ConstantsAssumption
  DEF Init, TypeOK, Phases, Verdict, Success, RetryTime, Deletion

LEMMA TypeStep == TypeOK /\ [Next]_vars => TypeOK'
<1> SUFFICES ASSUME TypeOK, [Next]_vars PROVE TypeOK'
  OBVIOUS
<1> USE DEF database, requests, budgets, processes, memory
<1>1. ASSUME NEW q \in Request, Query(q) PROVE TypeOK'
  <2>1. Rows \in SUBSET Route /\ ClosedRows \in SUBSET Route
    BY DEF Rows, ClosedRows
  <2>2. QED
    BY <1>1, <2>1, ScanTypes DEF Query, TypeOK
<1>2. ASSUME NEW q \in Request, ExecuteFails(q) PROVE TypeOK'
  BY <1>2, ConstantsAssumption
  DEF ExecuteFails, TypeOK, Failures, Verdict, RetryTime, Phases
<1>3. ASSUME NEW q \in Request, StreamFails(q) PROVE TypeOK'
  BY <1>3, ConstantsAssumption
  DEF StreamFails, TypeOK, Failures, Verdict, RetryTime, Phases
<1>4. ASSUME NEW q \in Request, DeleteLease(q) PROVE TypeOK'
  <2>1. lease' \in [Route -> Lease]
    BY <1>4 DEF DeleteLease, TypeOK, Lease, NoLease
  <2>2. deleting' \in [Request -> Deletion]
    BY <1>4 DEF DeleteLease, TypeOK, Deletion
  <2>3. (toRelease[q] = {}) \in BOOLEAN
    OBVIOUS
  <2>4. QED
    BY <1>4, <2>1, <2>2, <2>3, GoOnTypes DEF DeleteLease, TypeOK
<1>5. ASSUME NEW q \in Request, Abandon(q) PROVE TypeOK'
  BY <1>5, ForgottenTypes, ConstantsAssumption DEF Abandon, TypeOK
<1>6. ASSUME NEW q \in Request, NEW r \in Route, AcquireProbe(q, r) PROVE TypeOK'
  <2>1. Home[q] \in Gateway
    BY ConstantsAssumption
  <2>2. PICK id \in LeaseId : /\ TakeLease(Home[q], r, id)
                              /\ owned' = [owned EXCEPT ![Home[q]][r] = id]
    BY <1>6 DEF AcquireProbe, FreshLeaseIds
  <2>3. lease' \in [Route -> Lease] /\ routeState' \in [Route -> RouteStates]
    BY <2>1, <2>2, TakeLeaseTypes
  <2>4. owned' \in [Gateway -> [Route -> LeaseId \union {None}]]
    BY <2>1, <2>2 DEF TypeOK
  <2>5. QED
    BY <1>6, <2>3, <2>4 DEF AcquireProbe, TypeOK, Phases
<1>7. ASSUME NEW q \in Request, NEW r \in Route, RefuseProbe(q, r) PROVE TypeOK'
  <2>1. todo[q] \ {r} \in SUBSET Route /\ seenClosed[q] \in SUBSET Route
    BY DEF TypeOK
  <2>2. QED
    BY <1>7, <2>1, ScanTypes DEF RefuseProbe, TypeOK
<1>8. ASSUME NEW q \in Request, NEW r \in Route, Commit(q, r) PROVE TypeOK'
  BY <1>8 DEF Commit, TypeOK, Phases
<1>9. ASSUME NEW q \in Request, NEW r \in Route, Completes(q, r) PROVE TypeOK'
  BY <1>9 DEF Completes, TypeOK, Phases, Verdict, Success, RetryTime
<1>10. ASSUME NEW q \in Request, NEW r \in Route, Settle(q, r) PROVE TypeOK'
  <2>1. verdict[q].retryIn \in RetryTime
    BY DEF TypeOK, Verdict
  <2>2. AccountOf[r] \in Account
    BY ConstantsAssumption
  <2>3. routeState' \in [Route -> RouteStates]
    BY <1>10 DEF Settle, TypeOK, RouteStates
  <2>4. retryIn' \in [Route -> RetryTime] /\ blocked' \subseteq Account
    BY <1>10, <2>1, <2>2 DEF Settle, TypeOK
  <2>5. toRelease' \in [Request -> SUBSET Route] /\ phase' \in [Request -> Phases]
    BY <1>10 DEF Settle, TypeOK, Phases
  <2>6. QED
    BY <1>10, <2>3, <2>4, <2>5 DEF Settle, TypeOK
<1>11. ASSUME NEW q \in Request, NEW r \in Route, ForgetLease(q, r) PROVE TypeOK'
  <2> DEFINE id == owned[Home[q]][r]
  <2>1. id \in LeaseId \union {None}
    BY ConstantsAssumption DEF TypeOK
  <2>2. deleting' \in [Request -> Deletion]
    BY <1>11, <2>1 DEF ForgetLease, DeletionOf, TypeOK, Deletion
  <2>3. GoOn(q, id = None /\ toRelease[q] = {r})
    BY <1>11 DEF ForgetLease
  <2>4. /\ phase' \in [Request -> Phases]
        /\ eligible' \in [Request -> SUBSET Route]
        /\ verdict' \in [Request -> Verdict]
    BY <2>3, GoOnTypes
  <2>5. QED
    BY <1>11, <2>2, <2>4, ConstantsAssumption DEF ForgetLease, TypeOK
<1>12. ASSUME NEW q \in Request, NEW r \in Route, AcquireUnheard(q, r) PROVE TypeOK'
  <2>1. Home[q] \in Gateway
    BY ConstantsAssumption
  <2>2. PICK id \in LeaseId : TakeLease(Home[q], r, id)
    BY <1>12 DEF AcquireUnheard, FreshLeaseIds
  <2>3. lease' \in [Route -> Lease] /\ routeState' \in [Route -> RouteStates]
    BY <2>1, <2>2, TakeLeaseTypes
  <2>4. QED
    BY <1>12, <2>3, ForgottenTypes, ConstantsAssumption DEF AcquireUnheard, TypeOK
<1>13. ASSUME NEW q \in Request, NEW r \in Route, SecretFails(q, r) PROVE TypeOK'
  BY <1>13, ConstantsAssumption DEF SecretFails, TypeOK, Phases
<1>14. ASSUME NEW g \in Gateway, Crash(g) PROVE TypeOK'
  <2>1. snapshot' \in [Gateway -> Snapshot]
    BY <1>14 DEF Crash, TypeOK, NoSnapshot, Snapshot, RetryTime
  <2>2. QED
    BY <1>14, <2>1, ConstantsAssumption
    DEF Crash, TypeOK, Phases, Verdict, Success, RetryTime, Deletion
<1>start. ASSUME NEW g \in Gateway, Start(g) PROVE TypeOK'
  <2>1. Captured \in Snapshot
    BY CapturedType DEF TypeOK
  <2>2. QED
    BY <1>start, <2>1 DEF Start, TypeOK
<1>15. CASE Tick
  <2>1. retryIn' \in [Route -> RetryTime]
    BY <1>15, PassedType DEF Tick, TypeOK
  <2>2. ASSUME NEW r \in Route
        PROVE  [lease[r] EXCEPT !.left = Passed(@)] \in Lease
    <3>1. lease[r] \in Lease /\ lease[r].left \in Nat
      BY DEF TypeOK, Lease
    <3>2. Passed(lease[r].left) \in Nat
      BY <3>1, PassedType DEF RetryTime
    <3>3. QED
      BY <3>1, <3>2 DEF Lease
  <2>3. ASSUME NEW q \in Request
        PROVE  [verdict[q] EXCEPT !.retryIn = Passed(@)] \in Verdict
    <3>1. verdict[q] \in Verdict /\ verdict[q].retryIn \in RetryTime
      BY DEF TypeOK, Verdict
    <3>2. Passed(verdict[q].retryIn) \in RetryTime
      BY <3>1, PassedType
    <3>3. QED
      BY <3>1, <3>2 DEF Verdict
  <2>4. lease' \in [Route -> Lease]
    BY <1>15, <2>2 DEF Tick
  <2>5. verdict' \in [Request -> Verdict]
    BY <1>15, <2>3 DEF Tick
  <2>6. snapshot' \in [Gateway -> Snapshot]
    <3>1. ASSUME NEW g \in Gateway
          PROVE  [snapshot[g] EXCEPT !.retryIn = [r \in Route |-> Passed(@[r])]] \in Snapshot
      <4>1. snapshot[g] \in Snapshot /\ snapshot[g].retryIn \in [Route -> RetryTime]
        BY DEF TypeOK, Snapshot
      <4>2. [r \in Route |-> Passed(snapshot[g].retryIn[r])] \in [Route -> RetryTime]
        BY <4>1, PassedType
      <4>3. QED
        BY <4>1, <4>2 DEF Snapshot
    <3>2. QED
      BY <1>15, <3>1 DEF Tick
  <2>7. QED
    BY <1>15, <2>1, <2>4, <2>5, <2>6 DEF Tick, TypeOK
<1>16. CASE UNCHANGED vars
  BY <1>16 DEF vars, TypeOK
<1>17. QED
  BY NextCases, <1>1, <1>2, <1>3, <1>4, <1>5, <1>6, <1>7, <1>8, <1>9, <1>10, <1>11,
     <1>12, <1>13, <1>14, <1>start, <1>15, <1>16

(* The variables of the circuit, of the processes and of their requests keep   *)
(* their types in every reachable state.                                       *)
THEOREM TypeCorrect == Spec => []TypeOK
<1>1. Init => TypeOK
  BY TypeInit
<1>2. TypeOK /\ [Next]_vars => TypeOK'
  BY TypeStep
<1>3. QED
  BY <1>1, <1>2, PTL DEF Spec

-----------------------------------------------------------------------------
(* Who knows a lease *)

(* Steps that leave the leases, the local maps and the pending DELETEs alone,  *)
(* or only take something out of them.                                         *)
LEMMA KnownStable ==
  ASSUME LeaseKnownToHolder,
         \A r \in Route : \/ lease'[r].id = None
                          \/ /\ lease'[r].id = lease[r].id
                             /\ lease'[r].holder = lease[r].holder,
         \A g \in Gateway, r \in Route : owned'[g][r] = owned[g][r] \/ owned'[g][r] = None,
         \A q \in Request : deleting'[q] = deleting[q] \/ deleting'[q] = None
  PROVE  LeaseKnownToHolder'
BY DEF LeaseKnownToHolder

(* A fresh identity is known to nobody but, perhaps, the process that takes it. *)
LEMMA KnownTakeLease ==
  ASSUME TypeOK, LeaseKnownToHolder, NEW g \in Gateway, NEW r \in Route,
         NEW id \in FreshLeaseIds, TakeLease(g, r, id),
         \A h \in Gateway, s \in Route :
           owned'[h][s] = owned[h][s] \/ (h = g /\ s = r /\ owned'[h][s] = id),
         \A q \in Request : deleting'[q] = deleting[q] \/ deleting'[q] = None
  PROVE  LeaseKnownToHolder'
<1>1. /\ lease'[r].id = id /\ lease'[r].holder = g
      /\ \A s \in Route \ {r} : lease'[s] = lease[s]
  BY DEF TypeOK, TakeLease
<1>2. /\ \A h \in Gateway, s \in Route : owned[h][s] # id
      /\ \A q \in Request : deleting[q] # None => deleting[q].id # id
      /\ \A s \in Route : lease[s].id # id
  BY DEF FreshLeaseIds
<1> SUFFICES ASSUME NEW s \in Route, lease'[s].id # None
             PROVE  /\ \A h \in Gateway : owned'[h][s] = lease'[s].id => h = lease'[s].holder
                    /\ \A q \in Request :
                         (/\ deleting'[q] # None /\ deleting'[q].route = s
                          /\ deleting'[q].id = lease'[s].id) => Home[q] = lease'[s].holder
  BY DEF LeaseKnownToHolder
<1>3. CASE s = r
  BY <1>1, <1>2, <1>3
<1>4. CASE s # r
  BY <1>1, <1>4 DEF LeaseKnownToHolder
<1>5. QED
  BY <1>3, <1>4

LEMMA KnownInit == Init => LeaseKnownToHolder
BY DEF Init, LeaseKnownToHolder, NoLease

LEMMA KnownStep == TypeOK /\ LeaseKnownToHolder /\ [Next]_vars => LeaseKnownToHolder'
<1> SUFFICES ASSUME TypeOK, LeaseKnownToHolder, [Next]_vars PROVE LeaseKnownToHolder'
  OBVIOUS
<1> USE DEF database, requests, budgets, processes, memory
<1>1. ASSUME NEW q \in Request, Query(q) \/ ExecuteFails(q) \/ StreamFails(q)
      PROVE  LeaseKnownToHolder'
  BY <1>1, KnownStable DEF Query, ExecuteFails, StreamFails
<1>2. ASSUME NEW q \in Request, DeleteLease(q) PROVE LeaseKnownToHolder'
  <2>1. \A r \in Route : lease'[r] = lease[r] \/ lease'[r] = NoLease
    BY <1>2 DEF DeleteLease, TypeOK
  <2>2. \A p \in Request : deleting'[p] = deleting[p] \/ deleting'[p] = None
    BY <1>2 DEF DeleteLease, TypeOK
  <2>3. owned' = owned
    BY <1>2 DEF DeleteLease
  <2>4. QED
    BY <2>1, <2>2, <2>3, KnownStable DEF NoLease
<1>3. ASSUME NEW q \in Request, Abandon(q) PROVE LeaseKnownToHolder'
  <2>1. \A p \in Request : deleting'[p] = deleting[p] \/ deleting'[p] = None
    BY <1>3 DEF Abandon, Forgotten, TypeOK
  <2>2. QED
    BY <1>3, <2>1, KnownStable DEF Abandon
<1>4. ASSUME NEW q \in Request, NEW r \in Route, AcquireProbe(q, r)
      PROVE  LeaseKnownToHolder'
  <2>1. PICK id \in FreshLeaseIds : /\ TakeLease(Home[q], r, id)
                                    /\ owned' = [owned EXCEPT ![Home[q]][r] = id]
    BY <1>4 DEF AcquireProbe
  <2>2. Home[q] \in Gateway
    BY ConstantsAssumption
  <2>3. \A h \in Gateway, s \in Route :
          owned'[h][s] = owned[h][s] \/ (h = Home[q] /\ s = r /\ owned'[h][s] = id)
    BY <2>1, <2>2 DEF TypeOK
  <2>4. deleting' = deleting
    BY <1>4 DEF AcquireProbe
  <2>5. QED
    BY <2>1, <2>2, <2>3, <2>4, KnownTakeLease
<1>5. ASSUME NEW q \in Request, NEW r \in Route,
             RefuseProbe(q, r) \/ Commit(q, r) \/ Completes(q, r) \/ Settle(q, r)
               \/ SecretFails(q, r)
      PROVE  LeaseKnownToHolder'
  BY <1>5, KnownStable DEF RefuseProbe, Commit, Completes, Settle, SecretFails
<1>6. ASSUME NEW q \in Request, NEW r \in Route, ForgetLease(q, r)
      PROVE  LeaseKnownToHolder'
  <2> DEFINE id == owned[Home[q]][r]
  <2>1. Home[q] \in Gateway
    BY ConstantsAssumption
  <2>2. /\ lease' = lease
        /\ \A h \in Gateway, s \in Route : owned'[h][s] = owned[h][s] \/ owned'[h][s] = None
    BY <1>6, <2>1 DEF ForgetLease, TypeOK
  <2>3. \A p \in Request : \/ deleting'[p] = deleting[p]
                           \/ deleting'[p] = None
                           \/ p = q /\ id # None /\ deleting'[p] = [route |-> r, id |-> id]
    BY <1>6 DEF ForgetLease, DeletionOf, TypeOK
  <2> HIDE DEF id
  <2> SUFFICES ASSUME NEW s \in Route, lease[s].id # None
               PROVE  /\ \A h \in Gateway : owned'[h][s] = lease[s].id => h = lease[s].holder
                      /\ \A p \in Request :
                           (/\ deleting'[p] # None /\ deleting'[p].route = s
                            /\ deleting'[p].id = lease[s].id) => Home[p] = lease[s].holder
    BY <2>2 DEF LeaseKnownToHolder
  <2>4. \A h \in Gateway : owned'[h][s] = lease[s].id => h = lease[s].holder
    BY <2>2 DEF LeaseKnownToHolder
  <2>5. ASSUME NEW p \in Request, deleting'[p] # None, deleting'[p].route = s,
               deleting'[p].id = lease[s].id
        PROVE  Home[p] = lease[s].holder
    <3>1. CASE deleting'[p] = deleting[p]
      BY <2>5, <3>1 DEF LeaseKnownToHolder
    <3>2. CASE p = q /\ deleting'[p] = [route |-> r, id |-> id]
      BY <2>1, <2>5, <3>2 DEF LeaseKnownToHolder, id
    <3>3. QED
      BY <2>3, <2>5, <3>1, <3>2
  <2>6. QED
    BY <2>4, <2>5
<1>7. ASSUME NEW q \in Request, NEW r \in Route, AcquireUnheard(q, r)
      PROVE  LeaseKnownToHolder'
  <2>1. PICK id \in FreshLeaseIds : TakeLease(Home[q], r, id)
    BY <1>7 DEF AcquireUnheard
  <2>2. Home[q] \in Gateway /\ owned' = owned
    BY <1>7, ConstantsAssumption DEF AcquireUnheard
  <2>3. \A p \in Request : deleting'[p] = deleting[p] \/ deleting'[p] = None
    BY <1>7 DEF AcquireUnheard, Forgotten, TypeOK
  <2>4. QED
    BY <2>1, <2>2, <2>3, KnownTakeLease
<1>8. ASSUME NEW g \in Gateway, Crash(g) PROVE LeaseKnownToHolder'
  <2>1. \A h \in Gateway, s \in Route : owned'[h][s] = owned[h][s] \/ owned'[h][s] = None
    BY <1>8 DEF Crash, TypeOK
  <2>2. \A p \in Request : deleting'[p] = deleting[p] \/ deleting'[p] = None
    BY <1>8 DEF Crash
  <2>3. QED
    BY <1>8, <2>1, <2>2, KnownStable DEF Crash
<1>start. ASSUME NEW g \in Gateway, Start(g) PROVE LeaseKnownToHolder'
  BY <1>start, KnownStable DEF Start
<1>9. CASE Tick
  <2>1. \A r \in Route : lease'[r].id = lease[r].id /\ lease'[r].holder = lease[r].holder
    BY <1>9 DEF Tick, TypeOK, Lease
  <2>2. QED
    BY <1>9, <2>1, KnownStable DEF Tick
<1>10. CASE UNCHANGED vars
  BY <1>10, KnownStable DEF vars
<1>11. QED
  BY NextCases, <1>1, <1>2, <1>3, <1>4, <1>5, <1>6, <1>7, <1>8, <1>start, <1>9, <1>10

(* A lease identity is known only to the process that inserted its row: the    *)
(* reason why the DELETE of a slow release can name nobody else's lease.       *)
THEOREM LeaseKnownToHolderAlways == Spec => []LeaseKnownToHolder
<1>1. Init => LeaseKnownToHolder
  BY KnownInit
<1>2. TypeOK /\ LeaseKnownToHolder /\ [Next]_vars => LeaseKnownToHolder'
  BY KnownStep
<1>3. QED
  BY <1>1, <1>2, TypeCorrect, PTL DEF Spec

-----------------------------------------------------------------------------
(* Which steps touch a lease row or a route's state *)

LEMMA LeaseSteps ==
  ASSUME TypeOK, [Next]_vars
  PROVE  \/ \A r \in Route : lease'[r].id = lease[r].id
         \/ \E q \in Request, r \in Route, id \in FreshLeaseIds :
              ProbeGranted(Home[q], r) /\ TakeLease(Home[q], r, id)
         \/ \E q \in Request : DeleteLease(q)
<1> USE DEF database, requests, budgets, processes, memory
<1>1. ASSUME NEW q \in Request,
             Query(q) \/ ExecuteFails(q) \/ StreamFails(q) \/ Abandon(q)
      PROVE  lease' = lease
  BY <1>1 DEF Query, ExecuteFails, StreamFails, Abandon
<1>2. ASSUME NEW q \in Request, NEW r \in Route,
             RefuseProbe(q, r) \/ Commit(q, r) \/ Completes(q, r) \/ Settle(q, r)
               \/ ForgetLease(q, r) \/ SecretFails(q, r)
      PROVE  lease' = lease
  BY <1>2 DEF RefuseProbe, Commit, Completes, Settle, ForgetLease, SecretFails
<1>3. ASSUME NEW q \in Request, NEW r \in Route, AcquireProbe(q, r) \/ AcquireUnheard(q, r)
      PROVE  \E id \in FreshLeaseIds : ProbeGranted(Home[q], r) /\ TakeLease(Home[q], r, id)
  BY <1>3 DEF AcquireProbe, AcquireUnheard
<1>4. ASSUME NEW g \in Gateway, Crash(g) \/ Start(g) PROVE lease' = lease
  BY <1>4 DEF Crash, Start
<1>5. CASE Tick
  BY <1>5 DEF Tick, TypeOK, Lease
<1>6. CASE UNCHANGED vars
  BY <1>6 DEF vars
<1>7. QED
  BY NextCases, <1>1, <1>2, <1>3, <1>4, <1>5, <1>6

(* A lease row disappears only by the DELETE of a request of its holder. *)
THEOREM ReleaseSafe == Spec => ReleasedByHolder
<1> DEFINE Released ==
      \A r \in Route : (lease[r].id # None /\ lease'[r].id = None)
        => \E q \in Request : /\ Home[q] = lease[r].holder
                              /\ deleting[q] # None
                              /\ deleting'[q] = None
                              /\ deleting[q].route = r
<1>1. TypeOK /\ LeaseKnownToHolder /\ [Next]_vars => [Released]_vars
  <2> SUFFICES ASSUME TypeOK, LeaseKnownToHolder, [Next]_vars PROVE Released
    OBVIOUS
  <2>1. CASE \A r \in Route : lease'[r].id = lease[r].id
    BY <2>1
  <2>2. ASSUME NEW q \in Request, NEW r \in Route, NEW id \in FreshLeaseIds,
               ProbeGranted(Home[q], r), TakeLease(Home[q], r, id)
        PROVE  Released
    <3>1. id # None
      BY ConstantsAssumption DEF FreshLeaseIds
    <3>2. QED
      BY <2>2, <3>1 DEF TypeOK, TakeLease
  <2>3. ASSUME NEW q \in Request, DeleteLease(q) PROVE Released
    <3> SUFFICES ASSUME NEW r \in Route, lease[r].id # None, lease'[r].id = None
                 PROVE  /\ Home[q] = lease[r].holder
                        /\ deleting[q] # None
                        /\ deleting'[q] = None
                        /\ deleting[q].route = r
      OBVIOUS
    <3>1. deleting[q] # None /\ deleting'[q] = None
      BY <2>3 DEF DeleteLease, TypeOK
    <3>2. LeaseMatches(deleting[q]) /\ r = deleting[q].route
      BY <2>3 DEF DeleteLease, TypeOK
    <3>3. QED
      BY <3>1, <3>2 DEF LeaseKnownToHolder, LeaseMatches
  <2>4. QED
    BY <2>1, <2>2, <2>3, LeaseSteps
<1>2. QED
  BY <1>1, TypeCorrect, LeaseKnownToHolderAlways, PTL DEF Spec, ReleasedByHolder

(* The steps that change a route's state or retry time: a probe, a verdict and *)
(* the passing of time.                                                        *)
LEMMA RouteSteps ==
  ASSUME TypeOK, [Next]_vars
  PROVE  \/ routeState' = routeState /\ retryIn' = retryIn
         \/ \E q \in Request, r \in Route, id \in FreshLeaseIds :
              /\ ProbeGranted(Home[q], r)
              /\ TakeLease(Home[q], r, id)
              /\ retryIn' = retryIn
         \/ \E q \in Request, r \in Route : Settle(q, r)
         \/ Tick
<1> USE DEF database, requests, budgets, processes, memory
<1>1. ASSUME NEW q \in Request, \/ Query(q) \/ ExecuteFails(q) \/ StreamFails(q)
                                \/ DeleteLease(q) \/ Abandon(q)
      PROVE  routeState' = routeState /\ retryIn' = retryIn
  BY <1>1 DEF Query, ExecuteFails, StreamFails, DeleteLease, Abandon
<1>2. ASSUME NEW q \in Request, NEW r \in Route,
             RefuseProbe(q, r) \/ Commit(q, r) \/ Completes(q, r)
               \/ ForgetLease(q, r) \/ SecretFails(q, r)
      PROVE  routeState' = routeState /\ retryIn' = retryIn
  BY <1>2 DEF RefuseProbe, Commit, Completes, ForgetLease, SecretFails
<1>3. ASSUME NEW q \in Request, NEW r \in Route, AcquireProbe(q, r) \/ AcquireUnheard(q, r)
      PROVE  \E id \in FreshLeaseIds : /\ ProbeGranted(Home[q], r)
                                       /\ TakeLease(Home[q], r, id)
                                       /\ retryIn' = retryIn
  BY <1>3 DEF AcquireProbe, AcquireUnheard
<1>4. ASSUME NEW g \in Gateway, Crash(g) \/ Start(g)
      PROVE  routeState' = routeState /\ retryIn' = retryIn
  BY <1>4 DEF Crash, Start
<1>5. CASE UNCHANGED vars
  BY <1>5 DEF vars
<1>6. QED
  BY NextCases, <1>1, <1>2, <1>3, <1>4, <1>5

(* No lease outlasts LeaseSeconds. *)
LeasesAreShort == \A r \in Route : lease[r].left <= LeaseSeconds

LEMMA RetryableInit == Init => HalfOpenIsRetryable /\ LeasesAreShort
BY ConstantsAssumption DEF Init, HalfOpenIsRetryable, LeasesAreShort, NoLease

LEMMA ShortStep == TypeOK /\ LeasesAreShort /\ [Next]_vars => LeasesAreShort'
<1> SUFFICES ASSUME TypeOK, LeasesAreShort, [Next]_vars PROVE LeasesAreShort'
  OBVIOUS
<1>1. ASSUME NEW q \in Request, NEW r \in Route, NEW id \in FreshLeaseIds,
             TakeLease(Home[q], r, id)
      PROVE  LeasesAreShort'
  BY <1>1, ConstantsAssumption DEF TypeOK, TakeLease, LeasesAreShort
<1>2. ASSUME NEW q \in Request, DeleteLease(q) PROVE LeasesAreShort'
  BY <1>2, ConstantsAssumption DEF TypeOK, DeleteLease, LeasesAreShort, NoLease
<1>3. CASE Tick
  <2> SUFFICES ASSUME NEW r \in Route PROVE lease'[r].left <= LeaseSeconds
    BY DEF LeasesAreShort
  <2>1. lease[r] \in Lease /\ lease[r].left \in Nat /\ lease[r].left <= LeaseSeconds
    BY DEF TypeOK, Lease, LeasesAreShort
  <2>2. lease'[r] = [lease[r] EXCEPT !.left = Passed(@)]
    BY <1>3 DEF Tick
  <2>3. lease'[r].left = Passed(lease[r].left)
    BY <2>1, <2>2 DEF Lease
  <2>4. QED
    BY <2>1, <2>3, ConstantsAssumption DEF Passed
<1>4. CASE lease' = lease
  BY <1>4 DEF LeasesAreShort
<1>5. ~ Tick /\ (\A q \in Request : ~ DeleteLease(q))
        /\ (\A q \in Request, r \in Route : ~ AcquireProbe(q, r) /\ ~ AcquireUnheard(q, r))
        => lease' = lease
  <2> USE DEF database, processes, memory
  <2>1. \A q \in Request : Query(q) \/ ExecuteFails(q) \/ StreamFails(q) \/ Abandon(q)
                            => lease' = lease
    BY DEF Query, ExecuteFails, StreamFails, Abandon
  <2>2. \A q \in Request, r \in Route :
          RefuseProbe(q, r) \/ Commit(q, r) \/ Completes(q, r) \/ Settle(q, r)
            \/ ForgetLease(q, r) \/ SecretFails(q, r)
            => lease' = lease
    BY DEF RefuseProbe, Commit, Completes, Settle, ForgetLease, SecretFails
  <2>3. \A g \in Gateway : Crash(g) \/ Start(g) => lease' = lease
    BY DEF Crash, Start
  <2>4. CASE UNCHANGED vars
    BY <2>4 DEF vars
  <2>5. QED
    BY NextCases, <2>1, <2>2, <2>3, <2>4
<1>6. ASSUME NEW q \in Request, NEW r \in Route, AcquireProbe(q, r) \/ AcquireUnheard(q, r)
      PROVE  \E id \in FreshLeaseIds : TakeLease(Home[q], r, id)
  BY <1>6 DEF AcquireProbe, AcquireUnheard
<1>7. QED
  BY <1>1, <1>2, <1>3, <1>4, <1>5, <1>6

LEMMA RetryableStep ==
  TypeOK /\ HalfOpenIsRetryable /\ LeasesAreShort /\ LeasesAreShort' /\ [Next]_vars
    => HalfOpenIsRetryable'
<1> SUFFICES ASSUME TypeOK, HalfOpenIsRetryable, LeasesAreShort', [Next]_vars
             PROVE  \A r \in Route : routeState'[r] = "half_open" => retryIn'[r] = 0
  BY DEF HalfOpenIsRetryable, LeasesAreShort, RetryPassed
<1>1. CASE routeState' = routeState /\ retryIn' = retryIn
  BY <1>1 DEF HalfOpenIsRetryable, RetryPassed
<1>2. ASSUME NEW q \in Request, NEW r \in Route, NEW id \in FreshLeaseIds,
             ProbeGranted(Home[q], r), TakeLease(Home[q], r, id), retryIn' = retryIn
      PROVE  \A s \in Route : routeState'[s] = "half_open" => retryIn'[s] = 0
  BY <1>2 DEF TypeOK, ProbeGranted, TakeLease, CanTransition, HalfOpenIsRetryable, RetryPassed
<1>3. ASSUME NEW q \in Request, NEW r \in Route, Settle(q, r)
      PROVE  \A s \in Route : routeState'[s] = "half_open" => retryIn'[s] = 0
  BY <1>3 DEF TypeOK, Settle, HalfOpenIsRetryable, RetryPassed
<1>4. CASE Tick
  BY <1>4 DEF Tick, Passed, HalfOpenIsRetryable, RetryPassed
<1>5. QED
  BY <1>1, <1>2, <1>3, <1>4, RouteSteps

(* A half-open route can be selected and its lease ends: no holder, crashed or *)
(* slow, keeps it from every process for ever.                                 *)
THEOREM HalfOpenStaysRetryable == Spec => []HalfOpenIsRetryable
<1>1. Init => HalfOpenIsRetryable /\ LeasesAreShort
  BY RetryableInit
<1>2. TypeOK /\ HalfOpenIsRetryable /\ LeasesAreShort /\ [Next]_vars
        => HalfOpenIsRetryable' /\ LeasesAreShort'
  BY RetryableStep, ShortStep
<1>3. QED
  BY <1>1, <1>2, TypeCorrect, PTL DEF Spec

-----------------------------------------------------------------------------
(* Leases in use *)

(* A request uses a route from its choice until it has released it. *)
InUse(q, r) ==
  /\ IsFirst(r, eligible[q])
  /\ phase[q] = "releasing" => r \in toRelease[q]

OwnedIsBeforeRelease ==
  faults = MaxFaults =>
    \A g \in Gateway, r \in Route : owned[g][r] # None =>
      \E q \in Request : Home[q] = g /\ InUse(q, r)

(* A request that has not chosen yet has nothing to try. *)
ChoosingHasNothing ==
  \A q \in Request : phase[q] \in {"idle", "planning"} => eligible[q] = {}

UseInv == OwnedIsBeforeRelease /\ ChoosingHasNothing

LEMMA FirstIsOne ==
  ASSUME NEW routes \in SUBSET Route, NEW r \in Route, NEW s \in Route,
         IsFirst(r, routes), IsFirst(s, routes)
  PROVE  r = s
BY ConstantsAssumption DEF IsFirst

LEMMA ChoosingStep == TypeOK /\ ChoosingHasNothing /\ [Next]_vars => ChoosingHasNothing'
<1> SUFFICES ASSUME TypeOK, ChoosingHasNothing, [Next]_vars PROVE ChoosingHasNothing'
  OBVIOUS
<1> USE DEF requests, processes, memory
<1>1. ASSUME NEW q \in Request, NEW rows, NEW closed, Scan(q, rows, closed)
      PROVE  ChoosingHasNothing'
  BY <1>1 DEF Scan, ChoosingHasNothing, TypeOK
<1>2. ASSUME NEW q \in Request, NEW released, GoOn(q, released) PROVE ChoosingHasNothing'
  BY <1>2 DEF GoOn, ChoosingHasNothing, TypeOK
<1>3. ASSUME NEW q \in Request, Forgotten(q) PROVE ChoosingHasNothing'
  BY <1>3 DEF Forgotten, ChoosingHasNothing, TypeOK
<1>4. ASSUME NEW q \in Request, Query(q) PROVE ChoosingHasNothing'
  BY <1>1, <1>4 DEF Query
<1>5. ASSUME NEW q \in Request, ExecuteFails(q) \/ StreamFails(q) PROVE ChoosingHasNothing'
  BY <1>5 DEF ExecuteFails, StreamFails, ChoosingHasNothing, TypeOK
<1>6. ASSUME NEW q \in Request, DeleteLease(q) PROVE ChoosingHasNothing'
  BY <1>2, <1>6 DEF DeleteLease
<1>7. ASSUME NEW q \in Request, Abandon(q) PROVE ChoosingHasNothing'
  BY <1>3, <1>7 DEF Abandon
<1>8. ASSUME NEW q \in Request, NEW r \in Route, RefuseProbe(q, r) PROVE ChoosingHasNothing'
  BY <1>1, <1>8 DEF RefuseProbe
<1>9. ASSUME NEW q \in Request, NEW r \in Route,
             AcquireProbe(q, r) \/ Commit(q, r) \/ Completes(q, r)
      PROVE  ChoosingHasNothing'
  BY <1>9 DEF AcquireProbe, Commit, Completes, ChoosingHasNothing, TypeOK
<1>10. ASSUME NEW q \in Request, NEW r \in Route, Settle(q, r) PROVE ChoosingHasNothing'
  BY <1>10 DEF Settle, ChoosingHasNothing, TypeOK
<1>11. ASSUME NEW q \in Request, NEW r \in Route, ForgetLease(q, r) PROVE ChoosingHasNothing'
  <2>1. PICK released : GoOn(q, released)
    BY <1>11 DEF ForgetLease
  <2>2. QED
    BY <1>2, <2>1
<1>12. ASSUME NEW q \in Request, NEW r \in Route, AcquireUnheard(q, r)
       PROVE  ChoosingHasNothing'
  BY <1>3, <1>12 DEF AcquireUnheard
<1>13. ASSUME NEW q \in Request, NEW r \in Route, SecretFails(q, r) PROVE ChoosingHasNothing'
  BY <1>13 DEF SecretFails, ChoosingHasNothing, TypeOK
<1>14. ASSUME NEW g \in Gateway, Crash(g) \/ Start(g) PROVE ChoosingHasNothing'
  BY <1>14 DEF Crash, Start, ChoosingHasNothing
<1>15. CASE Tick \/ UNCHANGED vars
  BY <1>15 DEF Tick, vars, ChoosingHasNothing
<1>16. QED
  BY NextCases, <1>4, <1>5, <1>6, <1>7, <1>8, <1>9, <1>10, <1>11, <1>12, <1>13, <1>14, <1>15

(* A step of one request that takes nothing out of use but, perhaps, routes     *)
(* that its process does not own afterwards.                                    *)
LEMMA UseKept ==
  ASSUME OwnedIsBeforeRelease, faults = MaxFaults, NEW q \in Request,
         \A p \in Request \ {q} : /\ eligible'[p] = eligible[p] /\ phase'[p] = phase[p]
                                  /\ toRelease'[p] = toRelease[p],
         \A g \in Gateway, r \in Route : owned'[g][r] # None =>
           \/ owned[g][r] # None
           \/ Home[q] = g /\ InUse(q, r)',
         \A r \in Route : InUse(q, r) => InUse(q, r)' \/ owned'[Home[q]][r] = None
  PROVE  OwnedIsBeforeRelease'
<1> SUFFICES ASSUME NEW g \in Gateway, NEW r \in Route, owned'[g][r] # None
             PROVE  \E p \in Request : Home[p] = g /\ InUse(p, r)'
  BY DEF OwnedIsBeforeRelease
<1>1. CASE Home[q] = g /\ InUse(q, r)'
  BY <1>1
<1>2. CASE owned[g][r] # None
  <2>1. PICK p \in Request : Home[p] = g /\ InUse(p, r)
    BY <1>2 DEF OwnedIsBeforeRelease
  <2>2. CASE p = q
    BY <2>1, <2>2
  <2>3. CASE p # q
    BY <2>1, <2>3 DEF InUse, IsFirst
  <2>4. QED
    BY <2>2, <2>3
<1>3. QED
  BY <1>1, <1>2

(* A step that spends a fault leaves nothing to show. *)
LEMMA FaultSpent ==
  ASSUME TypeOK, faults > 0, faults' = faults - 1
  PROVE  OwnedIsBeforeRelease'
BY ConstantsAssumption DEF TypeOK, OwnedIsBeforeRelease

LEMMA UseStep == TypeOK /\ UseInv /\ [Next]_vars => OwnedIsBeforeRelease'
<1> SUFFICES ASSUME TypeOK, UseInv, [Next]_vars, faults' = MaxFaults
             PROVE  OwnedIsBeforeRelease'
  BY DEF OwnedIsBeforeRelease
<1> USE DEF requests, budgets, processes, memory
<1> DEFINE Alone(q) ==
      \A p \in Request \ {q} : /\ eligible'[p] = eligible[p] /\ phase'[p] = phase[p]
                               /\ toRelease'[p] = toRelease[p]
<1>0. OwnedIsBeforeRelease /\ ChoosingHasNothing
  BY DEF UseInv
<1>1. ASSUME NEW q \in Request, eligible[q] = {}, Alone(q), owned' = owned, faults' = faults
      PROVE  OwnedIsBeforeRelease'
  <2>1. \A r \in Route : ~ InUse(q, r)
    BY <1>1 DEF InUse, IsFirst
  <2>2. QED
    BY <1>0, <1>1, <2>1, UseKept
<1>2. ASSUME NEW q \in Request, Query(q) PROVE OwnedIsBeforeRelease'
  <2>1. eligible[q] = {}
    BY <1>0, <1>2 DEF Query, ChoosingHasNothing
  <2>2. Alone(q) /\ owned' = owned /\ faults' = faults
    BY <1>2 DEF Query, Scan, TypeOK
  <2>3. QED
    BY <1>1, <2>1, <2>2
<1>3. ASSUME NEW q \in Request, NEW r \in Route, RefuseProbe(q, r) PROVE OwnedIsBeforeRelease'
  <2>1. eligible[q] = {}
    BY <1>0, <1>3 DEF RefuseProbe, ChoosingHasNothing
  <2>2. Alone(q) /\ owned' = owned /\ faults' = faults
    BY <1>3 DEF RefuseProbe, Scan, TypeOK
  <2>3. QED
    BY <1>1, <2>1, <2>2
<1>4. ASSUME NEW q \in Request, ExecuteFails(q) \/ StreamFails(q) PROVE OwnedIsBeforeRelease'
  <2>1. Alone(q) /\ owned' = owned /\ faults' = faults /\ eligible' = eligible
    BY <1>4 DEF ExecuteFails, StreamFails, TypeOK
  <2>2. phase'[q] = "settling"
    BY <1>4 DEF ExecuteFails, StreamFails, TypeOK
  <2>3. \A r \in Route : InUse(q, r) => InUse(q, r)'
    BY <2>1, <2>2 DEF InUse, IsFirst
  <2>4. QED
    BY <1>0, <2>1, <2>3, UseKept
<1>5. ASSUME NEW q \in Request, NEW r \in Route, Commit(q, r) \/ Completes(q, r)
      PROVE  OwnedIsBeforeRelease'
  <2>1. Alone(q) /\ owned' = owned /\ faults' = faults
    BY <1>5 DEF Commit, Completes, TypeOK
  <2>2. IsFirst(r, eligible[q]) /\ eligible'[q] = {r} /\ phase'[q] # "releasing"
    BY <1>5 DEF Commit, Completes, TypeOK
  <2>3. ASSUME NEW s \in Route, InUse(q, s) PROVE InUse(q, s)'
    <3>1. s = r
      BY <2>2, <2>3, FirstIsOne DEF InUse, TypeOK
    <3>2. QED
      BY <2>2, <3>1, ConstantsAssumption DEF InUse, IsFirst
  <2>4. QED
    BY <1>0, <2>1, <2>3, UseKept
<1>6. ASSUME NEW q \in Request, NEW r \in Route, AcquireProbe(q, r)
      PROVE  OwnedIsBeforeRelease'
  <2>1. eligible[q] = {}
    BY <1>0, <1>6 DEF AcquireProbe, ChoosingHasNothing
  <2>2. Alone(q) /\ faults' = faults
    BY <1>6 DEF AcquireProbe, TypeOK
  <2>3. InUse(q, r)'
    <3>1. eligible'[q] = {r} \union (todo[q] \cap seenClosed[q]) /\ phase'[q] = "routed"
      BY <1>6 DEF AcquireProbe, TypeOK
    <3>2. \A s \in todo[q] : r <= s
      BY <1>6 DEF AcquireProbe, IsFirst
    <3>3. r <= r
      BY ConstantsAssumption
    <3>4. QED
      BY <3>1, <3>2, <3>3 DEF InUse, IsFirst
  <2>4. \A g \in Gateway, s \in Route :
          owned'[g][s] # None => owned[g][s] # None \/ (g = Home[q] /\ s = r)
    <3>1. PICK id \in FreshLeaseIds : owned' = [owned EXCEPT ![Home[q]][r] = id]
      BY <1>6 DEF AcquireProbe
    <3>2. QED
      BY <3>1 DEF TypeOK
  <2>5. \A s \in Route : ~ InUse(q, s)
    BY <2>1 DEF InUse, IsFirst
  <2>6. QED
    BY <1>0, <2>2, <2>3, <2>4, <2>5, UseKept
<1>7. ASSUME NEW q \in Request, NEW r \in Route, Settle(q, r) PROVE OwnedIsBeforeRelease'
  <2>1. Alone(q) /\ owned' = owned /\ faults' = faults /\ eligible' = eligible
    BY <1>7 DEF Settle, TypeOK
  <2>2. IsFirst(r, eligible[q]) /\ r \in toRelease'[q]
    BY <1>7 DEF Settle, TypeOK
  <2>3. \A s \in Route : InUse(q, s) => InUse(q, s)'
    BY <2>1, <2>2, FirstIsOne DEF InUse, IsFirst, TypeOK
  <2>4. QED
    BY <1>0, <2>1, <2>3, UseKept
<1>8. ASSUME NEW q \in Request, NEW r \in Route, ForgetLease(q, r) PROVE OwnedIsBeforeRelease'
  <2> DEFINE released == owned[Home[q]][r] = None /\ toRelease[q] = {r}
  <2>1. GoOn(q, released) /\ phase[q] = "releasing"
    BY <1>8 DEF ForgetLease
  <2>2. /\ toRelease' = [toRelease EXCEPT ![q] = @ \ {r}]
        /\ owned' = [owned EXCEPT ![Home[q]][r] = None]
        /\ faults' = faults
    BY <1>8 DEF ForgetLease
  <2>3. Alone(q)
    BY <2>1, <2>2 DEF GoOn, TypeOK
  <2>4. /\ owned'[Home[q]][r] = None
        /\ \A g \in Gateway, s \in Route : owned'[g][s] # None => owned[g][s] # None
    BY <2>2, ConstantsAssumption DEF TypeOK
  <2>5. ASSUME NEW s \in Route, InUse(q, s), s # r PROVE InUse(q, s)'
    <3>1. s \in toRelease[q]
      BY <2>1, <2>5 DEF InUse
    <3>2. phase' = phase /\ eligible' = eligible
      BY <2>1, <2>5, <3>1 DEF GoOn
    <3>3. s \in toRelease'[q]
      BY <2>2, <2>5, <3>1 DEF TypeOK
    <3>4. QED
      BY <2>5, <3>2, <3>3 DEF InUse, IsFirst
  <2>6. QED
    BY <1>0, <2>2, <2>3, <2>4, <2>5, UseKept
<1>9. ASSUME NEW q \in Request, DeleteLease(q) PROVE OwnedIsBeforeRelease'
  <2> DEFINE released == toRelease[q] = {}
  <2>1. GoOn(q, released) /\ phase[q] = "releasing"
    BY <1>9 DEF DeleteLease
  <2>2. toRelease' = toRelease /\ owned' = owned /\ faults' = faults
    BY <1>9 DEF DeleteLease
  <2>3. Alone(q)
    BY <2>1, <2>2 DEF GoOn, TypeOK
  <2>4. ASSUME NEW s \in Route, InUse(q, s) PROVE InUse(q, s)'
    <3>1. s \in toRelease[q]
      BY <2>1, <2>4 DEF InUse
    <3>2. phase' = phase /\ eligible' = eligible
      BY <2>1, <3>1 DEF GoOn
    <3>3. QED
      BY <2>2, <2>4, <3>2 DEF InUse, IsFirst
  <2>5. QED
    BY <1>0, <2>2, <2>3, <2>4, UseKept
<1>10. ASSUME NEW q \in Request, Abandon(q) PROVE OwnedIsBeforeRelease'
  BY <1>10, FaultSpent DEF Abandon
<1>11. ASSUME NEW q \in Request, NEW r \in Route, AcquireUnheard(q, r) \/ SecretFails(q, r)
       PROVE  OwnedIsBeforeRelease'
  BY <1>11, FaultSpent DEF AcquireUnheard, SecretFails
<1>12. ASSUME NEW g \in Gateway, Crash(g) PROVE OwnedIsBeforeRelease'
  <2> SUFFICES ASSUME NEW h \in Gateway, NEW r \in Route, owned'[h][r] # None
               PROVE  \E q \in Request : Home[q] = h /\ InUse(q, r)'
    BY DEF OwnedIsBeforeRelease
  <2>1. h # g /\ owned[h][r] # None
    BY <1>12 DEF Crash, TypeOK
  <2>2. faults = MaxFaults
    BY <1>12 DEF Crash
  <2>3. PICK q \in Request : Home[q] = h /\ InUse(q, r)
    BY <1>0, <2>1, <2>2 DEF OwnedIsBeforeRelease
  <2>4. /\ eligible'[q] = eligible[q] /\ phase'[q] = phase[q]
        /\ toRelease'[q] = toRelease[q]
    BY <1>12, <2>1, <2>3 DEF Crash
  <2>5. QED
    BY <2>3, <2>4 DEF InUse, IsFirst
<1>13. ASSUME Tick \/ UNCHANGED vars \/ \E g \in Gateway : Start(g)
       PROVE  OwnedIsBeforeRelease'
  BY <1>0, <1>13 DEF Tick, Start, vars, OwnedIsBeforeRelease, InUse, IsFirst
<1>14. QED
  BY NextCases, <1>2, <1>3, <1>4, <1>5, <1>6, <1>7, <1>8, <1>9, <1>10, <1>11, <1>12, <1>13

(* As long as no client has gone away, the local map names a route only while a *)
(* request of its process is on it: every verdict releases its probe, whatever  *)
(* crashes and whichever process takes a lease over.                            *)
THEOREM OwnedAlwaysInUse == Spec => []OwnedIsInUse
<1>1. Init => UseInv
  BY DEF Init, UseInv, OwnedIsBeforeRelease, ChoosingHasNothing
<1>2. TypeOK /\ UseInv /\ [Next]_vars => UseInv'
  BY UseStep, ChoosingStep DEF UseInv
<1>3. UseInv => OwnedIsInUse
  BY DEF UseInv, OwnedIsBeforeRelease, OwnedIsInUse, InUse
<1>4. QED
  BY <1>1, <1>2, <1>3, TypeCorrect, PTL DEF Spec

-----------------------------------------------------------------------------
(* The circuit that the rows and the requests promise together *)

(* What a request has in each phase: routes to choose from while it plans,     *)
(* routes to try from then on, and, once its verdict is written, leases to     *)
(* give back that are of the account of a route it was offered.                *)
InPhase(q) ==
  /\ phase[q] \in {"idle", "planning"} => eligible[q] = {}
  /\ phase[q] # "planning" => todo[q] = {}
  /\ phase[q] # "releasing" => deleting[q] = None
  /\ phase[q] = "releasing" =>
       \E r \in eligible[q] :
         /\ \A s \in toRelease[q] : AccountOf[s] = AccountOf[r]
         /\ deleting[q] # None => AccountOf[deleting[q].route] = AccountOf[r]

RequestsInPhase == \A q \in Request : InPhase(q)

StepOf(q) == Query(q) \/ Progress(q) \/ Disturbance(q)

(* A request that a step is not about. *)
Untouched(p) ==
  /\ phase'[p] = phase[p] /\ todo'[p] = todo[p] /\ eligible'[p] = eligible[p]
  /\ toRelease'[p] = toRelease[p] /\ deleting'[p] = deleting[p]

LEMMA StepOfOne ==
  ASSUME TypeOK, NEW q \in Request, StepOf(q), NEW p \in Request, p # q
  PROVE  Untouched(p)
<1> USE DEF requests, processes, memory
<1>1. ASSUME NEW rows, NEW closed, Scan(q, rows, closed), UNCHANGED <<toRelease, deleting>>
      PROVE  Untouched(p)
  BY <1>1 DEF Scan, Untouched, TypeOK
<1>2. ASSUME NEW released, GoOn(q, released)
      PROVE  phase'[p] = phase[p] /\ eligible'[p] = eligible[p]
  BY <1>2 DEF GoOn, TypeOK
<1>3. CASE Forgotten(q)
  BY <1>3 DEF Forgotten, Untouched, TypeOK
<1>4. CASE Query(q)
  BY <1>1, <1>4 DEF Query
<1>5. CASE ExecuteFails(q) \/ StreamFails(q)
  BY <1>5 DEF ExecuteFails, StreamFails, Untouched, TypeOK
<1>6. CASE DeleteLease(q)
  BY <1>2, <1>6 DEF DeleteLease, Untouched, TypeOK
<1>7. ASSUME NEW r \in Route, RefuseProbe(q, r) PROVE Untouched(p)
  BY <1>1, <1>7 DEF RefuseProbe
<1>8. ASSUME NEW r \in Route, AcquireProbe(q, r) \/ Commit(q, r) \/ Completes(q, r)
                                \/ Settle(q, r) \/ SecretFails(q, r)
      PROVE  Untouched(p)
  BY <1>8 DEF AcquireProbe, Commit, Completes, Settle, SecretFails, Untouched, TypeOK
<1>9. ASSUME NEW r \in Route, ForgetLease(q, r) PROVE Untouched(p)
  <2>1. PICK released : GoOn(q, released)
    BY <1>9 DEF ForgetLease
  <2>2. QED
    BY <1>2, <1>9, <2>1 DEF ForgetLease, Untouched, TypeOK
<1>10. CASE Abandon(q) \/ \E r \in Route : AcquireUnheard(q, r)
  BY <1>3, <1>10 DEF Abandon, AcquireUnheard
<1>11. QED
  BY <1>4, <1>5, <1>6, <1>7, <1>8, <1>9, <1>10 DEF StepOf, Progress, Disturbance

(* What the loop of candidates and the end of a release leave a request. *)
LEMMA ScanLeaves ==
  ASSUME TypeOK, NEW q \in Request, NEW rows, NEW closed, Scan(q, rows, closed)
  PROVE  /\ \/ phase'[q] = "planning" /\ eligible'[q] = {} /\ todo'[q] = rows
            \/ phase'[q] = "routed" /\ todo'[q] = {}
            \/ phase'[q] = "idle" /\ eligible'[q] = {} /\ todo'[q] = {}
         /\ \/ eligible'[q] \union todo'[q] \subseteq rows
            \/ eligible'[q] \union todo'[q] \subseteq SnapshotRoutes(Home[q])
<1> DEFINE probing == \E r \in rows \ closed : IsFirst(r, rows)
           routes  == IF rows # {} THEN rows \cap closed ELSE SnapshotRoutes(Home[q])
<1>1. /\ todo'[q] = IF probing THEN rows ELSE {}
      /\ eligible'[q] = IF probing THEN {} ELSE routes
      /\ phase'[q] = IF probing THEN "planning" ELSE IF routes # {} THEN "routed" ELSE "idle"
  BY DEF Scan, TypeOK
<1>2. routes \subseteq rows \/ routes \subseteq SnapshotRoutes(Home[q])
  OBVIOUS
<1> HIDE DEF probing, routes
<1>3. CASE probing
  BY <1>1, <1>3
<1>4. CASE ~ probing
  BY <1>1, <1>2, <1>4
<1>5. QED
  BY <1>3, <1>4

LEMMA GoOnLeaves ==
  ASSUME TypeOK, NEW q \in Request, NEW released, GoOn(q, released)
  PROVE  /\ eligible'[q] \subseteq eligible[q]
         /\ ~ released => phase'[q] = phase[q] /\ eligible'[q] = eligible[q]
         /\ released => \/ phase'[q] = "routed"
                        \/ phase'[q] = "idle" /\ eligible'[q] = {}
<1>1. CASE ~ released
  BY <1>1 DEF GoOn
<1>2. CASE released
  <2>1. PICK r \in eligible[q], rest \in SUBSET eligible[q] :
           /\ eligible' = [eligible EXCEPT ![q] = rest]
           /\ phase' = [phase EXCEPT ![q] = IF rest = {} THEN "idle" ELSE "routed"]
    BY <1>2 DEF GoOn
  <2>2. QED
    BY <1>2, <2>1 DEF TypeOK
<1>3. QED
  BY <1>1, <1>2

LEMMA StepInPhase ==
  ASSUME TypeOK, NEW q \in Request, InPhase(q), StepOf(q)
  PROVE  InPhase(q)'
<1> USE DEF requests, processes, memory
<1>1. CASE Query(q)
  BY <1>1, ScanLeaves DEF Query, InPhase
<1>2. CASE ExecuteFails(q) \/ StreamFails(q)
  BY <1>2 DEF ExecuteFails, StreamFails, InPhase, TypeOK
<1>3. CASE DeleteLease(q)
  <2>1. /\ phase[q] = "releasing" /\ GoOn(q, toRelease[q] = {})
        /\ deleting'[q] = None /\ todo'[q] = {} /\ toRelease' = toRelease
    BY <1>3 DEF DeleteLease, InPhase, TypeOK
  <2>2. CASE toRelease[q] = {}
    BY <2>1, <2>2, GoOnLeaves DEF InPhase
  <2>3. CASE toRelease[q] # {}
    BY <2>1, <2>3, GoOnLeaves DEF InPhase
  <2>4. QED
    BY <2>2, <2>3
<1>4. ASSUME NEW r \in Route, RefuseProbe(q, r) PROVE InPhase(q)'
  BY <1>4, ScanLeaves DEF RefuseProbe, InPhase
<1>5. ASSUME NEW r \in Route, AcquireProbe(q, r) PROVE InPhase(q)'
  BY <1>5 DEF AcquireProbe, InPhase, TypeOK
<1>6. ASSUME NEW r \in Route, Commit(q, r) \/ Completes(q, r) PROVE InPhase(q)'
  BY <1>6 DEF Commit, Completes, InPhase, TypeOK
<1>7. ASSUME NEW r \in Route, SecretFails(q, r) PROVE InPhase(q)'
  BY <1>7 DEF SecretFails, InPhase, TypeOK
<1>8. ASSUME NEW r \in Route, Settle(q, r) PROVE InPhase(q)'
  <2>1. /\ phase[q] = "settling" /\ phase'[q] = "releasing"
        /\ r \in eligible[q] /\ eligible' = eligible
        /\ todo' = todo /\ deleting' = deleting
    BY <1>8 DEF Settle, IsFirst, TypeOK
  <2>2. \A s \in toRelease'[q] : AccountOf[s] = AccountOf[r]
    BY <1>8 DEF Settle, TypeOK
  <2>3. QED
    BY <2>1, <2>2 DEF InPhase
<1>9. ASSUME NEW r \in Route, ForgetLease(q, r) PROVE InPhase(q)'
  <2> DEFINE id   == owned[Home[q]][r]
             last == id = None /\ toRelease[q] = {r}
  <2>1. /\ phase[q] = "releasing" /\ r \in toRelease[q] /\ todo'[q] = {}
        /\ GoOn(q, last)
        /\ deleting'[q] = IF id = None THEN None ELSE [route |-> r, id |-> id]
        /\ toRelease'[q] = toRelease[q] \ {r}
    BY <1>9 DEF ForgetLease, DeletionOf, InPhase, TypeOK
  <2>2. PICK s \in eligible[q] : \A t \in toRelease[q] : AccountOf[t] = AccountOf[s]
    BY <2>1 DEF InPhase
  <2>3. deleting'[q] # None => deleting'[q].route = r
    BY <2>1
  <2>4. last => deleting'[q] = None
    BY <2>1
  <2> HIDE DEF id, last
  <2>5. CASE last
    BY <2>1, <2>4, <2>5, GoOnLeaves DEF InPhase
  <2>6. CASE ~ last
    <3>1. phase'[q] = "releasing" /\ eligible'[q] = eligible[q]
      BY <2>1, <2>6, GoOnLeaves
    <3>2. QED
      BY <2>1, <2>2, <2>3, <3>1 DEF InPhase
  <2>7. QED
    BY <2>5, <2>6
<1>10. CASE Abandon(q) \/ \E r \in Route : AcquireUnheard(q, r)
  BY <1>10 DEF Abandon, AcquireUnheard, Forgotten, InPhase, TypeOK
<1>11. QED
  BY <1>1, <1>2, <1>3, <1>4, <1>5, <1>6, <1>7, <1>8, <1>9, <1>10
     DEF StepOf, Progress, Disturbance

LEMMA PhaseStep == TypeOK /\ RequestsInPhase /\ [Next]_vars => RequestsInPhase'
<1> SUFFICES ASSUME TypeOK, RequestsInPhase, [Next]_vars PROVE RequestsInPhase'
  OBVIOUS
<1>1. ASSUME NEW q \in Request, StepOf(q) PROVE RequestsInPhase'
  <2>1. InPhase(q)'
    BY <1>1, StepInPhase DEF RequestsInPhase
  <2>2. ASSUME NEW p \in Request, p # q PROVE InPhase(p)'
    BY <1>1, <2>2, StepOfOne DEF RequestsInPhase, InPhase, Untouched
  <2>3. QED
    BY <2>1, <2>2 DEF RequestsInPhase
<1>2. ASSUME NEW g \in Gateway, Crash(g) PROVE RequestsInPhase'
  BY <1>2 DEF Crash, RequestsInPhase, InPhase
<1>3. ASSUME Tick \/ UNCHANGED vars \/ \E g \in Gateway : Start(g)
      PROVE  RequestsInPhase'
  BY <1>3 DEF Tick, Start, vars, requests, RequestsInPhase, InPhase
<1>4. QED
  BY <1>1, <1>2, <1>3 DEF Next, StepOf

LEMMA AlwaysInPhase == Spec => []RequestsInPhase
<1>1. Init => RequestsInPhase
  BY DEF Init, RequestsInPhase, InPhase
<1>2. QED
  BY <1>1, PhaseStep, TypeCorrect, PTL DEF Spec

(* What a step of one request leaves of the offers. *)
LEMMA OfferOfOne ==
  ASSUME TypeOK, NEW q \in Request, StepOf(q)
  PROVE  [p \in Request |-> eligible[p] \union todo[p]]'
           = [[p \in Request |-> eligible[p] \union todo[p]]
                EXCEPT ![q] = eligible'[q] \union todo'[q]]
<1>1. \A p \in Request : p # q => eligible'[p] = eligible[p] /\ todo'[p] = todo[p]
  BY StepOfOne DEF Untouched
<1>2. QED
  BY <1>1

(* A step that leaves the rows alone and a request with some of its routes. *)
LEMMA LessRefines ==
  ASSUME TypeOK, NEW q \in Request, StepOf(q),
         eligible'[q] \union todo'[q] \subseteq eligible[q] \union todo[q],
         UNCHANGED database
  PROVE  Promised!Offer(q)
<1>1. eligible'[q] \union todo'[q] \subseteq Promised!Choice(q)
  BY DEF Promised!Choice
<1>2. Promised!Keeps(q, Promised!Choice(q))
  BY <1>1, OfferOfOne DEF Promised!Keeps
<1>3. UNCHANGED <<{r \in Route : RetryPassed(r)}, {r \in Route : ~ Expired(r)}>>
  BY DEF database, RetryPassed, Expired
<1>4. QED
  BY <1>2, <1>3 DEF Promised!Offer, Promised!circuit, database

LEMMA QueryRefines ==
  ASSUME TypeOK, NEW q \in Request, InPhase(q), Query(q)
  PROVE  Promised!Offer(q)
<1>1. Rows \subseteq Promised!Usable
  BY DEF Rows, Selectable, Promised!Usable
<1>2. Promised!Choice(q) = Promised!Usable
  BY DEF Query, InPhase, Promised!Choice
<1>3. \/ eligible'[q] \union todo'[q] \subseteq Promised!Choice(q)
      \/ eligible'[q] \union todo'[q] \subseteq SnapshotRoutes(Home[q])
  BY <1>1, <1>2, ScanLeaves DEF Query
<1>4. Promised!Keeps(q, Promised!Choice(q)) \/ Promised!Keeps(q, SnapshotRoutes(Home[q]))
  BY <1>3, OfferOfOne DEF StepOf, Promised!Keeps
<1>5. UNCHANGED <<{r \in Route : RetryPassed(r)}, {r \in Route : ~ Expired(r)}>>
  BY DEF Query, database, RetryPassed, Expired
<1>6. UNCHANGED <<routeState, blocked>>
  BY DEF Query, database
<1>7. QED
  BY <1>4, <1>5, <1>6 DEF Promised!Offer, Promised!Keeps, Promised!circuit

LEMMA RefuseRefines ==
  ASSUME TypeOK, NEW q \in Request, NEW r \in Route, InPhase(q), RefuseProbe(q, r)
  PROVE  Promised!Offer(q)
<1>1. Promised!Choice(q) = todo[q]
  BY DEF RefuseProbe, IsFirst, InPhase, Promised!Choice
<1>2. \/ eligible'[q] \union todo'[q] \subseteq Promised!Choice(q)
      \/ eligible'[q] \union todo'[q] \subseteq SnapshotRoutes(Home[q])
  BY <1>1, ScanLeaves DEF RefuseProbe
<1>3. Promised!Keeps(q, Promised!Choice(q)) \/ Promised!Keeps(q, SnapshotRoutes(Home[q]))
  BY <1>2, OfferOfOne DEF StepOf, Progress, Promised!Keeps
<1>4. UNCHANGED <<{s \in Route : RetryPassed(s)}, {s \in Route : ~ Expired(s)}>>
  BY DEF RefuseProbe, database, RetryPassed, Expired
<1>5. UNCHANGED <<routeState, blocked>>
  BY DEF RefuseProbe, database
<1>6. QED
  BY <1>3, <1>4, <1>5 DEF Promised!Offer, Promised!Keeps, Promised!circuit

(* A lease that is taken is a probe of a due route that none other has. *)
LEMMA ProbeRefines ==
  ASSUME TypeOK, NEW q \in Request, NEW r \in Route, InPhase(q),
         AcquireProbe(q, r) \/ AcquireUnheard(q, r)
  PROVE  Promised!Probe(q, r)
<1>1. /\ phase[q] = "planning" /\ r \in todo[q]
      /\ ProbeGranted(Home[q], r)
      /\ \E id \in FreshLeaseIds : TakeLease(Home[q], r, id)
      /\ UNCHANGED <<retryIn, blocked>>
  BY DEF AcquireProbe, AcquireUnheard, IsFirst
<1>2. Promised!Choice(q) = todo[q]
  BY <1>1 DEF InPhase, Promised!Choice
<1>3. eligible'[q] \union todo'[q] \subseteq todo[q]
  BY <1>1 DEF AcquireProbe, AcquireUnheard, Forgotten, TypeOK
<1>4. Promised!Keeps(q, Promised!Choice(q))
  BY <1>2, <1>3, OfferOfOne DEF StepOf, Progress, Disturbance, Promised!Keeps
<1>5. RetryPassed(r) /\ Expired(r) /\ routeState[r] # "closed"
  BY <1>1 DEF ProbeGranted, LeaseIsFree, NoLease, Expired, CanTransition
<1>6. routeState' = [routeState EXCEPT ![r] = "half_open"]
  BY <1>1 DEF TakeLease
<1>7. {s \in Route : ~ Expired(s)}' = {s \in Route : ~ Expired(s)} \union {r}
  <2>1. /\ lease'[r].left = LeaseSeconds
        /\ \A s \in Route : s # r => lease'[s] = lease[s]
    BY <1>1 DEF TakeLease, TypeOK
  <2>2. QED
    BY <2>1, ConstantsAssumption DEF Expired
<1>8. {s \in Route : RetryPassed(s)}' = {s \in Route : RetryPassed(s)}
  BY <1>1 DEF RetryPassed
<1>9. QED
  BY <1>1, <1>2, <1>4, <1>5, <1>6, <1>7, <1>8 DEF Promised!Probe

LEMMA SettleRefines ==
  ASSUME TypeOK, NEW q \in Request, NEW r \in Route, Settle(q, r)
  PROVE  Promised!Judge(q, r)
<1> DEFINE v == verdict[q]
<1>1. /\ r \in eligible[q]
      /\ UNCHANGED <<lease, eligible, todo>>
  BY DEF Settle, IsFirst
<1>2. \E left \in SUBSET (eligible[q] \union todo[q]) :
        [p \in Request |-> eligible[p] \union todo[p]]'
          = [[p \in Request |-> eligible[p] \union todo[p]] EXCEPT ![q] = left]
  BY <1>1, OfferOfOne DEF StepOf, Progress
<1>3. {s \in Route : ~ Expired(s)}' = {s \in Route : ~ Expired(s)}
  BY <1>1 DEF Expired
<1>4. CASE v.kind = "account"
  <2>1. /\ blocked' = blocked \union {AccountOf[r]}
        /\ UNCHANGED <<routeState, retryIn>>
    BY <1>4 DEF Settle
  <2>2. {s \in Route : RetryPassed(s)}' = {s \in Route : RetryPassed(s)}
    BY <2>1 DEF RetryPassed
  <2>3. QED
    BY <1>1, <1>2, <1>3, <2>1, <2>2 DEF Promised!Judge, Promised!Keeps
<1>5. CASE v.kind # "account"
  <2>1. /\ \E said \in {"closed", "open"} : routeState' = [routeState EXCEPT ![r] = said]
        /\ retryIn' = [retryIn EXCEPT ![r] = v.retryIn]
        /\ blocked' = blocked
    BY <1>5 DEF Settle
  <2>2. LET due == {s \in Route : RetryPassed(s)}
        IN  due' \in {due \ {r}, due \union {r}}
    <3>1. CASE v.retryIn = 0
      BY <2>1, <3>1 DEF RetryPassed, TypeOK
    <3>2. CASE v.retryIn # 0
      BY <2>1, <3>2 DEF RetryPassed, TypeOK
    <3>3. QED
      BY <3>1, <3>2
  <2>3. QED
    BY <1>1, <1>2, <1>3, <2>1, <2>2 DEF Promised!Judge, Promised!Keeps
<1>6. QED
  BY <1>4, <1>5

(* A row that is deleted is of the account of a route that was offered. *)
LEMMA DeleteRefines ==
  ASSUME TypeOK, NEW q \in Request, InPhase(q), DeleteLease(q)
  PROVE  \/ Promised!Offer(q)
         \/ \E r, s \in Route : Promised!Release(q, r, s)
<1>1. /\ phase[q] = "releasing" /\ deleting[q] # None
      /\ \E released : GoOn(q, released)
      /\ UNCHANGED <<routeState, retryIn, blocked, todo>>
  BY DEF DeleteLease
<1>2. eligible'[q] \union todo'[q] \subseteq eligible[q] \union todo[q]
  BY <1>1, GoOnLeaves
<1>3. StepOf(q)
  BY DEF StepOf, Progress
<1>4. CASE ~ LeaseMatches(deleting[q])
  BY <1>1, <1>2, <1>3, <1>4, LessRefines DEF DeleteLease, database
<1>5. CASE LeaseMatches(deleting[q])
  <2>1. PICK s \in Route : s = deleting[q].route
    BY <1>1 DEF TypeOK, Deletion
  <2>2. PICK r \in Route : r \in eligible[q] /\ AccountOf[s] = AccountOf[r]
    BY <1>1, <2>1 DEF InPhase, TypeOK
  <2>3. lease' = [lease EXCEPT ![s] = NoLease]
    BY <1>5, <2>1 DEF DeleteLease
  <2>4. {t \in Route : ~ Expired(t)}' = {t \in Route : ~ Expired(t)} \ {s}
    BY <2>3 DEF Expired, NoLease, TypeOK
  <2>5. {t \in Route : RetryPassed(t)}' = {t \in Route : RetryPassed(t)}
    BY <1>1 DEF RetryPassed
  <2>6. \E left \in SUBSET (eligible[q] \union todo[q]) :
          [p \in Request |-> eligible[p] \union todo[p]]'
            = [[p \in Request |-> eligible[p] \union todo[p]] EXCEPT ![q] = left]
    BY <1>2, <1>3, OfferOfOne
  <2>7. Promised!Release(q, r, s)
    BY <1>1, <2>2, <2>4, <2>5, <2>6
       DEF Promised!Release, Promised!Keeps, Promised!circuit
  <2>8. QED
    BY <2>7
<1>6. QED
  BY <1>4, <1>5

LEMMA RefinesStep ==
  TypeOK /\ RequestsInPhase /\ [Next]_vars => [Promised!Next]_(Promised!vars)
<1> SUFFICES ASSUME TypeOK, RequestsInPhase, [Next]_vars
             PROVE  [Promised!Next]_(Promised!vars)
  OBVIOUS
<1>1. ASSUME NEW q \in Request PROVE InPhase(q)
  BY DEF RequestsInPhase
<1>2. ASSUME NEW q \in Request, Promised!Offer(q) PROVE Promised!Next
  BY <1>2 DEF Promised!Next
<1>3. ASSUME NEW q \in Request, Query(q) PROVE Promised!Next
  BY <1>1, <1>2, <1>3, QueryRefines
<1>4. ASSUME NEW q \in Request, ExecuteFails(q) \/ StreamFails(q) PROVE Promised!Next
  <2>1. UNCHANGED <<database, eligible, todo>>
    BY <1>4 DEF ExecuteFails, StreamFails
  <2>2. QED
    BY <1>2, <1>4, <2>1, LessRefines DEF StepOf, Progress
<1>5. ASSUME NEW q \in Request, DeleteLease(q) PROVE Promised!Next
  BY <1>1, <1>5, DeleteRefines DEF Promised!Next
<1>6. ASSUME NEW q \in Request, Abandon(q) PROVE Promised!Next
  <2>1. eligible'[q] = {} /\ todo'[q] = {} /\ UNCHANGED database
    BY <1>6 DEF Abandon, Forgotten, TypeOK
  <2>2. QED
    BY <1>2, <1>6, <2>1, LessRefines DEF StepOf, Disturbance
<1>7. ASSUME NEW q \in Request, NEW r \in Route, RefuseProbe(q, r) PROVE Promised!Next
  BY <1>1, <1>2, <1>7, RefuseRefines
<1>8. ASSUME NEW q \in Request, NEW r \in Route,
             Commit(q, r) \/ Completes(q, r) \/ SecretFails(q, r) \/ ForgetLease(q, r)
      PROVE  Promised!Next
  <2>1. UNCHANGED <<database, todo>>
    BY <1>8 DEF Commit, Completes, SecretFails, ForgetLease
  <2>2. eligible'[q] \subseteq eligible[q]
    <3>1. CASE ForgetLease(q, r)
      <4>1. PICK released : GoOn(q, released)
        BY <3>1 DEF ForgetLease
      <4>2. QED
        BY <4>1, GoOnLeaves
    <3>2. CASE Commit(q, r) \/ Completes(q, r) \/ SecretFails(q, r)
      BY <3>2 DEF Commit, Completes, SecretFails, IsFirst, TypeOK
    <3>3. QED
      BY <1>8, <3>1, <3>2
  <2>3. StepOf(q)
    BY <1>8 DEF StepOf, Progress, Disturbance
  <2>4. QED
    BY <1>2, <2>1, <2>2, <2>3, LessRefines
<1>9. ASSUME NEW q \in Request, NEW r \in Route, AcquireProbe(q, r) \/ AcquireUnheard(q, r)
      PROVE  Promised!Next
  BY <1>1, <1>9, ProbeRefines DEF Promised!Next
<1>10. ASSUME NEW q \in Request, NEW r \in Route, Settle(q, r) PROVE Promised!Next
  BY <1>10, SettleRefines DEF Promised!Next
<1>11. ASSUME NEW g \in Gateway, Crash(g) PROVE Promised!Next
  <2>1. PICK lost \in SUBSET Request : lost = {q \in Request : Home[q] = g}
    OBVIOUS
  <2>2. /\ UNCHANGED database
        /\ \A q \in Request : eligible'[q] \union todo'[q]
             = IF q \in lost THEN {} ELSE eligible[q] \union todo[q]
    BY <1>11, <2>1 DEF Crash
  <2>3. UNCHANGED <<{r \in Route : RetryPassed(r)}, {r \in Route : ~ Expired(r)}>>
    BY <2>2 DEF database, RetryPassed, Expired
  <2>4. Promised!Lose(lost)
    BY <2>2, <2>3 DEF Promised!Lose, Promised!circuit, database
  <2>5. QED
    BY <2>4 DEF Promised!Next
<1>12. CASE Tick
  <2>1. UNCHANGED <<routeState, blocked, eligible, todo>>
    BY <1>12 DEF Tick
  <2>2. {r \in Route : RetryPassed(r)} \subseteq {r \in Route : RetryPassed(r)}'
    BY <1>12 DEF Tick, Passed, RetryPassed
  <2>3. {r \in Route : ~ Expired(r)}' \subseteq {r \in Route : ~ Expired(r)}
    BY <1>12 DEF Tick, Passed, Expired, TypeOK, Lease
  <2>4. Promised!Time
    BY <2>1, <2>2, <2>3 DEF Promised!Time
  <2>5. QED
    BY <2>4 DEF Promised!Next
<1>start. ASSUME NEW g \in Gateway, Start(g) PROVE UNCHANGED Promised!vars
  BY <1>start DEF Start, database, requests, RetryPassed, Expired, Promised!vars, Promised!circuit
<1>13. CASE UNCHANGED vars
  BY <1>13 DEF vars, database, requests, RetryPassed, Expired, Promised!vars, Promised!circuit
<1>14. QED
  BY NextCases, <1>3, <1>4, <1>5, <1>6, <1>7, <1>8, <1>9, <1>10, <1>11, <1>12,
     <1>start, <1>13

(* The rows, the leases and the requests of all processes implement the        *)
(* circuit: a request goes only to routes that were closed or due when it      *)
(* asked, or that its snapshot offers; a route becomes half_open only      *)
(* when it is due and under no other lease that still runs; a lease is given   *)
(* back only on the account of a route that was offered, and only a request    *)
(* that was offered a route gives a verdict on it. No crash, departure or late *)
(* answer between the statements of a call adds a step to these.               *)
THEOREM CircuitRefined == Spec => ImplementsCircuit
<1>1. Init => Promised!Init
  <2> SUFFICES ASSUME Init PROVE Promised!Init
    OBVIOUS
  <2>1. routeState \in [Route -> Promised!States]
    BY TypeInit DEF TypeOK, RouteStates, Promised!States
  <2>2. {r \in Route : ~ Expired(r)} = {}
    BY DEF Init, NoLease, Expired
  <2>3. [q \in Request |-> eligible[q] \union todo[q]] = [q \in Request |-> {}]
    BY DEF Init
  <2>4. [q \in Request |-> SnapshotRoutes(Home[q])] \in [Request -> SUBSET Route]
    BY TypeInit, SnapshotTypes, ConstantsAssumption
  <2>5. QED
    BY <2>1, <2>2, <2>3, <2>4, ConstantsAssumption DEF Init, Promised!Init
<1>2. QED
  BY <1>1, RefinesStep, TypeCorrect, AlwaysInPhase, PTL
     DEF Spec, ImplementsCircuit, Promised!Spec
=============================================================================
