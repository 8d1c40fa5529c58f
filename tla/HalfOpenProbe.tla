--------------------------- MODULE HalfOpenProbe ---------------------------
(***************************************************************************)
(* The route circuit of the PostgreSQL control plane and the cluster-wide  *)
(* lease on the half-open probe, as several gateway processes drive them.  *)
(*                                                                         *)
(* A request asks PostgresStore::candidates for its routes, probes at most *)
(* one of them under a lease, is served by the routes in order, and the    *)
(* verdict on each route is written back by mark_route_success,            *)
(* mark_route_failure or mark_account_failure, whose UPDATE, whose removal *)
(* from the local map of leases and whose DELETE are three separate steps. *)
(* A client may go away, and a process may crash, between any two of them. *)
(*                                                                         *)
(* Times are kept as the seconds left to them: retryIn[r] = 0 is           *)
(* retry_at <= NOW(), lease[r].left = 0 is expires_at <= NOW(). The clock  *)
(* of the gateways, which compute retry_at, and that of the server agree.  *)
(***************************************************************************)
EXTENDS Integers

CONSTANTS
  Gateway,        \* gateway processes sharing one PostgreSQL control plane
  Request,        \* client requests that may be in flight at one time
  Home,           \* Home[q]: the process that serves request q
  Route,          \* the enabled routes of one model, numbered in candidate_plan's order
  Account,        \* provider accounts
  AccountOf,      \* AccountOf[r]: the account of route r
  FirstWait,      \* the retry times that an open route may have at first
  LeaseId,        \* lease identities (UUIDs)
  LeaseSeconds,   \* HALF_OPEN_LEASE_SECONDS
  Cooldown,       \* seconds from a failure to the retry_at the classifiers give it
  Never,          \* a NULL retry_at
  None,           \* no lease, no lease identity, no process
  MaxCrashes,     \* bound: crashes in a behaviour
  MaxFaults       \* bound: clients that go away and secrets that do not resolve

ASSUME ConstantsAssumption ==
  /\ Home \in [Request -> Gateway]
  /\ AccountOf \in [Route -> Account]
  /\ Route \subseteq Nat
  /\ FirstWait \subseteq {0, Cooldown, Never}
  /\ LeaseSeconds \in Nat \ {0}
  /\ Cooldown \in Nat
  /\ Never \notin Nat
  /\ None \notin LeaseId
  /\ None \notin Gateway
  /\ MaxCrashes \in Nat
  /\ MaxFaults \in Nat

VARIABLES
  (* The shared database. *)
  routeState,   \* provider_route_state.state
  retryIn,      \* provider_route_state.retry_at
  blocked,      \* the accounts whose provider_account_state is 'blocked'
  lease,        \* provider_route_probe_leases; the holder is for the properties
  (* Every process: PostgresStore.probe_leases, whether it serves, and what   *)
  (* the snapshot that it took when it started offers: the routes it has     *)
  (* closed, and the seconds to the time when it may probe another. Never    *)
  (* also stands for one that is half_open or of a blocked account: this     *)
  (* process's snapshot does not offer it any more.                          *)
  owned, serving, snapshot,
  (* Every request: how far it is, the rows candidates still has to look at  *)
  (* and those it read as closed, the routes left to try (the first is the   *)
  (* one in use), the verdict being written, the routes still to release,    *)
  (* and the row about to be deleted.                                        *)
  phase, todo, seenClosed, eligible, verdict, toRelease, deleting,
  (* What is left of the bounds. *)
  crashes, faults

database  == <<routeState, retryIn, blocked, lease>>
requests  == <<phase, todo, seenClosed, eligible, verdict, toRelease, deleting>>
budgets   == <<crashes, faults>>
memory    == <<serving, snapshot>>
processes == <<owned, memory>>
vars      == <<database, processes, requests, budgets>>

RouteStates == {"closed", "open", "half_open"}
Phases      == {"idle", "planning", "routed", "streaming", "settling", "releasing"}
RetryTime   == Nat \union {Never}
Lease       == [id : LeaseId \union {None}, left : Nat, holder : Gateway \union {None}]
Deletion    == [route : Route, id : LeaseId] \union {None}

Snapshot    == [closed : SUBSET Route, retryIn : [Route -> RetryTime]]

NoLease   == [id |-> None, left |-> 0, holder |-> None]
Success   == [kind |-> "success", retryIn |-> Never]
NoSnapshot == [closed |-> {}, retryIn |-> [r \in Route |-> Never]]

(* What a failed attempt can say of its route: opens_route with a cooldown, *)
(* opens_route without a retry time (a missing model, a refused connection, *)
(* an upstream that ends without a terminal event), blocks_account.         *)
Failures  == [kind : {"route"}, retryIn : {Cooldown, Never}]
               \union [kind : {"account"}, retryIn : {Never}]
Verdict   == [kind : {"success", "route", "account"}, retryIn : RetryTime]

TypeOK ==
  /\ routeState \in [Route -> RouteStates]
  /\ retryIn \in [Route -> RetryTime]
  /\ blocked \subseteq Account
  /\ lease \in [Route -> Lease]
  /\ owned \in [Gateway -> [Route -> LeaseId \union {None}]]
  /\ serving \subseteq Gateway
  /\ snapshot \in [Gateway -> Snapshot]
  /\ phase \in [Request -> Phases]
  /\ todo \in [Request -> SUBSET Route]
  /\ seenClosed \in [Request -> SUBSET Route]
  /\ eligible \in [Request -> SUBSET Route]
  /\ verdict \in [Request -> Verdict]
  /\ toRelease \in [Request -> SUBSET Route]
  /\ deleting \in [Request -> Deletion]
  /\ crashes \in 0 .. MaxCrashes
  /\ faults \in 0 .. MaxFaults

(* control_snapshot_data: what a process that starts takes of the circuit. *)
Captured ==
  LET ofState(state) == {r \in Route : routeState[r] = state /\ AccountOf[r] \notin blocked}
  IN  [closed |-> ofState("closed"),
       retryIn |-> [r \in Route |-> IF r \in ofState("open") THEN retryIn[r] ELSE Never]]

(* Routes as an operator left them or as earlier failures left them: an open *)
(* circuit waits for its retry time, has reached it, or has none. Every      *)
(* process has just started.                                                 *)
Init ==
  /\ \E open \in SUBSET Route :
       /\ routeState = [r \in Route |-> IF r \in open THEN "open" ELSE "closed"]
       /\ \E wait \in [open -> FirstWait] :
            retryIn = [r \in Route |-> IF r \in open THEN wait[r] ELSE Never]
  /\ blocked = {}
  /\ lease = [r \in Route |-> NoLease]
  /\ owned = [g \in Gateway |-> [r \in Route |-> None]]
  /\ serving = Gateway
  /\ snapshot = [g \in Gateway |-> Captured]
  /\ phase = [q \in Request |-> "idle"]
  /\ todo = [q \in Request |-> {}]
  /\ seenClosed = [q \in Request |-> {}]
  /\ eligible = [q \in Request |-> {}]
  /\ verdict = [q \in Request |-> Success]
  /\ toRelease = [q \in Request |-> {}]
  /\ deleting = [q \in Request |-> None]
  /\ crashes = MaxCrashes
  /\ faults = MaxFaults

-----------------------------------------------------------------------------
(* Helpers *)

RetryPassed(r) == retryIn[r] = 0
Expired(r)     == lease[r].left = 0

(* The first of a set of routes in the order of the plan. *)
IsFirst(r, routes) == r \in routes /\ \A s \in routes : r <= s

(* Variant: the query does not look at the account. *)
SelectableBlocked(r) ==
  \/ routeState[r] = "closed"
  \/ routeState[r] \in {"open", "half_open"} /\ RetryPassed(r)

(* The rows that the query of candidates returns. *)
Selectable(r) ==
  /\ AccountOf[r] \notin blocked
  /\ \/ routeState[r] = "closed"
     \/ routeState[r] \in {"open", "half_open"} /\ RetryPassed(r)

Rows       == {r \in Route : Selectable(r)}
ClosedRows == {r \in Rows : routeState[r] = "closed"}

(* Variant: lease identities that are not unique. *)
ReusedLeaseIds == LeaseId

(* Uuid::new_v4 gives an identity that nothing refers to. *)
FreshLeaseIds ==
  {id \in LeaseId :
     /\ \A r \in Route : lease[r].id # id
     /\ \A g \in Gateway, r \in Route : owned[g][r] # id
     /\ \A q \in Request : deleting[q] # None => deleting[q].id # id}

(* Variants: a lease that is taken over before it expires, a lease that is     *)
(* never taken over, and transitions that do not check the route again.        *)
LeaseAlwaysFree(r)     == TRUE
LeaseIsAbsent(r)       == lease[r] = NoLease
TransitionAnyRoute(r)  == TRUE
TransitionBeforeDue(r) == routeState[r] \in {"open", "half_open"}

(* What the transaction of acquire_half_open_probe requires of the database. *)
LeaseIsFree(r)   == lease[r] = NoLease \/ Expired(r)
CanTransition(r) == routeState[r] \in {"open", "half_open"} /\ RetryPassed(r)

(* acquire_half_open_probe succeeds: no local lease, a free row, a due route. *)
ProbeGranted(g, r) ==
  /\ owned[g][r] = None
  /\ LeaseIsFree(r)
  /\ CanTransition(r)

TakeLease(g, r, id) ==
  /\ lease' = [lease EXCEPT ![r] = [id |-> id, left |-> LeaseSeconds, holder |-> g]]
  /\ routeState' = [routeState EXCEPT ![r] = "half_open"]

Forgotten(q) ==
  /\ phase' = [phase EXCEPT ![q] = "idle"]
  /\ todo' = [todo EXCEPT ![q] = {}]
  /\ seenClosed' = [seenClosed EXCEPT ![q] = {}]
  /\ eligible' = [eligible EXCEPT ![q] = {}]
  /\ verdict' = [verdict EXCEPT ![q] = Success]
  /\ toRelease' = [toRelease EXCEPT ![q] = {}]
  /\ deleting' = [deleting EXCEPT ![q] = None]

-----------------------------------------------------------------------------
(* PostgresStore::candidates *)

(* SnapshotRepository::candidates: the closed routes of the snapshot of a       *)
(* process; if there are none, the first that is open and due, which becomes   *)
(* half_open in the snapshot.                                                  *)
SnapshotDue(g) == {r \in Route : snapshot[g].retryIn[r] = 0}

SnapshotRoutes(g) ==
  IF snapshot[g].closed # {} THEN snapshot[g].closed
  ELSE {r \in SnapshotDue(g) : IsFirst(r, SnapshotDue(g))}

SnapshotProbed(g) ==
  [snapshot EXCEPT ![g].retryIn =
     [r \in Route |-> IF r \in SnapshotRoutes(g) THEN Never ELSE @[r]]]

(* The loop of candidates over the rows it still has, up to the next probe it  *)
(* has to ask for. A first row that was closed makes every closed row a        *)
(* candidate and no probe is asked for any more. No row at all is an error, on *)
(* which SnapshotFallback takes the routes of the process's snapshot, which    *)
(* knows nothing of leases.                                                    *)
Scan(q, rows, closed) ==
  LET probing == \E r \in rows \ closed : IsFirst(r, rows)
      routes  == IF rows # {} THEN rows \cap closed ELSE SnapshotRoutes(Home[q])
  IN  /\ todo' = [todo EXCEPT ![q] = IF probing THEN rows ELSE {}]
      /\ seenClosed' = [seenClosed EXCEPT ![q] = IF probing THEN closed ELSE {}]
      /\ eligible' = [eligible EXCEPT ![q] = IF probing THEN {} ELSE routes]
      /\ phase' = [phase EXCEPT ![q] = IF probing THEN "planning"
                                       ELSE IF routes # {} THEN "routed" ELSE "idle"]
      /\ snapshot' = IF rows # {} THEN snapshot ELSE SnapshotProbed(Home[q])

(* A request arrives; the rows and their states are read under the client lock. *)
Query(q) ==
  /\ phase[q] = "idle"
  /\ Home[q] \in serving
  /\ Scan(q, Rows, ClosedRows)
  /\ UNCHANGED <<database, owned, serving, verdict, toRelease, deleting, budgets>>

(* The probe of the first row is granted: its route comes first, followed by   *)
(* the closed rows, all of which come after it.                                *)
AcquireProbe(q, r) ==
  /\ phase[q] = "planning"
  /\ IsFirst(r, todo[q])
  /\ ProbeGranted(Home[q], r)
  /\ \E id \in FreshLeaseIds :
       /\ TakeLease(Home[q], r, id)
       /\ owned' = [owned EXCEPT ![Home[q]][r] = id]
  /\ eligible' = [eligible EXCEPT ![q] = {r} \union (todo[q] \cap seenClosed[q])]
  /\ phase' = [phase EXCEPT ![q] = "routed"]
  /\ todo' = [todo EXCEPT ![q] = {}]
  /\ seenClosed' = [seenClosed EXCEPT ![q] = {}]
  /\ UNCHANGED <<retryIn, blocked, memory, verdict, toRelease, deleting, budgets>>

(* The probe of the first row is not granted: the row is passed over. *)
RefuseProbe(q, r) ==
  /\ phase[q] = "planning"
  /\ IsFirst(r, todo[q])
  /\ ~ ProbeGranted(Home[q], r)
  /\ Scan(q, todo[q] \ {r}, seenClosed[q])
  /\ UNCHANGED <<database, owned, serving, verdict, toRelease, deleting, budgets>>

(* The client goes away while the transaction's COMMIT is awaited: the server  *)
(* has the lease, the local map never hears of it.                             *)
AcquireUnheard(q, r) ==
  /\ faults > 0
  /\ phase[q] = "planning"
  /\ IsFirst(r, todo[q])
  /\ ProbeGranted(Home[q], r)
  /\ \E id \in FreshLeaseIds : TakeLease(Home[q], r, id)
  /\ Forgotten(q)
  /\ faults' = faults - 1
  /\ UNCHANGED <<retryIn, blocked, processes, crashes>>

-----------------------------------------------------------------------------
(* Gateway::infer and ManagedInferenceStream, as far as the circuit sees them *)

(* The credential of the route in use does not resolve: the next route is      *)
(* tried and nothing is recorded of this one.                                  *)
SecretFails(q, r) ==
  /\ faults > 0
  /\ phase[q] = "routed"
  /\ IsFirst(r, eligible[q])
  /\ eligible' = [eligible EXCEPT ![q] = @ \ {r}]
  /\ phase' = [phase EXCEPT ![q] = IF eligible[q] = {r} THEN "idle" ELSE @]
  /\ faults' = faults - 1
  /\ UNCHANGED <<database, processes, todo, seenClosed, verdict, toRelease, deleting,
                 crashes>>

(* The provider refuses before commitment: the failure is recorded and its     *)
(* verdict written, and then the remaining routes are tried.                   *)
ExecuteFails(q) ==
  /\ phase[q] = "routed"
  /\ \E failure \in Failures : verdict' = [verdict EXCEPT ![q] = failure]
  /\ phase' = [phase EXCEPT ![q] = "settling"]
  /\ UNCHANGED <<database, processes, todo, seenClosed, eligible, toRelease, deleting,
                 budgets>>

(* The provider starts a stream: the request stays on this route. *)
Commit(q, r) ==
  /\ phase[q] = "routed"
  /\ IsFirst(r, eligible[q])
  /\ phase' = [phase EXCEPT ![q] = "streaming"]
  /\ eligible' = [eligible EXCEPT ![q] = {r}]
  /\ UNCHANGED <<database, processes, todo, seenClosed, verdict, toRelease, deleting,
                 budgets>>

(* A complete response, or the Completed event of the stream. *)
Completes(q, r) ==
  /\ phase[q] \in {"routed", "streaming"}
  /\ IsFirst(r, eligible[q])
  /\ verdict' = [verdict EXCEPT ![q] = Success]
  /\ phase' = [phase EXCEPT ![q] = "settling"]
  /\ eligible' = [eligible EXCEPT ![q] = {r}]
  /\ UNCHANGED <<database, processes, todo, seenClosed, toRelease, deleting, budgets>>

(* The Failed event of the stream, or its end without a terminal event. *)
StreamFails(q) ==
  /\ phase[q] = "streaming"
  /\ \E failure \in Failures : verdict' = [verdict EXCEPT ![q] = failure]
  /\ phase' = [phase EXCEPT ![q] = "settling"]
  /\ UNCHANGED <<database, processes, todo, seenClosed, eligible, toRelease, deleting,
                 budgets>>

(* The client goes away and the handler or the stream is dropped, or the       *)
(* attempt cannot be persisted and the handler returns early. Whatever the     *)
(* request still had to do to the circuit is not done.                         *)
Abandon(q) ==
  /\ faults > 0
  /\ phase[q] # "idle"
  /\ Forgotten(q)
  /\ faults' = faults - 1
  /\ UNCHANGED <<database, processes, crashes>>

-----------------------------------------------------------------------------
(* mark_route_success, mark_route_failure and mark_account_failure *)

(* The UPDATE of the verdict. An account failure then releases every route of  *)
(* the account, the others the route in use only.                              *)
Settle(q, r) ==
  /\ phase[q] = "settling"
  /\ IsFirst(r, eligible[q])
  /\ LET v    == verdict[q]
         acct == v.kind = "account"
     IN  /\ routeState' =
              IF acct THEN routeState
              ELSE [routeState EXCEPT ![r] = IF v.kind = "success" THEN "closed" ELSE "open"]
         /\ retryIn' = IF acct THEN retryIn ELSE [retryIn EXCEPT ![r] = v.retryIn]
         /\ blocked' = IF acct THEN blocked \union {AccountOf[r]} ELSE blocked
         /\ toRelease' = [toRelease EXCEPT ![q] =
              IF acct THEN {s \in Route : AccountOf[s] = AccountOf[r]} ELSE {r}]
  /\ phase' = [phase EXCEPT ![q] = "releasing"]
  /\ UNCHANGED <<lease, processes, todo, seenClosed, eligible, verdict, deleting, budgets>>

(* Every route is released and the handler goes on: to the next route after a  *)
(* failure, to the end otherwise.                                              *)
GoOn(q, released) ==
  IF ~ released
    THEN UNCHANGED <<phase, eligible, verdict>>
    ELSE \E r \in eligible[q] :
           LET rest == IF verdict[q] = Success THEN {} ELSE eligible[q] \ {r}
           IN  /\ IsFirst(r, eligible[q])
               /\ eligible' = [eligible EXCEPT ![q] = rest]
               /\ phase' = [phase EXCEPT ![q] = IF rest = {} THEN "idle" ELSE "routed"]
               /\ verdict' = [verdict EXCEPT ![q] = Success]

(* Variant: the DELETE is sent also without an identity. *)
DeletionAlways(r, id) == [route |-> r, id |-> id]

(* Without an identity there is nothing to delete. *)
DeletionOf(r, id) == IF id = None THEN None ELSE [route |-> r, id |-> id]

(* Variant: the identity is looked up in the local map and left there. *)
ForgetNothing(q, r) ==
  /\ phase[q] = "releasing"
  /\ deleting[q] = None
  /\ r \in toRelease[q]
  /\ LET id == owned[Home[q]][r]
     IN  /\ deleting' = [deleting EXCEPT ![q] = DeletionOf(r, id)]
         /\ GoOn(q, id = None /\ toRelease[q] = {r})
  /\ toRelease' = [toRelease EXCEPT ![q] = @ \ {r}]
  /\ UNCHANGED <<database, processes, todo, seenClosed, budgets>>

(* release_half_open_probe takes the identity out of the local map ... *)
ForgetLease(q, r) ==
  /\ phase[q] = "releasing"
  /\ deleting[q] = None
  /\ r \in toRelease[q]
  /\ LET id == owned[Home[q]][r]
     IN  /\ deleting' = [deleting EXCEPT ![q] = DeletionOf(r, id)]
         /\ GoOn(q, id = None /\ toRelease[q] = {r})
  /\ toRelease' = [toRelease EXCEPT ![q] = @ \ {r}]
  /\ owned' = [owned EXCEPT ![Home[q]][r] = None]
  /\ UNCHANGED <<database, memory, todo, seenClosed, budgets>>

(* Variant: a DELETE by route alone. *)
AnyLeaseMatches(d) == lease[d.route] # NoLease

(* The rows that the DELETE with this route and this identity removes. *)
LeaseMatches(d) == lease[d.route].id = d.id

(* ... and then deletes the row that still carries it. *)
DeleteLease(q) ==
  /\ phase[q] = "releasing"
  /\ deleting[q] # None
  /\ lease' = IF LeaseMatches(deleting[q])
                THEN [lease EXCEPT ![deleting[q].route] = NoLease] ELSE lease
  /\ deleting' = [deleting EXCEPT ![q] = None]
  /\ GoOn(q, toRelease[q] = {})
  /\ UNCHANGED <<routeState, retryIn, blocked, processes, todo, seenClosed, toRelease,
                 budgets>>

-----------------------------------------------------------------------------
(* The environment *)

Passed(t) == IF t = Never \/ t = 0 THEN t ELSE t - 1

(* One second passes, also for the retry times that snapshots hold and those   *)
(* that verdicts carry to the database.                                        *)
Tick ==
  /\ retryIn' = [r \in Route |-> Passed(retryIn[r])]
  /\ lease' = [r \in Route |-> [lease[r] EXCEPT !.left = Passed(@)]]
  /\ verdict' = [q \in Request |-> [verdict[q] EXCEPT !.retryIn = Passed(@)]]
  /\ snapshot' = [g \in Gateway |->
       [snapshot[g] EXCEPT !.retryIn = [r \in Route |-> Passed(@[r])]]]
  /\ UNCHANGED <<routeState, blocked, owned, serving, phase, todo, seenClosed, eligible,
                 toRelease, deleting, budgets>>

(* A process crashes: its requests, its local map of leases and its snapshot's *)
(* circuit are gone, its rows stay.                                            *)
Crash(g) ==
  LET lost == {q \in Request : Home[q] = g}
  IN  /\ crashes > 0
      /\ g \in serving
      /\ serving' = serving \ {g}
      /\ snapshot' = [snapshot EXCEPT ![g] = NoSnapshot]
      /\ owned' = [owned EXCEPT ![g] = [r \in Route |-> None]]
      /\ phase' = [q \in Request |-> IF q \in lost THEN "idle" ELSE phase[q]]
      /\ todo' = [q \in Request |-> IF q \in lost THEN {} ELSE todo[q]]
      /\ seenClosed' = [q \in Request |-> IF q \in lost THEN {} ELSE seenClosed[q]]
      /\ eligible' = [q \in Request |-> IF q \in lost THEN {} ELSE eligible[q]]
      /\ verdict' = [q \in Request |-> IF q \in lost THEN Success ELSE verdict[q]]
      /\ toRelease' = [q \in Request |-> IF q \in lost THEN {} ELSE toRelease[q]]
      /\ deleting' = [q \in Request |-> IF q \in lost THEN None ELSE deleting[q]]
      /\ crashes' = crashes - 1
      /\ UNCHANGED <<database, faults>>

(* It starts again, from what the database has by then. *)
Start(g) ==
  /\ g \notin serving
  /\ serving' = serving \union {g}
  /\ snapshot' = [snapshot EXCEPT ![g] = Captured]
  /\ UNCHANGED <<database, owned, requests, budgets>>

-----------------------------------------------------------------------------
(* The part of a request that goes on by itself once the client waits for it. *)
Progress(q) ==
  \/ ExecuteFails(q)
  \/ StreamFails(q)
  \/ DeleteLease(q)
  \/ \E r \in Route :
       \/ AcquireProbe(q, r)
       \/ RefuseProbe(q, r)
       \/ Commit(q, r)
       \/ Completes(q, r)
       \/ Settle(q, r)
       \/ ForgetLease(q, r)

Disturbance(q) ==
  \/ Abandon(q)
  \/ \E r \in Route : AcquireUnheard(q, r) \/ SecretFails(q, r)

Next ==
  \/ \E q \in Request : Query(q) \/ Progress(q) \/ Disturbance(q)
  \/ \E g \in Gateway : Crash(g) \/ Start(g)
  \/ Tick

Spec == Init /\ [][Next]_vars

(* Requests keep arriving at every process, tokio runs every ready task,       *)
(* providers answer, a process is started again, and time passes. Nothing is   *)
(* assumed of clients that leave or of crashes.                                *)
Fairness ==
  /\ \A q \in Request : WF_vars(Query(q)) /\ WF_vars(Progress(q))
  /\ \A g \in Gateway : WF_vars(Start(g))
  /\ WF_vars(Tick)

FairSpec == Spec /\ Fairness

-----------------------------------------------------------------------------
(* Properties *)

(* release_half_open_probe never deletes a lease that another process has      *)
(* taken meanwhile: a row that disappears is deleted by a request of the       *)
(* process that holds it.                                                      *)
ReleasedByHolder ==
  [][\A r \in Route :
       (lease[r].id # None /\ lease'[r].id = None)
         => \E q \in Request : /\ Home[q] = lease[r].holder
                               /\ deleting[q] # None
                               /\ deleting'[q] = None
                               /\ deleting[q].route = r]_vars

(* A half-open route has reached its retry time, so candidates goes on         *)
(* returning it, and its lease, if it has one, is a lease of bounded time:     *)
(* whoever held it, some process can take it over.                             *)
HalfOpenIsRetryable ==
  \A r \in Route : routeState[r] = "half_open" =>
    RetryPassed(r) /\ lease[r].left <= LeaseSeconds

(* A lease identity is known, as owned or as about to be deleted, only to the  *)
(* process that inserted the row that carries it.                              *)
LeaseKnownToHolder ==
  \A r \in Route : lease[r].id # None =>
    /\ \A g \in Gateway : owned[g][r] = lease[r].id => g = lease[r].holder
    /\ \A q \in Request :
         (deleting[q] # None /\ deleting[q].route = r /\ deleting[q].id = lease[r].id)
           => Home[q] = lease[r].holder

(* As long as no client has gone away and every secret has resolved, no lease  *)
(* is orphaned: the local map names a route only while a request of the process *)
(* is on it. Every verdict releases, whichever mark_ call writes it.           *)
OwnedIsInUse ==
  faults = MaxFaults =>
    \A g \in Gateway, r \in Route : owned[g][r] # None =>
      \E q \in Request : /\ Home[q] = g
                         /\ IsFirst(r, eligible[q])

(* "At retry_at, one request is admitted through the half-open route. Success  *)
(* closes the circuit; another classified failure renews the block": the route *)
(* that is tried first leaves half_open, or its account is blocked.            *)
HalfOpenIsLeft ==
  LET r == CHOOSE s \in Route : IsFirst(s, Route)
  IN  routeState[r] = "half_open" ~>
        (routeState[r] # "half_open" \/ AccountOf[r] \in blocked)

(* "With PostgreSQL, the probe lease and state transition use an atomic         *)
(* database operation": the rows, the leases and the requests of all processes *)
(* implement the circuit they share. A row that candidates has read is an      *)
(* offer until it is refused, and a lease row ties a probe down until its time *)
(* is over.                                                                    *)
Promised == INSTANCE RouteCircuit WITH
  state     <- routeState,
  due       <- {r \in Route : RetryPassed(r)},
  leased    <- {r \in Route : ~ Expired(r)},
  offered   <- [q \in Request |-> eligible[q] \union todo[q]],
  elsewhere <- [q \in Request |-> SnapshotRoutes(Home[q])]
ImplementsCircuit == Promised!Spec
=============================================================================
