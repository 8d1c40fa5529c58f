---------------------------- MODULE LocalGateway ----------------------------
(***************************************************************************)
(* Gateway::infer from the request to the HTTP answer, over a circuit that *)
(* one process has for itself: in the embedded SQLite store, in the        *)
(* runtime state that SnapshotRepository keeps over a last-known-good      *)
(* snapshot, or in that of a SnapshotFallback behind PostgreSQL. A call to *)
(* such a circuit is one step under a mutex; what interleaves is the       *)
(* requests of the process.                                                *)
(*                                                                         *)
(* The snapshot repository admits one request to a route that is due, by   *)
(* the state half_open, when no route is closed; the SQLite store has no   *)
(* half_open and gives a due route to every request. A behaviour is one    *)
(* life of the process: the snapshot is loaded anew by the next.           *)
(***************************************************************************)
EXTENDS ProviderFailures

CONSTANTS
  Stores,     \* the stores a process may have: "snapshot", "sqlite", "fallback"
  Captured,   \* the route states that a snapshot may have captured
  Request,    \* client requests that may be in flight at one time
  Route,      \* the enabled routes of one model, numbered in candidate_plan's order
  Account,    \* provider accounts
  AccountOf,  \* AccountOf[r]: the account of route r
  MaxFaults   \* bound: clients that leave, secrets and calls to the stores that fail

ASSUME ConstantsAssumption ==
  /\ Stores \subseteq {"snapshot", "sqlite", "fallback"}
  /\ Captured \subseteq {"closed", "open", "half_open"}
  /\ Route \subseteq Nat
  /\ AccountOf \in [Route -> Account]
  /\ Cooldown \in Nat
  /\ Never \notin Nat
  /\ MaxFaults \in Nat

VARIABLES
  store,       \* the store of the process
  routeState,  \* the state of every route
  retryIn,     \* the seconds left to its retry_at
  blocked,     \* the accounts that are blocked
  req,         \* every request: its local variables, its records, and its answer
  faults

circuit == <<routeState, retryIn, blocked>>
vars    == <<store, circuit, req, faults>>

RouteStates == {"closed", "open", "half_open"}
Phases      == {"idle", "routed", "streaming", "settling"}
Outcome     == {"failed", "committed", "succeeded", "partial_failed", "cancelled"}

(* What the client has of the answer: "error" is any of 400, 401, 502 and 503, *)
(* "whole" a complete response or a stream up to [DONE], "broken" a stream that *)
(* ended otherwise.                                                             *)
Answers == {"none", "error", "streaming", "whole", "broken", "gone"}

(* A verdict names what is marked: the route, by success or failure, or the account. *)
Success    == [kind |-> "success", retryIn |-> Never]
VerdictOf(failure) ==
  [kind |-> IF failure.category \in BlocksAccount THEN "account" ELSE "route",
   retryIn |-> failure.retryIn]
Verdict    == [kind : {"success", "route", "account"}, retryIn : RetryTime]

PreCommitVerdicts  == {VerdictOf(failure) : failure \in PreCommitFailures}
PostCommitVerdicts == {VerdictOf(failure) : failure \in PostCommitFailures}

(* The verdict that is about to be written is that of the first eligible route. *)
RequestState ==
  [phase : Phases, eligible : SUBSET Route, verdict : Verdict, called : SUBSET Route,
   record : [Route -> Outcome \union {"nothing"}], answer : Answers]

(* A request in flight always has a current route. *)
TypeOK ==
  /\ store \in Stores
  /\ routeState \in [Route -> RouteStates]
  /\ retryIn \in [Route -> RetryTime]
  /\ blocked \subseteq Account
  /\ req \in [Request -> RequestState]
  /\ \A q \in Request : req[q].phase # "idle" => req[q].eligible # {}
  /\ faults \in 0 .. MaxFaults

(* A request that is not in flight; its last answer is all that is left of it. *)
Over(answer) ==
  [phase |-> "idle", eligible |-> {}, verdict |-> Success, called |-> {},
   record |-> [r \in Route |-> "nothing"], answer |-> answer]

(* The circuit as the snapshot or the database file has it when the process    *)
(* starts. The SQLite store never writes half_open.                            *)
Init ==
  /\ store \in Stores
  /\ routeState \in [Route -> IF store = "sqlite" THEN Captured \ {"half_open"} ELSE Captured]
  /\ retryIn \in [Route -> {0, Cooldown, Never}]
  /\ \A r \in Route : /\ routeState[r] = "closed" => retryIn[r] = Never
                      /\ routeState[r] = "half_open" => retryIn[r] = 0
  /\ blocked = {}
  /\ req = [q \in Request |-> Over("none")]
  /\ faults = MaxFaults

-----------------------------------------------------------------------------
(* chat_completion, authenticate, candidates *)

First(routes) == CHOOSE r \in routes : \A s \in routes : r <= s

(* Variant: the account is not looked at. *)
UsableAlways(r) == TRUE

Usable(r) == AccountOf[r] \notin blocked
Closed    == {r \in Route : Usable(r) /\ routeState[r] = "closed"}

(* What SnapshotRepository may probe. *)
Retryable == {r \in Route : Usable(r) /\ routeState[r] = "open" /\ retryIn[r] = 0}

(* What the query of the SQLite store returns beside the closed routes. *)
Due == {r \in Route : Usable(r) /\ routeState[r] # "closed" /\ retryIn[r] = 0}

Refused(q) == req' = [req EXCEPT ![q] = Over("error")]

Routed(q, routes) ==
  req' = [req EXCEPT ![q] = [Over("none") EXCEPT !.phase = "routed", !.eligible = routes]]

(* 401 without a known key, 400 for a body that cannot be decoded. *)
Refuse(q) ==
  /\ req[q].phase = "idle"
  /\ Refused(q)
  /\ UNCHANGED <<store, circuit, faults>>

(* 400: the SQLite store cannot be read. The snapshot repository always can.   *)
ConfigurationFails(q) ==
  /\ faults > 0
  /\ store = "sqlite"
  /\ req[q].phase = "idle"
  /\ Refused(q)
  /\ faults' = faults - 1
  /\ UNCHANGED <<store, circuit>>

(* 503: no route is closed, and none may be probed. *)
NoCandidate(q) ==
  /\ req[q].phase = "idle"
  /\ Closed = {}
  /\ (IF store = "sqlite" THEN Due ELSE Retryable) = {}
  /\ Refused(q)
  /\ UNCHANGED <<store, circuit, faults>>

(* Every route that is closed or due. *)
CandidatesOfSqlite(q) ==
  /\ store = "sqlite"
  /\ req[q].phase = "idle"
  /\ Closed \union Due # {}
  /\ Routed(q, Closed \union Due)
  /\ UNCHANGED <<store, circuit, faults>>

(* The primary behind a SnapshotFallback, whose circuit is its own. *)
CandidatesOfPrimary(q) ==
  /\ store = "fallback"
  /\ req[q].phase = "idle"
  /\ \E routes \in (SUBSET Route) \ {{}} : Routed(q, routes)
  /\ UNCHANGED <<store, circuit, faults>>

(* Variant: a plan without routes is returned as a plan. *)
CandidatesEvenNone(q) ==
  /\ store # "sqlite"
  /\ req[q].phase = "idle"
  /\ Routed(q, Closed)
  /\ UNCHANGED <<store, circuit, faults>>

(* The closed routes, if there are any; of a SnapshotFallback, when its primary *)
(* is away or has none.                                                         *)
CandidatesOfSnapshot(q) ==
  /\ store # "sqlite"
  /\ req[q].phase = "idle"
  /\ Closed # {}
  /\ Routed(q, Closed)
  /\ UNCHANGED <<store, circuit, faults>>

(* Else the first route that is due, which becomes half_open. *)
ProbeOfSnapshot(q) ==
  /\ store # "sqlite"
  /\ req[q].phase = "idle"
  /\ Closed = {}
  /\ Retryable # {}
  /\ routeState' = [routeState EXCEPT ![First(Retryable)] = "half_open"]
  /\ Routed(q, {First(Retryable)})
  /\ UNCHANGED <<store, retryIn, blocked, faults>>

-----------------------------------------------------------------------------
(* Gateway::infer: one candidate after the other *)

Current(q) == First(req[q].eligible)

LeavesOthers(s) == s.eligible \ {First(s.eligible)}

(* The next candidate; after the last one the answer is 502, or, if the client *)
(* already has part of a stream, the error event that ends it.                 *)
GoOn(s) ==
  IF LeavesOthers(s) = {}
    THEN Over(IF s.answer = "streaming" THEN "broken" ELSE "error")
    ELSE [s EXCEPT !.phase = "routed", !.eligible = LeavesOthers(s), !.verdict = Success]

(* The provider was called, and the attempt is recorded in the store or the spool. *)
Recorded(s, outcome) ==
  LET r == First(s.eligible)
  IN  [s EXCEPT !.called = @ \union {r}, !.record[r] = outcome]

(* Variant: the request goes on as if the attempt had been recorded. *)
UnrecordedGoesOn(s) == GoOn([s EXCEPT !.called = @ \union {First(s.eligible)}])

(* Neither takes the record: 400, and what the provider answered is dropped. *)
Unrecorded(s) == Over("error")

(* Variant: the candidates are kept for a stream that breaks. *)
CommittedAmongOthers(s) ==
  [Recorded(s, "committed") EXCEPT !.phase = "streaming", !.answer = "streaming"]

(* The client gets the stream, and no other route. *)
Committed(s) ==
  [Recorded(s, "committed") EXCEPT !.phase = "streaming", !.answer = "streaming",
                                   !.eligible = {First(s.eligible)}]

(* The credential does not resolve: no verdict on this route. *)
SecretFails(q) ==
  /\ faults > 0
  /\ req[q].phase = "routed"
  /\ req' = [req EXCEPT ![q] = GoOn(@)]
  /\ faults' = faults - 1
  /\ UNCHANGED <<store, circuit>>

(* The provider fails the attempt before commitment, and that is recorded. *)
ExecuteFails(q) ==
  /\ req[q].phase = "routed"
  /\ \E v \in PreCommitVerdicts :
       req' = [req EXCEPT ![q] = [Recorded(@, "failed") EXCEPT
                                    !.phase = "settling", !.verdict = v]]
  /\ UNCHANGED <<store, circuit, faults>>

(* A complete response, whatever its body holds, is a success. *)
Completes(q) ==
  /\ req[q].phase = "routed"
  /\ req' = [req EXCEPT ![q] = [Recorded(@, "succeeded") EXCEPT
                                  !.phase = "settling", !.eligible = {Current(q)}]]
  /\ UNCHANGED <<store, circuit, faults>>

(* The head of a stream: the attempt is recorded before its first byte. *)
Commits(q) ==
  /\ req[q].phase = "routed"
  /\ req' = [req EXCEPT ![q] = Committed(@)]
  /\ UNCHANGED <<store, circuit, faults>>

(* Whatever the provider answered, the attempt cannot be recorded. *)
RecordFails(q) ==
  /\ faults > 0
  /\ req[q].phase = "routed"
  /\ req' = [req EXCEPT ![q] = Unrecorded(@)]
  /\ faults' = faults - 1
  /\ UNCHANGED <<store, circuit>>

-----------------------------------------------------------------------------
(* ManagedInferenceStream *)

(* A terminal event of the upstream, or its end, is recorded. *)
StreamEnds(q) ==
  /\ req[q].phase = "streaming"
  /\ \/ req' = [req EXCEPT ![q] = [Recorded(@, "succeeded") EXCEPT !.phase = "settling"]]
     \/ \E v \in PostCommitVerdicts :
          req' = [req EXCEPT ![q] = [Recorded(@, "partial_failed") EXCEPT
                                       !.phase = "settling", !.verdict = v]]
  /\ UNCHANGED <<store, circuit, faults>>

(* Variant: the route is marked although its success is not on record. *)
SucceedAnyway(s) == [s EXCEPT !.phase = "settling"]

(* succeed: no mark without the record, and the client sees the completion. *)
SucceedUnrecorded(s) == Over("whole")

(* The end cannot be recorded. fail marks all the same. *)
StreamEndUnrecorded(q) ==
  /\ faults > 0
  /\ req[q].phase = "streaming"
  /\ \/ req' = [req EXCEPT ![q] = SucceedUnrecorded(@)]
     \/ \E v \in PostCommitVerdicts :
          req' = [req EXCEPT ![q].phase = "settling", ![q].verdict = v]
  /\ faults' = faults - 1
  /\ UNCHANGED <<store, circuit>>

(* The client goes away while a provider is working, or the primary. What is   *)
(* then on record is the subject of UsageLedger.                               *)
Leave(q) ==
  /\ faults > 0
  /\ req[q].phase \in {"routed", "streaming"}
       \union (IF store = "fallback" THEN {"settling"} ELSE {})
  /\ req' = [req EXCEPT ![q] = Over("gone")]
  /\ faults' = faults - 1
  /\ UNCHANGED <<store, circuit>>

-----------------------------------------------------------------------------
(* mark_route_success, mark_route_failure, mark_account_failure *)

(* Variant: only an open route is closed by a success. *)
MarkedIfOpen(r, v) ==
  IF v.kind = "success" THEN (IF routeState[r] = "open" THEN "closed" ELSE routeState[r])
  ELSE "open"

(* The state a verdict gives its route. *)
Marked(r, v) == IF v.kind = "success" THEN "closed" ELSE "open"

(* The local circuit takes a verdict. *)
Mark(r, v) ==
  IF v.kind = "account"
    THEN /\ blocked' = blocked \union {AccountOf[r]}
         /\ UNCHANGED <<routeState, retryIn>>
    ELSE /\ routeState' = [routeState EXCEPT ![r] = Marked(r, v)]
         /\ retryIn' = [retryIn EXCEPT ![r] = v.retryIn]
         /\ UNCHANGED blocked

(* Variant: a stream always ends with [DONE]. *)
EndsAsDone(s) ==
  IF s.verdict.kind = "success" \/ s.answer = "streaming" THEN Over("whole") ELSE GoOn(s)

(* What follows a verdict: the answer, or after a failure the next candidate,  *)
(* whatever account it is of.                                                  *)
Settled(s) ==
  IF s.verdict.kind = "success" THEN Over("whole") ELSE GoOn(s)

(* The verdict is written. A SnapshotFallback writes it to its primary first,  *)
(* and to the snapshot's circuit only if the primary is away.                  *)
Settle(q) ==
  /\ req[q].phase = "settling"
  /\ \/ Mark(Current(q), req[q].verdict)
     \/ store = "fallback" /\ UNCHANGED circuit
  /\ req' = [req EXCEPT ![q] = Settled(@)]
  /\ UNCHANGED <<store, faults>>

(* It cannot be: 400 before commitment, and no matter after it. The snapshot's *)
(* circuit always can.                                                         *)
MarkFails(q) ==
  /\ faults > 0
  /\ store = "sqlite"
  /\ req[q].phase = "settling"
  /\ req' = [req EXCEPT ![q] = IF @.answer = "streaming" THEN Settled(@)
                               ELSE Over("error")]
  /\ faults' = faults - 1
  /\ UNCHANGED <<store, circuit>>

-----------------------------------------------------------------------------
Passed(t) == IF t = Never \/ t = 0 THEN t ELSE t - 1

(* One second passes, also for the retry times that verdicts carry. *)
Tick ==
  /\ retryIn' = [r \in Route |-> Passed(retryIn[r])]
  /\ req' = [q \in Request |-> [req[q] EXCEPT !.verdict.retryIn = Passed(@)]]
  /\ UNCHANGED <<store, routeState, blocked, faults>>

Arrive(q) ==
  \/ Refuse(q) \/ ConfigurationFails(q) \/ NoCandidate(q)
  \/ CandidatesOfSqlite(q) \/ CandidatesOfPrimary(q)
  \/ CandidatesOfSnapshot(q) \/ ProbeOfSnapshot(q)

Progress(q) ==
  \/ ExecuteFails(q) \/ Completes(q) \/ Commits(q) \/ StreamEnds(q) \/ Settle(q)

Fault(q) ==
  \/ SecretFails(q) \/ RecordFails(q) \/ StreamEndUnrecorded(q) \/ MarkFails(q) \/ Leave(q)

Next ==
  \/ \E q \in Request : Arrive(q) \/ Progress(q) \/ Fault(q)
  \/ Tick

Spec == Init /\ [][Next]_vars

(* Providers answer, and tokio runs every ready task. Nothing is assumed of    *)
(* clients: of those that come no more than of those that leave.               *)
FairSpec == Spec /\ \A q \in Request : WF_vars(Progress(q))

-----------------------------------------------------------------------------
(* Properties *)

Using(q, r) == req[q].phase # "idle" /\ r = Current(q)

(* Behind a store of its own, and as long as nothing has failed and no client   *)
(* has left, a route is half_open only while a request is on it, or its account *)
(* is blocked: late verdicts of other requests do not leave it behind.          *)
HalfOpenIsInUse ==
  faults = MaxFaults /\ store # "fallback" =>
    \A r \in Route : routeState[r] = "half_open" =>
      AccountOf[r] \in blocked \/ \E q \in Request : Using(q, r)

(* Then a half_open route is decided upon, too. *)
HalfOpenIsDecided ==
  \A r \in Route :
    routeState[r] = "half_open" /\ store # "fallback"
      ~> routeState[r] # "half_open" \/ AccountOf[r] \in blocked \/ faults < MaxFaults

(* A provider that may have done the work is the last one called: a request is  *)
(* sent again only after an attempt that is on record as failed before          *)
(* commitment, so that no client is given two streams and no answer is paid for *)
(* twice.                                                                       *)
OnlyFailuresAreFollowed ==
  \A q \in Request : \A r, s \in req[q].called :
    r < s => req[q].record[r] = "failed"

(* The record and the client agree on how the last call has ended. A completion *)
(* is shown only of a success; and as long as nothing fails, a success on       *)
(* record is one the client got, whole.                                         *)
AnswerIsOnRecord ==
  [][\A q \in Request :
       LET outcome == req[q].record[Current(q)]
           answer  == req'[q].answer
       IN  req[q].phase # "idle" /\ req'[q].phase = "idle" =>
             /\ answer = "whole" => outcome \in {"succeeded", "committed"}
             /\ answer = "broken" => outcome \in {"partial_failed", "committed"}
             /\ outcome = "succeeded" => answer = "whole" \/ faults' < MaxFaults
             /\ outcome = "committed" => faults' < MaxFaults]_vars

(* A route is closed only by a request whose success on it is on record. *)
ClosedIsOnRecord ==
  [][\A r \in Route : routeState[r] # "closed" /\ routeState'[r] = "closed" =>
       \E q \in Request : Using(q, r) /\ req[q].record[r] = "succeeded"]_vars

(* "At retry_at, one request is admitted through the half-open route": each of  *)
(* the stores implements the circuit. The snapshot's half_open is a lease that  *)
(* only a verdict ends; SQLite offers due routes without one; a SnapshotFallback *)
(* offers what its primary offers.                                              *)
Promised == INSTANCE RouteCircuit WITH
  state     <- routeState,
  due       <- {r \in Route : retryIn[r] = 0},
  leased    <- {r \in Route : routeState[r] = "half_open"},
  offered   <- [q \in Request |-> req[q].eligible],
  elsewhere <- [q \in Request |-> IF store = "fallback" THEN Route ELSE {}]
ImplementsCircuit == Promised!Spec
=============================================================================
