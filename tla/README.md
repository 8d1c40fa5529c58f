# Smart LLM Gateway: formal models

TLA+ models of the stateful parts of the gateway (`src/crates/`), the TLC runs that
check them on small instances, and TLAPS proofs of the results that matter most.
Every definition is translated from the Rust source; `PROJECT.json` ("map") names the
lines each one stands for.

## 1. The system

The gateway accepts OpenAI-compatible requests, finds the routes (provider account and
upstream model) that may serve a logical model, tries them in order, streams the answer
back, records what came of every attempt, and keeps a circuit per route and a block per
account. It runs on an embedded SQLite store (one process) or on PostgreSQL shared by
several processes; in the second case each process also keeps a last-known-good
snapshot and a local spool for the time the database is away.

| Component (crate) | State | Operations | Module |
|---|---|---|---|
| Route circuit and probe lease on PostgreSQL (`slg-adapter-storage-postgres`) | `provider_route_state`, `provider_account_state`, `provider_route_probe_leases`; per process the map `probe_leases` | `candidates`, `acquire_half_open_probe`, `release_half_open_probe`, `mark_route_success`, `mark_route_failure`, `mark_account_failure` | `HalfOpenProbe` |
| Route circuit of one process (`slg-adapter-storage-sqlite`, `SnapshotRepository` in `slg-runtime`) | the same tables, or the maps of the snapshot under a mutex | `candidates` and the `mark_` calls | `LocalGateway` |
| Attempt lifecycle, managed stream (`slg-application`) | per request: candidates left, what was called and recorded, the verdict, the answer; per stream: committed, pending terminal future, emitted terminal | `infer`, `handle_execution`, `poll_next`, `drop` | `LocalGateway` (whole), `UsageLedger` (delivery of the records), `HalfOpenProbe` (verdicts on a shared database) |
| Inbound HTTP adapter (`slg-adapter-inbound-openai`) | none | `chat_completion` from the request to the answer | `LocalGateway` |
| Provider executor (`slg-adapter-provider`), failure categories (`slg-domain`) | none | `execute`, `classify`, `from_category` | `ProviderFailures`, `LocalGateway` |
| Candidate plan (`slg-domain`), fallback graph | `model_fallbacks`; the stack, the visited set and the output of a call | `candidate_plan`, `add_fallback` | `CandidatePlan` |
| Durable usage spool and worker (`slg-runtime`, `main.rs`) | `usage_spool` on disk, `usage_attempts` in the store | `append`, `pending`, `acknowledge`, `flush_usage_spool`, `serve` | `UsageLedger`, over `AttemptLedger` |
| Authoritative accounting (`slg-domain`, both stores, `main.rs`) | `provider_quota_snapshots`, `provider_billing_records`, `provider_billing_units` | `persist_authoritative_evidence`, `record_*`, `billing_records`, inspection commands | `Accounting` |
| Upstream SSE decoder (`slg-adapter-upstream-openai`) | buffer, terminal flag | `poll_next` | `SseDecoder` |
| Administration commands (`main.rs`, both stores) | the configuration tables and the two state tables | `create_gateway_key`, `create_model`, `create_account`, `create_route`, `add_fallback` | `ControlData` |
| SnapshotFallback, snapshot file, start of a process (`slg-runtime`, `main.rs`) | start-up snapshot, `last-known-good.json` | `control_snapshot_data`, `save`, `load`, `serve_postgres`; calls that go to the primary and then to the snapshot | `ControlData` (file and start), `LocalGateway`, `HalfOpenProbe`, `UsageLedger` (calls) |
| Secret resolver (`slg-adapter-secrets`) | none | `resolve` | `SecretFails` in `HalfOpenProbe` and `LocalGateway` |
| Message codec, migrations | none, or one transaction | | not modelled (section 9) |

### How the parts interact

`Gateway::infer` asks the configuration repository for candidates, resolves the
credential of the first, and executes it. A failure before commitment is recorded
(`record_attempt`) and written to the circuit (a `mark_` call), and the next candidate is
tried. A stream is recorded as committed before its first byte, and ends in a terminal
future that records the end and marks the route before the terminal event is given to
the client. A stream that is dropped before its terminal event spawns a task that
records the cancellation. With PostgreSQL every repository call goes to the primary
first and on an error to the snapshot repository, which keeps a circuit of its own and
appends attempts to the spool; a worker delivers the spool every five seconds. That
snapshot is captured from PostgreSQL by five queries when a process starts to serve, and
saved to a file from which a later process starts when PostgreSQL is away. Administration
commands run meanwhile, each in a process of its own.

### What is hard about it

* Requests interleave between any two awaits: rows are read, a lease is asked for,
  verdicts are written by requests that began long before (`HalfOpenProbe`,
  `LocalGateway`).
* Record, verdict and answer are three steps that may fail one by one: what is on record,
  what the circuit says and what the client got must still agree (`LocalGateway`).
* A snapshot is read while commands create rows; a crash or a power loss may come at any
  step of its save (`ControlData`).
* A verdict on PostgreSQL is an UPDATE, a removal from the local lease map and a DELETE,
  with awaits in between; leases expire meanwhile and are taken over.
* A client may go away at any await, and what was sent may still be done by the server:
  a lease nobody knows of, an attempt recorded unheard, a terminal future dropped
  half-way while a cancellation is spawned.
* The spool delivers at least once and in any order; processes crash between delivery
  and acknowledgement; the store and the disk fail, also together.
* Upstream bytes are cut into chunks anywhere.
* The expansion of fallbacks must tell a cycle from two ways to one model.

### What makes each component correct

* Circuit and lease: only the holder of a lease deletes it, however late it does; a stale
  read never reopens a closed route; a half-open route stays retryable and is decided
  upon in the end.
* Plan: every eligible route of every reachable model once, in the documented order; a
  cycle is reported exactly when one can be reached.
* Ledger: an accepted record is never lost; outcomes move from committed to one terminal
  outcome; the end a client saw is the end on record; a connected process drains its
  spool.
* Requests: a provider is called again only after a failure on record, in the order of
  the plan; the answer agrees with the record; a route is closed by a recorded success.
* Control data: what a command reports is usable; a snapshot is whole, loadable after any
  crash, and knows no less than the one before, unless a power loss undoes its rename.
* Accounting: a billing record is whole or absent, quotas are an account's own and never
  change, and only faults lose a report.
* Decoder: the events do not depend on how the bytes were cut, there is exactly one
  terminal event, and it always comes.

`PROJECT.json` ("hazards") lists what is hard to test, at its line, with the properties
that cover it.

## 2. The modules

| Module | Extends | What it is |
|---|---|---|
| `RouteCircuit` | | abstract: what a store promises of a circuit: offers, probes under a lease, verdicts |
| `HalfOpenProbe` | instantiates `RouteCircuit` | several processes on one PostgreSQL database: circuit, leases, requests, crashes, departures |
| `LocalGateway` | `ProviderFailures`; instantiates `RouteCircuit` | one process: every request from arrival to answer, over a circuit of its own |
| `ProviderFailures` | | what a failure says of its account and route: categories and classification |
| `AttemptLedger` | | abstract: one outcome per attempt, entries owed until covered |
| `UsageLedger` | instantiates `AttemptLedger` | one process with its store and spool |
| `Accounting` | | reports of quotas and billing from the response to the inspection |
| `ControlData` | | rows, snapshot file and the process that captures, saves, serves and starts from it |
| `AscendingOrder` | | sets of numbers in ascending order |
| `CandidatePlan` | `AscendingOrder` | `candidate_plan` as a state machine, and its reference definition |
| `SseDecoder` | `AscendingOrder` | the incremental decoder, and the meaning of uncut bytes |
| `HalfOpenProbe_proofs`, `LocalGateway_proofs`, `UsageLedger_proofs`, `Accounting_proofs`, `ControlData_proofs`, `AscendingOrder_proofs`, `CandidatePlan_proofs`, `SseDecoder_proofs` | the module of that name, `TLAPS`, library theorems | theorems and proofs |
| `MC*` | one of the above | constants of the finite instances |

Operators under a comment that begins with "Variant" are not part of a model: they are
alternative forms of the definition after them, a plausible bug each, and the properties
have been seen to fail when one takes the definition's place.

### RouteCircuit

The promise that the stores have in common, for any number of processes: a request that
has no offer yet reads the circuit once (`Choice`) and goes on with what it read; a route
becomes half_open only by `Probe`, while it is due and no other probe has it on lease; a
verdict (`Judge`) or a `Release` comes only from a request that was offered a route, for
that route or its account; requests may be `Lose`d with their process; `Time` makes
routes due and leases expire. It does not promise that an offer stays good, nor, since
leases expire and another store is asked, that one request probes at a time: the code
guarantees neither. `elsewhere` is what another store offers when this one has nothing.

`HalfOpenProbe` implements it with the unexpired lease rows as `leased`, and the rows
still to be looked at together with the routes left to try as `offered`. `LocalGateway`
implements it with half_open itself as the lease, which only a verdict ends.

### HalfOpenProbe

Shared variables are the rows of the three tables; `owned[g]` is the map `probe_leases`
of process g and `snapshot[g]` the circuit of the snapshot it took when it started, which
`SnapshotFallback` asks when the primary has no eligible route: its closed routes, or the
first that is open and due, once (`SnapshotRoutes`, `SnapshotProbed`). Since verdicts go
to the primary nothing else changes that circuit. Each request carries the local variables of the handler that is running
it. `Query` reads the rows of `candidates` under the client lock and `Scan` is its loop
up to the next probe it must ask for. `AcquireProbe` and `RefuseProbe` are
`acquire_half_open_probe`, whose transaction is one step, and `AcquireUnheard` is its
COMMIT when the caller is dropped while it awaits it. `Commit`, `Completes`,
`ExecuteFails`, `StreamFails`, `SecretFails` and `Abandon` are what the handler or the
stream does. A verdict is written by `Settle` (the UPDATE), `ForgetLease` (the removal
from the map) and `DeleteLease` (the DELETE with route and identity), once for each route
of the account when the account is blocked. `Tick` lets a second pass. A process that
crashes (`Crash`) starts again (`Start`) with an empty map and a new snapshot.

Abstractions: times are the seconds left to them, so clocks agree (in the code, the
gateway's clock writes `retry_at` and the server's clock compares it). Routes are those
of one model, numbered in the order of the plan, which `CandidatePlan` models. An error
of the database other than an unheard COMMIT is left out here; what happens to records
then is in `UsageLedger`, and `LocalGateway` has the snapshot whose primary is away.
`Start` takes the snapshot's states at one moment; in the code they are two of the five
queries of `ControlData`.

### UsageLedger and AttemptLedger

The state is the rows of `usage_attempts` and `usage_spool`, how the process runs
(`mode`, `connected`), the flush under way, and how far each attempt is. `Persisted` and
`NotPersisted` are `StreamAttempt::persist`: the store, then the spool, then an error. A
call fails when there is no connection, or at the cost of a fault, and with the
connection when it breaks; then the statement may be done all the same. A PostgreSQL
client that has lost its connection never has one again in this process, as in the code.
`DropStream` covers both an open stream and one whose terminal future is running; the
calls of the embedded store and of the snapshot repository do not suspend, so that there
a future that makes them is not dropped half-way (`Suspends`). A flush takes at most
`FlushLimit` entries, any of them first, since `queued_at` has whole seconds and
identities are random.

`AttemptLedger` is the promise: an outcome only moves as the lifecycle in `slg-ports`
says, an entry that is put aside is owed until the ledger covers it, and it may reach the
ledger unheard and more than once. `ImplementsLedger` is its specification with
`recorded <- primary` and `owed <- spool`.

### Accounting

A complete response reports something or nothing (`Reports`). After the record and the
verdict come validation, one call for each snapshot, and the billing transaction, which
holds the client, so that the other calls of the process wait (`Free`). The rows of a
transaction appear with its commit. Every failed call drops the rest of what it was for
and nothing is retried, as in the code (`let _ =`). A fault is a failed call, a client
that goes away, or a restart. The inspection command is another process that reads the
record first and the units afterwards. `OpenAiCompatibleExecutor`, the only executor of
the repository, reports units only; the other reports are what the gateway and the stores
handle for executors behind the same port.

### LocalGateway and ProviderFailures

`store` says what the process has: `"sqlite"`, the embedded store; `"snapshot"`, the
snapshot alone, because PostgreSQL was away at the start; `"fallback"`, the snapshot
behind a PostgreSQL that may come and go. Calls to SQLite and to the snapshot run under a
mutex without an await, so each is one step; requests interleave. `req[q]` holds a
request's local variables (`eligible`, whose first is the candidate in use, and
`verdict`), what it has called, what it has put on record, and what its client has. A
request begins with one of the actions of `Arrive`: it is refused, finds no candidate, or
gets those of its store. `ExecuteFails`, `Completes`, `Commits` and `StreamEnds` are the
provider's answer with its record; `RecordFails` and `StreamEndUnrecorded` the same
without it; `Settle` and `MarkFails` the verdict and what follows. `GoOn` is the end of
the loop's body in `infer`: the next candidate, or the error. A behaviour is one life of
the process, from a state that `control_snapshot_data` may have captured or a database
file may hold.

With `"fallback"` only the snapshot's circuit is kept: candidates may come from the
primary (`CandidatesOfPrimary`, any of them), and a verdict may go to it (`Settle` leaves
the circuit alone). `HalfOpenIsInUse` and `HalfOpenIsDecided` leave this store out: a
probe taken from the snapshot during an outage whose verdict goes to the primary that is
back leaves the snapshot's route half-open (section 5).

The failures a provider can give are those of `ProviderFailures`: the rules of `classify`
over the status and the words of an error code, those of the decoder for error events,
and the failures without an answer. `Failures` of `HalfOpenProbe` are the verdicts they
amount to.

### ControlData

`rows`, `stated` and `pending` are the database and the commands under way: on PostgreSQL
an account or route and its state row are one transaction (`InsertPostgres`), whose commit
may go unheard; on SQLite two statements (`InsertSqlite`, `InsertState`), the second of
which may fail or never come. Unique columns and foreign keys are the guard `Fits`. One
process at a time uses the state directory (the file would be replaced by whichever
renames last; the code has no lock). `Connect` and five steps of `Read` are
`control_snapshot_data`; `WriteTemporary`, `SyncTemporary` and `Rename` are `save`;
`Serve` and `StartOnSnapshot` the two ways to start. `Stop` is every early end of a
process. `file` is what a process reads, `stable` what the disk has at worst: the
directory is not synced, `WriteBack` is the kernel's own time, and `PowerLoss` picks
either, torn if it was not synced. `known` is what the last process that served had, and
`reverted` that a power loss has since put an older file back: then `NothingForgotten`
promises nothing of a start on the snapshot, and `SnapshotIsLoadable` nothing unless the
directory was written back before. Without the exemption TLC finds `NothingForgotten`
violated.

Abstractions: no command changes or deletes a row, so there is no such action; names
count only where they are keys of the snapshot's maps and look like secrets
(`Sensitive`); the states in the snapshot are `LocalGateway`'s subject; PostgreSQL is on a
machine of its own and keeps what it has committed.

### CandidatePlan

`AddFallback` builds any graph first, then `Plan` begins a call with any set of eligible
routes; `Visit`, `Return` and `Finish` are the recursion of `visit` with its stack kept
explicitly. `Ways`, `IsLoop`, `Reachable` and `RouteBefore` say independently what the
plan should be: routes in the order of the first paths that lead to their models, and a
cycle when one of the paths leads back into itself.

### SseDecoder

Bytes are tokens: line ends, the field name, a comment's colon, payloads by what they
parse as, and bytes that are no UTF-8, which fail the frame they are in. `TakeFrame` is one
turn of the loop of `poll_next`, `ReadChunk(n)` reads a chunk of n tokens, `SourceEnds` is
the end of the source or of its transport. `Meaning` says what the uncut bytes mean: the events of the frames, in the order of their ends
(`AscendingOrder`), up to the first that is terminal; it shares `FrameEnds` and `Decoded` with the decoder, so
that what is checked is the independence of chunking, the buffer and the terminal
event, and not the parsing of a single frame.

## 3. Runs

| Run | Instance | What it shows |
|---|---|---|
| `probe_safety` | 2 processes, 3 requests (two of one process), 1 route, leases of 1 second, no cooldown, 1 departure or bad secret | `ReleasedByHolder`: the two-step release is safe although the lease may be taken over between its steps |
| `probe_routes` | 2 processes with their snapshots, 2 requests, 2 routes of one account, leases and cooldowns of 1 second | `OwnedIsInUse`, `ImplementsCircuit`: late verdicts and an account's block, which releases the leases of both routes, leave no lease behind, and every step is one of the circuit, so that a closed route is never probed on a stale read |
| `probe_live` | 2 processes, 2 requests, 1 route, 1 crash and a new start, nobody departs | `HalfOpenIsLeft`: a crash in the middle of a probe strands nothing; `HalfOpenIsRetryable`; `LeaseKnownToHolder` across takeovers, two-step releases and the crash |
| `probe_stranded` | 1 process, 1 request at a time, 2 routes, open ones with and without a retry time, 1 departure | `HalfOpenIsLeft` fails (finding) |
| `ledger_safety` | 2 attempts, both deployments, 1 outage, 1 crash, 3 faults, 1 departure | `AcceptedNotLost`, `EndIsOnRecord`, `ImplementsLedger` |
| `ledger_live` | 1 attempt, both deployments, 1 outage, 1 crash, 2 faults, 1 departure, a flush of 2 | `EndIsRecorded`, `SpoolDrains` |
| `ledger_reconnect` | 1 attempt, PostgreSQL, 1 outage | `DeliveredOnceReachable` fails (finding) |
| `accounting` | 2 responses of one account, all ways to start, 2 faults, 8 kinds of report | `BillingIsWhole`, `InspectionIsWhole`, `QuotasAreOwn`, `QuotasStay`, `ReportIsKept` |
| `local_circuit` | the 3 stores, 2 requests, 2 routes of one account, every verdict, 1 fault | `OnlyFailuresAreFollowed`, `AnswerIsOnRecord`, `ClosedIsOnRecord`, `ImplementsCircuit`; before the fault also `HalfOpenIsInUse`, `HalfOpenIsDecided` |
| `control_data` | both databases, 1 key, 2 models, 1 account, 2 routes that want one priority, one of them with a sensitive name, 1 fallback, 2 commands | `RowsAreUsable`, `SnapshotIsWhole`, `SnapshotIsLoadable`, `NothingForgotten` |
| `plan_order` | 3 models with up to 2 fallbacks each, 4 routes, every graph, request and eligible set | `PlanIsOrdered`, `CyclesAreFound` |
| `sse_decoder` | 63 byte sequences, chunks of up to 4 tokens, a limit of 10, a break anywhere | `NothingInvented`, `NothingMissed`, `Terminates` |

One run of each module also checks its type invariant.

### Why the bounds are enough

* Lease hazards need one holder and one rival: two processes with one request each show
  every takeover, and the release races with it; the third request of `probe_safety` lets
  a verdict of the same process release what another of its requests holds. Only whether a
  lease or a retry time is over matters, so that one second, which may pass between any
  two steps, is enough of either: a lease may expire during a probe, and the retry time
  may come before or after it does. `probe_safety` has no cooldown, so that a route is due
  again at once. Lease identities are never used up: there are more than can be referred
  to at one time, and an identity that nothing refers to is used again. The safety
  properties are proved for all bounds, crashes and departures together.
* A second route of the same account is needed for the multi-route release, for the
  order of candidates, and for a snapshot with one route closed and another to probe; a
  third adds another row to pass over. Routes are at first closed, or open and due; other
  circuits follow from failures.
* One crash and one departure are enough because neither leaves state in the process
  that the next would find other than after the first.
* In `local_circuit` two routes give a request a next candidate, whose account the first
  may just have blocked; two requests give every pair of a late verdict and a
  probe; one fault is what may go wrong between the record, the verdict and the answer. A
  second fault would only end another request. A second account would leave a route to
  probe while the other is blocked; the safety properties are proved for any number.
* In `control_data` two routes of one priority let a command be refused, a route with a
  sensitive name makes captures that cannot be saved, and the last fallback may be newer
  than the routes a capture has read. Processes may start, stop and lose power any number
  of times.
* Two attempts and a flush limit of one let entries of different attempts be reordered,
  split over flushes and delivered twice; three faults allow a failing record, a failing
  spool and a failing delivery in one behaviour.
* Three models suffice for a self-cycle, longer cycles, a diamond and two ways of
  different lengths to one model.
* Frames, remainders and limit of `sse_decoder` are chosen so that every frame end is cut
  by some chunk, that the limit is hit by some and not by others, and that bytes follow
  a terminal frame.

Deadlock checking is off for the ledger, accounting, plan, decoder and control-data runs:
their behaviours end when the attempts, the plan, the bytes or (on SQLite, where no
process captures anything) the rows are used up. The probe and circuit runs check it.

### Fairness

Safety holds without any. The liveness runs assume that requests keep arriving, that
tokio runs ready tasks, that providers answer (the HTTP client has no timeout, so an
upstream that stalls for good is excluded by assumption), that time passes, that the
worker's sleep ends, that the process is started again, and that the database and the
disk come back. `LocalGateway` assumes less: only that a request that is in flight goes on
(`WF_vars(Progress(q))`), not that another one arrives. Nothing is assumed of clients that go away, of crashes, or of which
outcome a provider gives: these are not fair. Fairness is weak everywhere.

## 4. What the violated runs show

* `probe_stranded`: a probe whose client goes away leaves its identity in the local map.
  From then on its process refuses the route (`Ok(false)` before any query), although the
  lease in the database expires, and goes on answering with the other route. Since the
  primary does answer, `SnapshotFallback` (`main.rs:410`) does not ask the start-up
  snapshot, and the route stays half-open while requests pass it by, against
  `PRODUCT.md:215`: "At `retry_at`, one request is admitted through the half-open route.
  Success closes the circuit; another classified failure renews the block." It is admitted
  again if another process takes the lease over, if the process restarts, or if no other
  route is left and the snapshot offers it: always if it captured the route closed, once
  if open with a retry time, and else not at all. The verdict of such a request releases
  the map entry.
* `ledger_reconnect`: nothing reconnects the PostgreSQL client, so that what is spooled
  after an outage stays in the spool until a restart, although the database is back,
  against `PRODUCT.md:167`.

## 5. Other places where documents and code part

Met while modelling and followed in the models as the code has them; no run is kept for
them.

* A refused connection and a missing model open the route with a NULL `retry_at`, which
  `candidates` never selects again, so that no recovery probe ever follows
  (`PRODUCT.md:124`). A stream that ends without a terminal event would do the same; the
  decoder of the repository always yields one, with a retry time.
* A capture is five queries without a transaction (`ARCHITECTURE.md:611`: "A snapshot
  builder reads one consistent revision"): it may have a fallback that is newer than the
  routes it read. That it has the states of its routes rests on the order of the queries.
* A lease is not renewed, so a probe that lasts longer than it is joined by the probe of
  another process (`ARCHITECTURE.md:507`); and while one request probes, another whose
  candidates are all refused may get the same route from the start-up snapshot, which
  knows of no lease (`ARCHITECTURE.md:470`: "One recovery request may probe the route").
* After an account failure, the remaining candidates of the request may include other
  routes of that account (`ARCHITECTURE.md:357`, `:948`).
* `SnapshotFallback` takes the answer "no eligible route" for an unreachable primary and
  offers the start-up snapshot's routes (`slg-runtime/src/lib.rs:161`).
* SQLite gives a due route to every concurrent request and has no half-open state
  (`ARCHITECTURE.md:507`).
* The snapshot repository never offers a route that was captured half-open, or whose
  probe ended without a verdict, or whose verdict went to the primary that had come back
  meanwhile.
* The directory of the snapshot is not synced after the rename (`slg-runtime/src/lib.rs:85`):
  a power loss may bring back an older snapshot than one that has been served from, or
  none.
* A complete response is a success whatever its body holds, also one that is no JSON
  (`slg-adapter-provider/src/lib.rs:75`).
* On SQLite a process that is killed between the two statements of `create_account` or
  `create_route` leaves a row that is never used and whose command cannot be repeated.
* A route, an account or a source model may be named `content`, `secret` and the like, and
  then no snapshot can be saved: no process starts while PostgreSQL is there.
* A SQLite deployment spools but has no worker that delivers (`ARCHITECTURE.md:952`).
* `add_fallback` accepts cycles (`ARCHITECTURE.md:421`); a requested model without an
  eligible route is an unknown model and its fallbacks are not looked at (`PRODUCT.md:119`).
* The billing report of an attempt that went to the spool is refused by the foreign key
  and dropped (`PRODUCT.md:167`); streams report no billing at all (`PRODUCT.md:26`).
* The SSE limit is applied to the buffer and the whole next chunk, also when that chunk
  completes a frame within the limit (`slg-adapter-upstream-openai/src/lib.rs:13`).

## 6. What is proved

For all sets of processes, requests, routes, accounts, attempts, rows and bytes, and all
bounds, from the named assumptions `ConstantsAssumption` of the modules (types, a positive
lease time, `None` and `Never` outside the sets they extend).

`HalfOpenProbe_proofs`:

* `TypeCorrect`. One step per action; `ScanTypes`, `GoOnTypes` and `TakeLeaseTypes` treat
  the shared helpers once.
* `LeaseKnownToHolderAlways`. The invariant is inductive together with `TypeOK`. It is the
  heart of the protocol: an identity is fresh when it enters a row, and afterwards
  only the process of that row has it, in its map or in a pending DELETE.
* `ReleaseSafe`: lemma `LeaseSteps` lists the only steps that change a lease row; the one
  that empties a row is `DeleteLease` with a matching identity, and by
  `LeaseKnownToHolderAlways` the request that does it belongs to the holder. This is why the invariant is needed: the property alone says nothing about
  identities.
* `HalfOpenStaysRetryable`: inductive with `LeasesAreShort`, the bound on every lease that
  the property states of half-open routes only.
* `CircuitRefined`: every step is a step of `RouteCircuit` or a stutter. `RequestsInPhase`
  says what a request has in each phase; above all that a lease about to be given back is
  of the account of a route that the request was offered, which `Release` needs and no
  variable of the database shows. One lemma for each kind of step: `LessRefines` for those
  that leave the rows alone, `QueryRefines`, `RefuseRefines`, `ProbeRefines`,
  `SettleRefines`, `DeleteRefines`.
* `OwnedAlwaysInUse`. The invariant says more than the property: the request that uses a
  route has not released it yet (`InUse`), else a request that is done with its release
  could be the only witness for a lease that its process has taken again.

`LocalGateway_proofs`:

* `TypeCorrect`, together with the invariant `RequestsAreSound`: in each phase of a request
  what it has called comes before what it may still call and has failed on record
  (`CalledInOrder`), and the verdict it is about to write is what the record of its route
  says (`SettledOnRecord`), except after the end of a stream that could not be recorded,
  which a fault has been spent on. `GoOnIsSound` and its like treat the helpers once; that
  the first of a set of routes exists is by well-foundedness of the numbers.
* `OnlyFailuresAreEverFollowed`, `ClosedAlwaysOnRecord`, `AnswersAreOnRecord` follow from it, the last two by a look at the steps that close a
  route or end a request.
* `HalfOpenAlwaysInUse`, for snapshots that were not captured during a probe: a probe makes
  its route half-open and current in one step, and every step that takes a route out of
  use either marks it or costs a fault.
* `CircuitRefined`: every store implements `RouteCircuit`. It needs that a request that is
  not in flight is offered nothing (`IdleHasNothing`), so that it reads the circuit, and
  `RequestsAreSound`, so that a verdict is on a route that was offered.

`ControlData_proofs`:

* `TypeCorrect`, foreign keys included, and `RowsAlwaysUsable`.
* `SnapshotAlwaysWhole`, `SnapshotAlwaysLoadable`, `NothingIsForgotten` from one invariant,
  `SnapshotInv`: what a query has returned would be returned again (`NothingIsDeleted`);
  past the fourth and fifth query the states of the routes and of their accounts have been
  read, because these queries come last (`CapturesAreWhole`); only synced and acceptable
  files are ever renamed (`FilesAreLoadable`); and each query returns at least what the
  file and the last process have of its part, and unless a power loss has undone a rename
  the file has what was last served from (`CapturesGrow`).

`Accounting_proofs`:

* `TypeCorrect`, together with `Sound`: what a handler may still write is what its valid
  report says, and an open transaction has written a prefix of the units, for an attempt
  on record, while its handler waits in the same place.
* `BillingAlwaysWhole`: a record appears only by the commit of a transaction whose prefix is
  complete. `InspectionAlwaysWhole`: units never change once their record is there.
  `QuotasAlwaysOwn` and `QuotasNeverChange`: `StoreSteps` lists what a step may add.
* `ReportsAreKept`: while nothing has failed, what is reported is on record or still to be
  written (`OnItsWay`), and a handler ends with nothing left to write.

`AscendingOrder_proofs`: `AscendingIsSorted`. Every number of a finite set has a place, one
more than the numbers below it, places differ and leave none out, so that the sequence
has each number once and in order. Plans and meanings of bytes are built with it instead of
a recursion, which is what lets them be proved about.

`CandidatePlan_proofs`:

* `TypeCorrect`, with the bound on the depth of the recursion: the models of the active
  calls are different ones.
* `PlanAlwaysOrdered`: the ways that come before the way of the active calls lead to
  models that have been visited, and the first way to a model that has been visited comes
  before every way to one that has not; so models are visited in the order of their first
  ways, each adds its routes by priority, and at the end all that can be reached have.
* `CyclesAlwaysFound`: as `CyclesAreAlwaysDecided`, for the ways no longer than there are
  models, to which the run restricts itself: when a cycle is reported, the way is that of
  the active calls, whose models are all different.
* `CyclesAreAlwaysDecided`: `FallbackCycle` exactly when a way from the requested model
  leads back into itself. The models whose visit has returned can be listed so that each
  comes after its fallbacks (`IsOrder`), the fallbacks of the active calls are still to be
  looked at, listed, or being visited (`FallbacksAreSeen`), and the active calls are a way
  (`StackIsWay`). When the stack is empty the list holds all that can be reached, and a way
  that came back would have a model with the smallest place in it and a fallback with a
  smaller one.

`SseDecoder_proofs`:

* `TypeCorrect`: the buffer never exceeds the limit.
* `BytesStayInOrder`: until the stream ends, buffer and source are together the end of what
  was sent, so that no byte is lost, read twice or moved by any chunking.
* `NothingIsInvented`, `NothingIsMissed`, from one invariant, `DecodeInv`: the buffer is the
  part of what was sent that begins at a frame end; the frames before it are those that have
  been decoded, and the events so far are theirs (`SaysSoFar`), unless the stream has
  failed early (`FailedEarly`), which needs a transport that broke or the limit. That a
  frame end of the buffer is the next frame end of the whole is where the independence of
  chunking lies; `Place` counts the frames that have said something.
* `OneTerminal`: one terminal event at most, and nothing after it.

`UsageLedger_proofs`:

* `TypeCorrect`, with the limit of a flush: a spool is a finite set, of which no more than
  `FlushLimit` entries are taken.
* `NothingAcceptedIsLost`. The invariant `AcceptedNotLost` is strengthened by
  `DeliveredCovered`: what a flush is about to acknowledge is covered by the primary, else
  removing it from the spool could lose it. `PrimarySteps` shows that every step changes
  the primary by upserts only, and `CoveredStable` that an upsert keeps what is covered.
* `LedgerRefined`: the initial states map to initial states and every step to a step of
  `AttemptLedger` or a stutter; an acknowledgement maps to `Acknowledge` by
  `DeliveredCovered`.
* `EndsAreOnRecord`. The strengthening `EveryStageSaid` says for each stage of an attempt
  which outcomes may be on record or in the spool: a terminal outcome other than the one
  the client was shown could otherwise be waiting in the spool.

TLC checks the same formulas on the instances of section 3.

## 7. What is only model-checked

* Liveness (`HalfOpenIsLeft`, `HalfOpenIsDecided`, `EndIsRecorded`, `SpoolDrains`,
  `Terminates`) is out of the prover's reach.
* The two properties of section 4 fail, on the instances of their runs.

Every invariant and every action property of the passing runs, and all three refinements, are
proved.

## 8. What is left

Everything that keeps state is modelled. What would come next is the composition of
`HalfOpenProbe` and `LocalGateway`, with which requests read one circuit and write to the
other; here each has the other's part as a free choice (`elsewhere`).

## 9. What is not modelled

* The message codec of the upstream adapter, and the parsing of requests and wording of
  bodies in the inbound adapter: conversions without state. That a body cannot be decoded,
  that clients leave and that credentials do not resolve are actions of the models.
* Which of the units of a usage object are reported, and which error strings a provider
  writes: inputs of the models, with every value that the code tells apart.
* Authentication of gateway keys: one query without state of its own; its refusal is
  `Refuse` in `LocalGateway`.
* The freshness label that the inspection command prints: a function of two times.
* Migrations: one transaction under an advisory lock.
