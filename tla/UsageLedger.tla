---------------------------- MODULE UsageLedger ----------------------------
(***************************************************************************)
(* How one gateway process records the attempts it makes: in the primary   *)
(* repository when that answers, else in the durable local spool, whose    *)
(* worker delivers the entries to the primary repository later. Instances  *)
(* share nothing of this: every attempt has an identity of its own and     *)
(* every instance a spool of its own.                                      *)
(*                                                                         *)
(* A call to the primary repository may fail, may break the connection and *)
(* be applied all the same, or may be given up by a client that goes away; *)
(* the process may crash; the database may be out of reach for a while;    *)
(* the disk of the spool may be full. A PostgreSQL client that has lost    *)
(* its connection never has one again before the process starts anew.      *)
(***************************************************************************)
EXTENDS Integers, FiniteSets

CONSTANTS
  Attempt,      \* the attempts of a behaviour
  Deployments,  \* the stores the process may be given: "postgres", "sqlite"
  FlushLimit,   \* entries that one flush takes from the spool (100)
  MaxOutages,   \* bound: times the database goes out of reach
  MaxCrashes,   \* bound: crashes of the process
  MaxFaults,    \* bound: failed calls, broken connections, a disk that fills
  MaxDepartures \* bound: clients that go away

ASSUME ConstantsAssumption ==
  /\ Deployments \subseteq {"postgres", "sqlite"}
  /\ FlushLimit \in Nat \ {0}
  /\ MaxOutages \in Nat
  /\ MaxCrashes \in Nat
  /\ MaxFaults \in Nat
  /\ MaxDepartures \in Nat

VARIABLES
  (* The world: the store the process is given, whether the database can be  *)
  (* reached, whether the spool takes a write, what is left of the bounds.   *)
  deployment, reachable, writable, outages, crashes, faults, departures,
  (* On disk: the rows of usage_attempts and of usage_spool. *)
  primary, spool,
  (* The process: how it runs, whether its client has a connection, and the  *)
  (* flush it is doing: entries to deliver and entries delivered.            *)
  mode, connected, flushing, batch, delivered,
  (* Every attempt: how far it is, the outcome being recorded or recorded    *)
  (* last, and for the properties the entries its callers were told are safe *)
  stage, outcome, accepted

(* What no call to a store changes. *)
rest     == <<deployment, reachable, writable, outages, crashes, departures, mode,
              flushing>>
world    == <<deployment, reachable, writable, outages, crashes, faults, departures>>
process  == <<mode, connected, flushing, batch, delivered>>
attempts == <<stage, outcome, accepted>>
vars     == <<world, primary, spool, process, attempts>>

Streamed == {"succeeded", "partial_failed", "cancelled"}
Outcome  == {"failed", "committed"} \union Streamed
Entry    == [attempt : Attempt, outcome : Outcome]

Modes  == {"down", "starting", "primary", "snapshot", "sqlite"}
Stages == {"unused", "recording", "open", "ending", "marking", "ended",
           "cancelling", "closed"}

(* A flush never holds more entries than its limit. *)
TypeOK ==
  /\ deployment \in Deployments
  /\ reachable \in BOOLEAN /\ writable \in BOOLEAN
  /\ outages \in 0 .. MaxOutages /\ crashes \in 0 .. MaxCrashes
  /\ faults \in 0 .. MaxFaults /\ departures \in 0 .. MaxDepartures
  /\ primary \in [Attempt -> Outcome \union {"absent"}]
  /\ spool \subseteq Entry /\ IsFiniteSet(spool)
  /\ mode \in Modes /\ connected \in BOOLEAN /\ flushing \in BOOLEAN
  /\ batch \subseteq Entry /\ IsFiniteSet(batch) /\ Cardinality(batch) <= FlushLimit
  /\ delivered \subseteq Entry
  /\ stage \in [Attempt -> Stages]
  /\ outcome \in [Attempt -> Outcome]
  /\ accepted \subseteq Entry

Init ==
  /\ deployment \in Deployments
  /\ reachable = TRUE /\ writable = TRUE
  /\ outages = MaxOutages /\ crashes = MaxCrashes
  /\ faults = MaxFaults /\ departures = MaxDepartures
  /\ primary = [a \in Attempt |-> "absent"]
  /\ spool = {}
  /\ mode = "down" /\ connected = FALSE
  /\ flushing = FALSE /\ batch = {} /\ delivered = {}
  /\ stage = [a \in Attempt |-> "unused"]
  /\ outcome = [a \in Attempt |-> "failed"]
  /\ accepted = {}

-----------------------------------------------------------------------------
(* The two stores *)

(* Variant: the upsert without its condition on the row that is there. *)
LastWrite(present, new) == new

(* The upsert of record_attempt: a new row, or committed to a terminal         *)
(* streaming outcome; anything else leaves the row as it is.                   *)
Merge(present, new) ==
  IF present = "absent" \/ (present = "committed" /\ new \in Streamed)
    THEN new
    ELSE present

(* A row that the entry would not change any more. *)
Covered(e) == Merge(primary[e.attempt], e.outcome) = primary[e.attempt]

Upserted(e) == [primary EXCEPT ![e.attempt] = Merge(@, e.outcome)]

(* Variant: the identity of an entry is its attempt. *)
AppendedByAttempt(e) ==
  IF \E f \in spool : f.attempt = e.attempt THEN spool ELSE spool \union {e}

(* INSERT ... ON CONFLICT (id) DO NOTHING, the id being attempt:outcome. *)
Appended(e) == spool \union {e}

(* The store answers calls: the embedded one always, the shared one while the  *)
(* client that was connected at the start still is.                            *)
Answers == mode = "sqlite" \/ (mode \in {"starting", "primary"} /\ connected)

RecordOk(e) ==
  /\ Answers
  /\ primary' = Upserted(e)
  /\ UNCHANGED <<connected, faults>>

(* record_attempt returns an error: there is no client to ask; or the call     *)
(* fails; or the connection breaks, with the statement done or not.            *)
RecordFails(e) ==
  \/ /\ ~ Answers
     /\ UNCHANGED <<primary, connected, faults>>
  \/ /\ Answers /\ faults > 0
     /\ faults' = faults - 1
     /\ \/ UNCHANGED <<primary, connected>>
        \/ /\ mode # "sqlite"
           /\ connected' = FALSE
           /\ primary' \in {primary, Upserted(e)}

(* StreamAttempt::persist and Gateway::persist_attempt: the primary repository *)
(* first, then the spool; an error when both fail.                             *)
Persisted(e) ==
  /\ accepted' = accepted \union {e}
  /\ \/ RecordOk(e) /\ spool' = spool
     \/ RecordFails(e) /\ writable /\ spool' = Appended(e)

NotPersisted(e) ==
  /\ RecordFails(e)
  /\ ~ writable
  /\ UNCHANGED <<spool, accepted>>

EntryOf(a) == [attempt |-> a, outcome |-> outcome[a]]

-----------------------------------------------------------------------------
(* Gateway::infer: one attempt on one route *)

Serving == mode \in {"primary", "snapshot", "sqlite"}

(* The executor answers: a failure before commitment, a complete response, or  *)
(* a stream. The attempt gets its identity and is about to be recorded.        *)
Execute(a) ==
  /\ Serving
  /\ stage[a] = "unused"
  /\ \E o \in {"failed", "succeeded", "committed"} :
       outcome' = [outcome EXCEPT ![a] = o]
  /\ stage' = [stage EXCEPT ![a] = "recording"]
  /\ UNCHANGED <<world, primary, spool, process, accepted>>

(* The first record of the attempt. The stream is opened only when it is safe. *)
RecordAttempt(a) ==
  /\ stage[a] = "recording"
  /\ \/ /\ Persisted(EntryOf(a))
        /\ stage' = [stage EXCEPT ![a] =
             IF outcome[a] = "committed" THEN "open" ELSE "closed"]
     \/ /\ NotPersisted(EntryOf(a))
        /\ stage' = [stage EXCEPT ![a] = "closed"]
  /\ UNCHANGED <<rest, batch, delivered, outcome>>

-----------------------------------------------------------------------------
(* ManagedInferenceStream *)

(* The upstream yields Completed, yields Failed, or ends without either. *)
StreamEnds(a) ==
  /\ stage[a] = "open"
  /\ stage' = [stage EXCEPT ![a] = "ending"]
  /\ \E o \in {"succeeded", "partial_failed"} : outcome' = [outcome EXCEPT ![a] = o]
  /\ UNCHANGED <<world, primary, spool, process, accepted>>

(* The terminal future records the end of the stream. Then it marks the route, *)
(* unless the success could not be recorded.                                   *)
RecordEnd(a) ==
  /\ stage[a] = "ending"
  /\ \/ /\ Persisted(EntryOf(a))
        /\ stage' = [stage EXCEPT ![a] = "marking"]
     \/ /\ NotPersisted(EntryOf(a))
        /\ stage' = [stage EXCEPT ![a] =
             IF outcome[a] = "succeeded" THEN "ended" ELSE "marking"]
  /\ UNCHANGED <<rest, batch, delivered, outcome>>

(* The terminal future is ready: its event goes to the client. *)
EmitEnd(a) ==
  /\ stage[a] = "marking"
  /\ stage' = [stage EXCEPT ![a] = "ended"]
  /\ UNCHANGED <<world, primary, spool, process, outcome, accepted>>

(* The calls of the embedded store and of the snapshot repository never        *)
(* suspend: a future that makes them is not dropped half-way.                  *)
Suspends == mode = "primary"

(* A call that was awaited may have been sent and be done by the server. *)
GivenUp(e) ==
  primary' \in {primary} \union (IF Answers THEN {Upserted(e)} ELSE {})

(* The client goes away before it has a response: the handler is dropped, with *)
(* the record it was waiting for.                                              *)
AbandonRecord(a) ==
  /\ departures > 0
  /\ Suspends
  /\ stage[a] = "recording"
  /\ GivenUp(EntryOf(a))
  /\ stage' = [stage EXCEPT ![a] = "closed"]
  /\ departures' = departures - 1
  /\ UNCHANGED <<deployment, reachable, writable, outages, crashes, faults,
                 spool, process, outcome, accepted>>

(* Variant: a drop that leaves the record to the terminal future it drops. *)
ClosedIfEnding(a) == IF stage[a] = "open" THEN "cancelling" ELSE "closed"

(* A stream whose terminal event has not been emitted can be dropped. *)
Live(a) == stage[a] = "open" \/ (Suspends /\ stage[a] \in {"ending", "marking"})

AfterDrop(a) == "cancelling"

(* The client goes away and the stream is dropped, with its terminal future if *)
(* it has one; a task of its own records the cancellation.                     *)
DropStream(a) ==
  /\ departures > 0
  /\ Live(a)
  /\ IF stage[a] = "ending" THEN GivenUp(EntryOf(a)) ELSE primary' = primary
  /\ stage' = [stage EXCEPT ![a] = AfterDrop(a)]
  /\ outcome' = [outcome EXCEPT ![a] = "cancelled"]
  /\ departures' = departures - 1
  /\ UNCHANGED <<deployment, reachable, writable, outages, crashes, faults,
                 spool, process, accepted>>

RecordCancel(a) ==
  /\ stage[a] = "cancelling"
  /\ Persisted(EntryOf(a)) \/ NotPersisted(EntryOf(a))
  /\ stage' = [stage EXCEPT ![a] = "closed"]
  /\ UNCHANGED <<rest, batch, delivered, outcome>>

-----------------------------------------------------------------------------
(* flush_usage_spool, at the start and then by the worker *)

(* Variant: the query without its LIMIT. *)
WholeSpool == {spool}

(* Variant: a flush waits for a full batch. *)
FullBatches == {some \in SUBSET spool : Cardinality(some) = FlushLimit}

(* The entries one flush may take: queued_at is a wall clock in seconds and ids *)
(* are random, so that any entries may come first, in any order.                *)
Pending ==
  {some \in SUBSET spool :
     \/ Cardinality(some) = FlushLimit
     \/ some = spool /\ Cardinality(spool) < FlushLimit}

StartFlush ==
  /\ mode = "primary"
  /\ ~ flushing
  /\ spool # {}
  /\ flushing' = TRUE
  /\ batch' \in Pending
  /\ delivered' = {}
  /\ UNCHANGED <<world, primary, spool, mode, connected, attempts>>

Deliver(e) ==
  /\ flushing
  /\ e \in batch
  /\ RecordOk(e)
  /\ batch' = batch \ {e}
  /\ delivered' = delivered \union {e}
  /\ UNCHANGED <<rest, spool, attempts>>

(* Variant: an entry that could not be delivered is skipped, not kept. *)
SkipFailed(e) ==
  /\ batch' = batch \ {e}
  /\ delivered' = delivered \union {e}

(* The first entry that fails ends the batch. *)
StopAt(e) ==
  /\ batch' = {}
  /\ delivered' = delivered

DeliveryFails(e) ==
  /\ flushing
  /\ e \in batch
  /\ RecordFails(e)
  /\ StopAt(e)
  /\ UNCHANGED <<rest, spool, attempts>>

(* The delivered entries leave the spool in one local transaction. When that   *)
(* fails they stay, which ends the start of a process and not its worker.      *)
Acknowledge ==
  /\ flushing
  /\ batch = {}
  /\ LET done == writable \/ delivered = {}
     IN  /\ spool' = IF done THEN spool \ delivered ELSE spool
         /\ mode' = IF mode # "starting" THEN mode ELSE IF done THEN "primary" ELSE "down"
  /\ connected' = (connected /\ mode' # "down")
  /\ flushing' = FALSE
  /\ delivered' = {}
  /\ UNCHANGED <<world, primary, batch, attempts>>

-----------------------------------------------------------------------------
(* The process and its environment *)

(* serve: on SQLite; on PostgreSQL when it can be reached, which flushes the   *)
(* spool before anything is served; else on the last-known-good snapshot.      *)
Start ==
  /\ mode = "down"
  /\ \/ /\ deployment = "sqlite"
        /\ mode' = "sqlite"
        /\ UNCHANGED <<connected, flushing, batch>>
     \/ /\ deployment = "postgres" /\ reachable
        /\ mode' = "starting"
        /\ connected' = TRUE
        /\ flushing' = TRUE
        /\ batch' \in Pending
     \/ /\ deployment = "postgres" /\ ~ reachable
        /\ mode' = "snapshot"
        /\ UNCHANGED <<connected, flushing, batch>>
  /\ UNCHANGED <<world, primary, spool, delivered, attempts>>

Interrupted(a) == stage[a] \notin {"unused", "ended", "closed"}

(* The process dies; a call that was awaited may still be done by the server.  *)
Crash ==
  /\ crashes > 0
  /\ mode # "down"
  /\ crashes' = crashes - 1
  /\ primary' \in {primary} \union
       (IF Answers
          THEN {Upserted(e) : e \in batch \union
                  {EntryOf(a) : a \in {b \in Attempt :
                     stage[b] \in {"recording", "ending", "cancelling"}}}}
          ELSE {})
  /\ mode' = "down"
  /\ connected' = FALSE
  /\ flushing' = FALSE
  /\ batch' = {}
  /\ delivered' = {}
  /\ stage' = [a \in Attempt |-> IF Interrupted(a) THEN "closed" ELSE stage[a]]
  /\ UNCHANGED <<deployment, reachable, writable, outages, faults, departures,
                 spool, outcome, accepted>>

(* The database goes out of reach, with every connection to it, and comes back. *)
Outage ==
  /\ deployment = "postgres"
  /\ reachable /\ outages > 0
  /\ reachable' = FALSE
  /\ connected' = FALSE
  /\ outages' = outages - 1
  /\ UNCHANGED <<deployment, writable, crashes, faults, departures, primary,
                 spool, mode, flushing, batch, delivered, attempts>>

Recover ==
  /\ ~ reachable
  /\ reachable' = TRUE
  /\ UNCHANGED <<deployment, writable, outages, crashes, faults, departures,
                 primary, spool, process, attempts>>

DiskFills ==
  /\ writable /\ faults > 0
  /\ writable' = FALSE
  /\ faults' = faults - 1
  /\ UNCHANGED <<deployment, reachable, outages, crashes, departures, primary,
                 spool, process, attempts>>

DiskClears ==
  /\ ~ writable
  /\ writable' = TRUE
  /\ UNCHANGED <<deployment, reachable, outages, crashes, faults, departures,
                 primary, spool, process, attempts>>

-----------------------------------------------------------------------------
Recording(a) == RecordAttempt(a) \/ RecordEnd(a) \/ EmitEnd(a) \/ RecordCancel(a)

Flushing ==
  \/ StartFlush
  \/ \E e \in Entry : Deliver(e) \/ DeliveryFails(e)
  \/ Acknowledge

Next ==
  \/ \E a \in Attempt :
       Execute(a) \/ Recording(a) \/ StreamEnds(a) \/ AbandonRecord(a) \/ DropStream(a)
  \/ Flushing
  \/ Start
  \/ Crash \/ Outage \/ Recover \/ DiskFills \/ DiskClears

Spec == Init /\ [][Next]_vars

(* tokio runs every ready task, the worker's sleep of five seconds ends, the   *)
(* process is started again, the database comes back and room is made on the   *)
(* disk. Nothing is assumed of clients or of providers.                        *)
Fairness ==
  /\ \A a \in Attempt : WF_vars(Recording(a))
  /\ WF_vars(Flushing)
  /\ WF_vars(Start)
  /\ WF_vars(Recover)
  /\ WF_vars(DiskClears)

FairSpec == Spec /\ Fairness

-----------------------------------------------------------------------------
(* Properties *)

(* Whatever persist reported as recorded is in the spool, or the primary       *)
(* repository has it or what superseded it: no failure, retry, reordering or   *)
(* crash loses an entry between the two stores.                                *)
AcceptedNotLost ==
  \A e \in accepted : e \in spool \/ Covered(e)

(* The terminal event that the client has seen is the only end of the stream   *)
(* on record: no cancellation of its own drop, and no entry that is delivered  *)
(* late, says otherwise, and if it was accepted it is what stays on record.    *)
EndIsOnRecord ==
  \A a \in Attempt : stage[a] = "ended" =>
    /\ primary[a] \in {"absent", "committed", outcome[a]}
    /\ \A e \in spool : e.attempt = a => e.outcome \in {"committed", outcome[a]}
    /\ EntryOf(a) \in accepted => primary[a] = outcome[a] \/ EntryOf(a) \in spool

(* The two stores together are an attempt ledger: an entry leaves the spool    *)
(* only when the primary repository covers it, and a recorded outcome changes  *)
(* from committed to a terminal one and never otherwise.                       *)
Ledger == INSTANCE AttemptLedger WITH recorded <- primary, owed <- spool
ImplementsLedger == Ledger!Spec

(* A stream that has ended or was dropped gets its end recorded in one of the  *)
(* stores, unless the process crashes or the disk is full: a terminal future   *)
(* that is dropped half-way is made up for by the cancellation.                *)
EndIsRecorded ==
  \A a \in Attempt :
    stage[a] \in {"ending", "cancelling"} ~>
      \/ primary[a] \in Streamed
      \/ \E e \in spool : e.attempt = a /\ e.outcome \in Streamed
      \/ crashes < MaxCrashes \/ ~ writable

(* A process that stays connected delivers its whole spool, whatever the       *)
(* limit of a flush and however often a delivery fails.                        *)
SpoolDrains ==
  <>[](mode = "primary" /\ connected /\ writable) => <>[](spool = {})

(* "Append to local spool and retry idempotently": once the primary store can  *)
(* be reached for good, everything that was spooled gets there.                *)
DeliveredOnceReachable ==
  <>[](reachable /\ writable) => <>[](spool = {})
=============================================================================
