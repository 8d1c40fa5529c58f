----------------------------- MODULE Accounting -----------------------------
(***************************************************************************)
(* Provider-authoritative evidence: what a complete response reports of    *)
(* quotas and of billed units, from the response to its inspection. The    *)
(* evidence of an attempt is written after its record and its verdict, to  *)
(* the same store, best effort: every error is dropped.                    *)
(*                                                                         *)
(* The calls of one process share one client, and wait while a billing     *)
(* transaction holds it. The inspection command is a process of its own,   *)
(* and reads the record of an attempt and its units by two queries.        *)
(***************************************************************************)
EXTENDS Integers, Sequences, SequencesExt

CONSTANTS
  Attempt,      \* the attempts, each with a complete response
  Account,      \* provider accounts
  AccountOf,    \* AccountOf[a]: the account of the route that served a
  SnapshotId,   \* identities of quota snapshots
  Quantity,     \* exact quantities a provider may report
  Reports,      \* what executors may report; OpenAiCompatibleExecutor only units
  Modes,        \* how the process may start: "primary", "snapshot", "sqlite"
  None,         \* no transaction, no quantity, no row
  MaxFaults     \* bound: failed calls, clients that go away, restarts

Snapshot == [id : SnapshotId, account : Account, value : Quantity \union {None}]
StoredSnapshot == [id : SnapshotId, account : Account, value : Quantity]
Charges  == {"none", "currency", "other"}
Report   == [quotas : Seq(Snapshot), billing : BOOLEAN,
             units : Seq(Quantity), charge : Charges]
NoReport == [quotas |-> <<>>, billing |-> FALSE, units |-> <<>>, charge |-> "none"]

ASSUME ConstantsAssumption ==
  /\ AccountOf \in [Attempt -> Account]
  /\ Reports \subseteq Report
  /\ Modes \subseteq {"primary", "snapshot", "sqlite"}
  /\ None \notin Attempt
  /\ None \notin Quantity \union Snapshot
  /\ MaxFaults \in Nat

VARIABLES
  (* The process: how it runs, whether its client is connected, the billing  *)
  (* transaction it holds, and its spool.                                    *)
  mode, connected, txn, spooled,
  (* The store: usage_attempts, provider_quota_snapshots by identity,        *)
  (* provider_billing_records and provider_billing_units.                    *)
  recorded, quotas, billed, units,
  (* Every attempt: how far its handler is, what its response reported, and  *)
  (* the snapshots still to be written.                                      *)
  stage, report, left,
  (* The inspection: the attempt whose record it has read, and what it shows *)
  inspecting, shown,
  faults

store   == <<recorded, quotas, billed, units>>
process == <<mode, connected, txn, spooled>>
handler == <<stage, report, left>>
reader  == <<inspecting, shown>>
vars    == <<process, store, handler, reader, faults>>

Stages == {"unused", "recording", "marking", "quotas", "billing", "closed"}
Txn    == [attempt : Attempt, units : Seq(Quantity)]
Shown  == [attempt : Attempt, units : Seq(Quantity)]

TypeOK ==
  /\ mode \in {"primary", "snapshot", "sqlite"} /\ connected \in BOOLEAN
  /\ txn \in Txn \union {None}
  /\ spooled \subseteq Attempt /\ recorded \subseteq Attempt /\ billed \subseteq Attempt
  /\ quotas \in [SnapshotId -> StoredSnapshot \union {None}]
  /\ units \in [Attempt -> Seq(Quantity)]
  /\ stage \in [Attempt -> Stages]
  /\ report \in [Attempt -> Reports \union {NoReport}]
  /\ left \in [Attempt -> Seq(Snapshot)]
  /\ inspecting \in Attempt \union {None}
  /\ shown \in Shown \union {None}
  /\ faults \in 0 .. MaxFaults

Init ==
  /\ mode \in Modes /\ connected = (mode # "snapshot")
  /\ txn = None
  /\ spooled = {} /\ recorded = {} /\ billed = {}
  /\ quotas = [s \in SnapshotId |-> None]
  /\ units = [a \in Attempt |-> <<>>]
  /\ stage = [a \in Attempt |-> "unused"]
  /\ report = [a \in Attempt |-> NoReport]
  /\ left = [a \in Attempt |-> <<>>]
  /\ inspecting = None /\ shown = None
  /\ faults = MaxFaults

-----------------------------------------------------------------------------
(* What a report must say *)

(* Variant: a snapshot is taken as it comes. *)
AnySnapshot(s) == TRUE

(* A snapshot reports a value; billing reports units or a charge, and a charge *)
(* is an amount of currency.                                                   *)
ValidSnapshot(s) == s.value # None

ValidBilling(r) ==
  /\ r.units # <<>> \/ r.charge # "none"
  /\ r.charge \in {"none", "currency"}

(* Variant: the account a snapshot speaks of is not looked at. *)
ValidForAny(r, account) ==
  /\ \A i \in DOMAIN r.quotas : ValidSnapshot(r.quotas[i])
  /\ r.billing => ValidBilling(r)

(* validate_for_account: one unacceptable fact refuses the whole report. *)
ValidFor(r, account) ==
  /\ \A i \in DOMAIN r.quotas : ValidSnapshot(r.quotas[i]) /\ r.quotas[i].account = account
  /\ r.billing => ValidBilling(r)

(* Variant: a report without one of the two kinds is taken for an empty one. *)
LacksAKind(r) == r.quotas = <<>> \/ ~ r.billing

IsEmpty(r) == r.quotas = <<>> /\ ~ r.billing

Kept(a) == ~ IsEmpty(report[a]) /\ ValidFor(report[a], AccountOf[a])

-----------------------------------------------------------------------------
(* Calls to the store *)

Free    == txn = None
Answers == connected

(* There is no connection, or the call fails, and the connection with it when  *)
(* there is one to lose.                                                       *)
Fails ==
  \/ ~ Answers /\ UNCHANGED <<connected, faults>>
  \/ /\ Answers /\ faults > 0
     /\ faults' = faults - 1
     /\ connected' \in IF mode = "primary" THEN BOOLEAN ELSE {TRUE}

Succeeds == Answers /\ UNCHANGED <<connected, faults>>

(* A call that fails by losing its connection may have been done all the same. *)
MayBeDone(before, after) == IF connected' = connected THEN {before} ELSE {before, after}

(* Variant: a snapshot that comes again replaces the one that is there. *)
Replaced(s) == [quotas EXCEPT ![s.id] = s]

(* INSERT ... ON CONFLICT (id) DO NOTHING. *)
Stored(s) == IF quotas[s.id] = None THEN [quotas EXCEPT ![s.id] = s] ELSE quotas

-----------------------------------------------------------------------------
(* Gateway::handle_execution with a complete response *)

Respond(a) ==
  /\ stage[a] = "unused"
  /\ \E r \in Reports \union {NoReport} : report' = [report EXCEPT ![a] = r]
  /\ stage' = [stage EXCEPT ![a] = "recording"]
  /\ UNCHANGED <<process, store, left, reader, faults>>

(* The attempt is recorded in the store, or else in the spool, or the handler  *)
(* returns an error.                                                           *)
RecordAttempt(a) ==
  /\ stage[a] = "recording"
  /\ Free
  /\ \/ /\ Succeeds
        /\ recorded' = recorded \union {a}
        /\ stage' = [stage EXCEPT ![a] = "marking"]
        /\ UNCHANGED spooled
     \/ /\ Fails
        /\ recorded' \in MayBeDone(recorded, recorded \union {a})
        /\ \/ spooled' = spooled \union {a} /\ stage' = [stage EXCEPT ![a] = "marking"]
           \/ spooled' = spooled /\ stage' = [stage EXCEPT ![a] = "closed"]
  /\ UNCHANGED <<mode, txn, quotas, billed, units, report, left, reader>>

(* What follows the snapshots that are still to be written. *)
StageWith(a, snapshots) ==
  IF snapshots # <<>> THEN "quotas" ELSE IF report[a].billing THEN "billing" ELSE "closed"

(* mark_route_success, an error of which is the handler's on SQLite and is     *)
(* taken over by the snapshot repository on PostgreSQL. Then the evidence, if  *)
(* there is a store for it, a report, and nothing wrong with it.               *)
MarkRoute(a) ==
  /\ stage[a] = "marking"
  /\ Free
  /\ \/ /\ Succeeds \/ (mode # "sqlite" /\ Fails)
        /\ IF mode # "snapshot" /\ Kept(a)
             THEN /\ left' = [left EXCEPT ![a] = report[a].quotas]
                  /\ stage' = [stage EXCEPT ![a] = StageWith(a, report[a].quotas)]
             ELSE /\ stage' = [stage EXCEPT ![a] = "closed"]
                  /\ UNCHANGED left
     \/ /\ mode = "sqlite" /\ Fails
        /\ stage' = [stage EXCEPT ![a] = "closed"]
        /\ UNCHANGED left
  /\ UNCHANGED <<mode, txn, spooled, store, report, reader>>

(* record_quota_snapshot, for one snapshot after the other. *)
RecordQuota(a) ==
  /\ stage[a] = "quotas"
  /\ Free
  /\ \/ Succeeds /\ quotas' = Stored(Head(left[a]))
     \/ Fails /\ quotas' \in MayBeDone(quotas, Stored(Head(left[a])))
  /\ left' = [left EXCEPT ![a] = Tail(@)]
  /\ stage' = [stage EXCEPT ![a] = StageWith(a, Tail(left[a]))]
  /\ UNCHANGED <<mode, txn, spooled, recorded, billed, units, report, reader>>

(* Variant: a record may refer to an attempt the store does not have. *)
AnyAttempt(a) == TRUE

(* attempt_id REFERENCES usage_attempts(id) *)
Referenced(a) == a \in recorded

Closed(a) == stage' = [stage EXCEPT ![a] = "closed"]

(* record_billing_record takes the client, begins a transaction and inserts    *)
(* the record. An error drops the transaction.                                 *)
InsertRecord(a) ==
  /\ stage[a] = "billing"
  /\ Free
  /\ \/ /\ Succeeds /\ Referenced(a)
        /\ txn' = [attempt |-> a, units |-> <<>>]
        /\ UNCHANGED stage
     \/ /\ Fails \/ (Succeeds /\ ~ Referenced(a))
        /\ Closed(a)
        /\ UNCHANGED txn
  /\ UNCHANGED <<mode, spooled, store, report, left, reader>>

Writing(a) == ~ Free /\ txn.attempt = a

InsertUnit(a) ==
  /\ Writing(a)
  /\ Len(txn.units) < Len(report[a].units)
  /\ \/ /\ Succeeds
        /\ txn' = [txn EXCEPT !.units = Append(@, report[a].units[Len(@) + 1])]
        /\ UNCHANGED stage
     \/ /\ Fails
        /\ txn' = None
        /\ Closed(a)
  /\ UNCHANGED <<mode, spooled, store, report, left, reader>>

(* The rows of the transaction appear together. *)
Committed(a) ==
  /\ billed' = billed \union {a}
  /\ units' = [units EXCEPT ![a] = txn.units]

CommitRecord(a) ==
  /\ Writing(a)
  /\ Len(txn.units) = Len(report[a].units)
  /\ \/ Succeeds /\ Committed(a)
     \/ Fails /\ UNCHANGED <<billed, units>>
     \/ Fails /\ connected' # connected /\ Committed(a)
  /\ txn' = None
  /\ Closed(a)
  /\ UNCHANGED <<mode, spooled, recorded, quotas, report, left, reader>>

(* A call that was sent may be done, although nobody waits for it any more. *)
DoneUnheard(a) ==
  \/ /\ stage[a] = "recording" /\ Free /\ Answers
     /\ recorded' = recorded \union {a}
     /\ UNCHANGED <<quotas, billed, units>>
  \/ /\ stage[a] = "quotas" /\ Free /\ Answers
     /\ quotas' = Stored(Head(left[a]))
     /\ UNCHANGED <<recorded, billed, units>>
  \/ /\ Writing(a) /\ Answers /\ Len(txn.units) = Len(report[a].units)
     /\ Committed(a)
     /\ UNCHANGED <<recorded, quotas>>

(* The client goes away: the handler is dropped where it awaits a call. The    *)
(* calls of the embedded store and of the snapshot repository do not suspend.  *)
Abandon(a) ==
  /\ faults > 0
  /\ mode = "primary"
  /\ stage[a] \notin {"unused", "closed"}
  /\ DoneUnheard(a) \/ UNCHANGED store
  /\ txn' = IF Writing(a) THEN None ELSE txn
  /\ left' = [left EXCEPT ![a] = <<>>]
  /\ Closed(a)
  /\ faults' = faults - 1
  /\ UNCHANGED <<mode, connected, spooled, report, reader>>

-----------------------------------------------------------------------------
(* The process, its worker and the inspection command *)

(* The spool delivers an attempt, and nothing of its evidence. *)
Deliver(a) ==
  /\ mode = "primary" /\ Free /\ Answers
  /\ a \in spooled
  /\ recorded' = recorded \union {a}
  /\ spooled' = spooled \ {a}
  /\ UNCHANGED <<mode, connected, txn, quotas, billed, units, handler, reader, faults>>

(* The process dies and starts anew, on PostgreSQL when that can be reached. *)
Restart ==
  /\ faults > 0
  /\ faults' = faults - 1
  /\ UNCHANGED store \/ \E a \in Attempt : DoneUnheard(a)
  /\ mode' \in IF mode = "sqlite" THEN {"sqlite"} ELSE {"primary", "snapshot"}
  /\ connected' = (mode' # "snapshot")
  /\ txn' = None
  /\ stage' = [a \in Attempt |-> IF stage[a] = "unused" THEN "unused" ELSE "closed"]
  /\ left' = [a \in Attempt |-> <<>>]
  /\ UNCHANGED <<spooled, report, reader>>

(* Variant: rows of a transaction that is not committed can be read. *)
RowWritten(a) == a \in billed \/ Writing(a)

(* billing_records: the record ... *)
RowRead(a) == a \in billed

InspectRecord(a) ==
  /\ inspecting = None
  /\ RowRead(a)
  /\ inspecting' = a
  /\ shown' = None
  /\ UNCHANGED <<process, store, handler, faults>>

(* ... and its units. *)
InspectUnits ==
  /\ inspecting # None
  /\ shown' = [attempt |-> inspecting, units |-> units[inspecting]]
  /\ inspecting' = None
  /\ UNCHANGED <<process, store, handler, faults>>

-----------------------------------------------------------------------------
Next ==
  \/ \E a \in Attempt :
       \/ Respond(a) \/ RecordAttempt(a) \/ MarkRoute(a) \/ RecordQuota(a)
       \/ InsertRecord(a) \/ InsertUnit(a) \/ CommitRecord(a)
       \/ Abandon(a) \/ Deliver(a) \/ InspectRecord(a)
  \/ Restart
  \/ InspectUnits

Spec == Init /\ [][Next]_vars

-----------------------------------------------------------------------------
(* Properties *)

(* A billing record refers to an attempt that is on record and has every unit   *)
(* its response reported, in their order: no failure between two inserts, no    *)
(* departure and no restart leaves a part of one behind.                        *)
BillingIsWhole ==
  \A a \in billed :
    /\ a \in recorded
    /\ report[a].billing /\ ValidFor(report[a], AccountOf[a])
    /\ units[a] = report[a].units

(* What the inspection shows of an attempt is what its response reported,       *)
(* although record and units are read by two queries outside a transaction.     *)
InspectionIsWhole ==
  shown # None => shown.units = report[shown.attempt].units

(* "The application can reject cross-account contamination": every snapshot on  *)
(* record was reported by a response of the account it speaks of, in a report   *)
(* that says nothing of another account.                                        *)
QuotasAreOwn ==
  \A id \in SnapshotId : quotas[id] # None =>
    \E a \in Attempt :
      /\ AccountOf[a] = quotas[id].account
      /\ quotas[id] \in ToSet(report[a].quotas)
      /\ \A s \in ToSet(report[a].quotas) : s.account = AccountOf[a]

(* "Immutable authoritative capacity evidence": a snapshot on record is never   *)
(* changed by another attempt that reports the same identity.                   *)
QuotasStay ==
  [][\A id \in SnapshotId : quotas[id] # None => quotas'[id] = quotas[id]]_vars

(* Evidence is lost to faults only: without a failed call, a departure or a     *)
(* restart, and with a store for it, a valid report is on record when the       *)
(* handler has answered.                                                        *)
ReportIsKept ==
  (faults = MaxFaults /\ mode # "snapshot") =>
    \A a \in Attempt : (stage[a] = "closed" /\ ValidFor(report[a], AccountOf[a])) =>
      /\ \A s \in ToSet(report[a].quotas) : quotas[s.id] # None
      /\ report[a].billing => a \in billed
=============================================================================
