------------------------- MODULE Accounting_proofs -------------------------
(***************************************************************************)
(* Theorems about Accounting for every set of attempts, accounts, reports  *)
(* and identities, and any number of faults.                               *)
(***************************************************************************)
EXTENDS Accounting, SequenceTheorems, TLAPS

(* What a handler may still write is what its response reported, once that was  *)
(* found to be valid.                                                           *)
HandlerIsSound(a) ==
  /\ stage[a] \in {"quotas", "billing"} => ValidFor(report[a], AccountOf[a])
  /\ stage[a] = "quotas" => left[a] # <<>> /\ ToSet(left[a]) \subseteq ToSet(report[a].quotas)
  /\ stage[a] = "billing" => report[a].billing
  /\ a \in billed => stage[a] # "unused"

(* A transaction has written a prefix of the units, for an attempt on record. *)
TransactionIsSound ==
  txn # None =>
    LET a == txn.attempt
    IN  /\ stage[a] = "billing" /\ a \in recorded
        /\ Len(txn.units) <= Len(report[a].units)
        /\ \A i \in 1 .. Len(txn.units) : txn.units[i] = report[a].units[i]

Sound == TransactionIsSound /\ \A a \in Attempt : HandlerIsSound(a)

-----------------------------------------------------------------------------
(* What steps do to the store *)

LEMMA ReportTypes ==
  ASSUME TypeOK, NEW a \in Attempt
  PROVE  /\ report[a] \in Report
         /\ report[a].quotas \in Seq(Snapshot) /\ report[a].units \in Seq(Quantity)
         /\ AccountOf[a] \in Account
<1>1. NoReport \in Report
  <2>1. <<>> \in Seq(Snapshot) /\ <<>> \in Seq(Quantity) /\ "none" \in Charges
    BY DEF Charges
  <2>2. QED
    BY <2>1 DEF NoReport, Report
<1>2. report[a] \in Report
  BY <1>1, ConstantsAssumption DEF TypeOK
<1>3. QED
  BY <1>2, ConstantsAssumption DEF Report

LEMMA CallTypes ==
  ASSUME TypeOK, Succeeds \/ Fails
  PROVE  connected' \in BOOLEAN /\ faults' \in 0 .. MaxFaults
<1>1. faults \in 0 .. MaxFaults /\ MaxFaults \in Nat /\ connected \in BOOLEAN
  BY ConstantsAssumption DEF TypeOK
<1>2. CASE UNCHANGED <<connected, faults>>
  BY <1>1, <1>2
<1>3. CASE faults > 0 /\ faults' = faults - 1 /\ connected' \in BOOLEAN
  BY <1>1, <1>3
<1>4. (IF mode = "primary" THEN BOOLEAN ELSE {TRUE}) \subseteq BOOLEAN
  OBVIOUS
<1>5. QED
  BY <1>2, <1>3, <1>4 DEF Succeeds, Fails

(* The next snapshot of a handler. *)
LEMMA HeadIsStored ==
  ASSUME TypeOK, Sound, NEW a \in Attempt, stage[a] = "quotas"
  PROVE  /\ Head(left[a]) \in StoredSnapshot
         /\ Head(left[a]) \in ToSet(report[a].quotas)
         /\ Head(left[a]).account = AccountOf[a]
         /\ Tail(left[a]) \in Seq(Snapshot)
         /\ ToSet(Tail(left[a])) \subseteq ToSet(report[a].quotas)
         /\ ToSet(left[a]) \subseteq {Head(left[a])} \union ToSet(Tail(left[a]))
<1>1. left[a] \in Seq(Snapshot) /\ left[a] # <<>>
  BY DEF TypeOK, Sound, HandlerIsSound
<1>2. /\ Head(left[a]) = left[a][1] /\ 1 \in DOMAIN left[a] /\ Tail(left[a]) \in Seq(Snapshot)
      /\ \A i \in DOMAIN Tail(left[a]) : /\ Tail(left[a])[i] = left[a][i + 1]
                                         /\ i + 1 \in DOMAIN left[a]
      /\ \A i \in DOMAIN left[a] : i = 1 \/ (i - 1 \in DOMAIN Tail(left[a]) /\ (i - 1) + 1 = i)
  BY <1>1
<1>3. /\ Head(left[a]) \in ToSet(left[a])
      /\ ToSet(Tail(left[a])) \subseteq ToSet(left[a])
      /\ ToSet(left[a]) \subseteq {Head(left[a])} \union ToSet(Tail(left[a]))
  BY <1>2 DEF ToSet
<1>4. ToSet(left[a]) \subseteq ToSet(report[a].quotas) /\ ValidFor(report[a], AccountOf[a])
  BY DEF Sound, HandlerIsSound
<1>5. PICK i \in DOMAIN report[a].quotas : Head(left[a]) = report[a].quotas[i]
  BY <1>3, <1>4 DEF ToSet
<1>6. Head(left[a]) \in Snapshot
  BY <1>1, <1>2
<1>7. Head(left[a]).value # None /\ Head(left[a]).account = AccountOf[a]
  BY <1>4, <1>5 DEF ValidFor, ValidSnapshot
<1>8. Head(left[a]) \in StoredSnapshot
  BY <1>6, <1>7 DEF Snapshot, StoredSnapshot
<1>9. QED
  BY <1>2, <1>3, <1>4, <1>7, <1>8

(* A complete transaction has the units of the report. *)
LEMMA CompleteUnits ==
  ASSUME TypeOK, Sound, NEW a \in Attempt, Writing(a),
         Len(txn.units) = Len(report[a].units)
  PROVE  txn.units = report[a].units
<1>1. txn.units \in Seq(Quantity) /\ txn.attempt = a
  BY DEF TypeOK, Txn, Writing, Free
<1>2. \A i \in 1 .. Len(txn.units) : txn.units[i] = report[a].units[i]
  BY <1>1 DEF Sound, TransactionIsSound, Writing, Free
<1>3. report[a].units \in Seq(Quantity)
  BY ReportTypes
<1>4. QED
  BY <1>1, <1>2, <1>3, SeqEqual

(* What may happen to quotas in a step. *)
QuotaStep ==
  \/ UNCHANGED quotas
  \/ \E a \in Attempt : stage[a] = "quotas" /\ quotas' = Stored(Head(left[a]))

(* What may happen to billing records in a step. *)
BillingStep ==
  \/ UNCHANGED <<billed, units>>
  \/ \E a \in Attempt : /\ Writing(a) /\ Len(txn.units) = Len(report[a].units)
                        /\ Committed(a)

LEMMA UnheardSteps ==
  ASSUME NEW a \in Attempt, DoneUnheard(a) \/ UNCHANGED store
  PROVE  /\ recorded' = recorded \/ recorded' = recorded \union {a}
         /\ QuotaStep /\ BillingStep
BY DEF DoneUnheard, store, QuotaStep, BillingStep

LEMMA StoreSteps ==
  ASSUME [Next]_vars
  PROVE  /\ recorded \subseteq recorded'
         /\ recorded \subseteq Attempt => recorded' \subseteq Attempt
         /\ QuotaStep /\ BillingStep
<1> USE DEF store, process, handler, reader
<1>1. CASE UNCHANGED vars \/ InspectUnits
  BY <1>1 DEF vars, InspectUnits, QuotaStep, BillingStep
<1>2. CASE Restart
  BY <1>2, UnheardSteps DEF Restart, QuotaStep, BillingStep
<1>3. ASSUME NEW a \in Attempt, Abandon(a)
      PROVE  /\ recorded \subseteq recorded' /\ recorded' \subseteq recorded \union {a}
             /\ QuotaStep /\ BillingStep
  BY <1>3, UnheardSteps DEF Abandon
<1>4. ASSUME NEW a \in Attempt, RecordQuota(a)
      PROVE  UNCHANGED recorded /\ QuotaStep /\ BillingStep
  BY <1>4 DEF RecordQuota, MayBeDone, QuotaStep, BillingStep
<1>5. ASSUME NEW a \in Attempt, CommitRecord(a)
      PROVE  UNCHANGED recorded /\ QuotaStep /\ BillingStep
  BY <1>5 DEF CommitRecord, QuotaStep, BillingStep
<1>6. ASSUME NEW a \in Attempt, RecordAttempt(a) \/ Deliver(a)
      PROVE  /\ recorded' = recorded \/ recorded' = recorded \union {a}
             /\ QuotaStep /\ BillingStep
  BY <1>6 DEF RecordAttempt, Deliver, MayBeDone, QuotaStep, BillingStep
<1>7. ASSUME NEW a \in Attempt,
             Respond(a) \/ MarkRoute(a) \/ InsertRecord(a) \/ InsertUnit(a) \/ InspectRecord(a)
      PROVE  UNCHANGED recorded /\ QuotaStep /\ BillingStep
  BY <1>7 DEF Respond, MarkRoute, InsertRecord, InsertUnit, InspectRecord, QuotaStep, BillingStep
<1>8. QED
  BY <1>1, <1>2, <1>3, <1>4, <1>5, <1>6, <1>7 DEF Next

-----------------------------------------------------------------------------
(* Types *)

LEMMA TypeInit == Init => TypeOK
<1> SUFFICES ASSUME Init PROVE TypeOK
  OBVIOUS
<1>1. connected \in BOOLEAN /\ mode \in {"primary", "snapshot", "sqlite"}
  BY ConstantsAssumption DEF Init
<1>2. /\ units \in [Attempt -> Seq(Quantity)] /\ left \in [Attempt -> Seq(Snapshot)]
      /\ report \in [Attempt -> Reports \union {NoReport}]
      /\ quotas \in [SnapshotId -> StoredSnapshot \union {None}]
      /\ stage \in [Attempt -> Stages]
  BY DEF Init, Stages
<1>3. QED
  BY <1>1, <1>2, ConstantsAssumption DEF Init, TypeOK

LEMMA StoreTypes ==
  ASSUME TypeOK, Sound, [Next]_vars
  PROVE  /\ recorded' \subseteq Attempt /\ billed' \subseteq Attempt
         /\ quotas' \in [SnapshotId -> StoredSnapshot \union {None}]
         /\ units' \in [Attempt -> Seq(Quantity)]
<1>1. recorded' \subseteq Attempt /\ QuotaStep /\ BillingStep
  BY StoreSteps DEF TypeOK
<1>2. quotas' \in [SnapshotId -> StoredSnapshot \union {None}]
  <2>1. CASE UNCHANGED quotas
    BY <2>1 DEF TypeOK
  <2>2. ASSUME NEW a \in Attempt, stage[a] = "quotas", quotas' = Stored(Head(left[a]))
        PROVE  quotas' \in [SnapshotId -> StoredSnapshot \union {None}]
    <3>1. Head(left[a]) \in StoredSnapshot
      BY <2>2, HeadIsStored
    <3>2. QED
      BY <2>2, <3>1 DEF Stored, TypeOK, StoredSnapshot
  <2>3. QED
    BY <1>1, <2>1, <2>2 DEF QuotaStep
<1>3. billed' \subseteq Attempt /\ units' \in [Attempt -> Seq(Quantity)]
  <2>1. CASE UNCHANGED <<billed, units>>
    BY <2>1 DEF TypeOK
  <2>2. ASSUME NEW a \in Attempt, Writing(a), Committed(a)
        PROVE  billed' \subseteq Attempt /\ units' \in [Attempt -> Seq(Quantity)]
    <3>1. txn.units \in Seq(Quantity)
      BY <2>2 DEF Writing, Free, TypeOK, Txn
    <3>2. QED
      BY <2>2, <3>1 DEF Committed, TypeOK
  <2>3. QED
    BY <1>1, <2>1, <2>2 DEF BillingStep
<1>4. QED
  BY <1>1, <1>2, <1>3

LEMMA StageTypes ==
  ASSUME TypeOK, NEW a \in Attempt, NEW snapshots
  PROVE  StageWith(a, snapshots) \in Stages
BY DEF StageWith, Stages

LEMMA HandlerTypes ==
  ASSUME TypeOK, Sound, Next
  PROVE  /\ stage' \in [Attempt -> Stages]
         /\ report' \in [Attempt -> Reports \union {NoReport}]
         /\ left' \in [Attempt -> Seq(Snapshot)]
<1> USE DEF handler
<1>1. {"unused", "recording", "marking", "closed"} \subseteq Stages
  BY DEF Stages
<1>2. ASSUME NEW a \in Attempt, Respond(a)
      PROVE  /\ stage' \in [Attempt -> Stages] /\ UNCHANGED left
             /\ report' \in [Attempt -> Reports \union {NoReport}]
  BY <1>1, <1>2 DEF Respond, TypeOK
<1>3. ASSUME NEW a \in Attempt, RecordAttempt(a)
      PROVE  stage' \in [Attempt -> Stages] /\ UNCHANGED <<report, left>>
  BY <1>1, <1>3 DEF RecordAttempt, TypeOK
<1>4. ASSUME NEW a \in Attempt, MarkRoute(a)
      PROVE  /\ stage' \in [Attempt -> Stages] /\ UNCHANGED report
             /\ left' \in [Attempt -> Seq(Snapshot)]
  <2>1. report[a].quotas \in Seq(Snapshot) /\ StageWith(a, report[a].quotas) \in Stages
    BY ReportTypes, StageTypes
  <2>2. PICK next \in Stages, rest \in Seq(Snapshot) :
          /\ stage' = [stage EXCEPT ![a] = next]
          /\ left' = [left EXCEPT ![a] = rest] \/ left' = left
    BY <1>1, <1>4, <2>1 DEF MarkRoute
  <2>3. QED
    BY <1>4, <2>2 DEF MarkRoute, TypeOK
<1>5. ASSUME NEW a \in Attempt, RecordQuota(a)
      PROVE  /\ stage' \in [Attempt -> Stages] /\ UNCHANGED report
             /\ left' \in [Attempt -> Seq(Snapshot)]
  BY <1>5, HeadIsStored, StageTypes DEF RecordQuota, TypeOK
<1>6. ASSUME NEW a \in Attempt, InsertRecord(a) \/ InsertUnit(a) \/ CommitRecord(a)
      PROVE  stage' \in [Attempt -> Stages] /\ UNCHANGED <<report, left>>
  BY <1>1, <1>6 DEF InsertRecord, InsertUnit, CommitRecord, Closed, TypeOK
<1>7. ASSUME NEW a \in Attempt, Abandon(a)
      PROVE  /\ stage' \in [Attempt -> Stages] /\ UNCHANGED report
             /\ left' \in [Attempt -> Seq(Snapshot)]
  BY <1>1, <1>7 DEF Abandon, Closed, TypeOK
<1>8. ASSUME NEW a \in Attempt, Deliver(a) \/ InspectRecord(a) PROVE UNCHANGED handler
  BY <1>8 DEF Deliver, InspectRecord
<1>9. CASE Restart
  <2>1. <<>> \in Seq(Snapshot)
    OBVIOUS
  <2>2. QED
    BY <1>1, <1>9, <2>1 DEF Restart, TypeOK
<1>10. CASE InspectUnits
  BY <1>10 DEF InspectUnits, TypeOK
<1>11. QED
  BY <1>2, <1>3, <1>4, <1>5, <1>6, <1>7, <1>8, <1>9, <1>10 DEF Next, TypeOK

LEMMA ProcessTypes ==
  ASSUME TypeOK, Sound, Next
  PROVE  /\ mode' \in {"primary", "snapshot", "sqlite"} /\ connected' \in BOOLEAN
         /\ txn' \in Txn \union {None}
         /\ spooled' \subseteq Attempt
         /\ inspecting' \in Attempt \union {None} /\ shown' \in Shown \union {None}
         /\ faults' \in 0 .. MaxFaults
<1> USE DEF process, reader
<1>1. ASSUME NEW a \in Attempt,
             Respond(a) \/ RecordAttempt(a) \/ MarkRoute(a) \/ RecordQuota(a)
               \/ InsertRecord(a) \/ InsertUnit(a) \/ CommitRecord(a) \/ Deliver(a)
               \/ InspectRecord(a)
      PROVE  mode' = mode /\ connected' \in BOOLEAN /\ faults' \in 0 .. MaxFaults
  <2>1. CASE Respond(a) \/ Deliver(a) \/ InspectRecord(a)
    BY <2>1 DEF Respond, Deliver, InspectRecord, TypeOK
  <2>2. CASE \/ RecordAttempt(a) \/ MarkRoute(a) \/ RecordQuota(a)
             \/ InsertRecord(a) \/ InsertUnit(a) \/ CommitRecord(a)
    <3>1. Succeeds \/ Fails
      BY <2>2 DEF RecordAttempt, MarkRoute, RecordQuota, InsertRecord, InsertUnit, CommitRecord
    <3>2. mode' = mode
      BY <2>2 DEF RecordAttempt, MarkRoute, RecordQuota, InsertRecord, InsertUnit, CommitRecord
    <3>3. QED
      BY <3>1, <3>2, CallTypes
  <2>3. QED
    BY <1>1, <2>1, <2>2
<1>2. ASSUME NEW a \in Attempt,
             Respond(a) \/ RecordAttempt(a) \/ MarkRoute(a) \/ RecordQuota(a)
               \/ Deliver(a) \/ InspectRecord(a)
      PROVE  txn' = txn
  BY <1>2 DEF Respond, RecordAttempt, MarkRoute, RecordQuota, Deliver, InspectRecord
<1>3. ASSUME NEW a \in Attempt, InsertRecord(a) \/ InsertUnit(a) \/ CommitRecord(a)
      PROVE  txn' \in Txn \union {None}
  <2>1. CASE InsertRecord(a)
    <3>1. [attempt |-> a, units |-> <<>>] \in Txn
      BY DEF Txn
    <3>2. QED
      BY <2>1, <3>1 DEF InsertRecord, TypeOK
  <2>2. CASE InsertUnit(a)
    <3>1. txn \in Txn /\ report[a].units \in Seq(Quantity)
      BY <2>2, ReportTypes DEF InsertUnit, Writing, Free, TypeOK
    <3>2. /\ txn.units \in Seq(Quantity)
          /\ Len(txn.units) + 1 \in 1 .. Len(report[a].units)
      BY <2>2, <3>1 DEF InsertUnit, Txn
    <3>3. report[a].units[Len(txn.units) + 1] \in Quantity
      BY <3>1, <3>2
    <3>4. Append(txn.units, report[a].units[Len(txn.units) + 1]) \in Seq(Quantity)
      BY <3>2, <3>3
    <3>5. [txn EXCEPT !.units = Append(txn.units, report[a].units[Len(txn.units) + 1])] \in Txn
      BY <3>1, <3>4 DEF Txn
    <3>6. QED
      BY <2>2, <3>1, <3>5 DEF InsertUnit, Txn
  <2>3. CASE CommitRecord(a)
    BY <2>3 DEF CommitRecord
  <2>4. QED
    BY <1>3, <2>1, <2>2, <2>3
<1>4. ASSUME NEW a \in Attempt,
             Respond(a) \/ RecordAttempt(a) \/ MarkRoute(a) \/ RecordQuota(a)
               \/ InsertRecord(a) \/ InsertUnit(a) \/ CommitRecord(a) \/ Deliver(a)
      PROVE  spooled' \subseteq Attempt /\ UNCHANGED reader
  BY <1>4 DEF Respond, RecordAttempt, MarkRoute, RecordQuota, InsertRecord, InsertUnit,
              CommitRecord, Deliver, TypeOK
<1>5. ASSUME NEW a \in Attempt, InspectRecord(a)
      PROVE  spooled' = spooled /\ inspecting' = a /\ shown' = None
  BY <1>5 DEF InspectRecord
<1>6. ASSUME NEW a \in Attempt, Abandon(a)
      PROVE  /\ UNCHANGED <<mode, connected, spooled, reader>>
             /\ txn' \in {txn, None} /\ faults' \in 0 .. MaxFaults
  BY <1>6, ConstantsAssumption DEF Abandon, TypeOK
<1>7. CASE Restart
  <2>1. mode' \in {"primary", "snapshot", "sqlite"} /\ connected' = (mode' # "snapshot")
    BY <1>7 DEF Restart
  <2>2. connected' \in BOOLEAN
    BY <2>1
  <2>3. faults' \in 0 .. MaxFaults /\ txn' = None /\ UNCHANGED <<spooled, reader>>
    BY <1>7, ConstantsAssumption DEF Restart, TypeOK
  <2>4. QED
    BY <2>1, <2>2, <2>3 DEF TypeOK
<1>8. CASE InspectUnits
  <2>1. [attempt |-> inspecting, units |-> units[inspecting]] \in Shown
    BY <1>8 DEF InspectUnits, TypeOK, Shown
  <2>2. QED
    BY <1>8, <2>1 DEF InspectUnits, TypeOK
<1>9. QED
  <2>1. CASE Restart \/ InspectUnits
    BY <1>7, <1>8, <2>1
  <2>2. ASSUME NEW a \in Attempt,
               Respond(a) \/ RecordAttempt(a) \/ MarkRoute(a) \/ RecordQuota(a)
                 \/ InsertRecord(a) \/ InsertUnit(a) \/ CommitRecord(a)
                 \/ Abandon(a) \/ Deliver(a) \/ InspectRecord(a)
        PROVE  /\ mode' = mode /\ connected' \in BOOLEAN
               /\ txn' \in Txn \union {None}
               /\ spooled' \subseteq Attempt
               /\ inspecting' \in Attempt \union {None} /\ shown' \in Shown \union {None}
               /\ faults' \in 0 .. MaxFaults
    BY <1>1, <1>2, <1>3, <1>4, <1>5, <1>6, <2>2 DEF TypeOK
  <2>3. QED
    BY <2>1, <2>2 DEF Next, TypeOK

LEMMA TypeStep ==
  ASSUME TypeOK, Sound, [Next]_vars
  PROVE  TypeOK'
<1>1. CASE UNCHANGED vars
  BY <1>1 DEF vars, process, store, handler, reader, TypeOK
<1>2. CASE Next
  BY <1>2, StoreTypes, HandlerTypes, ProcessTypes DEF TypeOK
<1>3. QED
  BY <1>1, <1>2

-----------------------------------------------------------------------------
(* The invariant is inductive *)

(* What a step makes of a handler. *)
HandlerStep(b) ==
  \/ stage'[b] \notin {"quotas", "billing"}
  \/ stage'[b] = stage[b] /\ left'[b] = left[b] /\ report'[b] = report[b]
  \/ /\ stage[b] = "marking" /\ Kept(b) /\ report'[b] = report[b]
     /\ left'[b] = report[b].quotas /\ stage'[b] = StageWith(b, report[b].quotas)
  \/ /\ stage[b] = "quotas" /\ report'[b] = report[b]
     /\ left'[b] = Tail(left[b]) /\ stage'[b] = StageWith(b, Tail(left[b]))

Onward(b) == stage[b] # "unused" => stage'[b] # "unused" /\ report'[b] = report[b]

LEMMA HandlerSteps ==
  ASSUME TypeOK, [Next]_vars, NEW b \in Attempt
  PROVE  HandlerStep(b) /\ Onward(b)
<1> USE DEF handler
<1>1. CASE UNCHANGED vars \/ InspectUnits
  BY <1>1 DEF vars, InspectUnits, HandlerStep, Onward
<1>2. CASE Restart
  BY <1>2 DEF Restart, HandlerStep, Onward, TypeOK
<1>3. ASSUME NEW a \in Attempt, Respond(a) PROVE HandlerStep(b) /\ Onward(b)
  BY <1>3 DEF Respond, HandlerStep, Onward, TypeOK
<1>4. ASSUME NEW a \in Attempt, RecordAttempt(a) PROVE HandlerStep(b) /\ Onward(b)
  BY <1>4 DEF RecordAttempt, HandlerStep, Onward, TypeOK
<1>5. ASSUME NEW a \in Attempt, MarkRoute(a) PROVE HandlerStep(b) /\ Onward(b)
  <2>1. CASE a # b
    BY <1>5, <2>1 DEF MarkRoute, HandlerStep, Onward, TypeOK
  <2>2. CASE a = b
    <3>1. StageWith(b, report[b].quotas) # "unused"
      BY DEF StageWith
    <3>2. QED
      BY <1>5, <2>2, <3>1 DEF MarkRoute, HandlerStep, Onward, TypeOK
  <2>3. QED
    BY <2>1, <2>2
<1>6. ASSUME NEW a \in Attempt, RecordQuota(a) PROVE HandlerStep(b) /\ Onward(b)
  <2>1. CASE a # b
    BY <1>6, <2>1 DEF RecordQuota, HandlerStep, Onward, TypeOK
  <2>2. CASE a = b
    <3>1. StageWith(b, Tail(left[b])) # "unused"
      BY DEF StageWith
    <3>2. QED
      BY <1>6, <2>2, <3>1 DEF RecordQuota, HandlerStep, Onward, TypeOK
  <2>3. QED
    BY <2>1, <2>2
<1>7. ASSUME NEW a \in Attempt, InsertRecord(a) \/ InsertUnit(a) \/ CommitRecord(a)
      PROVE  HandlerStep(b) /\ Onward(b)
  BY <1>7 DEF InsertRecord, InsertUnit, CommitRecord, Closed, HandlerStep, Onward, TypeOK
<1>8. ASSUME NEW a \in Attempt, Abandon(a) PROVE HandlerStep(b) /\ Onward(b)
  BY <1>8 DEF Abandon, Closed, HandlerStep, Onward, TypeOK
<1>9. ASSUME NEW a \in Attempt, Deliver(a) \/ InspectRecord(a)
      PROVE  HandlerStep(b) /\ Onward(b)
  BY <1>9 DEF Deliver, InspectRecord, HandlerStep, Onward
<1>10. QED
  BY <1>1, <1>2, <1>3, <1>4, <1>5, <1>6, <1>7, <1>8, <1>9 DEF Next

(* What a step makes of the billing transaction. *)
TransactionStep ==
  \/ txn' = None
  \/ txn' = txn /\ stage'[txn.attempt] = stage[txn.attempt]
  \/ \E a \in Attempt :
       /\ stage[a] = "billing" /\ a \in recorded /\ stage' = stage
       /\ txn' = [attempt |-> a, units |-> <<>>]
  \/ \E a \in Attempt :
       /\ Writing(a) /\ Len(txn.units) < Len(report[a].units) /\ stage' = stage
       /\ txn' = [txn EXCEPT !.units = Append(@, report[a].units[Len(@) + 1])]

LEMMA TransactionSteps ==
  ASSUME TypeOK, Sound, [Next]_vars
  PROVE  TransactionStep
<1> USE DEF process, handler, Free
<1>0. txn # None => txn.attempt \in Attempt /\ stage[txn.attempt] = "billing"
  BY DEF Sound, TransactionIsSound, TypeOK, Txn
<1>1. CASE UNCHANGED vars \/ InspectUnits \/ Restart
  BY <1>1 DEF vars, InspectUnits, Restart, TransactionStep
<1>2. ASSUME NEW a \in Attempt, RecordAttempt(a) \/ MarkRoute(a) \/ RecordQuota(a)
      PROVE  TransactionStep
  BY <1>2 DEF RecordAttempt, MarkRoute, RecordQuota, TransactionStep
<1>3. ASSUME NEW a \in Attempt, Respond(a) PROVE TransactionStep
  BY <1>0, <1>3 DEF Respond, TransactionStep, TypeOK
<1>4. ASSUME NEW a \in Attempt, InsertRecord(a) PROVE TransactionStep
  BY <1>4 DEF InsertRecord, Referenced, TransactionStep
<1>5. ASSUME NEW a \in Attempt, InsertUnit(a) PROVE TransactionStep
  BY <1>5 DEF InsertUnit, TransactionStep
<1>6. ASSUME NEW a \in Attempt, CommitRecord(a) PROVE TransactionStep
  BY <1>6 DEF CommitRecord, TransactionStep
<1>7. ASSUME NEW a \in Attempt, Abandon(a) PROVE TransactionStep
  BY <1>0, <1>7 DEF Abandon, Closed, Writing, TransactionStep, TypeOK
<1>8. ASSUME NEW a \in Attempt, Deliver(a) \/ InspectRecord(a) PROVE TransactionStep
  BY <1>8 DEF Deliver, InspectRecord, TransactionStep
<1>9. QED
  BY <1>1, <1>2, <1>3, <1>4, <1>5, <1>6, <1>7, <1>8 DEF Next

LEMMA HandlersStaySound ==
  ASSUME TypeOK, Sound, [Next]_vars, NEW b \in Attempt
  PROVE  HandlerIsSound(b)'
<1>1. HandlerStep(b) /\ Onward(b) /\ HandlerIsSound(b)
  BY HandlerSteps DEF Sound
<1>2. b \in billed' => stage'[b] # "unused"
  <2>1. CASE b \in billed
    BY <1>1, <2>1 DEF HandlerIsSound, Onward
  <2>2. CASE b \in billed' /\ b \notin billed
    <3>1. Writing(b)
      BY <2>2, StoreSteps DEF BillingStep, Committed
    <3>2. stage[b] = "billing"
      BY <3>1 DEF Writing, Free, Sound, TransactionIsSound
    <3>3. QED
      BY <1>1, <3>2 DEF Onward
  <2>3. QED
    BY <2>1, <2>2
<1>3. /\ stage'[b] \in {"quotas", "billing"} => ValidFor(report[b], AccountOf[b])'
      /\ stage'[b] = "billing" => report'[b].billing
      /\ stage'[b] = "quotas" => left'[b] # <<>> /\ ToSet(left'[b]) \subseteq ToSet(report'[b].quotas)
  <2>1. CASE stage'[b] \notin {"quotas", "billing"}
    BY <2>1
  <2>2. CASE stage'[b] = stage[b] /\ left'[b] = left[b] /\ report'[b] = report[b]
    BY <1>1, <2>2 DEF HandlerIsSound, ValidFor
  <2>3. CASE /\ stage[b] = "marking" /\ Kept(b) /\ report'[b] = report[b]
             /\ left'[b] = report[b].quotas /\ stage'[b] = StageWith(b, report[b].quotas)
    BY <2>3 DEF Kept, StageWith, ValidFor
  <2>4. CASE /\ stage[b] = "quotas" /\ report'[b] = report[b]
             /\ left'[b] = Tail(left[b]) /\ stage'[b] = StageWith(b, Tail(left[b]))
    <3>1. ToSet(Tail(left[b])) \subseteq ToSet(report[b].quotas)
      BY <2>4, HeadIsStored
    <3>2. QED
      BY <1>1, <2>4, <3>1 DEF HandlerIsSound, StageWith, ValidFor
  <2>5. QED
    BY <1>1, <2>1, <2>2, <2>3, <2>4 DEF HandlerStep
<1>4. QED
  BY <1>2, <1>3 DEF HandlerIsSound

LEMMA TransactionStaysSound ==
  ASSUME TypeOK, Sound, [Next]_vars
  PROVE  TransactionIsSound'
<1>1. TransactionStep /\ recorded \subseteq recorded'
  BY TransactionSteps, StoreSteps
<1>2. \A a \in Attempt : stage[a] = "billing" => report'[a] = report[a]
  BY HandlerSteps DEF Onward
<1>3. CASE txn' = None
  BY <1>3 DEF TransactionIsSound
<1>4. CASE txn' = txn /\ txn # None /\ stage'[txn.attempt] = stage[txn.attempt]
  <2>1. txn.attempt \in Attempt
    BY <1>4 DEF TypeOK, Txn
  <2>2. QED
    BY <1>1, <1>2, <1>4, <2>1 DEF Sound, TransactionIsSound
<1>5. ASSUME NEW a \in Attempt, stage[a] = "billing", a \in recorded, stage' = stage,
             txn' = [attempt |-> a, units |-> <<>>]
      PROVE  TransactionIsSound'
  <2>1. report'[a].units \in Seq(Quantity)
    BY <1>2, <1>5, ReportTypes
  <2>2. txn'.attempt = a /\ txn'.units = <<>> /\ Len(txn'.units) = 0
    BY <1>5
  <2>3. Len(txn'.units) <= Len(report'[a].units)
    BY <2>1, <2>2
  <2>4. QED
    BY <1>1, <1>5, <2>2, <2>3 DEF TransactionIsSound
<1>6. ASSUME NEW a \in Attempt, Writing(a), Len(txn.units) < Len(report[a].units),
             stage' = stage,
             txn' = [txn EXCEPT !.units = Append(@, report[a].units[Len(@) + 1])]
      PROVE  TransactionIsSound'
  <2>1. txn \in Txn /\ txn.attempt = a /\ txn.units \in Seq(Quantity)
    BY <1>6 DEF Writing, Free, TypeOK, Txn
  <2>2. /\ stage[a] = "billing" /\ a \in recorded
        /\ \A i \in 1 .. Len(txn.units) : txn.units[i] = report[a].units[i]
    BY <1>6, <2>1 DEF Sound, TransactionIsSound, Writing, Free
  <2>3. report'[a] = report[a] /\ report[a].units \in Seq(Quantity)
    BY <1>2, <2>2, ReportTypes
  <2>4. txn'.attempt = a /\ txn'.units = Append(txn.units, report[a].units[Len(txn.units) + 1])
    BY <1>6, <2>1 DEF Txn
  <2>5. /\ Len(txn'.units) = Len(txn.units) + 1
        /\ \A i \in 1 .. Len(txn.units) + 1 : txn'.units[i] = report[a].units[i]
    <3>1. report[a].units[Len(txn.units) + 1] \in Quantity
      BY <1>6, <2>1, <2>3
    <3>2. QED
      BY <2>1, <2>2, <2>4, <3>1
  <2>6. Len(txn.units) + 1 <= Len(report[a].units)
    BY <1>6, <2>1, <2>3
  <2>7. QED
    BY <1>1, <1>6, <2>2, <2>3, <2>4, <2>5, <2>6 DEF TransactionIsSound
<1>7. QED
  BY <1>1, <1>3, <1>4, <1>5, <1>6 DEF TransactionStep

LEMMA SoundInit == Init => Sound
BY DEF Init, Sound, TransactionIsSound, HandlerIsSound

LEMMA SoundStep == TypeOK /\ Sound /\ [Next]_vars => TypeOK' /\ Sound'
BY TypeStep, HandlersStaySound, TransactionStaysSound DEF Sound

(* The process, its store, its handlers and the inspection are well typed;      *)
(* what a handler or a transaction still has to write is part of a valid report.*)
THEOREM TypeCorrect == Spec => [](TypeOK /\ Sound)
BY TypeInit, SoundInit, SoundStep, PTL DEF Spec

-----------------------------------------------------------------------------
(* Billing records *)

(* A record that is there keeps its units, or gets those of its report. *)
LEMMA BilledSteps ==
  ASSUME TypeOK, Sound, [Next]_vars, NEW a \in Attempt, a \in billed'
  PROVE  /\ report'[a] = report[a]
         /\ \/ a \in billed /\ units'[a] = units[a]
            \/ Writing(a) /\ units'[a] = report[a].units
<1>1. BillingStep /\ Onward(a)
  BY StoreSteps, HandlerSteps
<1>2. Writing(a) => stage[a] = "billing"
  BY DEF Writing, Free, Sound, TransactionIsSound
<1>3. a \in billed => stage[a] # "unused"
  BY DEF Sound, HandlerIsSound
<1>4. CASE UNCHANGED <<billed, units>>
  BY <1>1, <1>3, <1>4 DEF Onward
<1>5. ASSUME NEW b \in Attempt, Writing(b), Len(txn.units) = Len(report[b].units), Committed(b)
      PROVE  /\ report'[a] = report[a]
             /\ \/ a \in billed /\ units'[a] = units[a]
                \/ Writing(a) /\ units'[a] = report[a].units
  <2>1. CASE a = b
    BY <1>1, <1>2, <1>5, <2>1, CompleteUnits DEF Onward, Committed, TypeOK
  <2>2. CASE a # b
    BY <1>1, <1>3, <1>5, <2>2 DEF Onward, Committed, TypeOK
  <2>3. QED
    BY <2>1, <2>2
<1>6. QED
  BY <1>1, <1>4, <1>5 DEF BillingStep

LEMMA BillingStaysWhole ==
  TypeOK /\ Sound /\ BillingIsWhole /\ [Next]_vars => BillingIsWhole'
<1> SUFFICES ASSUME TypeOK, Sound, BillingIsWhole, [Next]_vars, NEW a \in billed'
             PROVE  /\ a \in recorded'
                    /\ report'[a].billing /\ ValidFor(report'[a], AccountOf[a])
                    /\ units'[a] = report'[a].units
  BY DEF BillingIsWhole, ValidFor
<1>1. a \in Attempt /\ recorded \subseteq recorded'
  BY TypeStep, StoreSteps DEF TypeOK
<1>2. /\ report'[a] = report[a]
      /\ \/ a \in billed /\ units'[a] = units[a]
         \/ Writing(a) /\ units'[a] = report[a].units
  BY <1>1, BilledSteps
<1>3. CASE a \in billed /\ units'[a] = units[a]
  BY <1>1, <1>2, <1>3 DEF BillingIsWhole
<1>4. CASE Writing(a) /\ units'[a] = report[a].units
  <2>1. a \in recorded /\ stage[a] = "billing"
    BY <1>4 DEF Writing, Free, Sound, TransactionIsSound
  <2>2. report[a].billing /\ ValidFor(report[a], AccountOf[a])
    BY <1>1, <2>1 DEF Sound, HandlerIsSound
  <2>3. QED
    BY <1>1, <1>2, <1>4, <2>1, <2>2
<1>5. QED
  BY <1>2, <1>3, <1>4

(* A billing record refers to an attempt on record and has every unit of its    *)
(* report: units are inserted one by one in a transaction that a failure, a     *)
(* departure or a restart drops.                                                *)
THEOREM BillingAlwaysWhole == Spec => []BillingIsWhole
<1>1. Init => BillingIsWhole
  BY DEF Init, BillingIsWhole
<1>2. QED
  BY <1>1, BillingStaysWhole, TypeCorrect, PTL DEF Spec

(* The record that an inspection has found stays. *)
InspectsRecords ==
  /\ inspecting # None => inspecting \in billed
  /\ shown # None => shown.attempt \in billed

LEMMA InspectionStaysWhole ==
  TypeOK /\ Sound /\ BillingIsWhole /\ InspectsRecords /\ InspectionIsWhole /\ [Next]_vars
    => InspectsRecords' /\ InspectionIsWhole'
<1> SUFFICES ASSUME TypeOK, Sound, BillingIsWhole, InspectsRecords, InspectionIsWhole, [Next]_vars
             PROVE  InspectsRecords' /\ InspectionIsWhole'
  OBVIOUS
<1> USE DEF reader
<1>1. billed \subseteq billed'
  BY StoreSteps DEF BillingStep, Committed
<1>2. \A a \in billed : report'[a] = report[a]
  BY <1>1, BilledSteps DEF TypeOK
<1>3. CASE UNCHANGED reader
  BY <1>1, <1>2, <1>3 DEF InspectsRecords, InspectionIsWhole
<1>4. ASSUME NEW a \in Attempt, InspectRecord(a) PROVE InspectsRecords' /\ InspectionIsWhole'
  BY <1>1, <1>4, ConstantsAssumption
     DEF InspectRecord, RowRead, InspectsRecords, InspectionIsWhole
<1>5. CASE InspectUnits
  <2>1. inspecting \in billed /\ units[inspecting] = report[inspecting].units
    BY <1>5 DEF InspectUnits, InspectsRecords, BillingIsWhole
  <2>2. shown'.attempt = inspecting /\ shown'.units = units[inspecting] /\ inspecting' = None
    BY <1>5 DEF InspectUnits
  <2>3. QED
    BY <1>1, <1>2, <2>1, <2>2 DEF InspectsRecords, InspectionIsWhole
<1>6. UNCHANGED reader \/ InspectUnits \/ \E a \in Attempt : InspectRecord(a)
  BY DEF Next, vars, Respond, RecordAttempt, MarkRoute, RecordQuota, InsertRecord, InsertUnit,
         CommitRecord, Abandon, Deliver, Restart
<1>7. QED
  BY <1>3, <1>4, <1>5, <1>6

(* What the inspection shows of an attempt is what its response reported,       *)
(* although it reads the record and the units by two queries.                   *)
THEOREM InspectionAlwaysWhole == Spec => []InspectionIsWhole
<1>1. Init => InspectsRecords /\ InspectionIsWhole
  BY DEF Init, InspectsRecords, InspectionIsWhole
<1>2. QED
  BY <1>1, InspectionStaysWhole, BillingAlwaysWhole, TypeCorrect, PTL DEF Spec

-----------------------------------------------------------------------------
(* Quota snapshots *)

(* The same as QuotasAreOwn, by a response that has been given. *)
QuotasAreReported ==
  \A id \in SnapshotId : quotas[id] # None =>
    \E a \in Attempt :
      /\ stage[a] # "unused"
      /\ AccountOf[a] = quotas[id].account
      /\ quotas[id] \in ToSet(report[a].quotas)
      /\ \A s \in ToSet(report[a].quotas) : s.account = AccountOf[a]

LEMMA QuotaSteps ==
  ASSUME TypeOK, Sound, [Next]_vars, NEW id \in SnapshotId
  PROVE  \/ quotas'[id] = quotas[id]
         \/ /\ quotas[id] = None
            /\ \E a \in Attempt : stage[a] = "quotas" /\ quotas'[id] = Head(left[a])
<1>1. QuotaStep
  BY StoreSteps
<1>2. ASSUME NEW a \in Attempt, stage[a] = "quotas", quotas' = Stored(Head(left[a]))
      PROVE  \/ quotas'[id] = quotas[id]
             \/ quotas[id] = None /\ quotas'[id] = Head(left[a])
  <2>1. Head(left[a]) \in StoredSnapshot
    BY <1>2, HeadIsStored
  <2>2. QED
    BY <1>2, <2>1 DEF Stored, TypeOK
<1>3. QED
  BY <1>1, <1>2 DEF QuotaStep

LEMMA QuotasStayReported ==
  TypeOK /\ Sound /\ QuotasAreReported /\ [Next]_vars => QuotasAreReported'
<1> SUFFICES ASSUME TypeOK, Sound, QuotasAreReported, [Next]_vars,
                    NEW id \in SnapshotId, quotas'[id] # None
             PROVE  \E a \in Attempt :
                      /\ stage'[a] # "unused"
                      /\ AccountOf[a] = quotas'[id].account
                      /\ quotas'[id] \in ToSet(report'[a].quotas)
                      /\ \A s \in ToSet(report'[a].quotas) : s.account = AccountOf[a]
  BY DEF QuotasAreReported
<1>1. \A a \in Attempt : Onward(a)
  BY HandlerSteps
<1>2. CASE quotas'[id] = quotas[id]
  BY <1>1, <1>2 DEF QuotasAreReported, Onward
<1>3. ASSUME NEW a \in Attempt, stage[a] = "quotas", quotas'[id] = Head(left[a])
      PROVE  /\ stage'[a] # "unused"
             /\ AccountOf[a] = quotas'[id].account
             /\ quotas'[id] \in ToSet(report'[a].quotas)
             /\ \A s \in ToSet(report'[a].quotas) : s.account = AccountOf[a]
  <2>1. report'[a] = report[a] /\ stage'[a] # "unused"
    BY <1>1, <1>3 DEF Onward
  <2>2. quotas'[id] \in ToSet(report[a].quotas) /\ quotas'[id].account = AccountOf[a]
    BY <1>3, HeadIsStored
  <2>3. \A s \in ToSet(report[a].quotas) : s.account = AccountOf[a]
    BY <1>3 DEF Sound, HandlerIsSound, ValidFor, ToSet
  <2>4. QED
    BY <2>1, <2>2, <2>3
<1>4. QED
  BY <1>2, <1>3, QuotaSteps

(* Every snapshot on record was reported by a response of the account it speaks *)
(* of, in a report that says nothing of another account.                        *)
THEOREM QuotasAlwaysOwn == Spec => []QuotasAreOwn
<1>1. Init => QuotasAreReported
  BY DEF Init, QuotasAreReported
<1>2. QuotasAreReported => QuotasAreOwn
  BY DEF QuotasAreReported, QuotasAreOwn
<1>3. QED
  BY <1>1, <1>2, QuotasStayReported, TypeCorrect, PTL DEF Spec

(* A snapshot on record is never changed by another that has its identity.      *)
THEOREM QuotasNeverChange == Spec => QuotasStay
<1>1. TypeOK /\ Sound /\ [Next]_vars =>
        [\A id \in SnapshotId : quotas[id] # None => quotas'[id] = quotas[id]]_vars
  BY QuotaSteps
<1>2. QED
  BY <1>1, TypeCorrect, PTL DEF Spec, QuotasStay

-----------------------------------------------------------------------------
(* Reports *)

Undisturbed == faults = MaxFaults /\ mode # "snapshot"

(* How far a report has come with every stage of its handler. *)
OnItsWay(a) ==
  /\ stage[a] \in {"marking", "quotas", "billing"} => a \in recorded
  /\ stage[a] = "quotas" =>
       \A s \in ToSet(report[a].quotas) : quotas[s.id] # None \/ s \in ToSet(left[a])
  /\ stage[a] = "billing" => \A s \in ToSet(report[a].quotas) : quotas[s.id] # None
  /\ stage[a] = "closed" /\ ValidFor(report[a], AccountOf[a]) =>
       /\ \A s \in ToSet(report[a].quotas) : quotas[s.id] # None
       /\ report[a].billing => a \in billed

NothingIsLost == Undisturbed => connected /\ \A a \in Attempt : OnItsWay(a)

(* What is on record stays there. *)
LEMMA StoreGrows ==
  ASSUME TypeOK, Sound, [Next]_vars
  PROVE  /\ recorded \subseteq recorded' /\ billed \subseteq billed'
         /\ \A id \in SnapshotId : quotas[id] # None => quotas'[id] # None
BY StoreSteps, QuotaSteps DEF BillingStep, Committed

LEMMA IdOfQuota ==
  ASSUME TypeOK, NEW a \in Attempt, NEW s \in ToSet(report[a].quotas)
  PROVE  s.id \in SnapshotId
<1>1. report[a].quotas \in Seq(Snapshot)
  BY ReportTypes
<1>2. s \in Snapshot
  BY <1>1 DEF ToSet
<1>3. QED
  BY <1>2 DEF Snapshot

(* A handler that a step does not touch. *)
LEMMA OthersOnTheirWay ==
  ASSUME TypeOK, Sound, [Next]_vars, NEW b \in Attempt, OnItsWay(b),
         stage'[b] = stage[b], left'[b] = left[b], report'[b] = report[b]
  PROVE  OnItsWay(b)'
BY StoreGrows, IdOfQuota DEF OnItsWay, ValidFor

(* Without a fault, no call fails. *)
LEMMA NoFaultNoFailure ==
  ASSUME TypeOK, connected, faults' = MaxFaults, Fails
  PROVE  FALSE
BY ConstantsAssumption DEF Fails, Answers, TypeOK

LEMMA DisturbancesCount ==
  ASSUME TypeOK, NothingIsLost, [Next]_vars, Undisturbed'
  PROVE  /\ Undisturbed /\ connected /\ connected'
         /\ ~ Fails /\ ~ Restart /\ \A a \in Attempt : ~ Abandon(a)
<1> USE DEF process
<1>1. faults' = MaxFaults /\ MaxFaults \in Nat /\ faults \in 0 .. MaxFaults
  BY ConstantsAssumption DEF Undisturbed, TypeOK
<1>2. ~ Restart /\ \A a \in Attempt : ~ Abandon(a)
  BY <1>1 DEF Restart, Abandon
<1>3. mode' = mode
  BY <1>2 DEF Next, vars, Respond, RecordAttempt, MarkRoute, RecordQuota, InsertRecord,
              InsertUnit, CommitRecord, Deliver, InspectRecord, InspectUnits
<1>4. faults' \in {faults, faults - 1}
  BY <1>2 DEF Next, vars, Respond, RecordAttempt, MarkRoute, RecordQuota, InsertRecord,
              InsertUnit, CommitRecord, Deliver, InspectRecord, InspectUnits, Succeeds, Fails
<1>5. Undisturbed /\ connected
  BY <1>1, <1>3, <1>4 DEF Undisturbed, NothingIsLost
<1>6. ~ Fails
  BY <1>1, <1>5, NoFaultNoFailure
<1>7. connected'
  BY <1>2, <1>5, <1>6
     DEF Next, vars, Respond, RecordAttempt, MarkRoute, RecordQuota, InsertRecord,
         InsertUnit, CommitRecord, Deliver, InspectRecord, InspectUnits, Succeeds
<1>8. QED
  BY <1>2, <1>5, <1>6, <1>7

(* From one stage to the next. *)
LEMMA NextStageOnItsWay ==
  ASSUME TypeOK, NEW a \in Attempt, NEW snapshots \in Seq(Snapshot),
         report'[a] = report[a], a \in recorded', left'[a] = snapshots,
         stage'[a] = StageWith(a, snapshots),
         \A s \in ToSet(report[a].quotas) : quotas'[s.id] # None \/ s \in ToSet(snapshots)
  PROVE  OnItsWay(a)'
<1>1. snapshots = <<>> => ToSet(snapshots) = {}
  BY DEF ToSet
<1>2. QED
  BY <1>1 DEF OnItsWay, StageWith

LEMMA NothingGetsLost ==
  TypeOK /\ Sound /\ NothingIsLost /\ [Next]_vars => NothingIsLost'
<1> SUFFICES ASSUME TypeOK, Sound, NothingIsLost, [Next]_vars, Undisturbed'
             PROVE  connected' /\ \A b \in Attempt : OnItsWay(b)'
  BY DEF NothingIsLost
<1> USE DEF handler
<1>1. /\ connected /\ connected' /\ ~ Fails /\ ~ Restart /\ \A a \in Attempt : ~ Abandon(a)
      /\ \A a \in Attempt : OnItsWay(a)
  BY DisturbancesCount DEF NothingIsLost
<1>2. SUFFICES ASSUME NEW b \in Attempt PROVE OnItsWay(b)'
  BY <1>1
<1>3. CASE UNCHANGED <<stage[b], left[b], report[b]>>
  BY <1>1, <1>3, OthersOnTheirWay
<1>4. CASE UNCHANGED vars \/ InspectUnits
  BY <1>3, <1>4 DEF vars, InspectUnits
<1>5. ASSUME NEW a \in Attempt, a # b, Next,
             \/ Respond(a) \/ RecordAttempt(a) \/ MarkRoute(a) \/ RecordQuota(a)
             \/ InsertRecord(a) \/ InsertUnit(a) \/ CommitRecord(a) \/ Deliver(a)
             \/ InspectRecord(a)
      PROVE  OnItsWay(b)'
  BY <1>3, <1>5 DEF Respond, RecordAttempt, MarkRoute, RecordQuota, InsertRecord, InsertUnit,
                    CommitRecord, Closed, Deliver, InspectRecord, TypeOK
<1>6. CASE Respond(b)
  BY <1>6 DEF Respond, OnItsWay, TypeOK
<1>7. CASE RecordAttempt(b)
  BY <1>1, <1>7 DEF RecordAttempt, OnItsWay, TypeOK
<1>8. CASE MarkRoute(b)
  <2>1. /\ report'[b] = report[b] /\ recorded' = recorded /\ b \in recorded
        /\ report[b].quotas \in Seq(Snapshot)
    BY <1>1, <1>8, ReportTypes DEF MarkRoute, store, OnItsWay
  <2>2. mode # "snapshot"
    BY DisturbancesCount DEF Undisturbed
  <2>3. CASE Kept(b)
    <3>1. left'[b] = report[b].quotas /\ stage'[b] = StageWith(b, report[b].quotas)
      BY <1>1, <1>8, <2>2, <2>3 DEF MarkRoute, TypeOK
    <3>2. QED
      BY <2>1, <3>1, NextStageOnItsWay
  <2>4. CASE ~ Kept(b)
    <3>1. stage'[b] = "closed"
      BY <1>1, <1>8, <2>4 DEF MarkRoute, TypeOK
    <3>2. ValidFor(report[b], AccountOf[b]) =>
            ToSet(report[b].quotas) = {} /\ ~ report[b].billing
      BY <2>4 DEF Kept, IsEmpty, ToSet
    <3>3. QED
      BY <2>1, <3>1, <3>2 DEF OnItsWay, ValidFor
  <2>5. QED
    BY <2>3, <2>4
<1>9. CASE RecordQuota(b)
  <2>1. /\ stage[b] = "quotas" /\ quotas' = Stored(Head(left[b])) /\ report'[b] = report[b]
        /\ recorded' = recorded /\ b \in recorded
        /\ left'[b] = Tail(left[b]) /\ stage'[b] = StageWith(b, Tail(left[b]))
    BY <1>1, <1>9 DEF RecordQuota, OnItsWay, TypeOK
  <2>2. Head(left[b]) \in StoredSnapshot /\ Tail(left[b]) \in Seq(Snapshot)
    BY <2>1, HeadIsStored
  <2>3. Head(left[b]).id \in SnapshotId /\ Head(left[b]) # None
    BY <2>2, ConstantsAssumption DEF StoredSnapshot, Snapshot
  <2>4. quotas'[Head(left[b]).id] # None
    BY <2>1, <2>3 DEF Stored, TypeOK
  <2>5. ASSUME NEW s \in ToSet(report[b].quotas)
        PROVE  quotas'[s.id] # None \/ s \in ToSet(Tail(left[b]))
    <3>1. quotas[s.id] # None \/ s \in {Head(left[b])} \union ToSet(Tail(left[b]))
      BY <1>1, <2>1, HeadIsStored DEF OnItsWay
    <3>2. QED
      BY <2>4, <3>1, IdOfQuota, StoreGrows
  <2>6. QED
    BY <2>1, <2>2, <2>5, NextStageOnItsWay
<1>10. CASE InsertRecord(b)
  <2>1. b \in recorded
    BY <1>1, <1>10 DEF InsertRecord, OnItsWay
  <2>2. UNCHANGED <<stage[b], left[b], report[b]>>
    BY <1>1, <1>10, <2>1 DEF InsertRecord, Referenced
  <2>3. QED
    BY <1>3, <2>2
<1>11. CASE InsertUnit(b)
  BY <1>1, <1>3, <1>11 DEF InsertUnit
<1>12. CASE CommitRecord(b)
  <2>1. stage[b] = "billing"
    BY <1>12 DEF CommitRecord, Writing, Free, Sound, TransactionIsSound
  <2>2. /\ stage'[b] = "closed" /\ b \in billed' /\ quotas' = quotas
        /\ report'[b] = report[b]
    BY <1>1, <1>12 DEF CommitRecord, Committed, Closed, TypeOK
  <2>3. QED
    BY <1>1, <2>1, <2>2 DEF OnItsWay
<1>13. CASE Deliver(b) \/ InspectRecord(b)
  BY <1>3, <1>13 DEF Deliver, InspectRecord
<1>14. QED
  BY <1>1, <1>4, <1>5, <1>6, <1>7, <1>8, <1>9, <1>10, <1>11, <1>12, <1>13 DEF Next

(* Evidence is lost to faults only. Without one, and with a store for it, every *)
(* snapshot and the billing record of a valid report are on record when the     *)
(* handler has answered.                                                        *)
THEOREM ReportsAreKept == Spec => []ReportIsKept
<1>1. Init => NothingIsLost
  BY DEF Init, NothingIsLost, Undisturbed, OnItsWay
<1>2. NothingIsLost => ReportIsKept
  BY DEF NothingIsLost, Undisturbed, OnItsWay, ReportIsKept
<1>3. QED
  BY <1>1, <1>2, NothingGetsLost, TypeCorrect, PTL DEF Spec
=============================================================================
