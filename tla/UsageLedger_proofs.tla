------------------------ MODULE UsageLedger_proofs ------------------------
(***************************************************************************)
(* Theorems about UsageLedger for every set of attempts, flush limit and   *)
(* bound: no accepted entry is lost between the spool and the primary      *)
(* repository, and the two together implement AttemptLedger.               *)
(***************************************************************************)
EXTENDS UsageLedger, FiniteSetTheorems, TLAPS

(* The disjuncts of Next, one by one. *)
LEMMA NextCases ==
  ASSUME Next
  PROVE  \/ \E a \in Attempt :
              \/ Execute(a) \/ RecordAttempt(a) \/ RecordEnd(a) \/ EmitEnd(a)
              \/ RecordCancel(a) \/ StreamEnds(a) \/ AbandonRecord(a) \/ DropStream(a)
         \/ \E e \in Entry : Deliver(e) \/ DeliveryFails(e)
         \/ StartFlush \/ Acknowledge \/ Start
         \/ Crash \/ Outage \/ Recover \/ DiskFills \/ DiskClears
BY DEF Next, Recording, Flushing

-----------------------------------------------------------------------------
(* Types *)

LEMMA MergeType ==
  ASSUME NEW present \in Outcome \union {"absent"}, NEW new \in Outcome
  PROVE  Merge(present, new) \in Outcome \union {"absent"}
BY DEF Merge

LEMMA EntryOfType ==
  ASSUME TypeOK, NEW a \in Attempt
  PROVE  EntryOf(a) \in Entry
BY DEF TypeOK, EntryOf, Entry

LEMMA UpsertedType ==
  ASSUME TypeOK, NEW e \in Entry
  PROVE  Upserted(e) \in [Attempt -> Outcome \union {"absent"}]
<1>1. e.attempt \in Attempt /\ e.outcome \in Outcome
  BY DEF Entry
<1>2. primary[e.attempt] \in Outcome \union {"absent"}
  BY <1>1 DEF TypeOK
<1>3. Merge(primary[e.attempt], e.outcome) \in Outcome \union {"absent"}
  BY <1>1, <1>2, MergeType
<1>4. QED
  BY <1>1, <1>3 DEF Upserted, TypeOK

(* What the calls to the stores leave well typed. *)
LEMMA RecordTypes ==
  ASSUME TypeOK, NEW e \in Entry, RecordOk(e) \/ RecordFails(e)
  PROVE  /\ primary' \in [Attempt -> Outcome \union {"absent"}]
         /\ connected' \in BOOLEAN
         /\ faults' \in 0 .. MaxFaults
<1>1. Upserted(e) \in [Attempt -> Outcome \union {"absent"}]
  BY UpsertedType
<1>2. faults > 0 => faults - 1 \in 0 .. MaxFaults
  BY ConstantsAssumption DEF TypeOK
<1>3. QED
  BY <1>1, <1>2 DEF TypeOK, RecordOk, RecordFails

LEMMA PersistTypes ==
  ASSUME TypeOK, NEW e \in Entry, Persisted(e) \/ NotPersisted(e)
  PROVE  /\ primary' \in [Attempt -> Outcome \union {"absent"}]
         /\ connected' \in BOOLEAN
         /\ faults' \in 0 .. MaxFaults
         /\ spool' \subseteq Entry /\ IsFiniteSet(spool')
         /\ accepted' \subseteq Entry
<1>1. RecordOk(e) \/ RecordFails(e)
  BY DEF Persisted, NotPersisted
<1>2. IsFiniteSet(spool')
  <2>1. IsFiniteSet(spool \union {e})
    BY FS_AddElement DEF TypeOK
  <2>2. QED
    BY <2>1 DEF TypeOK, Persisted, NotPersisted, Appended
<1>3. QED
  BY <1>1, <1>2, RecordTypes DEF TypeOK, Persisted, NotPersisted, Appended

(* A flush starts with no more than its limit, and only loses entries. *)
LEMMA PendingIsLimited ==
  ASSUME TypeOK, NEW some \in Pending
  PROVE  some \subseteq Entry /\ IsFiniteSet(some) /\ Cardinality(some) <= FlushLimit
<1>1. some \in SUBSET spool
  BY DEF Pending
<1>2. IsFiniteSet(some) /\ Cardinality(some) \in Nat
  BY <1>1, FS_Subset, FS_CardinalityType DEF TypeOK
<1>3. Cardinality(some) <= FlushLimit
  BY <1>2, ConstantsAssumption DEF Pending
<1>4. QED
  BY <1>1, <1>2, <1>3 DEF TypeOK

LEMMA NothingAdded ==
  ASSUME NEW some, IsFiniteSet(some), Cardinality(some) <= FlushLimit, NEW e
  PROVE  IsFiniteSet(some \ {e}) /\ Cardinality(some \ {e}) <= FlushLimit
<1>1. /\ IsFiniteSet(some \ {e})
      /\ Cardinality(some \ {e}) = IF e \in some THEN Cardinality(some) - 1
                                  ELSE Cardinality(some)
  BY FS_RemoveElement
<1>2. Cardinality(some) \in Nat
  BY FS_CardinalityType
<1>3. QED
  BY <1>1, <1>2, ConstantsAssumption

LEMMA TypeInit == Init => TypeOK
<1> SUFFICES ASSUME Init PROVE TypeOK
  OBVIOUS
<1>1. /\ outages \in 0 .. MaxOutages /\ crashes \in 0 .. MaxCrashes
      /\ faults \in 0 .. MaxFaults /\ departures \in 0 .. MaxDepartures
  BY ConstantsAssumption DEF Init
<1>2. reachable \in BOOLEAN /\ writable \in BOOLEAN /\ connected \in BOOLEAN
        /\ flushing \in BOOLEAN
  BY Zenon DEF Init
<1>3. /\ IsFiniteSet(spool) /\ IsFiniteSet(batch)
      /\ Cardinality(batch) <= FlushLimit
  BY FS_EmptySet, ConstantsAssumption DEF Init
<1>4. QED
  BY <1>1, <1>2, <1>3 DEF Init, TypeOK, Outcome, Modes, Stages

LEMMA TypeStep == TypeOK /\ [Next]_vars => TypeOK'
<1> SUFFICES ASSUME TypeOK, [Next]_vars PROVE TypeOK'
  OBVIOUS
<1> USE DEF world, process, attempts, rest
<1>1. ASSUME NEW a \in Attempt, Execute(a) PROVE TypeOK'
  BY <1>1 DEF Execute, TypeOK, Outcome, Streamed, Stages
<1>2. ASSUME NEW a \in Attempt, RecordAttempt(a) PROVE TypeOK'
  <2>1. Persisted(EntryOf(a)) \/ NotPersisted(EntryOf(a))
    BY <1>2 DEF RecordAttempt
  <2>2. QED
    BY <1>2, <2>1, EntryOfType, PersistTypes DEF RecordAttempt, TypeOK, Stages
<1>3. ASSUME NEW a \in Attempt, RecordEnd(a) PROVE TypeOK'
  <2>1. Persisted(EntryOf(a)) \/ NotPersisted(EntryOf(a))
    BY <1>3 DEF RecordEnd
  <2>2. QED
    BY <1>3, <2>1, EntryOfType, PersistTypes DEF RecordEnd, TypeOK, Stages
<1>4. ASSUME NEW a \in Attempt, RecordCancel(a) PROVE TypeOK'
  <2>1. Persisted(EntryOf(a)) \/ NotPersisted(EntryOf(a))
    BY <1>4 DEF RecordCancel
  <2>2. QED
    BY <1>4, <2>1, EntryOfType, PersistTypes DEF RecordCancel, TypeOK, Stages
<1>5. ASSUME NEW a \in Attempt, EmitEnd(a) \/ StreamEnds(a) PROVE TypeOK'
  BY <1>5 DEF EmitEnd, StreamEnds, TypeOK, Outcome, Streamed, Stages
<1>6. ASSUME NEW a \in Attempt, AbandonRecord(a) \/ DropStream(a) PROVE TypeOK'
  <2>1. primary' \in [Attempt -> Outcome \union {"absent"}]
    BY <1>6, EntryOfType, UpsertedType DEF AbandonRecord, DropStream, GivenUp, TypeOK
  <2>2. departures' \in 0 .. MaxDepartures
    BY <1>6, ConstantsAssumption DEF AbandonRecord, DropStream, TypeOK
  <2>3. QED
    BY <1>6, <2>1, <2>2
       DEF AbandonRecord, DropStream, AfterDrop, TypeOK, Outcome, Streamed, Stages
<1>7. ASSUME NEW e \in Entry, Deliver(e) \/ DeliveryFails(e) PROVE TypeOK'
  <2>1. RecordOk(e) \/ RecordFails(e)
    BY <1>7 DEF Deliver, DeliveryFails
  <2>2. batch' \subseteq Entry /\ delivered' \subseteq Entry
    BY <1>7 DEF Deliver, DeliveryFails, StopAt, TypeOK
  <2>3. IsFiniteSet(batch') /\ Cardinality(batch') <= FlushLimit
    <3>1. CASE batch' = {}
      BY <3>1, FS_EmptySet, ConstantsAssumption
    <3>2. CASE batch' = batch \ {e}
      BY <3>2, NothingAdded DEF TypeOK
    <3>3. QED
      BY <1>7, <3>1, <3>2 DEF Deliver, DeliveryFails, StopAt
  <2>4. QED
    BY <1>7, <2>1, <2>2, <2>3, RecordTypes DEF Deliver, DeliveryFails, TypeOK
<1>8. CASE StartFlush \/ Start
  <2>1. batch' \in Pending \/ batch' = batch
    BY <1>8 DEF StartFlush, Start
  <2>2. batch' \subseteq Entry /\ IsFiniteSet(batch') /\ Cardinality(batch') <= FlushLimit
    BY <2>1, PendingIsLimited DEF TypeOK
  <2>3. QED
    BY <1>8, <2>2 DEF StartFlush, Start, TypeOK, Modes
<1>9. CASE Acknowledge
  <2>1. IsFiniteSet(spool')
    BY <1>9, FS_Subset DEF Acknowledge, TypeOK
  <2>2. QED
    BY <1>9, <2>1 DEF Acknowledge, TypeOK, Modes
<1>10. CASE Crash
  <2>1. primary' \in [Attempt -> Outcome \union {"absent"}]
    BY <1>10, EntryOfType, UpsertedType DEF Crash, TypeOK
  <2>2. crashes' \in 0 .. MaxCrashes
    BY <1>10, ConstantsAssumption DEF Crash, TypeOK
  <2>3. IsFiniteSet(batch') /\ Cardinality(batch') <= FlushLimit
    BY <1>10, FS_EmptySet, ConstantsAssumption DEF Crash
  <2>4. QED
    BY <1>10, <2>1, <2>2, <2>3 DEF Crash, TypeOK, Modes, Stages
<1>11. CASE Outage \/ Recover
  <2>1. reachable' \in BOOLEAN /\ connected' \in BOOLEAN
    BY <1>11, Zenon DEF Outage, Recover, TypeOK
  <2>2. outages' \in 0 .. MaxOutages
    BY <1>11, ConstantsAssumption DEF Outage, Recover, TypeOK
  <2>3. QED
    BY <1>11, <2>1, <2>2 DEF Outage, Recover, TypeOK
<1>12. CASE DiskFills \/ DiskClears
  <2>1. writable' \in BOOLEAN
    BY <1>12, Zenon DEF DiskFills, DiskClears, TypeOK
  <2>2. faults' \in 0 .. MaxFaults
    BY <1>12, ConstantsAssumption DEF DiskFills, DiskClears, TypeOK
  <2>3. QED
    BY <1>12, <2>1, <2>2 DEF DiskFills, DiskClears, TypeOK
<1>13. CASE UNCHANGED vars
  BY <1>13 DEF vars, TypeOK
<1>14. QED
  BY NextCases, <1>1, <1>2, <1>3, <1>4, <1>5, <1>6, <1>7, <1>8, <1>9, <1>10, <1>11,
     <1>12, <1>13

(* The stores, the process and the attempts keep their types. *)
THEOREM TypeCorrect == Spec => []TypeOK
BY TypeInit, TypeStep, PTL DEF Spec

-----------------------------------------------------------------------------
(* What an entry does to the rows *)

(* A row that an entry has reached covers it ... *)
LEMMA UpsertCovers ==
  ASSUME TypeOK, NEW e \in Entry, primary' = Upserted(e)
  PROVE  Covered(e)'
BY DEF TypeOK, Upserted, Covered, Merge, Entry, Outcome, Streamed

(* ... and goes on to, whichever entry reaches the rows next. *)
LEMMA CoveredStable ==
  ASSUME TypeOK, NEW e \in Entry, NEW f \in Entry, primary' = Upserted(e), Covered(f)
  PROVE  Covered(f)'
BY DEF TypeOK, Upserted, Covered, Merge, Entry, Outcome, Streamed

(* Only entries change rows, one at a time. *)
LEMMA PrimarySteps ==
  ASSUME TypeOK, [Next]_vars
  PROVE  primary' = primary \/ \E e \in Entry : primary' = Upserted(e)
<1> USE DEF world, process, attempts, rest
<1>1. ASSUME NEW a \in Attempt, Execute(a) \/ EmitEnd(a) \/ StreamEnds(a)
      PROVE  primary' = primary
  BY <1>1 DEF Execute, EmitEnd, StreamEnds
<1>2. ASSUME NEW a \in Attempt, RecordAttempt(a) \/ RecordEnd(a) \/ RecordCancel(a)
      PROVE  primary' = primary \/ primary' = Upserted(EntryOf(a))
  BY <1>2 DEF RecordAttempt, RecordEnd, RecordCancel, Persisted, NotPersisted, RecordOk,
     RecordFails
<1>3. ASSUME NEW a \in Attempt, AbandonRecord(a) \/ DropStream(a)
      PROVE  primary' = primary \/ primary' = Upserted(EntryOf(a))
  BY <1>3 DEF AbandonRecord, DropStream, GivenUp
<1>4. ASSUME NEW e \in Entry, Deliver(e) \/ DeliveryFails(e)
      PROVE  primary' = primary \/ primary' = Upserted(e)
  BY <1>4 DEF Deliver, DeliveryFails, RecordOk, RecordFails
<1>5. CASE StartFlush \/ Acknowledge \/ Start
  BY <1>5 DEF StartFlush, Acknowledge, Start
<1>6. CASE Crash
  BY <1>6, EntryOfType DEF Crash, TypeOK
<1>7. CASE Outage \/ Recover \/ DiskFills \/ DiskClears
  BY <1>7 DEF Outage, Recover, DiskFills, DiskClears
<1>8. CASE UNCHANGED vars
  BY <1>8 DEF vars
<1>9. QED
  BY NextCases, EntryOfType, <1>1, <1>2, <1>3, <1>4, <1>5, <1>6, <1>7, <1>8

(* A covered entry stays covered. *)
LEMMA StaysCovered ==
  ASSUME TypeOK, [Next]_vars, NEW f \in Entry, Covered(f)
  PROVE  Covered(f)'
<1>1. CASE primary' = primary
  BY <1>1 DEF Covered
<1>2. QED
  BY <1>1, PrimarySteps, CoveredStable

-----------------------------------------------------------------------------
(* No accepted entry is lost *)

(* The entries that a flush is about to acknowledge have arrived. *)
DeliveredCovered == \A e \in delivered : Covered(e)

LEMMA PersistKeeps ==
  ASSUME TypeOK, AcceptedNotLost, NEW e \in Entry, Persisted(e) \/ NotPersisted(e),
         \A f \in Entry : Covered(f) => Covered(f)'
  PROVE  AcceptedNotLost'
<1>1. CASE NotPersisted(e)
  BY <1>1 DEF NotPersisted, AcceptedNotLost, TypeOK
<1>2. CASE Persisted(e)
  <2>1. e \in spool' \/ Covered(e)'
    BY <1>2, UpsertCovers DEF Persisted, RecordOk, Appended
  <2>2. spool \subseteq spool' /\ accepted' = accepted \union {e}
    BY <1>2 DEF Persisted, Appended
  <2>3. QED
    BY <2>1, <2>2 DEF AcceptedNotLost, TypeOK
<1>3. QED
  BY <1>1, <1>2

LEMMA KeptStep ==
  TypeOK /\ AcceptedNotLost /\ DeliveredCovered /\ [Next]_vars
    => AcceptedNotLost' /\ DeliveredCovered'
<1> SUFFICES ASSUME TypeOK, AcceptedNotLost, DeliveredCovered, [Next]_vars
             PROVE  AcceptedNotLost' /\ DeliveredCovered'
  OBVIOUS
<1> USE DEF world, process, attempts, rest
<1>1. \A f \in Entry : Covered(f) => Covered(f)'
  BY StaysCovered
<1>2. spool \subseteq spool' /\ accepted' = accepted => AcceptedNotLost'
  BY <1>1 DEF AcceptedNotLost, TypeOK
<1>3. delivered' \subseteq delivered => DeliveredCovered'
  BY <1>1 DEF DeliveredCovered, TypeOK
<1>4. ASSUME NEW a \in Attempt, RecordAttempt(a) \/ RecordEnd(a) \/ RecordCancel(a)
      PROVE  AcceptedNotLost' /\ DeliveredCovered'
  <2>1. Persisted(EntryOf(a)) \/ NotPersisted(EntryOf(a))
    BY <1>4 DEF RecordAttempt, RecordEnd, RecordCancel
  <2>2. delivered' = delivered
    BY <1>4 DEF RecordAttempt, RecordEnd, RecordCancel
  <2>3. QED
    BY <2>1, <2>2, <1>1, <1>3, EntryOfType, PersistKeeps
<1>5. ASSUME NEW a \in Attempt,
             \/ Execute(a) \/ EmitEnd(a) \/ StreamEnds(a) \/ AbandonRecord(a)
             \/ DropStream(a)
      PROVE  AcceptedNotLost' /\ DeliveredCovered'
  BY <1>5, <1>2, <1>3 DEF Execute, EmitEnd, StreamEnds, AbandonRecord, DropStream
<1>6. ASSUME NEW e \in Entry, Deliver(e) PROVE AcceptedNotLost' /\ DeliveredCovered'
  <2>1. Covered(e)' /\ delivered' = delivered \union {e}
    BY <1>6, UpsertCovers DEF Deliver, RecordOk
  <2>2. QED
    BY <1>6, <2>1, <1>1, <1>2 DEF Deliver, DeliveredCovered, TypeOK
<1>7. ASSUME NEW e \in Entry, DeliveryFails(e) PROVE AcceptedNotLost' /\ DeliveredCovered'
  BY <1>7, <1>2, <1>3 DEF DeliveryFails, StopAt
<1>8. CASE Acknowledge
  <2>1. /\ spool \ delivered \subseteq spool' /\ accepted' = accepted
        /\ primary' = primary /\ delivered' = {}
    BY <1>8 DEF Acknowledge
  <2>2. QED
    BY <2>1, <1>1 DEF AcceptedNotLost, DeliveredCovered, TypeOK
<1>9. CASE StartFlush \/ Start \/ Crash \/ Outage \/ Recover \/ DiskFills \/ DiskClears
  BY <1>9, <1>2, <1>3 DEF StartFlush, Start, Crash, Outage, Recover, DiskFills, DiskClears
<1>10. CASE UNCHANGED vars
  BY <1>10, <1>2, <1>3 DEF vars
<1>11. QED
  BY NextCases, <1>4, <1>5, <1>6, <1>7, <1>8, <1>9, <1>10

(* The invariant holds at the start and every step keeps it. *)
LEMMA KeptAlways == Spec => [](AcceptedNotLost /\ DeliveredCovered)
<1>1. Init => AcceptedNotLost /\ DeliveredCovered
  BY DEF Init, AcceptedNotLost, DeliveredCovered
<1>2. QED
  BY <1>1, KeptStep, TypeCorrect, PTL DEF Spec

(* An attempt that persist reported as recorded is never lost: it is spooled,  *)
(* or the primary repository holds it or what superseded it.                   *)
THEOREM NothingAcceptedIsLost == Spec => []AcceptedNotLost
BY KeptAlways, PTL

-----------------------------------------------------------------------------
(* The refinement *)

(* A step that only brings an entry to the rows records it, or stutters. *)
LEMMA UpsertRecords ==
  ASSUME TypeOK, NEW e \in Entry, primary' = Upserted(e), spool' = spool
  PROVE  [Ledger!Next]_<<primary, spool>>
<1>1. e.attempt \in Attempt /\ e.outcome \in Outcome
  BY DEF Entry
<1>2. CASE Covered(e)
  <2>1. primary' = primary
    BY <1>1, <1>2 DEF Covered, Upserted, TypeOK
  <2>2. QED
    BY <2>1
<1>3. CASE ~ Covered(e)
  <2>1. Ledger!Follows(primary[e.attempt], e.outcome)
    BY <1>3 DEF Covered, Merge, Ledger!Follows, Ledger!Streamed, Streamed
  <2>2. Merge(primary[e.attempt], e.outcome) = e.outcome
    BY <1>3 DEF Covered, Merge
  <2>3. Ledger!Record(e.attempt, e.outcome)
    BY <2>1, <2>2 DEF Ledger!Record, Upserted
  <2>4. QED
    BY <1>1, <2>3 DEF Ledger!Next, Ledger!Outcome, Ledger!Streamed, Outcome, Streamed
<1>4. QED
  BY <1>2, <1>3

(* A step that spools an entry owes it, whether it has arrived or not. *)
LEMMA AppendOwes ==
  ASSUME TypeOK, NEW e \in Entry, primary' \in {primary, Upserted(e)},
         spool' = spool \union {e}
  PROVE  Ledger!Next
<1>1. e \in Ledger!Entry
  BY DEF Entry, Ledger!Entry, Outcome, Ledger!Outcome, Streamed, Ledger!Streamed
<1>2. CASE primary' = primary
  BY <1>1, <1>2 DEF Ledger!Next, Ledger!Owe
<1>3. CASE primary' = Upserted(e) /\ primary' # primary
  <2>1. ~ Covered(e)
    BY <1>3 DEF Covered, Upserted, TypeOK, Entry
  <2>2. Ledger!Follows(primary[e.attempt], e.outcome)
          /\ Merge(primary[e.attempt], e.outcome) = e.outcome
    BY <2>1 DEF Covered, Merge, Ledger!Follows, Ledger!Streamed, Streamed
  <2>3. Ledger!Owe(e)
    BY <1>3, <2>2 DEF Ledger!Owe, Upserted
  <2>4. QED
    BY <1>1, <2>3 DEF Ledger!Next
<1>4. QED
  BY <1>2, <1>3

LEMMA PersistRefines ==
  ASSUME TypeOK, NEW e \in Entry, Persisted(e) \/ NotPersisted(e)
  PROVE  [Ledger!Next]_<<primary, spool>>
<1>1. primary' = primary \/ primary' = Upserted(e)
  BY DEF Persisted, NotPersisted, RecordOk, RecordFails
<1>2. spool' = spool \/ spool' = spool \union {e}
  BY DEF Persisted, NotPersisted, Appended
<1>3. QED
  BY <1>1, <1>2, UpsertRecords, AppendOwes

(* A covered entry may be acknowledged. *)
LEMMA CoveredIsCovered ==
  ASSUME TypeOK, NEW e \in Entry, Covered(e)
  PROVE  Ledger!Covers(e)
BY DEF TypeOK, Covered, Merge, Ledger!Covers, Ledger!Follows, Ledger!Streamed, Streamed,
   Entry, Outcome

LEMMA RefinesStep ==
  TypeOK /\ DeliveredCovered /\ [Next]_vars => [Ledger!Next]_<<primary, spool>>
<1> SUFFICES ASSUME TypeOK, DeliveredCovered, [Next]_vars
             PROVE  [Ledger!Next]_<<primary, spool>>
  OBVIOUS
<1> USE DEF world, process, attempts, rest
<1>1. spool' = spool => [Ledger!Next]_<<primary, spool>>
  <2>1. primary' = primary \/ \E e \in Entry : primary' = Upserted(e)
    BY PrimarySteps
  <2>2. QED
    BY <2>1, UpsertRecords
<1>2. ASSUME NEW a \in Attempt, RecordAttempt(a) \/ RecordEnd(a) \/ RecordCancel(a)
      PROVE  [Ledger!Next]_<<primary, spool>>
  <2>1. Persisted(EntryOf(a)) \/ NotPersisted(EntryOf(a))
    BY <1>2 DEF RecordAttempt, RecordEnd, RecordCancel
  <2>2. QED
    BY <2>1, EntryOfType, PersistRefines
<1>3. ASSUME NEW a \in Attempt,
             \/ Execute(a) \/ EmitEnd(a) \/ StreamEnds(a) \/ AbandonRecord(a)
             \/ DropStream(a)
      PROVE  spool' = spool
  BY <1>3 DEF Execute, EmitEnd, StreamEnds, AbandonRecord, DropStream
<1>4. ASSUME NEW e \in Entry, Deliver(e) \/ DeliveryFails(e) PROVE spool' = spool
  BY <1>4 DEF Deliver, DeliveryFails
<1>5. CASE Acknowledge
  <2>1. primary' = primary /\ (spool' = spool \/ spool' = spool \ delivered)
    BY <1>5 DEF Acknowledge
  <2>2. CASE spool' = spool \ delivered
    <3> DEFINE arrived == delivered \intersect spool
    <3>1. arrived \in SUBSET spool /\ spool' = spool \ arrived
      BY <2>2
    <3>2. \A e \in arrived : Ledger!Covers(e)
      BY CoveredIsCovered DEF DeliveredCovered, TypeOK
    <3>3. Ledger!Acknowledge(arrived)
      BY <2>1, <3>1, <3>2 DEF Ledger!Acknowledge
    <3>4. QED
      BY <3>1, <3>3 DEF Ledger!Next
  <2>3. QED
    BY <2>1, <2>2
<1>6. CASE StartFlush \/ Start \/ Crash \/ Outage \/ Recover \/ DiskFills \/ DiskClears
  BY <1>1, <1>6 DEF StartFlush, Start, Crash, Outage, Recover, DiskFills, DiskClears
<1>7. CASE UNCHANGED vars
  BY <1>7 DEF vars
<1>8. QED
  BY NextCases, <1>1, <1>2, <1>3, <1>4, <1>5, <1>6, <1>7

(* The spool and the primary repository implement the ledger: entries leave    *)
(* the spool only once they are covered, outcomes only move forward.           *)
THEOREM LedgerRefined == Spec => ImplementsLedger
<1>1. Init => Ledger!Init
  BY DEF Init, Ledger!Init
<1>2. QED
  BY <1>1, RefinesStep, TypeCorrect, KeptAlways, PTL DEF Spec, ImplementsLedger, Ledger!Spec

-----------------------------------------------------------------------------
(* The terminal event and the record agree *)

(* What is said of an attempt, by its row and by what may still become its row. *)
SaidOnly(a, outcomes) ==
  /\ primary[a] \in outcomes \union {"absent"}
  /\ \A e \in spool \union batch : e.attempt = a => e.outcome \in outcomes

(* Nothing is said of an attempt before its first record, nothing but committed *)
(* before its stream ends, and nothing but its end once the end is recorded.    *)
StageSaid(a) ==
  /\ stage[a] \in {"unused", "recording"} => SaidOnly(a, {})
  /\ stage[a] \in {"open", "ending"} => SaidOnly(a, {"committed"})
  /\ stage[a] \in {"marking", "ended"} => SaidOnly(a, {"committed", outcome[a]})
  /\ stage[a] \in {"ending", "marking", "ended"}
       => outcome[a] \in {"succeeded", "partial_failed"}

EveryStageSaid == \A a \in Attempt : StageSaid(a)

(* A step that brings at most one entry to the stores says no more than it. *)
LEMMA SaysOneMore ==
  ASSUME TypeOK, NEW a \in Attempt, NEW before, NEW after, NEW e \in Entry,
         before \subseteq after, e.attempt = a => e.outcome \in after,
         SaidOnly(a, before),
         primary' \in {primary, Upserted(e)},
         spool' \subseteq spool \union {e},
         batch' \subseteq batch \union spool
  PROVE  SaidOnly(a, after)'
<1>1. primary'[a] \in after \union {"absent"}
  BY DEF SaidOnly, Upserted, Merge, TypeOK, Entry
<1>2. \A f \in spool' \union batch' : f.attempt = a => f.outcome \in after
  BY DEF SaidOnly
<1>3. QED
  BY <1>1, <1>2 DEF SaidOnly

LEMMA SaysNoMore ==
  ASSUME TypeOK, NEW a \in Attempt, NEW said, SaidOnly(a, said),
         primary' = primary, spool' \subseteq spool, batch' \subseteq batch \union spool
  PROVE  SaidOnly(a, said)'
BY DEF SaidOnly

(* An attempt whose stage does not change keeps to what is said of it. *)
LEMMA StageStays ==
  ASSUME TypeOK, NEW a \in Attempt, StageSaid(a), NEW e \in Entry,
         stage'[a] = stage[a], outcome'[a] = outcome[a],
         primary' \in {primary, Upserted(e)},
         spool' \subseteq spool \union {e},
         batch' \subseteq batch \union spool,
         e.attempt # a \/ e \in batch
  PROVE  StageSaid(a)'
<1>1. ASSUME NEW said, SaidOnly(a, said) PROVE SaidOnly(a, said)'
  <2>1. e.attempt = a => e.outcome \in said
    BY <1>1 DEF SaidOnly
  <2>2. QED
    BY <1>1, <2>1, SaysOneMore
<1>2. SaidOnly(a, {}) => SaidOnly(a, {})'
  BY <1>1
<1>3. SaidOnly(a, {"committed"}) => SaidOnly(a, {"committed"})'
  BY <1>1
<1>4. SaidOnly(a, {"committed", outcome[a]}) => SaidOnly(a, {"committed", outcome[a]})'
  <2>1. SaidOnly(a, {"committed", outcome[a]}) =>
          /\ primary'[a] \in {"committed", outcome[a]} \union {"absent"}
          /\ \A f \in spool' \union batch' :
               f.attempt = a => f.outcome \in {"committed", outcome[a]}
    BY DEF SaidOnly, Upserted, Merge, TypeOK, Entry
  <2>2. QED
    BY <2>1 DEF SaidOnly
<1>5. QED
  BY <1>2, <1>3, <1>4 DEF StageSaid

(* The steps of an attempt that say nothing new of any attempt. *)
LEMMA QuietStage ==
  ASSUME TypeOK, EveryStageSaid, NEW a \in Attempt,
         Execute(a) \/ StreamEnds(a) \/ EmitEnd(a)
  PROVE  EveryStageSaid'
<1> USE DEF world, process
<1>1. primary' = primary /\ spool' = spool /\ batch' = batch
  BY DEF Execute, StreamEnds, EmitEnd
<1>2. \A c \in Attempt \ {a} : stage'[c] = stage[c] /\ outcome'[c] = outcome[c]
  BY DEF Execute, StreamEnds, EmitEnd, TypeOK
<1>3. ASSUME NEW c \in Attempt, c # a PROVE StageSaid(c)'
  <2>1. StageSaid(c) /\ stage'[c] = stage[c] /\ outcome'[c] = outcome[c]
    BY <1>2, <1>3 DEF EveryStageSaid
  <2>2. QED
    BY <1>1, <2>1 DEF StageSaid, SaidOnly
<1>4. StageSaid(a)'
  <2>1. StageSaid(a)
    BY DEF EveryStageSaid
  <2>2. CASE Execute(a)
    <3>1. stage'[a] = "recording" /\ SaidOnly(a, {})
      BY <2>1, <2>2 DEF Execute, StageSaid, TypeOK
    <3>2. QED
      BY <1>1, <3>1 DEF StageSaid, SaidOnly
  <2>3. CASE StreamEnds(a)
    <3>1. /\ stage'[a] = "ending" /\ outcome'[a] \in {"succeeded", "partial_failed"}
          /\ SaidOnly(a, {"committed"})
      BY <2>1, <2>3 DEF StreamEnds, StageSaid, TypeOK
    <3>2. QED
      BY <1>1, <3>1 DEF StageSaid, SaidOnly
  <2>4. CASE EmitEnd(a)
    <3>1. /\ stage'[a] = "ended" /\ outcome'[a] = outcome[a]
          /\ outcome[a] \in {"succeeded", "partial_failed"}
          /\ SaidOnly(a, {"committed", outcome[a]})
      BY <2>1, <2>4 DEF EmitEnd, StageSaid, TypeOK
    <3>2. QED
      BY <1>1, <3>1 DEF StageSaid, SaidOnly
  <2>5. QED
    BY <2>2, <2>3, <2>4
<1>5. QED
  BY <1>3, <1>4 DEF EveryStageSaid

(* The steps of an attempt that bring its entry to the stores. *)
LEMMA RecordingStage ==
  ASSUME TypeOK, EveryStageSaid, NEW a \in Attempt,
         RecordAttempt(a) \/ RecordEnd(a) \/ RecordCancel(a) \/ AbandonRecord(a)
           \/ DropStream(a)
  PROVE  EveryStageSaid'
<1> USE DEF process, rest
<1> DEFINE e == EntryOf(a)
<1>1. e \in Entry /\ e.attempt = a /\ e.outcome = outcome[a]
  BY EntryOfType DEF EntryOf
<1>2. primary' \in {primary, Upserted(e)} /\ spool' \subseteq spool \union {e} /\ batch' = batch
  BY DEF RecordAttempt, RecordEnd, RecordCancel, AbandonRecord, DropStream, GivenUp, Persisted,
     NotPersisted, RecordOk, RecordFails, Appended
<1>3. \A c \in Attempt \ {a} : stage'[c] = stage[c] /\ outcome'[c] = outcome[c]
  BY DEF RecordAttempt, RecordEnd, RecordCancel, AbandonRecord, DropStream, TypeOK
<1>4. ASSUME NEW c \in Attempt, c # a PROVE StageSaid(c)'
  <2>1. StageSaid(c) /\ stage'[c] = stage[c] /\ outcome'[c] = outcome[c]
    BY <1>3, <1>4 DEF EveryStageSaid
  <2>2. e.attempt # c
    BY <1>1, <1>4
  <2> HIDE DEF e
  <2>3. QED
    BY <1>1, <1>2, <2>1, <2>2, StageStays
<1>5. StageSaid(a)'
  <2>1. StageSaid(a)
    BY DEF EveryStageSaid
  <2> HIDE DEF e
  <2>2. CASE RecordAttempt(a)
    <3>1. /\ SaidOnly(a, {}) /\ outcome'[a] = outcome[a]
          /\ \/ stage'[a] = "closed"
             \/ stage'[a] = "open" /\ outcome[a] = "committed"
      BY <2>1, <2>2 DEF RecordAttempt, StageSaid, TypeOK
    <3>2. outcome[a] = "committed" => SaidOnly(a, {"committed"})'
      BY <1>1, <1>2, <3>1, SaysOneMore
    <3>3. QED
      BY <3>1, <3>2 DEF StageSaid
  <2>3. CASE RecordEnd(a)
    <3>1. /\ SaidOnly(a, {"committed"}) /\ outcome'[a] = outcome[a]
          /\ stage'[a] \in {"marking", "ended"}
          /\ outcome[a] \in {"succeeded", "partial_failed"}
      BY <2>1, <2>3 DEF RecordEnd, StageSaid, TypeOK
    <3> DEFINE o == outcome[a]
    <3>2. SaidOnly(a, {"committed"}) /\ e.outcome \in {"committed", o}
      BY <1>1, <3>1
    <3>3. /\ primary'[a] \in {"committed", o, "absent"}
          /\ \A f \in spool' \union batch' : f.attempt = a => f.outcome \in {"committed", o}
      BY <1>1, <1>2, <3>2 DEF SaidOnly, Upserted, Merge, TypeOK
    <3>4. QED
      BY <3>1, <3>3 DEF StageSaid, SaidOnly
  <2>4. CASE RecordCancel(a) \/ AbandonRecord(a) \/ DropStream(a)
    <3>1. stage'[a] \in {"closed", "cancelling"}
      BY <2>4 DEF RecordCancel, AbandonRecord, DropStream, AfterDrop, TypeOK
    <3>2. QED
      BY <3>1 DEF StageSaid
  <2>5. QED
    BY <2>2, <2>3, <2>4
<1>6. QED
  BY <1>4, <1>5 DEF EveryStageSaid

LEMMA CrashStage ==
  ASSUME TypeOK, EveryStageSaid, Crash
  PROVE  EveryStageSaid'
<1> SUFFICES ASSUME NEW c \in Attempt PROVE StageSaid(c)'
  BY DEF EveryStageSaid
<1>1. StageSaid(c) /\ spool' = spool /\ batch' = {} /\ outcome' = outcome
  BY DEF EveryStageSaid, Crash
<1>2. CASE Interrupted(c)
  BY <1>2 DEF Crash, StageSaid
<1>3. CASE ~ Interrupted(c)
  <2>1. stage'[c] = stage[c] /\ stage[c] \in {"unused", "ended", "closed"}
    BY <1>3 DEF Crash, Interrupted
  <2>2. CASE primary' = primary
    BY <1>1, <2>1, <2>2 DEF StageSaid, SaidOnly
  <2>3. CASE \E e \in batch : primary' = Upserted(e)
    <3>1. PICK e \in batch : primary' = Upserted(e)
      BY <2>3
    <3>2. e \in Entry
      BY DEF TypeOK
    <3>3. QED
      BY <1>1, <2>1, <3>1, <3>2, StageStays
  <2>4. CASE \E b \in Attempt : stage[b] \in {"recording", "ending", "cancelling"}
                              /\ primary' = Upserted(EntryOf(b))
    <3>1. PICK b \in Attempt : stage[b] \in {"recording", "ending", "cancelling"}
                              /\ primary' = Upserted(EntryOf(b))
      BY <2>4
    <3>2. EntryOf(b) \in Entry /\ EntryOf(b).attempt # c
      BY <2>1, <3>1, EntryOfType DEF EntryOf
    <3>3. QED
      BY <1>1, <2>1, <3>1, <3>2, StageStays
  <2>5. QED
    BY <2>2, <2>3, <2>4 DEF Crash
<1>4. QED
  BY <1>2, <1>3

LEMMA StageStep == TypeOK /\ EveryStageSaid /\ [Next]_vars => EveryStageSaid'
<1> SUFFICES ASSUME TypeOK, EveryStageSaid, [Next]_vars PROVE EveryStageSaid'
  OBVIOUS
<1> USE DEF world, process, attempts, rest
<1>1. ASSUME NEW e \in Entry, Deliver(e) \/ DeliveryFails(e) PROVE EveryStageSaid'
  <2>1. /\ e \in batch /\ stage' = stage /\ outcome' = outcome
        /\ primary' \in {primary, Upserted(e)} /\ spool' = spool /\ batch' \subseteq batch
    BY <1>1 DEF Deliver, DeliveryFails, StopAt, RecordOk, RecordFails
  <2>2. ASSUME NEW c \in Attempt PROVE StageSaid(c)'
    <3>1. StageSaid(c) /\ stage'[c] = stage[c] /\ outcome'[c] = outcome[c]
      BY <2>1 DEF EveryStageSaid
    <3>2. spool' \subseteq spool \union {e} /\ batch' \subseteq batch \union spool
      BY <2>1
    <3>3. QED
      BY <2>1, <3>1, <3>2, StageStays
  <2>3. QED
    BY <2>2 DEF EveryStageSaid
<1>2. ASSUME primary' = primary, stage' = stage, outcome' = outcome,
             spool' \subseteq spool, batch' \subseteq batch \union spool
      PROVE  EveryStageSaid'
  <2>1. ASSUME NEW c \in Attempt, NEW said, SaidOnly(c, said) PROVE SaidOnly(c, said)'
    BY <1>2, <2>1, SaysNoMore
  <2>2. QED
    BY <1>2, <2>1 DEF EveryStageSaid, StageSaid, SaidOnly
<1>3. CASE StartFlush \/ Start
  BY <1>2, <1>3 DEF StartFlush, Start, Pending
<1>4. CASE Acknowledge \/ Outage \/ Recover \/ DiskFills \/ DiskClears
  BY <1>2, <1>4 DEF Acknowledge, Outage, Recover, DiskFills, DiskClears
<1>5. CASE UNCHANGED vars
  BY <1>2, <1>5 DEF vars
<1>6. QED
  BY NextCases, QuietStage, RecordingStage, CrashStage, <1>1, <1>3, <1>4, <1>5

(* The terminal event that a client has seen is the end of its stream on        *)
(* record: no late entry and no cancellation says otherwise.                    *)
THEOREM EndsAreOnRecord == Spec => []EndIsOnRecord
<1>1. Init => EveryStageSaid
  BY DEF Init, EveryStageSaid, StageSaid, SaidOnly
<1>2. TypeOK /\ EveryStageSaid /\ AcceptedNotLost => EndIsOnRecord
  <2> SUFFICES ASSUME TypeOK, EveryStageSaid, AcceptedNotLost,
                      NEW a \in Attempt, stage[a] = "ended"
               PROVE  /\ primary[a] \in {"absent", "committed", outcome[a]}
                      /\ \A e \in spool :
                           e.attempt = a => e.outcome \in {"committed", outcome[a]}
                      /\ EntryOf(a) \in accepted
                           => primary[a] = outcome[a] \/ EntryOf(a) \in spool
    BY DEF EndIsOnRecord
  <2>1. SaidOnly(a, {"committed", outcome[a]})
          /\ outcome[a] \in {"succeeded", "partial_failed"}
    BY DEF EveryStageSaid, StageSaid
  <2>2. Covered(EntryOf(a)) => primary[a] = outcome[a]
    BY <2>1 DEF SaidOnly, Covered, Merge, EntryOf, Streamed
  <2>3. QED
    BY <2>1, <2>2 DEF SaidOnly, AcceptedNotLost
<1>3. QED
  BY <1>1, <1>2, StageStep, TypeCorrect, KeptAlways, PTL DEF Spec
=============================================================================
