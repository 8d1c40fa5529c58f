------------------------- MODULE ControlData_proofs -------------------------
(***************************************************************************)
(* Theorems about ControlData for every set of rows, references and names: *)
(* what is reported as created is usable, and a snapshot that is taken     *)
(* while rows are created, by a process that may crash at any step, is     *)
(* whole, can be loaded, and knows no less than the one before, unless a   *)
(* power loss has undone a rename.                                         *)
(***************************************************************************)
EXTENDS ControlData, TLAPS

(* The steps of commands, which leave the process and its disk alone. *)
DatabaseStep ==
  \/ InsertPostgres
  \/ \E c \in Command : InsertSqlite(c) \/ InsertState(c) \/ StateFails(c)

LEMMA NextCases ==
  ASSUME [Next]_vars
  PROVE  \/ DatabaseStep
         \/ Connect \/ Read \/ WriteTemporary \/ SyncTemporary \/ Rename \/ Serve
         \/ StartOnSnapshot \/ Stop \/ WriteBack \/ PowerLoss
         \/ UNCHANGED vars
BY DEF Next, DatabaseStep

LEMMA DatabaseSteps ==
  ASSUME DatabaseStep
  PROVE  /\ UNCHANGED <<backend, process, disk, history>>
         /\ rows \subseteq rows'
         /\ stated \subseteq stated'
BY DEF DatabaseStep, InsertPostgres, InsertSqlite, InsertState, StateFails

LEMMA ProcessSteps ==
  ASSUME \/ Connect \/ Read \/ WriteTemporary \/ SyncTemporary \/ Rename \/ Serve
         \/ StartOnSnapshot \/ Stop \/ WriteBack \/ PowerLoss \/ UNCHANGED vars
  PROVE  UNCHANGED <<backend, database>>
BY DEF Connect, Read, WriteTemporary, SyncTemporary, Rename, Serve, StartOnSnapshot,
       Stop, WriteBack, PowerLoss, vars

-----------------------------------------------------------------------------
(* Types *)

(* A capture that is not complete has a query left. *)
ReadingGoesOn == phase = "reading" => read < Len(ReadOrder)

LEMMA OrderOfParts ==
  /\ Len(ReadOrder) = 5
  /\ ReadOrder[1] = "keys" /\ ReadOrder[2] = "routes" /\ ReadOrder[3] = "fallbacks"
  /\ ReadOrder[4] = "route_states" /\ ReadOrder[5] = "account_states"
BY DEF ReadOrder

LEMMA VisibleType ==
  ASSUME TypeOK, NEW part \in Part
  PROVE  Visible(part) \in SUBSET Row
BY DEF TypeOK, Part, Visible, Row

LEMMA EmptyType == Empty \in Data
BY DEF Empty, Data

LEMMA TypeInit == Init => TypeOK /\ ReadingGoesOn
<1> SUFFICES ASSUME Init PROVE TypeOK /\ ReadingGoesOn
  OBVIOUS
<1>1. /\ rows \subseteq Row /\ \A row \in rows : References[row] \subseteq rows
      /\ stated \subseteq rows \intersect Stateful /\ created \subseteq rows
      /\ pending \in [Command -> (rows \intersect Stateful) \union {None}]
  BY ConstantsAssumption DEF Init
<1>2. /\ backend \in Backends /\ phase \in Phases /\ read \in 0 .. Len(ReadOrder)
      /\ taken \in Data /\ known \in Data
      /\ file \in File \union {None} /\ stable \in File \union {None}
      /\ ReadingGoesOn
  BY OrderOfParts, EmptyType DEF Init, Phases, ReadingGoesOn
<1>3. reverted \in BOOLEAN
  BY Zenon DEF Init
<1>4. QED
  BY <1>1, <1>2, <1>3 DEF TypeOK

LEMMA DatabaseTypes ==
  ASSUME TypeOK, DatabaseStep
  PROVE  /\ rows' \subseteq Row
         /\ \A row \in rows' : References[row] \subseteq rows'
         /\ stated' \subseteq rows' \intersect Stateful
         /\ created' \subseteq rows'
         /\ pending' \in [Command -> (rows' \intersect Stateful) \union {None}]
<1>1. CASE InsertPostgres
  BY <1>1 DEF InsertPostgres, TypeOK, Fits, InsertedWith
<1>2. ASSUME NEW c \in Command, InsertSqlite(c)
      PROVE  /\ rows' \subseteq Row
             /\ \A row \in rows' : References[row] \subseteq rows'
             /\ stated' \subseteq rows' \intersect Stateful
             /\ created' \subseteq rows'
             /\ pending' \in [Command -> (rows' \intersect Stateful) \union {None}]
  BY <1>2 DEF InsertSqlite, TypeOK, Fits
<1>3. ASSUME NEW c \in Command, InsertState(c) \/ StateFails(c)
      PROVE  /\ rows' \subseteq Row
             /\ \A row \in rows' : References[row] \subseteq rows'
             /\ stated' \subseteq rows' \intersect Stateful
             /\ created' \subseteq rows'
             /\ pending' \in [Command -> (rows' \intersect Stateful) \union {None}]
  BY <1>3 DEF InsertState, StateFails, ReportedWithout, TypeOK
<1>4. QED
  BY <1>1, <1>2, <1>3 DEF DatabaseStep

LEMMA TypeStep == TypeOK /\ ReadingGoesOn /\ [Next]_vars => TypeOK' /\ ReadingGoesOn'
<1> SUFFICES ASSUME TypeOK, ReadingGoesOn, [Next]_vars PROVE TypeOK' /\ ReadingGoesOn'
  OBVIOUS
<1> USE DEF process, disk, history, database
<1>1. CASE DatabaseStep
  BY <1>1, DatabaseTypes, DatabaseSteps DEF TypeOK, ReadingGoesOn
<1>2. CASE Connect
  BY <1>2, EmptyType, OrderOfParts DEF Connect, TypeOK, ReadingGoesOn, Phases
<1>3. CASE Read
  <2>1. ReadOrder[read + 1] \in Part /\ read + 1 \in 0 .. Len(ReadOrder)
    BY <1>3, OrderOfParts DEF Read, TypeOK, ReadingGoesOn, Part
  <2>2. Visible(ReadOrder[read + 1]) \in SUBSET Row
    BY <2>1, VisibleType
  <2>3. taken' \in Data
    BY <1>3, <2>1, <2>2 DEF Read, TypeOK, Data
  <2>4. read' \in 0 .. Len(ReadOrder) /\ phase' \in Phases /\ ReadingGoesOn'
    BY <1>3, <2>1, OrderOfParts DEF Read, ReadingGoesOn, Phases
  <2>5. QED
    BY <1>3, <2>3, <2>4 DEF Read, TypeOK
<1>4. CASE WriteTemporary \/ SyncTemporary \/ Serve
  BY <1>4 DEF WriteTemporary, SyncTemporary, Serve, TypeOK, ReadingGoesOn, Phases
<1>5. CASE Rename
  BY <1>5 DEF Rename, TypeOK, ReadingGoesOn, Phases, File
<1>6. CASE StartOnSnapshot
  <2>1. file \in File
    BY <1>6 DEF StartOnSnapshot, Loadable, TypeOK
  <2>2. QED
    BY <1>6, <2>1 DEF StartOnSnapshot, TypeOK, ReadingGoesOn, Phases, File
<1>7. CASE Stop \/ WriteBack
  BY <1>7, EmptyType, OrderOfParts DEF Stop, WriteBack, TypeOK, ReadingGoesOn, Phases
<1>8. CASE PowerLoss
  <2>1. Kept(file) \in File \union {None} /\ Kept(stable) \in File \union {None}
    BY DEF Kept, TypeOK, File
  <2>2. /\ UNCHANGED <<backend, rows, stated, created, pending, known>>
        /\ file' \in File \union {None} /\ stable' = file' /\ reverted' \in BOOLEAN
    BY <1>8, <2>1 DEF PowerLoss, TypeOK
  <2>3. phase' = "down" /\ read' = 0 /\ taken' = Empty
    BY <1>8 DEF PowerLoss
  <2>4. QED
    BY <2>2, <2>3, EmptyType, OrderOfParts DEF TypeOK, ReadingGoesOn, Phases
<1>9. CASE UNCHANGED vars
  BY <1>9 DEF vars, TypeOK, ReadingGoesOn
<1>10. QED
  BY <1>1, <1>2, <1>3, <1>4, <1>5, <1>6, <1>7, <1>8, <1>9, NextCases

(* The state of the database, the process and its disk is well typed; foreign   *)
(* keys are among the types.                                                    *)
THEOREM TypeCorrect == Spec => [](TypeOK /\ ReadingGoesOn)
BY TypeInit, TypeStep, PTL DEF Spec

-----------------------------------------------------------------------------
(* What a command has reported is usable, and in PostgreSQL whatever is there:  *)
(* create_account and create_route insert both rows or none, and in SQLite do   *)
(* not report before the second.                                                *)
THEOREM RowsAlwaysUsable == Spec => []RowsAreUsable
<1>1. Init => RowsAreUsable
  BY ConstantsAssumption DEF Init, RowsAreUsable
<1>2. TypeOK /\ RowsAreUsable /\ [Next]_vars => RowsAreUsable'
  <2> SUFFICES ASSUME TypeOK, RowsAreUsable, [Next]_vars PROVE RowsAreUsable'
    OBVIOUS
  <2>1. CASE InsertPostgres
    BY <2>1 DEF InsertPostgres, InsertedWith, RowsAreUsable
  <2>2. ASSUME NEW c \in Command, InsertSqlite(c) PROVE RowsAreUsable'
    BY <2>2 DEF InsertSqlite, RowsAreUsable
  <2>3. ASSUME NEW c \in Command, InsertState(c) \/ StateFails(c) PROVE RowsAreUsable'
    BY <2>3 DEF InsertState, StateFails, ReportedWithout, RowsAreUsable
  <2>4. CASE UNCHANGED <<backend, database>>
    BY <2>4 DEF database, RowsAreUsable
  <2>5. QED
    BY <2>1, <2>2, <2>3, <2>4, NextCases, ProcessSteps DEF DatabaseStep
<1>3. QED
  BY <1>1, <1>2, TypeCorrect, PTL DEF Spec

-----------------------------------------------------------------------------
(* The inductive invariant behind the properties of the snapshot *)

Present(f) == f # None

(* A snapshot has the states of its routes and of their accounts. *)
Whole(data) ==
  \A r \in data["routes"] :
    /\ r \in data["route_states"]
    /\ References[r] \intersect Account \subseteq data["account_states"]

Within(data, more) == \A part \in Part : data[part] \subseteq more[part]

(* Rows are never deleted: what was read once would be read again. *)
StillThere(data) == \A part \in Part : data[part] \subseteq Visible(part)

(* The capture has come past the i-th query. *)
Past(i) == phase # "down" /\ (phase = "reading" => read >= i)

OnlyPostgresIsCaptured == phase # "down" => backend = "postgres"

NothingIsDeleted ==
  /\ StillThere(taken)
  /\ StillThere(known)
  /\ Present(file) => StillThere(file.data)
  /\ Present(stable) => StillThere(stable.data)

(* States are read after the routes they belong to. *)
CapturesAreWhole ==
  /\ Past(4) => taken["routes"] \subseteq taken["route_states"]
  /\ Past(5) => Whole(taken)
  /\ Whole(known)
  /\ Present(file) => Whole(file.data)
  /\ Present(stable) => Whole(stable.data)

(* Only what is synced and acceptable is ever renamed. *)
FilesAreLoadable ==
  /\ phase \in {"written", "synced", "saved"} => ~Rejected(taken)
  /\ Present(file) => file.synced /\ file.whole /\ ~Rejected(file.data)
  /\ Present(stable) => stable.synced /\ stable.whole /\ ~Rejected(stable.data)

(* Whatever replaces a snapshot has at least what was in it, and unless a power *)
(* loss has put an older one back the file has what was last served from.      *)
CapturesGrow ==
  /\ \A i \in 1 .. 5 : Past(i) =>
       /\ known[ReadOrder[i]] \subseteq taken[ReadOrder[i]]
       /\ Present(file) => file.data[ReadOrder[i]] \subseteq taken[ReadOrder[i]]
  /\ Present(stable) => Present(file) /\ Within(stable.data, file.data)
  /\ ~ reverted => IF Present(file) THEN Within(known, file.data) ELSE known = Empty
  /\ phase = "saved" => Present(file) /\ file.data = taken

SnapshotInv ==
  /\ OnlyPostgresIsCaptured
  /\ NothingIsDeleted
  /\ CapturesAreWhole
  /\ FilesAreLoadable
  /\ CapturesGrow

LEMMA SnapshotInvInit == Init => SnapshotInv
BY DEF Init, SnapshotInv, OnlyPostgresIsCaptured, NothingIsDeleted, CapturesAreWhole,
       FilesAreLoadable, CapturesGrow, StillThere, Whole, Past, Present, Empty, Part

LEMMA RowsStay ==
  ASSUME [Next]_vars
  PROVE  /\ backend' = backend
         /\ \A part \in Part : Visible(part) \subseteq Visible(part)'
<1>1. backend' = backend /\ rows \subseteq rows' /\ stated \subseteq stated'
  BY NextCases, DatabaseSteps, ProcessSteps DEF database
<1>2. QED
  BY <1>1 DEF Visible, Part

LEMMA EmptyIsSound ==
  /\ StillThere(Empty) /\ Whole(Empty)
  /\ \A data \in Data : Within(Empty, data)
BY DEF StillThere, Whole, Empty, Within, Part, Data

LEMMA EveryPartIsRead ==
  ASSUME NEW part \in Part
  PROVE  \E i \in 1 .. 5 : ReadOrder[i] = part
BY OrderOfParts DEF Part

LEMMA DatabaseKeeps ==
  ASSUME TypeOK, SnapshotInv, DatabaseStep
  PROVE  SnapshotInv'
<1>1. [Next]_vars
  BY DEF DatabaseStep, Next
<1>2. UNCHANGED <<backend, phase, read, taken, file, stable, known, reverted>>
  BY DatabaseSteps DEF process, disk, history
<1>3. NothingIsDeleted'
  BY <1>1, <1>2, RowsStay DEF SnapshotInv, NothingIsDeleted, StillThere, Present
<1>4. QED
  BY <1>2, <1>3
     DEF SnapshotInv, OnlyPostgresIsCaptured, CapturesAreWhole, FilesAreLoadable,
         CapturesGrow, Whole, Within, Past, Present, Rejected

(* Steps that change neither the database nor the files. *)
LEMMA ConnectKeeps ==
  ASSUME TypeOK, SnapshotInv, Connect \/ Stop
  PROVE  SnapshotInv'
<1> USE DEF process, disk, history, database
<1>1. /\ UNCHANGED <<backend, rows, stated, file, stable, known, reverted>>
      /\ taken' = Empty /\ read' = 0
      /\ phase' \in {"down", "reading"}
      /\ phase' = "reading" => backend = "postgres"
  BY DEF Connect, Stop
<1>2. OnlyPostgresIsCaptured' /\ FilesAreLoadable'
  BY <1>1 DEF SnapshotInv, OnlyPostgresIsCaptured, FilesAreLoadable, Present, Rejected
<1>3. NothingIsDeleted'
  BY <1>1, EmptyIsSound DEF SnapshotInv, NothingIsDeleted, StillThere, Visible, Present
<1>4. \A i \in 1 .. 5 : ~Past(i)'
  BY <1>1 DEF Past
<1>5. CapturesAreWhole'
  BY <1>1, <1>4 DEF SnapshotInv, CapturesAreWhole, Whole, Present
<1>6. CapturesGrow'
  BY <1>1, <1>4 DEF SnapshotInv, CapturesGrow, Within, Present
<1>7. QED
  BY <1>2, <1>3, <1>5, <1>6 DEF SnapshotInv

LEMMA ReadKeeps ==
  ASSUME TypeOK, ReadingGoesOn, RowsAreUsable, SnapshotInv, Read
  PROVE  SnapshotInv'
<1> USE DEF process, disk, history, database
<1>1. /\ UNCHANGED <<backend, rows, stated, file, stable, known, reverted>>
      /\ phase = "reading" /\ read' = read + 1
      /\ phase' = IF read' = 5 THEN "captured" ELSE "reading"
      /\ taken' = [taken EXCEPT ![ReadOrder[read + 1]] = Visible(ReadOrder[read + 1])]
  BY OrderOfParts DEF Read
<1>2. read \in 0 .. 4
  BY <1>1, OrderOfParts DEF TypeOK, ReadingGoesOn
<1>p. PICK part \in Part : part = ReadOrder[read + 1]
  <2>1. ReadOrder[read + 1] \in Part
    BY <1>2, OrderOfParts DEF Part
  <2>2. QED
    BY <2>1
<1>3. /\ taken'[part] = Visible(part)
      /\ \A other \in Part : other # part => taken'[other] = taken[other]
  BY <1>1, <1>p DEF TypeOK, Data
<1>4. OnlyPostgresIsCaptured' /\ FilesAreLoadable'
  BY <1>1 DEF SnapshotInv, OnlyPostgresIsCaptured, FilesAreLoadable, Present, Rejected
<1>5. NothingIsDeleted'
  <2>1. \A p \in Part : Visible(p)' = Visible(p)
    BY <1>1 DEF Visible
  <2>2. StillThere(taken)'
    BY <1>3, <2>1 DEF SnapshotInv, NothingIsDeleted, StillThere
  <2>3. QED
    BY <1>1, <2>1, <2>2 DEF SnapshotInv, NothingIsDeleted, StillThere, Present
<1>6. \A i \in 1 .. 5 : Past(i)' <=> read + 1 >= i
  BY <1>1, <1>2 DEF Past
<1>7. \A i \in 1 .. 5 : Past(i) <=> read >= i
  BY <1>1, <1>2 DEF Past
<1>8. \A r \in taken["routes"] : /\ r \in Visible("route_states")
                                 /\ References[r] \intersect Account
                                      \subseteq Visible("account_states")
  <2>1. SUFFICES ASSUME NEW r \in taken["routes"]
                 PROVE  /\ r \in Visible("route_states")
                        /\ References[r] \intersect Account
                             \subseteq Visible("account_states")
    OBVIOUS
  <2>2. r \in rows \intersect Route
    BY DEF SnapshotInv, NothingIsDeleted, StillThere, Part, Visible
  <2>3. rows \intersect Stateful \subseteq stated
    BY <1>1 DEF SnapshotInv, OnlyPostgresIsCaptured, RowsAreUsable
  <2>4. References[r] \subseteq rows
    BY <2>2 DEF TypeOK
  <2>5. QED
    BY <2>2, <2>3, <2>4 DEF Visible, Stateful
<1>9. CapturesAreWhole'
  <2>1. Past(4)' => taken'["routes"] \subseteq taken'["route_states"]
    BY <1>2, <1>p, <1>3, <1>6, <1>7, <1>8, OrderOfParts
       DEF SnapshotInv, CapturesAreWhole, Part
  <2>2. Past(5)' => Whole(taken)'
    BY <1>2, <1>p, <1>3, <1>6, <1>7, <1>8, OrderOfParts
       DEF SnapshotInv, CapturesAreWhole, Part, Whole
  <2>3. QED
    BY <1>1, <2>1, <2>2 DEF SnapshotInv, CapturesAreWhole, Whole, Present
<1>10. CapturesGrow'
  <2>1. ASSUME NEW i \in 1 .. 5, Past(i)'
        PROVE  /\ known[ReadOrder[i]] \subseteq taken'[ReadOrder[i]]
               /\ Present(file) => file.data[ReadOrder[i]] \subseteq taken'[ReadOrder[i]]
    <3>1. ReadOrder[i] \in Part
      BY OrderOfParts DEF Part
    <3>2. CASE ReadOrder[i] = part
      BY <1>3, <3>1, <3>2 DEF SnapshotInv, NothingIsDeleted, StillThere
    <3>3. CASE ReadOrder[i] # part
      <4>1. read >= i
        <5>1. i # read + 1
          BY <1>p, <3>3
        <5>2. read + 1 >= i
          BY <1>6, <2>1
        <5>3. QED
          BY <1>2, <5>1, <5>2
      <4>2. QED
        BY <1>3, <1>7, <3>1, <3>3, <4>1 DEF SnapshotInv, CapturesGrow
    <3>4. QED
      BY <3>2, <3>3
  <2>2. QED
    BY <1>1, <2>1 DEF SnapshotInv, CapturesGrow, Within, Present
<1>11. QED
  BY <1>4, <1>5, <1>9, <1>10 DEF SnapshotInv


LEMMA SaveKeeps ==
  ASSUME TypeOK, SnapshotInv, WriteTemporary \/ SyncTemporary
  PROVE  SnapshotInv'
<1> USE DEF process, disk, history, database
<1>1. /\ UNCHANGED <<backend, rows, stated, taken, file, stable, known, reverted>>
      /\ phase \in {"captured", "written"} /\ phase' \in {"written", "synced"}
  BY DEF WriteTemporary, SyncTemporary, ReadyToWrite
<1>2. ~Rejected(taken)
  BY DEF SnapshotInv, FilesAreLoadable, WriteTemporary, ReadyToWrite, SyncTemporary
<1>3. OnlyPostgresIsCaptured' /\ FilesAreLoadable'
  BY <1>1, <1>2
     DEF SnapshotInv, OnlyPostgresIsCaptured, FilesAreLoadable, Present, Rejected
<1>4. NothingIsDeleted'
  BY <1>1 DEF SnapshotInv, NothingIsDeleted, StillThere, Visible, Present
<1>5. \A i \in 1 .. 5 : Past(i) /\ Past(i)'
  BY <1>1 DEF Past
<1>6. CapturesAreWhole'
  BY <1>1, <1>5 DEF SnapshotInv, CapturesAreWhole, Whole, Present
<1>7. CapturesGrow'
  BY <1>1, <1>5 DEF SnapshotInv, CapturesGrow, Within, Present
<1>8. QED
  BY <1>3, <1>4, <1>6, <1>7 DEF SnapshotInv

(* A complete capture has at least what another has, once that is so query by   *)
(* query.                                                                       *)
LEMMA CompleteCaptures ==
  ASSUME NEW data, NEW more,
         \A i \in 1 .. 5 : data[ReadOrder[i]] \subseteq more[ReadOrder[i]]
  PROVE  Within(data, more)
BY EveryPartIsRead DEF Within

LEMMA RenameKeeps ==
  ASSUME TypeOK, SnapshotInv, Rename
  PROVE  SnapshotInv'
<1> USE DEF process, disk, history, database
<1>1. /\ UNCHANGED <<backend, rows, stated, taken, stable, known>>
      /\ phase = "synced" /\ phase' = "saved"
      /\ file'.data = taken /\ file'.synced /\ file'.whole /\ Present(file')
  <2>1. file' = [data |-> taken, synced |-> TRUE, whole |-> TRUE]
    BY DEF Rename, ReadyToRename
  <2>2. file' \in File
    BY <2>1 DEF TypeOK, File
  <2>3. QED
    <3>1. file'.data = taken /\ file'.synced /\ file'.whole
      BY <2>1
    <3>2. Present(file')
      BY <2>2, ConstantsAssumption DEF Present
    <3>3. QED
      BY <3>1, <3>2 DEF Rename, ReadyToRename
<1>2. \A i \in 1 .. 5 : Past(i) /\ Past(i)'
  BY <1>1 DEF Past
<1>3. Within(known, taken) /\ (Present(file) => Within(file.data, taken))
  BY <1>2, CompleteCaptures DEF SnapshotInv, CapturesGrow
<1>4. OnlyPostgresIsCaptured' /\ FilesAreLoadable'
  BY <1>1 DEF SnapshotInv, OnlyPostgresIsCaptured, FilesAreLoadable, Present, Rejected
<1>5. NothingIsDeleted'
  BY <1>1 DEF SnapshotInv, NothingIsDeleted, StillThere, Visible, Present
<1>6. CapturesAreWhole'
  <2>1. Whole(taken)
    BY <1>2 DEF SnapshotInv, CapturesAreWhole
  <2>2. QED
    BY <1>1, <1>2, <2>1 DEF SnapshotInv, CapturesAreWhole, Whole, Present
<1>7. CapturesGrow'
  <2>1. Present(stable) => Within(stable.data, taken)
    BY <1>3 DEF SnapshotInv, CapturesGrow, Within
  <2>2. QED
    BY <1>1, <1>2, <1>3, <2>1 DEF SnapshotInv, CapturesGrow, Within, Present
<1>8. QED
  BY <1>4, <1>5, <1>6, <1>7 DEF SnapshotInv

LEMMA ServeKeeps ==
  ASSUME TypeOK, SnapshotInv, Serve
  PROVE  SnapshotInv'
<1> USE DEF process, disk, history, database
<1>1. /\ UNCHANGED <<backend, rows, stated, taken, file, stable>>
      /\ phase = "saved" /\ phase' = "primary" /\ known' = taken
  BY DEF Serve, ReadyToServe
<1>2. \A i \in 1 .. 5 : Past(i) /\ Past(i)'
  BY <1>1 DEF Past
<1>3. Present(file) /\ file.data = taken
  BY <1>1 DEF SnapshotInv, CapturesGrow
<1>4. OnlyPostgresIsCaptured' /\ FilesAreLoadable'
  BY <1>1 DEF SnapshotInv, OnlyPostgresIsCaptured, FilesAreLoadable, Present, Rejected
<1>5. NothingIsDeleted'
  BY <1>1 DEF SnapshotInv, NothingIsDeleted, StillThere, Visible, Present
<1>6. CapturesAreWhole'
  BY <1>1, <1>2 DEF SnapshotInv, CapturesAreWhole, Whole, Present
<1>7. CapturesGrow'
  BY <1>1, <1>2, <1>3 DEF SnapshotInv, CapturesGrow, Within, Present
<1>8. QED
  BY <1>4, <1>5, <1>6, <1>7 DEF SnapshotInv

LEMMA StartKeeps ==
  ASSUME TypeOK, SnapshotInv, StartOnSnapshot
  PROVE  SnapshotInv'
<1> USE DEF process, disk, history, database
<1>1. /\ UNCHANGED <<backend, rows, stated, file, stable>>
      /\ backend = "postgres" /\ phase' = "snapshot"
      /\ taken' = file.data /\ known' = file.data /\ Present(file)
  BY DEF StartOnSnapshot, Loadable, Present
<1>2. OnlyPostgresIsCaptured' /\ FilesAreLoadable'
  BY <1>1 DEF SnapshotInv, OnlyPostgresIsCaptured, FilesAreLoadable, Present, Rejected
<1>3. NothingIsDeleted'
  BY <1>1 DEF SnapshotInv, NothingIsDeleted, StillThere, Visible, Present
<1>4. CapturesAreWhole'
  BY <1>1 DEF SnapshotInv, CapturesAreWhole, Whole, Present
<1>5. CapturesGrow'
  BY <1>1 DEF SnapshotInv, CapturesGrow, Within, Present
<1>6. QED
  BY <1>2, <1>3, <1>4, <1>5 DEF SnapshotInv

LEMMA WriteBackKeeps ==
  ASSUME TypeOK, SnapshotInv, WriteBack
  PROVE  SnapshotInv'
<1> USE DEF process, disk, history, database
<1>1. /\ UNCHANGED <<backend, rows, stated, phase, read, taken, file, known, reverted>>
      /\ stable' = file
  BY DEF WriteBack
<1>2. OnlyPostgresIsCaptured' /\ FilesAreLoadable'
  BY <1>1 DEF SnapshotInv, OnlyPostgresIsCaptured, FilesAreLoadable, Present, Rejected
<1>3. NothingIsDeleted'
  BY <1>1 DEF SnapshotInv, NothingIsDeleted, StillThere, Visible, Present
<1>4. CapturesAreWhole' /\ CapturesGrow'
  BY <1>1 DEF SnapshotInv, CapturesAreWhole, CapturesGrow, Whole, Within, Past, Present
<1>5. QED
  BY <1>2, <1>3, <1>4 DEF SnapshotInv

(* A file that is synced survives a power loss as it is. *)
LEMMA SyncedFilesAreKept ==
  ASSUME TypeOK, SnapshotInv
  PROVE  Kept(file) = file /\ Kept(stable) = stable
<1>1. ASSUME NEW f \in File, f.synced, f.whole PROVE Kept(f) = f
  BY <1>1 DEF Kept, File
<1>2. QED
  BY <1>1 DEF SnapshotInv, FilesAreLoadable, Present, Kept, TypeOK

LEMMA PowerLossKeeps ==
  ASSUME TypeOK, SnapshotInv, PowerLoss
  PROVE  SnapshotInv'
<1> USE DEF process, disk, history, database
<1>1. /\ UNCHANGED <<backend, rows, stated, known>>
      /\ phase' = "down" /\ taken' = Empty
      /\ file' \in {file, stable} /\ stable' = file'
      /\ file' = file \/ reverted'
      /\ reverted => reverted'
  BY SyncedFilesAreKept DEF PowerLoss, Present
<1>2. \A i \in 1 .. 5 : ~Past(i)'
  BY <1>1 DEF Past
<1>3. OnlyPostgresIsCaptured' /\ FilesAreLoadable'
  BY <1>1 DEF SnapshotInv, OnlyPostgresIsCaptured, FilesAreLoadable, Present, Rejected
<1>4. NothingIsDeleted'
  BY <1>1, EmptyIsSound DEF SnapshotInv, NothingIsDeleted, StillThere, Visible, Present
<1>5. CapturesAreWhole'
  BY <1>1, <1>2, EmptyIsSound DEF SnapshotInv, CapturesAreWhole, Whole, Present
<1>6. CapturesGrow'
  <2>1. ~ reverted' => IF Present(file') THEN Within(known', file'.data) ELSE known' = Empty
    BY <1>1 DEF SnapshotInv, CapturesGrow, Within, Present
  <2>2. QED
    BY <1>1, <1>2, <2>1 DEF CapturesGrow, Within, Present
<1>7. QED
  BY <1>3, <1>4, <1>5, <1>6 DEF SnapshotInv

LEMMA SnapshotInvStep ==
  TypeOK /\ ReadingGoesOn /\ RowsAreUsable /\ SnapshotInv /\ [Next]_vars => SnapshotInv'
<1> SUFFICES ASSUME TypeOK, ReadingGoesOn, RowsAreUsable, SnapshotInv, [Next]_vars
             PROVE  SnapshotInv'
  OBVIOUS
<1>1. CASE UNCHANGED vars
  BY <1>1
     DEF vars, database, process, disk, history, SnapshotInv, OnlyPostgresIsCaptured,
         NothingIsDeleted, CapturesAreWhole, FilesAreLoadable, CapturesGrow, StillThere,
         Visible, Whole, Within, Past, Present, Rejected
<1>2. QED
  BY <1>1, NextCases, DatabaseKeeps, ConnectKeeps, ReadKeeps, SaveKeeps, RenameKeeps,
     ServeKeeps, StartKeeps, WriteBackKeeps, PowerLossKeeps

LEMMA SnapshotAlwaysSound == Spec => []SnapshotInv
BY SnapshotInvInit, SnapshotInvStep, TypeCorrect, RowsAlwaysUsable, PTL DEF Spec

-----------------------------------------------------------------------------
(* A snapshot that is saved or served has the states of all of its routes and   *)
(* of their accounts, whatever commands do between the five queries: it is      *)
(* enough that the states are read last.                                        *)
THEOREM SnapshotAlwaysWhole == Spec => []SnapshotIsWhole
<1>1. SnapshotInv => SnapshotIsWhole
  BY DEF SnapshotInv, CapturesAreWhole, SnapshotIsWhole, Whole, Present
<1>2. QED
  BY <1>1, SnapshotAlwaysSound, PTL

(* Once a process has served there is a snapshot that load accepts, whenever    *)
(* save is interrupted: a file is renamed only when it is synced and no key of  *)
(* its maps is refused. Only a power loss before the directory was ever written *)
(* back leaves none.                                                            *)
THEOREM SnapshotAlwaysLoadable == Spec => []SnapshotIsLoadable
<1>1. SnapshotInv => SnapshotIsLoadable
  BY DEF SnapshotInv, FilesAreLoadable, CapturesGrow, SnapshotIsLoadable, Loadable, Present
<1>2. QED
  BY <1>1, SnapshotAlwaysSound, PTL

(* A process that starts to serve from PostgreSQL knows whatever the one before *)
(* it did, since rows are never deleted; one that starts on the snapshot does   *)
(* because a process serves only from what it has renamed, unless a power loss  *)
(* has undone the rename.                                                       *)
THEOREM NothingIsForgotten == Spec => NothingForgotten
<1> DEFINE StartsToServe == /\ phase \notin {"primary", "snapshot"}
                            /\ phase' \in {"primary", "snapshot"}
           Remembered    == \/ phase' = "snapshot" /\ reverted
                            \/ \A part \in Part : known[part] \subseteq taken'[part]
<1>1. SnapshotInv /\ [Next]_vars => [StartsToServe => Remembered]_vars
  <2> SUFFICES ASSUME SnapshotInv, [Next]_vars, StartsToServe PROVE Remembered
    OBVIOUS
  <2>1. CASE Serve
    <3>1. taken' = taken /\ \A i \in 1 .. 5 : known[ReadOrder[i]] \subseteq taken[ReadOrder[i]]
      BY <2>1 DEF Serve, ReadyToServe, process, SnapshotInv, CapturesGrow, Past
    <3>2. QED
      BY <3>1, CompleteCaptures DEF Within
  <2>2. CASE StartOnSnapshot
    BY <2>2 DEF StartOnSnapshot, Loadable, SnapshotInv, CapturesGrow, Within, Present
  <2>3. CASE DatabaseStep \/ WriteBack \/ UNCHANGED vars
    BY <2>3, DatabaseSteps DEF WriteBack, vars, process
  <2>4. CASE Connect \/ Read \/ WriteTemporary \/ SyncTemporary \/ Rename \/ Stop \/ PowerLoss
    BY <2>4 DEF Connect, Read, WriteTemporary, SyncTemporary, Rename, Stop, PowerLoss
  <2>5. QED
    BY <2>1, <2>2, <2>3, <2>4, NextCases
<1>2. QED
  BY <1>1, SnapshotAlwaysSound, PTL DEF Spec, NothingForgotten
=============================================================================
