----------------------------- MODULE ControlData -----------------------------
(***************************************************************************)
(* The rows that the administration commands create, each command in a     *)
(* process of its own, and the snapshot of them that a process takes when  *)
(* it starts to serve from PostgreSQL: five queries outside a transaction, *)
(* a file that replaces the last one, and the process that starts from the *)
(* file when PostgreSQL is away.                                           *)
(*                                                                         *)
(* No command changes or deletes a row: rows, and the state rows that      *)
(* accounts and routes are given with them, only grow in number. What the  *)
(* states say is the subject of HalfOpenProbe and LocalGateway.            *)
(***************************************************************************)
EXTENDS Naturals, Sequences

CONSTANTS
  Backends,                             \* databases: "postgres", "sqlite"
  Key, Model, Account, Route, Fallback, \* the rows that may be created
  References,                           \* References[row]: the rows its foreign keys name
  Slot,                                 \* Slot[row]: its value under UNIQUE or PRIMARY KEY
  Existing,                             \* rows that are there from the beginning
  Sensitive,                            \* rows named "secret", "content" or the like
  Command,                              \* commands that may run at one time on SQLite
  None                                  \* no row, no file

Row      == Key \union Model \union Account \union Route \union Fallback
Stateful == Account \union Route

Part  == {"keys", "routes", "fallbacks", "route_states", "account_states"}
Data  == [Part -> SUBSET Row]
Empty == [p \in Part |-> {}]
File  == [data : Data, synced : BOOLEAN, whole : BOOLEAN]

ASSUME ConstantsAssumption ==
  /\ Backends \subseteq {"postgres", "sqlite"}
  /\ References \in [Row -> SUBSET Row]
  /\ \A r \in Route : References[r] \intersect Account # {}
  /\ DOMAIN Slot = Row
  /\ Existing \subseteq Row \ Stateful
  /\ Sensitive \subseteq Row
  /\ \A row \in Existing : References[row] \subseteq Existing
  /\ None \notin Row \union File

VARIABLES
  backend,  \* the database
  rows,     \* the rows that are in it
  stated,   \* the accounts and routes whose state row is in it
  created,  \* the rows whose command has reported success
  pending,  \* pending[c]: the row whose state row command c has yet to insert
  phase,    \* how far the process that serves has come
  read,     \* the queries of its capture that are done
  taken,    \* what they returned
  file,     \* last-known-good.json as a process would read it
  stable,   \* the same as it is found after a power loss, at worst
  (* For the properties: what the last process that served could serve without *)
  (* PostgreSQL, and whether a power loss has since put an older file back.    *)
  known, reverted

database == <<rows, stated, created, pending>>
process  == <<phase, read, taken>>
disk     == <<file, stable>>
history  == <<known, reverted>>
vars     == <<backend, database, process, disk, history>>

Phases == {"down", "reading", "captured", "written", "synced", "saved",
           "primary", "snapshot"}

(* Variant: the states first. *)
StatesFirst == <<"route_states", "account_states", "keys", "routes", "fallbacks">>

(* The queries of control_snapshot_data. *)
ReadOrder == <<"keys", "routes", "fallbacks", "route_states", "account_states">>

TypeOK ==
  /\ backend \in Backends
  /\ rows \subseteq Row
  /\ \A row \in rows : References[row] \subseteq rows
  /\ stated \subseteq rows \intersect Stateful
  /\ created \subseteq rows
  /\ pending \in [Command -> (rows \intersect Stateful) \union {None}]
  /\ phase \in Phases
  /\ read \in 0 .. Len(ReadOrder)
  /\ taken \in Data
  /\ file \in File \union {None}
  /\ stable \in File \union {None}
  /\ known \in Data
  /\ reverted \in BOOLEAN

Init ==
  /\ backend \in Backends
  /\ rows = Existing
  /\ stated = {}
  /\ created = Existing
  /\ pending = [c \in Command |-> None]
  /\ phase = "down"
  /\ read = 0
  /\ taken = Empty
  /\ file = None
  /\ stable = None
  /\ known = Empty
  /\ reverted = FALSE

-----------------------------------------------------------------------------
(* create_gateway_key, create_model, create_account, create_route, add_fallback *)

(* Variant: without foreign keys. *)
FitsAlone(row) == \A other \in rows : Slot[other] # Slot[row]

Fits(row) == References[row] \subseteq rows /\ \A other \in rows : Slot[other] # Slot[row]

(* Variant: the state row is left to a second transaction. *)
InsertedAlone(row) == {}

(* The state row that PostgreSQL gets in the same transaction. *)
InsertedWith(row) == {row} \intersect Stateful

(* A commit may take effect without its command hearing of it. *)
InsertPostgres ==
  /\ backend = "postgres"
  /\ \E row \in Row \ rows :
       /\ Fits(row)
       /\ rows' = rows \union {row}
       /\ stated' = stated \union InsertedWith(row)
       /\ created' \in {created, created \union {row}}
  /\ UNCHANGED <<backend, pending, process, disk, history>>

(* SQLite commits each statement; keys, models and fallbacks have only one. *)
InsertSqlite(c) ==
  /\ backend = "sqlite"
  /\ pending[c] = None
  /\ \E row \in Row \ rows :
       /\ Fits(row)
       /\ rows' = rows \union {row}
       /\ IF row \in Stateful
            THEN /\ pending' = [pending EXCEPT ![c] = row]
                 /\ UNCHANGED created
            ELSE /\ created' = created \union {row}
                 /\ UNCHANGED pending
  /\ UNCHANGED <<backend, stated, process, disk, history>>

InsertState(c) ==
  /\ pending[c] # None
  /\ stated' = stated \union {pending[c]}
  /\ created' = created \union {pending[c]}
  /\ pending' = [pending EXCEPT ![c] = None]
  /\ UNCHANGED <<backend, rows, process, disk, history>>

(* Variant: the command does not look at the second statement's result. *)
ReportedAnyway(row) == {row}

(* What a command reports as created whose second statement fails. *)
ReportedWithout(row) == {}

(* The second statement fails, or the command is killed before it. *)
StateFails(c) ==
  /\ pending[c] # None
  /\ created' = created \union ReportedWithout(pending[c])
  /\ pending' = [pending EXCEPT ![c] = None]
  /\ UNCHANGED <<backend, rows, stated, process, disk, history>>

-----------------------------------------------------------------------------
(* serve_postgres, when PostgreSQL is there *)

Connect ==
  /\ backend = "postgres"
  /\ phase = "down"
  /\ phase' = "reading"
  /\ read' = 0
  /\ taken' = Empty
  /\ UNCHANGED <<backend, database, disk, history>>

(* What a query for a part returns. *)
Visible(part) ==
  CASE part = "keys"           -> rows \intersect Key
    [] part = "routes"         -> rows \intersect Route
    [] part = "fallbacks"      -> rows \intersect Fallback
    [] part = "route_states"   -> stated \intersect Route
    [] part = "account_states" -> stated \intersect Account

Read ==
  /\ phase = "reading"
  /\ LET part == ReadOrder[read + 1]
     IN  taken' = [taken EXCEPT ![part] = Visible(part)]
  /\ read' = read + 1
  /\ phase' = IF read' = Len(ReadOrder) THEN "captured" ELSE "reading"
  /\ UNCHANGED <<backend, database, disk, history>>

(* Maps of the snapshot have the names of routes, accounts and source models    *)
(* (here, of fallbacks) for keys, and a key may not look like a secret.         *)
Rejected(data) ==
  \E part \in {"fallbacks", "route_states", "account_states"} :
    data[part] \intersect Sensitive # {}

(* Variant: save does not look at the keys. *)
WrittenUnseen == phase = "captured"

ReadyToWrite == phase = "captured" /\ ~Rejected(taken)

(* LastKnownGoodSnapshot::save: to a temporary file of its own, *)
WriteTemporary ==
  /\ ReadyToWrite
  /\ phase' = "written"
  /\ UNCHANGED <<backend, database, read, taken, disk, history>>

(* that is synced, *)
SyncTemporary ==
  /\ phase = "written"
  /\ phase' = "synced"
  /\ UNCHANGED <<backend, database, read, taken, disk, history>>

(* Variant: the temporary file is renamed as soon as it is written. *)
ReadyOnceWritten == phase \in {"written", "synced"}

ReadyToRename == phase = "synced"

(* and becomes the snapshot. *)
Rename ==
  /\ ReadyToRename
  /\ file' = [data |-> taken, synced |-> phase = "synced", whole |-> TRUE]
  /\ phase' = "saved"
  /\ reverted' = FALSE
  /\ UNCHANGED <<backend, database, read, taken, stable, known>>

(* Variant: a capture that cannot be saved is served all the same. *)
ServesUnsaved == phase \in {"captured", "saved"}

ReadyToServe == phase = "saved"

Serve ==
  /\ ReadyToServe
  /\ phase' = "primary"
  /\ known' = taken
  /\ UNCHANGED <<backend, database, read, taken, disk, reverted>>

(* PostgreSQL is away: the process takes the snapshot, if load accepts it. *)
Loadable(f) == f # None /\ f.whole /\ ~Rejected(f.data)

StartOnSnapshot ==
  /\ backend = "postgres"
  /\ phase = "down"
  /\ Loadable(file)
  /\ phase' = "snapshot"
  /\ taken' = file.data
  /\ known' = file.data
  /\ reverted' = FALSE
  /\ UNCHANGED <<backend, database, read, disk>>

-----------------------------------------------------------------------------
(* The process ends: a query, a step of save or the first flush of the spool   *)
(* fails, or it is stopped, or it crashes.                                     *)
Stop ==
  /\ phase # "down"
  /\ phase' = "down"
  /\ read' = 0
  /\ taken' = Empty
  /\ UNCHANGED <<backend, database, disk, history>>

(* The kernel writes the directory back; nothing syncs it. *)
WriteBack ==
  /\ file # stable
  /\ stable' = file
  /\ UNCHANGED <<backend, database, process, file, history>>

(* Of a file that was not synced, a power loss leaves only a part. *)
Kept(f) == IF f = None THEN f ELSE [f EXCEPT !.whole = f.synced]

(* The machine of the process loses power. The file may be the last one whose   *)
(* directory entry is known to be on disk, or the new one. PostgreSQL is on     *)
(* another machine.                                                             *)
PowerLoss ==
  /\ backend = "postgres"
  /\ file' \in {Kept(file), Kept(stable)}
  /\ stable' = file'
  /\ reverted' = (reverted \/ file' # Kept(file))
  /\ phase' = "down"
  /\ read' = 0
  /\ taken' = Empty
  /\ UNCHANGED <<backend, database, known>>

Next ==
  \/ InsertPostgres
  \/ \E c \in Command : InsertSqlite(c) \/ InsertState(c) \/ StateFails(c)
  \/ Connect \/ Read \/ WriteTemporary \/ SyncTemporary \/ Rename \/ Serve
  \/ StartOnSnapshot
  \/ Stop \/ WriteBack \/ PowerLoss

Spec == Init /\ [][Next]_vars

-----------------------------------------------------------------------------
(* Properties *)

(* candidates joins a route with its state row and that of its account: without *)
(* them the route is never used, and its command cannot be repeated. What a     *)
(* command has reported as created is usable, and with PostgreSQL whatever is   *)
(* there is, also after a lost connection.                                      *)
RowsAreUsable ==
  (IF backend = "postgres" THEN rows ELSE created) \intersect Stateful \subseteq stated

(* A snapshot that is saved or served has the states of all of its routes and   *)
(* of their accounts, although it is read while commands create them. A route   *)
(* without one is closed to SnapshotRepository, and a failure does not open it. *)
SnapshotIsWhole ==
  \A data \in {known} \union (IF file = None THEN {} ELSE {file.data}) :
    \A r \in data["routes"] :
      /\ r \in data["route_states"]
      /\ References[r] \intersect Account \subseteq data["account_states"]

(* Once a process has served, there is a snapshot that load accepts, after a    *)
(* crash at any step of save, and whatever rows are named. After a power loss   *)
(* it is so unless the directory was not written back since that process saved  *)
(* its snapshot.                                                                *)
SnapshotIsLoadable ==
  (known # Empty /\ ~ reverted) \/ stable # None => Loadable(file)

(* A process that starts to serve from PostgreSQL knows every key, route and    *)
(* fallback that the last one did. One that starts on the snapshot does unless  *)
(* a power loss has undone the last rename, which no step of save syncs: any    *)
(* other outage takes nothing back.                                             *)
NothingForgotten ==
  [][phase \notin {"primary", "snapshot"} /\ phase' \in {"primary", "snapshot"} =>
       \/ phase' = "snapshot" /\ reverted
       \/ \A part \in Part : known[part] \subseteq taken'[part]]_vars
=============================================================================
