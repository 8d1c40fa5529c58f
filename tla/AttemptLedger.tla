--------------------------- MODULE AttemptLedger ---------------------------
(***************************************************************************)
(* What the gateway promises of its record of attempts: the ledger of the  *)
(* primary repository holds one outcome per attempt, which only ever moves *)
(* from committed to a terminal streaming outcome, and an entry that is    *)
(* owed to the ledger is owed until the ledger covers it. Delivery is at   *)
(* least once, in any order, and an entry may reach the ledger unheard.    *)
(***************************************************************************)
CONSTANT Attempt

VARIABLES
  recorded,   \* the outcome of every attempt in the primary repository
  owed        \* the entries accepted locally and not yet acknowledged

Streamed == {"succeeded", "partial_failed", "cancelled"}
Outcome  == {"failed", "committed"} \union Streamed
Entry    == [attempt : Attempt, outcome : Outcome]

Init ==
  /\ recorded = [a \in Attempt |-> "absent"]
  /\ owed = {}

(* The next outcome of an attempt: its first one, or the end of a stream. *)
Follows(before, after) ==
  \/ before = "absent"
  \/ before = "committed" /\ after \in Streamed

(* An entry that has been recorded, or that the recorded outcome supersedes. *)
Covers(e) ==
  recorded[e.attempt] # "absent" /\ ~ Follows(recorded[e.attempt], e.outcome)

(* An entry reaches the ledger. *)
Record(a, outcome) ==
  /\ Follows(recorded[a], outcome)
  /\ recorded' = [recorded EXCEPT ![a] = outcome]
  /\ UNCHANGED owed

(* An entry is put aside, and may have reached the ledger all the same. *)
Owe(e) ==
  /\ owed' = owed \union {e}
  /\ \/ recorded' = recorded
     \/ /\ Follows(recorded[e.attempt], e.outcome)
        /\ recorded' = [recorded EXCEPT ![e.attempt] = e.outcome]

(* Entries the ledger covers are owed no longer. *)
Acknowledge(entries) ==
  /\ \A e \in entries : Covers(e)
  /\ owed' = owed \ entries
  /\ UNCHANGED recorded

Next ==
  \/ \E a \in Attempt, o \in Outcome : Record(a, o)
  \/ \E e \in Entry : Owe(e)
  \/ \E entries \in SUBSET owed : Acknowledge(entries)

Spec == Init /\ [][Next]_<<recorded, owed>>
=============================================================================
