---------------------------- MODULE RouteCircuit ----------------------------
(***************************************************************************)
(* What a store promises of the circuit of the routes, whoever keeps it    *)
(* and however many processes and requests use it: a request chooses among *)
(* the routes that are closed or due at one reading of the circuit; a      *)
(* route becomes half_open only by a probe, for a request that may choose  *)
(* it, while it is due and no other probe has it on lease; and only a      *)
(* request that was offered a route gives a verdict on it.                 *)
(*                                                                         *)
(* It does not promise that what was offered stays eligible: routes may    *)
(* open, close and be blocked while a request goes through its offer.      *)
(***************************************************************************)
CONSTANTS Request, Route, AccountOf

VARIABLES
  state,      \* the circuit of every route
  due,        \* the routes whose retry time has come
  blocked,    \* the accounts that are blocked
  leased,     \* the routes that a probe has on lease
  offered,    \* the routes that every request may still use
  elsewhere   \* the routes that another store, of which nothing is promised here,
              \* may offer to every request in place of this one

circuit == <<state, due, blocked>>
vars    == <<circuit, leased, offered>>

States == {"closed", "open", "half_open"}

Init ==
  /\ state \in [Route -> States]
  /\ due \subseteq Route
  /\ blocked = {}
  /\ leased \subseteq {r \in Route : state[r] = "half_open"}
  /\ offered = [q \in Request |-> {}]
  /\ elsewhere \in [Request -> SUBSET Route]

(* The routes that may be offered: an account that is not blocked, and a       *)
(* circuit that is closed or due.                                              *)
Usable ==
  {r \in Route : AccountOf[r] \notin blocked /\ (state[r] = "closed" \/ r \in due)}

(* A request that has no offer yet reads the circuit. *)
Choice(q) == IF offered[q] = {} THEN Usable ELSE offered[q]

Keeps(q, routes) ==
  \E left \in SUBSET routes : offered' = [offered EXCEPT ![q] = left]

(* A request is offered routes, or is done with some of them. *)
Offer(q) ==
  /\ Keeps(q, Choice(q)) \/ Keeps(q, elsewhere[q])
  /\ UNCHANGED <<circuit, leased>>

(* A request takes a due route to half_open. Its account is not looked at again. *)
Probe(q, r) ==
  /\ r \in Choice(q) \cap due
  /\ state[r] # "closed"
  /\ r \notin leased
  /\ state' = [state EXCEPT ![r] = "half_open"]
  /\ leased' = leased \union {r}
  /\ Keeps(q, Choice(q))
  /\ UNCHANGED <<due, blocked>>

(* A request gives its verdict on a route or on the route's account. *)
Judge(q, r) ==
  /\ r \in offered[q]
  /\ \/ /\ \E verdict \in {"closed", "open"} : state' = [state EXCEPT ![r] = verdict]
        /\ due' \in {due \ {r}, due \union {r}}
        /\ leased' \in {leased, leased \ {r}}
        /\ UNCHANGED blocked
     \/ /\ blocked' = blocked \union {AccountOf[r]}
        /\ UNCHANGED <<state, due, leased>>
  /\ Keeps(q, offered[q])

(* After its verdict a request gives back a lease, on any route of that account. *)
Release(q, r, s) ==
  /\ r \in offered[q]
  /\ AccountOf[s] = AccountOf[r]
  /\ leased' = leased \ {s}
  /\ Keeps(q, offered[q])
  /\ UNCHANGED circuit

(* Requests are lost with their process. *)
Lose(lost) ==
  /\ offered' = [q \in Request |-> IF q \in lost THEN {} ELSE offered[q]]
  /\ UNCHANGED <<circuit, leased>>

(* Retry times come and leases expire. *)
Time ==
  /\ due \subseteq due' /\ due' \subseteq Route
  /\ leased' \subseteq leased
  /\ UNCHANGED <<state, blocked, offered>>

Next ==
  \/ \E q \in Request :
       \/ Offer(q)
       \/ \E r \in Route : Probe(q, r) \/ Judge(q, r) \/ \E s \in Route : Release(q, r, s)
  \/ \E lost \in SUBSET Request : Lose(lost)
  \/ Time

Spec == Init /\ [][Next]_vars
=============================================================================
