------------------------------ MODULE AtLeastOnce ------------------------------
(***************************************************************************)
(* What TekDocs' dispatchers promise about the items they deliver          *)
(* (outbox events, webhook calls, notification mail): a promised item is   *)
(* handed over at least once before it counts as delivered, a finished     *)
(* item is never handed over again, and only an operator revives a dead    *)
(* one.  No batches, workers, attempts, leases or clocks.                  *)
(*                                                                         *)
(* A dispatcher commits whole batches, so several items move in one step.  *)
(***************************************************************************)
CONSTANT Item

VARIABLES
    state,      \* absent, pending, delivered, dead_letter or suppressed
    received    \* items the other side has received, perhaps more than once

promise == <<state, received>>

State == {"absent", "pending", "delivered", "dead_letter", "suppressed"}

Init ==
    /\ state = [i \in Item |-> "absent"]
    /\ received = {}

\* The moves an item's row may make.
Allowed(i, new) ==
    \/ new = state[i]
    \/ state[i] = "absent" /\ new = "pending"
    \/ state[i] = "pending" /\ new \in {"dead_letter", "suppressed"}
    \/ state[i] = "pending" /\ new = "delivered" /\ i \in received
    \/ state[i] = "dead_letter" /\ new = "pending"

Move ==
    /\ state' \in [Item -> State]
    /\ \A i \in Item : Allowed(i, state'[i])
    /\ UNCHANGED received

\* One call or mail may carry several items.
HandOver(items) ==
    /\ \A i \in items : state[i] = "pending"
    /\ received' = received \cup items
    /\ UNCHANGED state

Next == Move \/ \E items \in SUBSET Item : HandOver(items)

Spec == Init /\ [][Next]_promise

=============================================================================
