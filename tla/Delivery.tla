------------------------------ MODULE Delivery ------------------------------
(***************************************************************************)
(* What the outbox promises its callers, without attempts, leases or       *)
(* processes: the messages of a pull request become visible in the order   *)
(* they were handed over, each at most once, and a message reported as     *)
(* delivered is visible.  Outbox implements it (Outbox!ImplementsDelivery).*)
(***************************************************************************)
EXTENDS Integers

CONSTANTS Keys, PRof

VARIABLES
    outcome,  \* what the caller can read about each message
    place,    \* its position in the order of hand-over
    visible   \* published comments: pairs of a message and a remote id

vars == <<outcome, place, visible>>

Resolved(k) == outcome[k] \in {"delivered", "dropped"}

Before(j, k) ==
    outcome[j] # "none" /\ PRof[j] = PRof[k] /\ place[j] < place[k]

Init ==
    /\ outcome = [k \in Keys |-> "none"]
    /\ place = [k \in Keys |-> 0]
    /\ visible = {}

\* A message is handed over behind all those handed over before it.
HandOver(k) ==
    /\ outcome[k] = "none"
    /\ outcome' = [outcome EXCEPT ![k] = "waiting"]
    /\ \A j \in Keys : outcome[j] # "none" => place[j] < place'[k]
    /\ place' = [place EXCEPT ![k] = place'[k]]
    /\ UNCHANGED visible

\* One comment appears, once, when everything before it is resolved.
Publish(k) ==
    /\ outcome[k] = "waiting"
    /\ \A j \in Keys : Before(j, k) => Resolved(j)
    /\ \A c \in visible : c[1] # k
    /\ \E c \in visible' : c[1] = k /\ visible' = visible \cup {c}
    /\ UNCHANGED <<outcome, place>>

\* Only a visible message is reported as delivered.
Deliver(k) ==
    /\ outcome[k] = "waiting"
    /\ \E c \in visible : c[1] = k
    /\ outcome' = [outcome EXCEPT ![k] = "delivered"]
    /\ UNCHANGED <<place, visible>>

\* Superseded, closed or stale.
Discard(k) ==
    /\ outcome[k] = "waiting"
    /\ outcome' = [outcome EXCEPT ![k] = "dropped"]
    /\ UNCHANGED <<place, visible>>

Next == \E k \in Keys : HandOver(k) \/ Publish(k) \/ Deliver(k) \/ Discard(k)

Spec == Init /\ [][Next]_vars
=============================================================================
