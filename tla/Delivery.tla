------------------------------ MODULE Delivery ------------------------------
(***************************************************************************)
(* What the outbox promises to a guest: an event of his reservation is     *)
(* told until it has been delivered, or refused as often as it may be      *)
(* tried, and then never again. There are no rows, ids, batches or workers *)
(* here. It may be delivered more than once while it is waiting.           *)
(***************************************************************************)
EXTENDS Integers

CONSTANTS References, MaxAttempts

VARIABLES
    status,         \* of each event
    delivered,      \* how often it was delivered
    refused         \* how often the sender refused it

vars == <<status, delivered, refused>>

Events == References \X {"confirmed", "cancelled"}

Confirmation(e) == <<e[1], "confirmed">>

Init ==
    /\ status = [e \in Events |-> "not yet"]
    /\ delivered = [e \in Events |-> 0]
    /\ refused = [e \in Events |-> 0]

\* A reservation is confirmed, and perhaps cancelled later: each happens once.
Happen(e) ==
    /\ status[e] = "not yet"
    /\ e # Confirmation(e) => status[Confirmation(e)] # "not yet"
    /\ status' = [status EXCEPT ![e] = "waiting"]
    /\ UNCHANGED <<delivered, refused>>

Deliver(e) ==
    /\ status[e] = "waiting"
    /\ delivered' = [delivered EXCEPT ![e] = @ + 1]
    /\ UNCHANGED <<status, refused>>

Refuse(e) ==
    /\ status[e] = "waiting"
    /\ refused' = [refused EXCEPT ![e] = @ + 1]
    /\ UNCHANGED <<status, delivered>>

\* An event is settled for a reason: it was delivered, or refused often enough.
MaySettle(e, as) ==
    /\ status[e] = "waiting"
    /\ \/ as = "delivered" /\ delivered[e] > 0
       \/ as = "given up" /\ refused[e] >= MaxAttempts

\* A worker's commit settles some events at once.
Settle ==
    /\ status' \in [Events -> {"not yet", "waiting", "delivered", "given up"}]
    /\ \A e \in Events : status'[e] # status[e] => MaySettle(e, status'[e])
    /\ UNCHANGED <<delivered, refused>>

Next ==
    \/ Settle
    \/ \E e \in Events : Happen(e) \/ Deliver(e) \/ Refuse(e)

Spec == Init /\ [][Next]_vars
=============================================================================
