-------------------------- MODULE OutboxInvariant --------------------------
(***************************************************************************)
(* The inductive invariants of Outbox: what a worker knows of the rows it  *)
(* has locked, and how deliveries and refusals are accounted for between a *)
(* send and the commit that marks it.                                      *)
(***************************************************************************)
EXTENDS Outbox

Published(i) == messages[i] # None /\ messages[i].published

\* No row is locked by two workers: SKIP LOCKED.
ClaimsExclusive ==
    \A v, w \in Workers : v # w => claimed[v] \cap claimed[w] = {}

\* What a worker has claimed is still as its claim found it, because the rows
\* are locked, and it marks nothing else.
WorkerInv(w) ==
    /\ pc[w] \in {"claim", "wait"} => scan[w] = {} /\ claimed[w] = {}
    /\ pc[w] # "send" => sent[w] = {} /\ failed[w] = {}
    /\ sent[w] \cup failed[w] \subseteq claimed[w]
    /\ sent[w] \cap failed[w] = {}
    /\ \A i \in claimed[w] : Eligible(i)
    /\ \A i \in scan[w] : messages[i] # None

\* An id is given to one transaction, and no row has it before that commits.
IdsInv ==
    /\ \A i \in Ids : messages[i] # None => i < nextId
    /\ \A r \in References : inflight[r] # None =>
         /\ inflight[r] < nextId
         /\ messages[inflight[r]] = None
         /\ \A s \in References \ {r} : inflight[s] # inflight[r]

\* Between a send and its mark a message has been delivered once more than the
\* aborts of dispatches explain, and a refusal counts as an attempt once it is
\* marked.
Accounts(i) ==
    LET marking == \E w \in Workers : i \in sent[w]
        failing == \E w \in Workers : i \in failed[w]
    IN  /\ delivered[i] <= IF Published(i) \/ marking THEN aborts + 1 ELSE aborts
        /\ Published(i) \/ marking => delivered[i] > 0
        /\ messages[i] = None => delivered[i] = 0
        /\ messages[i] # None =>
             IF failing THEN messages[i].attempts < failures[i]
                        ELSE messages[i].attempts <= failures[i]

\* An event has one message, a cancellation comes after its confirmation, and
\* while a transaction is open its reservation is not cancelled yet.
EventsInv ==
    /\ \A i, j \in Ids :
         (/\ messages[i] # None /\ messages[j] # None
          /\ messages[i].reservation = messages[j].reservation
          /\ messages[i].type = messages[j].type) => i = j
    /\ \A r \in References : IdsOf(<<r, "cancelled">>) # {} => IdsOf(<<r, "confirmed">>) # {}
    /\ \A r \in References : inflight[r] # None => IdsOf(<<r, "cancelled">>) = {}
    /\ \A i \in Ids : messages[i] = None => failures[i] = 0

\* What keeps workers apart and their deliveries counted.
WorkInv ==
    /\ TypeOK
    /\ ClaimsExclusive
    /\ \A w \in Workers : WorkerInv(w)
    /\ IdsInv
    /\ \A i \in Ids : Accounts(i)

\* The invariant of any number of workers, of outbox.go and dispatcher.go: the
\* safety properties of Outbox, and its refinement of Delivery, follow from it.
Inv == WorkInv /\ EventsInv

-----------------------------------------------------------------------------
(* The order of two messages of a reservation, with one worker *)

Tried(i) == delivered[i] > 0 \/ failures[i] > 0

\* i confirms the reservation that j cancels.
Before(i, j) ==
    /\ messages[i] # None /\ messages[i].type = "confirmed"
    /\ messages[j] # None /\ messages[j].type = "cancelled"
    /\ messages[i].reservation = messages[j].reservation

\* Ids of a reservation's events are in the order in which they happened.
EventsInOrder ==
    /\ \A i, j \in Ids : Before(i, j) => i < j
    /\ \A r \in References : inflight[r] # None =>
         \A i \in Committed(r) : i < inflight[r]

\* The worker does not come to a cancellation before its confirmation: it is
\* tried already, or further on in the work of the same dispatch.
OrderInv ==
    /\ EventsInOrder
    /\ \A i, j \in Ids : Before(i, j) =>
         /\ delivered[j] > 0 => Tried(i)
         /\ \A w \in Workers :
              /\ j \in claimed[w] => Tried(i) \/ i \in claimed[w]
              /\ j \in scan[w] => Tried(i) \/ i \in claimed[w] \/ i \in scan[w]
=============================================================================
