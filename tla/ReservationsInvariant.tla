----------------------- MODULE ReservationsInvariant -----------------------
(***************************************************************************)
(* The inductive invariant of Reservations: what a transaction knows at    *)
(* each of its statements, and why what it knows stays true until its      *)
(* commit - the rows it relies on are locked by it alone.                  *)
(***************************************************************************)
EXTENDS Reservations

\* The request that p serves is of the kind its next statement belongs to.
RequestFits(p) ==
    /\ pc[p] \in {"claim", "replay", "guest", "new", "create"} => req[p] \in ReserveRequest
    /\ pc[p] \in {"read", "mark", "release"} => req[p] \in CancelRequest
    /\ pc[p] = "lock" => req[p] \in Request
    /\ pc[p] = "commit" => req[p] \in ReserveRequest \cup CancelRequest

Reserving(p) ==
    /\ pc[p] \in {"guest", "new", "lock", "create", "commit"}
    /\ req[p] \in ReserveRequest

Cancelling(p) ==
    /\ pc[p] \in {"mark", "release", "lock", "commit"}
    /\ req[p] \in CancelRequest

\* A request that holds a key is the only one for it, and its key is new.
KeyHeld(p) ==
    /\ Reserving(p) => /\ KeyLock(req[p].key) \in held[p]
                       /\ keys[req[p].key] = None
    /\ pc[p] = "replay" => keys[req[p].key] # None /\ SameRequest(p)

\* What a request that books has put in its reservation.
Booking(p) ==
    (Reserving(p) /\ pc[p] \in {"lock", "create", "commit"}) =>
        /\ res[p] = [body |-> req[p].body, status |-> "confirmed", cancelledAt |-> None]
        /\ ref[p] \in References
        /\ pc[p] = "commit" => /\ ReferenceLock(ref[p]) \in held[p]
                               /\ reservations[ref[p]] = None

\* What a request that cancels has read is still there, and once marked, still
\* confirmed for everyone else.
CancelRead(p) ==
    Cancelling(p) =>
        /\ res[p] \in Reservation
        /\ res[p].status = "cancelled"
        /\ res[p].cancelledAt \in Nat
        /\ res[p].cancelledAt < CheckInTime(res[p].body)
        /\ res[p].cancelledAt <= now
        /\ ref[p] = req[p].reference
        /\ reservations[ref[p]] # None
        /\ reservations[ref[p]].body = res[p].body
        /\ pc[p] # "mark" => /\ ReferenceLock(ref[p]) \in held[p]
                             /\ reservations[ref[p]].status = "confirmed"

\* The rows that p has locked: nights of its stay that exist, and all of them
\* once reserveSQL has been accepted.
RowsHeld(p) ==
    /\ pc[p] \notin {"lock", "create", "commit"} => LockedRows(p) = {}
    /\ (pc[p] = "lock" /\ req[p].op # "publish") =>
           LockedRows(p) \cup todo[p] \subseteq Nights(res[p].body) \cap published
    /\ (pc[p] = "lock" /\ req[p].op = "cancel") =>
           LockedRows(p) \cup todo[p] = Nights(res[p].body)
    /\ pc[p] \in {"create", "commit"} =>
           /\ LockedRows(p) = Nights(res[p].body)
           /\ LockedRows(p) \subseteq published
           /\ writes[p] = [row \in LockedRows(p) |-> booked[row] + Delta(p)]
           /\ \A row \in LockedRows(p) : NotOversold(booked[row] + Delta(p), allotment[row])

\* No two transactions hold the same lock.
LocksExclusive ==
    \A p, q \in Procs : p # q => held[p] \cap held[q] = {}

RowsConsistent ==
    \A row \in Rows : NotOversold(booked[row], allotment[row])

\* The nights of every reservation were published, and stay so.
StaysPublished ==
    \A r \in References : reservations[r] # None =>
        Nights(reservations[r].body) \subseteq published

ProcInv(p) == RequestFits(p) /\ KeyHeld(p) /\ Booking(p) /\ CancelRead(p) /\ RowsHeld(p)

TablesInv == RowsConsistent /\ StaysPublished /\ BookedCountsReservations

\* The invariant of the transactions of internal/app and of the tables they
\* write: the properties of Reservations about inventory follow from it.
Inv == TypeOK /\ (\A p \in Procs : ProcInv(p)) /\ LocksExclusive /\ TablesInv

-----------------------------------------------------------------------------
(* The order of the locks *)

\* The locks that p holds at each of its statements, rows of inventory apart: a
\* key from its claim on, a guest from the upsert on, and a reference from the
\* insert of its reservation to the commit, or from marking it cancelled.
LocksFit(p) ==
    /\ \A k \in Keys : KeyLock(k) \in held[p] =>
           pc[p] \in {"guest", "new", "lock", "create", "commit"}
    /\ \A g \in Guests : GuestLock(g) \in held[p] =>
           pc[p] \in {"new", "lock", "create", "commit"}
    /\ \A r \in References : ReferenceLock(r) \in held[p] =>
           /\ r = ref[p]
           /\ \/ pc[p] = "commit"
              \/ pc[p] \in {"release", "lock"} /\ req[p] \in CancelRequest

\* The rows of a statement are of one room type, and those it has locked are of
\* earlier dates than those it has still to lock.
RowsInOrder(p) ==
    pc[p] = "lock" => \A other \in todo[p] :
        /\ \A row \in LockedRows(p) \cup todo[p] : row[1] = other[1]
        /\ \A row \in LockedRows(p) : row[2] < other[2]

\* Every transaction takes its locks in one order: key, guest, rows by date,
\* reference; but a cancel starts with its reference. OnlyCollisionsDeadlock
\* follows from it.
LocksInOrder == \A p \in Procs : LocksFit(p) /\ RowsInOrder(p)
=============================================================================
