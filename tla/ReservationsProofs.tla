------------------------- MODULE ReservationsProofs -------------------------
(***************************************************************************)
(* Inv is an invariant of Reservations, for any number of requests, keys,  *)
(* rooms and nights, and inventory is never oversold.                      *)
(***************************************************************************)
EXTENDS ReservationsInvariant, Orders

-----------------------------------------------------------------------------
(* Rows and locks *)

\* The nights of a stay are rows of inventory.
LEMMA NightsAreRows == ASSUME NEW b \in Bodies PROVE Nights(b) \subseteq Rows
BY BodiesAssumption DEF Nights, Rows

\* A stay has as many nights as Stay.Nights() says, check out less check in.
LEMMA NightsCount ==
    ASSUME NEW b \in Bodies
    PROVE  IsFiniteSet(Nights(b)) /\ Cardinality(Nights(b)) = b.checkOut - b.checkIn
<1> DEFINE dates == b.checkIn .. (b.checkOut - 1)
<1>1. IsFiniteSet(dates) /\ Cardinality(dates) = b.checkOut - b.checkIn
  BY FS_Interval, BodiesAssumption
<1>2. IsFiniteSet({b.roomType}) /\ Cardinality({b.roomType}) = 1
  BY FS_Singleton
<1>3. IsFiniteSet({b.roomType} \X dates)
      /\ Cardinality({b.roomType} \X dates) = Cardinality({b.roomType}) * Cardinality(dates)
  BY <1>1, <1>2, FS_Product, Zenon
<1>4. b.checkOut - b.checkIn \in Int
  BY BodiesAssumption
<1> HIDE DEF dates
<1>5. Cardinality({b.roomType}) * Cardinality(dates) = b.checkOut - b.checkIn
  BY <1>1, <1>2, <1>4
<1> QED
  BY <1>3, <1>5 DEF Nights, dates

\* A statement that locked as many nights as its stay has, has locked them all:
\* what the comparison with RowsAffected in move() is for.
LEMMA AllNights ==
    ASSUME NEW b \in Bodies, NEW rows \in SUBSET Nights(b),
           Cardinality(rows) = b.checkOut - b.checkIn
    PROVE  rows = Nights(b)
BY NightsCount, FS_Subset

\* Locks of different tables are different.
LEMMA LockKinds ==
    /\ \A k, g : KeyLock(k) # GuestLock(g)
    /\ \A k, r : KeyLock(k) # ReferenceLock(r)
    /\ \A k, row : KeyLock(k) # RowLock(row)
    /\ \A g, row : GuestLock(g) # RowLock(row)
    /\ \A r, row : ReferenceLock(r) # RowLock(row)
    /\ \A row, other : RowLock(row) = RowLock(other) => row = other
BY DEF KeyLock, GuestLock, ReferenceLock, RowLock

\* The parts of a request say which operation it is.
LEMMA Operations ==
    /\ \A r \in ReserveRequest : r.op = "reserve" /\ r.key \in Keys /\ r.body \in Bodies
                                 /\ r \notin CancelRequest /\ r \notin PublishRequest
    /\ \A r \in CancelRequest : r.op = "cancel" /\ r.reference \in References
                                /\ r \notin ReserveRequest /\ r \notin PublishRequest
    /\ \A r \in PublishRequest : r.op = "publish" /\ r.input \in PublishInputs
                                 /\ r \notin ReserveRequest /\ r \notin CancelRequest
    /\ \A r \in Request : r \in ReserveRequest \/ r \in CancelRequest \/ r \in PublishRequest
BY DEF ReserveRequest, CancelRequest, PublishRequest, Request

-----------------------------------------------------------------------------
(* Steps that leave the tables as they are *)

\* The variables of a request that another one's step does not touch.
Untouched(q) ==
    /\ pc'[q] = pc[q] /\ req'[q] = req[q] /\ res'[q] = res[q] /\ ref'[q] = ref[q]
    /\ held'[q] = held[q] /\ todo'[q] = todo[q] /\ writes'[q] = writes[q]

\* What the tables satisfy does not depend on the requests.
LEMMA TablesKept ==
    ASSUME TablesInv, UNCHANGED database
    PROVE  TablesInv'
BY DEF TablesInv, RowsConsistent, StaysPublished, BookedCountsReservations, Occupants, database,
       Rows, Nights, NotOversold

\* While the tables stay and the clock does not go back, the invariant of a
\* request that does not move stays.
LEMMA ProcKept ==
    ASSUME NEW q \in Procs, ProcInv(q), Untouched(q), UNCHANGED database,
           now \in Nat, now' \in Nat, now <= now'
    PROVE  ProcInv(q)'
<1>1. LockedRows(q)' = LockedRows(q) /\ Delta(q)' = Delta(q) /\ SameRequest(q)' = SameRequest(q)
  BY DEF Untouched, LockedRows, Delta, SameRequest, database, Rows, RowLock
<1>2. RequestFits(q)'
  BY DEF ProcInv, RequestFits, Untouched
<1>3. Reserving(q)' = Reserving(q) /\ Cancelling(q)' = Cancelling(q)
  BY DEF Reserving, Cancelling, Untouched
<1>4. KeyHeld(q)'
  BY <1>1, <1>3 DEF ProcInv, KeyHeld, Untouched, database, KeyLock
<1>5. Booking(q)'
  BY <1>3 DEF ProcInv, Booking, Untouched, database, ReferenceLock
<1>6. CancelRead(q)'
  <2> SUFFICES ASSUME Cancelling(q) PROVE CancelRead(q)'
    BY <1>3 DEF CancelRead
  <2>1. CancelRead(q)
    BY DEF ProcInv
  <2> QED
    BY <2>1, <1>3 DEF CancelRead, Untouched, database, ReferenceLock, CheckInTime, Reservation
<1>7. RowsHeld(q)'
  <2>1. RowsHeld(q)
    BY DEF ProcInv
  <2> QED
    BY <2>1, <1>1 DEF RowsHeld, Untouched, database, Nights, NotOversold
<1> QED
  BY <1>2, <1>4, <1>5, <1>6, <1>7 DEF ProcInv

\* A step of p that writes no table preserves Inv when it leaves p well and
\* takes no lock that another request holds.
LEMMA QuietStep ==
    ASSUME Inv, NEW p \in Procs, UNCHANGED database, UNCHANGED now,
           \A q \in Procs \ {p} : Untouched(q) /\ held'[p] \cap held[q] = {},
           TypeOK', ProcInv(p)'
    PROVE  Inv'
<1>1. \A q \in Procs : ProcInv(q)'
  <2> SUFFICES ASSUME NEW q \in Procs \ {p} PROVE ProcInv(q)'
    OBVIOUS
  <2> QED
    BY ProcKept DEF Inv, TypeOK
<1>2. LocksExclusive'
  BY DEF LocksExclusive, Untouched, Inv
<1> QED
  BY <1>1, <1>2, TablesKept DEF Inv

\* A transaction that has ended holds nothing and serves nobody.
LEMMA EndTxInv ==
    ASSUME Inv, NEW p \in Procs, EndTx(p)
    PROVE  /\ ProcInv(p)'
           /\ \A q \in Procs \ {p} : Untouched(q) /\ held'[p] \cap held[q] = {}
           /\ pc' \in [Procs -> Labels] /\ req' \in [Procs -> Request \cup {None}]
           /\ res' \in [Procs -> Reservation \cup {None}]
           /\ ref' \in [Procs -> References \cup {None}]
           /\ held' \in [Procs -> SUBSET Resources] /\ todo' \in [Procs -> SUBSET Rows]
           /\ DOMAIN writes' = Procs
           /\ \A q \in Procs : /\ DOMAIN writes'[q] \subseteq Rows
                               /\ \A row \in DOMAIN writes'[q] : writes'[q][row] \in Int
           /\ held' = [held EXCEPT ![p] = {}]
<1> USE DEF Inv, TypeOK
<1>1. pc'[p] = "idle" /\ held'[p] = {}
  BY DEF EndTx, Goto
<1>2. LockedRows(p)' = {}
  BY <1>1 DEF LockedRows
<1>3. ProcInv(p)'
  BY <1>1, <1>2 DEF ProcInv, RequestFits, KeyHeld, Booking, CancelRead, RowsHeld, Reserving,
                    Cancelling
<1>4. \A q \in Procs \ {p} : Untouched(q) /\ held'[p] \cap held[q] = {}
  BY <1>1 DEF EndTx, Goto, Untouched
<1>5. /\ DOMAIN writes' = Procs
      /\ \A q \in Procs : /\ DOMAIN writes'[q] \subseteq Rows
                          /\ \A row \in DOMAIN writes'[q] : writes'[q][row] \in Int
  BY DEF EndTx, NoWrites
<1> QED
  BY <1>3, <1>4, <1>5 DEF EndTx, Goto, Labels

\* A rollback, at whatever statement, preserves Inv.
LEMMA RollbackInv ==
    ASSUME Inv, NEW p \in Procs, Rollback(p)
    PROVE  Inv'
<1>1. EndTx(p) /\ UNCHANGED database /\ UNCHANGED now /\ UNCHANGED answers
  BY DEF Rollback
<1>2. TypeOK'
  BY <1>1, EndTxInv DEF Inv, TypeOK, database
<1> QED
  BY <1>1, <1>2, EndTxInv, QuietStep

\* A request arrives.
LEMMA ArriveInv ==
    ASSUME Inv, NEW p \in Procs, Arrive(p)
    PROVE  Inv'
<1>1. CASE ArriveReserve(p)
  <2>1. PICK k \in Keys, b \in Bodies :
            req' = [req EXCEPT ![p] = [op |-> "reserve", key |-> k, body |-> b]]
    BY <1>1 DEF ArriveReserve
  <2>2. req'[p] \in ReserveRequest /\ pc'[p] = "claim"
    BY <1>1, <2>1 DEF ArriveReserve, Goto, ReserveRequest, Inv, TypeOK
  <2>3. LockedRows(p)' = {}
    BY <1>1 DEF ArriveReserve, LockedRows, Inv, ProcInv, RowsHeld
  <2>4. ProcInv(p)'
    BY <2>2, <2>3 DEF ProcInv, RequestFits, KeyHeld, Booking, CancelRead, RowsHeld, Reserving,
                      Cancelling
  <2>5. TypeOK'
    BY <1>1, <2>1, <2>2 DEF ArriveReserve, Goto, Inv, TypeOK, database, Labels, Request
  <2>6. \A q \in Procs \ {p} : Untouched(q) /\ held'[p] \cap held[q] = {}
    BY <1>1, <2>1 DEF ArriveReserve, Goto, Untouched, Inv, TypeOK, LocksExclusive
  <2> QED
    BY <1>1, <2>4, <2>5, <2>6, QuietStep DEF ArriveReserve
<1>2. CASE ArriveCancel(p)
  <2>1. PICK r \in References : req' = [req EXCEPT ![p] = [op |-> "cancel", reference |-> r]]
    BY <1>2 DEF ArriveCancel
  <2>2. req'[p] \in CancelRequest /\ pc'[p] = "read"
    BY <1>2, <2>1 DEF ArriveCancel, Goto, CancelRequest, Inv, TypeOK
  <2>3. LockedRows(p)' = {}
    BY <1>2 DEF ArriveCancel, LockedRows, Inv, ProcInv, RowsHeld
  <2>4. ProcInv(p)'
    BY <2>2, <2>3 DEF ProcInv, RequestFits, KeyHeld, Booking, CancelRead, RowsHeld, Reserving,
                      Cancelling
  <2>5. TypeOK'
    BY <1>2, <2>1, <2>2 DEF ArriveCancel, Goto, Inv, TypeOK, database, Labels, Request
  <2>6. \A q \in Procs \ {p} : Untouched(q) /\ held'[p] \cap held[q] = {}
    BY <1>2, <2>1 DEF ArriveCancel, Goto, Untouched, Inv, TypeOK, LocksExclusive
  <2> QED
    BY <1>2, <2>4, <2>5, <2>6, QuietStep DEF ArriveCancel
<1>3. CASE ArrivePublish(p)
  <2>1. PICK i \in PublishInputs :
            /\ req' = [req EXCEPT ![p] = [op |-> "publish", input |-> i]]
            /\ todo' = [todo EXCEPT ![p] = PublishRows(i)]
    BY <1>3 DEF ArrivePublish
  <2>2. req'[p] \in PublishRequest /\ pc'[p] = "lock"
    BY <1>3, <2>1 DEF ArrivePublish, Goto, PublishRequest, Inv, TypeOK
  <2>3. PublishRows(i) \subseteq Rows
    BY PublishAssumption DEF PublishRows, Rows
  <2>4. ProcInv(p)'
    <3>1. req'[p] \in Request /\ req'[p].op = "publish"
          /\ req'[p] \notin ReserveRequest /\ req'[p] \notin CancelRequest
      BY <2>2, Operations DEF Request
    <3> QED
      BY <2>2, <3>1 DEF ProcInv, RequestFits, KeyHeld, Booking, CancelRead, RowsHeld,
                        Reserving, Cancelling
  <2>5. TypeOK'
    BY <1>3, <2>1, <2>2, <2>3 DEF ArrivePublish, Goto, Inv, TypeOK, database, Labels, Request
  <2>6. \A q \in Procs \ {p} : Untouched(q) /\ held'[p] \cap held[q] = {}
    BY <1>3, <2>1 DEF ArrivePublish, Goto, Untouched, Inv, TypeOK, LocksExclusive
  <2> QED
    BY <1>3, <2>4, <2>5, <2>6, QuietStep DEF ArrivePublish
<1> QED
  BY <1>1, <1>2, <1>3 DEF Arrive

-----------------------------------------------------------------------------
(* The statements that lock *)

\* Taking a free lock.
LEMMA LockTaken ==
    ASSUME Inv, NEW p \in Procs, NEW resource \in Resources, Lock(p, resource)
    PROVE  /\ held' \in [Procs -> SUBSET Resources]
           /\ held'[p] = held[p] \cup {resource}
           /\ \A q \in Procs \ {p} : held'[q] = held[q] /\ held'[p] \cap held[q] = {}
BY DEF Lock, Free, Inv, TypeOK, LocksExclusive

\* The lock of a key, a guest or a reference adds no inventory row.
LEMMA SameRows ==
    ASSUME Inv, NEW p \in Procs, NEW resource, held'[p] = held[p] \cup {resource},
           \A row \in Rows : resource # RowLock(row)
    PROVE  LockedRows(p)' = LockedRows(p)
BY DEF LockedRows, Rows, RowLock

\* A request that is not at its inventory rows yet holds none of them.
LEMMA NoRowsYet ==
    ASSUME Inv, NEW p \in Procs, pc[p] \notin {"lock", "create", "commit"}
    PROVE  LockedRows(p) = {}
BY DEF Inv, ProcInv, RowsHeld

\* The key of a reserve request, fresh, reused or replayed.
LEMMA ClaimInv ==
    ASSUME Inv, NEW p \in Procs, Claim(p)
    PROVE  Inv'
<1> DEFINE k == req[p].key
<1>1. pc[p] = "claim" /\ req[p] \in ReserveRequest /\ k \in Keys
  BY Operations DEF Claim, Inv, ProcInv, RequestFits
<1>2. LockedRows(p) = {}
  BY <1>1, NoRowsYet
<1>3. CASE /\ keys[k] = None
           /\ Lock(p, KeyLock(k))
           /\ Goto(p, "guest")
           /\ UNCHANGED <<database, req, res, ref, todo, writes, now, answers>>
  <2>1. KeyLock(k) \in Resources
    BY <1>1 DEF Resources
  <2>2. /\ held' \in [Procs -> SUBSET Resources]
        /\ held'[p] = held[p] \cup {KeyLock(k)}
        /\ \A q \in Procs \ {p} : held'[q] = held[q] /\ held'[p] \cap held[q] = {}
    BY <1>3, <2>1, LockTaken
  <2>3. LockedRows(p)' = {}
    BY <1>2, <2>2, SameRows, LockKinds
  <2>4. TypeOK'
    BY <1>3, <2>2 DEF Goto, Inv, TypeOK, database, Labels
  <2>5. pc'[p] = "guest" /\ req'[p] = req[p] /\ req'[p] \notin CancelRequest /\ keys' = keys
    BY <1>1, <1>3, Operations DEF Goto, Inv, TypeOK, database
  <2>6. KeyHeld(p)'
    BY <1>3, <2>2, <2>5 DEF KeyHeld, KeyLock
  <2>7. ProcInv(p)'
    BY <1>1, <2>3, <2>5, <2>6 DEF ProcInv, RequestFits, Booking, CancelRead, RowsHeld,
                                  Reserving, Cancelling
  <2>8. \A q \in Procs \ {p} : Untouched(q)
    BY <1>3, <2>2 DEF Goto, Untouched, Inv, TypeOK
  <2> QED
    BY <1>3, <2>2, <2>4, <2>7, <2>8, QuietStep
<1>4. CASE Rollback(p)
  BY <1>4, RollbackInv
<1>5. CASE /\ keys[k] # None
           /\ SameRequest(p)
           /\ Goto(p, "replay")
           /\ UNCHANGED <<database, req, res, ref, held, todo, writes, now, answers>>
  <2>1. TypeOK'
    BY <1>5 DEF Goto, Inv, TypeOK, database, Labels
  <2>2. LockedRows(p)' = {}
    BY <1>2, <1>5 DEF LockedRows
  <2>3. pc'[p] = "replay" /\ req'[p] = req[p] /\ keys' = keys /\ SameRequest(p)'
    BY <1>5 DEF Goto, Inv, TypeOK, database, SameRequest
  <2>4. ProcInv(p)'
    BY <1>1, <1>5, <2>2, <2>3 DEF ProcInv, RequestFits, KeyHeld, Booking, CancelRead, RowsHeld,
                                  Reserving, Cancelling
  <2>5. \A q \in Procs \ {p} : Untouched(q) /\ held'[p] \cap held[q] = {}
    BY <1>5 DEF Goto, Untouched, Inv, TypeOK, LocksExclusive
  <2> QED
    BY <1>5, <2>1, <2>4, <2>5, QuietStep
<1> QED
  BY <1>3, <1>4, <1>5 DEF Claim

\* A replay reads and answers.
LEMMA ReplayInv ==
    ASSUME Inv, NEW p \in Procs, Replay(p)
    PROVE  Inv'
<1>1. /\ EndTx(p) /\ UNCHANGED database /\ UNCHANGED now
      /\ answers' = answers \cup {Answer(p, keys[req[p].key].reservation)}
  BY DEF Replay
<1>2. req[p].key \in Keys /\ req[p].body \in Bodies /\ keys[req[p].key].reservation \in References
  BY Operations DEF Replay, Inv, TypeOK, ProcInv, RequestFits, KeyHeld, KeyRow
<1>3. answers' \subseteq [key: Keys, body: Bodies, reference: References]
  BY <1>1, <1>2 DEF Answer, Inv, TypeOK
<1>4. TypeOK'
  BY <1>1, <1>3, EndTxInv DEF Inv, TypeOK, database
<1> QED
  BY <1>1, <1>4, EndTxInv, QuietStep

\* The upsert of the guest.
LEMMA UpsertGuestInv ==
    ASSUME Inv, NEW p \in Procs, UpsertGuest(p)
    PROVE  Inv'
<1> DEFINE g == req[p].body.guest
<1>1. pc[p] = "guest" /\ req[p] \in ReserveRequest /\ g \in Guests /\ Reserving(p)
  BY Operations, BodiesAssumption DEF UpsertGuest, Inv, ProcInv, RequestFits, Reserving
<1>2. KeyLock(req[p].key) \in held[p] /\ keys[req[p].key] = None
  BY <1>1 DEF Inv, ProcInv, KeyHeld
<1>3. /\ held' \in [Procs -> SUBSET Resources]
      /\ held'[p] = held[p] \cup {GuestLock(g)}
      /\ \A q \in Procs \ {p} : held'[q] = held[q] /\ held'[p] \cap held[q] = {}
  <2>1. GuestLock(g) \in Resources
    BY <1>1 DEF Resources
  <2> QED
    BY <2>1, LockTaken DEF UpsertGuest
<1>4. LockedRows(p)' = {}
  BY <1>1, <1>3, NoRowsYet, SameRows, LockKinds
<1>5. TypeOK'
  BY <1>3 DEF UpsertGuest, Goto, Inv, TypeOK, database, Labels
<1>6. pc'[p] = "new" /\ req'[p] = req[p] /\ req'[p] \notin CancelRequest /\ keys' = keys
  BY <1>1, Operations DEF UpsertGuest, Goto, Inv, TypeOK, database
<1>7. KeyHeld(p)'
  BY <1>2, <1>3, <1>6 DEF KeyHeld, KeyLock
<1>8. ProcInv(p)'
  BY <1>1, <1>4, <1>6, <1>7 DEF ProcInv, RequestFits, Booking, CancelRead, RowsHeld,
                                Reserving, Cancelling
<1>9. \A q \in Procs \ {p} : Untouched(q)
  BY <1>3 DEF UpsertGuest, Goto, Untouched, Inv, TypeOK
<1> QED
  BY <1>3, <1>5, <1>8, <1>9, QuietStep DEF UpsertGuest

\* The new reservation, and the snapshot of reserveSQL.
LEMMA NewInv ==
    ASSUME Inv, NEW p \in Procs, New(p)
    PROVE  Inv'
<1> DEFINE b == req[p].body
<1>1. pc[p] = "new" /\ req[p] \in ReserveRequest /\ b \in Bodies /\ Reserving(p)
  BY Operations DEF New, Inv, ProcInv, RequestFits, Reserving
<1>2. PICK r \in References : ref' = [ref EXCEPT ![p] = r]
  BY DEF New
<1>3. /\ res' = [res EXCEPT ![p] = [body |-> b, status |-> "confirmed", cancelledAt |-> None]]
      /\ [body |-> b, status |-> "confirmed", cancelledAt |-> None] \in Reservation
  BY <1>1 DEF New, Reservation
<1>4. TypeOK'
  <2>1. Nights(b) \cap published \subseteq Rows
    BY <1>1, NightsAreRows
  <2> QED
    BY <1>2, <1>3, <2>1 DEF New, Goto, Inv, TypeOK, database, Labels
<1>5. LockedRows(p)' = {}
  <2>1. LockedRows(p) = {}
    BY <1>1, NoRowsYet
  <2> QED
    BY <2>1 DEF New, LockedRows
<1>6. /\ pc'[p] = "lock" /\ req'[p] = req[p] /\ keys' = keys /\ held' = held
      /\ published' = published
      /\ ref'[p] \in References /\ todo'[p] = Nights(b) \cap published
      /\ res'[p] = [body |-> b, status |-> "confirmed", cancelledAt |-> None]
  BY <1>2, <1>3 DEF New, Goto, Inv, TypeOK, database
<1>7. req'[p].op = "reserve" /\ req'[p] \notin CancelRequest /\ req'[p] \in Request
  BY <1>1, <1>6, Operations DEF Request
<1>8. KeyHeld(p)'
  BY <1>1, <1>6 DEF Inv, ProcInv, KeyHeld, KeyLock
<1>9. RowsHeld(p)'
  BY <1>5, <1>6, <1>7 DEF RowsHeld, Nights
<1>10. ProcInv(p)'
  BY <1>1, <1>6, <1>7, <1>8, <1>9 DEF ProcInv, RequestFits, Booking, CancelRead, Cancelling
<1>11. \A q \in Procs \ {p} : Untouched(q) /\ held'[p] \cap held[q] = {}
  BY <1>2, <1>3 DEF New, Goto, Untouched, Inv, TypeOK, LocksExclusive
<1> QED
  BY <1>4, <1>10, <1>11, QuietStep DEF New

\* One more row locked, whichever operation locks it.
LEMMA LockRowInv ==
    ASSUME Inv, NEW p \in Procs, LockRow(p)
    PROVE  Inv'
<1>1. PICK row \in EarliestRows(todo[p]) :
          Lock(p, RowLock(row)) /\ todo' = [todo EXCEPT ![p] = @ \ {row}]
  BY DEF LockRow
<1>2. row \in todo[p] /\ row \in Rows /\ RowLock(row) \in Resources
  BY <1>1 DEF EarliestRows, Inv, TypeOK, Resources
<1>3. /\ held' \in [Procs -> SUBSET Resources]
      /\ held'[p] = held[p] \cup {RowLock(row)}
      /\ \A q \in Procs \ {p} : held'[q] = held[q] /\ held'[p] \cap held[q] = {}
  BY <1>1, <1>2, LockTaken
<1>4. TypeOK'
  BY <1>1, <1>3 DEF LockRow, Inv, TypeOK, database
<1>5. LockedRows(p)' = LockedRows(p) \cup {row} /\ todo'[p] = todo[p] \ {row}
  BY <1>1, <1>2, <1>3, LockKinds DEF LockedRows, Rows, Inv, TypeOK
<1>6. /\ pc[p] = "lock" /\ pc' = pc /\ req' = req /\ res' = res /\ ref' = ref /\ writes' = writes
      /\ UNCHANGED database /\ UNCHANGED now
      /\ published' = published /\ keys' = keys /\ reservations' = reservations
  BY DEF LockRow, database
<1>7. Reserving(p)' = Reserving(p) /\ Cancelling(p)' = Cancelling(p)
  BY <1>6 DEF Reserving, Cancelling
<1>8. RequestFits(p)' /\ KeyHeld(p)' /\ Booking(p)'
  BY <1>3, <1>6, <1>7 DEF Inv, ProcInv, RequestFits, KeyHeld, Booking, KeyLock
<1>9. CancelRead(p)'
  <2> SUFFICES ASSUME Cancelling(p) PROVE CancelRead(p)'
    BY <1>7 DEF CancelRead
  <2>1. CancelRead(p)
    BY DEF Inv, ProcInv
  <2> QED
    BY <2>1, <1>3, <1>6, <1>7 DEF CancelRead, ReferenceLock, CheckInTime, Reservation
<1>10. RowsHeld(p)'
  <2>1. RowsHeld(p)
    BY DEF Inv, ProcInv
  <2> QED
    BY <2>1, <1>2, <1>5, <1>6 DEF RowsHeld, Nights
<1>11. \A q \in Procs \ {p} : Untouched(q)
  BY <1>1, <1>3, <1>6 DEF Untouched, Inv, TypeOK
<1> QED
  BY <1>3, <1>4, <1>6, <1>8, <1>9, <1>10, <1>11, QuietStep DEF ProcInv

\* What the UPDATE of reserveSQL has locked when it is accepted: all the nights.
LEMMA AcceptedNights ==
    ASSUME Inv, NEW p \in Procs, pc[p] = "lock", req[p].op # "publish", MoveAccepted(p)
    PROVE  LockedRows(p) = Nights(res[p].body) /\ LockedRows(p) \subseteq published
<1>1. LockedRows(p) \subseteq Nights(res[p].body) \cap published
  BY DEF Inv, ProcInv, RowsHeld
<1>2. res[p].body \in Bodies
  <2>1. req[p] \in ReserveRequest \/ req[p] \in CancelRequest
    BY Operations DEF Inv, ProcInv, RequestFits
  <2>2. CASE req[p] \in ReserveRequest
    <3>1. Booking(p) /\ Reserving(p)
      BY <2>2 DEF Inv, ProcInv, Reserving
    <3>2. res[p].body = req[p].body
      BY <3>1 DEF Booking
    <3> QED
      BY <2>2, <3>2, Operations
  <2>3. CASE req[p] \in CancelRequest
    BY <2>3 DEF Inv, ProcInv, CancelRead, Cancelling, Reservation
  <2> QED
    BY <2>1, <2>2, <2>3
<1> QED
  BY <1>1, <1>2, AllNights DEF MoveAccepted

\* The UPDATE of reserveSQL.
LEMMA MoveInv ==
    ASSUME Inv, NEW p \in Procs, Move(p)
    PROVE  Inv'
<1> DEFINE new == [row \in LockedRows(p) |-> booked[row] + Delta(p)]
           next == IF req[p].op = "reserve" THEN "create" ELSE "commit"
<1>1. CASE ~MoveAccepted(p) /\ Rollback(p)
  BY <1>1, RollbackInv
<1>2. CASE /\ MoveAccepted(p)
           /\ writes' = [writes EXCEPT ![p] = new]
           /\ Goto(p, next)
           /\ UNCHANGED <<database, req, res, ref, held, todo, now, answers>>
  <2>1. pc[p] = "lock" /\ req[p].op # "publish"
    BY DEF Move
  <2>2. LockedRows(p) = Nights(res[p].body) /\ LockedRows(p) \subseteq published
    BY <1>2, <2>1, AcceptedNights
  <2>3. req[p] \in ReserveRequest \/ req[p] \in CancelRequest
    BY <2>1, Operations DEF Inv, ProcInv, RequestFits
  <2>4. LockedRows(p) \subseteq Rows /\ Delta(p) \in Int
    BY DEF LockedRows, Delta
  <2>5. /\ DOMAIN new = LockedRows(p)
        /\ \A row \in LockedRows(p) : new[row] = booked[row] + Delta(p) /\ new[row] \in Int
    BY <2>4 DEF Inv, TypeOK
  <2> HIDE DEF new
  <2>6. /\ DOMAIN writes' = Procs
        /\ \A q \in Procs : /\ DOMAIN writes'[q] \subseteq Rows
                            /\ \A row \in DOMAIN writes'[q] : writes'[q][row] \in Int
    BY <1>2, <2>4, <2>5 DEF Inv, TypeOK
  <2>7. next \in Labels
    BY DEF Labels
  <2>8. TypeOK'
    BY <1>2, <2>6, <2>7 DEF Goto, Inv, TypeOK, database
  <2>9. /\ pc'[p] = next /\ req' = req /\ res' = res /\ ref' = ref /\ held' = held
        /\ writes'[p] = new
        /\ published' = published /\ keys' = keys /\ reservations' = reservations
        /\ booked' = booked /\ allotment' = allotment /\ now' = now
    BY <1>2 DEF Goto, Inv, TypeOK, database
  <2>10. LockedRows(p)' = LockedRows(p) /\ Delta(p)' = Delta(p)
    BY <2>9 DEF LockedRows, Rows, Delta
  <2>11. RowsHeld(p)'
    <3>1. \A row \in LockedRows(p) : NotOversold(booked[row] + Delta(p), allotment[row])
      BY <1>2 DEF MoveAccepted
    <3>2. next \in {"create", "commit"}
      OBVIOUS
    <3> HIDE DEF next
    <3>3. RowsHeld(p)' =
            (/\ LockedRows(p) = Nights(res[p].body)
             /\ LockedRows(p) \subseteq published
             /\ writes'[p] = [row \in LockedRows(p) |-> booked[row] + Delta(p)]
             /\ \A row \in LockedRows(p) : NotOversold(booked[row] + Delta(p), allotment[row]))
      BY <2>9, <2>10, <3>2 DEF RowsHeld, Nights, NotOversold
    <3> QED
      BY <2>2, <2>9, <3>1, <3>3 DEF new
  <2>12. CASE req[p] \in ReserveRequest
    <3>1. pc'[p] = "create" /\ req'[p] = req[p] /\ req'[p] \notin CancelRequest
          /\ Reserving(p) /\ Reserving(p)'
      BY <2>1, <2>9, <2>12, Operations DEF Reserving
    <3>2. KeyHeld(p)'
      BY <2>9, <3>1 DEF Inv, ProcInv, KeyHeld, KeyLock
    <3>3. Booking(p)'
      BY <2>1, <2>9, <3>1 DEF Inv, ProcInv, Booking
    <3>4. ProcInv(p)'
      BY <2>11, <2>12, <3>1, <3>2, <3>3 DEF ProcInv, RequestFits, CancelRead, Cancelling
    <3>5. \A q \in Procs \ {p} : Untouched(q) /\ held'[p] \cap held[q] = {}
      BY <1>2 DEF Goto, Untouched, Inv, TypeOK, LocksExclusive
    <3> QED
      BY <1>2, <2>8, <3>4, <3>5, QuietStep
  <2>13. CASE req[p] \in CancelRequest
    <3>1. pc'[p] = "commit" /\ req'[p] = req[p] /\ req'[p] \notin ReserveRequest
          /\ Cancelling(p) /\ Cancelling(p)'
      BY <2>1, <2>9, <2>13, Operations DEF Cancelling
    <3>2. CancelRead(p)'
      <4>1. CancelRead(p)
        BY DEF Inv, ProcInv
      <4> QED
        BY <4>1, <2>1, <2>9, <3>1 DEF CancelRead, ReferenceLock, CheckInTime, Reservation
    <3>3. ProcInv(p)'
      BY <2>11, <2>13, <3>1, <3>2 DEF ProcInv, RequestFits, KeyHeld, Booking, Reserving
    <3>4. \A q \in Procs \ {p} : Untouched(q) /\ held'[p] \cap held[q] = {}
      BY <1>2 DEF Goto, Untouched, Inv, TypeOK, LocksExclusive
    <3> QED
      BY <1>2, <2>8, <3>3, <3>4, QuietStep
  <2> QED
    BY <2>3, <2>12, <2>13
<1> QED
  BY <1>1, <1>2 DEF Move

\* The INSERT of the reservation.
LEMMA CreateInv ==
    ASSUME Inv, NEW p \in Procs, Create(p)
    PROVE  Inv'
<1>1. pc[p] = "create" /\ req[p] \in ReserveRequest /\ Reserving(p)
  BY DEF Create, Inv, ProcInv, RequestFits, Reserving
<1>2. /\ KeyHeld(p) /\ Booking(p) /\ RowsHeld(p)
      /\ ref[p] \in References
  BY <1>1 DEF Inv, ProcInv, Booking
<1>3. CASE Rollback(p)
  BY <1>3, RollbackInv
<1>4. CASE /\ reservations[ref[p]] = None
           /\ Lock(p, ReferenceLock(ref[p]))
           /\ Goto(p, "commit")
           /\ UNCHANGED <<database, req, res, ref, todo, writes, now, answers>>
  <2>1. /\ held' \in [Procs -> SUBSET Resources]
        /\ held'[p] = held[p] \cup {ReferenceLock(ref[p])}
        /\ \A q \in Procs \ {p} : held'[q] = held[q] /\ held'[p] \cap held[q] = {}
    <3>1. ReferenceLock(ref[p]) \in Resources
      BY <1>2 DEF Resources
    <3> QED
      BY <1>4, <3>1, LockTaken
  <2>2. /\ pc'[p] = "commit" /\ req' = req /\ res' = res /\ ref' = ref /\ writes' = writes
        /\ published' = published /\ keys' = keys /\ reservations' = reservations
        /\ booked' = booked /\ allotment' = allotment
    BY <1>4 DEF Goto, Inv, TypeOK, database
  <2>3. LockedRows(p)' = LockedRows(p)
    BY <2>1, SameRows, LockKinds
  <2>4. TypeOK'
    BY <1>4, <2>1 DEF Goto, Inv, TypeOK, database, Labels
  <2>5. Reserving(p)' /\ ~Cancelling(p)'
    BY <1>1, <2>2, Operations DEF Reserving, Cancelling
  <2>6. KeyHeld(p)'
    BY <1>1, <1>2, <2>1, <2>2, <2>5 DEF KeyHeld, KeyLock
  <2>7. Booking(p)'
    BY <1>1, <1>2, <1>4, <2>1, <2>2, <2>5 DEF Booking, ReferenceLock
  <2>8. RowsHeld(p)'
    <3>1. Delta(p)' = Delta(p)
      BY <2>2 DEF Delta
    <3> QED
      BY <1>1, <1>2, <2>2, <2>3, <3>1 DEF RowsHeld, Nights, NotOversold
  <2>9. ProcInv(p)'
    BY <1>1, <2>2, <2>5, <2>6, <2>7, <2>8 DEF ProcInv, RequestFits, CancelRead
  <2>10. \A q \in Procs \ {p} : Untouched(q)
    BY <1>4, <2>1 DEF Goto, Untouched, Inv, TypeOK
  <2> QED
    BY <1>4, <2>1, <2>4, <2>9, <2>10, QuietStep
<1> QED
  BY <1>3, <1>4 DEF Create

\* A cancellation is decided on what was read.
LEMMA DecideInv ==
    ASSUME Inv, NEW p \in Procs, Decide(p)
    PROVE  Inv'
<1> DEFINE r == req[p].reference
           cancelled == [body |-> reservations[r].body, status |-> "cancelled", cancelledAt |-> now]
<1>1. pc[p] = "read" /\ req[p] \in CancelRequest /\ r \in References
  BY Operations DEF Decide, Inv, ProcInv, RequestFits
<1>2. CASE Rollback(p)
  BY <1>2, RollbackInv
<1>3. CASE /\ MayCancel(r)
           /\ res' = [res EXCEPT ![p] = cancelled]
           /\ ref' = [ref EXCEPT ![p] = r]
           /\ Goto(p, "mark")
           /\ UNCHANGED <<database, req, held, todo, writes, now, answers>>
  <2>1. reservations[r] # None /\ now < CheckInTime(reservations[r].body)
    BY <1>3 DEF MayCancel
  <2>2. reservations[r] \in Reservation /\ now \in Nat
    BY <1>1, <2>1 DEF Inv, TypeOK
  <2>3. cancelled \in Reservation
    BY <2>2 DEF Reservation
  <2>4. TypeOK'
    BY <1>1, <1>3, <2>3 DEF Goto, Inv, TypeOK, database, Labels
  <2>5. /\ pc'[p] = "mark" /\ req' = req /\ res'[p] = cancelled /\ ref'[p] = r
        /\ held' = held /\ reservations' = reservations /\ now' = now
    BY <1>3 DEF Goto, Inv, TypeOK, database
  <2>6. ~Reserving(p)' /\ req'[p] \in CancelRequest
    BY <1>1, <2>5, Operations DEF Reserving
  <2>7. CancelRead(p)'
    BY <1>1, <2>1, <2>2, <2>3, <2>5 DEF CancelRead, CheckInTime
  <2>8. LockedRows(p)' = {}
    BY <1>1, <2>5, NoRowsYet DEF LockedRows
  <2>9. ProcInv(p)'
    BY <2>5, <2>6, <2>7, <2>8 DEF ProcInv, RequestFits, KeyHeld, Booking, RowsHeld
  <2>10. \A q \in Procs \ {p} : Untouched(q) /\ held'[p] \cap held[q] = {}
    BY <1>3 DEF Goto, Untouched, Inv, TypeOK, LocksExclusive
  <2> QED
    BY <1>3, <2>4, <2>9, <2>10, QuietStep
<1> QED
  BY <1>2, <1>3 DEF Decide

\* The UPDATE that marks the reservation.
LEMMA MarkCancelledInv ==
    ASSUME Inv, NEW p \in Procs, MarkCancelled(p)
    PROVE  Inv'
<1>1. pc[p] = "mark" /\ req[p] \in CancelRequest /\ Cancelling(p)
  BY DEF MarkCancelled, Inv, ProcInv, RequestFits, Cancelling
<1>2. CancelRead(p) /\ ref[p] \in References
  BY <1>1, Operations DEF Inv, ProcInv, CancelRead
<1>3. CASE Rollback(p)
  BY <1>3, RollbackInv
<1>4. CASE /\ StillConfirmed(reservations[ref[p]])
           /\ Lock(p, ReferenceLock(ref[p]))
           /\ Goto(p, "release")
           /\ UNCHANGED <<database, req, res, ref, todo, writes, now, answers>>
  <2>1. /\ held' \in [Procs -> SUBSET Resources]
        /\ held'[p] = held[p] \cup {ReferenceLock(ref[p])}
        /\ \A q \in Procs \ {p} : held'[q] = held[q] /\ held'[p] \cap held[q] = {}
    <3>1. ReferenceLock(ref[p]) \in Resources
      BY <1>2 DEF Resources
    <3> QED
      BY <1>4, <3>1, LockTaken
  <2>2. /\ pc'[p] = "release" /\ req' = req /\ res' = res /\ ref' = ref
        /\ reservations' = reservations /\ now' = now
    BY <1>4 DEF Goto, Inv, TypeOK, database
  <2>3. LockedRows(p)' = {}
    BY <1>1, <2>1, NoRowsYet, SameRows, LockKinds
  <2>4. TypeOK'
    BY <1>4, <2>1 DEF Goto, Inv, TypeOK, database, Labels
  <2>5. ~Reserving(p)' /\ req'[p] \in CancelRequest
    BY <1>1, <2>2, Operations DEF Reserving
  <2>6. CancelRead(p)'
    BY <1>1, <1>2, <1>4, <2>1, <2>2
       DEF CancelRead, StillConfirmed, ReferenceLock, CheckInTime, Reservation
  <2>7. ProcInv(p)'
    BY <2>2, <2>3, <2>5, <2>6 DEF ProcInv, RequestFits, KeyHeld, Booking, RowsHeld
  <2>8. \A q \in Procs \ {p} : Untouched(q)
    BY <1>4, <2>1 DEF Goto, Untouched, Inv, TypeOK
  <2> QED
    BY <1>4, <2>1, <2>4, <2>7, <2>8, QuietStep
<1> QED
  BY <1>3, <1>4 DEF MarkCancelled

\* The snapshot of the release: every night of the stay is there.
LEMMA ReleaseInv ==
    ASSUME Inv, NEW p \in Procs, Release(p)
    PROVE  Inv'
<1> DEFINE b == res[p].body
<1>1. pc[p] = "release" /\ req[p] \in CancelRequest /\ Cancelling(p)
  BY DEF Release, Inv, ProcInv, RequestFits, Cancelling
<1>2. CancelRead(p) /\ ref[p] \in References
  BY <1>1, Operations DEF Inv, ProcInv, CancelRead
<1>3. b \in Bodies /\ Nights(b) \subseteq published
  BY <1>1, <1>2 DEF CancelRead, Reservation, Inv, TablesInv, StaysPublished
<1>4. /\ pc'[p] = "lock" /\ req' = req /\ res' = res /\ ref' = ref /\ held' = held
      /\ todo'[p] = Nights(b) /\ published' = published
      /\ reservations' = reservations /\ now' = now
  BY <1>3 DEF Release, Goto, Inv, TypeOK, database
<1>5. LockedRows(p)' = {}
  BY <1>1, <1>4, NoRowsYet DEF LockedRows
<1>6. TypeOK'
  BY <1>3, NightsAreRows DEF Release, Goto, Inv, TypeOK, database, Labels
<1>7. ~Reserving(p)' /\ req'[p] \in CancelRequest /\ req'[p].op = "cancel" /\ req'[p] \in Request
  BY <1>1, <1>4, Operations DEF Reserving, Request
<1>8. CancelRead(p)'
  BY <1>1, <1>2, <1>4 DEF CancelRead, ReferenceLock, CheckInTime, Reservation
<1>9. RowsHeld(p)'
  <2>1. Nights(b)' = Nights(b)
    BY <1>4 DEF Nights
  <2> QED
    BY <1>3, <1>4, <1>5, <1>7, <2>1 DEF RowsHeld
<1>10. ProcInv(p)'
  BY <1>4, <1>7, <1>8, <1>9 DEF ProcInv, RequestFits, KeyHeld, Booking
<1>11. \A q \in Procs \ {p} : Untouched(q) /\ held'[p] \cap held[q] = {}
  BY DEF Release, Goto, Untouched, Inv, TypeOK, LocksExclusive
<1> QED
  BY <1>6, <1>10, <1>11, QuietStep DEF Release

-----------------------------------------------------------------------------
(* The commits *)

\* A commit changes only what its transaction has locked, adds rows and keys and
\* takes none away: what any other request relies on stays.
LEMMA CommitOfAnother ==
    ASSUME Inv, NEW q \in Procs, Untouched(q), UNCHANGED now, published \subseteq published',
           \A row \in LockedRows(q) : booked'[row] = booked[row] /\ allotment'[row] = allotment[row],
           \A k \in Keys : (KeyLock(k) \in held[q] \/ keys[k] # None) => keys'[k] = keys[k],
           \A r \in References : reservations[r] # None =>
               reservations'[r] # None /\ reservations'[r].body = reservations[r].body,
           \A r \in References : ReferenceLock(r) \in held[q] =>
               reservations'[r] = reservations[r]
    PROVE  ProcInv(q)'
<1> USE DEF Inv
<1>1. LockedRows(q)' = LockedRows(q) /\ Delta(q)' = Delta(q)
  BY DEF Untouched, LockedRows, Delta, Rows, RowLock
<1>2. Reserving(q)' = Reserving(q) /\ Cancelling(q)' = Cancelling(q)
  BY DEF Reserving, Cancelling, Untouched
<1>3. RequestFits(q)'
  BY DEF ProcInv, RequestFits, Untouched
<1>4. KeyHeld(q)'
  <2>1. KeyHeld(q) /\ RequestFits(q)
    BY DEF ProcInv
  <2>2. Reserving(q) => req[q].key \in Keys
    BY Operations DEF Reserving
  <2>3. pc[q] = "replay" => req[q].key \in Keys
    BY <2>1, Operations DEF RequestFits
  <2> QED
    BY <2>1, <2>2, <2>3, <1>2 DEF KeyHeld, Untouched, KeyLock, SameRequest
<1>5. Booking(q)'
  BY <1>2 DEF ProcInv, Booking, Untouched, ReferenceLock
<1>6. CancelRead(q)'
  <2> SUFFICES ASSUME Cancelling(q) PROVE CancelRead(q)'
    BY <1>2 DEF CancelRead
  <2>1. CancelRead(q) /\ ref[q] \in References
    BY Operations DEF ProcInv, CancelRead, Cancelling
  <2> QED
    BY <2>1, <1>2 DEF CancelRead, Untouched, ReferenceLock, CheckInTime, Reservation
<1>7. RowsHeld(q)'
  <2>1. RowsHeld(q)
    BY DEF ProcInv
  <2>2. \A row \in LockedRows(q) :
            /\ booked'[row] + Delta(q) = booked[row] + Delta(q)
            /\ NotOversold(booked[row] + Delta(q), allotment[row])' =
                   NotOversold(booked[row] + Delta(q), allotment[row])
    BY <1>1 DEF NotOversold
  <2>3. pc[q] \in {"create", "commit"} =>
            writes'[q] = [row \in LockedRows(q) |-> booked'[row] + Delta(q)]
    BY <2>1, <2>2 DEF RowsHeld, Untouched
  <2> QED
    BY <2>1, <2>2, <2>3, <1>1 DEF RowsHeld, Untouched, Nights, NotOversold
<1> QED
  BY <1>3, <1>4, <1>5, <1>6, <1>7 DEF ProcInv

\* What a transaction installs in inventory.booked at its commit.
LEMMA InstalledRows ==
    ASSUME Inv, NEW p \in Procs, pc[p] = "commit"
    PROVE  /\ Nights(res[p].body) \subseteq Rows
           /\ LockedRows(p) = Nights(res[p].body)
           /\ Installed(p) = [row \in Rows |-> IF row \in Nights(res[p].body)
                                               THEN booked[row] + Delta(p) ELSE booked[row]]
           /\ \A row \in Rows : NotOversold(Installed(p)[row], allotment[row])
           /\ Installed(p) \in [Rows -> Int]
<1>1. /\ LockedRows(p) = Nights(res[p].body)
      /\ writes[p] = [row \in LockedRows(p) |-> booked[row] + Delta(p)]
      /\ \A row \in LockedRows(p) : NotOversold(booked[row] + Delta(p), allotment[row])
  BY DEF Inv, ProcInv, RowsHeld
<1>2. LockedRows(p) \subseteq Rows
  BY DEF LockedRows
<1>3. Installed(p) = [row \in Rows |-> IF row \in Nights(res[p].body)
                                       THEN booked[row] + Delta(p) ELSE booked[row]]
  BY <1>1 DEF Installed
<1>4. \A row \in Rows : NotOversold(Installed(p)[row], allotment[row])
  BY <1>1, <1>3 DEF Inv, TablesInv, RowsConsistent
<1>5. Delta(p) \in Int
  BY DEF Delta
<1>6. Installed(p) \in [Rows -> Int]
  BY <1>3, <1>5 DEF Inv, TypeOK
<1> QED
  BY <1>1, <1>2, <1>3, <1>4, <1>6

\* There are finitely many reservations on a night.
LEMMA OccupantsFinite == \A row \in Rows : IsFiniteSet(Occupants(row))
BY ReferencesAssumption, FS_Subset DEF Occupants

\* A booking commits.
LEMMA CommitReserveInv ==
    ASSUME Inv, NEW p \in Procs, CommitReserve(p)
    PROVE  Inv'
<1> DEFINE r == ref[p]
           k == req[p].key
           b == req[p].body
<1>1. pc[p] = "commit" /\ req[p] \in ReserveRequest /\ Reserving(p)
      /\ k \in Keys /\ b \in Bodies
  BY Operations DEF CommitReserve, Inv, ProcInv, RequestFits, Reserving
<1>2. /\ KeyLock(k) \in held[p] /\ keys[k] = None
      /\ r \in References
      /\ res[p] = [body |-> b, status |-> "confirmed", cancelledAt |-> None]
      /\ ReferenceLock(r) \in held[p] /\ reservations[r] = None
      /\ Delta(p) = 1
  BY <1>1, Operations DEF Inv, ProcInv, KeyHeld, Booking, Delta
<1>3. /\ booked' = Installed(p)
      /\ reservations' = [reservations EXCEPT ![r] = res[p]]
      /\ keys' = [keys EXCEPT ![k] = [hash |-> b, reservation |-> r]]
      /\ outbox' = [outbox EXCEPT ![r] = Append(@, Confirmed)]
      /\ answers' \in {answers, answers \cup {Answer(p, r)}}
      /\ EndTx(p)
      /\ published' = published /\ allotment' = allotment /\ now' = now
  BY DEF CommitReserve
<1>4. TypeOK'
  <2>1. res[p] \in Reservation /\ [hash |-> b, reservation |-> r] \in KeyRow
    BY <1>1, <1>2 DEF Reservation, KeyRow
  <2>2. outbox' \in [References -> Seq(Event)]
    <3>1. Confirmed \in Event
      BY DEF Confirmed, Event
    <3> QED
      BY <1>2, <1>3, <3>1 DEF Inv, TypeOK
  <2>3. answers' \subseteq [key: Keys, body: Bodies, reference: References]
    BY <1>1, <1>2, <1>3 DEF Answer, Inv, TypeOK
  <2>4. booked' \in [Rows -> Int]
    BY <1>1, <1>3, InstalledRows
  <2>5. /\ published' \subseteq Rows /\ allotment' \in [Rows -> Int] /\ now' \in Nat
        /\ reservations' \in [References -> Reservation \cup {None}]
        /\ keys' \in [Keys -> KeyRow \cup {None}]
    BY <1>1, <1>2, <1>3, <2>1 DEF Inv, TypeOK
  <2> QED
    BY <1>3, <2>2, <2>3, <2>4, <2>5, EndTxInv DEF TypeOK
<1>5. /\ ProcInv(p)'
      /\ \A q \in Procs \ {p} : Untouched(q) /\ held'[p] \cap held[q] = {}
  BY <1>3, EndTxInv
<1>6. ASSUME NEW q \in Procs \ {p} PROVE ProcInv(q)'
  <2>1. held[p] \cap held[q] = {}
    BY DEF Inv, LocksExclusive
  <2>2. \A row \in LockedRows(q) : booked'[row] = booked[row] /\ allotment'[row] = allotment[row]
    <3>1. \A row \in LockedRows(q) : row \in Rows /\ row \notin LockedRows(p)
      BY <2>1 DEF LockedRows
    <3> QED
      BY <1>1, <1>3, <3>1, InstalledRows
  <2>3. \A j \in Keys : (KeyLock(j) \in held[q] \/ keys[j] # None) => keys'[j] = keys[j]
    BY <1>1, <1>2, <1>3, <2>1 DEF Inv, TypeOK
  <2>4. \A s \in References : reservations[s] # None =>
            reservations'[s] # None /\ reservations'[s].body = reservations[s].body
    BY <1>2, <1>3 DEF Inv, TypeOK
  <2>5. \A s \in References : ReferenceLock(s) \in held[q] => reservations'[s] = reservations[s]
    BY <1>2, <1>3, <2>1 DEF Inv, TypeOK
  <2> QED
    BY <1>3, <1>5, <2>2, <2>3, <2>4, <2>5, CommitOfAnother
<1>7. LocksExclusive'
  BY <1>5 DEF LocksExclusive, Untouched, Inv
<1>8. RowsConsistent'
  BY <1>1, <1>3, InstalledRows DEF RowsConsistent, Rows, NotOversold
<1>9. StaysPublished'
  <2>1. Nights(b) \subseteq published
    <3>1. res[p].body = b
      BY <1>2
    <3>2. LockedRows(p) = Nights(res[p].body) /\ LockedRows(p) \subseteq published
      BY <1>1 DEF Inv, ProcInv, RowsHeld
    <3> QED
      BY <3>1, <3>2
  <2>2. res[p] # None /\ res[p].body = b
    BY <1>2, <1>1, NoneAssumption DEF Reservation
  <2> QED
    BY <1>2, <1>3, <2>1, <2>2 DEF StaysPublished, Nights, Inv, TablesInv, TypeOK
<1>10. BookedCountsReservations'
  <2> SUFFICES ASSUME NEW row \in Rows PROVE booked'[row] = Cardinality(Occupants(row)')
    BY DEF BookedCountsReservations, Rows
  <2>1. booked[row] = Cardinality(Occupants(row)) /\ IsFiniteSet(Occupants(row))
    BY OccupantsFinite DEF Inv, TablesInv, BookedCountsReservations
  <2>2. r \notin Occupants(row)
    BY <1>2 DEF Occupants
  <2>3. reservations'[r] = res[p] /\ res[p] # None /\ res[p].status = "confirmed" /\ res[p].body = b
    BY <1>1, <1>2, <1>3, NoneAssumption DEF Reservation, Inv, TypeOK
  <2>4. \A s \in References \ {r} : reservations'[s] = reservations[s]
    BY <1>3 DEF Inv, TypeOK
  <2>5. CASE row \in Nights(b)
    <3>1. Occupants(row)' = Occupants(row) \cup {r}
      BY <1>2, <2>3, <2>4, <2>5 DEF Occupants, Nights
    <3>2. booked'[row] = booked[row] + 1
      BY <1>1, <1>2, <1>3, <2>3, <2>5, InstalledRows
    <3> QED
      BY <2>1, <2>2, <3>1, <3>2, FS_AddElement
  <2>6. CASE row \notin Nights(b)
    <3>1. Occupants(row)' = Occupants(row)
      BY <1>2, <2>3, <2>4, <2>6 DEF Occupants, Nights
    <3>2. booked'[row] = booked[row]
      BY <1>1, <1>2, <1>3, <2>3, <2>6, InstalledRows
    <3> QED
      BY <2>1, <3>1, <3>2
  <2> QED
    BY <2>5, <2>6
<1> QED
  BY <1>4, <1>5, <1>6, <1>7, <1>8, <1>9, <1>10 DEF Inv, TablesInv

\* A cancellation commits.
LEMMA CommitCancelInv ==
    ASSUME Inv, NEW p \in Procs, CommitCancel(p)
    PROVE  Inv'
<1> DEFINE r == ref[p]
           b == res[p].body
<1>1. pc[p] = "commit" /\ req[p] \in CancelRequest /\ Cancelling(p)
  BY Operations DEF CommitCancel, Inv, ProcInv, RequestFits, Cancelling
<1>2. CancelRead(p)
  BY DEF Inv, ProcInv
<1>3. /\ r \in References /\ ReferenceLock(r) \in held[p]
      /\ res[p] \in Reservation /\ res[p].status = "cancelled" /\ b \in Bodies
      /\ reservations[r] # None /\ reservations[r].body = b
      /\ reservations[r].status = "confirmed"
      /\ Delta(p) = -1
  BY <1>1, <1>2, Operations DEF CancelRead, Reservation, Delta
<1>4. /\ booked' = Installed(p)
      /\ reservations' = [reservations EXCEPT ![r] = res[p]]
      /\ outbox' = [outbox EXCEPT ![r] = Append(@, Cancelled(p))]
      /\ EndTx(p)
      /\ published' = published /\ allotment' = allotment /\ keys' = keys
      /\ now' = now /\ answers' = answers
  BY DEF CommitCancel
<1>5. TypeOK'
  <2>1. outbox' \in [References -> Seq(Event)]
    <3>1. Cancelled(p) \in Event
      BY DEF Cancelled, Event, Refundable
    <3> QED
      BY <1>3, <1>4, <3>1 DEF Inv, TypeOK
  <2>2. booked' \in [Rows -> Int]
    BY <1>1, <1>4, InstalledRows
  <2>3. /\ published' \subseteq Rows /\ allotment' \in [Rows -> Int] /\ now' \in Nat
        /\ reservations' \in [References -> Reservation \cup {None}]
        /\ keys' \in [Keys -> KeyRow \cup {None}]
        /\ answers' \subseteq [key: Keys, body: Bodies, reference: References]
    BY <1>3, <1>4 DEF Inv, TypeOK
  <2> QED
    BY <1>4, <2>1, <2>2, <2>3, EndTxInv DEF TypeOK
<1>6. /\ ProcInv(p)'
      /\ \A q \in Procs \ {p} : Untouched(q) /\ held'[p] \cap held[q] = {}
  BY <1>4, EndTxInv
<1>7. res[p] # None
  BY <1>3, NoneAssumption
<1>8. ASSUME NEW q \in Procs \ {p} PROVE ProcInv(q)'
  <2>1. held[p] \cap held[q] = {}
    BY DEF Inv, LocksExclusive
  <2>2. \A row \in LockedRows(q) : booked'[row] = booked[row] /\ allotment'[row] = allotment[row]
    <3>1. \A row \in LockedRows(q) : row \in Rows /\ row \notin LockedRows(p)
      BY <2>1 DEF LockedRows
    <3> QED
      BY <1>1, <1>4, <3>1, InstalledRows
  <2>3. \A s \in References : reservations[s] # None =>
            reservations'[s] # None /\ reservations'[s].body = reservations[s].body
    BY <1>3, <1>4, <1>7 DEF Inv, TypeOK
  <2>4. \A s \in References : ReferenceLock(s) \in held[q] => reservations'[s] = reservations[s]
    BY <1>3, <1>4, <2>1 DEF Inv, TypeOK
  <2> QED
    BY <1>4, <1>6, <2>2, <2>3, <2>4, CommitOfAnother
<1>9. LocksExclusive'
  BY <1>6 DEF LocksExclusive, Untouched, Inv
<1>10. RowsConsistent'
  BY <1>1, <1>4, InstalledRows DEF RowsConsistent, Rows, NotOversold
<1>11. StaysPublished'
  BY <1>3, <1>4, <1>7 DEF StaysPublished, Nights, Inv, TablesInv, TypeOK
<1>12. BookedCountsReservations'
  <2> SUFFICES ASSUME NEW row \in Rows PROVE booked'[row] = Cardinality(Occupants(row)')
    BY DEF BookedCountsReservations, Rows
  <2>1. booked[row] = Cardinality(Occupants(row)) /\ IsFiniteSet(Occupants(row))
    BY OccupantsFinite DEF Inv, TablesInv, BookedCountsReservations
  <2>2. reservations'[r] = res[p]
    BY <1>3, <1>4 DEF Inv, TypeOK
  <2>3. \A s \in References \ {r} : reservations'[s] = reservations[s]
    BY <1>4 DEF Inv, TypeOK
  <2>4. CASE row \in Nights(b)
    <3>1. r \in Occupants(row)
      BY <1>3, <2>4 DEF Occupants
    <3>2. Occupants(row)' = Occupants(row) \ {r}
      BY <1>3, <2>2, <2>3, <2>4 DEF Occupants, Nights
    <3>3. booked'[row] = booked[row] - 1
      <4>1. booked[row] \in Int
        BY DEF Inv, TypeOK
      <4>2. booked'[row] = booked[row] + Delta(p)
        BY <1>1, <1>4, <2>4, InstalledRows
      <4> QED
        BY <1>3, <4>1, <4>2
    <3> QED
      BY <2>1, <3>1, <3>2, <3>3, FS_RemoveElement
  <2>5. CASE row \notin Nights(b)
    <3>1. Occupants(row)' = Occupants(row)
      BY <1>3, <2>2, <2>3, <2>5 DEF Occupants, Nights
    <3>2. booked'[row] = booked[row]
      BY <1>1, <1>4, <2>5, InstalledRows
    <3> QED
      BY <2>1, <3>1, <3>2
  <2> QED
    BY <2>4, <2>5
<1> QED
  BY <1>5, <1>6, <1>8, <1>9, <1>10, <1>11, <1>12 DEF Inv, TablesInv

\* SetInventory's statement, accepted or not.
LEMMA PublishInv ==
    ASSUME Inv, NEW p \in Procs, Publish(p)
    PROVE  Inv'
<1> DEFINE rooms == Int16(req[p].input.allotment)
<1>1. CASE ~PublishAccepted(p) /\ Rollback(p)
  BY <1>1, RollbackInv
<1>2. CASE PublishAccepted(p) /\ CommitPublish(p)
  <2>1. /\ published' = published \cup LockedRows(p)
        /\ allotment' = [row \in Rows |-> IF row \in LockedRows(p) THEN rooms ELSE allotment[row]]
        /\ EndTx(p)
        /\ booked' = booked /\ reservations' = reservations /\ keys' = keys
        /\ outbox' = outbox /\ now' = now /\ answers' = answers
    BY <1>2 DEF CommitPublish
  <2>2. rooms \in Int
    <3>1. req[p] \in PublishRequest
      BY Operations DEF Publish, Inv, ProcInv, RequestFits
    <3>2. req[p].input.allotment \in Int
      BY <3>1, Operations, PublishAssumption
    <3> QED
      BY <3>2 DEF Int16
  <2>3. \A row \in LockedRows(p) : row \in Rows /\ NotOversold(booked[row], rooms)
    BY <1>2 DEF PublishAccepted, LockedRows
  <2> HIDE DEF rooms
  <2>4. TypeOK'
    <3>1. published' \subseteq Rows /\ allotment' \in [Rows -> Int]
      BY <2>1, <2>2, <2>3 DEF Inv, TypeOK
    <3> QED
      BY <2>1, <3>1, EndTxInv DEF Inv, TypeOK
  <2>5. /\ ProcInv(p)'
        /\ \A q \in Procs \ {p} : Untouched(q) /\ held'[p] \cap held[q] = {}
    BY <2>1, EndTxInv
  <2>6. ASSUME NEW q \in Procs \ {p} PROVE ProcInv(q)'
    <3>1. held[p] \cap held[q] = {}
      BY DEF Inv, LocksExclusive
    <3>2. \A row \in LockedRows(q) : allotment'[row] = allotment[row]
      BY <2>1, <3>1 DEF LockedRows
    <3> QED
      BY <2>1, <2>5, <3>2, CommitOfAnother
  <2>7. LocksExclusive'
    BY <2>5 DEF LocksExclusive, Untouched, Inv
  <2>8. RowsConsistent'
    BY <2>1, <2>3 DEF RowsConsistent, Rows, NotOversold, Inv, TablesInv
  <2>9. StaysPublished'
    BY <2>1 DEF StaysPublished, Nights, Inv, TablesInv
  <2>10. BookedCountsReservations'
    BY <2>1 DEF BookedCountsReservations, Occupants, Rows, Nights, Inv, TablesInv
  <2> QED
    BY <2>4, <2>5, <2>6, <2>7, <2>8, <2>9, <2>10 DEF Inv, TablesInv
<1> QED
  BY <1>1, <1>2 DEF Publish

-----------------------------------------------------------------------------
(* The invariant *)

\* Time passes.
LEMMA TickInv ==
    ASSUME Inv, Tick
    PROVE  Inv'
<1>1. /\ now' = now + 1 /\ UNCHANGED database /\ UNCHANGED procVars /\ answers' = answers
      /\ now \in Nat
  BY DEF Tick, Inv, TypeOK
<1>2. TypeOK'
  BY <1>1 DEF Inv, TypeOK, database, procVars
<1>3. \A q \in Procs : ProcInv(q)'
  <2> SUFFICES ASSUME NEW q \in Procs PROVE ProcInv(q)'
    OBVIOUS
  <2>1. Untouched(q)
    BY <1>1 DEF Untouched, procVars
  <2> QED
    BY <1>1, <2>1, ProcKept DEF Inv
<1>4. LocksExclusive'
  BY <1>1 DEF LocksExclusive, procVars, Inv
<1> QED
  BY <1>1, <1>2, <1>3, <1>4, TablesKept DEF Inv

\* The empty database.
LEMMA InitInv == Init => Inv
<1> SUFFICES ASSUME Init PROVE Inv
  OBVIOUS
<1>1. TypeOK
  BY DEF Init, TypeOK, Labels, NoWrites
<1>2. \A p \in Procs : ProcInv(p)
  BY DEF Init, ProcInv, RequestFits, KeyHeld, Booking, CancelRead, RowsHeld, Reserving,
         Cancelling, LockedRows
<1>3. LocksExclusive
  BY DEF Init, LocksExclusive
<1>4. RowsConsistent /\ StaysPublished
  BY DEF Init, RowsConsistent, StaysPublished, NotOversold
<1>5. BookedCountsReservations
  <2> SUFFICES ASSUME NEW row \in Rows PROVE booked[row] = Cardinality(Occupants(row))
    BY DEF BookedCountsReservations
  <2>1. Occupants(row) = {}
    BY DEF Init, Occupants
  <2> QED
    BY <2>1, FS_EmptySet DEF Init
<1> QED
  BY <1>1, <1>2, <1>3, <1>4, <1>5 DEF Inv, TablesInv

\* Every step preserves Inv.
LEMMA NextInv == Inv /\ [Next]_vars => Inv'
<1> SUFFICES ASSUME Inv, [Next]_vars PROVE Inv'
  OBVIOUS
<1>1. ASSUME NEW p \in Procs, Arrive(p) PROVE Inv'
  BY <1>1, ArriveInv
<1>2. ASSUME NEW p \in Procs, Step(p) PROVE Inv'
  BY <1>2, ClaimInv, ReplayInv, UpsertGuestInv, NewInv, LockRowInv, MoveInv, CreateInv,
     CommitReserveInv, DecideInv, MarkCancelledInv, ReleaseInv, CommitCancelInv, PublishInv
     DEF Step
<1>3. ASSUME NEW p \in Procs, Refuse(p) \/ Abort(p) \/ BreakDeadlock(p) PROVE Inv'
  BY <1>3, RollbackInv DEF Refuse, Abort, BreakDeadlock
<1>4. CASE Tick
  BY <1>4, TickInv
<1>5. CASE UNCHANGED vars
  <2>1. UNCHANGED database /\ UNCHANGED procVars /\ UNCHANGED now /\ UNCHANGED answers
    BY <1>5 DEF vars
  <2>2. TypeOK'
    BY <2>1 DEF Inv, TypeOK, database, procVars
  <2>3. \A q \in Procs : ProcInv(q)'
    <3> SUFFICES ASSUME NEW q \in Procs PROVE ProcInv(q)'
      OBVIOUS
    <3>1. Untouched(q) /\ now \in Nat
      BY <2>1 DEF Untouched, procVars, Inv, TypeOK
    <3> QED
      BY <2>1, <3>1, ProcKept DEF Inv
  <2>4. LocksExclusive'
    BY <2>1 DEF LocksExclusive, procVars, Inv
  <2> QED
    BY <2>1, <2>2, <2>3, <2>4, TablesKept DEF Inv
<1> QED
  BY <1>1, <1>2, <1>3, <1>4, <1>5 DEF Next

\* Inv holds in every reachable state of any instance of Reservations.
THEOREM Invariance == Spec => []Inv
<1>1. Init => Inv
  BY InitInv
<1>2. Inv /\ [Next]_vars => Inv'
  BY NextInv
<1> QED
  BY <1>1, <1>2, PTL DEF Spec

\* The variables keep their types.
THEOREM TypeCorrect == Spec => []TypeOK
<1>1. Inv => TypeOK
  BY DEF Inv
<1> QED
  BY <1>1, Invariance, PTL

\* inventory.booked is the number of confirmed reservations of the night,
\* whatever transactions overlap, fail and are retried.
THEOREM CountsAreRight == Spec => []BookedCountsReservations
<1>1. Inv => BookedCountsReservations
  BY DEF Inv, TablesInv
<1> QED
  BY <1>1, Invariance, PTL

\* No night is sold more often than staff have published rooms for it.
THEOREM NeverOversold == Spec => []NoOversell
<1>1. Inv => NoOversell
  BY DEF Inv, TablesInv, TypeOK, RowsConsistent, BookedCountsReservations, NoOversell, NotOversold
<1> QED
  BY <1>1, Invariance, PTL

\* A cancel that has marked its reservation is never refused its release.
THEOREM ReleaseNeverRefused == Spec => []ReleaseAccepted
<1>1. Inv => ReleaseAccepted
  <2> SUFFICES ASSUME Inv, NEW p \in Procs,
                      pc[p] = "lock", todo[p] = {}, req[p].op = "cancel"
               PROVE  MoveAccepted(p)
    BY DEF ReleaseAccepted
  <2>1. req[p] \in CancelRequest /\ Cancelling(p) /\ Delta(p) = -1
    BY Operations DEF Inv, ProcInv, RequestFits, Cancelling, Delta
  <2>2. /\ res[p].body \in Bodies /\ ref[p] \in References
        /\ reservations[ref[p]] # None /\ reservations[ref[p]].body = res[p].body
        /\ reservations[ref[p]].status = "confirmed"
    BY <2>1, Operations DEF Inv, ProcInv, CancelRead, Reservation
  <2>3. LockedRows(p) = Nights(res[p].body)
    BY DEF Inv, ProcInv, RowsHeld
  <2>4. Cardinality(LockedRows(p)) = res[p].body.checkOut - res[p].body.checkIn
    BY <2>2, <2>3, NightsCount
  <2>5. ASSUME NEW row \in LockedRows(p)
        PROVE  NotOversold(booked[row] + Delta(p), allotment[row])
    <3>1. row \in Rows /\ ref[p] \in Occupants(row)
      BY <2>2, <2>3 DEF LockedRows, Occupants
    <3>2. booked[row] = Cardinality(Occupants(row)) /\ IsFiniteSet(Occupants(row))
      BY <3>1, OccupantsFinite DEF Inv, TablesInv, BookedCountsReservations
    <3>3. booked[row] # 0
      BY <3>1, <3>2, FS_EmptySet
    <3>4. NotOversold(booked[row], allotment[row]) /\ booked[row] \in Int /\ allotment[row] \in Int
      BY <3>1 DEF Inv, TablesInv, RowsConsistent, TypeOK
    <3> QED
      BY <2>1, <3>3, <3>4 DEF NotOversold
  <2> QED
    BY <2>4, <2>5 DEF MoveAccepted
<1> QED
  BY <1>1, Invariance, PTL

-----------------------------------------------------------------------------
(* The order of the locks *)

\* What a request holds and has to lock does not change while another one moves.
LEMMA OrderKept ==
    ASSUME NEW q \in Procs, LocksFit(q), RowsInOrder(q), Untouched(q)
    PROVE  LocksFit(q)' /\ RowsInOrder(q)'
<1>1. LockedRows(q)' = LockedRows(q)
  BY DEF Untouched, LockedRows, Rows, RowLock
<1> QED
  BY <1>1 DEF LocksFit, RowsInOrder, Untouched, KeyLock, GuestLock, ReferenceLock

\* A transaction that has ended holds no lock.
LEMMA EndTxOrder ==
    ASSUME Inv, NEW p \in Procs, EndTx(p)
    PROVE  /\ LocksFit(p)' /\ RowsInOrder(p)'
           /\ \A q \in Procs \ {p} : Untouched(q)
<1>1. held'[p] = {} /\ pc'[p] = "idle"
  BY DEF EndTx, Goto, Inv, TypeOK
<1>2. \A q \in Procs \ {p} : Untouched(q)
  BY EndTxInv
<1> QED
  BY <1>1, <1>2 DEF LocksFit, RowsInOrder

\* A step of p takes no lock out of order.
OrderStep(p) ==
    /\ LocksFit(p)' /\ RowsInOrder(p)'
    /\ \A q \in Procs \ {p} : Untouched(q)

\* A request arrives with no lock, and staff publish one room type.
LEMMA ArriveOrder ==
    ASSUME Inv, LocksInOrder, NEW p \in Procs, Arrive(p)
    PROVE  OrderStep(p)
<1> USE DEF Inv, TypeOK
<1>1. pc[p] = "idle" /\ held' = held /\ LockedRows(p)' = {}
  BY NoRowsYet DEF Arrive, ArriveReserve, ArriveCancel, ArrivePublish, LockedRows
<1>2. LocksFit(p)'
  BY <1>1 DEF LocksInOrder, LocksFit, KeyLock, GuestLock, ReferenceLock
<1>3. CASE ArriveReserve(p) \/ ArriveCancel(p)
  <2>1. pc'[p] # "lock"
    BY <1>3 DEF ArriveReserve, ArriveCancel, Goto
  <2>2. \A q \in Procs \ {p} : Untouched(q)
    BY <1>3 DEF ArriveReserve, ArriveCancel, Goto, Untouched
  <2> QED
    BY <1>2, <2>1, <2>2 DEF OrderStep, RowsInOrder
<1>4. CASE ArrivePublish(p)
  <2>1. PICK i \in PublishInputs :
            /\ req' = [req EXCEPT ![p] = [op |-> "publish", input |-> i]]
            /\ todo' = [todo EXCEPT ![p] = PublishRows(i)]
    BY <1>4 DEF ArrivePublish
  <2>2. \A row \in todo'[p] : row[1] = i.roomType
    BY <2>1 DEF PublishRows
  <2>3. RowsInOrder(p)'
    BY <1>1, <2>2 DEF RowsInOrder
  <2>4. \A q \in Procs \ {p} : Untouched(q)
    BY <1>4, <2>1 DEF ArrivePublish, Goto, Untouched
  <2> QED
    BY <1>2, <2>3, <2>4 DEF OrderStep
<1> QED
  BY <1>3, <1>4 DEF Arrive

\* The statements that take a lock of a key, a guest or a reference.
LEMMA LockingOrder ==
    ASSUME Inv, LocksInOrder, NEW p \in Procs,
           Claim(p) \/ UpsertGuest(p) \/ Create(p) \/ MarkCancelled(p)
    PROVE  OrderStep(p)
<1> USE DEF Inv, TypeOK, OrderStep
<1>1. CASE EndTx(p)
  BY <1>1, EndTxOrder
<1>2. CASE Claim(p) /\ ~EndTx(p)
  <2>1. /\ pc[p] = "claim" /\ pc'[p] \in {"guest", "replay"}
        /\ held'[p] \in {held[p], held[p] \cup {KeyLock(req[p].key)}}
        /\ pc'[p] = "replay" => held'[p] = held[p]
        /\ \A q \in Procs \ {p} : Untouched(q)
    BY <1>2 DEF Claim, Lock, Goto, Rollback, Untouched
  <2> QED
    BY <2>1 DEF LocksInOrder, LocksFit, RowsInOrder, KeyLock, GuestLock, ReferenceLock
<1>3. CASE UpsertGuest(p)
  <2>1. /\ pc[p] = "guest" /\ pc'[p] = "new"
        /\ held'[p] = held[p] \cup {GuestLock(req[p].body.guest)}
        /\ \A q \in Procs \ {p} : Untouched(q)
    BY <1>3 DEF UpsertGuest, Lock, Goto, Untouched
  <2> QED
    BY <2>1 DEF LocksInOrder, LocksFit, RowsInOrder, KeyLock, GuestLock, ReferenceLock
<1>4. CASE Create(p) /\ ~EndTx(p)
  <2>1. /\ pc[p] = "create" /\ pc'[p] = "commit" /\ ref'[p] = ref[p] /\ req'[p] = req[p]
        /\ held'[p] = held[p] \cup {ReferenceLock(ref[p])}
        /\ \A q \in Procs \ {p} : Untouched(q)
    BY <1>4 DEF Create, Lock, Goto, Rollback, Untouched
  <2> QED
    BY <2>1 DEF LocksInOrder, LocksFit, RowsInOrder, KeyLock, GuestLock, ReferenceLock
<1>5. CASE MarkCancelled(p) /\ ~EndTx(p)
  <2>1. /\ pc[p] = "mark" /\ pc'[p] = "release" /\ ref'[p] = ref[p] /\ req'[p] = req[p]
        /\ held'[p] = held[p] \cup {ReferenceLock(ref[p])}
        /\ \A q \in Procs \ {p} : Untouched(q)
    BY <1>5 DEF MarkCancelled, Lock, Goto, Rollback, Untouched
  <2>2. req[p] \in CancelRequest
    BY <2>1 DEF ProcInv, RequestFits
  <2> QED
    BY <2>1, <2>2 DEF LocksInOrder, LocksFit, RowsInOrder, KeyLock, GuestLock, ReferenceLock
<1> QED
  BY <1>1, <1>2, <1>3, <1>4, <1>5

\* reserveSQL starts on the nights of one stay, whose rows are not locked yet.
LEMMA RowsOrder ==
    ASSUME Inv, LocksInOrder, NEW p \in Procs, New(p) \/ Release(p)
    PROVE  OrderStep(p)
<1> USE DEF Inv, TypeOK, OrderStep
<1>1. PICK b : todo'[p] = Nights(b) \cap published
  BY DEF New, Release
<1>2. \A row \in todo'[p] : row[1] = b.roomType
  BY <1>1 DEF Nights
<1>3. pc[p] \in {"new", "release"} /\ pc'[p] = "lock" /\ held' = held
  BY DEF New, Release, Goto
<1>4. LockedRows(p)' = {}
  BY <1>3, NoRowsYet DEF LockedRows
<1>5. RowsInOrder(p)'
  BY <1>2, <1>4 DEF RowsInOrder
<1>6. \A q \in Procs \ {p} : Untouched(q)
  BY DEF New, Release, Goto, Untouched
<1>7. CASE New(p)
  BY <1>3, <1>5, <1>6, <1>7 DEF New, LocksInOrder, LocksFit, KeyLock, GuestLock, ReferenceLock
<1>8. CASE Release(p)
  <2>1. pc[p] = "release" /\ req'[p] = req[p] /\ ref'[p] = ref[p]
    BY <1>8 DEF Release
  <2> QED
    BY <1>3, <1>5, <1>6, <2>1 DEF LocksInOrder, LocksFit, KeyLock, GuestLock, ReferenceLock
<1> QED
  BY <1>7, <1>8

\* The row locked next is the earliest of those left.
LEMMA LockRowOrder ==
    ASSUME Inv, LocksInOrder, NEW p \in Procs, LockRow(p)
    PROVE  OrderStep(p)
<1> USE DEF Inv, TypeOK
<1>1. PICK row \in EarliestRows(todo[p]) :
          Lock(p, RowLock(row)) /\ todo' = [todo EXCEPT ![p] = @ \ {row}]
  BY DEF LockRow
<1>2. /\ row \in todo[p] /\ row \in Rows
      /\ \A other \in todo[p] : row[2] <= other[2]
  BY <1>1 DEF EarliestRows
<1>3. held'[p] = held[p] \cup {RowLock(row)} /\ todo'[p] = todo[p] \ {row}
  BY <1>1 DEF Lock
<1>4. LockedRows(p)' = LockedRows(p) \cup {row}
  BY <1>2, <1>3, LockKinds DEF LockedRows, Rows
<1>5. pc[p] = "lock" /\ pc' = pc /\ req' = req /\ ref' = ref
  BY DEF LockRow
<1>6. LocksFit(p)'
  BY <1>3, <1>5, LockKinds DEF LocksInOrder, LocksFit, KeyLock, GuestLock, ReferenceLock, RowLock
<1>7. RowsInOrder(p)'
  <2> SUFFICES ASSUME NEW other \in todo'[p]
               PROVE  /\ \A x \in LockedRows(p)' \cup todo'[p] : x[1] = other[1]
                      /\ \A x \in LockedRows(p)' : x[2] < other[2]
    BY DEF RowsInOrder
  <2>1. other \in todo[p] /\ other # row /\ other \in Rows
    BY <1>3
  <2>2. /\ \A x \in LockedRows(p) \cup todo[p] : x[1] = other[1]
        /\ \A x \in LockedRows(p) : x[2] < other[2]
    BY <1>5, <2>1 DEF LocksInOrder, RowsInOrder
  <2>3. row[2] # other[2]
    BY <1>2, <2>1, <2>2 DEF Rows
  <2>4. row[2] < other[2]
    BY <1>2, <2>1, <2>3, ClockAssumption DEF Rows
  <2> QED
    BY <1>2, <1>3, <1>4, <2>1, <2>2, <2>4
<1>8. \A q \in Procs \ {p} : Untouched(q)
  BY <1>1, <1>5 DEF LockRow, Lock, Untouched
<1> QED
  BY <1>6, <1>7, <1>8 DEF OrderStep

\* Statements that take no lock.
LEMMA OtherOrder ==
    ASSUME Inv, LocksInOrder, NEW p \in Procs, Move(p) \/ Decide(p)
    PROVE  OrderStep(p)
<1> USE DEF Inv, TypeOK, OrderStep
<1>1. CASE EndTx(p)
  BY <1>1, EndTxOrder
<1>2. CASE Decide(p) /\ ~EndTx(p)
  <2>1. pc[p] = "read" /\ pc'[p] = "mark" /\ held' = held /\ \A q \in Procs \ {p} : Untouched(q)
    BY <1>2 DEF Decide, Goto, Rollback, Untouched
  <2> QED
    BY <2>1 DEF LocksInOrder, LocksFit, RowsInOrder, KeyLock, GuestLock, ReferenceLock
<1>3. CASE Move(p) /\ ~EndTx(p)
  <2>1. /\ pc[p] = "lock" /\ held' = held /\ ref' = ref /\ req' = req
        /\ pc'[p] = IF req[p].op = "reserve" THEN "create" ELSE "commit"
        /\ req[p].op # "publish"
        /\ \A q \in Procs \ {p} : Untouched(q)
    BY <1>3 DEF Move, Goto, Rollback, Untouched
  <2>2. \A r \in References : ReferenceLock(r) \in held[p] => r = ref[p] /\ req[p].op = "cancel"
    BY <2>1, Operations DEF LocksInOrder, LocksFit
  <2> QED
    BY <2>1, <2>2 DEF LocksInOrder, LocksFit, RowsInOrder, KeyLock, GuestLock, ReferenceLock
<1> QED
  BY <1>1, <1>2, <1>3

\* Every step keeps the order of the locks.
LEMMA NextOrder == Inv /\ LocksInOrder /\ [Next]_vars => LocksInOrder'
<1> SUFFICES ASSUME Inv, LocksInOrder, [Next]_vars PROVE LocksInOrder'
  OBVIOUS
<1>1. ASSUME NEW p \in Procs, OrderStep(p) PROVE LocksInOrder'
  BY <1>1, OrderKept DEF OrderStep, LocksInOrder
<1>2. ASSUME NEW p \in Procs, EndTx(p) PROVE LocksInOrder'
  BY <1>1, <1>2, EndTxOrder DEF OrderStep
<1>3. ASSUME NEW p \in Procs, Arrive(p) PROVE LocksInOrder'
  BY <1>1, <1>3, ArriveOrder
<1>4. ASSUME NEW p \in Procs, Step(p) PROVE LocksInOrder'
  BY <1>1, <1>2, <1>4, LockingOrder, RowsOrder, LockRowOrder, OtherOrder
     DEF Step, Replay, CommitReserve, CommitCancel, Publish, CommitPublish, Rollback
<1>5. ASSUME NEW p \in Procs, Refuse(p) \/ Abort(p) \/ BreakDeadlock(p) PROVE LocksInOrder'
  BY <1>2, <1>5 DEF Refuse, Abort, BreakDeadlock, Rollback
<1>6. CASE UNCHANGED procVars
  <2>1. \A q \in Procs : Untouched(q)
    BY <1>6 DEF procVars, Untouched
  <2> QED
    BY <2>1, OrderKept DEF LocksInOrder
<1> QED
  BY <1>3, <1>4, <1>5, <1>6 DEF Next, Tick, vars

\* Transactions take their locks in one order.
THEOREM LocksTakenInOrder == Spec => []LocksInOrder
<1>1. Init => LocksInOrder
  BY DEF Init, LocksInOrder, LocksFit, RowsInOrder
<1>2. Inv /\ LocksInOrder /\ [Next]_vars => LocksInOrder'
  BY NextOrder
<1> QED
  BY <1>1, <1>2, Invariance, PTL DEF Spec

\* What a request waits for is held by one that is further on in the order. The
\* last ones, which have all their rows, wait for nobody, or for a reservation
\* that has the reference they drew.
Rank(p) ==
    CASE pc[p] = "guest" -> 1
      [] pc[p] = "lock"  -> 2 + (CHOOSE d \in Dates : \A row \in EarliestRows(todo[p]) : row[2] = d)
      [] OTHER           -> 0

\* The rows a statement may lock next are of one date.
LEMMA RankOfRows ==
    ASSUME TypeOK, NEW p \in Procs, pc[p] = "lock", NEW row \in EarliestRows(todo[p])
    PROVE  Rank(p) = 2 + row[2] /\ row[2] \in Nat
<1>1. \A other \in EarliestRows(todo[p]) :
          other[2] \in Dates /\ other[2] \in Nat /\ \A x \in EarliestRows(todo[p]) : other[2] <= x[2]
  <2>1. ASSUME NEW other \in EarliestRows(todo[p])
        PROVE  /\ other[2] \in Dates
               /\ \A x \in EarliestRows(todo[p]) : other[2] <= x[2]
    BY DEF TypeOK, EarliestRows, Rows
  <2> QED
    BY <2>1, ClockAssumption
<1>2. row[2] \in Dates /\ row[2] \in Nat
  BY <1>1
<1>3. \A other \in EarliestRows(todo[p]) : other[2] = row[2]
  <2>1. ASSUME NEW other \in EarliestRows(todo[p]) PROVE other[2] = row[2]
    <3>1. other[2] \in Nat /\ other[2] <= row[2] /\ row[2] <= other[2]
      BY <1>1
    <3> QED
      BY <1>2, <3>1
  <2> QED
    BY <2>1
<1> DEFINE date == CHOOSE d \in Dates : \A other \in EarliestRows(todo[p]) : other[2] = d
<1>4. date = row[2]
  BY <1>2, <1>3
<1>5. Rank(p) = 2 + date
  BY DEF Rank
<1> HIDE DEF date
<1> QED
  BY <1>2, <1>4, <1>5

\* Who waits is at one of five statements, and holds a reference only while it
\* releases the rows of a reservation it cancels.
LEMMA WaitingPlaces ==
    ASSUME Inv, LocksInOrder, NEW q \in Procs, Wants(q) # {}
    PROVE  /\ pc[q] \in {"claim", "guest", "lock", "create", "mark"}
           /\ \A r \in References : ReferenceLock(r) \in held[q] =>
                  pc[q] = "lock" /\ reservations[r] # None
<1>1. pc[q] \in {"claim", "guest", "lock", "create", "mark"}
  BY DEF Wants
<1>2. ASSUME NEW r \in References, ReferenceLock(r) \in held[q]
      PROVE  pc[q] = "lock" /\ reservations[r] # None
  <2>1. r = ref[q] /\ pc[q] = "lock" /\ req[q] \in CancelRequest
    BY <1>1, <1>2 DEF LocksInOrder, LocksFit
  <2> QED
    BY <2>1 DEF Inv, ProcInv, CancelRead, Cancelling
<1> QED
  BY <1>1, <1>2

\* A request that inserts a reservation with a reference nobody has waits for
\* one that is about to commit.
LEMMA CreateIsLast ==
    ASSUME Inv, LocksInOrder, NEW p \in Procs, NEW q \in Procs, Waits(p, q), Wants(q) # {},
           pc[p] = "create"
    PROVE  reservations[ref[p]] # None
<1>1. ref[p] \in References
  BY DEF Inv, ProcInv, Booking, Reserving, RequestFits
<1>2. ReferenceLock(ref[p]) \in held[q]
  BY DEF Waits, Wants
<1> QED
  BY <1>1, <1>2, WaitingPlaces

\* Who waits ranks below the one it waits for, when that one waits too and
\* neither is inserting a reservation.
LEMMA WaitsUpwards ==
    ASSUME Inv, LocksInOrder, NEW p \in Procs, NEW q \in Procs, Waits(p, q), Wants(q) # {},
           pc[p] # "create", pc[q] # "create"
    PROVE  Rank(p) < Rank(q)
<1>1. PICK lock \in Wants(p) : lock \in held[q]
  BY DEF Waits
<1>2. pc[q] \in {"claim", "guest", "lock", "mark"}
  BY WaitingPlaces
<1>3. pc[q] = "guest" => Rank(q) = 1
  BY DEF Rank
<1>4. pc[q] = "lock" => Rank(q) \in Nat /\ Rank(q) >= 2
  <2> SUFFICES ASSUME pc[q] = "lock" PROVE Rank(q) \in Nat /\ Rank(q) >= 2
    OBVIOUS
  <2>1. PICK row \in EarliestRows(todo[q]) : TRUE
    BY DEF Wants
  <2> QED
    BY <2>1, RankOfRows DEF Inv
<1>5. CASE pc[p] = "claim"
  <2>1. req[p].key \in Keys /\ lock = KeyLock(req[p].key)
    BY <1>1, <1>5, Operations DEF Wants, Inv, ProcInv, RequestFits
  <2>2. pc[q] \in {"guest", "lock"}
    BY <1>1, <1>2, <2>1 DEF LocksInOrder, LocksFit
  <2>3. Rank(p) = 0
    BY <1>5 DEF Rank
  <2> QED
    BY <1>3, <1>4, <2>2, <2>3
<1>6. CASE pc[p] = "guest"
  <2>1. req[p].body.guest \in Guests /\ lock = GuestLock(req[p].body.guest)
    BY <1>1, <1>6, Operations, BodiesAssumption DEF Wants, Inv, ProcInv, RequestFits
  <2>2. pc[q] = "lock"
    BY <1>1, <1>2, <2>1 DEF LocksInOrder, LocksFit
  <2>3. Rank(p) = 1
    BY <1>6 DEF Rank
  <2> QED
    BY <1>4, <2>2, <2>3
<1>7. CASE pc[p] = "mark"
  <2>1. ref[p] \in References /\ lock = ReferenceLock(ref[p])
    <3>1. req[p] \in CancelRequest
      BY <1>7 DEF Inv, ProcInv, RequestFits
    <3>2. ref[p] = req[p].reference
      BY <1>7, <3>1 DEF Inv, ProcInv, CancelRead, Cancelling
    <3>3. lock = ReferenceLock(ref[p])
      BY <1>1, <1>7 DEF Wants
    <3> QED
      BY <3>1, <3>2, <3>3, Operations
  <2>2. pc[q] = "lock"
    BY <1>1, <2>1, WaitingPlaces
  <2>3. Rank(p) = 0
    BY <1>7 DEF Rank
  <2> QED
    BY <1>4, <2>2, <2>3
<1>8. CASE pc[p] = "lock"
  <2>1. PICK row \in EarliestRows(todo[p]) : lock = RowLock(row)
    BY <1>1, <1>8 DEF Wants
  <2>2. row \in LockedRows(q)
    BY <1>1, <2>1 DEF LockedRows, EarliestRows, Inv, TypeOK
  <2>3. pc[q] = "lock"
    BY <1>2, <2>2, NoRowsYet
  <2>4. PICK other \in EarliestRows(todo[q]) : TRUE
    BY <2>3 DEF Wants
  <2>5. row[2] < other[2]
    BY <2>2, <2>3, <2>4 DEF LocksInOrder, RowsInOrder, EarliestRows
  <2>6. Rank(p) = 2 + row[2] /\ row[2] \in Nat
    BY <1>8, <2>1, RankOfRows DEF Inv
  <2>7. Rank(q) = 2 + other[2] /\ other[2] \in Nat
    BY <2>3, <2>4, RankOfRows DEF Inv
  <2> QED
    BY <2>5, <2>6, <2>7
<1> QED
  BY <1>1, <1>5, <1>6, <1>7, <1>8, WaitingPlaces

\* Ranks are numbers.
LEMMA RankIsNumber ==
    ASSUME Inv, NEW p \in Procs, Wants(p) # {}
    PROVE  Rank(p) \in Int
<1>1. CASE pc[p] = "lock"
  <2>1. PICK row \in EarliestRows(todo[p]) : TRUE
    BY <1>1 DEF Wants
  <2> QED
    BY <1>1, <2>1, RankOfRows DEF Inv
<1>2. CASE pc[p] # "lock"
  BY <1>2 DEF Rank
<1> QED
  BY <1>1, <1>2

\* Requests wait for each other in a circle only where one has drawn a reference
\* that a reservation has already: however many requests there are, for whatever
\* stays, every other circle is ruled out by the order of the locks.
THEOREM OnlyCollisionsCircle == Spec => []OnlyCollisionsDeadlock
<1>1. Inv /\ LocksInOrder => OnlyCollisionsDeadlock
  <2> SUFFICES ASSUME Inv, LocksInOrder, NEW group \in SUBSET Procs, Circle(group),
                      \A p \in group : ~(pc[p] = "create" /\ reservations[ref[p]] # None)
               PROVE  FALSE
    BY DEF OnlyCollisionsDeadlock
  <2>1. \A p \in group : Wants(p) # {}
    BY DEF Circle, Waits
  <2>2. \A p \in group : \E q \in group : Waits(p, q)
    BY DEF Circle
  <2>3. \A p \in group : pc[p] # "create"
    BY <2>1, <2>2, CreateIsLast
  <2> DEFINE rank == [p \in group |-> Rank(p)]
  <2>4. rank \in [group -> Int]
    BY <2>1, RankIsNumber
  <2>5. IsFiniteSet(group)
    BY ProcsAssumption, FS_Subset
  <2>6. group # {}
    BY DEF Circle
  <2>7. PICK p \in group : \A q \in group : rank[q] <= rank[p]
    <3> HIDE DEF rank
    <3> QED
      BY <2>4, <2>5, <2>6, HighestRank
  <2>8. PICK q \in group : Waits(p, q)
    BY <2>2
  <2>9. Rank(p) < Rank(q)
    BY <2>1, <2>3, <2>8, WaitsUpwards
  <2>10. Rank(q) <= Rank(p) /\ Rank(p) \in Int /\ Rank(q) \in Int
    BY <2>1, <2>7, RankIsNumber
  <2> QED
    BY <2>9, <2>10
<1> QED
  BY <1>1, Invariance, LocksTakenInOrder, PTL
=============================================================================
