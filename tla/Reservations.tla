---------------------------- MODULE Reservations ----------------------------
(***************************************************************************)
(* Booking, cancelling and publishing inventory, as concurrent database    *)
(* transactions: internal/app/reserve.go and staff.go over the repositories *)
(* of internal/adapter/postgres.                                           *)
(*                                                                         *)
(* A process is one HTTP request being served, by any instance of the API. *)
(* One action is one SQL statement that can wait or that other             *)
(* transactions can observe, with the local code up to the next one.       *)
(* PostgreSQL runs the transactions at READ COMMITTED: a statement sees    *)
(* the rows committed when it starts, an UPDATE that waited for a row      *)
(* takes the row's latest version, and a row lock lasts until its          *)
(* transaction ends. What a transaction wrote stays in the process's own   *)
(* variables until the commit makes it visible.                            *)
(***************************************************************************)
EXTENDS Integers, Sequences, FiniteSets

CONSTANTS
    Procs,          \* requests in flight at once
    Keys,           \* idempotency keys that clients send
    Guests,         \* e-mail addresses
    RoomTypes,
    RatePlans,
    Dates,          \* nights that can be sold, as day numbers
    References,     \* booking references NewReference may draw
    Bodies,         \* bodies of POST /v1/reservations; the hash of a body is the body
    PublishInputs,  \* bodies of PUT .../inventory
    RefundableFor,  \* [RatePlans -> ticks before check in until which a cancel is refunded]
    DayTicks,       \* clock ticks in a day; day d starts, in UTC, at d * DayTicks
    MaxTime,        \* bound on the clock
    None            \* SQL NULL, or a pointer that is nil

\* A reference is drawn from finitely many, and finitely many requests are
\* being served.
ASSUME ReferencesAssumption == IsFiniteSet(References)

ASSUME ProcsAssumption == IsFiniteSet(Procs)

ASSUME BodiesAssumption ==
    \A b \in Bodies :
        /\ b.guest \in Guests /\ b.roomType \in RoomTypes /\ b.plan \in RatePlans
        /\ b.checkIn \in Int /\ b.checkOut \in Int /\ b.checkIn < b.checkOut
        /\ b.checkIn .. (b.checkOut - 1) \subseteq Dates

ASSUME PublishAssumption ==
    PublishInputs \subseteq [roomType: RoomTypes, from: Int, to: Int, allotment: Int]
    /\ \A i \in PublishInputs : i.from .. (i.to - 1) \subseteq Dates

ASSUME ClockAssumption ==
    /\ DayTicks \in Nat \ {0} /\ MaxTime \in Nat
    /\ RefundableFor \in [RatePlans -> Nat]
    /\ Dates \subseteq Nat

VARIABLES
    (* the committed database *)
    published,      \* rows of table inventory that exist
    allotment,      \* inventory.allotment
    booked,         \* inventory.booked
    reservations,   \* table reservations, by reference
    keys,           \* table idempotency_keys
    outbox,         \* events of table outbox, for each reservation in order of id
    (* the requests *)
    pc,             \* the next statement of each request
    req,            \* its input
    res,            \* its *booking.Reservation
    ref,            \* the reference of res
    held,           \* row locks of its transaction
    todo,           \* rows its current statement has still to lock
    writes,         \* values of inventory.booked it wrote and has not committed
    (* the outside world *)
    now,            \* the clock
    answers         \* history: the 201 answers that reached a client

database == <<published, allotment, booked, reservations, keys, outbox>>
procVars == <<pc, req, res, ref, held, todo, writes>>
vars     == <<database, procVars, now, answers>>

-----------------------------------------------------------------------------
(* Rows, requests and locks *)

Rows == RoomTypes \X Dates

\* The inventory rows of a stay: a night for each date, the departure excluded.
Nights(b) == {b.roomType} \X (b.checkIn .. (b.checkOut - 1))

\* Mutant: generate_series up to the day "to" itself.
PublishRowsInclusive(i) == {i.roomType} \X (i.from .. i.to)

PublishRows(i) == {i.roomType} \X (i.from .. (i.to - 1))

Reservation == [body: Bodies, status: {"confirmed", "cancelled"},
                cancelledAt: Nat \cup {None}]

KeyRow == [hash: Bodies, reservation: References]

Event == [type: {"confirmed", "cancelled"}, refundable: BOOLEAN]

ReserveRequest == [op: {"reserve"}, key: Keys, body: Bodies]
CancelRequest  == [op: {"cancel"}, reference: References]
PublishRequest == [op: {"publish"}, input: PublishInputs]
Request        == ReserveRequest \cup CancelRequest \cup PublishRequest

ASSUME NoneAssumption ==
    /\ None \notin Reservation /\ None \notin KeyRow /\ None \notin Request
    /\ None \notin References /\ None \notin Nat

\* What a transaction can lock. Inserting a row of a unique index locks the
\* value: a second insert of it waits for the first transaction to end.
KeyLock(k)       == <<"keys", k>>
GuestLock(g)     == <<"guests", g>>
ReferenceLock(r) == <<"reservations", r>>
RowLock(row)     == <<"inventory", row>>

Resources == {KeyLock(k) : k \in Keys} \cup {GuestLock(g) : g \in Guests}
             \cup {ReferenceLock(r) : r \in References} \cup {RowLock(row) : row \in Rows}

Free(p, resource) == \A q \in Procs \ {p} : resource \notin held[q]

Lock(p, resource) ==
    /\ Free(p, resource)
    /\ held' = [held EXCEPT ![p] = @ \cup {resource}]

LockedRows(p) == {row \in Rows : RowLock(row) \in held[p]}

\* Mutant: FOR UPDATE without ORDER BY stay_date.
AnyRow(rows) == rows

\* The rows a statement may lock next: both writers of inventory go through
\* the dates of one room type in ascending order.
EarliestRows(rows) == {row \in rows : \A other \in rows : row[2] <= other[2]}

NoWrites == [row \in {} |-> 0]

Goto(p, label) == pc' = [pc EXCEPT ![p] = label]

\* The end of a transaction: its locks go and the process serves another request.
EndTx(p) ==
    /\ Goto(p, "idle")
    /\ req' = [req EXCEPT ![p] = None]
    /\ res' = [res EXCEPT ![p] = None]
    /\ ref' = [ref EXCEPT ![p] = None]
    /\ held' = [held EXCEPT ![p] = {}]
    /\ todo' = [todo EXCEPT ![p] = {}]
    /\ writes' = [writes EXCEPT ![p] = NoWrites]

\* Mutant: an error path that returns without the rollback.
RollbackForgotten(p) ==
    /\ Goto(p, "idle")
    /\ UNCHANGED <<database, req, res, ref, held, todo, writes, now, answers>>

\* The deferred Rollback of WithinTx: nothing the transaction wrote is seen.
Rollback(p) ==
    /\ EndTx(p)
    /\ UNCHANGED <<database, now, answers>>

-----------------------------------------------------------------------------
(* Requests arrive *)

ArriveReserve(p) ==
    /\ pc[p] = "idle"
    /\ \E k \in Keys, b \in Bodies :
         req' = [req EXCEPT ![p] = [op |-> "reserve", key |-> k, body |-> b]]
    /\ Goto(p, "claim")
    /\ UNCHANGED <<database, res, ref, held, todo, writes, now, answers>>

ArriveCancel(p) ==
    /\ pc[p] = "idle"
    /\ \E r \in References :
         req' = [req EXCEPT ![p] = [op |-> "cancel", reference |-> r]]
    /\ Goto(p, "read")
    /\ UNCHANGED <<database, res, ref, held, todo, writes, now, answers>>

\* SetInventory refuses a negative allotment and an empty range, then runs one
\* INSERT ... ON CONFLICT DO UPDATE over the dates, outside any transaction.
ArrivePublish(p) ==
    /\ pc[p] = "idle"
    /\ \E i \in PublishInputs :
         /\ i.allotment >= 0
         /\ i.to > i.from
         /\ req' = [req EXCEPT ![p] = [op |-> "publish", input |-> i]]
         /\ todo' = [todo EXCEPT ![p] = PublishRows(i)]
    /\ Goto(p, "lock")
    /\ UNCHANGED <<database, res, ref, held, writes, now, answers>>

-----------------------------------------------------------------------------
(* Reserve *)

\* Mutant: the hash is not compared.
AnyRequest(p) == TRUE

SameRequest(p) == keys[req[p].key].hash = req[p].body

\* Mutant: the key is only looked up here, and inserted with the reservation.
ClaimByReading(p) ==
    /\ pc[p] = "claim"
    /\ keys[req[p].key] = None
    /\ Goto(p, "guest")
    /\ UNCHANGED <<database, req, res, ref, held, todo, writes, now, answers>>

\* INSERT INTO idempotency_keys ... ON CONFLICT DO NOTHING: waits for another
\* transaction that is inserting the key. A key that is already there belongs
\* to a committed reservation, and is compared by the hash of the request.
Claim(p) ==
    LET k == req[p].key IN
    /\ pc[p] = "claim"
    /\ Free(p, KeyLock(k))
    /\ \/ /\ keys[k] = None
          /\ Lock(p, KeyLock(k))
          /\ Goto(p, "guest")
          /\ UNCHANGED <<database, req, res, ref, todo, writes, now, answers>>
       \/ /\ keys[k] # None
          /\ ~SameRequest(p)
          /\ Rollback(p)
       \/ /\ keys[k] # None
          /\ SameRequest(p)
          /\ Goto(p, "replay")
          /\ UNCHANGED <<database, req, res, ref, held, todo, writes, now, answers>>

Answer(p, r) == [key |-> req[p].key, body |-> req[p].body, reference |-> r]

\* The retry is answered with the reservation its key names.
Replay(p) ==
    /\ pc[p] = "replay"
    /\ answers' = answers \cup {Answer(p, keys[req[p].key].reservation)}
    /\ EndTx(p)
    /\ UNCHANGED <<database, now>>

\* The room type and rate plan do not match, no rate is published or a stay
\* restriction fails, the guest is invalid (before the upsert), or the room
\* does not sleep so many (after it).
Refuse(p) ==
    /\ pc[p] \in {"guest", "new"}
    /\ Rollback(p)

\* INSERT INTO guests ... ON CONFLICT (lower(email)) DO UPDATE
UpsertGuest(p) ==
    /\ pc[p] = "guest"
    /\ Lock(p, GuestLock(req[p].body.guest))
    /\ Goto(p, "new")
    /\ UNCHANGED <<database, req, res, ref, todo, writes, now, answers>>

\* booking.New draws a reference, then reserveSQL starts: the rows it will
\* lock are those its snapshot has.
New(p) ==
    LET b == req[p].body IN
    /\ pc[p] = "new"
    /\ \E r \in References : ref' = [ref EXCEPT ![p] = r]
    /\ res' = [res EXCEPT ![p] = [body |-> b, status |-> "confirmed", cancelledAt |-> None]]
    /\ todo' = [todo EXCEPT ![p] = Nights(b) \cap published]
    /\ Goto(p, "lock")
    /\ UNCHANGED <<database, req, held, writes, now, answers>>

\* ORDER BY stay_date FOR UPDATE, a row at a time.
LockRow(p) ==
    /\ pc[p] = "lock"
    /\ \E row \in EarliestRows(todo[p]) :
         /\ Lock(p, RowLock(row))
         /\ todo' = [todo EXCEPT ![p] = @ \ {row}]
    /\ UNCHANGED <<database, pc, req, res, ref, writes, now, answers>>

Delta(p) == IF req[p].op = "reserve" THEN 1 ELSE -1

\* Mutant: only the lower half of the constraint.
NotNegative(count, rooms) == 0 <= count

\* CONSTRAINT inventory_not_oversold
NotOversold(count, rooms) == 0 <= count /\ count <= rooms

\* Mutant: RowsAffected is not compared with the nights of the stay.
MoveAnyRows(p) ==
    \A row \in LockedRows(p) : NotOversold(booked[row] + Delta(p), allotment[row])

\* The UPDATE of reserveSQL, on the rows just locked: no_inventory when a night
\* has no row, sold_out when the new count breaks the constraint.
MoveAccepted(p) ==
    /\ Cardinality(LockedRows(p)) = res[p].body.checkOut - res[p].body.checkIn
    /\ \A row \in LockedRows(p) : NotOversold(booked[row] + Delta(p), allotment[row])

Move(p) ==
    /\ pc[p] = "lock"
    /\ todo[p] = {}
    /\ req[p].op # "publish"
    /\ \/ /\ MoveAccepted(p)
          /\ writes' = [writes EXCEPT ![p] =
                           [row \in LockedRows(p) |-> booked[row] + Delta(p)]]
          /\ Goto(p, IF req[p].op = "reserve" THEN "create" ELSE "commit")
          /\ UNCHANGED <<database, req, res, ref, held, todo, now, answers>>
       \/ /\ ~MoveAccepted(p)
          /\ Rollback(p)

\* INSERT INTO reservations: duplicate_reference when the reference is taken.
Create(p) ==
    /\ pc[p] = "create"
    /\ Free(p, ReferenceLock(ref[p]))
    /\ \/ /\ reservations[ref[p]] = None
          /\ Lock(p, ReferenceLock(ref[p]))
          /\ Goto(p, "commit")
          /\ UNCHANGED <<database, req, res, ref, todo, writes, now, answers>>
       \/ /\ reservations[ref[p]] # None
          /\ Rollback(p)

\* The values of booked after p's commit.
Installed(p) == [row \in Rows |-> IF row \in DOMAIN writes[p] THEN writes[p][row]
                                                              ELSE booked[row]]

Confirmed == [type |-> "confirmed", refundable |-> FALSE]

\* Record, Publish and the commit. The answer may not reach the client.
CommitReserve(p) ==
    /\ pc[p] = "commit"
    /\ req[p].op = "reserve"
    /\ booked' = Installed(p)
    /\ reservations' = [reservations EXCEPT ![ref[p]] = res[p]]
    /\ keys' = [keys EXCEPT ![req[p].key] = [hash |-> req[p].body, reservation |-> ref[p]]]
    /\ outbox' = [outbox EXCEPT ![ref[p]] = Append(@, Confirmed)]
    /\ answers' \in {answers, answers \cup {Answer(p, ref[p])}}
    /\ EndTx(p)
    /\ UNCHANGED <<published, allotment, now>>

-----------------------------------------------------------------------------
(* Cancel *)

CheckInTime(b) == b.checkIn * DayTicks

\* Mutant: the deadline itself still counts.
RefundableAtDeadline(b, at) == at <= CheckInTime(b) - RefundableFor[b.plan]

\* Whether a cancellation made at time at is refunded.
Refundable(b, at) == at < CheckInTime(b) - RefundableFor[b.plan]

\* Mutant: a stay that has started can be cancelled.
MayCancelAnyTime(r) ==
    /\ reservations[r] # None
    /\ reservations[r].status # "cancelled"

MayCancel(r) ==
    /\ reservations[r] # None
    /\ reservations[r].status # "cancelled"
    /\ now < CheckInTime(reservations[r].body)

\* ByReference, then res.Cancel decides on what was read, by the clock.
Decide(p) ==
    LET r == req[p].reference IN
    /\ pc[p] = "read"
    /\ \/ /\ MayCancel(r)
          /\ res' = [res EXCEPT ![p] = [body |-> reservations[r].body,
                                        status |-> "cancelled", cancelledAt |-> now]]
          /\ ref' = [ref EXCEPT ![p] = r]
          /\ Goto(p, "mark")
          /\ UNCHANGED <<database, req, held, todo, writes, now, answers>>
       \/ /\ ~MayCancel(r)
          /\ Rollback(p)

\* Mutant: UPDATE reservations ... WHERE id = $1
Overwritable(reservation) == TRUE

\* UPDATE reservations ... WHERE id = $1 AND status = 'confirmed'
StillConfirmed(reservation) == reservation.status = "confirmed"

MarkCancelled(p) ==
    /\ pc[p] = "mark"
    /\ Free(p, ReferenceLock(ref[p]))
    /\ \/ /\ StillConfirmed(reservations[ref[p]])
          /\ Lock(p, ReferenceLock(ref[p]))
          /\ Goto(p, "release")
          /\ UNCHANGED <<database, req, res, ref, todo, writes, now, answers>>
       \/ /\ ~StillConfirmed(reservations[ref[p]])
          /\ Rollback(p)

\* reserveSQL starts again, with delta -1; LockRow and Move do the rest.
Release(p) ==
    /\ pc[p] = "release"
    /\ todo' = [todo EXCEPT ![p] = Nights(res[p].body) \cap published]
    /\ Goto(p, "lock")
    /\ UNCHANGED <<database, req, res, ref, held, writes, now, answers>>

Cancelled(p) ==
    [type |-> "cancelled", refundable |-> Refundable(res[p].body, res[p].cancelledAt)]

\* Publish and the commit.
CommitCancel(p) ==
    /\ pc[p] = "commit"
    /\ req[p].op = "cancel"
    /\ booked' = Installed(p)
    /\ reservations' = [reservations EXCEPT ![ref[p]] = res[p]]
    /\ outbox' = [outbox EXCEPT ![ref[p]] = Append(@, Cancelled(p))]
    /\ EndTx(p)
    /\ UNCHANGED <<published, allotment, keys, now, answers>>

-----------------------------------------------------------------------------
(* Publish *)

\* The Go conversion int16(n).
Int16(n) == ((n + 32768) % 65536) - 32768

\* Mutant: the allotment may fall below what is booked.
PublishAnyCount(p) == Int16(req[p].input.allotment) >= 0

\* A new row has booked 0. CHECK (allotment >= 0) and inventory_not_oversold.
PublishAccepted(p) ==
    \A row \in LockedRows(p) : NotOversold(booked[row], Int16(req[p].input.allotment))

CommitPublish(p) ==
    /\ published' = published \cup LockedRows(p)
    /\ allotment' = [row \in Rows |-> IF row \in LockedRows(p)
                                      THEN Int16(req[p].input.allotment)
                                      ELSE allotment[row]]
    /\ EndTx(p)
    /\ UNCHANGED <<booked, reservations, keys, outbox, now, answers>>

Publish(p) ==
    /\ pc[p] = "lock"
    /\ todo[p] = {}
    /\ req[p].op = "publish"
    /\ \/ PublishAccepted(p) /\ CommitPublish(p)
       \/ ~PublishAccepted(p) /\ Rollback(p)

-----------------------------------------------------------------------------
(* What may happen at any time *)

\* What the next statement of p has to lock.
Wants(p) ==
    CASE pc[p] = "claim"              -> {KeyLock(req[p].key)}
      [] pc[p] = "guest"              -> {GuestLock(req[p].body.guest)}
      [] pc[p] = "lock"               -> {RowLock(row) : row \in EarliestRows(todo[p])}
      [] pc[p] \in {"create", "mark"} -> {ReferenceLock(ref[p])}
      [] OTHER                        -> {}

Waits(p, q) == p # q /\ Wants(p) \cap held[q] # {}

\* Each request of the group waits for another one of it.
Circle(group) ==
    group # {} /\ \A p \in group : \E q \in group : Waits(p, q)

\* PostgreSQL's deadlock detector ends a transaction of a circle of waiters.
BreakDeadlock(p) ==
    /\ \E group \in SUBSET Procs : p \in group /\ Circle(group)
    /\ Rollback(p)

\* The client goes away, the connection or the process dies, a statement or
\* the commit fails: the database rolls the transaction back.
Abort(p) ==
    /\ pc[p] # "idle"
    /\ Rollback(p)

Tick ==
    /\ now < MaxTime
    /\ now' = now + 1
    /\ UNCHANGED <<database, procVars, answers>>

-----------------------------------------------------------------------------
Init ==
    /\ published = {}
    /\ allotment = [row \in Rows |-> 0]
    /\ booked = [row \in Rows |-> 0]
    /\ reservations = [r \in References |-> None]
    /\ keys = [k \in Keys |-> None]
    /\ outbox = [r \in References |-> <<>>]
    /\ pc = [p \in Procs |-> "idle"]
    /\ req = [p \in Procs |-> None]
    /\ res = [p \in Procs |-> None]
    /\ ref = [p \in Procs |-> None]
    /\ held = [p \in Procs |-> {}]
    /\ todo = [p \in Procs |-> {}]
    /\ writes = [p \in Procs |-> NoWrites]
    /\ now = 0
    /\ answers = {}

\* A step of the transaction of p, which the scheduler and the database's
\* lock queues run until it ends.
Step(p) ==
    \/ Claim(p) \/ Replay(p) \/ UpsertGuest(p) \/ New(p)
    \/ LockRow(p) \/ Move(p) \/ Create(p) \/ CommitReserve(p)
    \/ Decide(p) \/ MarkCancelled(p) \/ Release(p) \/ CommitCancel(p)
    \/ Publish(p)

Arrive(p) == ArriveReserve(p) \/ ArriveCancel(p) \/ ArrivePublish(p)

Next ==
    \/ \E p \in Procs : Arrive(p) \/ Step(p) \/ Refuse(p) \/ Abort(p) \/ BreakDeadlock(p)
    \/ Tick

Spec == Init /\ [][Next]_vars

\* PostgreSQL queues the waiters of a row in the order they came: a
\* transaction whose lock is free again and again gets it (strong fairness).
\* A circle of waiters is broken. Nothing forces a request to arrive, to be
\* refused or to fail.
FairSpec ==
    /\ Spec
    /\ \A p \in Procs : SF_vars(Step(p)) /\ WF_vars(BreakDeadlock(p))

-----------------------------------------------------------------------------
(* Properties *)

Labels == {"idle", "claim", "replay", "guest", "new", "lock", "create", "commit",
           "read", "mark", "release"}

\* The types of the variables; reserve.go and staff.go with the tables they use.
TypeOK ==
    /\ published \subseteq Rows
    /\ allotment \in [Rows -> Int]
    /\ booked \in [Rows -> Int]
    /\ reservations \in [References -> Reservation \cup {None}]
    /\ keys \in [Keys -> KeyRow \cup {None}]
    /\ outbox \in [References -> Seq(Event)]
    /\ pc \in [Procs -> Labels]
    /\ req \in [Procs -> Request \cup {None}]
    /\ res \in [Procs -> Reservation \cup {None}]
    /\ ref \in [Procs -> References \cup {None}]
    /\ held \in [Procs -> SUBSET Resources]
    /\ todo \in [Procs -> SUBSET Rows]
    /\ DOMAIN writes = Procs
    /\ \A p \in Procs : /\ DOMAIN writes[p] \subseteq Rows
                        /\ \A row \in DOMAIN writes[p] : writes[p][row] \in Int
    /\ now \in Nat
    /\ answers \subseteq [key: Keys, body: Bodies, reference: References]

\* The confirmed reservations that occupy a night.
Occupants(row) ==
    {r \in References : /\ reservations[r] # None
                        /\ reservations[r].status = "confirmed"
                        /\ row \in Nights(reservations[r].body)}

\* Whatever requests overlap, fail or repeat, inventory.booked is the number of
\* confirmed reservations of the night: no lost update of reserveSQL, no
\* release twice for a reservation cancelled twice.
BookedCountsReservations ==
    \A row \in Rows : booked[row] = Cardinality(Occupants(row))

\* No night has more confirmed reservations than rooms published for it, even
\* while staff lower the allotment of a night that guests are booking.
NoOversell ==
    \A row \in Rows : Cardinality(Occupants(row)) <= allotment[row]

\* However often a request is retried, and at however many instances of the
\* API at once, its key names one reservation, made from the body the key came
\* with, and every reservation has exactly one key.
OneReservationPerKey ==
    /\ \A k \in Keys : keys[k] # None =>
         /\ reservations[keys[k].reservation] # None
         /\ reservations[keys[k].reservation].body = keys[k].hash
    /\ \A r \in References : reservations[r] # None =>
         \E k \in Keys : /\ keys[k] # None /\ keys[k].reservation = r
                         /\ \A j \in Keys \ {k} : keys[j] = None \/ keys[j].reservation # r

\* A client is told the same reservation in every 201 answer to one key, and
\* that reservation is in the database: also when an earlier answer was lost,
\* or the request that made it failed and was sent again.
AnswersAgree ==
    \A a \in answers :
        /\ keys[a.key] # None
        /\ keys[a.key].reservation = a.reference
        /\ keys[a.key].hash = a.body

\* The outbox tells a reservation's history: one confirmation when it is made,
\* then one cancellation when it is cancelled, refunded if it was made more than
\* the plan's time before check in; no event of a transaction that rolled back.
EventsTellHistory ==
    \A r \in References :
        IF reservations[r] = None THEN outbox[r] = <<>>
        ELSE LET saved == reservations[r]
                 refunded == saved.cancelledAt + RefundableFor[saved.body.plan]
                                 < CheckInTime(saved.body)
             IN outbox[r] = IF saved.status = "confirmed" THEN <<Confirmed>>
                            ELSE <<Confirmed, [type |-> "cancelled", refundable |-> refunded]>>

\* Requests that book, cancel and publish wait for each other in a circle in
\* one case only: a reservation about to be inserted has drawn the reference of
\* another one. Otherwise the locks are taken in one order - key, guest, rows
\* by date, reference - and a cancel, whose reference comes first, holds one
\* that nobody else asks for before it has read it as confirmed.
OnlyCollisionsDeadlock ==
    \A group \in SUBSET Procs : Circle(group) =>
        \E p \in group : pc[p] = "create" /\ reservations[ref[p]] # None

\* A cancel that has marked its reservation always gets its rooms back: the
\* UPDATE it then sends is never refused, so a guest who may cancel can.
ReleaseAccepted ==
    \A p \in Procs :
        (pc[p] = "lock" /\ todo[p] = {} /\ req[p].op = "cancel") => MoveAccepted(p)

\* Every cancellation was made before its stay began in UTC, and a reservation
\* has the time of one exactly when it is cancelled.
CancelledInTime ==
    \A r \in References : reservations[r] # None =>
        LET saved == reservations[r] IN
        IF saved.status = "confirmed" THEN saved.cancelledAt = None
        ELSE /\ saved.cancelledAt \in Nat
             /\ saved.cancelledAt < CheckInTime(saved.body)
             /\ saved.cancelledAt <= now

\* What is committed stays: a key keeps its reservation, a reservation its
\* stay, and a cancelled one is never confirmed again nor cancelled anew, by a
\* request that read it before.
History ==
    /\ \A k \in Keys : keys[k] # None => keys'[k] = keys[k]
    /\ \A r \in References : reservations[r] # None =>
         /\ reservations'[r] # None
         /\ reservations'[r].body = reservations[r].body
         /\ reservations[r].status = "cancelled" => reservations'[r] = reservations[r]

HistoryKept == [][History]_vars

\* Every request ends, however long the queues for its locks: no lock outlives
\* its transaction, and no request is overtaken for ever.
RequestsEnd == \A p \in Procs : pc[p] # "idle" ~> pc[p] = "idle"

\* The transactions are serializable in effect: what clients, guests and staff
\* see of them is a sequence of whole requests on the abstract ledger, each
\* taking effect at the commit of its transaction.
L == INSTANCE Ledger WITH Counts <- {Int16(i.allotment) : i \in PublishInputs}

RefinesLedger == L!Spec

=============================================================================
