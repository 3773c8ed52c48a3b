------------------------------- MODULE Ledger -------------------------------
(***************************************************************************)
(* What the booking engine promises to guests and staff: every request     *)
(* takes effect at once, on the whole ledger, or not at all. There are no  *)
(* transactions, locks or counters here: the rooms left on a night are the *)
(* rooms published less the confirmed reservations, counted.               *)
(***************************************************************************)
EXTENDS Integers, Sequences, FiniteSets

CONSTANTS Keys, RoomTypes, Dates, References, Bodies, RefundableFor, DayTicks,
          MaxTime, None,
          Counts          \* the numbers of rooms that staff publish

VARIABLES
    published,      \* nights that staff have published
    allotment,      \* rooms published for a night
    reservations,   \* by reference
    keys,           \* the reservation and the request each idempotency key stands for
    outbox,         \* events to tell about each reservation, in order
    now,
    answers         \* 201 answers that clients have received

vars == <<published, allotment, reservations, keys, outbox, now, answers>>

Rows == RoomTypes \X Dates

Nights(b) == {b.roomType} \X (b.checkIn .. (b.checkOut - 1))

Occupants(row) ==
    {r \in References : /\ reservations[r] # None
                        /\ reservations[r].status = "confirmed"
                        /\ row \in Nights(reservations[r].body)}

RoomsLeft(row) == allotment[row] - Cardinality(Occupants(row))

Refundable(b, at) == at < b.checkIn * DayTicks - RefundableFor[b.plan]

Tell(r, type, refundable) ==
    outbox' = [outbox EXCEPT ![r] = Append(@, [type |-> type, refundable |-> refundable])]

Answer(k, b, r) == [key |-> k, body |-> b, reference |-> r]

-----------------------------------------------------------------------------
Init ==
    /\ published = {}
    /\ allotment = [row \in Rows |-> 0]
    /\ reservations = [r \in References |-> None]
    /\ keys = [k \in Keys |-> None]
    /\ outbox = [r \in References |-> <<>>]
    /\ now = 0
    /\ answers = {}

\* A new key takes a free room on every night of the stay.
Reserve(k, b, r) ==
    /\ keys[k] = None
    /\ reservations[r] = None
    /\ Nights(b) \subseteq published
    /\ \A row \in Nights(b) : RoomsLeft(row) >= 1
    /\ keys' = [keys EXCEPT ![k] = [hash |-> b, reservation |-> r]]
    /\ reservations' = [reservations EXCEPT
                           ![r] = [body |-> b, status |-> "confirmed", cancelledAt |-> None]]
    /\ Tell(r, "confirmed", FALSE)
    /\ answers' \in {answers, answers \cup {Answer(k, b, r)}}
    /\ UNCHANGED <<published, allotment, now>>

\* A key that is known is answered with its reservation and changes nothing.
Replay(k) ==
    /\ keys[k] # None
    /\ answers' = answers \cup {Answer(k, keys[k].hash, keys[k].reservation)}
    /\ UNCHANGED <<published, allotment, reservations, keys, outbox, now>>

\* A confirmed reservation is cancelled, as of a moment before its stay.
Cancel(r, at) ==
    /\ reservations[r] # None
    /\ reservations[r].status = "confirmed"
    /\ at <= now
    /\ at < reservations[r].body.checkIn * DayTicks
    /\ reservations' = [reservations EXCEPT ![r] =
                           [body |-> @.body, status |-> "cancelled", cancelledAt |-> at]]
    /\ Tell(r, "cancelled", Refundable(reservations[r].body, at))
    /\ UNCHANGED <<published, allotment, keys, now, answers>>

\* Staff set the rooms of some nights, never below what is already booked.
Publish(rows, rooms) ==
    /\ \A row \in rows : Cardinality(Occupants(row)) <= rooms
    /\ published' = published \cup rows
    /\ allotment' = [row \in Rows |-> IF row \in rows THEN rooms ELSE allotment[row]]
    /\ UNCHANGED <<reservations, keys, outbox, now, answers>>

Tick ==
    /\ now < MaxTime
    /\ now' = now + 1
    /\ UNCHANGED <<published, allotment, reservations, keys, outbox, answers>>

Next ==
    \/ \E k \in Keys, b \in Bodies, r \in References : Reserve(k, b, r)
    \/ \E k \in Keys : Replay(k)
    \/ \E r \in References, at \in 0 .. MaxTime : Cancel(r, at)
    \/ \E rows \in SUBSET Rows, rooms \in Counts : Publish(rows, rooms)
    \/ Tick

Spec == Init /\ [][Next]_vars
=============================================================================
