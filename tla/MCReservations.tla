--------------------------- MODULE MCReservations ---------------------------
(* Small instances of Reservations for TLC. *)
EXTENDS ReservationsInvariant, TLC

CONSTANTS g1, g2, rt, flex, strict

MCDates == {1, 2}

Body(guest, plan, from, to) ==
    [guest |-> guest, plan |-> plan, roomType |-> rt, checkIn |-> from, checkOut |-> to]

\* Two stays that share night 2, by two guests. Day d starts at tick d: at tick
\* 1 the first stay has started, and the second is no longer refunded.
MCBodies == {Body(g1, flex, 1, 3), Body(g2, strict, 2, 3)}

MCRefundable == [plan \in {flex, strict} |-> IF plan = flex THEN 0 ELSE 1]

Inventory(from, to, rooms) ==
    [from |-> from, to |-> to, roomType |-> rt, allotment |-> rooms]

MCPublish == {Inventory(1, 3, 1), Inventory(1, 2, 0), Inventory(1, 3, 65538)}

MCPublishOnce == {Inventory(1, 3, 2)}

MCSymmetry == Permutations(Procs) \cup Permutations(Keys) \cup Permutations(References)

-----------------------------------------------------------------------------
(* What the API description says of two operations, and the code does not do *)

\* PUT .../inventory answers 204 "published" when the allotment is the one the
\* body asked for: inventory.go narrows it to int16 before the database sees it.
PublishedAsAsked ==
    [][\A p \in Procs :
         (pc[p] = "lock" /\ req[p].op = "publish" /\ CommitPublish(p)) =>
             \A row \in PublishRows(req[p].input) : allotment'[row] = req[p].input.allotment]_vars

\* With ticks of two hours, Europe/Rome, the default of properties.timezone, is
\* one tick ahead of UTC in summer.
RomeOffset == 1

\* "Cancelling on or after the check in date is refused", for the date at the
\* property: reservation.go compares the clock with midnight UTC.
RefusedFromCheckInDate ==
    \A r \in References : reservations[r] # None =>
        \/ reservations[r].status = "confirmed"
        \/ reservations[r].cancelledAt + RomeOffset < CheckInTime(reservations[r].body)
=============================================================================
