------------------------------ MODULE MCSearch ------------------------------
(* A small instance of Search for TLC. *)
EXTENDS SearchInvariant, TLC

CONSTANTS rt, flex, strict, stray, elsewhere

MCDates == {1, 2}
MCRateDates == 1 .. 3

\* One room type with two plans, and a plan whose room type is another property's.
MCPlanOrder == <<flex, stray, strict>>
MCRoomTypeOf == [plan \in {flex, strict, stray} |-> IF plan = stray THEN elsewhere ELSE rt]
MCMaxOccupancy == [type \in {rt} |-> 2]
MCRefundable == [plan \in {flex, strict} |-> 0]

Asked(checkIn, checkOut, guests) ==
    [guests |-> guests, stay |-> [checkIn |-> checkIn, checkOut |-> checkOut]]

\* Two stays that share night 2; a room too full, a stay of no night, no guests.
MCRequests == {Asked(1, 3, 2), Asked(2, 3, 1), Asked(1, 3, 3), Asked(2, 2, 1), Asked(1, 2, 0)}

Open(price) == Rate(price, 1, FALSE, FALSE)

\* In 4 bits 7 and 1 wrap to -8. Staff open, close and reprice single dates.
MCCalendars == {<<Open(1), Open(7), NoRate>>, <<NoRate, Open(1), NoRate>>}

\* One room and a night without a row; two rooms, then one.
MCInventories == {<<None, 1>>, <<2, 1>>}

MCSymmetry == Permutations(Keys) \cup Permutations(References)

MCPublications == {
    1 :> Open(1) @@ 2 :> Open(2),
    2 :> Rate(2, 2, FALSE, FALSE),
    1 :> Rate(1, 1, TRUE, FALSE),
    3 :> Rate(1, 1, FALSE, TRUE)}
=============================================================================
