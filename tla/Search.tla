------------------------------- MODULE Search -------------------------------
(***************************************************************************)
(* A guest searches (AvailabilityService.Search) and books (the prices of  *)
(* ReservationService.book), beside staff and other guests.                *)
(*                                                                         *)
(* A search is a series of statements with nothing around them: rates and  *)
(* rooms of one plan, then those of the next. Its surroundings are the two *)
(* specifications the writers are shown to implement: Ledger for bookings, *)
(* cancels and inventory, RateCalendar for rates.                          *)
(***************************************************************************)
EXTENDS Pricing, Sequences

CONSTANTS
    RoomTypes, RatePlans, Dates, RateDates,
    Keys, References, Counts, Publications, RefundableFor, DayTicks, MaxTime,
    PlanOrder,      \* the property's rate plans, ORDER BY code
    RoomTypeOf,     \* the room type of a plan, perhaps of another property
    MaxOccupancy,   \* by room type
    Requests,       \* stays and guest counts that are searched and booked
    Calendars,      \* rates published before the behaviour begins
    Inventories,    \* and rooms: the count of each night, None for no row
    MaxWrites       \* bound: commits of staff and guests

VARIABLES
    published, allotment, reservations, keys, outbox, now, answers,    \* Ledger
    calendar,       \* RateCalendar
    pc, search,     \* the search: where it is, and what it was asked
    todo,           \* rate plans it has not looked at
    quote,          \* the quote of the plan it is looking at
    offers,
    booking,        \* the booking in flight: request, plan and quote
    paid,           \* table reservation_nights: the quote of each reservation
    writes,         \* history: commits so far
    seen,           \* history: what was true at some moment of the search
    priced          \* history: quotes published since the booking read its rates

ledger  == <<published, allotment, reservations, keys, outbox, now, answers>>
finding == <<pc, search, todo, quote, offers>>
vars    == <<ledger, calendar, finding, booking, paid, writes, seen, priced>>

Body(plan, stay) == [plan |-> plan, checkIn |-> stay.checkIn, checkOut |-> stay.checkOut,
                     roomType |-> RoomTypeOf[plan]]

Sold == {plan \in RatePlans : RoomTypeOf[plan] \in RoomTypes}

Bodies == {Body(plan, request.stay) : plan \in Sold,
           request \in {r \in Requests : StayError(r.stay.checkIn, r.stay.checkOut) = None}}

\* The tables have room for any date; each plan is listed once for its property;
\* the refusals are not nil.
ASSUME RequestsAssumption ==
    \A request \in Requests :
        /\ request.guests \in Int
        /\ StayError(request.stay.checkIn, request.stay.checkOut) = None =>
               /\ request.stay.checkIn \in Int /\ request.stay.checkOut \in Int
               /\ StayDates(request.stay) \subseteq Dates
               /\ request.stay.checkIn .. request.stay.checkOut \subseteq RateDates

ASSUME CatalogueAssumption ==
    /\ PlanOrder \in Seq(DOMAIN RoomTypeOf)
    /\ Sold = {plan \in Range(PlanOrder) : RoomTypeOf[plan] \in RoomTypes}
    /\ MaxOccupancy \in [RoomTypes -> Int]

ASSUME RoomsAssumption ==
    /\ IsFiniteSet(References) /\ Counts \subseteq Nat /\ MaxTime \in Nat
    /\ \A rooms \in Inventories : \A d \in Dates : rooms[d] \in Nat \cup {None}

ASSUME NoneAssumption ==
    None \notin {"invalid_stay", "stay_too_long", "room_type_not_found", "invalid_guest_count",
                 "occupancy_exceeded", "invalid_quote", "database_error"}

Rooms == INSTANCE Ledger
Rates == INSTANCE RateCalendar WITH Dates <- RateDates

-----------------------------------------------------------------------------
(* What the statements of a search and a booking find *)

\* RateRepository.Rates: one SELECT, from the arrival to the departure date.
RatesOf(plan, stay) ==
    [d \in RateDates |-> IF d \in stay.checkIn .. stay.checkOut THEN calendar[plan][d] ELSE NoRate]

\* InventoryRepository.Allotments: the rows there are of the nights.
AllotmentsOf(plan, stay) == Rooms!Nights(Body(plan, stay)) \cap published

\* Mutant: the first night of the stay stands for all of them.
ScarcestFirst(counts, stay) == counts[stay.checkIn]

Scarcest(counts, stay) ==
    CHOOSE n \in Range(counts) : \A d \in DOMAIN counts : n <= counts[d]

\* unitsLeft: none if a night has no row, else the scarcest night. What is left
\* of a night (Allotment.Available) is counted here as Ledger counts it.
UnitsLeft(plan, stay) ==
    IF Cardinality(AllotmentsOf(plan, stay)) # Cardinality(StayDates(stay)) THEN 0
    ELSE Scarcest([d \in StayDates(stay) |-> Rooms!RoomsLeft(<<RoomTypeOf[plan], d>>)], stay)

\* The refusals of book and of booking.New, and the CHECK on total_cents.
BookError(plan, request) ==
    LET rates == RatesOf(plan, request.stay) IN
    IF RoomTypeOf[plan] \notin RoomTypes THEN "room_type_not_found"
    ELSE IF QuoteError(request.stay, rates) # None THEN QuoteError(request.stay, rates)
    ELSE IF request.guests < 1 THEN "invalid_guest_count"
    ELSE IF request.guests > MaxOccupancy[RoomTypeOf[plan]] THEN "occupancy_exceeded"
    ELSE IF ~Validates(Quote(request.stay, rates)) THEN "invalid_quote"
    ELSE IF Quote(request.stay, rates).total < 0 THEN "database_error"
    ELSE None

-----------------------------------------------------------------------------
(* Search *)

\* The handler's NewStay, the check of the guests, and the catalogue, which no
\* operation changes. A request that is refused reads nothing.
Begin(request) ==
    /\ pc = "idle"
    /\ StayError(request.stay.checkIn, request.stay.checkOut) = None
    /\ request.guests >= 1
    /\ search' = request
    /\ todo' = PlanOrder
    /\ offers' = {}
    /\ pc' = "rates"
    /\ UNCHANGED <<ledger, calendar, quote, booking, paid, writes>>

\* Mutant: a full room is a room too small.
FitsStrictly(plan) ==
    RoomTypeOf[plan] \in RoomTypes /\ MaxOccupancy[RoomTypeOf[plan]] > search.guests

\* Mutant: the guests are not counted.
FitsAnyone(plan) == RoomTypeOf[plan] \in RoomTypes

Fits(plan) ==
    RoomTypeOf[plan] \in RoomTypes /\ MaxOccupancy[RoomTypeOf[plan]] >= search.guests

\* The next plan: left out for its room type, or its rates are read and quoted.
ReadRates ==
    LET plan == Head(todo) IN
    /\ pc = "rates"
    /\ todo # <<>>
    /\ IF Fits(plan) /\ QuoteError(search.stay, RatesOf(plan, search.stay)) = None
       THEN /\ quote' = Quote(search.stay, RatesOf(plan, search.stay))
            /\ pc' = "units"
            /\ UNCHANGED todo
       ELSE /\ todo' = Tail(todo)
            /\ UNCHANGED <<pc, quote>>
    /\ UNCHANGED <<ledger, calendar, search, offers, booking, paid, writes>>

Offer(plan, units) == [plan |-> plan, quote |-> quote, unitsLeft |-> units]

\* Its rooms are read: offered, or left out when a night is gone.
ReadUnits ==
    LET plan == Head(todo)
        units == UnitsLeft(plan, search.stay)
    IN  /\ pc = "units"
        /\ offers' = IF units < 1 THEN offers ELSE offers \cup {Offer(plan, units)}
        /\ todo' = Tail(todo)
        /\ quote' = None
        /\ pc' = "rates"
        /\ UNCHANGED <<ledger, calendar, search, booking, paid, writes>>

Answer ==
    /\ pc = "rates"
    /\ todo = <<>>
    /\ pc' = "answered"
    /\ UNCHANGED <<ledger, calendar, search, todo, quote, offers, booking, paid, writes>>

\* The guest leaves, or a statement of the search has failed.
Leave ==
    /\ pc # "idle"
    /\ pc' = "idle"
    /\ search' = None
    /\ todo' = <<>>
    /\ quote' = None
    /\ offers' = {}
    /\ UNCHANGED <<ledger, calendar, booking, paid, writes>>

-----------------------------------------------------------------------------
(* Book *)

Write == writes < MaxWrites /\ writes' = writes + 1

\* Mutant: the guest is charged what the search said.
OfferedQuote(plan, stay) ==
    IF \E o \in offers : o.plan = plan /\ o.quote.stay = stay
    THEN (CHOOSE o \in offers : o.plan = plan /\ o.quote.stay = stay).quote
    ELSE Quote(stay, RatesOf(plan, stay))

\* The quote of a booking: rates are read again.
BookQuote(plan, stay) == Quote(stay, RatesOf(plan, stay))

\* book reads and checks, before it waits for the guest and the nights. A
\* request that is refused leaves nothing.
BookRead(plan, request) ==
    /\ booking = None
    /\ writes < MaxWrites
    /\ StayError(request.stay.checkIn, request.stay.checkOut) = None
    /\ BookError(plan, request) = None
    /\ booking' = [request |-> request, plan |-> plan, quote |-> BookQuote(plan, request.stay)]
    /\ UNCHANGED <<ledger, calendar, finding, paid, writes>>

BookCommit(k, r) ==
    /\ booking # None
    /\ Rooms!Reserve(k, Body(booking.plan, booking.request.stay), r)
    /\ answers' = answers
    /\ paid' = [paid EXCEPT ![r] = booking.quote]
    /\ booking' = None
    /\ Write
    /\ UNCHANGED <<calendar, finding>>

\* Sold out, a reference that is taken, or any failure.
BookFails ==
    /\ booking # None
    /\ booking' = None
    /\ UNCHANGED <<ledger, calendar, finding, paid, writes>>

-----------------------------------------------------------------------------
(* The others *)

Elsewhere ==
    /\ Write
    /\ \/ /\ \/ \E r \in References : Rooms!Cancel(r, now)
             \/ \E rows \in SUBSET Rooms!Rows \ {{}}, n \in Counts : Rooms!Publish(rows, n)
          /\ UNCHANGED calendar
       \/ /\ Rates!Next
          /\ UNCHANGED ledger
    /\ UNCHANGED <<finding, booking, paid>>

-----------------------------------------------------------------------------
(* History: what a search or a booking could have been told, at each moment *)

Bookable(plan) == BookError(plan, search) = None /\ UnitsLeft(plan, search.stay) >= 1

Quoted(plan, stay) ==
    IF QuoteError(stay, calendar[plan]) = None THEN {Quote(stay, calendar[plan])} ELSE {}

\* The rooms left for a stay, as a guest would count them: how many more could
\* be booked one after the other.
Free(plan, stay) ==
    Cardinality({n \in 1 .. allotment[<<RoomTypeOf[plan], stay.checkIn>>] :
        \A row \in Rooms!Nights(Body(plan, stay)) :
            row \in published /\ n + Cardinality(Rooms!Occupants(row)) <= allotment[row]})

QuotedToBooking ==
    IF booking = None THEN {} ELSE Quoted(booking.plan, booking.request.stay)

Nothing == [bookable |-> {}, quotes |-> {}, free |-> {}, since |-> 0]

Moment ==
    [bookable |-> {plan \in Sold : Bookable(plan)},
     quotes |-> UNION {{plan} \X Quoted(plan, search.stay) : plan \in Sold},
     free |-> {<<plan, Free(plan, search.stay)>> : plan \in Sold},
     since |-> writes]

\* During a search; afterwards what was true while it ran.
Observe ==
    /\ seen' = IF pc' = "idle" THEN Nothing
               ELSE IF pc = "idle" THEN Moment'
               ELSE IF pc = "answered" THEN seen
               ELSE [bookable |-> seen.bookable \cap Moment'.bookable,
                     quotes |-> seen.quotes \cup Moment'.quotes,
                     free |-> seen.free \cup Moment'.free,
                     since |-> seen.since]
    /\ priced' = IF booking' = None THEN {}
                 ELSE priced \cup QuotedToBooking'

-----------------------------------------------------------------------------
Init ==
    /\ \E rooms \in Inventories :
           /\ published = {row \in Rooms!Rows : rooms[row[2]] # None}
           /\ allotment = [row \in Rooms!Rows |-> IF row \in published THEN rooms[row[2]] ELSE 0]
    /\ reservations = [r \in References |-> None]
    /\ keys = [k \in Keys |-> None]
    /\ outbox = [r \in References |-> <<>>]
    /\ now = 0
    /\ answers = {}
    /\ calendar \in [RatePlans -> Calendars]
    /\ pc = "idle" /\ search = None /\ todo = <<>> /\ quote = None /\ offers = {}
    /\ booking = None
    /\ paid = [r \in References |-> None]
    /\ writes = 0
    /\ seen = Nothing
    /\ priced = {}

Step ==
    \/ \E request \in Requests : Begin(request)
    \/ ReadRates
    \/ ReadUnits
    \/ Answer
    \/ Leave
    \/ \E plan \in Sold, request \in Requests : BookRead(plan, request)
    \/ \E k \in Keys, r \in References : BookCommit(k, r)
    \/ BookFails
    \/ Elsewhere

Next == Step /\ Observe

Spec == Init /\ [][Next]_vars

-----------------------------------------------------------------------------
(* Properties *)

\* A plan that could have been booked at every moment of the search is offered.
NothingLeftOut ==
    pc = "answered" => seen.bookable \subseteq {o.plan : o \in offers}

\* An offer may be outdated, but each half of it was true: its nights and total
\* are one calendar's, and its rooms were all free at one moment.
OffersWereTrue ==
    \A o \in offers : /\ <<o.plan, o.quote>> \in seen.quotes
                      /\ <<o.plan, o.unitsLeft>> \in seen.free

\* If nobody has committed anything since the search began, an offer can be
\* booked as it stands. The exception is a total that has left its 64 bits: it
\* is offered, and the CHECK of the table refuses it.
OfferHonoured ==
    pc = "answered" /\ writes = seen.since =>
        \A o \in offers : ~(o.quote.total < 0) =>
            /\ BookError(o.plan, search) = None
            /\ Rooms!Nights(Body(o.plan, search.stay)) \subseteq published
            /\ \A row \in Rooms!Nights(Body(o.plan, search.stay)) : Rooms!RoomsLeft(row) >= 1
            /\ BookQuote(o.plan, search.stay) = o.quote

\* A reservation is charged the rates of one moment since it read them, at its
\* own prices, and only a stay they allowed: not what a search has said before, and
\* perhaps not what staff have published while it waited for its nights.
PaidAtAPublishedPrice ==
    [][\A r \in References : paid'[r] # paid[r] => paid'[r] \in priced]_vars
=============================================================================
