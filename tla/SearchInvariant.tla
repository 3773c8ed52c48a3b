--------------------------- MODULE SearchInvariant ---------------------------
(***************************************************************************)
(* The inductive invariant of Search: what a search has seen, what it      *)
(* still has to look at, and what holds of its offers until somebody       *)
(* commits.                                                                *)
(***************************************************************************)
EXTENDS Search

\* The requests that are not refused before anything is read.
Searched ==
    {request \in Requests :
        /\ StayError(request.stay.checkIn, request.stay.checkOut) = None
        /\ request.guests >= 1}

Running == pc \in {"rates", "units"}

\* What is true now is among what the search has seen.
SeenNow ==
    /\ seen.bookable \subseteq Moment.bookable
    /\ Moment.quotes \subseteq seen.quotes
    /\ Moment.free \subseteq seen.free

\* The plan's rates as they are allow the stay, at this quote.
QuoteStands(plan, q) ==
    /\ Fits(plan)
    /\ QuoteError(search.stay, RatesOf(plan, search.stay)) = None
    /\ q = BookQuote(plan, search.stay)

RoomsStand(plan) ==
    /\ Rooms!Nights(Body(plan, search.stay)) \subseteq published
    /\ \A row \in Rooms!Nights(Body(plan, search.stay)) : Rooms!RoomsLeft(row) >= 1

SearchInv ==
    /\ search \in Searched
    /\ todo \in Seq(DOMAIN RoomTypeOf)
    /\ Range(todo) \subseteq Range(PlanOrder)
    /\ seen.since \in Nat /\ seen.since <= writes
    /\ seen.bookable \subseteq {o.plan : o \in offers} \cup Range(todo)
    /\ Running => SeenNow
    /\ pc = "answered" => todo = <<>>
    /\ pc = "units" =>
           /\ todo # <<>>
           /\ Head(todo) \in Sold
           /\ <<Head(todo), quote>> \in seen.quotes
           /\ writes = seen.since => QuoteStands(Head(todo), quote)
    /\ \A o \in offers :
           /\ <<o.plan, o.quote>> \in seen.quotes
           /\ <<o.plan, o.unitsLeft>> \in seen.free
           /\ writes = seen.since => QuoteStands(o.plan, o.quote) /\ RoomsStand(o.plan)

\* What keeps the quotes and offers true.
OfferInv ==
    /\ allotment \in [Rooms!Rows -> Nat]
    /\ writes \in Nat
    /\ pc \in {"idle", "rates", "units", "answered"}
    /\ IF pc = "idle" THEN offers = {} ELSE SearchInv
    /\ booking # None => booking.quote \in priced

\* What is booked is a stay that Ledger knows, and no night is oversold.
RoomsInv ==
    /\ now = 0
    /\ DOMAIN reservations = References
    /\ \A row \in Rooms!Rows : Rooms!RoomsLeft(row) >= 0
    /\ booking # None => Body(booking.plan, booking.request.stay) \in Bodies

\* The invariant of Search and book: the safety properties of Search, and that
\* it keeps to Ledger and RateCalendar, follow from it.
Inv == OfferInv /\ RoomsInv
=============================================================================
