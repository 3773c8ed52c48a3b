---------------------------- MODULE SearchProofs ----------------------------
(***************************************************************************)
(* What a search promises its guest and a booking its price, for any       *)
(* catalogue, rates, rooms and requests, and however many commits of       *)
(* others.                                                                 *)
(***************************************************************************)
EXTENDS SearchInvariant, Orders, FunctionTheorems, SequenceTheorems

-----------------------------------------------------------------------------
(* Stays and quotes *)

\* The stay of a request that is not refused has a night, and all its dates are
\* dates of the tables.
LEMMA SearchedStay ==
    ASSUME NEW request \in Requests,
           StayError(request.stay.checkIn, request.stay.checkOut) = None
    PROVE  /\ request.stay.checkIn \in Int /\ request.stay.checkOut \in Int
           /\ request.stay.checkIn < request.stay.checkOut
           /\ StayDates(request.stay) \subseteq Dates
           /\ request.stay.checkIn .. request.stay.checkOut \subseteq RateDates
<1>1. /\ request.stay.checkIn \in Int /\ request.stay.checkOut \in Int
      /\ StayDates(request.stay) \subseteq Dates
      /\ request.stay.checkIn .. request.stay.checkOut \subseteq RateDates
  BY RequestsAssumption
<1>2. ~(request.stay.checkOut <= request.stay.checkIn)
  BY NoneAssumption DEF StayError
<1> QED
  BY <1>1, <1>2

\* The nights of a stay are as many as the days between its dates.
LEMMA NightsOfStay ==
    ASSUME NEW stay, stay.checkIn \in Int, stay.checkOut \in Int, stay.checkIn < stay.checkOut
    PROVE  /\ IsFiniteSet(StayDates(stay)) /\ StayDates(stay) # {}
           /\ StayDates(stay) \subseteq Int /\ stay.checkIn \in StayDates(stay)
           /\ Cardinality(StayDates(stay)) = stay.checkOut - stay.checkIn
<1> DEFINE last == stay.checkOut - 1
<1>1. last \in Int /\ ~(stay.checkIn > last)
  OBVIOUS
<1>2. StayDates(stay) = stay.checkIn .. last
  BY DEF StayDates
<1>3. stay.checkIn \in stay.checkIn .. last
  BY <1>1
<1>4. last - stay.checkIn + 1 = stay.checkOut - stay.checkIn
  OBVIOUS
<1> HIDE DEF last
<1>5. /\ IsFiniteSet(stay.checkIn .. last)
      /\ Cardinality(stay.checkIn .. last) = last - stay.checkIn + 1
  BY <1>1, FS_Interval
<1> QED
  BY <1>1, <1>2, <1>3, <1>4, <1>5

\* The rates that are read for a stay quote it as the whole calendar does.
LEMMA RatesReadSuffice ==
    ASSUME NEW plan, NEW stay, stay.checkIn \in Int, stay.checkOut \in Int,
           stay.checkIn < stay.checkOut, stay.checkIn .. stay.checkOut \subseteq RateDates
    PROVE  /\ QuoteError(stay, RatesOf(plan, stay)) = QuoteError(stay, calendar[plan])
           /\ Quote(stay, RatesOf(plan, stay)) = Quote(stay, calendar[plan])
<1> DEFINE rates == RatesOf(plan, stay)
<1>1. \A d \in stay.checkIn .. stay.checkOut : rates[d] = calendar[plan][d]
  BY DEF RatesOf
<1> HIDE DEF rates
<1>2. \A d \in StayDates(stay) : rates[d] = calendar[plan][d]
  BY <1>1 DEF StayDates
<1>3. rates[stay.checkIn] = calendar[plan][stay.checkIn]
      /\ rates[stay.checkOut] = calendar[plan][stay.checkOut]
  BY <1>1
<1>4. QuoteError(stay, rates) = QuoteError(stay, calendar[plan])
  BY <1>2, <1>3 DEF QuoteError
<1>5. [d \in StayDates(stay) |-> rates[d].price] = [d \in StayDates(stay) |-> calendar[plan][d].price]
  BY <1>2
<1>6. Quote(stay, rates) = Quote(stay, calendar[plan])
  BY <1>5 DEF Quote
<1> QED
  BY <1>4, <1>6 DEF rates

\* What Calculate returns passes Quote.Validate.
LEMMA QuotesValidate ==
    ASSUME NEW stay, NEW rates, stay.checkIn \in Int, stay.checkOut \in Int,
           stay.checkIn < stay.checkOut
    PROVE  Validates(Quote(stay, rates))
<1>1. Cardinality(StayDates(stay)) = stay.checkOut - stay.checkIn
  BY NightsOfStay
<1>2. /\ DOMAIN Quote(stay, rates).nights = StayDates(stay)
      /\ Quote(stay, rates).stay = stay
      /\ Quote(stay, rates).total = Total(Quote(stay, rates).nights)
  BY DEF Quote
<1> QED
  BY <1>1, <1>2 DEF Validates

-----------------------------------------------------------------------------
(* Rooms *)

\* A plan that is sold has its rows in the tables.
LEMMA NightRows ==
    ASSUME NEW plan \in Sold, NEW stay, StayDates(stay) \subseteq Dates
    PROVE  /\ Rooms!Nights(Body(plan, stay)) = {<<RoomTypeOf[plan], d>> : d \in StayDates(stay)}
           /\ Rooms!Nights(Body(plan, stay)) \subseteq Rooms!Rows
<1>1. Rooms!Nights(Body(plan, stay)) = {RoomTypeOf[plan]} \X StayDates(stay)
  BY DEF Rooms!Nights, Body, StayDates
<1>2. RoomTypeOf[plan] \in RoomTypes
  BY DEF Sold
<1> QED
  BY <1>1, <1>2 DEF Rooms!Rows

\* Rooms counts with the same Cardinality.
LEMMA SameCount == \A S : Rooms!Cardinality(S) = Cardinality(S)
BY DEF Rooms!Cardinality, Cardinality

\* The rooms left of a night are counted in whole numbers.
LEMMA RoomsLeftCount ==
    ASSUME allotment \in [Rooms!Rows -> Nat], NEW row \in Rooms!Rows
    PROVE  /\ allotment[row] \in Nat
           /\ Cardinality(Rooms!Occupants(row)) \in Nat
           /\ Rooms!RoomsLeft(row) = allotment[row] - Cardinality(Rooms!Occupants(row))
           /\ Rooms!RoomsLeft(row) \in Int
<1>1. Rooms!Occupants(row) \subseteq References
  BY DEF Rooms!Occupants
<1>2. IsFiniteSet(Rooms!Occupants(row))
  BY <1>1, RoomsAssumption, FS_Subset
<1>3. Cardinality(Rooms!Occupants(row)) \in Nat
  BY <1>2, FS_CardinalityType
<1>4. Rooms!RoomsLeft(row) = allotment[row] - Cardinality(Rooms!Occupants(row))
  BY SameCount DEF Rooms!RoomsLeft
<1> QED
  BY <1>3, <1>4

\* The scarcest night of a stay is one of its nights, and no night has less.
LEMMA ScarcestNight ==
    ASSUME NEW S, IsFiniteSet(S), S # {}, NEW counts \in [S -> Int], NEW stay
    PROVE  /\ \E d \in S : Scarcest(counts, stay) = counts[d]
           /\ \A d \in S : Scarcest(counts, stay) <= counts[d]
<1> DEFINE rank == [d \in S |-> -counts[d]]
<1>1. rank \in [S -> Int]
  OBVIOUS
<1>2. PICK least \in S : \A d \in S : rank[d] <= rank[least]
  <2> HIDE DEF rank
  <2> QED
    BY <1>1, HighestRank
<1>3. \A d \in S : counts[least] <= counts[d]
  <2> SUFFICES ASSUME NEW d \in S PROVE counts[least] <= counts[d]
    OBVIOUS
  <2>1. rank[d] = -counts[d] /\ rank[least] = -counts[least]
    OBVIOUS
  <2>2. rank[d] <= rank[least]
    BY <1>2
  <2>3. counts[d] \in Int /\ counts[least] \in Int
    OBVIOUS
  <2> QED
    BY <2>1, <2>2, <2>3
<1>4. counts[least] \in Range(counts) /\ \A d \in DOMAIN counts : counts[least] <= counts[d]
  BY <1>3 DEF Range
<1>5. Scarcest(counts, stay) \in Range(counts) /\ \A d \in DOMAIN counts : Scarcest(counts, stay) <= counts[d]
  BY <1>4 DEF Scarcest
<1> QED
  BY <1>5 DEF Range

\* The units left of a plan are rooms that are all free: as many as a guest could
\* book one after the other.
LEMMA UnitsAreFree ==
    ASSUME allotment \in [Rooms!Rows -> Nat], NEW plan \in Sold, NEW stay,
           stay.checkIn \in Int, stay.checkOut \in Int, stay.checkIn < stay.checkOut,
           StayDates(stay) \subseteq Dates
    PROVE  /\ UnitsLeft(plan, stay) \in Int
           /\ UnitsLeft(plan, stay) >= 1 =>
                  /\ Rooms!Nights(Body(plan, stay)) \subseteq published
                  /\ \A row \in Rooms!Nights(Body(plan, stay)) : Rooms!RoomsLeft(row) >= 1
                  /\ Free(plan, stay) = UnitsLeft(plan, stay)
<1> DEFINE S == StayDates(stay)
           night(d) == <<RoomTypeOf[plan], d>>
           nights == Rooms!Nights(Body(plan, stay))
           counts == [d \in S |-> Rooms!RoomsLeft(night(d))]
           units == Scarcest(counts, stay)
           first == allotment[night(stay.checkIn)]
           fits(n) == \A row \in nights :
                         row \in published /\ n + Cardinality(Rooms!Occupants(row)) <= allotment[row]
<1>1. IsFiniteSet(S) /\ S # {} /\ stay.checkIn \in S
  BY NightsOfStay
<1>2. nights = {night(d) : d \in S} /\ nights \subseteq Rooms!Rows
  BY NightRows
<1>3. \A d \in S : night(d) \in nights /\ night(d) \in Rooms!Rows
  BY <1>2
<1>4. \A d \in S : /\ counts[d] = Rooms!RoomsLeft(night(d)) /\ counts[d] \in Int
                   /\ allotment[night(d)] \in Nat
                   /\ Cardinality(Rooms!Occupants(night(d))) \in Nat
                   /\ counts[d] = allotment[night(d)] - Cardinality(Rooms!Occupants(night(d)))
  BY <1>3, RoomsLeftCount
<1>5. /\ units \in Int
      /\ \E d \in S : units = counts[d]
      /\ \A d \in S : units <= counts[d]
  <2>1. counts \in [S -> Int]
    BY <1>4
  <2>2. (\E d \in S : units = counts[d]) /\ \A d \in S : units <= counts[d]
    <3> HIDE DEF S, counts
    <3> QED
      BY <1>1, <2>1, ScarcestNight
  <2> QED
    BY <1>4, <2>2
<1>6. UnitsLeft(plan, stay) = IF Cardinality(nights \cap published) # Cardinality(S) THEN 0 ELSE units
  BY DEF UnitsLeft, AllotmentsOf
<1>7. IsFiniteSet(nights) /\ Cardinality(nights) = Cardinality(S)
  <2> DEFINE F == [d \in S |-> night(d)]
  <2>1. F \in [S -> nights] /\ \A a, b \in S : F[a] = F[b] => a = b
    BY <1>2
  <2>2. \A row \in nights : \E d \in S : F[d] = row
    BY <1>2
  <2>3. F \in Bijection(S, nights)
    <3> HIDE DEF F, S, nights
    <3> QED
      BY <2>1, <2>2, Fun_IsBij
  <2>4. ExistsBijection(S, nights)
    BY <2>3 DEF ExistsBijection
  <2> QED
    BY <1>1, <2>4, FS_Bijection
<1> HIDE DEF counts, units, nights, S
<1>8. ASSUME UnitsLeft(plan, stay) >= 1
      PROVE  /\ nights \subseteq published
             /\ \A row \in nights : Rooms!RoomsLeft(row) >= 1
             /\ Free(plan, stay) = UnitsLeft(plan, stay)
  <2>1. Cardinality(nights \cap published) = Cardinality(S) /\ UnitsLeft(plan, stay) = units
    BY <1>6, <1>8
  <2>2. nights \subseteq published
    <3>1. nights \cap published \in SUBSET nights
      OBVIOUS
    <3>2. nights \cap published = nights
      BY <1>7, <2>1, <3>1, FS_Subset
    <3> QED
      BY <3>2
  <2>3. \A row \in nights : Rooms!RoomsLeft(row) >= 1
    BY <1>2, <1>4, <1>5, <1>8, <2>1
  <2>4. \A n \in Int : fits(n) <=> n <= units
    <3>1. \A n \in Int : n <= units => fits(n)
      BY <1>2, <1>4, <1>5, <2>2
    <3>2. ASSUME NEW n \in Int, fits(n) PROVE n <= units
      <4>1. PICK d \in S : units = counts[d]
        BY <1>5
      <4>2. n + Cardinality(Rooms!Occupants(night(d))) <= allotment[night(d)]
        BY <1>3, <3>2, <4>1
      <4> HIDE DEF night
      <4> QED
        BY <1>4, <4>1, <4>2
    <3> QED
      BY <3>1, <3>2
  <2>5. first \in Nat /\ units <= first
    BY <1>1, <1>4, <1>5
  <2> HIDE DEF fits, first
  <2>6. {n \in 1 .. first : fits(n)} = 1 .. units
    BY <1>5, <2>4, <2>5
  <2>7. Cardinality(1 .. units) = units
    <3>1. 1 \in Int /\ ~(1 > units)
      BY <1>5, <1>8, <2>1
    <3>2. Cardinality(1 .. units) = IF 1 > units THEN 0 ELSE units - 1 + 1
      BY <1>5, <3>1, FS_Interval
    <3> QED
      BY <1>5, <3>1, <3>2
  <2>8. Free(plan, stay) = Cardinality({n \in 1 .. first : fits(n)})
    BY DEF Free, fits, first, nights
  <2> QED
    BY <2>1, <2>2, <2>3, <2>6, <2>7, <2>8
<1> QED
  BY <1>5, <1>6, <1>8 DEF nights

-----------------------------------------------------------------------------
(* What a step leaves alone *)

\* Nobody commits.
Still == UNCHANGED <<ledger, calendar, writes>>

\* Somebody does.
Written == writes' = writes + 1

\* What a search relies on can change only when somebody commits.
LEMMA StillStands ==
    ASSUME Still, UNCHANGED search, NEW plan
    PROVE  /\ \A q : QuoteStands(plan, q)' <=> QuoteStands(plan, q)
           /\ RoomsStand(plan)' <=> RoomsStand(plan)
<1>1. calendar' = calendar /\ published' = published /\ allotment' = allotment
      /\ reservations' = reservations /\ search' = search
  BY DEF Still, ledger
<1>2. RatesOf(plan, search.stay)' = RatesOf(plan, search.stay)
  BY <1>1 DEF RatesOf
<1>3. \A q : QuoteStands(plan, q)' <=> QuoteStands(plan, q)
  BY <1>1, <1>2 DEF QuoteStands, Fits, BookQuote
<1>4. \A row : Rooms!Occupants(row)' = Rooms!Occupants(row)
  BY <1>1 DEF Rooms!Occupants
<1>5. \A row : Rooms!RoomsLeft(row)' = Rooms!RoomsLeft(row)
  BY <1>1, <1>4 DEF Rooms!RoomsLeft
<1>6. RoomsStand(plan)' <=> RoomsStand(plan)
  BY <1>1, <1>5 DEF RoomsStand
<1> QED
  BY <1>3, <1>6

\* A search that is running has seen what is true now, and forgets nothing but
\* the plans that cannot be booked any more.
LEMMA ObserveRunning ==
    ASSUME Observe, pc # "answered", pc' \in {"rates", "units"}
    PROVE  SeenNow'
<1>1. CASE pc = "idle"
  <2>1. seen' = Moment'
    BY <1>1 DEF Observe
  <2> QED
    BY <2>1 DEF SeenNow
<1>2. CASE pc # "idle"
  <2>1. /\ seen'.bookable = seen.bookable \cap Moment'.bookable
        /\ seen'.quotes = seen.quotes \cup Moment'.quotes
        /\ seen'.free = seen.free \cup Moment'.free
    BY <1>2 DEF Observe
  <2> QED
    BY <2>1 DEF SeenNow
<1> QED
  BY <1>1, <1>2

LEMMA ObserveLater ==
    ASSUME Observe, pc # "idle", pc' # "idle"
    PROVE  /\ seen'.since = seen.since
           /\ seen.quotes \subseteq seen'.quotes
           /\ seen.free \subseteq seen'.free
           /\ seen'.bookable \subseteq seen.bookable
BY DEF Observe

\* The quote of a booking stays among those that were published.
LEMMA BookingKept ==
    ASSUME OfferInv, Observe, UNCHANGED booking
    PROVE  booking' # None => booking'.quote \in priced'
BY DEF OfferInv, Observe

\* A step of another leaves a search where it is.
LEMMA SearchKept ==
    ASSUME OfferInv, Observe, UNCHANGED finding, Still \/ Written, writes' \in Nat
    PROVE  IF pc' = "idle" THEN offers' = {} ELSE SearchInv'
<1>1. pc' = pc /\ search' = search /\ todo' = todo /\ quote' = quote /\ offers' = offers
  BY DEF finding
<1>2. CASE pc = "idle"
  BY <1>1, <1>2 DEF OfferInv
<1>3. CASE pc # "idle"
  <2>1. /\ search \in Searched /\ todo \in Seq(DOMAIN RoomTypeOf)
        /\ Range(todo) \subseteq Range(PlanOrder)
        /\ seen.since \in Nat /\ seen.since <= writes /\ writes \in Nat
        /\ seen.bookable \subseteq {o.plan : o \in offers} \cup Range(todo)
        /\ pc = "answered" => todo = <<>>
    BY <1>3 DEF OfferInv, SearchInv
  <2>2. /\ seen'.since = seen.since
        /\ seen.quotes \subseteq seen'.quotes /\ seen.free \subseteq seen'.free
        /\ seen'.bookable \subseteq seen.bookable
    BY <1>1, <1>3, ObserveLater
  <2>3. Running' => SeenNow'
    BY <1>1, ObserveRunning DEF Running
  <2>4. writes' = seen.since => Still /\ writes = seen.since
    BY <2>1 DEF Still, Written
  <2>5. pc = "units" => /\ todo # <<>>
                        /\ Head(todo) \in Sold
                        /\ <<Head(todo), quote>> \in seen.quotes
                        /\ writes = seen.since => QuoteStands(Head(todo), quote)
    BY <1>3 DEF OfferInv, SearchInv
  <2>6. \A o \in offers :
           /\ <<o.plan, o.quote>> \in seen.quotes
           /\ <<o.plan, o.unitsLeft>> \in seen.free
           /\ writes = seen.since => QuoteStands(o.plan, o.quote) /\ RoomsStand(o.plan)
    BY <1>3 DEF OfferInv, SearchInv
  <2>7. ASSUME writes' = seen'.since, NEW plan, NEW q
        PROVE  /\ QuoteStands(plan, q)' <=> QuoteStands(plan, q)
               /\ RoomsStand(plan)' <=> RoomsStand(plan)
    BY <1>1, <2>2, <2>4, <2>7, StillStands
  <2>8. pc' = "units" => /\ todo' # <<>>
                         /\ Head(todo') \in Sold
                         /\ <<Head(todo'), quote'>> \in seen'.quotes
                         /\ writes' = seen'.since => QuoteStands(Head(todo), quote)'
    BY <1>1, <2>2, <2>4, <2>5, <2>7
  <2>9. \A o \in offers' :
           /\ <<o.plan, o.quote>> \in seen'.quotes
           /\ <<o.plan, o.unitsLeft>> \in seen'.free
           /\ writes' = seen'.since => QuoteStands(o.plan, o.quote)' /\ RoomsStand(o.plan)'
    BY <1>1, <2>2, <2>4, <2>6, <2>7
  <2>10. seen'.since <= writes' /\ seen'.since \in Nat
    BY <2>1, <2>2 DEF Still, Written
  <2>11. SearchInv'
    BY <1>1, <2>1, <2>2, <2>3, <2>8, <2>9, <2>10 DEF SearchInv
  <2> QED
    BY <1>1, <1>3, <2>11
<1> QED
  BY <1>2, <1>3

-----------------------------------------------------------------------------
(* A plan in a search *)

\* What has been checked of a search before it reads anything.
LEMMA SearchedFacts ==
    ASSUME search \in Searched
    PROVE  /\ search.guests \in Int /\ search.guests >= 1
           /\ search.stay.checkIn \in Int /\ search.stay.checkOut \in Int
           /\ search.stay.checkIn < search.stay.checkOut
           /\ StayDates(search.stay) \subseteq Dates
           /\ search.stay.checkIn .. search.stay.checkOut \subseteq RateDates
<1>1. /\ search \in Requests /\ search.guests >= 1
      /\ StayError(search.stay.checkIn, search.stay.checkOut) = None
  BY DEF Searched
<1> QED
  BY <1>1, SearchedStay, RequestsAssumption

\* What book refuses, the loop of Search leaves out for the same reasons, but for
\* a total that the table refuses.
LEMMA BookableIsQuoted ==
    ASSUME search \in Searched, NEW plan \in Sold, BookError(plan, search) = None
    PROVE  QuoteStands(plan, BookQuote(plan, search.stay))
<1>1. search.guests \in Int /\ RoomTypeOf[plan] \in RoomTypes /\ MaxOccupancy[RoomTypeOf[plan]] \in Int
  BY SearchedFacts, CatalogueAssumption DEF Sold
<1>2. QuoteError(search.stay, RatesOf(plan, search.stay)) = None
  BY <1>1 DEF BookError
<1>3. ~(search.guests > MaxOccupancy[RoomTypeOf[plan]])
  BY <1>1, <1>2, NoneAssumption DEF BookError
<1>4. Fits(plan)
  BY <1>1, <1>3 DEF Fits
<1> QED
  BY <1>2, <1>4 DEF QuoteStands

LEMMA QuotedIsBookable ==
    ASSUME search \in Searched, NEW plan, NEW q, QuoteStands(plan, q), ~(q.total < 0)
    PROVE  BookError(plan, search) = None
<1>1. search.guests \in Int /\ RoomTypeOf[plan] \in RoomTypes /\ MaxOccupancy[RoomTypeOf[plan]] \in Int
  BY SearchedFacts, CatalogueAssumption DEF QuoteStands, Fits
<1>2. /\ MaxOccupancy[RoomTypeOf[plan]] >= search.guests
      /\ QuoteError(search.stay, RatesOf(plan, search.stay)) = None
      /\ q = Quote(search.stay, RatesOf(plan, search.stay))
  BY DEF QuoteStands, Fits, BookQuote
<1>3. ~(search.guests < 1) /\ ~(search.guests > MaxOccupancy[RoomTypeOf[plan]])
  BY <1>1, <1>2, SearchedFacts
<1>4. Validates(Quote(search.stay, RatesOf(plan, search.stay)))
  BY SearchedFacts, QuotesValidate
<1> QED
  BY <1>1, <1>2, <1>3, <1>4 DEF BookError

\* A quote that stands is one that the calendar says.
LEMMA QuoteIsSeen ==
    ASSUME search \in Searched, NEW plan \in Sold, NEW q, QuoteStands(plan, q)
    PROVE  <<plan, q>> \in Moment.quotes
<1>1. /\ QuoteError(search.stay, calendar[plan]) = None
      /\ q = Quote(search.stay, calendar[plan])
  BY SearchedFacts, RatesReadSuffice DEF QuoteStands, BookQuote
<1>2. q \in Quoted(plan, search.stay)
  BY <1>1 DEF Quoted
<1>3. <<plan, q>> \in {plan} \X Quoted(plan, search.stay)
  BY <1>2
<1>4. <<plan, q>> \in UNION {{other} \X Quoted(other, search.stay) : other \in Sold}
  BY <1>3
<1> QED
  BY <1>4 DEF Moment

LEMMA FreeIsSeen ==
    ASSUME NEW plan \in Sold
    PROVE  <<plan, Free(plan, search.stay)>> \in Moment.free
BY DEF Moment

\* A list is its first entry and the others.
LEMMA RangeOfList ==
    ASSUME NEW S, NEW list \in Seq(S), list # <<>>
    PROVE  /\ Head(list) \in Range(list)
           /\ Tail(list) \in Seq(S)
           /\ Range(Tail(list)) \subseteq Range(list)
           /\ Range(list) \subseteq {Head(list)} \cup Range(Tail(list))
<1>1. /\ Len(list) \in Nat /\ Len(list) >= 1 /\ DOMAIN list = 1 .. Len(list)
      /\ Head(list) = list[1]
  BY EmptySeq
<1>2. /\ Tail(list) \in Seq(S) /\ Len(Tail(list)) = Len(list) - 1
      /\ DOMAIN Tail(list) = 1 .. (Len(list) - 1)
      /\ \A i \in 1 .. (Len(list) - 1) : Tail(list)[i] = list[i + 1]
  BY <1>1
<1>3. Head(list) \in Range(list)
  BY <1>1 DEF Range
<1>4. Range(Tail(list)) \subseteq Range(list)
  BY <1>1, <1>2 DEF Range
<1>5. Range(list) \subseteq {Head(list)} \cup Range(Tail(list))
  <2> SUFFICES ASSUME NEW i \in 1 .. Len(list), list[i] # Head(list)
               PROVE  list[i] \in Range(Tail(list))
    BY <1>1 DEF Range
  <2>1. i - 1 \in 1 .. (Len(list) - 1)
    BY <1>1
  <2>2. Tail(list)[i - 1] = list[i]
    BY <1>1, <1>2, <2>1
  <2> QED
    BY <1>2, <2>1, <2>2 DEF Range
<1> QED
  BY <1>2, <1>3, <1>4, <1>5

-----------------------------------------------------------------------------
(* Every step preserves OfferInv *)

\* The steps of a search commit nothing and leave the booking alone.
LEMMA StillInv ==
    ASSUME OfferInv, Observe, Still, UNCHANGED <<booking, paid>>,
           pc' \in {"idle", "rates", "units", "answered"},
           IF pc' = "idle" THEN offers' = {} ELSE SearchInv'
    PROVE  OfferInv'
<1>1. allotment' \in [Rooms!Rows -> Nat] /\ writes' \in Nat
  BY DEF OfferInv, Still, ledger
<1>2. booking' # None => booking'.quote \in priced'
  BY BookingKept
<1> QED
  BY <1>1, <1>2 DEF OfferInv

LEMMA BeginInv ==
    ASSUME OfferInv, Observe, NEW request \in Requests, Begin(request)
    PROVE  OfferInv'
<1>1. /\ pc = "idle" /\ pc' = "rates" /\ search' = request
      /\ todo' = PlanOrder /\ offers' = {} /\ Still /\ UNCHANGED <<booking, paid>>
  BY DEF Begin, Still
<1>2. search' \in Searched
  BY <1>1 DEF Begin, Searched
<1>3. seen' = Moment'
  BY <1>1 DEF Observe
<1>4. seen'.since = writes' /\ seen'.bookable \subseteq Sold
  BY <1>3 DEF Moment
<1>5. writes' \in Nat
  BY <1>1 DEF OfferInv, Still
<1>6. SeenNow'
  BY <1>1, ObserveRunning
<1>7. seen'.bookable \subseteq Range(todo')
  BY <1>1, <1>4, CatalogueAssumption
<1>8. SearchInv'
  BY <1>1, <1>2, <1>4, <1>5, <1>6, <1>7, CatalogueAssumption DEF SearchInv
<1> QED
  BY <1>1, <1>8, StillInv

\* What a running search keeps, whatever it has just read.
LEMMA SearchGoesOn ==
    ASSUME OfferInv, Observe, Still, UNCHANGED search,
           pc \in {"rates", "units"}, pc' \in {"rates", "units", "answered"}
    PROVE  /\ search' \in Searched
           /\ seen'.since = seen.since /\ seen'.since \in Nat /\ seen'.since <= writes'
           /\ Running' => SeenNow'
           /\ seen.quotes \subseteq seen'.quotes /\ seen.free \subseteq seen'.free
           /\ seen'.bookable \subseteq seen.bookable
           /\ \A o \in offers :
                  /\ <<o.plan, o.quote>> \in seen'.quotes
                  /\ <<o.plan, o.unitsLeft>> \in seen'.free
                  /\ writes' = seen'.since => QuoteStands(o.plan, o.quote)' /\ RoomsStand(o.plan)'
<1>1. /\ search \in Searched /\ seen.since \in Nat /\ seen.since <= writes
      /\ \A o \in offers :
           /\ <<o.plan, o.quote>> \in seen.quotes
           /\ <<o.plan, o.unitsLeft>> \in seen.free
           /\ writes = seen.since => QuoteStands(o.plan, o.quote) /\ RoomsStand(o.plan)
  BY DEF OfferInv, SearchInv
<1>2. /\ seen'.since = seen.since
      /\ seen.quotes \subseteq seen'.quotes /\ seen.free \subseteq seen'.free
      /\ seen'.bookable \subseteq seen.bookable
  BY ObserveLater
<1>3. Running' => SeenNow'
  BY ObserveRunning DEF Running
<1>4. writes' = writes
  BY DEF Still
<1>5. ASSUME NEW o \in offers
      PROVE  /\ <<o.plan, o.quote>> \in seen'.quotes
             /\ <<o.plan, o.unitsLeft>> \in seen'.free
             /\ writes' = seen'.since => QuoteStands(o.plan, o.quote)' /\ RoomsStand(o.plan)'
  <2> DEFINE plan == o.plan
             q == o.quote
  <2>1. writes = seen.since => QuoteStands(plan, q) /\ RoomsStand(plan)
    BY <1>1
  <2> HIDE DEF plan, q
  <2>2. (\A r : QuoteStands(plan, r)' <=> QuoteStands(plan, r)) /\ (RoomsStand(plan)' <=> RoomsStand(plan))
    BY StillStands
  <2> QED
    BY <1>1, <1>2, <1>4, <2>1, <2>2 DEF plan, q
<1> QED
  BY <1>1, <1>2, <1>3, <1>4, <1>5

\* The plan that is left out for its room type or its rates could not have been
\* booked at this moment.
LEMMA ReadRatesInv ==
    ASSUME OfferInv, Observe, ReadRates
    PROVE  OfferInv'
<1> DEFINE plan == Head(todo)
<1>1. /\ pc = "rates" /\ todo # <<>> /\ Still /\ UNCHANGED <<booking, paid>>
      /\ search' = search /\ offers' = offers
  BY DEF ReadRates, Still
<1>2. SearchInv
  BY <1>1 DEF OfferInv
<1>3. /\ search \in Searched /\ todo \in Seq(DOMAIN RoomTypeOf)
      /\ Range(todo) \subseteq Range(PlanOrder)
      /\ seen.bookable \subseteq {o.plan : o \in offers} \cup Range(todo)
  BY <1>2 DEF SearchInv
<1>4. plan \in Range(todo)
  BY <1>1, <1>3, RangeOfList
<1>5. CASE Fits(plan) /\ QuoteError(search.stay, RatesOf(plan, search.stay)) = None
  <2>1. /\ quote' = BookQuote(plan, search.stay) /\ pc' = "units" /\ todo' = todo
    BY <1>5 DEF ReadRates, BookQuote
  <2>2. plan \in Sold
    BY <1>3, <1>4, <1>5, CatalogueAssumption DEF Fits
  <2>3. QuoteStands(plan, quote')
    BY <1>5, <2>1 DEF QuoteStands
  <2>4. QuoteStands(plan, quote)'
    BY <1>1, <2>1, <2>3, StillStands DEF QuoteStands, Fits, BookQuote, RatesOf, Still
  <2>5. <<plan, quote'>> \in seen'.quotes
    <3>1. <<plan, quote'>> \in Moment.quotes
      BY <1>3, <2>2, <2>3, QuoteIsSeen
    <3>2. Moment.quotes \subseteq seen.quotes
      BY <1>1, <1>2 DEF SearchInv, Running, SeenNow
    <3> QED
      BY <1>1, <2>1, <3>1, <3>2, SearchGoesOn
  <2>6. SearchInv'
    BY <1>1, <1>3, <2>1, <2>2, <2>4, <2>5, SearchGoesOn DEF SearchInv
  <2> QED
    BY <1>1, <2>1, <2>6, StillInv
<1>6. CASE ~(Fits(plan) /\ QuoteError(search.stay, RatesOf(plan, search.stay)) = None)
  <2>1. todo' = Tail(todo) /\ pc' = "rates"
    BY <1>1, <1>6 DEF ReadRates
  <2>2. plan \notin seen.bookable
    <3> SUFFICES ASSUME plan \in seen.bookable PROVE FALSE
      OBVIOUS
    <3>1. seen.bookable \subseteq Moment.bookable
      BY <1>1, <1>2 DEF SearchInv, Running, SeenNow
    <3>2. plan \in Sold /\ BookError(plan, search) = None
      BY <3>1 DEF Moment, Bookable
    <3> QED
      BY <1>3, <1>6, <3>2, BookableIsQuoted DEF QuoteStands
  <2>3. /\ todo' \in Seq(DOMAIN RoomTypeOf)
        /\ Range(todo') \subseteq Range(PlanOrder)
        /\ Range(todo) \subseteq {plan} \cup Range(todo')
    BY <1>1, <1>3, <2>1, RangeOfList
  <2>4. seen'.bookable \subseteq {o.plan : o \in offers} \cup Range(todo')
    BY <1>1, <1>3, <2>1, <2>2, <2>3, SearchGoesOn
  <2>5. SearchInv'
    BY <1>1, <2>1, <2>3, <2>4, SearchGoesOn DEF SearchInv
  <2> QED
    BY <1>1, <2>1, <2>5, StillInv
<1> QED
  BY <1>5, <1>6

\* A plan is offered with rooms that are free, or left out when it could not
\* have been booked.
LEMMA ReadUnitsInv ==
    ASSUME OfferInv, Observe, ReadUnits
    PROVE  OfferInv'
<1>0. PICK plan, units : plan = Head(todo) /\ units = UnitsLeft(plan, search.stay)
  OBVIOUS
<1>1. /\ pc = "units" /\ pc' = "rates" /\ Still /\ UNCHANGED <<booking, paid>>
      /\ search' = search /\ todo' = Tail(todo)
      /\ offers' = IF units < 1 THEN offers ELSE offers \cup {Offer(plan, units)}
  BY <1>0 DEF ReadUnits, Still
<1>2. SearchInv
  BY <1>1 DEF OfferInv
<1>3. /\ search \in Searched /\ todo \in Seq(DOMAIN RoomTypeOf) /\ todo # <<>>
      /\ Range(todo) \subseteq Range(PlanOrder)
      /\ seen.bookable \subseteq {o.plan : o \in offers} \cup Range(todo)
      /\ plan \in Sold /\ <<plan, quote>> \in seen.quotes
      /\ writes = seen.since => QuoteStands(plan, quote)
      /\ SeenNow
  BY <1>0, <1>1, <1>2 DEF SearchInv, Running
<1>4. /\ todo' \in Seq(DOMAIN RoomTypeOf)
      /\ Range(todo') \subseteq Range(PlanOrder)
      /\ Range(todo) \subseteq {plan} \cup Range(todo')
  BY <1>0, <1>1, <1>3, RangeOfList
<1>5. allotment \in [Rooms!Rows -> Nat]
  BY DEF OfferInv
<1>6. /\ units \in Int
      /\ units >= 1 =>
             /\ Rooms!Nights(Body(plan, search.stay)) \subseteq published
             /\ \A row \in Rooms!Nights(Body(plan, search.stay)) : Rooms!RoomsLeft(row) >= 1
             /\ Free(plan, search.stay) = units
  BY <1>0, <1>3, <1>5, SearchedFacts, UnitsAreFree
<1>7. CASE units < 1
  <2>1. plan \notin seen.bookable
    <3>1. plan \in seen.bookable => UnitsLeft(plan, search.stay) >= 1
      BY <1>3 DEF SeenNow, Moment, Bookable
    <3> QED
      BY <1>0, <1>6, <1>7, <3>1
  <2>2. offers' = offers
    BY <1>1, <1>7
  <2>3. seen'.bookable \subseteq {o.plan : o \in offers'} \cup Range(todo')
    BY <1>1, <1>3, <1>4, <2>1, <2>2, SearchGoesOn
  <2>4. SearchInv'
    BY <1>1, <1>4, <2>2, <2>3, SearchGoesOn DEF SearchInv
  <2> QED
    BY <1>1, <2>4, StillInv
<1>8. CASE ~(units < 1)
  <2>1. offers' = offers \cup {Offer(plan, units)}
    BY <1>1, <1>8
  <2>2. /\ Offer(plan, units).plan = plan /\ Offer(plan, units).quote = quote
        /\ Offer(plan, units).unitsLeft = units
    BY DEF Offer
  <2>3. units >= 1
    BY <1>6, <1>8
  <2>4. <<plan, quote>> \in seen'.quotes /\ <<plan, units>> \in seen'.free
    <3>1. <<plan, units>> \in Moment.free
      BY <1>3, <1>6, <2>3, FreeIsSeen
    <3> QED
      BY <1>1, <1>3, <3>1, SearchGoesOn DEF SeenNow
  <2>5. RoomsStand(plan)
    BY <1>6, <2>3 DEF RoomsStand
  <2>6. writes' = seen'.since => QuoteStands(plan, quote)
    BY <1>1, <1>3, SearchGoesOn DEF Still
  <2>7. (\A q : QuoteStands(plan, q)' <=> QuoteStands(plan, q)) /\ (RoomsStand(plan)' <=> RoomsStand(plan))
    BY <1>1, StillStands
  <2>8. \A o \in offers' :
           /\ <<o.plan, o.quote>> \in seen'.quotes
           /\ <<o.plan, o.unitsLeft>> \in seen'.free
           /\ writes' = seen'.since => QuoteStands(o.plan, o.quote)' /\ RoomsStand(o.plan)'
    <3>1. \A o \in offers :
           /\ <<o.plan, o.quote>> \in seen'.quotes
           /\ <<o.plan, o.unitsLeft>> \in seen'.free
           /\ writes' = seen'.since => QuoteStands(o.plan, o.quote)' /\ RoomsStand(o.plan)'
      BY <1>1, SearchGoesOn
    <3> QED
      BY <2>1, <2>2, <2>4, <2>5, <2>6, <2>7, <3>1
  <2>9. seen'.bookable \subseteq {o.plan : o \in offers'} \cup Range(todo')
    <3>1. plan \in {o.plan : o \in offers'} /\ {o.plan : o \in offers} \subseteq {o.plan : o \in offers'}
      BY <2>1, <2>2
    <3> QED
      BY <1>1, <1>3, <1>4, <3>1, SearchGoesOn
  <2>10. SearchInv'
    BY <1>1, <1>4, <2>8, <2>9, SearchGoesOn DEF SearchInv
  <2> QED
    BY <1>1, <2>10, StillInv
<1> QED
  BY <1>7, <1>8

\* The answer, and the end of the search.
LEMMA AnswerInv ==
    ASSUME OfferInv, Observe, Answer
    PROVE  OfferInv'
<1>1. /\ pc = "rates" /\ pc' = "answered" /\ todo = <<>> /\ Still
      /\ UNCHANGED <<search, todo, offers, booking, paid>>
  BY DEF Answer, Still
<1>2. /\ todo \in Seq(DOMAIN RoomTypeOf) /\ Range(todo) \subseteq Range(PlanOrder)
      /\ seen.bookable \subseteq {o.plan : o \in offers} \cup Range(todo)
  BY <1>1 DEF OfferInv, SearchInv
<1>3. SearchInv'
  BY <1>1, <1>2, SearchGoesOn DEF SearchInv
<1> QED
  BY <1>1, <1>3, StillInv

LEMMA LeaveInv ==
    ASSUME OfferInv, Observe, Leave
    PROVE  OfferInv'
<1>1. pc' = "idle" /\ offers' = {} /\ Still /\ UNCHANGED <<booking, paid>>
  BY DEF Leave, Still
<1> QED
  BY <1>1, StillInv

\* A booking reads its rates: its quote is the calendar's at this moment.
LEMMA BookReadInv ==
    ASSUME OfferInv, Observe, NEW plan \in Sold, NEW request \in Requests, BookRead(plan, request)
    PROVE  OfferInv'
<1> DEFINE stay == request.stay
<1>1. /\ Still /\ UNCHANGED finding /\ calendar' = calendar
      /\ StayError(stay.checkIn, stay.checkOut) = None
      /\ BookError(plan, request) = None
      /\ booking' = [request |-> request, plan |-> plan, quote |-> BookQuote(plan, stay)]
  BY DEF BookRead, Still
<1>2. QuoteError(stay, RatesOf(plan, stay)) = None
  BY <1>1, NoneAssumption DEF BookError
<1>3. /\ QuoteError(stay, calendar[plan]) = None
      /\ BookQuote(plan, stay) = Quote(stay, calendar[plan])
  BY <1>1, <1>2, SearchedStay, RatesReadSuffice DEF BookQuote
<1>4. booking' # None => booking'.quote \in priced'
  <2> SUFFICES ASSUME booking' # None PROVE booking'.quote \in priced'
    OBVIOUS
  <2>1. booking'.plan = plan /\ booking'.request.stay = stay /\ booking'.quote = BookQuote(plan, stay)
    BY <1>1
  <2>2. QuotedToBooking' = Quoted(booking.plan, booking.request.stay)'
    BY DEF QuotedToBooking
  <2>3. Quoted(booking.plan, booking.request.stay)' = {Quote(stay, calendar[plan])}
    BY <1>1, <1>3, <2>1 DEF Quoted
  <2>4. priced' = priced \cup QuotedToBooking'
    BY DEF Observe
  <2> QED
    BY <1>3, <2>1, <2>2, <2>3, <2>4
<1>5. allotment' \in [Rooms!Rows -> Nat] /\ writes' \in Nat
  BY <1>1 DEF OfferInv, Still, ledger
<1>6. pc' \in {"idle", "rates", "units", "answered"}
  BY <1>1 DEF OfferInv, finding
<1>7. IF pc' = "idle" THEN offers' = {} ELSE SearchInv'
  BY <1>1, <1>5, SearchKept
<1> QED
  BY <1>4, <1>5, <1>6, <1>7 DEF OfferInv

\* A booking ends, with or without a reservation.
LEMMA BookEndInv ==
    ASSUME OfferInv, Observe, BookFails \/ \E k \in Keys, r \in References : BookCommit(k, r)
    PROVE  OfferInv'
<1>1. UNCHANGED finding /\ booking' = None /\ (Still \/ Written)
  BY DEF BookFails, BookCommit, Still, Written, Write
<1>2. allotment' \in [Rooms!Rows -> Nat] /\ writes' \in Nat
  <2>1. allotment' = allotment
    BY DEF BookFails, BookCommit, ledger, Rooms!Reserve
  <2> QED
    BY <1>1, <2>1 DEF OfferInv, Still, Written
<1>3. pc' \in {"idle", "rates", "units", "answered"}
  BY <1>1 DEF OfferInv, finding
<1>4. IF pc' = "idle" THEN offers' = {} ELSE SearchInv'
  BY <1>1, <1>2, SearchKept
<1> QED
  BY <1>1, <1>2, <1>3, <1>4 DEF OfferInv

\* Staff and other guests commit.
LEMMA ElsewhereInv ==
    ASSUME OfferInv, Observe, Elsewhere
    PROVE  OfferInv'
<1>1. UNCHANGED finding /\ UNCHANGED booking /\ Written
  BY DEF Elsewhere, Written, Write
<1>2. allotment' \in [Rooms!Rows -> Nat]
  <2>1. CASE allotment' = allotment
    BY <2>1 DEF OfferInv
  <2>2. ASSUME NEW rows \in SUBSET Rooms!Rows, NEW n \in Counts, Rooms!Publish(rows, n)
        PROVE  allotment' \in [Rooms!Rows -> Nat]
    <3>1. n \in Nat
      BY RoomsAssumption
    <3> QED
      BY <2>2, <3>1 DEF OfferInv, Rooms!Publish
  <2>3. ASSUME NEW r \in References, Rooms!Cancel(r, now)
        PROVE  allotment' = allotment
    BY <2>3 DEF Rooms!Cancel
  <2>4. \/ \E r \in References : Rooms!Cancel(r, now)
        \/ \E rows \in SUBSET Rooms!Rows, n \in Counts : Rooms!Publish(rows, n)
        \/ allotment' = allotment
    BY DEF Elsewhere, ledger
  <2> QED
    BY <2>1, <2>2, <2>3, <2>4
<1>3. writes' \in Nat
  BY <1>1 DEF OfferInv, Written
<1>4. pc' \in {"idle", "rates", "units", "answered"}
  BY <1>1 DEF OfferInv, finding
<1>5. IF pc' = "idle" THEN offers' = {} ELSE SearchInv'
  BY <1>1, <1>3, SearchKept
<1>6. booking' # None => booking'.quote \in priced'
  BY <1>1, BookingKept
<1> QED
  BY <1>2, <1>3, <1>4, <1>5, <1>6 DEF OfferInv

\* What is true now does not change while nothing does.
LEMMA StutterInv ==
    ASSUME OfferInv, UNCHANGED vars
    PROVE  OfferInv'
<1>1. /\ Still /\ UNCHANGED <<pc, search, todo, quote, offers, booking, paid, seen, priced>>
  BY DEF vars, finding, Still
<1>2. ledger' = ledger /\ calendar' = calendar /\ writes' = writes
  BY <1>1 DEF Still
<1>3. Moment' = Moment
  <2>1. \A plan, stay : RatesOf(plan, stay)' = RatesOf(plan, stay)
    BY <1>2 DEF RatesOf
  <2>2. \A plan : BookError(plan, search)' = BookError(plan, search)
    BY <1>1, <2>1 DEF BookError
  <2>3. /\ \A row : Rooms!Occupants(row)' = Rooms!Occupants(row)
        /\ \A row : Rooms!RoomsLeft(row)' = Rooms!RoomsLeft(row)
    BY <1>2 DEF ledger, Rooms!Occupants, Rooms!RoomsLeft
  <2>4. \A plan : UnitsLeft(plan, search.stay)' = UnitsLeft(plan, search.stay)
    BY <1>1, <1>2, <2>3 DEF ledger, UnitsLeft, AllotmentsOf
  <2>5. \A plan : Bookable(plan)' <=> Bookable(plan)
    BY <2>2, <2>4 DEF Bookable
  <2>6. \A plan : Quoted(plan, search.stay)' = Quoted(plan, search.stay)
    BY <1>1, <1>2 DEF Quoted
  <2>7. \A plan : Free(plan, search.stay)' = Free(plan, search.stay)
    BY <1>1, <1>2, <2>3 DEF ledger, Free
  <2> QED
    BY <1>2, <2>5, <2>6, <2>7 DEF Moment
<1>4. SeenNow' <=> SeenNow
  BY <1>1, <1>3 DEF SeenNow
<1>5. \A plan : /\ \A q : QuoteStands(plan, q)' <=> QuoteStands(plan, q)
                /\ RoomsStand(plan)' <=> RoomsStand(plan)
  BY <1>1, StillStands
<1>6. SearchInv' <=> SearchInv
  BY <1>1, <1>2, <1>4, <1>5 DEF SearchInv, Running
<1> QED
  BY <1>1, <1>2, <1>6 DEF OfferInv, ledger

-----------------------------------------------------------------------------
(* Rooms and rates change as Ledger and RateCalendar say *)

\* A night that no further guest gets, and whose rooms are not fewer, has no
\* fewer rooms left.
LEMMA RoomsLeftKept ==
    ASSUME allotment \in [Rooms!Rows -> Nat], NEW row \in Rooms!Rows,
           allotment' \in [Rooms!Rows -> Nat], allotment'[row] = allotment[row],
           Rooms!Occupants(row)' \subseteq Rooms!Occupants(row), Rooms!RoomsLeft(row) >= 0
    PROVE  Rooms!RoomsLeft(row)' >= 0
<1>1. IsFiniteSet(Rooms!Occupants(row)) /\ IsFiniteSet(Rooms!Occupants(row)')
  <2>1. Rooms!Occupants(row) \subseteq References
    BY DEF Rooms!Occupants
  <2> QED
    BY <2>1, RoomsAssumption, FS_Subset
<1>2. /\ Cardinality(Rooms!Occupants(row)') <= Cardinality(Rooms!Occupants(row))
      /\ Cardinality(Rooms!Occupants(row)') \in Nat /\ Cardinality(Rooms!Occupants(row)) \in Nat
  BY <1>1, FS_Subset, FS_CardinalityType
<1>3. /\ Rooms!RoomsLeft(row) = allotment[row] - Cardinality(Rooms!Occupants(row))
      /\ Rooms!RoomsLeft(row)' = allotment'[row] - Cardinality(Rooms!Occupants(row)')
  BY SameCount DEF Rooms!RoomsLeft
<1> QED
  BY <1>2, <1>3

\* A booking takes one room of each of its nights, and each has one.
LEMMA ReserveRooms ==
    ASSUME allotment \in [Rooms!Rows -> Nat], RoomsInv,
           NEW k \in Keys, NEW b, NEW r \in References, Rooms!Reserve(k, b, r)
    PROVE  \A row \in Rooms!Rows : Rooms!RoomsLeft(row)' >= 0
<1> SUFFICES ASSUME NEW row \in Rooms!Rows PROVE Rooms!RoomsLeft(row)' >= 0
  OBVIOUS
<1> DEFINE made == [body |-> b, status |-> "confirmed", cancelledAt |-> None]
<1>1. /\ allotment' = allotment
      /\ reservations'[r] = made
      /\ \A s \in References \ {r} : reservations'[s] = reservations[s]
  BY DEF Rooms!Reserve, RoomsInv
<1>2. CASE row \notin Rooms!Nights(b)
  <2>1. Rooms!Nights(b)' = Rooms!Nights(b)
    BY DEF Rooms!Nights
  <2>2. r \notin Rooms!Occupants(row)'
    BY <1>1, <1>2 DEF Rooms!Occupants, Rooms!Nights
  <2>3. \A s \in References \ {r} : s \in Rooms!Occupants(row)' => s \in Rooms!Occupants(row)
    BY <1>1 DEF Rooms!Occupants, Rooms!Nights
  <2>4. Rooms!Occupants(row)' \subseteq Rooms!Occupants(row)
    BY <2>2, <2>3 DEF Rooms!Occupants
  <2> QED
    BY <1>1, <2>4, RoomsLeftKept DEF RoomsInv
<1>3. CASE row \in Rooms!Nights(b)
  <2>1. Rooms!RoomsLeft(row) >= 1
    BY <1>3 DEF Rooms!Reserve
  <2>2. Rooms!Occupants(row)' \subseteq Rooms!Occupants(row) \cup {r}
    <3>1. \A s \in References \ {r} : s \in Rooms!Occupants(row)' => s \in Rooms!Occupants(row)
      BY <1>1 DEF Rooms!Occupants, Rooms!Nights
    <3> QED
      BY <3>1 DEF Rooms!Occupants
  <2>3. IsFiniteSet(Rooms!Occupants(row))
    BY RoomsAssumption, FS_Subset DEF Rooms!Occupants
  <2>4. /\ IsFiniteSet(Rooms!Occupants(row) \cup {r})
        /\ Cardinality(Rooms!Occupants(row) \cup {r}) <= Cardinality(Rooms!Occupants(row)) + 1
    <3>1. /\ IsFiniteSet(Rooms!Occupants(row) \cup {r})
          /\ \/ Cardinality(Rooms!Occupants(row) \cup {r}) = Cardinality(Rooms!Occupants(row))
             \/ Cardinality(Rooms!Occupants(row) \cup {r}) = Cardinality(Rooms!Occupants(row)) + 1
      BY <2>3, FS_AddElement
    <3>2. Cardinality(Rooms!Occupants(row)) \in Nat
      BY <2>3, FS_CardinalityType
    <3> QED
      BY <3>1, <3>2
  <2>5. /\ Cardinality(Rooms!Occupants(row)') <= Cardinality(Rooms!Occupants(row) \cup {r})
        /\ Cardinality(Rooms!Occupants(row)') \in Nat /\ Cardinality(Rooms!Occupants(row)) \in Nat
        /\ Cardinality(Rooms!Occupants(row) \cup {r}) \in Nat
    BY <2>2, <2>3, <2>4, FS_Subset, FS_CardinalityType
  <2>6. /\ Rooms!RoomsLeft(row) = allotment[row] - Cardinality(Rooms!Occupants(row))
        /\ Rooms!RoomsLeft(row)' = allotment'[row] - Cardinality(Rooms!Occupants(row)')
    BY SameCount DEF Rooms!RoomsLeft
  <2> QED
    BY <1>1, <2>1, <2>4, <2>5, <2>6
<1> QED
  BY <1>2, <1>3

\* A cancellation takes none.
LEMMA CancelRooms ==
    ASSUME allotment \in [Rooms!Rows -> Nat], RoomsInv, NEW r \in References, NEW at, Rooms!Cancel(r, at)
    PROVE  \A row \in Rooms!Rows : Rooms!RoomsLeft(row)' >= 0
<1> SUFFICES ASSUME NEW row \in Rooms!Rows PROVE Rooms!RoomsLeft(row)' >= 0
  OBVIOUS
<1>1. /\ allotment' = allotment
      /\ reservations'[r].status = "cancelled"
      /\ \A s \in References \ {r} : reservations'[s] = reservations[s]
  BY DEF Rooms!Cancel, RoomsInv
<1>2. Rooms!Occupants(row)' \subseteq Rooms!Occupants(row)
  <2>1. \A s \in References \ {r} : s \in Rooms!Occupants(row)' => s \in Rooms!Occupants(row)
    BY <1>1 DEF Rooms!Occupants, Rooms!Nights
  <2>2. r \notin Rooms!Occupants(row)'
    BY <1>1 DEF Rooms!Occupants
  <2> QED
    BY <2>1, <2>2 DEF Rooms!Occupants
<1> QED
  BY <1>1, <1>2, RoomsLeftKept DEF RoomsInv

\* Staff publish no fewer rooms than are taken.
LEMMA PublishRooms ==
    ASSUME allotment \in [Rooms!Rows -> Nat], RoomsInv,
           NEW rows \in SUBSET Rooms!Rows, NEW n \in Counts, Rooms!Publish(rows, n)
    PROVE  \A row \in Rooms!Rows : Rooms!RoomsLeft(row)' >= 0
<1> SUFFICES ASSUME NEW row \in Rooms!Rows PROVE Rooms!RoomsLeft(row)' >= 0
  OBVIOUS
<1>1. /\ n \in Nat /\ allotment' \in [Rooms!Rows -> Nat]
      /\ allotment'[row] = IF row \in rows THEN n ELSE allotment[row]
      /\ Rooms!Occupants(row)' = Rooms!Occupants(row)
  BY RoomsAssumption DEF Rooms!Publish, Rooms!Occupants
<1>2. CASE row \in rows
  <2>1. Cardinality(Rooms!Occupants(row)) <= n
    BY <1>2, SameCount DEF Rooms!Publish
  <2>2. Rooms!RoomsLeft(row)' = n - Cardinality(Rooms!Occupants(row))
    BY <1>1, <1>2, SameCount DEF Rooms!RoomsLeft
  <2> QED
    BY <1>1, <2>1, <2>2, RoomsLeftCount
<1>3. CASE row \notin rows
  BY <1>1, <1>3, RoomsLeftKept DEF RoomsInv
<1> QED
  BY <1>2, <1>3

\* What a booking has read is a stay of Ledger.
LEMMA BookedBody ==
    ASSUME NEW plan \in Sold, NEW request \in Requests, BookRead(plan, request)
    PROVE  Body(booking.plan, booking.request.stay)' \in Bodies
<1>1. booking'.plan = plan /\ booking'.request.stay = request.stay
  BY DEF BookRead
<1>2. Body(booking.plan, booking.request.stay)' = Body(plan, request.stay)
  BY <1>1 DEF Body
<1> QED
  BY <1>2 DEF BookRead, Bodies

\* A step of Search is a step of Ledger for its rooms, and a step of
\* RateCalendar for its rates.
LEMMA StepKeepsTo ==
    ASSUME RoomsInv, [Next]_vars
    PROVE  /\ Rooms!Next \/ UNCHANGED ledger
           /\ Rates!Next \/ UNCHANGED calendar
<1>1. CASE UNCHANGED <<ledger, calendar>>
  BY <1>1
<1>2. ASSUME NEW k \in Keys, NEW r \in References, BookCommit(k, r)
      PROVE  Rooms!Next /\ UNCHANGED calendar
  <2>1. Body(booking.plan, booking.request.stay) \in Bodies
    BY <1>2 DEF RoomsInv, BookCommit
  <2> QED
    BY <1>2, <2>1 DEF BookCommit, Rooms!Next
<1>3. CASE Elsewhere
  <2>1. now \in 0 .. MaxTime
    BY RoomsAssumption DEF RoomsInv
  <2> QED
    BY <1>3, <2>1 DEF Elsewhere, Rooms!Next
<1>4. \/ UNCHANGED <<ledger, calendar>>
      \/ Elsewhere
      \/ \E k \in Keys, r \in References : BookCommit(k, r)
  BY DEF Next, Step, vars, Begin, ReadRates, ReadUnits, Answer, Leave, BookRead, BookFails
<1> QED
  BY <1>1, <1>2, <1>3, <1>4

LEMMA NextRooms == Inv /\ [Next]_vars => RoomsInv'
<1> SUFFICES ASSUME Inv, [Next]_vars PROVE RoomsInv'
  OBVIOUS
<1>1. RoomsInv /\ allotment \in [Rooms!Rows -> Nat]
  BY DEF Inv, OfferInv
<1>2. ASSUME UNCHANGED ledger, booking' # None => Body(booking.plan, booking.request.stay)' \in Bodies
      PROVE  RoomsInv'
  <2>1. \A row : Rooms!RoomsLeft(row)' = Rooms!RoomsLeft(row)
    BY <1>2 DEF ledger, Rooms!RoomsLeft, Rooms!Occupants
  <2> QED
    BY <1>1, <1>2, <2>1 DEF RoomsInv, ledger
<1>3. ASSUME UNCHANGED booking
      PROVE  booking' # None => Body(booking.plan, booking.request.stay)' \in Bodies
  BY <1>1, <1>3 DEF RoomsInv, Body
<1>4. ASSUME NEW plan \in Sold, NEW request \in Requests, BookRead(plan, request) PROVE RoomsInv'
  <2>1. UNCHANGED ledger
    BY <1>4 DEF BookRead
  <2> QED
    BY <1>2, <1>4, <2>1, BookedBody
<1>5. ASSUME NEW k \in Keys, NEW r \in References, BookCommit(k, r) PROVE RoomsInv'
  <2>1. /\ Rooms!Reserve(k, Body(booking.plan, booking.request.stay), r)
        /\ booking' = None
    BY <1>5 DEF BookCommit
  <2>2. now' = 0 /\ DOMAIN reservations' = References
    BY <1>1, <2>1 DEF RoomsInv, Rooms!Reserve
  <2>3. \A row \in Rooms!Rows : Rooms!RoomsLeft(row)' >= 0
    BY <1>1, <2>1, ReserveRooms
  <2> QED
    BY <2>1, <2>2, <2>3 DEF RoomsInv
<1>6. CASE Elsewhere
  <2>1. UNCHANGED booking
    BY <1>6 DEF Elsewhere
  <2>2. CASE UNCHANGED ledger
    BY <1>2, <1>3, <2>1, <2>2
  <2>3. ASSUME NEW r \in References, Rooms!Cancel(r, now) PROVE RoomsInv'
    <3>1. now' = 0 /\ DOMAIN reservations' = References
      BY <1>1, <2>3 DEF RoomsInv, Rooms!Cancel
    <3>2. \A row \in Rooms!Rows : Rooms!RoomsLeft(row)' >= 0
      BY <1>1, <2>3, CancelRooms
    <3> QED
      BY <1>3, <2>1, <3>1, <3>2 DEF RoomsInv
  <2>4. ASSUME NEW rows \in SUBSET Rooms!Rows, NEW n \in Counts, Rooms!Publish(rows, n)
        PROVE  RoomsInv'
    <3>1. now' = 0 /\ DOMAIN reservations' = References
      BY <1>1, <2>4 DEF RoomsInv, Rooms!Publish
    <3>2. \A row \in Rooms!Rows : Rooms!RoomsLeft(row)' >= 0
      BY <1>1, <2>4, PublishRooms
    <3> QED
      BY <1>3, <2>1, <3>1, <3>2 DEF RoomsInv
  <2> QED
    BY <1>6, <2>2, <2>3, <2>4 DEF Elsewhere
<1>7. CASE BookFails
  <2>1. UNCHANGED ledger /\ booking' = None
    BY <1>7 DEF BookFails
  <2> QED
    BY <1>2, <2>1
<1>8. CASE (\E request \in Requests : Begin(request)) \/ ReadRates \/ ReadUnits \/ Answer \/ Leave
           \/ UNCHANGED vars
  <2>1. UNCHANGED ledger /\ UNCHANGED booking
    BY <1>8 DEF Begin, ReadRates, ReadUnits, Answer, Leave, vars
  <2> QED
    BY <1>2, <1>3, <2>1
<1> QED
  BY <1>4, <1>5, <1>6, <1>7, <1>8 DEF Next, Step

-----------------------------------------------------------------------------
(* The invariant *)

LEMMA InitOffers == Init => OfferInv
<1> SUFFICES ASSUME Init PROVE OfferInv
  OBVIOUS
<1>1. PICK rooms \in Inventories :
          /\ published = {row \in Rooms!Rows : rooms[row[2]] # None}
          /\ allotment = [row \in Rooms!Rows |-> IF row \in published THEN rooms[row[2]] ELSE 0]
  BY DEF Init
<1>2. \A row \in published : rooms[row[2]] \in Nat
  BY <1>1, RoomsAssumption DEF Rooms!Rows
<1>3. allotment \in [Rooms!Rows -> Nat]
  BY <1>1, <1>2
<1> QED
  BY <1>3 DEF Init, OfferInv

LEMMA InitRooms == Init /\ OfferInv => RoomsInv
<1> SUFFICES ASSUME Init, OfferInv PROVE RoomsInv
  OBVIOUS
<1>1. now = 0 /\ DOMAIN reservations = References /\ booking = None
  BY DEF Init
<1>2. ASSUME NEW row \in Rooms!Rows PROVE Rooms!RoomsLeft(row) >= 0
  <2>1. Rooms!Occupants(row) = {}
    BY DEF Init, Rooms!Occupants
  <2>2. /\ Rooms!RoomsLeft(row) = allotment[row] - Cardinality({})
        /\ allotment[row] \in Nat
    BY <2>1, RoomsLeftCount DEF OfferInv
  <2> QED
    BY <2>2, FS_EmptySet
<1> QED
  BY <1>1, <1>2 DEF RoomsInv

\* What a search has seen, what holds of its offers, and that no night is
\* oversold, hold in every reachable state of any instance of Search.
THEOREM SearchInvariance == Spec => []Inv
<1>1. Init => Inv
  BY InitOffers, InitRooms DEF Inv
<1>2. OfferInv /\ [Next]_vars => OfferInv'
  BY BeginInv, ReadRatesInv, ReadUnitsInv, AnswerInv, LeaveInv, BookReadInv, BookEndInv,
     ElsewhereInv, StutterInv DEF Next, Step
<1>3. Inv /\ [Next]_vars => Inv'
  BY <1>2, NextRooms DEF Inv
<1> QED
  BY <1>1, <1>3, PTL DEF Spec

\* Between its searches, bookings and the others, the rooms move only as Ledger
\* lets them: a booking is one Reserve, of a stay and a plan that Ledger knows.
THEOREM RoomsKeepToLedger == Spec => [][Rooms!Next]_ledger
<1>1. Inv /\ [Next]_vars => [Rooms!Next]_ledger
  BY StepKeepsTo DEF Inv
<1> QED
  BY <1>1, SearchInvariance, PTL DEF Spec

\* And the rates move only as RateCalendar lets them.
THEOREM RatesKeepToCalendar == Spec => [][Rates!Next]_calendar
<1>1. Inv /\ [Next]_vars => [Rates!Next]_calendar
  BY StepKeepsTo DEF Inv
<1> QED
  BY <1>1, SearchInvariance, PTL DEF Spec

-----------------------------------------------------------------------------
(* What a guest is promised *)

\* A plan that could have been booked at every moment of a search is offered,
\* whatever others commit meanwhile.
THEOREM EveryRoomOffered == Spec => []NothingLeftOut
<1>1. Inv => NothingLeftOut
  <2> SUFFICES ASSUME Inv, pc = "answered" PROVE seen.bookable \subseteq {o.plan : o \in offers}
    BY DEF NothingLeftOut
  <2>1. todo = <<>> /\ seen.bookable \subseteq {o.plan : o \in offers} \cup Range(todo)
    BY DEF Inv, OfferInv, SearchInv
  <2>2. Range(todo) = {}
    BY <2>1 DEF Range
  <2> QED
    BY <2>1, <2>2
<1> QED
  BY <1>1, SearchInvariance, PTL

\* The quote of an offer was published at one moment of the search, and its rooms
\* were all free at one.
THEOREM OffersTrue == Spec => []OffersWereTrue
<1>1. Inv => OffersWereTrue
  BY DEF Inv, OfferInv, SearchInv, OffersWereTrue
<1> QED
  BY <1>1, SearchInvariance, PTL

\* An offer can be booked as it stands if nobody has committed anything since
\* the search began, unless its total has left its 64 bits.
THEOREM OffersHonoured == Spec => []OfferHonoured
<1>1. Inv => OfferHonoured
  <2> SUFFICES ASSUME Inv, pc = "answered", writes = seen.since,
                      NEW o \in offers, ~(o.quote.total < 0)
               PROVE  /\ BookError(o.plan, search) = None
                      /\ Rooms!Nights(Body(o.plan, search.stay)) \subseteq published
                      /\ \A row \in Rooms!Nights(Body(o.plan, search.stay)) : Rooms!RoomsLeft(row) >= 1
                      /\ BookQuote(o.plan, search.stay) = o.quote
    BY DEF OfferHonoured
  <2>1. search \in Searched /\ QuoteStands(o.plan, o.quote) /\ RoomsStand(o.plan)
    BY DEF Inv, OfferInv, SearchInv
  <2>2. BookError(o.plan, search) = None
    BY <2>1, QuotedIsBookable
  <2> QED
    BY <2>1, <2>2 DEF RoomsStand, QuoteStands
<1> QED
  BY <1>1, SearchInvariance, PTL

\* A reservation is charged a quote of the calendar at some moment since its
\* booking read the rates.
THEOREM PricesPublished == Spec => PaidAtAPublishedPrice
<1>1. Inv /\ [Next]_vars => \A r \in References : paid'[r] # paid[r] => paid'[r] \in priced
  <2> SUFFICES ASSUME Inv, [Next]_vars, NEW r \in References, paid'[r] # paid[r]
               PROVE  paid'[r] \in priced
    OBVIOUS
  <2>1. PICK k \in Keys, s \in References : BookCommit(k, s)
    BY DEF Next, Step, vars, Begin, ReadRates, ReadUnits, Answer, Leave, BookRead, BookFails, Elsewhere
  <2>2. /\ booking # None
        /\ paid' = [paid EXCEPT ![s] = booking.quote]
    BY <2>1 DEF BookCommit
  <2>3. paid'[r] = booking.quote
    BY <2>2
  <2> QED
    BY <2>2, <2>3 DEF Inv, OfferInv
<1> QED
  BY <1>1, SearchInvariance, PTL DEF Spec, PaidAtAPublishedPrice
=============================================================================
