------------------------------ MODULE Pricing ------------------------------
(***************************************************************************)
(* Stays, money and prices: internal/domain/shared and                     *)
(* internal/domain/pricing. Dates are day numbers. A calendar gives each   *)
(* date the rate published for it, or NoRate. All prices of a property     *)
(* have its currency, so money is its cents; they are added in 64 bits.    *)
(***************************************************************************)
EXTENDS Integers, FiniteSets, Functions

CONSTANTS
    MoneyBits,      \* width of Money.cents, 64 in the code
    MaxStayNights,  \* 30 in the code
    NoRate,         \* no row of rate_calendar
    None            \* no error, no value

ASSUME PricingAssumption == MoneyBits \in Nat \ {0} /\ MaxStayNights \in Nat \ {0}

\* Two's complement: what is left of n in a number of bits.
Wrap(n, bits) == ((n + 2 ^ (bits - 1)) % (2 ^ bits)) - 2 ^ (bits - 1)

Rate(price, minStay, closedToArrival, closedToDeparture) ==
    [price |-> price, minStay |-> minStay,
     closedToArrival |-> closedToArrival, closedToDeparture |-> closedToDeparture]

\* NewStay: a date that is missing is None.
StayError(checkIn, checkOut) ==
    IF checkIn = None \/ checkOut = None THEN "invalid_stay"
    ELSE IF checkOut <= checkIn THEN "invalid_stay"
    ELSE IF checkOut - checkIn > MaxStayNights THEN "stay_too_long"
    ELSE None

\* Stay.Dates: the nights that are sold. The departure date is not one.
StayDates(stay) == stay.checkIn .. (stay.checkOut - 1)

\* Money.Add, of two amounts in one currency.
Add(a, b) == Wrap(a + b, MoneyBits)

Total(nights) == FoldFunction(Add, 0, nights)

\* The first refusal of Calculate, or None. The restriction on departures is
\* that of a date which is not a night of the stay.
QuoteError(stay, calendar) ==
    LET arrival == calendar[stay.checkIn]
        departure == calendar[stay.checkOut]
    IN  IF arrival # NoRate /\ arrival.closedToArrival THEN "closed_to_arrival"
        ELSE IF departure # NoRate /\ departure.closedToDeparture THEN "closed_to_departure"
        ELSE IF \E d \in StayDates(stay) : calendar[d] = NoRate THEN "rate_unavailable"
        ELSE IF arrival.minStay > Cardinality(StayDates(stay)) THEN "min_stay_not_met"
        ELSE None

\* The quote of Calculate when nothing is refused.
Quote(stay, calendar) ==
    LET nights == [d \in StayDates(stay) |-> calendar[d].price]
    IN  [stay |-> stay, nights |-> nights, total |-> Total(nights)]

\* Quote.Validate, which booking.New asks of the quote it is given.
Validates(quote) ==
    /\ Cardinality(DOMAIN quote.nights) = quote.stay.checkOut - quote.stay.checkIn
    /\ quote.total = Total(quote.nights)
=============================================================================
