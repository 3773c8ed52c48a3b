CONSTANTS
    MoneyBits = 4
    MaxStayNights = 2
    NoRate = NoRate
    None = None
    rt = rt
    flex = flex
    strict = strict
    stray = stray
    elsewhere = elsewhere
    RoomTypes = {rt}
    RatePlans = {flex, strict}
    Dates <- MCDates
    RateDates <- MCRateDates
    Keys = {k1, k2}
    References = {r1, r2}
    Counts = {0, 2}
    Publications <- MCPublications
    RefundableFor <- MCRefundable
    DayTicks = 1
    MaxTime = 0
    PlanOrder <- MCPlanOrder
    RoomTypeOf <- MCRoomTypeOf
    MaxOccupancy <- MCMaxOccupancy
    Requests <- MCRequests
    Calendars <- MCCalendars
    Inventories <- MCInventories
    MaxWrites = 2
SPECIFICATION Spec
SYMMETRY MCSymmetry
INVARIANTS
    Inv
    NothingLeftOut
    OffersWereTrue
    OfferHonoured
PROPERTY PaidAtAPublishedPrice
