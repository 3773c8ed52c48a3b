CONSTANTS
    Procs = {p1, p2, p3}
    Keys = {k1, k2}
    g1 = g1
    g2 = g2
    rt = rt
    flex = flex
    strict = strict
    Guests = {g1, g2}
    RoomTypes = {rt}
    RatePlans = {flex, strict}
    Dates <- MCDates
    References = {r1, r2}
    Bodies <- MCBodies
    PublishInputs <- MCPublish
    RefundableFor <- MCRefundable
    DayTicks = 1
    MaxTime = 1
    None = None
SPECIFICATION Spec
SYMMETRY MCSymmetry
INVARIANTS
    Inv
    BookedCountsReservations
    NoOversell
    OneReservationPerKey
    AnswersAgree
    EventsTellHistory
    OnlyCollisionsDeadlock
    ReleaseAccepted
    CancelledInTime
PROPERTIES
    HistoryKept
    RefinesLedger
