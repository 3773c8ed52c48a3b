CONSTANTS
    Procs = {p1}
    Keys = {k1}
    g1 = g1
    g2 = g2
    rt = rt
    flex = flex
    strict = strict
    Guests = {g1, g2}
    RoomTypes = {rt}
    RatePlans = {flex, strict}
    Dates <- MCDates
    References = {r1}
    Bodies <- MCBodies
    PublishInputs <- MCPublish
    RefundableFor <- MCRefundable
    DayTicks = 12
    MaxTime = 12
    None = None
SPECIFICATION Spec
INVARIANT RefusedFromCheckInDate
