CONSTANTS
    MoneyBits = 64
    MaxStayNights = 30
    NoRate = NoRate
    None = None
    Procs = {p1}
    RatePlans = {rp}
    UnknownPlan = unknown
    Dates <- MCDates
    Bodies <- MCFewBodies
SPECIFICATION Spec
PROPERTY RequiredFields
