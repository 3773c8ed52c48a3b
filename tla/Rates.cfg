CONSTANTS
    MoneyBits = 64
    MaxStayNights = 30
    NoRate = NoRate
    None = None
    Procs = {p1, p2, p3}
    RatePlans = {rp}
    UnknownPlan = unknown
    Dates <- MCDates
    Bodies <- MCBodies
SPECIFICATION FairSpec
INVARIANTS
    Inv
    OnlyDisorderDeadlocks
PROPERTIES
    AnswerMeansPublished
    RefinesCalendar
    UpsertsEnd
