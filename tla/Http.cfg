CONSTANT None = None
SPECIFICATION Spec
INVARIANTS
    OneAnswer
    StatusTellsEffect
    StaffNeedsKey
    DocumentedStatus
