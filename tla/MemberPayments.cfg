SPECIFICATION FairSpec
CONSTANTS
    Order = {o1}
    Amount = {2, 3}
    Call = {c1, c2}
    MaxFaults = 1
    MaxPosted = 2
    NoOrder = NoOrder
CHECK_DEADLOCK FALSE
INVARIANTS
    TypeOK
    PostedIsCharged
    PostedHasJournal
    SerialOutcome
PROPERTY PaymentIsPosted
