SPECIFICATION SnippeSpec
CONSTANTS
    Order = {o1}
    Amount = {2}
    Call = {c1, c2}
    MaxFaults = 0
    MaxPosted = 2
    NoOrder = NoOrder
CHECK_DEADLOCK FALSE
INVARIANT PostedOnce
