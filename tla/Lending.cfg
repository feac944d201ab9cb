SPECIFICATION LendingSpec
CONSTANTS
    Application = {a1, a2}
    First = a1
    Member = member
    Manager = manager
    FirstOrder = o1
    User = {u1, u2, u3}
    Guarantor = {g1}
    Required = {2}
    Call = {c1, c2}
    Order = {o1, o2}
    MaxCycle = 2
    MaxLoans = 2
    NoUser = NoUser
    NoApplication = NoApplication
    NoOrder = NoOrder
SYMMETRY Symmetry
CHECK_DEADLOCK FALSE
INVARIANTS
    LendingTypeOK
    ApprovedByQuorum
    SerialReview
    PostedIsPaidOut
    LendingIsCovered
PROPERTY ReviewImplemented
