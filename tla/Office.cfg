SPECIFICATION OfficeSpec
CONSTANTS
    Members = 3
    Balances <- MCBalances
    Rule <- MCRule
    User = {u1, u2, u3}
    Maker = u1
    Solo = c1
    Checkers = 2
    Call = {c1, c2}
    MaxRev = 2
    MaxDeclared = 2
    NoUser = NoUser
SYMMETRY Symmetry
CHECK_DEADLOCK FALSE
INVARIANTS
    OfficeTypeOK
    RecordsAgree
    WithinPool
    
