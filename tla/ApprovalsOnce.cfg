SPECIFICATION Spec
CONSTANTS
    teller = teller
    manager = manager
    ops = ops
    withdrawal = withdrawal
    disbursement = disbursement
    User <- MCUser
    InternalOps = {ops}
    Operation = {withdrawal, disbursement}
    Amount = {1, 2}
    Threshold = {2}
    MaxRequired = 2
    InitPolicy <- MCInitPolicy
    PolicyPatch <- MCPolicyPatch
    Request = {r1}
    Call = {c1, c2}
    MaxPosted = 2
    NoRequest = NoRequest
    NoUser = NoUser
    NoPolicy = NoPolicy
SYMMETRY Symmetry
INVARIANT ExecutedOnce
