--------------------------- MODULE MCApprovals ---------------------------
(* Approvals with a teller who only makes, a manager who makes and checks,  *)
(* and an internal operator.                                                *)
EXTENDS Approvals, TLC

CONSTANTS teller, manager, ops, withdrawal, disbursement

MCUser == {teller, manager, ops}
\* Withdrawals ask for two checkers, disbursements for one.
MCInitPolicy ==
    [o \in {withdrawal, disbursement} |->
        [ enabled |-> TRUE, threshold |-> 2,
          required |-> IF o = withdrawal THEN 2 ELSE 1,
          makers |-> {teller, manager}, checkers |-> {manager} ]]
\* One lowers the count, one sends a count the schema refuses.
MCPolicyPatch == { [required |-> 1], [required |-> 0] }
Symmetry == Permutations(Call)
==========================================================================
