------------------------- MODULE MCMemberPayments -------------------------
(* MemberPayments with one order of either gateway and two handlers at a    *)
(* time; 2 half shillings is a whole amount, 3 is not.                      *)
EXTENDS MemberPayments

\* The orders the portal makes today all belong to the Snippe gateway.
SnippeInit == Init /\ \A o \in Order : gateway[o] = "snippe"
SnippeSpec == SnippeInit /\ [][Next]_vars
===========================================================================
