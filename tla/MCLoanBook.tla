---------------------------- MODULE MCLoanBook ----------------------------
(* LoanBook with a loan of 2 in two installments, at half a unit a day.     *)
EXTENDS LoanBook, TLC
MCInstallment == [p \in Principal |-> 2]
Symmetry == Permutations(Txn) \cup Permutations(Loan)
===========================================================================
