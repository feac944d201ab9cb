---------------------------- MODULE MCLedger ----------------------------
(* Ledger with two savings accounts and a share account.                   *)
EXTENDS Ledger, TLC
CONSTANTS ana, ben, eve
MCOpening == [a \in {ana, ben, eve} |-> 2]
Symmetry == Permutations(Txn) \cup Permutations({ana, ben})
=========================================================================
