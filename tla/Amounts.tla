------------------------------ MODULE Amounts ------------------------------
(* Sums of sequences of amounts, and how one amount pays them in order.     *)
(* Recursion is written as a function, so that LedgerProofs and             *)
(* LoanBookProofs can reason about it.                                      *)
EXTENDS Integers, Sequences

Least(a, b) == IF a < b THEN a ELSE b
Greatest(a, b) == IF a > b THEN a ELSE b

\* The sum of the first i elements of q, for each i.
Sums(q) == LET sum[i \in 0..Len(q)] == IF i = 0 THEN 0 ELSE sum[i - 1] + q[i] IN sum

Total(q) == Sums(q)[Len(q)]

\* What amt pays of each of the debts of q when it pays them one after the other.
InOrder(amt, q) == [i \in 1..Len(q) |-> Least(Greatest(amt - Sums(q)[i - 1], 0), q[i])]
=============================================================================
