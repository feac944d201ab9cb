--------------------------- MODULE LoanBookProofs ---------------------------
(* The invariants of LoanBook hold for any number of loans, transactions    *)
(* and installments, any amounts, and any rate.                             *)
EXTENDS LoanBook, WellFoundedInduction, TLAPS

(***************************************************************************)
(* What the sums of Amounts compute, for sequences of every length.  The   *)
(* library's induction theorems take an operator as a parameter, so the    *)
(* induction used here is stated for a set, from the fact that < is well   *)
(* founded on Nat.                                                         *)
(***************************************************************************)
LEMMA Induction ==
  ASSUME NEW T, 0 \in T, \A n \in Nat : n \in T => n + 1 \in T
  PROVE  Nat \subseteq T
<1> DEFINE S == {n \in Nat : n \notin T}
<1> SUFFICES ASSUME S # {} PROVE FALSE
  OBVIOUS
<1>1. S \subseteq Nat
  OBVIOUS
<1>2. \A n \in Nat : n \in S <=> n \notin T
  OBVIOUS
<1> HIDE DEF S
<1>3. IsWellFoundedOn(OpToRel(<, Nat), Nat)
  BY NatLessThanWellFounded
<1>4. PICK m \in S : \A k \in S : ~(<<k, m>> \in OpToRel(<, Nat))
  BY <1>1, <1>3, WFMin
<1>5. \A k \in Nat : k < m => <<k, m>> \in OpToRel(<, Nat)
  BY <1>1 DEF OpToRel
<1>6. m \in Nat /\ m # 0
  BY <1>1, <1>2
<1>7. m - 1 \in Nat /\ m - 1 < m
  BY <1>6
<1>8. m - 1 \in T
  BY <1>2, <1>4, <1>5, <1>7
<1> QED
  BY <1>2, <1>6, <1>7, <1>8

\* The recursive definition of Sums has a solution.
Solves(q, g, n) == g = [i \in 0..n |-> IF i = 0 THEN 0 ELSE g[i - 1] + q[i]]

LEMMA SumsExist ==
  ASSUME NEW q \in Seq(Int)
  PROVE  \E g : Solves(q, g, Len(q))
<1> DEFINE T == {n \in Nat : n <= Len(q) => \E g : Solves(q, g, n)}
<1>1. 0 \in T
  <2>1. Solves(q, [i \in 0..0 |-> 0], 0)
    BY DEF Solves
  <2> QED
    BY <2>1
<1>2. ASSUME NEW n \in Nat, n \in T PROVE n + 1 \in T
  <2> SUFFICES ASSUME n + 1 <= Len(q) PROVE \E g : Solves(q, g, n + 1)
    OBVIOUS
  <2>1. PICK g : Solves(q, g, n)
    BY <1>2
  <2> DEFINE h == [i \in 0..(n + 1) |-> IF i <= n THEN g[i] ELSE g[n] + q[n + 1]]
  <2>2. ASSUME NEW i \in 0..(n + 1)
        PROVE  h[i] = IF i = 0 THEN 0 ELSE h[i - 1] + q[i]
    <3>1. CASE i = n + 1
      BY <3>1
    <3>2. CASE i = 0
      BY <2>1, <3>2 DEF Solves
    <3>3. CASE i \in 1..n
      BY <2>1, <3>3 DEF Solves
    <3> QED
      BY <3>1, <3>2, <3>3
  <2>3. h = [i \in 0..(n + 1) |-> h[i]]
    OBVIOUS
  <2> HIDE DEF h
  <2>4. Solves(q, h, n + 1)
    BY <2>2, <2>3 DEF Solves
  <2> QED
    BY <2>4
<1> HIDE DEF T
<1>3. Nat \subseteq T
  BY <1>1, <1>2, Induction
<1> USE DEF T
<1> QED
  BY <1>3

\* What Sums is, step by step.
LEMMA SumsStep ==
  ASSUME NEW q \in Seq(Int)
  PROVE  /\ Sums(q)[0] = 0
         /\ \A i \in 1..Len(q) : Sums(q)[i] = Sums(q)[i - 1] + q[i]
<1>1. PICK g : Solves(q, g, Len(q))
  BY SumsExist
<1>2. Sums(q) = CHOOSE f : f = [i \in 0..Len(q) |-> IF i = 0 THEN 0 ELSE f[i - 1] + q[i]]
  BY DEF Sums
<1>3. Sums(q) = [i \in 0..Len(q) |-> IF i = 0 THEN 0 ELSE Sums(q)[i - 1] + q[i]]
  BY <1>1, <1>2 DEF Solves
<1>4. Len(q) \in Nat
  OBVIOUS
<1> QED
  BY <1>3, <1>4

LEMMA SumsType ==
  ASSUME NEW q \in Seq(Int)
  PROVE  \A i \in 0..Len(q) : Sums(q)[i] \in Int
<1> DEFINE T == {n \in Nat : n <= Len(q) => Sums(q)[n] \in Int}
<1>1. 0 \in T
  BY SumsStep
<1>2. ASSUME NEW n \in Nat, n \in T PROVE n + 1 \in T
  <2> SUFFICES ASSUME n + 1 <= Len(q) PROVE Sums(q)[n + 1] \in Int
    OBVIOUS
  <2>1. q[n + 1] \in Int /\ Sums(q)[n] \in Int
    BY <1>2
  <2>2. Sums(q)[n + 1] = Sums(q)[(n + 1) - 1] + q[n + 1]
    BY SumsStep
  <2> QED
    BY <2>1, <2>2
<1> HIDE DEF T
<1>3. Nat \subseteq T
  BY <1>1, <1>2, Induction
<1> QED
  BY <1>3 DEF T

LEMMA SumsOfNat ==
  ASSUME NEW q \in Seq(Nat)
  PROVE  \A n \in 0..Len(q) : /\ Sums(q)[n] \in Nat
                              /\ \A i \in 1..n : q[i] <= Sums(q)[n]
                              /\ (\A i \in 1..n : q[i] = 0) => Sums(q)[n] = 0
<1> DEFINE P(n) == /\ Sums(q)[n] \in Nat
                   /\ \A i \in 1..n : q[i] <= Sums(q)[n]
                   /\ (\A i \in 1..n : q[i] = 0) => Sums(q)[n] = 0
           T == {n \in Nat : n <= Len(q) => P(n)}
<1>0. q \in Seq(Int)
  OBVIOUS
<1>1. 0 \in T
  BY <1>0, SumsStep
<1>2. ASSUME NEW n \in Nat, n \in T PROVE n + 1 \in T
  <2> SUFFICES ASSUME n + 1 <= Len(q) PROVE P(n + 1)
    OBVIOUS
  <2>1. q[n + 1] \in Nat /\ P(n)
    BY <1>2
  <2>2. Sums(q)[n + 1] = Sums(q)[n] + q[n + 1]
    <3>1. Sums(q)[n + 1] = Sums(q)[(n + 1) - 1] + q[n + 1]
      BY <1>0, SumsStep
    <3> QED
      BY <3>1
  <2>3. Sums(q)[n + 1] \in Nat
    BY <2>1, <2>2
  <2>4. ASSUME NEW i \in 1..(n + 1) PROVE q[i] <= Sums(q)[n + 1]
    <3>1. CASE i = n + 1
      BY <2>1, <2>2, <3>1
    <3>2. CASE i \in 1..n
      BY <2>1, <2>2, <3>2, SMTT(30)
    <3> QED
      BY <3>1, <3>2
  <2>5. (\A i \in 1..(n + 1) : q[i] = 0) => Sums(q)[n + 1] = 0
    BY <2>1, <2>2
  <2> QED
    BY <2>3, <2>4, <2>5
<1> HIDE DEF T
<1>3. Nat \subseteq T
  BY <1>1, <1>2, Induction
<1> QED
  BY <1>3 DEF T

\* The total of naturals is a natural, and zero exactly when each of them is.
LEMMA TotalOfNat ==
  ASSUME NEW q \in Seq(Nat)
  PROVE  /\ Total(q) \in Nat
         /\ Total(q) = 0 <=> \A i \in 1..Len(q) : q[i] = 0
<1>1. Len(q) \in 0..Len(q)
  OBVIOUS
<1>2. \A i \in 1..Len(q) : q[i] \in Nat
  OBVIOUS
<1> QED
  BY <1>1, <1>2, SumsOfNat DEF Total

\* Sums are additive.
LEMMA TotalDifference ==
  ASSUME NEW q \in Seq(Int), NEW r \in Seq(Int), NEW d \in Seq(Int),
         Len(r) = Len(q), Len(d) = Len(q),
         \A i \in 1..Len(q) : d[i] = q[i] - r[i]
  PROVE  Total(d) = Total(q) - Total(r)
<1> DEFINE T == {n \in Nat : n <= Len(q) => Sums(d)[n] = Sums(q)[n] - Sums(r)[n]}
<1>1. 0 \in T
  BY SumsStep
<1>2. ASSUME NEW n \in Nat, n \in T PROVE n + 1 \in T
  <2> SUFFICES ASSUME n + 1 <= Len(q)
               PROVE  Sums(d)[n + 1] = Sums(q)[n + 1] - Sums(r)[n + 1]
    OBVIOUS
  <2>1. n + 1 \in 1..Len(q) /\ n \in 0..Len(q) /\ (n + 1) - 1 = n
    OBVIOUS
  <2>2. /\ Sums(q)[n + 1] = Sums(q)[n] + q[n + 1]
        /\ Sums(r)[n + 1] = Sums(r)[n] + r[n + 1]
        /\ Sums(d)[n + 1] = Sums(d)[n] + d[n + 1]
    BY <2>1, SumsStep
  <2>3. Sums(q)[n] \in Int /\ Sums(r)[n] \in Int
    BY <2>1, SumsType
  <2>4. Sums(d)[n] = Sums(q)[n] - Sums(r)[n] /\ d[n + 1] = q[n + 1] - r[n + 1]
    BY <1>2, <2>1
  <2>5. q[n + 1] \in Int /\ r[n + 1] \in Int
    BY <2>1
  <2> DEFINE a == Sums(q)[n]
             b == Sums(r)[n]
             x == q[n + 1]
             y == r[n + 1]
  <2>6. Sums(d)[n + 1] = (a - b) + (x - y) /\ Sums(q)[n + 1] = a + x /\ Sums(r)[n + 1] = b + y
    BY <2>2, <2>4
  <2>7. a \in Int /\ b \in Int /\ x \in Int /\ y \in Int
    BY <2>3, <2>5
  <2> HIDE DEF a, b, x, y
  <2>8. (a - b) + (x - y) = (a + x) - (b + y)
    BY <2>7
  <2> QED
    BY <2>6, <2>8
<1> HIDE DEF T
<1>3. Nat \subseteq T
  BY <1>1, <1>2, Induction
<1> QED
  BY <1>3 DEF T, Total

(***************************************************************************)
(* Paying debts in order pays all of the amount that they can take.        *)
(***************************************************************************)
LEMMA InOrderType ==
  ASSUME NEW q \in Seq(Nat), NEW amt \in Nat
  PROVE  /\ InOrder(amt, q) \in Seq(Nat)
         /\ Len(InOrder(amt, q)) = Len(q)
         /\ \A i \in 1..Len(q) : InOrder(amt, q)[i] \in 0..q[i]
<1>1. ASSUME NEW i \in 1..Len(q)
      PROVE  Least(Greatest(amt - Sums(q)[i - 1], 0), q[i]) \in 0..q[i]
  <2>1. q[i] \in Nat /\ Sums(q)[i - 1] \in Nat
    BY SumsOfNat
  <2> QED
    BY <2>1 DEF Least, Greatest
<1> QED
  BY <1>1 DEF InOrder

LEMMA InOrderTotal ==
  ASSUME NEW q \in Seq(Nat), NEW amt \in Nat
  PROVE  Total(InOrder(amt, q)) = Least(amt, Total(q))
<1> DEFINE p == InOrder(amt, q)
           T == {n \in Nat : n <= Len(q) => Sums(p)[n] = Least(amt, Sums(q)[n])}
<1>0. /\ p \in Seq(Int) /\ Len(p) = Len(q) /\ q \in Seq(Int)
      /\ \A i \in 1..Len(q) : p[i] = Least(Greatest(amt - Sums(q)[i - 1], 0), q[i])
  BY InOrderType DEF InOrder
<1> HIDE DEF p
<1>1. 0 \in T
  BY <1>0, SumsStep DEF Least
<1>2. ASSUME NEW n \in Nat, n \in T PROVE n + 1 \in T
  <2> SUFFICES ASSUME n + 1 <= Len(q) PROVE Sums(p)[n + 1] = Least(amt, Sums(q)[n + 1])
    OBVIOUS
  <2>1. n + 1 \in 1..Len(q) /\ n \in 0..Len(q) /\ (n + 1) - 1 = n
    OBVIOUS
  <2>2. /\ Sums(q)[n + 1] = Sums(q)[n] + q[n + 1]
        /\ Sums(p)[n + 1] = Sums(p)[n] + p[n + 1]
    BY <1>0, <2>1, SumsStep
  <2>3. Sums(q)[n] \in Nat /\ q[n + 1] \in Nat
    BY <2>1, SumsOfNat
  <2>4. p[n + 1] = Least(Greatest(amt - Sums(q)[n], 0), q[n + 1])
    BY <1>0, <2>1
  <2>5. Sums(p)[n] = Least(amt, Sums(q)[n])
    BY <1>2, <2>1
  <2> QED
    BY <2>2, <2>3, <2>4, <2>5 DEF Least, Greatest
<1> HIDE DEF T
<1>3. Nat \subseteq T
  BY <1>1, <1>2, Induction
<1> QED
  BY <1>0, <1>3 DEF T, Total, p

\* What is left of the debts after paying them in order.
THEOREM InOrderLeaves ==
  ASSUME NEW q \in Seq(Nat), NEW amt \in Nat, NEW d \in Seq(Nat), Len(d) = Len(q),
         \A i \in 1..Len(q) : d[i] = q[i] - InOrder(amt, q)[i]
  PROVE  Total(d) = Greatest(Total(q) - amt, 0)
<1> DEFINE r == InOrder(amt, q)
<1>1. r \in Seq(Int) /\ Len(r) = Len(q)
  BY InOrderType
<1>2. Total(d) = Total(q) - Total(r)
  <2>1. \A i \in 1..Len(q) : d[i] = q[i] - r[i]
    OBVIOUS
  <2> HIDE DEF r
  <2>2. q \in Seq(Int) /\ d \in Seq(Int)
    OBVIOUS
  <2> QED
    BY <1>1, <2>1, <2>2, TotalDifference
<1>3. Total(r) = Least(amt, Total(q)) /\ Total(q) \in Nat
  BY InOrderTotal, TotalOfNat
<1> QED
  BY <1>2, <1>3 DEF Least, Greatest

(***************************************************************************)
(* The inductive invariant.  A transaction writes what it worked out from   *)
(* rows it read without a lock, so the invariant relates what each          *)
(* transaction has seen to the rows as they are: they differ only where     *)
(* another transaction that touches the loan is, or was, at work, and such  *)
(* pairs are on record in overlaps.                                         *)
(***************************************************************************)
LoanRow == [status : Statuses, principal : Nat, interest : Nat, since : Day, accrued : Day]
AccountRow == [status : Statuses, principal : Nat, interest : Nat]
InstallmentRow ==
    [due : Int, paidPrincipal : Int, paidInterest : Int, principal : Int, interest : Int]
TxnRow ==
    [ pc : {"new", "schedules", "account", "repay", "accrue", "done"},
      seen : [Loan -> LoanRow], loan : Loan \cup {"none"}, amount : Nat, date : Day,
      principal : Nat, receivable : Nat, account : AccountRow ]

RowsOK ==
    /\ schedules \in [Loan -> Seq(InstallmentRow)]
    /\ txns \in [Txn -> TxnRow]

\* A loan that is not there has left no trace.
Absent(l) ==
    loans[l] = NoLoan => /\ accounts[l] = NoAccount /\ schedules[l] = << >>
                         /\ gl[l] = Zero /\ running[l] = Zero /\ charged[l] = 0

Present(l) ==
    loans[l] # NoLoan =>
        /\ loans[l].status # "absent" /\ Len(schedules[l]) = Term
        /\ loans[l].status = "closed" <=>
              loans[l].principal = 0 /\ Total(OpenInterest(schedules[l])) = 0

BookOK(l) ==
    /\ gl[l].principal <= loans[l].principal /\ gl[l].interest <= loans[l].interest
    /\ ~Overlapped(l, {"repay"}) =>
          gl[l].principal = loans[l].principal /\ gl[l].interest = loans[l].interest

Alone(l) == \A kinds \in SUBSET {"repay", "accrue"} : ~Overlapped(l, kinds)

MirrorOK(l) ==
    /\ accounts[l].principal = loans[l].principal /\ accounts[l].interest = loans[l].interest
    /\ Alone(l) =>
          /\ running[l] = [principal |-> loans[l].principal, interest |-> loans[l].interest]
          /\ accounts[l].status = loans[l].status

FollowsOK(l) == Total(OpenPrincipal(schedules[l])) = loans[l].principal

\* Without overlapping repayments and accruals the principal is paid last.
Orderly(l) == ~Overlapped(l, {"repay"}) /\ ~Overlapped(l, {"repay", "accrue"})
PaidLast(l) ==
    Orderly(l) /\ loans[l].principal = 0 =>
        loans[l].interest = 0 /\ Total(OpenInterest(schedules[l])) = 0

ChargedOK(l) == ~Overlapped(l, {"accrue"}) => charged[l] = loans[l].accrued - loans[l].since

LoanInv(l) ==
    /\ Absent(l) /\ Present(l) /\ BookOK(l) /\ MirrorOK(l)
    /\ FollowsOK(l) /\ PaidLast(l) /\ ChargedOK(l)

\* What a transaction remembers.
Repaying(tx) == tx.pc \in {"schedules", "account", "repay"}
Priced(tx) == tx.pc \in {"account", "repay"}
Touches(tx) == {l \in Loan : tx.seen[l] # NoLoan}

TxnOK(tx) ==
    /\ tx.pc \in {"new", "done"} => Touches(tx) = {}
    /\ Repaying(tx) => tx.loan \in Loan /\ Touches(tx) = {tx.loan}
    /\ Priced(tx) => /\ tx.principal <= tx.amount
                     /\ tx.principal <= tx.seen[tx.loan].principal
                     /\ tx.receivable <= tx.seen[tx.loan].interest
                     /\ tx.principal > 0 => tx.receivable = tx.seen[tx.loan].interest
    /\ tx.pc = "accrue" => \A l \in Touches(tx) :
          /\ tx.seen[l].principal > 0 /\ tx.seen[l].accrued < tx.date
          /\ Days(tx.seen[l], tx.date) = tx.date - tx.seen[l].accrued

\* How far a row can have moved from what a transaction has seen of it.
SeenOK(tx, l) ==
    LET seen == tx.seen[l] IN
    /\ loans[l] # NoLoan
    /\ Repaying(tx) /\ ~Overlapped(l, {"repay"}) =>
          /\ loans[l].principal = seen.principal /\ loans[l].interest >= seen.interest
          /\ Priced(tx) /\ tx.principal > 0 =>
                Total(OpenInterest(schedules[l])) <= tx.amount - tx.principal
    /\ Repaying(tx) /\ Orderly(l) => loans[l].interest = seen.interest
    /\ tx.pc = "accrue" /\ ~Overlapped(l, {"accrue"}) => loans[l].accrued = seen.accrued
    /\ tx.pc = "accrue" /\ ~Overlapped(l, {"repay", "accrue"}) =>
          loans[l].principal = seen.principal
    /\ Alone(l) => loans[l] = seen /\ (tx.pc = "repay" => tx.account = accounts[l])

\* Two transactions at work on one loan are on record.
OverlapsOK ==
    \A t, s \in Txn : t # s =>
        \A l \in Touches(txns[t]) \cap Touches(txns[s]) :
            <<l, {Kind(txns[t]), Kind(txns[s])}>> \in overlaps

TxnInv(t) == TxnOK(txns[t]) /\ \A l \in Touches(txns[t]) : SeenOK(txns[t], l)

IInv ==
    /\ TypeOK /\ RowsOK /\ OverlapsOK
    /\ \A l \in Loan : LoanInv(l)
    /\ \A t \in Txn : TxnInv(t)

(***************************************************************************)
(* Arithmetic.                                                              *)
(***************************************************************************)
\* What the two operators return.
LEMMA Bounds ==
  ASSUME NEW a \in Int, NEW b \in Int
  PROVE  /\ Least(a, b) \in Int /\ Greatest(a, b) \in Int
         /\ Least(a, b) <= a /\ Least(a, b) <= b
         /\ Greatest(a, b) >= a /\ Greatest(a, b) >= b
  BY DEF Least, Greatest

\* Rounding halves up keeps zero and the sign.
LEMMA RoundType ==
  ASSUME NEW n \in Int, NEW d \in Nat \ {0}
  PROVE  /\ Round(n, d) \in Int
         /\ n >= 0 => Round(n, d) \in Nat
         /\ n = 0 => Round(n, d) = 0
<1> DEFINE m == 2 * d
           k == 2 * n + d
<1>1. m \in Nat /\ m > 0 /\ k \in Int /\ (n >= 0 => k >= 0) /\ (n = 0 => k >= 0 /\ k < m)
  OBVIOUS
<1>2. Round(n, d) = k \div m
  BY DEF Round
<1> HIDE DEF m, k
<1>3. k \div m \in Int /\ (k >= 0 => k \div m >= 0) /\ (k >= 0 /\ k < m => k \div m = 0)
  BY <1>1
<1> QED
  BY <1>1, <1>2, <1>3

\* Interest is an amount, and nothing for no days.
LEMMA InterestType ==
  ASSUME NEW p \in Int, NEW days \in Nat
  PROVE  /\ Interest(p, days) \in Int
         /\ p >= 0 => Interest(p, days) \in Nat
         /\ days = 0 => Interest(p, days) = 0
<1>1. Rate \in Nat /\ Year \in Nat \ {0}
  BY LoanAssumption
<1> DEFINE n == p * days * Rate
<1>2. n \in Int
  BY <1>1
<1>3. p >= 0 => n >= 0
  <2>1. p >= 0 => p * days \in Nat
    OBVIOUS
  <2>2. ASSUME NEW x \in Nat PROVE x * Rate >= 0
    BY <1>1
  <2> QED
    BY <2>1, <2>2
<1>4. days = 0 => n = 0
  BY <1>1
<1>5. Interest(p, days) = Round(n, Year)
  BY DEF Interest
<1> HIDE DEF n
<1> QED
  BY <1>1, <1>2, <1>3, <1>4, <1>5, RoundType

\* What an accrual charges, and that it charges nothing for no days.
LEMMA ChargeType ==
  ASSUME NEW row \in LoanRow, NEW date \in Day
  PROVE  /\ Days(row, date) \in Nat /\ Charge(row, date) \in Nat
         /\ Charge(row, date) > 0 => row.accrued < date /\ Days(row, date) = date - row.accrued
<1>1. row.accrued \in Int /\ date \in Int /\ row.principal \in Nat
  BY LoanAssumption DEF LoanRow, Day
<1>2. /\ Days(row, date) \in Nat
      /\ Days(row, date) > 0 => row.accrued < date /\ Days(row, date) = date - row.accrued
  BY <1>1 DEF Days, Greatest
<1> DEFINE days == Days(row, date)
<1>3. /\ Interest(row.principal, days) \in Nat
      /\ days = 0 => Interest(row.principal, days) = 0
  <2>1. row.principal \in Int /\ row.principal >= 0 /\ days \in Nat
    BY <1>1, <1>2
  <2> HIDE DEF days
  <2> QED
    BY <2>1, InterestType
<1>4. Charge(row, date) = Interest(row.principal, days)
  BY DEF Charge
<1> QED
  BY <1>2, <1>3, <1>4

(***************************************************************************)
(* The schedule of a loan, and what a repayment does to it.                 *)
(***************************************************************************)
OpeningSolves(p, open, n) ==
    open = [i \in 1..n |-> IF i = 1 THEN p
                           ELSE open[i - 1] - (Installment[p] - Interest(open[i - 1], 1))]

\* The recursion over installments has a solution.
LEMMA OpeningExists ==
  ASSUME NEW p \in Principal
  PROVE  \E open : OpeningSolves(p, open, Term)
<1> DEFINE T == {n \in Nat : \E open : OpeningSolves(p, open, n)}
<1>1. 0 \in T
  <2>1. OpeningSolves(p, [i \in 1..0 |-> p], 0)
    BY DEF OpeningSolves
  <2> QED
    BY <2>1
<1>2. ASSUME NEW n \in Nat, n \in T PROVE n + 1 \in T
  <2>1. PICK g : OpeningSolves(p, g, n)
    BY <1>2
  <2> DEFINE next(x) == x - (Installment[p] - Interest(x, 1))
             h == [i \in 1..(n + 1) |-> IF i <= n THEN g[i] ELSE IF n = 0 THEN p ELSE next(g[n])]
  <2>2. ASSUME NEW i \in 1..(n + 1)
        PROVE  h[i] = IF i = 1 THEN p ELSE next(h[i - 1])
    <3>1. CASE i = n + 1 /\ n = 0
      BY <3>1
    <3>2. CASE i = n + 1 /\ n # 0
      BY <3>2
    <3>3. CASE i \in 1..n
      <4>1. g[i] = IF i = 1 THEN p ELSE next(g[i - 1])
        BY <2>1, <3>3 DEF OpeningSolves
      <4>2. h[i] = g[i] /\ (i # 1 => h[i - 1] = g[i - 1])
        BY <3>3
      <4> HIDE DEF h
      <4> QED
        BY <4>1, <4>2
    <3> QED
      BY <3>1, <3>2, <3>3
  <2>3. h = [i \in 1..(n + 1) |-> h[i]]
    OBVIOUS
  <2> HIDE DEF h
  <2>4. OpeningSolves(p, h, n + 1)
    BY <2>2, <2>3 DEF OpeningSolves
  <2> QED
    BY <2>4
<1> HIDE DEF T
<1>3. Nat \subseteq T
  BY <1>1, <1>2, Induction
<1> USE DEF T
<1> QED
  BY <1>3, LoanAssumption

\* ... and Opening is it.
LEMMA OpeningStep ==
  ASSUME NEW p \in Principal
  PROVE  /\ Opening(p)[1] = p
         /\ \A i \in 2..Term : Opening(p)[i] =
               Opening(p)[i - 1] - (Installment[p] - Interest(Opening(p)[i - 1], 1))
<1>1. PICK g : OpeningSolves(p, g, Term)
  BY OpeningExists
<1>2. Opening(p) = CHOOSE open : open =
        [i \in 1..Term |-> IF i = 1 THEN p
                           ELSE open[i - 1] - (Installment[p] - Interest(open[i - 1], 1))]
  BY DEF Opening
<1>3. Opening(p) = [i \in 1..Term |-> IF i = 1 THEN p
         ELSE Opening(p)[i - 1] - (Installment[p] - Interest(Opening(p)[i - 1], 1))]
  BY <1>1, <1>2 DEF OpeningSolves
<1>4. Term \in Nat /\ Term >= 1
  BY LoanAssumption
<1> QED
  BY <1>3, <1>4

\* What is still to be scheduled is an amount.
LEMMA OpeningType ==
  ASSUME NEW p \in Principal
  PROVE  \A i \in 1..Term : Opening(p)[i] \in Int
<1> DEFINE T == {n \in Nat : n + 1 <= Term => Opening(p)[n + 1] \in Int}
<1>0. Term \in Nat /\ p \in Nat /\ Installment[p] \in Nat
  BY LoanAssumption
<1>1. 0 \in T
  BY <1>0, OpeningStep
<1>2. ASSUME NEW n \in Nat, n \in T PROVE n + 1 \in T
  <2> SUFFICES ASSUME (n + 1) + 1 <= Term PROVE Opening(p)[(n + 1) + 1] \in Int
    OBVIOUS
  <2>1. Opening(p)[n + 1] \in Int
    BY <1>0, <1>2
  <2>2. (n + 1) + 1 \in 2..Term /\ ((n + 1) + 1) - 1 = n + 1
    BY <1>0
  <2>3. Opening(p)[(n + 1) + 1] =
           Opening(p)[n + 1] - (Installment[p] - Interest(Opening(p)[n + 1], 1))
    BY <2>2, OpeningStep
  <2>4. Interest(Opening(p)[n + 1], 1) \in Int
    BY <2>1, InterestType
  <2> QED
    BY <1>0, <2>1, <2>3, <2>4
<1> HIDE DEF T
<1>3. Nat \subseteq T
  BY <1>1, <1>2, Induction
<1>4. ASSUME NEW i \in 1..Term PROVE Opening(p)[i] \in Int
  <2>1. i - 1 \in T /\ (i - 1) + 1 = i /\ i <= Term
    BY <1>0, <1>3
  <2> QED
    BY <2>1 DEF T
<1> QED
  BY <1>4

\* Every installment has a principal of zero or more.
LEMMA PrincipalDueType ==
  ASSUME NEW p \in Principal
  PROVE  /\ PrincipalDue(p) \in Seq(Nat) /\ Len(PrincipalDue(p)) = Term
         /\ \A i \in 1..Term : PrincipalDue(p)[i] =
               IF i = Term THEN Opening(p)[i]
               ELSE Installment[p] - Interest(Opening(p)[i], 1)
<1>0. Term \in Nat /\ Installment[p] \in Nat
  BY LoanAssumption
<1>1. ASSUME NEW i \in 1..Term
      PROVE  /\ PrincipalDue(p)[i] = IF i = Term THEN Opening(p)[i]
                                     ELSE Installment[p] - Interest(Opening(p)[i], 1)
             /\ PrincipalDue(p)[i] \in Nat
  <2>1. Opening(p)[i] \in Int
    BY OpeningType
  <2>2. Interest(Opening(p)[i], 1) \in Int
    BY <2>1, InterestType
  <2>3. PrincipalDue(p)[i] = IF i = Term THEN Opening(p)[i]
                             ELSE Installment[p] - Interest(Opening(p)[i], 1)
    BY DEF PrincipalDue
  <2>4. PrincipalDue(p)[i] >= 0
    BY AnnuityAssumption
  <2> QED
    BY <1>0, <2>1, <2>2, <2>3, <2>4
<1>2. PrincipalDue(p) = [i \in 1..Term |-> PrincipalDue(p)[i]]
  BY DEF PrincipalDue
<1> QED
  BY <1>0, <1>1, <1>2

\* The installments add up to the principal: the last one takes what is left.
LEMMA PrincipalDueTotal ==
  ASSUME NEW p \in Principal
  PROVE  Total(PrincipalDue(p)) = p
<1> DEFINE q == PrincipalDue(p)
           T == {n \in Nat : n + 1 <= Term => Sums(q)[n] = p - Opening(p)[n + 1]}
<1>0. /\ Term \in Nat /\ Term >= 1 /\ p \in Nat /\ Installment[p] \in Nat
      /\ q \in Seq(Int) /\ Len(q) = Term
      /\ \A i \in 1..Term : q[i] = IF i = Term THEN Opening(p)[i]
                                   ELSE Installment[p] - Interest(Opening(p)[i], 1)
  BY LoanAssumption, PrincipalDueType
<1> HIDE DEF q
<1>1. 0 \in T
  BY <1>0, SumsStep, OpeningStep
<1>2. ASSUME NEW n \in Nat, n \in T PROVE n + 1 \in T
  <2> SUFFICES ASSUME (n + 1) + 1 <= Term PROVE Sums(q)[n + 1] = p - Opening(p)[(n + 1) + 1]
    OBVIOUS
  <2>1. /\ n + 1 \in 1..Term /\ (n + 1) + 1 \in 2..Term /\ n + 1 # Term
        /\ (n + 1) - 1 = n /\ ((n + 1) + 1) - 1 = n + 1
    BY <1>0
  <2> DEFINE o == Opening(p)[n + 1]
             r == Interest(o, 1)
             k == Installment[p]
  <2>2. o \in Int /\ r \in Int /\ k \in Nat
    BY <1>0, <2>1, OpeningType, InterestType
  <2>3. Sums(q)[n + 1] = Sums(q)[n] + q[n + 1]
    BY <1>0, <2>1, SumsStep
  <2>4. Sums(q)[n] = p - o
    BY <1>0, <1>2, <2>1
  <2>5. q[n + 1] = k - r
    BY <1>0, <2>1
  <2>6. Opening(p)[(n + 1) + 1] = o - (k - r)
    BY <2>1, OpeningStep
  <2> HIDE DEF o, r, k
  <2> QED
    BY <1>0, <2>2, <2>3, <2>4, <2>5, <2>6
<1> HIDE DEF T
<1>3. Nat \subseteq T
  BY <1>1, <1>2, Induction
<1>4. Sums(q)[Term - 1] = p - Opening(p)[Term]
  <2>1. Term - 1 \in T /\ (Term - 1) + 1 = Term
    BY <1>0, <1>3
  <2> QED
    BY <1>0, <2>1 DEF T
<1>5. Sums(q)[Term] = Sums(q)[Term - 1] + q[Term] /\ q[Term] = Opening(p)[Term]
  BY <1>0, SumsStep, SMTT(30)
<1>6. Opening(p)[Term] \in Int
  BY <1>0, OpeningType
<1>7. Total(q) = p
  BY <1>0, <1>4, <1>5, <1>6 DEF Total
<1> QED
  BY <1>7 DEF q

\* What is open on an installment is never negative.
LEMMA OpenType ==
  ASSUME NEW s \in Seq(InstallmentRow)
  PROVE  /\ OpenPrincipal(s) \in Seq(Nat) /\ Len(OpenPrincipal(s)) = Len(s)
         /\ OpenInterest(s) \in Seq(Nat) /\ Len(OpenInterest(s)) = Len(s)
         /\ Total(OpenPrincipal(s)) \in Nat /\ Total(OpenInterest(s)) \in Nat
<1>1. ASSUME NEW i \in 1..Len(s)
      PROVE  /\ Greatest(s[i].principal - s[i].paidPrincipal, 0) \in Nat
             /\ Greatest(s[i].interest - s[i].paidInterest, 0) \in Nat
  <2>1. s[i] \in InstallmentRow
    OBVIOUS
  <2>2. /\ s[i].principal \in Int /\ s[i].paidPrincipal \in Int
        /\ s[i].interest \in Int /\ s[i].paidInterest \in Int
    BY <2>1 DEF InstallmentRow
  <2>3. \A x, y \in Int : Greatest(x - y, 0) \in Nat
    BY DEF Greatest
  <2> QED
    BY <2>2, <2>3
<1>2. /\ OpenPrincipal(s) \in Seq(Nat) /\ Len(OpenPrincipal(s)) = Len(s)
      /\ OpenInterest(s) \in Seq(Nat) /\ Len(OpenInterest(s)) = Len(s)
  BY <1>1 DEF OpenPrincipal, OpenInterest
<1> QED
  BY <1>2, TotalOfNat

\* Nothing is due on any installment exactly when both totals are zero.
LEMMA SettledTotals ==
  ASSUME NEW s \in Seq(InstallmentRow)
  PROVE  (\A i \in 1..Len(s) : ~Unpaid(s, i))
            <=> Total(OpenPrincipal(s)) = 0 /\ Total(OpenInterest(s)) = 0
<1> DEFINE q == OpenPrincipal(s)
           r == OpenInterest(s)
<1>1. q \in Seq(Nat) /\ Len(q) = Len(s) /\ r \in Seq(Nat) /\ Len(r) = Len(s)
  BY OpenType
<1>2. \A i \in 1..Len(s) : Unpaid(s, i) <=> r[i] > 0 \/ q[i] > 0
  BY DEF Unpaid
<1> HIDE DEF q, r
<1>3. \A i \in 1..Len(s) : Unpaid(s, i) <=> ~(r[i] = 0 /\ q[i] = 0)
  BY <1>1, <1>2
<1>4. /\ Total(q) = 0 <=> \A i \in 1..Len(q) : q[i] = 0
      /\ Total(r) = 0 <=> \A i \in 1..Len(r) : r[i] = 0
  BY <1>1, TotalOfNat
<1>5. (\A i \in 1..Len(s) : ~Unpaid(s, i)) <=> Total(q) = 0 /\ Total(r) = 0
  BY <1>1, <1>3, <1>4
<1> QED
  BY <1>5 DEF q, r

\* A schedule has Term installments whose principals add up to the loan.
LEMMA ScheduleType ==
  ASSUME today \in Day, NEW p \in Principal
  PROVE  /\ Schedule(p) \in Seq(InstallmentRow) /\ Len(Schedule(p)) = Term
         /\ Total(OpenPrincipal(Schedule(p))) = p
<1>0. Term \in Nat /\ today \in Int
  BY LoanAssumption DEF Day
<1>1. ASSUME NEW i \in 1..Term
      PROVE  PrincipalDue(p)[i] \in Nat /\ Interest(Opening(p)[i], 1) \in Int
  <2>1. Opening(p)[i] \in Int
    BY OpeningType
  <2>2. Interest(Opening(p)[i], 1) \in Int
    BY <2>1, InterestType
  <2>3. PrincipalDue(p)[i] \in Nat
    BY <1>0, PrincipalDueType
  <2> QED
    BY <2>2, <2>3
<1>2. Schedule(p) \in Seq(InstallmentRow) /\ Len(Schedule(p)) = Term
  BY <1>0, <1>1 DEF Schedule, InstallmentRow
<1>3. OpenPrincipal(Schedule(p)) = PrincipalDue(p)
  <2>1. ASSUME NEW i \in 1..Term
        PROVE  Greatest(Schedule(p)[i].principal - Schedule(p)[i].paidPrincipal, 0)
                  = PrincipalDue(p)[i]
    BY <1>0, <1>1 DEF Schedule, Greatest
  <2>2. PrincipalDue(p) = [i \in 1..Term |-> PrincipalDue(p)[i]]
    BY DEF PrincipalDue
  <2> QED
    BY <1>2, <2>1, <2>2 DEF OpenPrincipal
<1> QED
  BY <1>2, <1>3, PrincipalDueTotal

\* A repayment lowers what is open by what was paid, and not below zero.
LEMMA AppliedType ==
  ASSUME NEW s \in Seq(InstallmentRow), NEW a \in Nat, NEW b \in Nat
  PROVE  /\ Applied(s, a, b) \in Seq(InstallmentRow)
         /\ Len(Applied(s, a, b)) = Len(s)
         /\ Total(OpenPrincipal(Applied(s, a, b))) = Greatest(Total(OpenPrincipal(s)) - b, 0)
         /\ Total(OpenInterest(Applied(s, a, b))) = Greatest(Total(OpenInterest(s)) - a, 0)
<1> DEFINE q == OpenPrincipal(s)
           r == OpenInterest(s)
           x == InOrder(b, q)
           y == InOrder(a, r)
           s2 == Applied(s, a, b)
<1>1. q \in Seq(Nat) /\ Len(q) = Len(s) /\ r \in Seq(Nat) /\ Len(r) = Len(s)
  BY OpenType
<1>2. /\ \A i \in 1..Len(s) : x[i] \in 0..q[i] /\ y[i] \in 0..r[i]
      /\ \A i \in 1..Len(s) : x[i] \in Int /\ y[i] \in Int
  <2>1. \A i \in 1..Len(s) : x[i] \in 0..q[i]
    BY <1>1, InOrderType
  <2>2. \A i \in 1..Len(s) : y[i] \in 0..r[i]
    BY <1>1, InOrderType
  <2> HIDE DEF x, y, q, r
  <2> QED
    BY <2>1, <2>2
<1>3. s2 = [i \in 1..Len(s) |-> [s[i] EXCEPT !.paidInterest = @ + y[i], !.paidPrincipal = @ + x[i]]]
  BY DEF Applied
<1>4. \A i \in 1..Len(s) : /\ q[i] = Greatest(s[i].principal - s[i].paidPrincipal, 0)
                           /\ r[i] = Greatest(s[i].interest - s[i].paidInterest, 0)
  BY DEF OpenPrincipal, OpenInterest
<1> HIDE DEF q, r, x, y, s2
<1>5. ASSUME NEW i \in 1..Len(s)
      PROVE  /\ s2[i] \in InstallmentRow
             /\ s2[i].principal = s[i].principal /\ s2[i].interest = s[i].interest
             /\ s2[i].paidPrincipal = s[i].paidPrincipal + x[i]
             /\ s2[i].paidInterest = s[i].paidInterest + y[i]
  <2> DEFINE row == s[i]
             u == x[i]
             v == y[i]
  <2>1. row \in InstallmentRow
    OBVIOUS
  <2>2. u \in Int /\ v \in Int
    BY <1>2
  <2>3. s2[i] = [row EXCEPT !.paidInterest = @ + v, !.paidPrincipal = @ + u]
    BY <1>3
  <2> HIDE DEF row, u, v
  <2>4. /\ row.paidPrincipal \in Int /\ row.paidInterest \in Int
        /\ row.due \in Int /\ row.principal \in Int /\ row.interest \in Int
    BY <2>1 DEF InstallmentRow
  <2>6. row.paidPrincipal + u \in Int /\ row.paidInterest + v \in Int
    BY <2>2, <2>4
  <2>7. s2[i] \in InstallmentRow
    BY <2>1, <2>3, <2>4, <2>6 DEF InstallmentRow
  <2>8. /\ s2[i].principal = row.principal /\ s2[i].interest = row.interest
        /\ s2[i].paidPrincipal = row.paidPrincipal + u
        /\ s2[i].paidInterest = row.paidInterest + v
    BY <2>1, <2>2, <2>3 DEF InstallmentRow
  <2> QED
    BY <2>7, <2>8 DEF row, u, v
<1>10. s2 \in Seq(InstallmentRow) /\ Len(s2) = Len(s)
  <2>1. s2 = [i \in 1..Len(s) |-> s2[i]]
    BY <1>3
  <2> QED
    BY <1>5, <2>1
<1>6. ASSUME NEW i \in 1..Len(s)
      PROVE  /\ OpenPrincipal(s2)[i] = q[i] - x[i]
             /\ OpenInterest(s2)[i] = r[i] - y[i]
  <2>1. /\ OpenPrincipal(s2)[i] = Greatest(s2[i].principal - s2[i].paidPrincipal, 0)
        /\ OpenInterest(s2)[i] = Greatest(s2[i].interest - s2[i].paidInterest, 0)
    BY <1>10 DEF OpenPrincipal, OpenInterest
  <2>2. s[i] \in InstallmentRow
    OBVIOUS
  <2>3. /\ s[i].principal \in Int /\ s[i].paidPrincipal \in Int
        /\ s[i].interest \in Int /\ s[i].paidInterest \in Int
    BY <2>2 DEF InstallmentRow
  <2>4. x[i] \in 0..q[i] /\ y[i] \in 0..r[i] /\ q[i] \in Nat /\ r[i] \in Nat
    BY <1>1, <1>2
  <2>5. \A due, paid \in Int : \A pay \in 0..Greatest(due - paid, 0) :
           Greatest(due - (paid + pay), 0) = Greatest(due - paid, 0) - pay
    BY DEF Greatest
  <2>6. /\ OpenPrincipal(s2)[i] = Greatest(s[i].principal - (s[i].paidPrincipal + x[i]), 0)
        /\ OpenInterest(s2)[i] = Greatest(s[i].interest - (s[i].paidInterest + y[i]), 0)
    BY <1>5, <2>1
  <2>7. /\ q[i] = Greatest(s[i].principal - s[i].paidPrincipal, 0)
        /\ r[i] = Greatest(s[i].interest - s[i].paidInterest, 0)
    BY <1>4
  <2>8. Greatest(s[i].principal - (s[i].paidPrincipal + x[i]), 0) = q[i] - x[i]
    <3>1. x[i] \in 0..Greatest(s[i].principal - s[i].paidPrincipal, 0)
      BY <2>4, <2>7
    <3> QED
      BY <2>3, <2>5, <2>7, <3>1
  <2>9. Greatest(s[i].interest - (s[i].paidInterest + y[i]), 0) = r[i] - y[i]
    <3>1. y[i] \in 0..Greatest(s[i].interest - s[i].paidInterest, 0)
      BY <2>4, <2>7
    <3> QED
      BY <2>3, <2>5, <2>7, <3>1
  <2> QED
    BY <2>6, <2>8, <2>9
<1>7. /\ OpenPrincipal(s2) \in Seq(Nat) /\ Len(OpenPrincipal(s2)) = Len(s)
      /\ OpenInterest(s2) \in Seq(Nat) /\ Len(OpenInterest(s2)) = Len(s)
  BY <1>10, OpenType
<1>8. Total(OpenPrincipal(s2)) = Greatest(Total(q) - b, 0)
  BY <1>1, <1>6, <1>7, InOrderLeaves DEF x
<1>9. Total(OpenInterest(s2)) = Greatest(Total(r) - a, 0)
  BY <1>1, <1>6, <1>7, InOrderLeaves DEF y
<1> QED
  BY <1>10, <1>8, <1>9 DEF q, r, s2

(***************************************************************************)
(* What a step leaves alone.                                                *)
(***************************************************************************)
SameRows(l) ==
    /\ loans'[l] = loans[l] /\ accounts'[l] = accounts[l] /\ schedules'[l] = schedules[l]
    /\ gl'[l] = gl[l] /\ running'[l] = running[l] /\ charged'[l] = charged[l]

\* A loan whose rows stay keeps its invariant when overlaps are only added.
LEMMA LoanFrame ==
  ASSUME NEW l \in Loan, LoanInv(l), SameRows(l), overlaps \subseteq overlaps'
  PROVE  LoanInv(l)'
<1>1. \A kinds : ~Overlapped(l, kinds)' => ~Overlapped(l, kinds)
  BY DEF Overlapped
<1>2. Alone(l)' => Alone(l)
  BY DEF Alone, Overlapped
<1>3. Orderly(l)' => Orderly(l)
  BY DEF Orderly, Overlapped
<1>4. Absent(l)' /\ Present(l)' /\ FollowsOK(l)'
  BY DEF LoanInv, SameRows, Absent, Present, FollowsOK
<1>5. BookOK(l)' /\ ChargedOK(l)'
  BY <1>1 DEF LoanInv, SameRows, BookOK, ChargedOK, Overlapped
<1>6. MirrorOK(l)'
  BY <1>2 DEF LoanInv, SameRows, MirrorOK
<1>7. PaidLast(l)'
  BY <1>3 DEF LoanInv, SameRows, PaidLast
<1> QED
  BY <1>4, <1>5, <1>6, <1>7 DEF LoanInv

\* ... and so does what a transaction has seen of it.
LEMMA SeenFrame ==
  ASSUME NEW t \in Txn, txns'[t] = txns[t], NEW l \in Loan, SeenOK(txns[t], l),
         loans'[l] = loans[l], accounts'[l] = accounts[l], schedules'[l] = schedules[l],
         overlaps \subseteq overlaps'
  PROVE  SeenOK(txns[t], l)'
<1>1. \A kinds : ~Overlapped(l, kinds)' => ~Overlapped(l, kinds)
  BY DEF Overlapped
<1>2. (Alone(l)' => Alone(l)) /\ (Orderly(l)' => Orderly(l))
  BY DEF Alone, Orderly, Overlapped
<1> QED
  BY <1>1, <1>2 DEF SeenOK, Overlapped

\* A transaction that does not step, none of whose loans changes.
LEMMA TxnFrame ==
  ASSUME NEW t \in Txn, txns'[t] = txns[t], TxnInv(t), overlaps \subseteq overlaps',
         \A l \in Touches(txns[t]) : loans'[l] = loans[l] /\ accounts'[l] = accounts[l]
                                                         /\ schedules'[l] = schedules[l]
  PROVE  TxnInv(t)'
<1>1. TxnOK(txns[t]) /\ \A l \in Touches(txns[t]) : l \in Loan /\ SeenOK(txns[t], l)
  BY DEF TxnInv, Touches
<1>2. ASSUME NEW l \in Touches(txns[t]) PROVE SeenOK(txns[t], l)'
  BY <1>1, SeenFrame
<1> QED
  BY <1>1, <1>2 DEF TxnInv

\* Overlaps stay on record when transactions only end.
LEMMA OverlapFrame ==
  ASSUME OverlapsOK, overlaps \subseteq overlaps',
         \A t \in Txn : /\ Touches(txns'[t]) \subseteq Touches(txns[t])
                        /\ Touches(txns'[t]) # {} => Kind(txns'[t]) = Kind(txns[t])
  PROVE  OverlapsOK'
<1> SUFFICES ASSUME NEW t \in Txn, NEW s \in Txn, t # s,
                    NEW l \in Touches(txns'[t]) \cap Touches(txns'[s])
             PROVE  <<l, {Kind(txns'[t]), Kind(txns'[s])}>> \in overlaps'
  BY DEF OverlapsOK
<1>1. Kind(txns'[t]) = Kind(txns[t]) /\ Kind(txns'[s]) = Kind(txns[s])
  OBVIOUS
<1>2. l \in Touches(txns[t]) \cap Touches(txns[s])
  OBVIOUS
<1>3. <<l, {Kind(txns[t]), Kind(txns[s])}>> \in overlaps
  BY <1>2 DEF OverlapsOK
<1> QED
  BY <1>1, <1>3

\* One transaction steps.
LEMMA TxnStep ==
  ASSUME RowsOK, NEW t \in Txn, NEW new \in TxnRow, txns' = [txns EXCEPT ![t] = new]
  PROVE  /\ txns' \in [Txn -> TxnRow] /\ txns'[t] = new
         /\ \A s \in Txn : s # t => txns'[s] = txns[s]
  BY DEF RowsOK

\* A step of one transaction that leaves the tables as they are.
LEMMA LocalStep ==
  ASSUME IInv, TypeOK', NEW t \in Txn, NEW new \in TxnRow,
         txns' = [txns EXCEPT ![t] = new],
         UNCHANGED <<loans, accounts, schedules, gl, running, charged, overlaps>>,
         Touches(new) \subseteq Touches(txns[t]),
         Touches(new) # {} => Kind(new) = Kind(txns[t]),
         TxnOK(new), \A l \in Touches(new) : SeenOK(new, l)
  PROVE  IInv'
<1>1. /\ txns' \in [Txn -> TxnRow] /\ txns'[t] = new
      /\ \A s \in Txn : s # t => txns'[s] = txns[s]
  BY TxnStep DEF IInv
<1>2. RowsOK'
  BY <1>1 DEF IInv, RowsOK
<1>3. OverlapsOK'
  BY <1>1, OverlapFrame DEF IInv
<1>4. ASSUME NEW l \in Loan PROVE LoanInv(l)'
  BY LoanFrame DEF IInv, SameRows
<1>5. ASSUME NEW s \in Txn PROVE TxnInv(s)'
  <2>1. CASE s # t
    BY <1>1, <2>1, TxnFrame DEF IInv
  <2>2. CASE s = t
    <3>1. ASSUME NEW l \in Touches(txns'[s]) PROVE SeenOK(txns[s], l)'
      BY <1>1, <2>2 DEF SeenOK, Overlapped, Orderly, Alone
    <3> QED
      BY <1>1, <2>2, <3>1 DEF TxnInv
  <2> QED
    BY <2>1, <2>2
<1> QED
  BY <1>2, <1>3, <1>4, <1>5 DEF IInv

\* A call that has not begun, or is over, touches nothing.
LEMMA FreshType ==
  /\ NoLoan \in LoanRow /\ Zero \in [principal : Nat, interest : Nat]
  /\ Fresh \in TxnRow /\ [Fresh EXCEPT !.pc = "done"] \in TxnRow
  /\ Touches(Fresh) = {} /\ Touches([Fresh EXCEPT !.pc = "done"]) = {}
<1>1. 0 \in Day
  BY LoanAssumption DEF Day
<1>2. NoLoan \in LoanRow /\ NoAccount \in AccountRow /\ Zero \in [principal : Nat, interest : Nat]
  BY <1>1 DEF NoLoan, LoanRow, Statuses, NoAccount, AccountRow, Zero
<1>3. [l \in Loan |-> NoLoan] \in [Loan -> LoanRow]
  BY <1>2
<1>4. Fresh \in TxnRow /\ [Fresh EXCEPT !.pc = "done"] \in TxnRow
  BY <1>1, <1>2, <1>3 DEF Fresh, TxnRow
<1>5. Touches(Fresh) = {} /\ Touches([Fresh EXCEPT !.pc = "done"]) = {}
  BY DEF Fresh, Touches
<1> QED
  BY <1>2, <1>4, <1>5

\* The call is over: it remembers nothing.
LEMMA EndStep ==
  ASSUME IInv, TypeOK', NEW t \in Txn, End(t),
         UNCHANGED <<loans, accounts, schedules, gl, running, charged, overlaps>>
  PROVE  IInv'
<1> DEFINE new == [Fresh EXCEPT !.pc = "done"]
<1>1. new \in TxnRow /\ Touches(new) = {} /\ new.pc = "done"
  BY FreshType DEF Fresh
<1>2. txns' = [txns EXCEPT ![t] = new]
  BY DEF End
<1> HIDE DEF new
<1>3. TxnOK(new)
  BY <1>1 DEF TxnOK, Repaying, Priced
<1> QED
  BY <1>1, <1>2, <1>3, LocalStep

\* A failed call leaves no trace.
LEMMA AbortPreserves ==
  ASSUME IInv, NEW t \in Txn, Abort(t)
  PROVE  IInv'
<1>1. TypeOK'
  BY DEF IInv, TypeOK, Abort
<1> QED
  BY <1>1, EndStep DEF Abort

\* The loan account is read as it is.
LEMMA ReadAccountPreserves ==
  ASSUME IInv, NEW t \in Txn, ReadAccount(t)
  PROVE  IInv'
<1> DEFINE tx == txns[t]
           new == [tx EXCEPT !.pc = "repay", !.account = accounts[tx.loan]]
<1>1. /\ tx.pc = "account" /\ txns' = [txns EXCEPT ![t] = new]
      /\ UNCHANGED <<today, loans, accounts, schedules, gl, running, charged, overlaps>>
  BY DEF ReadAccount
<1>2. tx \in TxnRow /\ TxnOK(tx) /\ \A l \in Touches(tx) : SeenOK(tx, l)
  BY DEF IInv, RowsOK, TxnInv
<1>3. tx.loan \in Loan /\ Touches(tx) = {tx.loan} /\ accounts[tx.loan] \in AccountRow
  BY <1>1, <1>2 DEF TxnOK, Repaying, IInv, TypeOK, AccountRow
<1> HIDE DEF tx
<1>4. /\ new \in TxnRow /\ new.pc = "repay" /\ new.account = accounts[tx.loan]
      /\ new.seen = tx.seen /\ new.loan = tx.loan /\ new.amount = tx.amount
      /\ new.principal = tx.principal /\ new.receivable = tx.receivable
  BY <1>2, <1>3 DEF TxnRow
<1>5. Touches(new) = Touches(tx) /\ Kind(new) = Kind(tx)
  BY <1>1, <1>4 DEF Touches, Kind
<1> HIDE DEF new
<1>6. TxnOK(new)
  BY <1>1, <1>2, <1>4, <1>5 DEF TxnOK, Repaying, Priced
<1>7. ASSUME NEW l \in Touches(new) PROVE SeenOK(new, l)
  <2>1. l = tx.loan /\ SeenOK(tx, l)
    BY <1>2, <1>3, <1>5
  <2> QED
    BY <1>1, <1>4, <2>1 DEF SeenOK, Repaying, Priced
<1>8. TypeOK'
  BY <1>1 DEF IInv, TypeOK
<1> QED
  BY <1>1, <1>4, <1>5, <1>6, <1>7, <1>8, LocalStep DEF tx

\* How a repayment is split: interest first, and no more than is owed.
LEMMA SplitOK ==
  ASSUME NEW amt \in Nat, NEW principal \in Nat, NEW interest \in Nat, NEW due \in Nat,
         amt <= principal + Greatest(interest, due)
  PROVE  LET owed == Greatest(interest, due)
             paid == Least(amt, owed)
         IN  /\ amt - paid \in Nat /\ amt - paid <= amt /\ amt - paid <= principal
             /\ Least(paid, interest) \in Nat /\ Least(paid, interest) <= interest
             /\ amt - paid > 0 => Least(paid, interest) = interest /\ due <= amt - (amt - paid)
  BY DEF Greatest, Least

\* The split never pays more principal than was seen, and any principal only after all interest.
LEMMA ReadSchedulesPreserves ==
  ASSUME IInv, NEW t \in Txn, ReadSchedules(t)
  PROVE  IInv'
<1> DEFINE tx == txns[t]
           row == tx.seen[tx.loan]
           due == Total(OpenInterest(schedules[tx.loan]))
           owed == Greatest(row.interest, due)
           paid == Least(tx.amount, owed)
           new == [tx EXCEPT !.pc = "account", !.receivable = Least(paid, row.interest),
                             !.principal = tx.amount - paid]
<1>1. /\ tx.pc = "schedules"
      /\ IF tx.amount > row.principal + owed THEN End(t) ELSE txns' = [txns EXCEPT ![t] = new]
      /\ UNCHANGED <<today, loans, accounts, schedules, gl, running, charged, overlaps>>
  BY DEF ReadSchedules, Split
<1>2. TypeOK'
  BY <1>1 DEF IInv, TypeOK
<1>3. CASE tx.amount > row.principal + owed
  BY <1>1, <1>2, <1>3, EndStep
<1>4. CASE ~(tx.amount > row.principal + owed)
  <2>1. tx \in TxnRow /\ TxnOK(tx) /\ \A l \in Touches(tx) : SeenOK(tx, l)
    BY DEF IInv, RowsOK, TxnInv
  <2>2. tx.loan \in Loan /\ Touches(tx) = {tx.loan}
    BY <1>1, <2>1 DEF TxnOK, Repaying
  <2>3. tx.amount \in Nat /\ row.principal \in Nat /\ row.interest \in Nat
    BY <2>1, <2>2 DEF TxnRow, LoanRow
  <2>4. due \in Nat
    <3>1. schedules[tx.loan] \in Seq(InstallmentRow)
      BY <2>2 DEF IInv, RowsOK
    <3> QED
      BY <3>1, OpenType
  <2>5. /\ tx.amount - paid \in Nat /\ tx.amount - paid <= tx.amount
        /\ tx.amount - paid <= row.principal
        /\ Least(paid, row.interest) \in Nat /\ Least(paid, row.interest) <= row.interest
        /\ tx.amount - paid > 0 => /\ Least(paid, row.interest) = row.interest
                                   /\ due <= tx.amount - (tx.amount - paid)
    <3>1. owed \in Int
      BY <2>3, <2>4 DEF Greatest
    <3>2. tx.amount <= row.principal + owed
      BY <1>4, <2>3, <3>1
    <3> QED
      BY <2>3, <2>4, <3>2, SplitOK
  <2> DEFINE x == tx.amount - paid
             y == Least(paid, row.interest)
  <2> HIDE DEF tx, x, y, due
  <2>6. /\ new = [tx EXCEPT !.pc = "account", !.receivable = y, !.principal = x]
        /\ x \in Nat /\ y \in Nat
    BY <2>5 DEF x, y
  <2>7. /\ new \in TxnRow /\ new.pc = "account" /\ new.receivable = y /\ new.principal = x
        /\ new.seen = tx.seen /\ new.loan = tx.loan /\ new.amount = tx.amount
    BY <2>1, <2>6 DEF TxnRow
  <2> HIDE DEF new
  <2>8. Touches(new) = Touches(tx) /\ Kind(new) = Kind(tx)
    BY <1>1, <2>7 DEF Touches, Kind
  <2>9. x <= tx.amount /\ x <= row.principal /\ y <= row.interest
        /\ (x > 0 => y = row.interest /\ due <= tx.amount - x)
    BY <2>5 DEF x, y
  <2>10. TxnOK(new)
    BY <2>2, <2>7, <2>8, <2>9 DEF TxnOK, Repaying, Priced
  <2>11. ASSUME NEW l \in Touches(new) PROVE SeenOK(new, l)
    <3>1. l = tx.loan /\ SeenOK(tx, l)
      BY <2>1, <2>2, <2>8
    <3> QED
      BY <1>1, <2>7, <2>9, <3>1 DEF SeenOK, Repaying, Priced, due
  <2>12. txns' = [txns EXCEPT ![t] = new]
    BY <1>1, <1>4 DEF new, x, y
  <2> QED
    BY <1>1, <1>2, <2>7, <2>8, <2>10, <2>11, <2>12, LocalStep DEF tx
<1> QED
  BY <1>3, <1>4

\* A transaction reads its loans: whoever touches one of them goes on record.
LEMMA BeginStep ==
  ASSUME IInv, NEW t \in Txn, NEW new \in TxnRow, Begin(t, new), TxnOK(new),
         new.pc \in {"schedules", "accrue"},
         \A l \in Touches(new) : new.seen[l] = loans[l],
         UNCHANGED <<today, loans, accounts, schedules, gl, running, charged>>
  PROVE  IInv'
<1>1. txns' = [txns EXCEPT ![t] = new] /\ txns[t].pc = "new" /\ overlaps \subseteq overlaps'
  BY DEF Begin
<1>2. /\ txns' \in [Txn -> TxnRow] /\ txns'[t] = new
      /\ \A s \in Txn : s # t => txns'[s] = txns[s]
  BY <1>1, TxnStep DEF IInv
<1>3. RowsOK'
  BY <1>2 DEF IInv, RowsOK
<1>4. ASSUME NEW s \in Txn, s # t, NEW l \in Touches(new) \cap Touches(txns[s])
      PROVE  <<l, {Kind(new), Kind(txns[s])}>> \in overlaps'
  <2>1. l \in Loan /\ new.seen[l] # NoLoan /\ l \in Touched(s)
    BY DEF Touches, Touched
  <2>2. {Kind(new), Kind(txns[s])} \in SUBSET {"repay", "accrue"}
    BY DEF Kind
  <2> QED
    BY <2>1, <2>2 DEF Begin
<1>5. OverlapsOK'
  <2> SUFFICES ASSUME NEW r \in Txn, NEW s \in Txn, r # s,
                      NEW l \in Touches(txns'[r]) \cap Touches(txns'[s])
               PROVE  <<l, {Kind(txns'[r]), Kind(txns'[s])}>> \in overlaps'
    BY DEF OverlapsOK
  <2>1. CASE r = t
    BY <1>2, <1>4, <2>1
  <2>2. CASE s = t
    <3>1. <<l, {Kind(txns'[s]), Kind(txns'[r])}>> \in overlaps'
      BY <1>2, <1>4, <2>2
    <3>2. {Kind(txns'[s]), Kind(txns'[r])} = {Kind(txns'[r]), Kind(txns'[s])}
      OBVIOUS
    <3> QED
      BY <3>1, <3>2
  <2>3. CASE r # t /\ s # t
    BY <1>1, <1>2, <2>3 DEF IInv, OverlapsOK
  <2> QED
    BY <2>1, <2>2, <2>3
<1>6. ASSUME NEW l \in Loan PROVE LoanInv(l)'
  BY <1>1, LoanFrame DEF IInv, SameRows
<1>7. ASSUME NEW s \in Txn PROVE TxnInv(s)'
  <2>1. CASE s # t
    BY <1>1, <1>2, <2>1, TxnFrame DEF IInv
  <2>2. CASE s = t
    <3>1. ASSUME NEW l \in Touches(new) PROVE SeenOK(new, l)'
      <4>1. l \in Loan /\ new.seen[l] = loans[l] /\ loans[l] # NoLoan /\ loans[l].interest \in Nat
        BY DEF Touches, IInv, TypeOK
      <4> QED
        BY <4>1 DEF SeenOK, Priced
    <3> QED
      BY <1>2, <2>2, <3>1 DEF TxnInv
  <2> QED
    BY <2>1, <2>2
<1>8. TypeOK'
  BY DEF IInv, TypeOK
<1> QED
  BY <1>3, <1>5, <1>6, <1>7, <1>8 DEF IInv

\* What is read is the row, for the loans asked for.
LEMMA SeenType ==
  ASSUME TypeOK, NEW S \in SUBSET Loan, \A l \in S : loans[l] # NoLoan
  PROVE  /\ Seen(S) \in [Loan -> LoanRow]
         /\ {l \in Loan : Seen(S)[l] # NoLoan} = S
         /\ \A l \in S : Seen(S)[l] = loans[l]
  BY FreshType DEF TypeOK, Seen, LoanRow

\* A repayment begins with the loan as it is.
LEMMA LoanRepaymentPreserves ==
  ASSUME IInv, NEW t \in Txn, NEW l \in Loan, NEW amt \in Payment, LoanRepayment(t, l, amt)
  PROVE  IInv'
<1> DEFINE new == [Fresh EXCEPT !.pc = "schedules", !.seen = Seen({l}), !.loan = l,
                                !.amount = amt, !.date = today]
<1>1. Begin(t, new) /\ UNCHANGED <<today, loans, accounts, schedules, gl, running, charged>>
  BY DEF LoanRepayment
<1>2. loans[l] # NoLoan /\ amt \in Nat /\ today \in Day /\ TypeOK
  BY LoanAssumption DEF LoanRepayment, Repayable, NoLoan, IInv, TypeOK
<1> DEFINE seen == Seen({l})
<1>3. seen \in [Loan -> LoanRow] /\ {k \in Loan : seen[k] # NoLoan} = {l} /\ seen[l] = loans[l]
  BY <1>2, SeenType
<1> HIDE DEF seen
<1>4. new = [Fresh EXCEPT !.pc = "schedules", !.seen = seen, !.loan = l,
                          !.amount = amt, !.date = today]
  BY DEF seen
<1>5. Fresh \in TxnRow
  BY FreshType
<1> HIDE DEF new
<1>6. new \in TxnRow /\ new.pc = "schedules" /\ new.seen = seen /\ new.loan = l
  BY <1>2, <1>3, <1>4, <1>5 DEF TxnRow
<1>7. Touches(new) = {l}
  BY <1>3, <1>6 DEF Touches
<1>8. TxnOK(new)
  BY <1>6, <1>7 DEF TxnOK, Priced
<1> QED
  BY <1>1, <1>3, <1>6, <1>7, <1>8, BeginStep

\* An accrual begins with loans that are behind its date.
LEMMA InterestAccrualPreserves ==
  ASSUME IInv, NEW t \in Txn, NEW date \in Day, InterestAccrual(t, date)
  PROVE  IInv'
<1> DEFINE due == {l \in Loan : Repayable(loans[l]) /\ loans[l].principal > 0
                                                    /\ Charge(loans[l], date) > 0}
           seen == Seen(due)
           new == [Fresh EXCEPT !.pc = "accrue", !.seen = Seen(due), !.date = date]
<1>1. Begin(t, new) /\ UNCHANGED <<today, loans, accounts, schedules, gl, running, charged>>
  BY DEF InterestAccrual
<1>2. due \in SUBSET Loan /\ TypeOK
  BY DEF IInv
<1>3. ASSUME NEW l \in due
      PROVE  /\ loans[l] # NoLoan /\ loans[l].principal > 0 /\ loans[l].accrued < date
             /\ Days(loans[l], date) = date - loans[l].accrued
  <2>1. loans[l] \in LoanRow
    BY <1>2 DEF TypeOK, LoanRow
  <2>2. Charge(loans[l], date) > 0 /\ Repayable(loans[l]) /\ loans[l].principal > 0
    OBVIOUS
  <2> HIDE DEF due
  <2>3. loans[l] # NoLoan
    BY <2>2 DEF Repayable, NoLoan
  <2> QED
    BY <2>1, <2>2, <2>3, ChargeType
<1> HIDE DEF due
<1>4. /\ seen \in [Loan -> LoanRow] /\ {l \in Loan : seen[l] # NoLoan} = due
      /\ \A l \in due : seen[l] = loans[l]
  BY <1>2, <1>3, SeenType
<1>5. new = [Fresh EXCEPT !.pc = "accrue", !.seen = seen, !.date = date]
  OBVIOUS
<1>6. Fresh \in TxnRow
  BY FreshType
<1> HIDE DEF new, seen
<1>7. new \in TxnRow /\ new.pc = "accrue" /\ new.seen = seen /\ new.date = date
  BY <1>4, <1>5, <1>6 DEF TxnRow
<1>8. Touches(new) = due
  BY <1>4, <1>7 DEF Touches
<1>9. TxnOK(new)
  BY <1>3, <1>4, <1>7, <1>8 DEF TxnOK, Repaying, Priced
<1> QED
  BY <1>1, <1>4, <1>7, <1>8, <1>9, BeginStep

(***************************************************************************)
(* The steps that write the tables.                                         *)
(***************************************************************************)
\* The types of one loan's rows.
LEMMA TypesOfRow ==
  ASSUME IInv, NEW l \in Loan
  PROVE  /\ loans[l] \in LoanRow /\ accounts[l] \in AccountRow
         /\ schedules[l] \in Seq(InstallmentRow)
         /\ gl[l].principal \in Int /\ gl[l].interest \in Int
         /\ charged[l] \in Nat /\ today \in Day
         /\ loans[l].principal \in Nat /\ loans[l].interest \in Nat
         /\ accounts[l].principal \in Nat /\ accounts[l].interest \in Nat
         /\ loans[l].since \in Nat /\ loans[l].accrued \in Nat
         /\ Total(OpenPrincipal(schedules[l])) \in Nat
         /\ Total(OpenInterest(schedules[l])) \in Nat
<1>1. /\ loans[l] \in LoanRow /\ accounts[l] \in AccountRow
      /\ schedules[l] \in Seq(InstallmentRow)
      /\ gl[l] \in [principal : Int, interest : Int] /\ charged[l] \in Nat /\ today \in Day
  BY DEF IInv, TypeOK, RowsOK, LoanRow, AccountRow
<1>2. Day \subseteq Nat
  BY LoanAssumption DEF Day
<1>3. /\ Total(OpenPrincipal(schedules[l])) \in Nat
      /\ Total(OpenInterest(schedules[l])) \in Nat
  BY <1>1, OpenType
<1> QED
  BY <1>1, <1>2, <1>3 DEF LoanRow, AccountRow

\* A new loan, its account, schedule and journal agree.
LEMMA LoanDisbursePreserves ==
  ASSUME IInv, NEW l \in Loan, NEW p \in Principal, LoanDisburse(l, p)
  PROVE  IInv'
<1>0. p \in Nat /\ p > 0 /\ today \in Day /\ Day \subseteq Nat
  BY LoanAssumption DEF IInv, TypeOK, Day
<1> DEFINE row == [status |-> "active", principal |-> p, interest |-> 0,
                   since |-> today, accrued |-> today]
           s == Schedule(p)
<1>1. /\ loans[l] = NoLoan
      /\ loans' = [loans EXCEPT ![l] = row]
      /\ accounts' = [accounts EXCEPT ![l] = [status |-> "active", principal |-> p, interest |-> 0]]
      /\ schedules' = [schedules EXCEPT ![l] = s]
      /\ gl' = [gl EXCEPT ![l].principal = @ + p]
      /\ running' = [running EXCEPT ![l] = [principal |-> p, interest |-> 0]]
      /\ UNCHANGED <<today, charged, txns, overlaps>>
  BY DEF LoanDisburse
<1>2. s \in Seq(InstallmentRow) /\ Len(s) = Term /\ Total(OpenPrincipal(s)) = p
  BY <1>0, ScheduleType
<1> HIDE DEF s
<1>3. gl[l].principal = 0 /\ gl[l].interest = 0 /\ charged[l] = 0
  BY <1>1 DEF IInv, LoanInv, Absent, Zero
<1>4. TypeOK'
  <2>1. row \in LoanRow
    BY <1>0 DEF LoanRow, Statuses
  <2>2. loans' \in [Loan -> LoanRow]
    BY <1>1, <2>1 DEF IInv, TypeOK, LoanRow
  <2>3. /\ accounts' \in [Loan -> AccountRow]
        /\ running' \in [Loan -> [principal : Nat, interest : Nat]]
    BY <1>0, <1>1 DEF IInv, TypeOK, AccountRow, Statuses
  <2>4. gl' \in [Loan -> [principal : Int, interest : Int]]
    <3>1. gl \in [Loan -> [principal : Int, interest : Int]] /\ gl[l].principal + p \in Int
      BY <1>0, <1>3 DEF IInv, TypeOK
    <3>2. gl' = [gl EXCEPT ![l].principal = @ + p]
      BY <1>1
    <3> QED
      BY <3>1, <3>2
  <2> QED
    BY <1>1, <2>2, <2>3, <2>4 DEF IInv, TypeOK, LoanRow, AccountRow
<1>5. RowsOK'
  BY <1>1, <1>2 DEF IInv, RowsOK
<1>6. OverlapsOK'
  BY <1>1 DEF IInv, OverlapsOK
<1>7. /\ loans'[l] = row /\ schedules'[l] = s /\ charged'[l] = 0
      /\ accounts'[l] = [status |-> "active", principal |-> p, interest |-> 0]
      /\ running'[l] = [principal |-> p, interest |-> 0]
      /\ gl'[l].principal = p /\ gl'[l].interest = 0
  BY <1>0, <1>1, <1>3 DEF IInv, TypeOK, RowsOK
<1>8. \A k \in Loan : k # l => SameRows(k)
  BY <1>1 DEF SameRows, IInv, TypeOK, RowsOK
<1>9. LoanInv(l)'
  <2>1. Absent(l)' /\ Present(l)'
    BY <1>0, <1>2, <1>7 DEF Absent, Present, NoLoan
  <2>2. BookOK(l)' /\ MirrorOK(l)' /\ FollowsOK(l)'
    BY <1>0, <1>2, <1>7 DEF BookOK, MirrorOK, FollowsOK
  <2>3. PaidLast(l)' /\ ChargedOK(l)'
    BY <1>0, <1>7 DEF PaidLast, ChargedOK
  <2> QED
    BY <2>1, <2>2, <2>3 DEF LoanInv
<1>10. ASSUME NEW k \in Loan PROVE LoanInv(k)'
  <2>1. CASE k # l
    BY <1>1, <1>8, <2>1, LoanFrame DEF IInv
  <2> QED
    BY <1>9, <2>1
<1>11. ASSUME NEW t \in Txn PROVE TxnInv(t)'
  <2>1. TxnInv(t)
    BY DEF IInv
  <2>2. \A k \in Touches(txns[t]) : k \in Loan /\ k # l
    BY <1>1, <2>1 DEF TxnInv, Touches, SeenOK
  <2> QED
    BY <1>1, <1>8, <2>1, <2>2, TxnFrame DEF SameRows
<1> QED
  BY <1>4, <1>5, <1>6, <1>10, <1>11 DEF IInv

\* A balance is reduced, never below zero.
LEMMA LessType ==
  ASSUME NEW a \in Nat, NEW b \in Nat
  PROVE  /\ Less(a, b) \in Nat /\ a - b <= Less(a, b)
         /\ b <= a => Less(a, b) = a - b
         /\ a <= b => Less(a, b) = 0
  BY DEF Less, Greatest

\* A repayment lowers loan, account, schedule and journals by what it worked out before.
\* Where no other repayment overlapped, the loan is still what it had seen, so nothing
\* is clamped; with interest paid first, the principal can reach zero only last.
LEMMA PostRepaymentPreserves ==
  ASSUME IInv, NEW t \in Txn, PostRepayment(t)
  PROVE  IInv'
<1>a. PICK tx : tx = txns[t]
  OBVIOUS
<1>b. PICK l, x, y, a : /\ l = tx.loan /\ x = tx.principal /\ y = tx.receivable
                        /\ a = tx.amount - tx.principal
  OBVIOUS
<1>c. PICK s, left, owe :
           s = Applied(schedules[l], a, x) /\ left = Less(loans[l].principal, x)
                                      /\ owe = Less(loans[l].interest, y)
  OBVIOUS
<1>d. PICK status, done : status = StatusOf(left, s, tx.date) /\ done = [Fresh EXCEPT !.pc = "done"]
  OBVIOUS
<1>1. /\ tx.pc = "repay"
      /\ schedules' = [schedules EXCEPT ![l] = s]
      /\ loans' = [loans EXCEPT ![l].principal = left, ![l].status = status,
                                ![l].interest = Less(@, y)]
      /\ accounts' = [accounts EXCEPT ![l] = RepayAccount(@, tx, status)]
      /\ gl' = [gl EXCEPT ![l].principal = @ - x, ![l].interest = @ - y]
      /\ running' = [running EXCEPT ![l] = [principal |-> Less(tx.account.principal, x),
                                            interest |-> Less(tx.account.interest, y)]]
      /\ txns' = [txns EXCEPT ![t] = done]
      /\ UNCHANGED <<today, charged, overlaps>>
  BY <1>a, <1>b, <1>c, <1>d DEF PostRepayment, End
<1>2. tx \in TxnRow /\ TxnOK(tx) /\ \A k \in Touches(tx) : SeenOK(tx, k)
  BY <1>a DEF IInv, RowsOK, TxnInv
<1>3. l \in Loan /\ Touches(tx) = {l} /\ SeenOK(tx, l)
  BY <1>1, <1>2, <1>b DEF TxnOK, Repaying
<1>4. /\ x \in Nat /\ y \in Nat /\ a \in Nat
      /\ x <= tx.seen[l].principal /\ y <= tx.seen[l].interest
      /\ x > 0 => y = tx.seen[l].interest
      /\ tx.seen[l].principal \in Nat /\ tx.seen[l].interest \in Nat
      /\ tx.account \in AccountRow
  <2>1. /\ tx.principal <= tx.amount /\ x <= tx.seen[l].principal /\ y <= tx.seen[l].interest
        /\ x > 0 => y = tx.seen[l].interest
    BY <1>1, <1>2, <1>b DEF TxnOK, Priced
  <2>2. tx.amount \in Nat /\ x \in Nat /\ y \in Nat /\ tx.seen[l] \in LoanRow
        /\ tx.account \in AccountRow
    BY <1>2, <1>3, <1>b DEF TxnRow
  <2> QED
    BY <2>1, <2>2, <1>b DEF LoanRow
<1>5. /\ loans[l] \in LoanRow /\ accounts[l] \in AccountRow
      /\ schedules[l] \in Seq(InstallmentRow)
      /\ gl[l].principal \in Int /\ gl[l].interest \in Int
      /\ loans[l].principal \in Nat /\ loans[l].interest \in Nat
      /\ accounts[l].principal \in Nat /\ accounts[l].interest \in Nat
      /\ Total(OpenPrincipal(schedules[l])) \in Nat
      /\ Total(OpenInterest(schedules[l])) \in Nat
      /\ LoanInv(l) /\ loans[l] # NoLoan
  BY <1>3, TypesOfRow DEF IInv, SeenOK
<1>6. /\ s \in Seq(InstallmentRow) /\ Len(s) = Len(schedules[l])
      /\ Total(OpenPrincipal(s)) = Greatest(Total(OpenPrincipal(schedules[l])) - x, 0)
      /\ Total(OpenInterest(s)) = Greatest(Total(OpenInterest(schedules[l])) - a, 0)
  BY <1>4, <1>5, <1>c, AppliedType
<1>7. left \in Nat /\ owe \in Nat
  BY <1>4, <1>5, <1>c, LessType
<1>8. status \in {"closed", "in_arrears", "active"}
      /\ (status = "closed" <=> left = 0 /\ \A i \in 1..Len(s) : ~Unpaid(s, i))
  BY <1>d DEF StatusOf
<1>9. /\ loans'[l].principal = left /\ loans'[l].interest = owe /\ loans'[l].status = status
      /\ loans'[l].since = loans[l].since /\ loans'[l].accrued = loans[l].accrued
      /\ loans' \in [Loan -> LoanRow]
      /\ \A k \in Loan : k # l => loans'[k] = loans[k]
  <2>1. loans \in [Loan -> LoanRow] /\ l \in Loan
    BY <1>3 DEF IInv, TypeOK, LoanRow
  <2>2. loans' = [loans EXCEPT ![l].principal = left, ![l].status = status, ![l].interest = owe]
    BY <1>1, <1>c, <2>1 DEF LoanRow
  <2>3. status \in Statuses
    BY <1>8 DEF Statuses
  <2> QED
    BY <1>7, <2>1, <2>2, <2>3 DEF LoanRow
<1>10. /\ accounts'[l] = [ status |-> status, principal |-> Less(accounts[l].principal, x),
                           interest |-> Less(accounts[l].interest, y) ]
       /\ accounts' \in [Loan -> AccountRow]
       /\ \A k \in Loan : k # l => accounts'[k] = accounts[k]
  <2>1. accounts \in [Loan -> AccountRow]
    BY DEF IInv, TypeOK, AccountRow
  <2>2. RepayAccount(accounts[l], tx, status) =
           [ status |-> status, principal |-> Less(accounts[l].principal, x),
             interest |-> Less(accounts[l].interest, y) ]
    BY <1>b DEF RepayAccount
  <2>3. RepayAccount(accounts[l], tx, status) \in AccountRow
    <3>1. Less(accounts[l].principal, x) \in Nat /\ Less(accounts[l].interest, y) \in Nat
      BY <1>4, <1>5, LessType
    <3> QED
      BY <1>8, <2>2, <3>1 DEF AccountRow, Statuses
  <2> QED
    BY <1>1, <1>3, <2>1, <2>2, <2>3
<1>11. /\ gl'[l].principal = gl[l].principal - x /\ gl'[l].interest = gl[l].interest - y
       /\ gl' \in [Loan -> [principal : Int, interest : Int]]
       /\ \A k \in Loan : k # l => gl'[k] = gl[k]
  <2>1. gl \in [Loan -> [principal : Int, interest : Int]]
    BY DEF IInv, TypeOK
  <2>2. /\ x \in Nat /\ y \in Nat /\ gl[l].principal \in Int /\ gl[l].interest \in Int
    BY <1>4, <1>5
  <2>3. gl[l].principal - x \in Int /\ gl[l].interest - y \in Int
    BY <2>2
  <2>4. gl' = [gl EXCEPT ![l].principal = @ - x, ![l].interest = @ - y] /\ l \in Loan
    BY <1>1, <1>3
  <2> QED
    BY <2>1, <2>3, <2>4
<1>12. /\ running'[l] = [ principal |-> Less(tx.account.principal, x),
                          interest |-> Less(tx.account.interest, y) ]
       /\ running' \in [Loan -> [principal : Nat, interest : Nat]]
       /\ \A k \in Loan : k # l => running'[k] = running[k]
  <2>1. Less(tx.account.principal, x) \in Nat /\ Less(tx.account.interest, y) \in Nat
    BY <1>4, LessType DEF AccountRow
  <2>2. running \in [Loan -> [principal : Nat, interest : Nat]]
    BY DEF IInv, TypeOK
  <2> QED
    BY <1>1, <1>3, <2>1, <2>2
<1>13. /\ schedules'[l] = s /\ schedules' \in [Loan -> Seq(InstallmentRow)]
       /\ \A k \in Loan : k # l => schedules'[k] = schedules[k]
  BY <1>1, <1>3, <1>6 DEF IInv, RowsOK
<1>14. /\ done \in TxnRow /\ Touches(done) = {} /\ done.pc = "done"
       /\ txns' \in [Txn -> TxnRow] /\ txns'[t] = done
       /\ \A r \in Txn : r # t => txns'[r] = txns[r]
  BY <1>1, <1>d, FreshType DEF Fresh, IInv, RowsOK
<1>15. TypeOK' /\ RowsOK'
  BY <1>1, <1>9, <1>10, <1>11, <1>12, <1>13, <1>14 DEF IInv, TypeOK, RowsOK, LoanRow, AccountRow
<1>16. OverlapsOK'
  BY <1>1, <1>14, OverlapFrame DEF IInv
<1>17. ASSUME NEW k \in Loan, k # l PROVE SameRows(k) /\ LoanInv(k)'
  <2>1. SameRows(k)
    BY <1>1, <1>9, <1>10, <1>11, <1>12, <1>13, <1>17 DEF SameRows
  <2> QED
    BY <1>1, <2>1, LoanFrame DEF IInv
<1>18. LoanInv(l)'
  <2>0. l \in Loan /\ Total(OpenPrincipal(schedules[l])) = loans[l].principal
    BY <1>3, <1>5 DEF LoanInv, FollowsOK
  <2>1. Total(OpenPrincipal(s)) = left
    BY <1>c, <1>6, <2>0 DEF Less
  <2>2. Absent(l)' /\ Present(l)'
    <3>1. loans'[l].status # "absent"
      BY <1>8, <1>9
    <3>2. Len(s) = Term
      BY <1>5, <1>6 DEF LoanInv, Present
    <3>3. status = "closed" <=> left = 0 /\ Total(OpenInterest(s)) = 0
      BY <1>6, <1>8, <2>1, SettledTotals
    <3> QED
      BY <1>9, <1>13, <3>1, <3>2, <3>3 DEF Absent, Present, NoLoan
  <2>3. BookOK(l)'
    <3>1. /\ gl[l].principal <= loans[l].principal /\ gl[l].interest <= loans[l].interest
          /\ loans[l].principal - x <= left /\ loans[l].interest - y <= owe
      BY <1>c, <1>4, <1>5, LessType DEF LoanInv, BookOK
    <3>2. ASSUME ~Overlapped(l, {"repay"})
          PROVE  gl[l].principal - x = left /\ gl[l].interest - y = owe
      <4>1. x <= loans[l].principal /\ y <= loans[l].interest
        <5>1. loans[l].principal = tx.seen[l].principal /\ loans[l].interest >= tx.seen[l].interest
          BY <1>1, <1>3, <3>2 DEF SeenOK, Repaying
        <5> QED
          BY <1>4, <1>5, <5>1
      <4>2. gl[l].principal = loans[l].principal /\ gl[l].interest = loans[l].interest
        BY <1>5, <3>2 DEF LoanInv, BookOK
      <4> QED
        BY <1>c, <1>4, <1>5, <4>1, <4>2, LessType
    <3>3. ~Overlapped(l, {"repay"})' => ~Overlapped(l, {"repay"})
      BY <1>1 DEF Overlapped
    <3>4. gl'[l].principal <= loans'[l].principal /\ gl'[l].interest <= loans'[l].interest
      <4>1. /\ gl'[l].principal = gl[l].principal - x /\ loans'[l].principal = left
            /\ gl'[l].interest = gl[l].interest - y /\ loans'[l].interest = owe
        BY <1>9, <1>11
      <4>2. /\ gl[l].principal \in Int /\ gl[l].interest \in Int /\ x \in Nat /\ y \in Nat
            /\ loans[l].principal \in Nat /\ loans[l].interest \in Nat
            /\ left \in Nat /\ owe \in Nat
        BY <1>4, <1>5, <1>7
      <4> QED
        BY <3>1, <4>1, <4>2
    <3>5. ~Overlapped(l, {"repay"})' =>
             gl'[l].principal = loans'[l].principal /\ gl'[l].interest = loans'[l].interest
      BY <1>9, <1>11, <3>2, <3>3
    <3> QED
      BY <3>4, <3>5 DEF BookOK
  <2>4. MirrorOK(l)'
    <3>1. accounts[l].principal = loans[l].principal /\ accounts[l].interest = loans[l].interest
      BY <1>5 DEF LoanInv, MirrorOK
    <3>2. accounts'[l].principal = left /\ accounts'[l].interest = owe
      BY <1>c, <1>10, <3>1
    <3>3. ASSUME Alone(l)
          PROVE  running'[l] = [principal |-> left, interest |-> owe]
      <4>1. tx.account = accounts[l]
        BY <1>1, <1>3, <3>3 DEF SeenOK
      <4> QED
        BY <1>c, <1>12, <3>1, <4>1
    <3>4. Alone(l)' => Alone(l)
      BY <1>1 DEF Alone, Overlapped
    <3>5. accounts'[l].status = loans'[l].status
      BY <1>9, <1>10
    <3> QED
      BY <1>9, <3>2, <3>3, <3>4, <3>5 DEF MirrorOK
  <2>5. FollowsOK(l)'
    BY <1>9, <1>13, <2>1 DEF FollowsOK
  <2>6. PaidLast(l)'
    <3>1. Orderly(l)' => Orderly(l)
      BY <1>1 DEF Orderly, Overlapped
    <3>2. ASSUME Orderly(l), left = 0
          PROVE  owe = 0 /\ Total(OpenInterest(s)) = 0
      <4>1. CASE loans[l].principal = 0
        <5>1. loans[l].interest = 0 /\ Total(OpenInterest(schedules[l])) = 0
          BY <1>5, <3>2, <4>1 DEF LoanInv, PaidLast
        <5> QED
          BY <1>4, <1>5, <1>c, <1>6, <5>1 DEF Less, Greatest
      <4>2. CASE loans[l].principal > 0
        <5>1. x > 0
          BY <1>c, <1>4, <1>5, <3>2, <4>2 DEF Less, Greatest
        <5>2. loans[l].interest = y /\ Total(OpenInterest(schedules[l])) <= a
          BY <1>b, <1>1, <1>3, <1>4, <3>2, <5>1 DEF SeenOK, Orderly, Repaying, Priced
        <5> QED
          BY <1>c, <1>4, <1>5, <1>6, <5>2 DEF Less, Greatest
      <4> QED
        BY <1>5, <4>1, <4>2
    <3> QED
      BY <1>9, <1>13, <3>1, <3>2 DEF PaidLast
  <2>7. ChargedOK(l)'
    BY <1>1, <1>5, <1>9 DEF LoanInv, ChargedOK, Overlapped
  <2> QED
    BY <2>2, <2>3, <2>4, <2>5, <2>6, <2>7 DEF LoanInv
<1>19. TxnInv(t)'
  BY <1>14 DEF TxnInv, TxnOK, Repaying, Priced
<1>20. ASSUME NEW r \in Txn, r # t PROVE TxnInv(r)'
  <2>1. TxnInv(r) /\ txns'[r] = txns[r] /\ txns[r] \in TxnRow
    BY <1>14, <1>20 DEF IInv, RowsOK
  <2>2. ASSUME NEW k \in Touches(txns[r]), k # l PROVE SeenOK(txns[r], k)'
    <3>1. k \in Loan /\ SeenOK(txns[r], k) /\ SameRows(k)
      BY <1>17, <2>1, <2>2 DEF TxnInv, Touches
    <3> QED
      BY <1>1, <2>1, <3>1, SeenFrame DEF SameRows
  <2>3. ASSUME l \in Touches(txns[r]) PROVE SeenOK(txns[r], l)'
    <3>1. SeenOK(txns[r], l)
      BY <2>1, <2>3 DEF TxnInv
    <3>2. <<l, {Kind(tx), Kind(txns[r])}>> \in overlaps
      BY <1>a, <1>3, <1>20, <2>3 DEF IInv, OverlapsOK
    <3>3. Kind(tx) = "repay"
      BY <1>1 DEF Kind
    <3>6. loans'[l] # NoLoan
      BY <1>8, <1>9 DEF NoLoan
    <3>4. CASE Repaying(txns[r])
      <4>1. Kind(txns[r]) = "repay"
        BY <3>4 DEF Kind, Repaying
      <4>2. {Kind(tx), Kind(txns[r])} = {"repay"}
        BY <3>3, <4>1
      <4>3. Overlapped(l, {"repay"}) /\ ~Alone(l) /\ ~Orderly(l)
        BY <3>2, <4>2 DEF Overlapped, Alone, Orderly
      <4>4. Overlapped(l, {"repay"})' /\ ~Alone(l)' /\ ~Orderly(l)'
        BY <1>1, <4>3 DEF Overlapped, Alone, Orderly
      <4> QED
        BY <2>1, <3>4, <3>6, <4>3, <4>4 DEF SeenOK, Repaying
    <3>5. CASE txns[r].pc = "accrue"
      <4>1. Kind(txns[r]) = "accrue"
        BY <3>5 DEF Kind
      <4>2. {Kind(tx), Kind(txns[r])} = {"repay", "accrue"}
        BY <3>3, <4>1
      <4>3. Overlapped(l, {"repay", "accrue"}) /\ ~Alone(l)
        BY <3>2, <4>2 DEF Overlapped, Alone
      <4>4. /\ Overlapped(l, {"repay", "accrue"})' /\ ~Alone(l)'
            /\ Overlapped(l, {"accrue"})' <=> Overlapped(l, {"accrue"})
        BY <1>1, <4>3 DEF Overlapped, Alone
      <4> QED
        BY <1>9, <2>1, <3>1, <3>5, <3>6, <4>3, <4>4 DEF SeenOK, Repaying
    <3> QED
      BY <2>1, <2>3, <3>4, <3>5 DEF TxnInv, TxnOK, TxnRow, Repaying
  <2> QED
    BY <2>1, <2>2, <2>3 DEF TxnInv
<1> QED
  BY <1>15, <1>16, <1>17, <1>18, <1>19, <1>20 DEF IInv

\* An accrual adds one charge to loan, account and journals.  The loan still has
\* principal unless a repayment overlapped, so a closed loan is not charged.
LEMMA PostAccrualPreserves ==
  ASSUME IInv, NEW t \in Txn, PostAccrual(t)
  PROVE  IInv'
<1>a. PICK tx : tx = txns[t]
  OBVIOUS
<1>b. PICK S, c, done : S = Touches(tx) /\ c = [l \in Loan |-> Charge(tx.seen[l], tx.date)]
                                        /\ done = [Fresh EXCEPT !.pc = "done"]
  OBVIOUS
<1>1. /\ tx.pc = "accrue"
      /\ loans' = [l \in Loan |-> IF l \in S
                                  THEN [loans[l] EXCEPT !.interest = @ + c[l], !.accrued = tx.date]
                                  ELSE loans[l]]
      /\ accounts' = [l \in Loan |-> IF l \in S
                                     THEN [accounts[l] EXCEPT !.interest = @ + c[l],
                                                              !.status = tx.seen[l].status]
                                     ELSE accounts[l]]
      /\ gl' = [l \in Loan |-> IF l \in S THEN [gl[l] EXCEPT !.interest = @ + c[l]] ELSE gl[l]]
      /\ running' = [l \in Loan |-> IF l \in S
                                    THEN [principal |-> tx.seen[l].principal,
                                          interest |-> tx.seen[l].interest + c[l]]
                                    ELSE running[l]]
      /\ charged' = [l \in Loan |-> IF l \in S THEN charged[l] + Days(tx.seen[l], tx.date)
                                    ELSE charged[l]]
      /\ txns' = [txns EXCEPT ![t] = done]
      /\ UNCHANGED <<today, schedules, overlaps>>
  BY <1>a, <1>b DEF PostAccrual, End, Accrued, Touches, Touched
<1>2. tx \in TxnRow /\ TxnOK(tx) /\ S \subseteq Loan /\ \A l \in S : SeenOK(tx, l)
  BY <1>a, <1>b DEF IInv, RowsOK, TxnInv, Touches
<1>3. ASSUME NEW l \in Loan
      PROVE  /\ tx.seen[l] \in LoanRow
             /\ tx.seen[l].principal \in Nat /\ tx.seen[l].interest \in Nat
             /\ tx.seen[l].status \in Statuses /\ tx.seen[l].accrued \in Nat
             /\ tx.date \in Day /\ tx.date \in Nat
             /\ Days(tx.seen[l], tx.date) \in Nat /\ c[l] \in Nat
  <2>1. tx.seen[l] \in LoanRow /\ tx.date \in Day
    BY <1>2 DEF TxnRow
  <2>2. Day \subseteq Nat
    BY LoanAssumption DEF Day
  <2>3. Days(tx.seen[l], tx.date) \in Nat /\ Charge(tx.seen[l], tx.date) \in Nat
    BY <2>1, ChargeType
  <2> QED
    BY <1>b, <2>1, <2>2, <2>3 DEF LoanRow
<1>4. ASSUME NEW l \in Loan
      PROVE  /\ loans[l] \in LoanRow /\ accounts[l] \in AccountRow
             /\ gl[l] \in [principal : Int, interest : Int]
             /\ running[l] \in [principal : Nat, interest : Nat] /\ charged[l] \in Nat
             /\ LoanInv(l)
  BY DEF IInv, TypeOK, LoanRow, AccountRow
<1>5. ASSUME NEW l \in S
      PROVE  /\ loans'[l].status = loans[l].status /\ loans'[l].principal = loans[l].principal
             /\ loans'[l].interest = loans[l].interest + c[l]
             /\ loans'[l].since = loans[l].since /\ loans'[l].accrued = tx.date
             /\ loans'[l] \in LoanRow
  <2>1. loans[l] \in LoanRow /\ c[l] \in Nat /\ tx.date \in Day
    BY <1>2, <1>3, <1>4
  <2>2. loans'[l] = [loans[l] EXCEPT !.interest = @ + c[l], !.accrued = tx.date]
    BY <1>1, <1>2
  <2>3. loans[l].interest + c[l] \in Nat
    BY <2>1 DEF LoanRow
  <2> QED
    BY <2>1, <2>2, <2>3 DEF LoanRow
<1>6. ASSUME NEW l \in S
      PROVE  /\ accounts'[l].status = tx.seen[l].status
             /\ accounts'[l].principal = accounts[l].principal
             /\ accounts'[l].interest = accounts[l].interest + c[l]
             /\ accounts'[l] \in AccountRow
  <2>1. accounts[l] \in AccountRow /\ c[l] \in Nat /\ tx.seen[l].status \in Statuses
    BY <1>2, <1>3, <1>4
  <2>2. accounts'[l] = [accounts[l] EXCEPT !.interest = @ + c[l], !.status = tx.seen[l].status]
    BY <1>1, <1>2
  <2>3. accounts[l].interest + c[l] \in Nat
    BY <2>1 DEF AccountRow
  <2> QED
    BY <2>1, <2>2, <2>3 DEF AccountRow
<1>7. ASSUME NEW l \in S
      PROVE  /\ gl'[l].principal = gl[l].principal /\ gl'[l].interest = gl[l].interest + c[l]
             /\ gl'[l] \in [principal : Int, interest : Int]
  <2>1. gl[l] \in [principal : Int, interest : Int] /\ c[l] \in Nat
    BY <1>2, <1>3, <1>4
  <2>2. gl'[l] = [gl[l] EXCEPT !.interest = @ + c[l]]
    BY <1>1, <1>2
  <2>3. gl[l].interest + c[l] \in Int
    BY <2>1
  <2> QED
    BY <2>1, <2>2, <2>3
<1>8. ASSUME NEW l \in S
      PROVE  /\ running'[l] = [ principal |-> tx.seen[l].principal,
                                interest |-> tx.seen[l].interest + c[l] ]
             /\ running'[l] \in [principal : Nat, interest : Nat]
             /\ charged'[l] = charged[l] + Days(tx.seen[l], tx.date) /\ charged'[l] \in Nat
             /\ schedules'[l] = schedules[l]
  <2>1. /\ l \in Loan /\ c[l] \in Nat /\ Days(tx.seen[l], tx.date) \in Nat
        /\ tx.seen[l].principal \in Nat /\ tx.seen[l].interest \in Nat /\ charged[l] \in Nat
    BY <1>2, <1>3, <1>4
  <2>2. /\ running'[l] = [ principal |-> tx.seen[l].principal,
                           interest |-> tx.seen[l].interest + c[l] ]
        /\ charged'[l] = charged[l] + Days(tx.seen[l], tx.date)
        /\ schedules'[l] = schedules[l]
    BY <1>1, <2>1
  <2>3. /\ tx.seen[l].interest + c[l] \in Nat /\ charged[l] + Days(tx.seen[l], tx.date) \in Nat
    BY <2>1
  <2> QED
    BY <2>1, <2>2, <2>3
<1>9. \A l \in Loan : l \notin S => SameRows(l)
  BY <1>1 DEF SameRows
<1>10. /\ done \in TxnRow /\ Touches(done) = {} /\ done.pc = "done"
       /\ txns' \in [Txn -> TxnRow] /\ txns'[t] = done
       /\ \A r \in Txn : r # t => txns'[r] = txns[r]
  BY <1>1, <1>b, FreshType DEF Fresh, IInv, RowsOK
<1>11. TypeOK'
  <2>1. \A l \in Loan : loans'[l] \in LoanRow /\ accounts'[l] \in AccountRow
    BY <1>4, <1>5, <1>6, <1>9 DEF SameRows
  <2>2. \A l \in Loan : /\ gl'[l] \in [principal : Int, interest : Int]
                        /\ running'[l] \in [principal : Nat, interest : Nat] /\ charged'[l] \in Nat
    BY <1>4, <1>7, <1>8, <1>9 DEF SameRows
  <2>3. loans' \in [Loan -> LoanRow] /\ accounts' \in [Loan -> AccountRow]
    BY <1>1, <2>1
  <2>4. /\ gl' \in [Loan -> [principal : Int, interest : Int]]
        /\ running' \in [Loan -> [principal : Nat, interest : Nat]] /\ charged' \in [Loan -> Nat]
    BY <1>1, <2>2
  <2>5. today' \in Day
    BY <1>1 DEF IInv, TypeOK
  <2> QED
    BY <2>3, <2>4, <2>5 DEF TypeOK, LoanRow, AccountRow
<1>12. RowsOK'
  BY <1>1, <1>10 DEF IInv, RowsOK
<1>13. OverlapsOK'
  BY <1>1, <1>10, OverlapFrame DEF IInv
<1>14. \A l, kinds : Overlapped(l, kinds)' <=> Overlapped(l, kinds)
  BY <1>1 DEF Overlapped
<1>15. \A l : (Alone(l)' <=> Alone(l)) /\ (Orderly(l)' <=> Orderly(l))
  <2>1. overlaps' = overlaps
    BY <1>1
  <2> QED
    BY <2>1 DEF Alone, Orderly, Overlapped
<1>16. ASSUME NEW l \in S PROVE LoanInv(l)'
  <2>1. /\ l \in Loan /\ LoanInv(l) /\ SeenOK(tx, l) /\ loans[l] # NoLoan
        /\ loans[l].status # "absent"
    BY <1>2, <1>4 DEF SeenOK, LoanInv, Present
  <2>2. /\ tx.seen[l].principal > 0 /\ tx.seen[l].accrued < tx.date
        /\ Days(tx.seen[l], tx.date) = tx.date - tx.seen[l].accrued
    BY <1>1, <1>2, <1>b DEF TxnOK
  <2>3. /\ loans[l].principal \in Nat /\ loans[l].interest \in Nat /\ accounts[l].principal \in Nat
        /\ accounts[l].interest \in Nat /\ gl[l].principal \in Int /\ gl[l].interest \in Int
        /\ charged[l] \in Nat /\ c[l] \in Nat /\ tx.seen[l].accrued \in Nat /\ tx.date \in Nat
        /\ loans[l].since \in Nat
    BY <1>3, <2>1, TypesOfRow
  <2>4. Absent(l)' /\ Present(l)' /\ FollowsOK(l)'
    <3>1. loans'[l] # NoLoan
      BY <1>5, <2>1 DEF NoLoan
    <3>2. Present(l) /\ FollowsOK(l)
      BY <2>1 DEF LoanInv
    <3> QED
      BY <1>5, <1>8, <2>1, <3>1, <3>2 DEF Absent, Present, FollowsOK
  <2>5. BookOK(l)'
    <3>1. BookOK(l)
      BY <2>1 DEF LoanInv
    <3>2. /\ gl'[l].principal = gl[l].principal /\ gl'[l].interest = gl[l].interest + c[l]
          /\ loans'[l].principal = loans[l].principal
          /\ loans'[l].interest = loans[l].interest + c[l]
      BY <1>5, <1>7
    <3>3. gl'[l].principal <= loans'[l].principal /\ gl'[l].interest <= loans'[l].interest
      BY <2>3, <3>1, <3>2 DEF BookOK
    <3>4. ~Overlapped(l, {"repay"})' =>
             gl'[l].principal = loans'[l].principal /\ gl'[l].interest = loans'[l].interest
      BY <1>14, <3>1, <3>2 DEF BookOK
    <3> QED
      BY <3>3, <3>4 DEF BookOK
  <2>6. MirrorOK(l)'
    <3>1. MirrorOK(l)
      BY <2>1 DEF LoanInv
    <3>2. accounts'[l].principal = loans'[l].principal /\ accounts'[l].interest = loans'[l].interest
      BY <1>5, <1>6, <3>1 DEF MirrorOK
    <3>3. ASSUME Alone(l)
          PROVE  /\ running'[l] = [ principal |-> loans'[l].principal,
                                    interest |-> loans'[l].interest ]
                 /\ accounts'[l].status = loans'[l].status
      <4>1. loans[l] = tx.seen[l]
        BY <2>1, <3>3 DEF SeenOK
      <4> QED
        BY <1>5, <1>6, <1>8, <4>1
    <3> QED
      BY <1>15, <3>2, <3>3 DEF MirrorOK
  <2>7. PaidLast(l)'
    <3>1. Orderly(l) => loans[l].principal = tx.seen[l].principal
      BY <1>1, <2>1 DEF SeenOK, Orderly
    <3> QED
      BY <1>5, <1>15, <2>2, <2>3, <3>1 DEF PaidLast
  <2>8. ChargedOK(l)'
    <3>1. ASSUME ~Overlapped(l, {"accrue"}) PROVE charged'[l] = loans'[l].accrued - loans'[l].since
      <4>1. loans[l].accrued = tx.seen[l].accrued
        BY <1>1, <2>1, <3>1 DEF SeenOK
      <4>2. charged[l] = loans[l].accrued - loans[l].since
        BY <2>1, <3>1 DEF LoanInv, ChargedOK
      <4>3. charged'[l] = charged[l] + (tx.date - tx.seen[l].accrued)
        BY <1>8, <2>2
      <4>4. loans'[l].accrued = tx.date /\ loans'[l].since = loans[l].since
        BY <1>5
      <4> QED
        BY <2>3, <4>1, <4>2, <4>3, <4>4
    <3> QED
      BY <1>14, <3>1 DEF ChargedOK
  <2> QED
    BY <2>4, <2>5, <2>6, <2>7, <2>8 DEF LoanInv
<1>17. ASSUME NEW l \in Loan PROVE LoanInv(l)'
  <2>1. CASE l \notin S
    BY <1>1, <1>4, <1>9, <2>1, LoanFrame
  <2> QED
    BY <1>16, <2>1
<1>18. TxnInv(t)'
  BY <1>10 DEF TxnInv, TxnOK, Repaying, Priced
<1>19. ASSUME NEW r \in Txn, r # t PROVE TxnInv(r)'
  <2>1. TxnInv(r) /\ txns'[r] = txns[r] /\ txns[r] \in TxnRow
    BY <1>10, <1>19 DEF IInv, RowsOK
  <2>2. ASSUME NEW l \in Touches(txns[r]), l \notin S PROVE SeenOK(txns[r], l)'
    <3>1. l \in Loan /\ SeenOK(txns[r], l) /\ SameRows(l)
      BY <1>9, <2>1, <2>2 DEF TxnInv, Touches
    <3> QED
      BY <1>1, <2>1, <3>1, SeenFrame DEF SameRows
  <2>3. ASSUME NEW l \in Touches(txns[r]), l \in S PROVE SeenOK(txns[r], l)'
    <3>1. l \in Loan /\ SeenOK(txns[r], l) /\ loans[l].interest \in Nat /\ c[l] \in Nat
                     /\ loans[l].status # "absent"
      BY <1>2, <1>3, <1>4, <2>1, <2>3, TypesOfRow DEF TxnInv, SeenOK, LoanInv, Present
    <3>2. <<l, {Kind(tx), Kind(txns[r])}>> \in overlaps /\ Kind(tx) = "accrue"
      BY <1>1, <1>19, <1>a, <1>b, <2>3 DEF IInv, OverlapsOK, Kind
    <3>3. loans'[l] # NoLoan
      BY <1>5, <2>3, <3>1 DEF NoLoan
    <3>4. CASE Repaying(txns[r])
      <4>1. Kind(txns[r]) = "repay" /\ txns[r].pc # "accrue"
        BY <3>4 DEF Kind, Repaying
      <4>2. {Kind(tx), Kind(txns[r])} = {"repay", "accrue"}
        BY <3>2, <4>1
      <4>3. ~Alone(l)' /\ ~Orderly(l)'
        <5>1. Overlapped(l, {"repay", "accrue"})
          BY <3>2, <4>2 DEF Overlapped
        <5>2. ~Alone(l) /\ ~Orderly(l)
          BY <5>1 DEF Alone, Orderly
        <5> QED
          BY <1>15, <5>2
      <4>4. txns[r].seen[l].interest \in Nat
        BY <2>1, <3>1 DEF TxnRow, LoanRow
      <4>5. ASSUME ~Overlapped(l, {"repay"})
            PROVE  /\ loans'[l].principal = txns[r].seen[l].principal
                   /\ loans'[l].interest >= txns[r].seen[l].interest
                   /\ Priced(txns[r]) /\ txns[r].principal > 0 =>
                         Total(OpenInterest(schedules'[l])) <= txns[r].amount - txns[r].principal
        <5>1. /\ loans[l].principal = txns[r].seen[l].principal
              /\ loans[l].interest >= txns[r].seen[l].interest
              /\ Priced(txns[r]) /\ txns[r].principal > 0 =>
                    Total(OpenInterest(schedules[l])) <= txns[r].amount - txns[r].principal
          BY <3>1, <3>4, <4>5 DEF SeenOK
        <5>2. loans'[l].interest >= txns[r].seen[l].interest
          BY <1>5, <2>3, <3>1, <4>4, <5>1
        <5> QED
          BY <1>5, <1>8, <2>3, <5>1, <5>2
      <4> QED
        BY <1>14, <2>1, <3>3, <4>1, <4>3, <4>5 DEF SeenOK, Priced
    <3>5. CASE txns[r].pc = "accrue"
      <4>1. {Kind(tx), Kind(txns[r])} = {"accrue"}
        BY <3>2, <3>5 DEF Kind
      <4>2. Overlapped(l, {"accrue"}) /\ ~Alone(l)
        BY <3>2, <4>1 DEF Overlapped, Alone
      <4>3. ~Overlapped(l, {"repay", "accrue"}) => loans'[l].principal = txns[r].seen[l].principal
        BY <1>5, <2>3, <3>1, <3>5 DEF SeenOK
      <4> QED
        BY <1>14, <1>15, <2>1, <3>3, <3>5, <4>2, <4>3 DEF SeenOK, Repaying
    <3> QED
      BY <2>1, <2>3, <3>4, <3>5 DEF TxnInv, TxnOK, TxnRow, Repaying
  <2> QED
    BY <2>1, <2>2, <2>3 DEF TxnInv
<1> QED
  BY <1>11, <1>12, <1>13, <1>17, <1>18, <1>19 DEF IInv

\* The calendar touches no row.
LEMMA NextDayPreserves ==
  ASSUME IInv, NextDay
  PROVE  IInv'
<1>1. /\ today' \in Day
      /\ UNCHANGED <<loans, accounts, schedules, gl, running, charged, txns, overlaps>>
  BY LoanAssumption DEF NextDay, IInv, TypeOK, Day
<1>2. TypeOK' /\ RowsOK'
  BY <1>1 DEF IInv, TypeOK, RowsOK
<1>3. OverlapsOK'
  BY <1>1 DEF IInv, OverlapsOK
<1>4. ASSUME NEW l \in Loan PROVE LoanInv(l)'
  BY <1>1, LoanFrame DEF IInv, SameRows
<1>5. ASSUME NEW t \in Txn PROVE TxnInv(t)'
  BY <1>1, TxnFrame DEF IInv
<1> QED
  BY <1>2, <1>3, <1>4, <1>5 DEF IInv

(***************************************************************************)
(* The theorems.                                                            *)
(***************************************************************************)
\* There are no loans at first.
LEMMA InitInv == Init => IInv
<1> SUFFICES ASSUME Init PROVE IInv
  OBVIOUS
<1>1. TypeOK /\ RowsOK
  <2>1. today \in Day
    BY LoanAssumption DEF Init, Day
  <2>2. NoLoan \in LoanRow /\ Zero \in [principal : Nat, interest : Nat] /\ Fresh \in TxnRow
    BY FreshType
  <2>3. NoAccount \in AccountRow /\ Zero \in [principal : Int, interest : Int]
    BY DEF NoAccount, AccountRow, Statuses, Zero
  <2>4. /\ loans \in [Loan -> LoanRow] /\ accounts \in [Loan -> AccountRow]
        /\ schedules \in [Loan -> Seq(InstallmentRow)]
        /\ gl \in [Loan -> [principal : Int, interest : Int]]
        /\ running \in [Loan -> [principal : Nat, interest : Nat]]
        /\ charged \in [Loan -> Nat] /\ txns \in [Txn -> TxnRow]
    BY <2>2, <2>3 DEF Init
  <2> QED
    BY <2>1, <2>4 DEF TypeOK, RowsOK, LoanRow, AccountRow
<1>2. ASSUME NEW t \in Txn PROVE txns[t].pc = "new" /\ Touches(txns[t]) = {}
  BY FreshType DEF Init, Fresh
<1>3. OverlapsOK
  BY <1>2 DEF OverlapsOK
<1>4. ASSUME NEW t \in Txn PROVE TxnInv(t)
  BY <1>2 DEF TxnInv, TxnOK, Repaying, Priced
<1>5. ASSUME NEW l \in Loan PROVE LoanInv(l)
  <2>1. /\ loans[l] = NoLoan /\ accounts[l] = NoAccount /\ schedules[l] = << >>
        /\ gl[l] = Zero /\ running[l] = Zero /\ charged[l] = 0
    BY DEF Init
  <2>2. /\ OpenPrincipal(schedules[l]) \in Seq(Nat) /\ Len(OpenPrincipal(schedules[l])) = 0
        /\ OpenInterest(schedules[l]) \in Seq(Nat) /\ Len(OpenInterest(schedules[l])) = 0
    <3>1. schedules[l] \in Seq(InstallmentRow) /\ Len(schedules[l]) = 0
      BY <1>1, <2>1 DEF RowsOK
    <3> QED
      BY <3>1, OpenType
  <2>3. Total(OpenPrincipal(schedules[l])) = 0 /\ Total(OpenInterest(schedules[l])) = 0
    BY <2>2, SumsStep DEF Total
  <2> QED
    BY <2>1, <2>3
    DEF LoanInv, Absent, Present, BookOK, MirrorOK, FollowsOK, PaidLast, ChargedOK,
        NoLoan, NoAccount, Zero
<1> QED
  BY <1>1, <1>3, <1>4, <1>5 DEF IInv

\* Every step preserves the invariant.
LEMMA NextInv == IInv /\ [Next]_vars => IInv'
<1> SUFFICES ASSUME IInv, [Next]_vars PROVE IInv'
  OBVIOUS
<1>1. ASSUME NEW l \in Loan, NEW p \in Principal, LoanDisburse(l, p) PROVE IInv'
  BY <1>1, LoanDisbursePreserves
<1>2. ASSUME NEW t \in Txn, NEW l \in Loan, NEW amt \in Payment, LoanRepayment(t, l, amt)
      PROVE  IInv'
  BY <1>2, LoanRepaymentPreserves
<1>3. ASSUME NEW t \in Txn, NEW date \in Day, InterestAccrual(t, date) PROVE IInv'
  BY <1>3, InterestAccrualPreserves
<1>4. ASSUME NEW t \in Txn, ReadSchedules(t) PROVE IInv'
  BY <1>4, ReadSchedulesPreserves
<1>5. ASSUME NEW t \in Txn, ReadAccount(t) PROVE IInv'
  BY <1>5, ReadAccountPreserves
<1>6. ASSUME NEW t \in Txn, PostRepayment(t) PROVE IInv'
  BY <1>6, PostRepaymentPreserves
<1>7. ASSUME NEW t \in Txn, PostAccrual(t) PROVE IInv'
  BY <1>7, PostAccrualPreserves
<1>8. ASSUME NEW t \in Txn, Abort(t) PROVE IInv'
  BY <1>8, AbortPreserves
<1>9. CASE NextDay
  BY <1>9, NextDayPreserves
<1>10. CASE UNCHANGED vars
  <2>1. UNCHANGED <<today, loans, accounts, schedules, gl, running, charged, txns, overlaps>>
    BY <1>10 DEF vars
  <2>2. TypeOK' /\ RowsOK'
    BY <2>1 DEF IInv, TypeOK, RowsOK
  <2>3. OverlapsOK'
    BY <2>1 DEF IInv, OverlapsOK
  <2>4. ASSUME NEW l \in Loan PROVE LoanInv(l)'
    BY <2>1, LoanFrame DEF IInv, SameRows
  <2>5. ASSUME NEW t \in Txn PROVE TxnInv(t)'
    BY <2>1, TxnFrame DEF IInv
  <2> QED
    BY <2>2, <2>3, <2>4, <2>5 DEF IInv
<1> QED
  BY <1>1, <1>2, <1>3, <1>4, <1>5, <1>6, <1>7, <1>8, <1>9, <1>10 DEF Next

\* Whatever the calls and however they interleave, the rows and what each call has
\* seen of them stay consistent.
THEOREM LoanInvariant == Spec => []IInv
  BY InitInv, NextInv, PTL DEF Spec

\* Balances never go below zero and statuses stay the documented ones.
THEOREM LoanTypeCorrect == Spec => []TypeOK
<1>1. IInv => TypeOK
  BY DEF IInv
<1> QED
  BY <1>1, LoanInvariant, PTL

\* The control accounts hold what the loans owe, or less where repayments overlapped.
THEOREM LoanBookReconciles == Spec => []BookReconciles
<1>1. IInv => BookReconciles
  BY DEF IInv, LoanInv, BookOK, BookReconciles
<1> QED
  BY <1>1, LoanInvariant, PTL

\* The loan and its loan account agree after every commit of loan_repayment and
\* interest_accrual.
THEOREM LoanMirrorsAgree == Spec => []MirrorsAgree
<1>1. IInv => MirrorsAgree
  BY DEF IInv, LoanInv, MirrorOK, Alone, MirrorsAgree
<1> QED
  BY <1>1, LoanInvariant, PTL

\* What is open on the installments is the outstanding principal.
THEOREM LoanScheduleFollows == Spec => []ScheduleFollows
<1>1. IInv => ScheduleFollows
  BY DEF IInv, LoanInv, FollowsOK, ScheduleFollows
<1> QED
  BY <1>1, LoanInvariant, PTL

\* A loan is closed exactly when nothing is due on it, with no interest left unless
\* an accrual or another repayment overlapped.
THEOREM LoanClosedIsSettled == Spec => []ClosedIsSettled
<1>1. ASSUME IInv PROVE ClosedIsSettled
  <2> SUFFICES ASSUME NEW l \in Loan, loans[l] # NoLoan
               PROVE  LET settled == /\ loans[l].principal = 0
                                     /\ \A i \in 1..Term : ~Unpaid(schedules[l], i)
                      IN  /\ loans[l].status = "closed" <=> settled
                          /\ settled /\ ~Overlapped(l, {"repay", "accrue"})
                                     /\ ~Overlapped(l, {"repay"}) => loans[l].interest = 0
    BY DEF ClosedIsSettled
  <2>1. /\ Present(l) /\ FollowsOK(l) /\ PaidLast(l) /\ schedules[l] \in Seq(InstallmentRow)
    BY <1>1, TypesOfRow DEF IInv, LoanInv
  <2>2. Len(schedules[l]) = Term
    BY <2>1 DEF Present
  <2>3. (\A i \in 1..Term : ~Unpaid(schedules[l], i)) <=>
           /\ Total(OpenPrincipal(schedules[l])) = 0 /\ Total(OpenInterest(schedules[l])) = 0
    BY <2>1, <2>2, SettledTotals
  <2> QED
    BY <2>1, <2>3 DEF Present, FollowsOK, PaidLast, Orderly
<1> QED
  BY <1>1, LoanInvariant, PTL

\* A day is charged twice only if two accruals overlapped.
THEOREM LoanDayChargedOnce == Spec => []DayChargedOnce
<1>1. IInv => DayChargedOnce
  BY DEF IInv, LoanInv, ChargedOK, DayChargedOnce
<1> QED
  BY <1>1, LoanInvariant, PTL
=============================================================================
