----------------------------- MODULE LoanBook -----------------------------
(***************************************************************************)
(* The loan procedures of supabase/sql: loan_disburse, loan_repayment (as  *)
(* 008 replaces it) and interest_accrual, called by tellers, by settled    *)
(* mobile payments, by staff and by the accrual timer of every process.    *)
(*                                                                         *)
(* A call is one transaction at READ COMMITTED.  It reads rows without a   *)
(* lock, each statement at its own moment, then writes.  Its writes lock   *)
(* the rows they touch until it commits, and a repayment locks the cash    *)
(* account before it touches a loan, so the writes of a transaction act on *)
(* the rows as they are when it commits: one action.                       *)
(***************************************************************************)
EXTENDS Amounts

CONSTANTS
    Loan,         \* loan ids
    Txn,          \* transaction ids, each run once
    Principal,    \* principals disbursed
    Payment,      \* amounts repaid
    Rate, Year,   \* interest of one unit for one day is Rate / Year
    Term,         \* installments of a loan, due one per day
    Installment,  \* the annuity of each principal
    MaxDay        \* bound of the calendar and of the accrual dates

Day == 0..MaxDay

ASSUME LoanAssumption ==
    /\ Principal \subseteq Nat \ {0} /\ Payment \subseteq Nat \ {0}
    /\ Rate \in Nat /\ Year \in Nat \ {0}
    /\ Term \in Nat \ {0} /\ MaxDay \in Nat
    /\ Installment \in [Principal -> Nat]

VARIABLES
    today,      \* current_date
    loans,      \* loans
    accounts,   \* loan_accounts
    schedules,  \* loan_schedules
    gl,         \* what the journals of a loan left in its two control accounts
    running,    \* the running balances of the last loan_account_transactions row
    charged,    \* days of interest charged to a loan
    txns,       \* the transactions
    overlaps    \* history: loans and the kinds of two calls that overlapped on them

vars == <<today, loans, accounts, schedules, gl, running, charged, txns, overlaps>>

NoLoan == [status |-> "absent", principal |-> 0, interest |-> 0, since |-> 0, accrued |-> 0]
NoAccount == [status |-> "absent", principal |-> 0, interest |-> 0]
Zero == [principal |-> 0, interest |-> 0]
Fresh == [ pc |-> "new", seen |-> [l \in Loan |-> NoLoan], loan |-> "none", amount |-> 0,
           date |-> 0, principal |-> 0, receivable |-> 0, account |-> NoAccount ]

Kind(tx) == IF tx.pc = "accrue" THEN "accrue" ELSE "repay"
Touched(t) == {l \in Loan : txns[t].seen[l] # NoLoan}

Round(n, d) == (2 * n + d) \div (2 * d)
Interest(p, days) == Round(p * days * Rate, Year)

Init ==
    /\ today = 0
    /\ loans = [l \in Loan |-> NoLoan]
    /\ accounts = [l \in Loan |-> NoAccount]
    /\ schedules = [l \in Loan |-> << >>]
    /\ gl = [l \in Loan |-> Zero]
    /\ running = [l \in Loan |-> Zero]
    /\ charged = [l \in Loan |-> 0]
    /\ txns = [t \in Txn |-> Fresh]
    /\ overlaps = {}
---------------------------------------------------------------------------
(* loan_disburse.                                                           *)

\* Principal still to be scheduled before installment i.
Opening(p) ==
    LET open[i \in 1..Term] ==
          IF i = 1 THEN p
          ELSE open[i - 1] - (Installment[p] - Interest(open[i - 1], 1))
    IN  open

\* An annuity pays the interest of its period; the last installment, what is left.
PrincipalDue(p) ==
    [i \in 1..Term |-> IF i = Term THEN Opening(p)[i]
                       ELSE Installment[p] - Interest(Opening(p)[i], 1)]

\* Rounding an installment up must not leave the last one below zero: it does not
\* unless a principal is a few cents for each of its installments.
ASSUME AnnuityAssumption == \A p \in Principal : \A i \in 1..Term : PrincipalDue(p)[i] >= 0

Schedule(p) ==
    [i \in 1..Term |->
        [ due |-> today + i, paidPrincipal |-> 0, paidInterest |-> 0,
          principal |-> PrincipalDue(p)[i], interest |-> Interest(Opening(p)[i], 1) ]]

LoanDisburse(l, p) ==
    /\ loans[l] = NoLoan
    /\ loans' = [loans EXCEPT ![l] = [status |-> "active", principal |-> p, interest |-> 0,
                                      since |-> today, accrued |-> today]]
    /\ accounts' = [accounts EXCEPT ![l] = [status |-> "active", principal |-> p, interest |-> 0]]
    /\ schedules' = [schedules EXCEPT ![l] = Schedule(p)]
    /\ gl' = [gl EXCEPT ![l].principal = @ + p]
    /\ running' = [running EXCEPT ![l] = [principal |-> p, interest |-> 0]]
    /\ UNCHANGED <<today, charged, txns, overlaps>>
---------------------------------------------------------------------------
(* loan_repayment.                                                          *)

Repayable(row) == row.status \in {"active", "in_arrears"}

\* A transaction reads the loans it will work on.
Begin(t, tx) ==
    /\ txns[t].pc = "new"
    /\ txns' = [txns EXCEPT ![t] = tx]
    /\ overlaps' = overlaps \cup
          {x \in Loan \X SUBSET {"repay", "accrue"} : \E s \in Txn :
              tx.seen[x[1]] # NoLoan /\ x[1] \in Touched(s) /\ x[2] = {Kind(tx), Kind(txns[s])}}

Seen(S) == [l \in Loan |-> IF l \in S THEN loans[l] ELSE NoLoan]

LoanRepayment(t, l, amt) ==
    /\ Repayable(loans[l])
    /\ Begin(t, [Fresh EXCEPT !.pc = "schedules", !.seen = Seen({l}), !.loan = l,
                                 !.amount = amt, !.date = today])
    /\ UNCHANGED <<today, loans, accounts, schedules, gl, running, charged>>

\* What is open on each installment.
OpenInterest(s) == [i \in 1..Len(s) |-> Greatest(s[i].interest - s[i].paidInterest, 0)]
OpenPrincipal(s) == [i \in 1..Len(s) |-> Greatest(s[i].principal - s[i].paidPrincipal, 0)]
Unpaid(s, i) == OpenInterest(s)[i] > 0 \/ OpenPrincipal(s)[i] > 0

End(t) == txns' = [txns EXCEPT ![t] = [Fresh EXCEPT !.pc = "done"]]

\* The split of the amount, interest first, and the refusal of an overpayment:
\* from the loan read before and the schedules read now.
Split(t, checked) ==
    LET tx   == txns[t]
        row  == tx.seen[tx.loan]
        owed == Greatest(row.interest, Total(OpenInterest(schedules[tx.loan])))
        paid == Least(tx.amount, owed)
    IN
    /\ tx.pc = "schedules"
    /\ IF checked /\ tx.amount > row.principal + owed
       THEN End(t)
       ELSE txns' = [txns EXCEPT ![t].pc = "account",
                                 ![t].receivable = Least(paid, row.interest),
                                 ![t].principal = tx.amount - paid]
    /\ UNCHANGED <<today, loans, accounts, schedules, gl, running, charged, overlaps>>

\* Mutant: an overpayment is accepted.
ReadSchedulesUnchecked(t) == Split(t, FALSE)

ReadSchedules(t) == Split(t, TRUE)

ReadAccount(t) ==
    /\ txns[t].pc = "account"
    /\ txns' = [txns EXCEPT ![t].pc = "repay", ![t].account = accounts[txns[t].loan]]
    /\ UNCHANGED <<today, loans, accounts, schedules, gl, running, charged, overlaps>>

\* Mutant: nothing is carried over to the next installment.
AppliedToFirst(s, interest, principal) ==
    [i \in 1..Len(s) |->
        IF Unpaid(s, i) /\ \A j \in 1..(i - 1) : ~Unpaid(s, j)
        THEN [s[i] EXCEPT !.paidInterest = @ + Least(interest, OpenInterest(s)[i]),
                          !.paidPrincipal = @ + Least(principal, OpenPrincipal(s)[i])]
        ELSE s[i]]

\* The loop over the open installments, oldest first.
Applied(s, interest, principal) ==
    [i \in 1..Len(s) |->
        [s[i] EXCEPT !.paidInterest = @ + InOrder(interest, OpenInterest(s))[i],
                     !.paidPrincipal = @ + InOrder(principal, OpenPrincipal(s))[i]]]

\* Mutant: nothing keeps a balance from going below zero.
LessUnclamped(balance, amt) == balance - amt

Less(balance, amt) == Greatest(balance - amt, 0)

StatusOf(principal, s, date) ==
    IF principal = 0 /\ \A i \in 1..Len(s) : ~Unpaid(s, i) THEN "closed"
    ELSE IF \E i \in 1..Len(s) : Unpaid(s, i) /\ s[i].due < date THEN "in_arrears"
    ELSE "active"

\* Mutant: the account is reduced by all the interest paid, not by the accrued part.
RepayAccountAll(row, tx, status) ==
    [status |-> status, principal |-> Less(row.principal, tx.principal),
     interest |-> Less(row.interest, tx.amount - tx.principal)]

RepayAccount(row, tx, status) ==
    [status |-> status, principal |-> Less(row.principal, tx.principal),
     interest |-> Less(row.interest, tx.receivable)]

PostRepayment(t) ==
    LET tx     == txns[t]
        l      == tx.loan
        s      == Applied(schedules[l], tx.amount - tx.principal, tx.principal)
        left   == Less(loans[l].principal, tx.principal)
        status == StatusOf(left, s, tx.date)
    IN
    /\ tx.pc = "repay"
    /\ schedules' = [schedules EXCEPT ![l] = s]
    /\ loans' = [loans EXCEPT ![l].principal = left, ![l].status = status,
                              ![l].interest = Less(@, tx.receivable)]
    /\ accounts' = [accounts EXCEPT ![l] = RepayAccount(@, tx, status)]
    /\ gl' = [gl EXCEPT ![l].principal = @ - tx.principal,
                        ![l].interest = @ - tx.receivable]
    /\ running' = [running EXCEPT ![l] = [principal |-> Less(tx.account.principal, tx.principal),
                                          interest |-> Less(tx.account.interest, tx.receivable)]]
    /\ End(t)
    /\ UNCHANGED <<today, charged, overlaps>>
---------------------------------------------------------------------------
(* interest_accrual.                                                        *)

Days(row, date) == Greatest(date - row.accrued, 0)
Charge(row, date) == Interest(row.principal, Days(row, date))

\* The loop's query sees the loans of one moment.
InterestAccrual(t, date) ==
    LET due == {l \in Loan : Repayable(loans[l]) /\ loans[l].principal > 0
                                                 /\ Charge(loans[l], date) > 0} IN
    /\ due # {}
    /\ Begin(t, [Fresh EXCEPT !.pc = "accrue", !.seen = Seen(due), !.date = date])
    /\ UNCHANGED <<today, loans, accounts, schedules, gl, running, charged>>

\* Mutant: the day interest has been charged up to is not moved on.
AccruedForgetful(row, seen, date) == [row EXCEPT !.interest = @ + Charge(seen, date)]

\* Mutant: the status the loop read is written back to the loan as well.
AccruedWithStatus(row, seen, date) ==
    [row EXCEPT !.interest = @ + Charge(seen, date), !.accrued = date, !.status = seen.status]

Accrued(row, seen, date) == [row EXCEPT !.interest = @ + Charge(seen, date), !.accrued = date]

PostAccrual(t) ==
    LET tx == txns[t]
        hit(l) == l \in Touched(t)
        charge(l) == Charge(tx.seen[l], tx.date)
    IN
    /\ tx.pc = "accrue"
    /\ loans' = [l \in Loan |-> IF hit(l) THEN Accrued(loans[l], tx.seen[l], tx.date) ELSE loans[l]]
    /\ accounts' = [l \in Loan |->
          IF hit(l) THEN [accounts[l] EXCEPT !.interest = @ + charge(l),
                                             !.status = tx.seen[l].status]
          ELSE accounts[l]]
    /\ gl' = [l \in Loan |-> IF hit(l) THEN [gl[l] EXCEPT !.interest = @ + charge(l)] ELSE gl[l]]
    /\ running' = [l \in Loan |->
          IF hit(l) THEN [principal |-> tx.seen[l].principal,
                          interest |-> tx.seen[l].interest + charge(l)]
          ELSE running[l]]
    /\ charged' = [l \in Loan |->
          IF hit(l) THEN charged[l] + Days(tx.seen[l], tx.date) ELSE charged[l]]
    /\ End(t)
    /\ UNCHANGED <<today, schedules, overlaps>>
---------------------------------------------------------------------------
\* A failed statement, a lost connection, a deadlock victim: nothing is kept.
Abort(t) ==
    /\ txns[t].pc \notin {"new", "done"}
    /\ End(t)
    /\ UNCHANGED <<today, loans, accounts, schedules, gl, running, charged, overlaps>>

NextDay ==
    /\ today < MaxDay
    /\ today' = today + 1
    /\ UNCHANGED <<loans, accounts, schedules, gl, running, charged, txns, overlaps>>

Next ==
    \/ \E l \in Loan, p \in Principal : LoanDisburse(l, p)
    \/ \E t \in Txn :
          \/ \E l \in Loan, amt \in Payment : LoanRepayment(t, l, amt)
          \/ \E date \in Day : InterestAccrual(t, date)
          \/ ReadSchedules(t) \/ ReadAccount(t) \/ PostRepayment(t) \/ PostAccrual(t)
          \/ Abort(t)
    \/ NextDay

Spec == Init /\ [][Next]_vars
---------------------------------------------------------------------------
(* Properties.                                                              *)

Statuses == {"absent", "active", "in_arrears", "closed"}

TypeOK ==
    /\ today \in Day
    /\ loans \in [Loan -> [status : Statuses, principal : Nat, interest : Nat,
                           since : Day, accrued : Day]]
    /\ accounts \in [Loan -> [status : Statuses, principal : Nat, interest : Nat]]
    /\ gl \in [Loan -> [principal : Int, interest : Int]]
    /\ running \in [Loan -> [principal : Nat, interest : Nat]]
    /\ charged \in [Loan -> Nat]

Overlapped(l, kinds) == <<l, kinds>> \in overlaps

\* The portfolio and receivable accounts hold what the loans say they owe: repayments
\* of one loan that do not overlap keep them equal whatever accruals come between,
\* and overlapping ones only ever leave the control account short of the loan.
BookReconciles ==
    \A l \in Loan :
        /\ gl[l].principal <= loans[l].principal /\ gl[l].interest <= loans[l].interest
        /\ ~Overlapped(l, {"repay"}) =>
              gl[l].principal = loans[l].principal /\ gl[l].interest = loans[l].interest

\* A loan and its loan account show the same balances after every commit, and its
\* statement ends with them when no two calls overlapped.
MirrorsAgree ==
    \A l \in Loan :
        /\ accounts[l].principal = loans[l].principal /\ accounts[l].interest = loans[l].interest
        /\ (\A kinds \in SUBSET {"repay", "accrue"} : ~Overlapped(l, kinds)) =>
              /\ running[l] = [principal |-> loans[l].principal, interest |-> loans[l].interest]
              /\ accounts[l].status = loans[l].status

\* The installments amortise the loan: the principal still open on them is the
\* outstanding principal, after any interleaving of repayments.
ScheduleFollows ==
    \A l \in Loan : Total(OpenPrincipal(schedules[l])) = loans[l].principal

\* A loan is closed exactly when nothing is due on it, and stays so; interest can be
\* left on a closed loan only by an accrual that overlapped the last repayment.
ClosedIsSettled ==
    \A l \in Loan : loans[l] # NoLoan =>
        LET settled == loans[l].principal = 0 /\ \A i \in 1..Term : ~Unpaid(schedules[l], i) IN
        /\ loans[l].status = "closed" <=> settled
        /\ settled /\ ~Overlapped(l, {"repay", "accrue"}) /\ ~Overlapped(l, {"repay"})
              => loans[l].interest = 0

\* Each day is charged once, from the disbursement to the last accrual, unless two
\* accruals (two processes' timers, or a timer and the staff) overlapped.
DayChargedOnce ==
    \A l \in Loan : ~Overlapped(l, {"accrue"}) => charged[l] = loans[l].accrued - loans[l].since
===========================================================================
