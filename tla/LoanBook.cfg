SPECIFICATION Spec
CONSTANTS
    Loan = {l1}
    Txn = {t1, t2, t3, t4}
    Principal = {2}
    Payment = {1, 4}
    Rate = 1
    Year = 2
    Term = 2
    Installment <- MCInstallment
    MaxDay = 2
CHECK_DEADLOCK FALSE
SYMMETRY Symmetry
INVARIANTS
    TypeOK
    BookReconciles
    MirrorsAgree
    ScheduleFollows
    ClosedIsSettled
    DayChargedOnce
