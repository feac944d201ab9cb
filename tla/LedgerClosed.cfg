SPECIFICATION Spec
CONSTANTS
    ana = ana
    ben = ben
    eve = eve
    Account = {ana, ben, eve}
    Shares = {eve}
    Txn = {t1, t2}
    Amount = {2}
    MaxDay = 2
    Opening <- MCOpening
    NoTxn = NoTxn
CHECK_DEADLOCK FALSE
PROPERTY NoPostingInClosedPeriod
