SPECIFICATION Spec
CONSTANTS
    ana = ana
    ben = ben
    eve = eve
    Account = {ana, ben, eve}
    Shares = {eve}
    Txn = {t1, t2, t3}
    Amount = {2}
    MaxDay = 2
    Opening <- MCOpening
    NoTxn = NoTxn
CHECK_DEADLOCK FALSE
SYMMETRY Symmetry
INVARIANTS
    TypeOK
    LedgerReconciles
    RunningBalances
    OverdrawnOnlyByRace
    SealedPeriod
