SPECIFICATION LiveSpec
CONSTANTS
    Job = {j1, j2}
    Worker = {w1, w2}
    MaxRetries = 1
    MaxTimeouts = 1
    NoJob = NoJob
    Account = {ana, ben, eve}
    Shares = {eve}
    Txn = {t1, t2}
    Amount = {2}
    MaxDay = 2
    NoTxn = NoTxn
    Opening <- LiveOpening
CHECK_DEADLOCK FALSE
INVARIANT ExportsHold
PROPERTIES EveryCallEnds EveryExportEnds
