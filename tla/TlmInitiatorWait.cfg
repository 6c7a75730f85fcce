CONSTANTS
    Txn = {t1, t2, t3}
    NoTxn = none
    Delays = {0, 2}
    Quantum = 4
    Polite = TRUE
    EndResps = FALSE
    WaitLocal = TRUE
    MaxNow = 1
SPECIFICATION Spec
PROPERTIES
    WaitReturns
CHECK_DEADLOCK FALSE
