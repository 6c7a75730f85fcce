CONSTANTS
    Txn = {t1, t2, t3}
    NoTxn = none
    Delays = {0, 2}
    Quantum = 0
    Polite = TRUE
    EndResps = TRUE
    WaitLocal = FALSE
    MaxNow = 1
SPECIFICATION Spec
INVARIANTS
    IInv
PROPERTIES
    FinishedOnTime
    CallerServed
CHECK_DEADLOCK FALSE
