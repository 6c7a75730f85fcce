CONSTANTS
    size = 2
    iterations = 2
    max_length = 2
    max_mots = 1
    Bindings = {1, 3}
    Boundary = 2
    Quantum = 4
    NoTxn = none
    Low = {0}
    fw_delays = {1, 2}
    bw_delays = {1}
    access_latency = 1
    byte_latency = 0
    error_rate = TRUE
SPECIFICATION Spec
INVARIANTS
    IInv
    NoMiscompare
PROPERTIES
    ImplementsRegionTest
    TestEnds
CHECK_DEADLOCK FALSE
