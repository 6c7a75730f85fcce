CONSTANTS
    Sizes = {2, 3, 4, 5, 6, 7, 8, 9, 10, 11, 12, 13, 14, 15, 16}
    Values = {0, 1}
    WithMerge = TRUE
    COLUMNS = 4
    GAP = 1
    MaxCalls = 3
    None = none
SPECIFICATION Spec
INVARIANTS
    Sorted
    IdsFollowData
    OutputIsMedian
    RoundTrip
    NothingInvented
CHECK_DEADLOCK FALSE
