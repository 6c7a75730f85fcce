CONSTANTS
    MASTER_RESET = TRUE
    SLAVE_RESET = FALSE
    MOT = 2
    LEN = 1
    ISSUE = 2
SPECIFICATION Spec
INVARIANT
    LengthsFit
