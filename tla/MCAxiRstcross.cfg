CONSTANTS
    MOT = 2
    LEN = 2
    ISSUE = 3
    RD_MOT = 3
    RD_LEN = 2
    None = none
SPECIFICATION Spec
INVARIANTS
    EndsTracked
    BurstsWhole
    NoSpuriousResponse
PROPERTIES
    BurstsEnd
    WritesNotStalled
