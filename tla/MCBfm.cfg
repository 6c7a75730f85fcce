CONSTANTS
    MaxResets = 1
    None = None
SPECIFICATION Spec
INVARIANTS
    InOrder
PROPERTIES
    ImplementsBridge
    EventuallyAnswered
CHECK_DEADLOCK FALSE
