CONSTANTS
    Data = {d1, d2}
    RESET = zero
SPECIFICATION FairSpec
INVARIANTS
    NeverBothEnabled
    StableWhenCopied
    IInv
PROPERTIES
    ImplementsChannel
    SenderReadyAgain
