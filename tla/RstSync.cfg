CONSTANTS
    Domains = {dA, dB, dC}
    DEPTH = 3
SPECIFICATION FairSpec
INVARIANT IInv
PROPERTY KeepsPromise
PROPERTY EventuallyReleased
