CONSTANTS
    Data = {d1, d2, d3}
    None = none
    Units <- MCUnits
SPECIFICATION Spec
INVARIANTS
    IInv
    HeadReady
PROPERTIES
    ImplementsFifo
    ImplementsChannel
    NothingStuck
