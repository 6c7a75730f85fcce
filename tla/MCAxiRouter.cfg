CONSTANTS
    None = none
    Units <- MCUnits
SPECIFICATION Spec
INVARIANTS
    IInv
    Routed
PROPERTIES
    NothingWaitsForever
