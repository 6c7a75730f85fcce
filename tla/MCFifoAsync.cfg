CONSTANTS
    Data = {d1, d2}
    Token = d1
    None = none
    Units <- MCUnits
SPECIFICATION Spec
INVARIANTS
    CleanCrossing
    FlagsAreSafe
PROPERTIES
    ImplementsChannel
    NothingStuck
