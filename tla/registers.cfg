SPECIFICATION Spec
CONSTANTS
    Parts <- MCParts
    Events <- MCEvents
    MaxSent = 2
INVARIANTS
    TypeOK
    FaultsRegular
    OneMoment
