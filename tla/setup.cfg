SPECIFICATION FairSpec
CONSTANTS
    one = one
    two = two
    Callers <- MCCallers
    Devices <- MCDevices
    FaultLogAttempts = 3
INVARIANTS
    TypeOK
    SettlesOnTheTruth
PROPERTIES
    SettledStays
    KeepsPromise
    DropsOnlyTheDenied
    CallEnds
    SettlesWhenCalm
