SPECIFICATION Spec
CONSTANTS
    one = one
    two = two
    Callers <- MCCallers
    Devices <- MCDevices
INVARIANTS
    TypeOK
    SettlesOnTheTruth
    EntriesFound
    ReadsServedOnce
