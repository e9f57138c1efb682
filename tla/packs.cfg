SPECIFICATION FairSpec
CONSTANTS
    one = one
    two = two
    first = first
    second = second
    outside = outside
    NoPack = NoPack
    Callers <- MCBoth
    Packs <- MCPacks
    OutOfRange <- MCOutOfRange
    SettleSteps = 2
INVARIANTS
    TypeOK
    ServedNeedsNoWrite
PROPERTIES
    PackIdTellsThePack
    ReadEnds
