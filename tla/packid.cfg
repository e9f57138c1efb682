SPECIFICATION FairSpec
CONSTANTS
    one = one
    two = two
    first = first
    second = second
    outside = outside
    NoPack = NoPack
    Callers <- MCOne
    Packs <- MCPacks
    OutOfRange <- MCOutOfRange
    SettleSteps = 2
PROPERTIES
    CheckPackId
