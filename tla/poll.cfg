SPECIFICATION FairSpec
CONSTANTS
    grid = grid
    meter = meter
    eps = eps
    one = one
    two = two
    Components <- MCComponents
    Unserved <- MCUnserved
    Pollers <- MCPollers
    Sites <- MCSites
    IdentityAttempts = 2
INVARIANTS
    TypeOK
    ReportAccounts
    RetryOnlyTheLiving
    TunerHearsEveryFailure
    TellsPlausible
    IdentityOwed
PROPERTIES
    KeepsContract
    UsesSetupAsPromised
    PollEnds
