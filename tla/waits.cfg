SPECIFICATION FairSpec
CONSTANTS
    one = one
    two = two
    Callers <- MCCallers
    Devices <- MCDevices
    FaultLogAttempts = 3
PROPERTY
    SetupWaitsItOut
