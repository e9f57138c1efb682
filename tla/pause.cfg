SPECIFICATION Spec
CONSTANTS
    served = served
    absent = absent
    Components <- MCUnserved
    Unserved <- MCUnserved
    Steps <- MCNone
    Delays <- MCDelays
    Budget = 1
    CrowdedPolls = 1
    QuietPolls = 1
    MaxQuietPolls = 1
    FailedOpens = 2
    MaxReads = 0
    MaxOpens = 3
    MaxOpening = 2
INVARIANTS
    UnitHoldsTuning
PROPERTIES
    PauseEarned
