SPECIFICATION FairSpec
CONSTANTS
    served = served
    absent = absent
    Components <- MCComponents
    Unserved <- MCUnserved
    Steps <- MCSteps
    Delays <- MCNone
    Budget = 8
    CrowdedPolls = 2
    QuietPolls = 1
    MaxQuietPolls = 4
    FailedOpens = 1
    MaxReads = 3
    MaxOpens = 0
    MaxOpening = 0
INVARIANTS
    TypeOK
    UnitHoldsTuning
    CountersBelowThresholds
    OnlyTroubleWidens
    PatienceCoversGap
PROPERTIES
    GapMovesOnEvidence
    WideningFitsPoll
    GapGivenBack
