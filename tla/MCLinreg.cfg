SPECIFICATION Spec
CONSTANTS
    One = 100
    StepThreshold = 4
    FirstStepThreshold = 1
    MaxFrequency = 30
    OffsetThreshold = 1
    NumOffsetValues = 2
    MinSize = 1
    MaxSize = 2
    InitialUpdates = 1
    Smoothing = 2
    UpdateInterval = 1
    NsPerSec = 100
    Offsets <- MCOffsets
    Gaps <- MCGaps
    Weights <- MCWeights
    InitialAdjs <- MCInitialAdjs
    Start = 100
    MaxCalls = 6
INVARIANTS
    TypeOK
    PointsInRemoteTime
    PointsInUndisciplinedTime
    SizeIsEarned
    ZeroDivisionNeedsReplays
CHECK_DEADLOCK FALSE
