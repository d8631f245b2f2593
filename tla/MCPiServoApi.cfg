SPECIFICATION PiApiSpec
CONSTANTS
    StepThreshold = 2
    FirstStepThreshold = 1
    MaxFrequency = 3
    OffsetThreshold = 2
    NumOffsetValues = 2
    Kp = 2
    Ki = 1
    One = 2
    EstInterval = 2
    NsPerSec = 5
    Offsets <- MCOffsets
    SampleTimes <- MCSampleTimes
    Weights <- MCWeights
    InitialAdjs <- MCInitialAdjs
INVARIANTS
    PiTypeOK
    LockConsistent
    FreqInRange
    StableEarned
PROPERTIES
    StepNeedsAcquisition
    StableLeftByUnlock
