SPECIFICATION LoopSpec
CONSTANTS
    One = 2
    StepThreshold = 2
    FirstStepThreshold = 1
    MaxFrequency = 3
    OffsetThreshold = 0
    NumOffsetValues = 2
    Kp = 2
    Ki = 1
    EstInterval = 1
    NsPerSec = 5
    FilterLength = 3
    FilterValue <- MCFilterValue
    Datagrams = {}
    Modes = {"FILTER", "RAW"}
    Junk <- MCJunk
    StartFreqs <- MCStartFreqs
    FreqClkIsRealtime = FALSE
    AdjMayFail = FALSE
    Path = 1
    StartErrors <- MCStartErrors
    Start = 10
    Horizon = 17
    Waiting = 3
    MaxRequests = 1
INVARIANTS
    OneStepSuffices
PROPERTIES
    StepLandsOnMaster
CHECK_DEADLOCK FALSE
