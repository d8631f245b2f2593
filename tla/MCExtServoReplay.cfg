SPECIFICATION Spec
CONSTANTS
    One = 2
    StepThreshold = 2
    FirstStepThreshold = 1
    MaxFrequency = 3
    OffsetThreshold = 0
    NumOffsetValues = 2
    Kp = 2
    Ki = 1
    EstInterval = 2
    NsPerSec = 5
    FilterLength = 1
    FilterValue <- MCFilterValue
    Datagrams <- MCDatagrams
    Modes = {"FILTER"}
    Junk <- MCNoJunk
    StartFreqs <- MCStartFreqs
    FreqClkIsRealtime = TRUE
    AdjMayFail = FALSE
INVARIANTS
    PassesOnWhatItRead
CHECK_DEADLOCK FALSE
