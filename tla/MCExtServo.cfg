SPECIFICATION FairSpec
CONSTANTS
    One = 2
    StepThreshold = 0
    FirstStepThreshold = 1
    MaxFrequency = 3
    OffsetThreshold = 2
    NumOffsetValues = 2
    Kp = 2
    Ki = 1
    EstInterval = 2
    NsPerSec = 5
    FilterLength = 1
    FilterValue <- MCFilterValue
    Datagrams <- MCFewDatagrams
    Modes = {"FILTER_WEIGHT"}
    Junk <- MCOneJunk
    StartFreqs <- MCStartFreqs
    FreqClkIsRealtime = TRUE
    AdjMayFail = TRUE
INVARIANTS
    TypeOK
    ClockInRange
    ClockFollowsServo
PROPERTIES
    LockedForGood
    OffsetsResume
CHECK_DEADLOCK FALSE
