SPECIFICATION Spec
CONSTANTS
    One = 2
    FilterLength = 2
    FilterValue <- MCFilterValue
    Modes <- MCModes
    MasterTimes <- MCMasterTimes
    LocalTimes <- MCLocalTimes
    Delays <- MCDelays
    Ratios <- MCRatios
INVARIANTS
    TypeOK
    NoStampFromBeforeStep
    FormerRemoteForgotten
    WeightIsFraction
