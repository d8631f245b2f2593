SPECIFICATION FairSpec
CONSTANTS
    Phcs = {"A", "B"}
    PhcMaxAdj <- MCPhcMaxAdj
    Tolerance = 500000
    UsecPerSec = 1000000
    NsPerSec = 5
    Hertz <- MCHertz
    Found <- MCFound
    Asked <- MCAsked
    Steps <- MCSteps
    NamesIn <- MCNamesIn
    TextsOf <- MCTextsOf
    MaxItems = 4
    MaxOpen = 3
INVARIANTS
    TypeOK
    RateUntouched
    ServoKnowsRate
    ClockObeys
    StepIsExact
    ServoSteers
    RunsAsWritten
    LogsToOpenFile
PROPERTIES
    StartsOrReturns
CHECK_DEADLOCK FALSE
