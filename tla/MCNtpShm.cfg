SPECIFICATION Spec
CONSTANTS
    MaxSamples = 4
    Reordering = FALSE
INVARIANTS
    TypeOK
    EvenCountMeansWhole
    UsesWrittenStamps
CHECK_DEADLOCK FALSE
