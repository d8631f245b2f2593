SPECIFICATION Spec
CONSTANTS
    MaxSamples = 3
    Reordering = TRUE
INVARIANTS
    WholeWhenCountsEqual
CHECK_DEADLOCK FALSE
