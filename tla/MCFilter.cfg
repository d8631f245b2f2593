SPECIFICATION Spec
CONSTANTS
    Length = 4
    Modulus = 16
    Values <- MCValues
INVARIANTS
    TypeOK
    OrderIsSorted
    HalfOnEitherSide
PROPERTIES
    EstimatesWindow
