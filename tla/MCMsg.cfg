SPECIFICATION Spec
CONSTANTS
    Byte = 4
    NsPerSec = 120
    Sendable <- MCSendable
INVARIANTS
    TypeOK
PROPERTIES
    GivesWhatWasMeasured
