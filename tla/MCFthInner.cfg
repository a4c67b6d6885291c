SPECIFICATION Spec
CONSTANTS
    Width = 6
    IntWidth = 4
    Floats <- MCFloats
    MaxObjects = 4
    CharWidth = 2
    Lower <- MCLower
    Programs <- MCPrograms
INVARIANTS ChecksHold
PROPERTIES RefinesEffects
CHECK_DEADLOCK FALSE
