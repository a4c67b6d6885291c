SPECIFICATION Spec
CONSTANTS
    Width = 6
    Mantissa = 4
    MaxExp = 9
    MaxSteps = 12
    Programs <- MCPrograms
INVARIANTS LowestTerms
PROPERTIES RefinesRational RationalizeWithin
CHECK_DEADLOCK FALSE
