SPECIFICATION Spec
CONSTANTS
    DEFAULT_SEQ_LENGTH = 3
    MAX_SEQ_LENGTH = 6
    Junk = Junk
    Nul = Nul
    None = None
    Char = {1, 2, 3}
    NL = 1
    ToUpper <- MCUpper
    ToLower <- MCLower
    Index <- MCIndex
    Length <- MCLength
    Added <- MCAdded
INVARIANTS TextInBuffer
PROPERTIES RefinesText
