SPECIFICATION Spec
CONSTANTS
    DEFAULT_SEQ_LENGTH = 2
    MAX_SEQ_LENGTH = 6
    Nil = Nil
    False = False
    Val = {Nil, False}
    Junk = Junk
    None = None
    Index <- MCIndex
    Inserted <- MCInserted
    MaxLen = 3
INVARIANTS DataInBuffer
PROPERTIES RefinesSeq OnlyPartsOverrun
