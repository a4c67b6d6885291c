\* "Mark elements of already marked sequences (array etc)" (object.c)
CONSTANTS
    GC_FRAME_SIZE = 2
    GC_CHUNK_SIZE = 1
    GC_MAX_OBJECTS = 1
    MaxInstances = 2
    MaxRefs = 2
    MaxStack = 2
    Var = {v}
    NoInst = NoInst
SPECIFICATION Spec
PROPERTIES KeepsAllElements
CHECK_DEADLOCK FALSE
