CONSTANTS
    GC_FRAME_SIZE = 2
    GC_CHUNK_SIZE = 1
    GC_MAX_OBJECTS = 1
    MaxInstances = 3
    MaxRefs = 2
    MaxStack = 2
    Var = {v}
    NoInst = NoInst
SPECIFICATION Spec
INVARIANTS FreeListSound HeldAlive
PROPERTIES FramesKept KeepsElements
CHECK_DEADLOCK FALSE
