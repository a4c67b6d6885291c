CONSTANTS
    GC_FRAME_SIZE = 4
    MaxInstances = 2
    MaxScopes = 3
SPECIFICATION Spec
INVARIANTS ScopeObjectsAlive FramesNotFreed ScopeInv
CHECK_DEADLOCK FALSE
