SPECIFICATION Spec
CONSTANTS
    Words = {"f", "g"}
    Vars = {"v"}
    Hooks = {1, 2}
    MaxFrames = 2
    MaxProcs = 2
    MaxSites = 2
    StackSize = 10
    MaxArgs = 5
    ArgsBound = 1
    ProcBound = 4
    HookBound = 7
    TraceBound = 6
    BelowBound = 5
    Sessions <- MCSessions
INVARIANTS ArgumentsBound RunsEachOnce StackKept
CHECK_DEADLOCK FALSE
