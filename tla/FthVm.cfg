CONSTANTS
    Exc = {e1, e2}
    MaxDepth = 4
    None = None
    All = All
SPECIFICATION Spec
INVARIANTS HandlerInnermost NoCatchSkipped QuietUntilNested GivesWhatWasRaised
PROPERTIES ThrowEnds
CHECK_DEADLOCK FALSE
