SPECIFICATION Spec
CONSTANTS
    MaxIo = 5
    MaxFiles = 6
    MaxText = 5
    MaxVersion = 3
    Bases = {"f", "fo"}
    Strings = {1, 2}
    Fds = {1, 2}
    Sessions <- MCSessions
INVARIANTS WrittenInOrder RedirectionsUndone
PROPERTIES CursorKept BackupsKept
CHECK_DEADLOCK FALSE
