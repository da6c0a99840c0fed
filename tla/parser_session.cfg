SPECIFICATION Spec
CONSTANTS
    reader = reader
    first = first
    second = second
    Reader = reader
    Owners = {reader, first, second}
    CanFail = {"params", "codec", "decode"}
    MaxUnits = 4
    MaxSessions = 2
INVARIANTS
    DestroyedOnce
    NothingLeftBehind
    EosFlushes
CHECK_DEADLOCK FALSE
