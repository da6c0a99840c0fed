SPECIFICATION Spec
CONSTANTS
    MinPoc <- MCMinPoc
    MaxFrameNum = 4
    Pocs <- PocsUp
    GapPocs <- GapPocs0
    LongIdxs = {0}
    NalRefs <- Both
    SpsSet <- OneSize
    Compliance = "flexible"
    Live = TRUE
    CanFail = {}
    Conforming = TRUE
    MaxAus = 3
    MaxMmco = 1
INVARIANTS
    EntriesComplete
