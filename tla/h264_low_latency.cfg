SPECIFICATION Spec
CONSTANTS
    MinPoc <- MCMinPoc
    MaxFrameNum = 3
    Pocs <- PocsLonger
    GapPocs <- GapPocs0
    LongIdxs = {0}
    NalRefs <- Both
    SpsSet <- Deep
    Compliance = "flexible"
    Live = TRUE
    CanFail = {}
    Conforming = TRUE
    MaxAus = 6
    MaxMmco = 0
INVARIANTS
    RefsAreLatest
PROPERTIES
    ReorderRuleSafe
