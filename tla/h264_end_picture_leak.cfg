SPECIFICATION Spec
CONSTANTS
    MinPoc <- MCMinPoc
    MaxFrameNum = 4
    Pocs <- PocsUp
    GapPocs <- GapPocs0
    LongIdxs = {0}
    NalRefs <- Both
    SpsSet <- OneSize
    Compliance = "strict"
    Live = FALSE
    CanFail = {"decode"}
    Conforming = TRUE
    MaxAus = 2
    MaxMmco = 0
INVARIANTS
    BuffersAccounted
