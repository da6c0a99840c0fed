SPECIFICATION Spec
CONSTANTS
    MinPoc <- MCMinPoc
    MaxFrameNum = 3
    Pocs <- PocsMixed
    GapPocs <- GapPocs0
    LongIdxs = {0}
    NalRefs <- Both
    SpsSet <- TwoSizes
    Compliance = "flexible"
    Live = TRUE
    CanFail = {"alloc"}
    Conforming = FALSE
    MaxAus = 3
    MaxMmco = 1
INVARIANTS
    TypeOK
    OutputCounter
    BuffersAccounted
    FramesOwed
