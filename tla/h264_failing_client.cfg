SPECIFICATION FairSpec
CONSTANTS
    MinPoc <- MCMinPoc
    MaxFrameNum = 3
    Pocs <- PocsMixed
    GapPocs <- GapPocs0
    LongIdxs = {0}
    NalRefs <- Both
    SpsSet <- Shrinking
    Compliance = "auto"
    Live = TRUE
    CanFail = {"alloc", "decode", "display"}
    Conforming = FALSE
    MaxAus = 2
    MaxMmco = 1
INVARIANTS
    NothingLost
PROPERTIES
    ClientSpec
    CallsReturn
