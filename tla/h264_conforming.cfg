SPECIFICATION OrderSpec
CONSTANTS
    MinPoc <- MCMinPoc
    MaxFrameNum = 3
    Pocs <- PocsOfAll
    GapPocs <- GapPocsAround
    LongIdxs = {0, 1}
    NalRefs <- Both
    SpsSet <- GapsOrNot
    Compliance = "strict"
    Live = FALSE
    CanFail = {}
    Conforming = TRUE
    MaxAus = 5
    MaxMmco = 2
    PocTypes <- AllTypes
    MaxPocLsb = 16
    CodedPocs <- PocsAround
    Cycle <- TwoOffsets
    NonRefOffset <- BeforeReference
    Deltas <- BottomFirstOrNot
INVARIANTS
    DpbWithinSize
    RefsWithinLimit
    BuffersWithinSequence
    LongTermUnique
    PocAsMeant
PROPERTIES
    ShownInOrder
