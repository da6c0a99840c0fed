SPECIFICATION FairSpec
CONSTANTS
    MaxLsb = 4
    AnySlices <- SomeSlices
    Types <- FewTypes
    StreamPocs = {}
    StartPocs = {}
    Tid0s <- ZeroOnly
    LongTerms = FALSE
    MaxHidden = 0
    SpsSet <- TwoSequences
    Ends = {"eob"}
    CanFail = {"alloc", "decode", "display"}
    Interruptions = {"drain", "flush", "stop"}
    Conforming = FALSE
    MaxAus = 3
    MaxNalu = 2
INVARIANTS
    TypeOK
    OutputCounter
    BuffersAccounted
    FramesOwed
    NothingLost
PROPERTIES
    ClientSpec
    CallsReturn
