SPECIFICATION Spec
CONSTANTS
    MaxLsb = 8
    AnySlices = {}
    Types <- FewTypes
    StreamPocs <- PocsAround
    StartPocs = {2}
    Tid0s <- AnyLayer
    LongTerms = TRUE
    MaxHidden = 0
    SpsSet <- SmallerThen
    Ends = {"eos"}
    CanFail = {}
    Interruptions = {"drain", "flush"}
    Conforming = TRUE
    MaxAus = 4
    MaxNalu = 2
INVARIANTS
    PocAsMeant
    ReferencesAsMeant
    DecodedAsMeant
    DpbWithinSize
    BuffersWithinSequence
PROPERTIES
    ShownInOrder
