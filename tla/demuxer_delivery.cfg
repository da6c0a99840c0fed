SPECIFICATION Spec
CONSTANTS
    video = video
    audio = audio
    Pads = {video, audio}
    MaxPackets = 4
    GroupDone = TRUE
    CanError = TRUE
    CanFailOpen = TRUE
    Patient = FALSE
INVARIANTS
    TypeOK
    NoUseAfterFree
    StreamsComplete
    LastMissesOne
PROPERTIES
    InOrder
CHECK_DEADLOCK FALSE
