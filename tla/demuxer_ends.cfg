SPECIFICATION FairSpec
CONSTANTS
    video = video
    audio = audio
    Pads = {video, audio}
    MaxPackets = 4
    GroupDone = TRUE
    CanError = FALSE
    CanFailOpen = FALSE
    Patient = TRUE
PROPERTIES
    NewReturns
    ReaderFinishes
    TeardownReturns
CHECK_DEADLOCK FALSE
