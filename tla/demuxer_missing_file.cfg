SPECIFICATION FairSpec
CONSTANTS
    video = video
    audio = audio
    Pads = {video, audio}
    MaxPackets = 1
    GroupDone = TRUE
    CanError = FALSE
    CanFailOpen = TRUE
    Patient = TRUE
PROPERTIES
    NewReturns
CHECK_DEADLOCK FALSE
