CONSTANTS
    MaxClients = 2
    MaxMsgs = 1
    MaxFrames = 0
    Shapes <- MCShapes
    Followed = {1}
    SockCap = 1
    None = None
SPECIFICATION FairSpec
PROPERTIES AdoptedGetsAll LeaverIsReleased
CHECK_DEADLOCK FALSE
