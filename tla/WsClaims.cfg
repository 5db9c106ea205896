CONSTANTS
    MaxClients = 2
    MaxMsgs = 1
    MaxFrames = 0
    Shapes <- MCShapes
    Followed = {1}
    SockCap = 1
    None = None
SPECIFICATION FairSpec
\* One at a time: the other claim is commented out.
PROPERTY RegisteredGetsAll
\* PROPERTY ConnectedGetsAll
CHECK_DEADLOCK FALSE
