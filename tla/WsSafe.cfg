CONSTANTS
    MaxClients = 2
    MaxMsgs = 3
    MaxFrames = 2
    Shapes <- MCShapes
    Followed = {}
    SockCap = 1
    None = None
SPECIFICATION Spec
INVARIANTS LinesInOrder CloseLosesNothing DeliveredInOrder
CHECK_DEADLOCK FALSE
