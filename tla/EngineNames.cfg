CONSTANTS
    watcher = watcher
    relay = relay
    Nodes <- MCNodes
    Ins <- MCIns
    Outs <- MCOuts
    Name <- MCSameName
    Channels <- MCChannels
    InboxCap = 1
    InputKinds = {"ring"}
    LineKinds = {"raw"}
    EventKinds = {"raw"}
    EmitKinds = {"raw"}
    MaxLines = 1
    MaxEvents = 1
    MaxEmits = 0
    MaxAsks = 0
    None = None
SPECIFICATION FairSpec
PROPERTY DeadAreReported
