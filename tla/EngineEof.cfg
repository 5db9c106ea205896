CONSTANTS
    watcher = watcher
    relay = relay
    Nodes <- MCNodes
    Ins <- MCIns
    Outs <- MCOuts
    Name <- MCName
    Channels <- MCChannels
    InboxCap = 1
    InputKinds = {"pipe"}
    LineKinds = {"raw"}
    EventKinds = {"raw"}
    EmitKinds = {"raw"}
    MaxLines = 1
    MaxEvents = 0
    MaxEmits = 1
    MaxAsks = 0
    None = None
SPECIFICATION PipedSpec
PROPERTY EverythingIsHandled
