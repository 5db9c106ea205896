CONSTANTS
    watcher = watcher
    relay = relay
    Nodes <- MCNodes
    Ins <- MCIns
    Outs <- MCOuts
    Name <- MCName
    Channels <- MCChannels
    InboxCap = 1
    InputKinds = {"pipe"}
    LineKinds = {"raw"}
    EventKinds = {"raw"}
    EmitKinds = {"raw"}
    MaxLines = 1
    MaxEvents = 1
    MaxEmits = 0
    MaxAsks = 0
    None = None
SPECIFICATION FairSpec
PROPERTY ClockKeepsTicking
