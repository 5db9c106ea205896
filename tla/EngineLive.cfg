CONSTANTS
    watcher = watcher
    relay = relay
    Nodes <- MCNodes
    Ins <- MCIns
    Outs <- MCOuts
    Name <- MCName
    Channels <- MCChannels
    InboxCap = 1
    InputKinds = {"ring"}
    LineKinds = {"raw"}
    EventKinds = {"raw"}
    EmitKinds = {"raw"}
    MaxLines = 1
    MaxEvents = 1
    MaxEmits = 1
    MaxAsks = 1
    None = None
SPECIFICATION FairSpec
PROPERTIES EverythingIsHandled QuestionsAreAnswered ClockKeepsTicking DeadAreReported
