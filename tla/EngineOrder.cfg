CONSTANTS
    watcher = watcher
    relay = relay
    Nodes <- MCNodes
    Ins <- MCIns
    Outs <- MCOuts
    Name <- MCName
    Channels <- MCChannels
    InboxCap = 1
    InputKinds = {"ring", "ws", "pipe"}
    LineKinds = {"raw", "bad", "command"}
    EventKinds = {"raw"}
    EmitKinds = {"raw"}
    MaxLines = 1
    MaxEvents = 0
    MaxEmits = 2
    MaxAsks = 2
    None = None
SPECIFICATION Spec
INVARIANTS AnswerSeesTrigger AnswerIsForQuestion AfterInsertMeansStored
PROPERTIES HandledInOrder
