CONSTANTS
    Routers = {r1}
    Types = {"platform"}
    LlmHttp = FALSE
    busy = r1
    Most = 2
    MaxDocs <- MCMaxDocs
    InboxCap = 1
    RingCap = 2
    Wired = FALSE
SPECIFICATION FairSpec
PROPERTIES RequestIsRead
CHECK_DEADLOCK FALSE
