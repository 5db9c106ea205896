CONSTANTS
    Routers = {r1}
    Types = {"http", "ollama", "platform", "unknown"}
    LlmHttp = TRUE
    busy = r1
    Most = 3
    MaxDocs <- MCMaxDocs
    InboxCap = 2
    RingCap = 1
    Wired = TRUE
SPECIFICATION FairSpec
INVARIANTS AnswerIsForPair OneEmitPerFiring
PROPERTIES FiresOnFresh PairIsFired
CHECK_DEADLOCK FALSE
