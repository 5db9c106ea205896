CONSTANTS
    Routers = {r1, r2}
    busy = r1
    Most = 2
    Types = {"platform"}
    LlmHttp = FALSE
    MaxDocs <- MCMaxDocs
    InboxCap = 1
    RingCap = 1
    Wired = TRUE
SPECIFICATION Spec
INVARIANTS TypeOK AnswerIsForPair OneEmitPerFiring
PROPERTIES FiresOnFresh
\* Violated, and so not with the others:
\* PROPERTY NoAnswerIsStolen
CHECK_DEADLOCK FALSE
