CONSTANTS
    Modes = {"attach"}
    Patient = TRUE
    MaxCommands = 1
    None = None
SPECIFICATION FairSpec
PROPERTY DeferredLoadIsShown
