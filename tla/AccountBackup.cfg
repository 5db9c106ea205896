CONSTANTS
    Modes = {"attach"}
    Patient = FALSE
    MaxCommands = 2
    None = None
SPECIFICATION Spec
INVARIANT BackupIsOfNewAccount
