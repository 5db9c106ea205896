CONSTANTS
    Modes = {"wait"}
    Patient = TRUE
    MaxCommands = 2
    None = None
SPECIFICATION Spec
INVARIANT BackupIsAskedFor
