CONSTANTS
    Modes = {"mint", "wait", "attach"}
    Patient = TRUE
    MaxCommands = 3
    None = None
SPECIFICATION FairSpec
INVARIANTS BootOrder ReadyHostHasAccount BackupIsOfNewAccount
PROPERTIES RegistrationIsShown
