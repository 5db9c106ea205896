CONSTANTS
    Subjects <- MCSubjects
    Objects <- MCObjects
    Versions = {"old", "new", "broken"}
    Good = {"old", "new"}
    Pipelines <- MCPipelines
    Builds = {"open", "gated"}
    PeerScripting <- MCPeerScripting
    Backends <- MCBackends
    Parts = 2
    Bundle <- MCBundle
    Resolver <- MCResolver
    Emoji <- MCEmoji
    Seed <- MCSeed
    Docs <- MCDocs
    MaxBoots = 3
    None = None
SPECIFICATION Spec
INVARIANTS LoadedIsGiven BundleOnly ThemeIsOfBuild RadioDataKept
CHECK_DEADLOCK FALSE
