CONSTANTS
    Subjects <- MCSubjects
    Objects <- MCObjects
    Versions = {"old", "new"}
    Good = {"old", "new"}
    Pipelines <- MCRouterPipelines
    Builds = {"open", "gated"}
    PeerScripting <- MCPeerScripting
    Backends <- MCBackends
    Parts = 2
    Bundle <- MCBundle
    Resolver <- MCResolver
    Emoji <- MCEmoji
    Seed <- MCSeed
    Docs <- MCDocs
    MaxBoots = 3
    None = None
SPECIFICATION Spec
INVARIANT GivenPipelineBoots
CHECK_DEADLOCK FALSE
