CONSTANTS
    None = None
    Hosts = {isolate}
    MaxBuilds = 1
    MaxBatches = 1
    BatchLines = 1
    MaxRetries = 0
    InCap = 1
    OutCap = 1
SPECIFICATION RunningSpec
PROPERTY AcceptedIsDispatched
