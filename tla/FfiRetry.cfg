CONSTANTS
    None = None
    Hosts = {isolate}
    MaxBuilds = 1
    MaxBatches = 2
    BatchLines = 2
    MaxRetries = 1
    InCap = 1
    OutCap = 1
SPECIFICATION Spec
INVARIANT DispatchedOnce
