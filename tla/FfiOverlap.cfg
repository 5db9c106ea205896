CONSTANTS
    None = None
    Hosts = {isolate1, isolate2}
    MaxBuilds = 2
    MaxBatches = 1
    BatchLines = 2
    MaxRetries = 0
    InCap = 2
    OutCap = 1
SPECIFICATION Spec
INVARIANT HeldIsLive
