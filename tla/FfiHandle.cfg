CONSTANTS
    None = None
    Hosts = {isolate}
    MaxBuilds = 2
    MaxBatches = 1
    BatchLines = 2
    MaxRetries = 1
    InCap = 1
    OutCap = 1
SPECIFICATION FairSpec
INVARIANTS HeldIsLive CarrierFreeForCreate
PROPERTIES DestroyReturns AcceptedIsDispatched
