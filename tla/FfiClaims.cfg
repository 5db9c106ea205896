CONSTANTS
    None = None
    Hosts = {isolate}
    MaxBuilds = 1
    MaxBatches = 1
    BatchLines = 2
    MaxRetries = 0
    InCap = 2
    OutCap = 1
\* One at a time: the other claims are commented out.
SPECIFICATION DrainingSpec
PROPERTY PanicReported
\* PROPERTY PoisonedRejects
\* PROPERTY CreateGivesRunningWorker
\* PROPERTY NodeThreadsEnd
