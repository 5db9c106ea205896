CONSTANTS
    short = short
    long = long
    oversize = oversize
    Messages = {short, long, oversize}
    Size <- MCSize
    Prefix = 2
    Capacity = 8
    Modulus = 16
    MaxAttempts = 2
    ClockKind = "pipe"
    PipeSize = 3
    ReadSize = 2
    ReaderKind = "node"
    MaxSends = 5
SPECIFICATION FairSpec
INVARIANTS NoDataRace NoLostWakeup RingInv
PROPERTIES ImplementsFifo Delivered SendReturns BlocksWhenIdle
