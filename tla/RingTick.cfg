CONSTANTS
    short = short
    long = long
    oversize = oversize
    Messages = {short, long, oversize}
    Size <- MCSize
    Prefix = 2
    Capacity = 8
    Modulus = 16
    MaxAttempts = 2
    ClockKind = "eventfd"
    PipeSize = 3
    ReadSize = 2
    ReaderKind = "tick"
    MaxSends = 4
SPECIFICATION FairSpec
PROPERTY Delivered
