SPECIFICATION Spec
CONSTANTS
    Wrap = 32
    MSS = 2
    TCP_SND_BUF = 4
    TCP_SND_QUEUELEN = 4
    TCP_MAXRTX = 2
    InitCwnd = 4
    ISS = 30
    PeerBuf = 4
    WriteSizes = {3}
    ReadSizes = {1}
    MaxBytes = 6
    MaxLoss = 1
    MaxFail = 0
    MaxWire = 2
    PeerData = 0
    Closes = FALSE
    Patient = FALSE
INVARIANT
    PersistAssertionsHold
CHECK_DEADLOCK FALSE
