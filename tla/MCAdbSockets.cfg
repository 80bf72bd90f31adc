SPECIFICATION FairSpec
CONSTANTS
    NStreams = 2
    Size <- MCSize
    Xfer = 2
    Payload = 2
    BufCap = 1
    MaxResets = 1
INVARIANTS StreamIntact AckedOnce SocketsSound SuccessMeansReceived
PROPERTIES StreamEnds
CHECK_DEADLOCK FALSE
