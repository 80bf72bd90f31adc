\* The device is opened twice, three packets come from the host.
SPECIFICATION FairSpec
CONSTANTS
    MaxT = 2
    MaxPkts = 3
    SockCap = 2
INVARIANTS OwnDevice FreedUnused NoSocketLeft
PROPERTIES Reconnects
CHECK_DEADLOCK FALSE
