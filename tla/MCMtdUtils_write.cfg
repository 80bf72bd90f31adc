\* Every client, any set of bad blocks, enough errors to give up a block and make
\* another retry, and a power cut.
SPECIFICATION Spec
CONSTANTS
    NBlocks = 3
    EraseSize = 2
    HeaderSize = 1
    BufSize = 3
    Images <- MCImages
    Clients = {"partition", "bcb", "format", "raw", "flash"}
    MaxFaults = 3
    MaxCuts = 1
INVARIANTS SuccessMeansWritten FailsOnlyForCause HeaderLast
CHECK_DEADLOCK FALSE
