\* A partition patched in place, and a file made from a partition.
SPECIFICATION Spec
CONSTANTS
    NJobs = 2
    Path = {"p", "q", "r"}
    Partition = {"p", "q"}
    Content <- MCContent
    Absent = "absent"
    Garbage = "garbage"
    Src <- InPlaceSrc
    Tgt <- MovedTgt
    Sources <- MCSources
    New <- MCNew
    Checks <- FullChecks
    Unchecked = {1}
    Size <- MCSize
    MaxSize = 2
    CacheSize = 4
    Bloat = 1
    Leftover = {0, 1, 2}
INVARIANTS SuccessMeansPatched PartitionBackedUp
