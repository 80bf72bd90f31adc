\* Two files patched in place, room for two copies on /cache.
SPECIFICATION FairSpec
CONSTANTS
    NJobs = 2
    Path = {"p", "q"}
    Partition = {}
    Content <- MCContent
    Absent = "absent"
    Garbage = "garbage"
    Src <- InPlaceSrc
    Tgt <- InPlaceTgt
    Sources <- MCSources
    New <- MCNew
    Checks <- FullChecks
    Unchecked = {}
    Size <- MCSize
    MaxSize = 2
    CacheSize = 4
    Bloat = 1
    Leftover = {0, 1, 2}
INVARIANTS Recoverable RestartNeverFails
PROPERTIES PromiseKept EventuallyPatched
