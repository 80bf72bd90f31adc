SPECIFICATION Spec
CONSTANTS
    Files = {"a", "b", "l"}
    Old = {"a", "b"}
    Package = {"a"}
    Entries = {"a", "patch", "boot.img"}
    Scripts <- MCScripts
    PipeCap = 2
    MaxFaults = 1
    Full = 4
    Parts = 3
    Width = 5
    Verification = 1
    MaxStarts = 2
INVARIANT DirExtracted
