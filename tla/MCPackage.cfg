SPECIFICATION Spec
CONSTANTS
    Packages <- Files
    Name <- MCName
    ZipDir <- MCZipDir
    Before <- MCBefore
    Under <- MCUnder
    computeHash <- MCcomputeHash
    MaxEntries = 4
INVARIANTS
    ParsedIsVerified FindsFirst ExtractsAll
CHECK_DEADLOCK FALSE
