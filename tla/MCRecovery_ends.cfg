\* Packages that do not ask for a cache wipe, misc on MTD.
SPECIFICATION FairSpec
CONSTANTS
    Commands <- PlainCommands
    MenuItems <- AllItems
    PackageWipes = {FALSE}
    AtomicBcb = FALSE
    None = None
INVARIANTS NoFalseAlarm
PROPERTIES RecoveryEnds
