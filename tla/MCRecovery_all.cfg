\* Every command and every menu item but adb, misc on a block device.
SPECIFICATION FairSpec
CONSTANTS
    Commands <- AllCommands
    MenuItems = {"reboot", "wipe_data", "wipe_cache", "ext", "cache"}
    PackageWipes = {TRUE, FALSE}
    AtomicBcb = TRUE
    None = None
INVARIANTS NeverHalfDone WipeHonoured
PROPERTIES SideloadReturns EraseCompletes
