\* Any three presses of the three keys of the device.
SPECIFICATION FairSpec
CONSTANTS
    Keys = {"power", "volup", "voldown"}
    QueueMax = 2
    Presses = 2
    NItems = 3
    MaxDowns = 3
    NoKey = "none"
INVARIANTS LongPressExact NoLostWakeup PowerReboots OneOldKey
PROPERTIES KeysConsumed
CHECK_DEADLOCK FALSE
