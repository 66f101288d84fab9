SPECIFICATION LimiterSpec
CONSTANTS
    Address = {a1}
    PerAddress = 2
    PerWidget = 3
    Minute = 4
    Hour = 3
    Caps = {2}
    MaxTime = 6
INVARIANT HardCeiling
CHECK_DEADLOCK FALSE
