SPECIFICATION MCSpec
CONSTANTS
    Script = {s1, s2}
    Turn = {1, 2, 3}
    Budgets <- SmallBudgets
    MaxMessages = 2
    Address = {a1, a2}
    PerAddress = 2
    PerWidget = 3
    Minute = 4
    Hour = 3
    Caps = {1, 2}
    MaxTime = 6
INVARIANTS
    TypeOK
    OneFrame
    ConversationInStep
    MemoryIsTidy
    LimitsHold
PROPERTIES
    MemoryServesTheTurn
    WaitsEnd
CHECK_DEADLOCK FALSE
