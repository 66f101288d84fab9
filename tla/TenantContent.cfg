SPECIFICATION MCSpec
CONSTANTS
    Request = {r1, r2, r3}
    blank = blank
    short = short
    long = long
    Text <- MCText
    Chunks <- MCChunks
    Change <- MCChange
    None = None
    Manager = {m1, m2}
    Visitor = {v1}
    Admin = {a1}
    MinSize = 3
    Lengths <- MCLengths
    Sizes <- MCSizes
    Overlaps <- MCOverlaps
INVARIANTS
    TypesOK
    IndexIsOneText
    OnlyPublishedServed
    ChunksCover
    RowsAreAccounted
    SettledErasureIsFinal
PROPERTIES
    LoneEditRepairs
    EveryEditEnds
    EveryRequestEnds
CHECK_DEADLOCK FALSE
