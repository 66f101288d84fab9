SPECIFICATION Spec
CONSTANTS
    Request = {r1, r2, r3}
    blank = blank
    short = short
    long = long
    Text <- MCText
    Chunks <- MCChunks
    Change <- MCPlainChange
    None = None
INVARIANTS
    AnsweredEditsAreIndexed
CHECK_DEADLOCK FALSE
