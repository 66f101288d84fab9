SPECIFICATION MCSpec
CONSTANTS
    MAX_AGENT_ITERATIONS = 3
    MAX_AGENT_TOKENS_PER_TURN = 3
    MaxToolCalls = 2
    TokenUsage <- MCTokenUsage
    WordCounts <- MCWordCounts
    Runner = {r1, r2}
    Goals = {0, 4, 6}
    MaxRows = 1
INVARIANTS
    TypeOK
    OneExitAudit
    RevisionTellsSchema
    SchemaFitsTheApp
    CommandsGoThrough
PROPERTIES
    NoCallPastACap
    LoopLeadClaimIsTrue
    UncertainNeverWrites
    ContractSpec
    Termination
    UpgradesKeepRows
CHECK_DEADLOCK FALSE
