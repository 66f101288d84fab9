SPECIFICATION Spec
CONSTANTS
    MAX_AGENT_ITERATIONS = 3
    MAX_AGENT_TOKENS_PER_TURN = 3
    MaxToolCalls = 2
    TokenUsage <- MCTokenUsage
    WordCounts <- MCWordCounts
INVARIANT CapturedClaimIsTrue
CHECK_DEADLOCK FALSE
