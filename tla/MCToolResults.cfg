SPECIFICATION Spec
CONSTANTS
    MaxAttempts = 2
    StreamAttempts = 2
    NumEndpoints = 2
    HoldText = 2
    HoldThought = 2
    Keep = 1
    Chunks <- MCChunks
    ToolEvents <- MCToolEvents
    MaxEvents = 1
    TurnAsks <- MCTurnAsks
    TextPieces = {"x", "t"}
    ReplyAttempts = 2
    Lifetime = 1
    MaxDepth = 1
    MaxTurns = 2
    MaxPieces = 3
    MaxDay = 2
    CacheAccounts = {"a1", "a2"}
    CacheRequests = {"r1", "r2", "r3"}
    Prompts <- MCPrompts
    CacheAttempts = 2
    Pauses = {4}
    MaxMinute = 0
    ClaudeMessages <- MCClaude
    OpenAIMessages <- MCOpenAI
    MaxPayload = 10
    MinRecent = 2
    MaxNarrated = 1
    MaxMessages = 4
    KeyEntries = {"k1"}
    Visitors = {"v1", "v2"}
    Limits <- MCLimits
    RequestTokens = {1, 3}
    WindowLength = 2
    MaxClock = 3
    MaxAdmitted = 1
    MaxUsed = 3
    MaxEdits = 1
INVARIANTS ResultsArePlaced
CHECK_DEADLOCK FALSE
