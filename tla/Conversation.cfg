SPECIFICATION Spec
CONSTANTS
    Tools <- MCTools
    Names <- MCNames
    CodexTurns <- MCCodexTurns
    ClaudeTurns <- MCClaudeTurns
    DeepSeekTurns <- MCDeepSeekTurns
    Asks <- MCAsks
    Changes <- MCChanges
    MaxSends = 3
    MaxSystem = 1
CHECK_DEADLOCK FALSE
INVARIANTS
    AnthropicFaithful
    CallsPaired
    CachedPrefixMatches
    ToolsFollowChanges
