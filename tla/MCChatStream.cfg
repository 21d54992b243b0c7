SPECIFICATION MCSpec
CONSTANTS
    a = a
    b = b
    NoAlias = NoAlias
    Alias <- MCAlias
    MaxAttemptsCap = 2
    MaxChunks = 2
    Errors <- MCErrors
    OnStatusChoices <- MCOnStatusChoices
INVARIANTS
    StreamShape
    CachedIsWinnersText
    AfterDoneOnlyAbandoned
    CooldownEarned
PROPERTIES
    StreamCloses
    SilentAfterEnd
CHECK_DEADLOCK FALSE
