SPECIFICATION FairSpec
CONSTANTS
    a = a
    b = b
    NoAlias = NoAlias
    Alias <- MCAlias
    MaxAttemptsCap = 3
    Errors <- MCErrors
    OnStatusChoices <- MCOnStatusChoices
INVARIANTS
    FailureBlamesPrimary
PROPERTIES
    RetryOnlyAfterRetryable
    Settles
    ImplementsVerdict
CHECK_DEADLOCK FALSE
