SPECIFICATION BillingSpec
CONSTANTS
    NumRequests = 2
    Amounts <- MCAmounts
    TopUps <- MCTopUps
    TrialMicros = 1
    BonusMicros = 0
    EarlierGrant = "trial"
    MaxCredited = 2
    Quote <- MCQuoteOne
    ReserveAttempts = 2
    UsageAttempts = 2
    QueueSize = 1
    Workers = 1
INVARIANTS ProcessTypeOK OnlyServedIsCharged ServedUnderHold AnsweredLeavesNoHold AcknowledgedIsPaid
CHECK_DEADLOCK FALSE
