SPECIFICATION FairBillingSpec
CONSTANTS
    NumRequests = 1
    Amounts <- MCAmounts
    TopUps <- MCTopUps
    TrialMicros = 1
    BonusMicros = 0
    EarlierGrant = "trial"
    MaxCredited = 2
    Quote <- MCQuoteOne
    ReserveAttempts = 2
    UsageAttempts = 2
    QueueSize = 1
    Workers = 1
PROPERTIES RequestsAndHoldsEnd
CHECK_DEADLOCK FALSE
