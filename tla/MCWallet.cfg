SPECIFICATION FairSpec
CONSTANTS
    NumRequests = 2
    Amounts <- MCAmounts
    TopUps <- MCTopUps
    TrialMicros = 2
    BonusMicros = 1
    EarlierGrant = "trial"
    MaxCredited = 6
INVARIANTS GrantsBackPromo ReservedCostSettles
PROPERTIES ImplementsEscrow EveryHoldCloses LapsedCreditLeaves
CHECK_DEADLOCK FALSE
