SPECIFICATION FairSpec
CONSTANTS
    NumTransfers = 2
    NewOrders = {"n1"}
    CassoOrders = {"c1"}
    PartPaid = {"c1"}
    Expected = 2
    Before = 1
    Retail = 3
    OldRate = 2
    MaxMicros = 8
    Amounts <- MCAmounts
    Workers = {w1, w2}
    MaxFailures = 1
INVARIANTS LedgerMatchesEvents OrdersMatchMoney
PROPERTIES TransfersArrive
CHECK_DEADLOCK FALSE
