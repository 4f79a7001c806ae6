SPECIFICATION CoreSpec
CONSTANTS
    SignIns = {q1, q2, q3}
    Links = {l1, l2}
    Passwords = {p1, p2}
    LoginMax = 2
    MaxFaults = 1
    Callers = {r1, r2}
    Jobs = {"exec", "query", "tx", "copy"}
    Args <- MCArgs
    Conns = {1, 2}
    MaxOpen = 1
    SSLMode = "require"
    Greetings <- MCGreetings
    MaxCuts = 1
    NumRequests = 2
    Amounts <- MCAmounts
    TopUps <- MCTopUps
    TrialMicros = 2
    BonusMicros = 1
    EarlierGrant = "trial"
    MaxCredited = 3
    NewPrice = 400
    OldPrice = 75
INVARIANTS
    CoreTypeOK
    LinksAreSingleUse
    AnswerIsItsOwn
    EffectsAsReported
    HeldIsSumOfOpenHolds
    BooksBalance
    HoldsSettleButForAMicro
CHECK_DEADLOCK FALSE
