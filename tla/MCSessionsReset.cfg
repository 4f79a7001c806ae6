SPECIFICATION CoreSpec
CONSTANTS
    SignIns = {q1, q2, q3}
    Links = {l1, l2}
    Passwords = {p1, p2}
    LoginMax = 2
    MaxFaults = 1
    Callers = {r1}
    Jobs = {"exec"}
    Args <- MCArgs
    Conns = {1}
    MaxOpen = 1
    SSLMode = "require"
    Greetings <- MCGreetings
    MaxCuts = 0
    NumRequests = 1
    Amounts <- MCAmounts
    TopUps <- MCTopUps
    TrialMicros = 2
    BonusMicros = 1
    EarlierGrant = "trial"
    MaxCredited = 1
    NewPrice = 400
    OldPrice = 75
INVARIANTS OldPasswordKeepsNoSession
CHECK_DEADLOCK FALSE
