SPECIFICATION Spec
CONSTANTS
    a1 = a1  a2 = a2  r1 = r1  r2 = r2
    c1 = c1  c2 = c2  l1 = l1  l2 = l2  i1 = i1  i2 = i2  d1 = d1
    Accounts = {a1, a2}
    PoolRequests = {r1, r2}
    Rank <- MCRank
    ErrorLimit = 2
    MaxTries = 2
    MaxVersion = 3
    MaxTasks = 1
    MaxMoves = 2
    MaxMishaps = 1
    Calls = {c1, c2}
    Logins = {l1, l2}
    MaxSessions = 1
    MaxSelections = 1
    MaxTombstones = 1
    Importers = {i1, i2}
    DeviceLogins = {d1}
    MaxTokens = 4
INVARIANTS
    DataplaneTypeOK
    PublishedIsPersisted
PROPERTIES
    CredentialsNeverRegress
    RestedFirst
    AccountsAreWanted
    WorkEnds
CHECK_DEADLOCK FALSE
