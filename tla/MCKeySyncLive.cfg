SPECIFICATION FairSpec
CONSTANTS
    Handlers = {h1}
    Kinds = {"edit", "revoke", "suspend"}
    Named = TRUE
    Concurrent = FALSE
    MaxRequests = 6
    MaxLate = 1
    MaxFailures = 2
INVARIANTS SyncedMatches
PROPERTIES ChangesSettle
CHECK_DEADLOCK FALSE
