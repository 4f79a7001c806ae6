SPECIFICATION Spec
CONSTANTS
    Handlers = {h1}
    Kinds = {"edit", "quota", "revoke", "suspend"}
    Named = TRUE
    Concurrent = TRUE
    MaxRequests = 3
    MaxLate = 1
    MaxFailures = 0
INVARIANTS RowWaitsForRemoval
CHECK_DEADLOCK FALSE
