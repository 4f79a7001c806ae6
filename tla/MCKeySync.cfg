SPECIFICATION Spec
CONSTANTS
    Handlers = {h1, h2}
    Kinds = {"edit", "quota", "revoke", "suspend"}
    Named = TRUE
    Concurrent = TRUE
    MaxRequests = 3
    MaxLate = 1
    MaxFailures = 2
INVARIANTS KeyTypeOK HandedKeyKept
PROPERTIES RevokedForGood
SYMMETRY Symmetry
CHECK_DEADLOCK FALSE
