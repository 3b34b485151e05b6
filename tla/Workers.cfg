SPECIFICATION Spec
CONSTANTS
    Rows = {r1, r2}
    Pool = {w1, w2}
    NoOne = NoOne
    r1 = r1
    r2 = r2
    Kinds <- MCKinds
    MaxAttempts = 2
    BatchSize = 2
    MaxCrashes = 1
INVARIANTS NotificationLog ExecutionsAccounted
PROPERTIES SettledStays
CHECK_DEADLOCK FALSE
