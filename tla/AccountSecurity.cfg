CONSTANTS
    Tasks = {r1, r2}
    BatchCodes = {c1, c2}
    MaxSecret = 2
    MaxLink = 3
    MaxRequests = 4
SPECIFICATION AccountSpec
SYMMETRY Symmetry
INVARIANTS
    ProvedBeforeEnabled
    CodesBelong
    LaterLinkReplaces
CHECK_DEADLOCK FALSE
