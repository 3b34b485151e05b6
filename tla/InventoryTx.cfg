SPECIFICATION Spec
CONSTANTS
    w1 = w1
    i1 = i1
    i2 = i2
    o1 = o1
    o2 = o2
    b1 = b1
    b2 = b2
    k1 = k1
    k2 = k2
    k3 = k3
    Warehouses = {w1}
    Items = {i1, i2}
    Sources = {o1, o2}
    Branches = {b1, b2}
    OpKeys = {k1, k2, k3}
    MaxQty = 1
    NoRow = NoRow
    Clients = {c1, c2}
    Requests <- MCRequests
    Nobody = Nobody
INVARIANT CommittedCountersMatchLedger
PROPERTIES ImplementsLedger RequestsAnswered
