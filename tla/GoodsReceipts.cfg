SPECIFICATION Spec
CONSTANTS
    p1 = p1
    p2 = p2
    i1 = i1
    i2 = i2
    k1 = k1
    k2 = k2
    k3 = k3
    b1 = b1
    Warehouses = {w1, w2}
    Items = {i1, i2}
    Sources = {}
    Branches = {b1}
    MaxQty = 2
    NoRow = NoRow
    Pos = {p1, p2}
    ReceiptKeys = {k1, k2, k3}
    Clients = {c1, c2}
    Nobody = Nobody
    OpKeys <- MCOpKeys
    KeysOf <- OwnKeys
    Ordered <- MCOrdered
    BranchOf <- MCBranchOf
    LineChoices <- MCLines
SYMMETRY Symmetric
INVARIANTS NeverOverReceived CompletedMeansPosted
PROPERTY ReceiptLifecycle
