SPECIFICATION Spec
CONSTANTS
    i1 = i1
    i2 = i2
    Warehouses = {w1}
    Items = {i1, i2}
    Sources = {o1}
    Orders = {o1}
    Branches = {b1, b2}
    OpKeys = {k1, k2, k3}
    MaxQty = 1
    NoRow = NoRow
    Quotations = {q1}
    Clients = {c1, c2}
    LineChoices <- MCLines
    MaxVersion = 4
SYMMETRY Symmetric
INVARIANT NumbersCollisionSafe
