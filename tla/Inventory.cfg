SPECIFICATION Spec
CONSTANTS
    Warehouses = {w1}
    Items = {i1}
    Sources = {o1, o2}
    Branches = {b1, b2}
    OpKeys = {k1, k2, k3}
    MaxQty = 2
    NoRow = NoRow
SYMMETRY Symmetric
INVARIANTS TypeOK CountersMatchLedger NeverOversold OneIssuePerReservation
PROPERTY ImplementsLedger
