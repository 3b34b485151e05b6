SPECIFICATION Spec
CONSTANTS
    u1 = u1
    u2 = u2
    Pos = {p1}
    Users = {u1, u2}
    Definitions <- MCDefinitions
    NoDefinition = NoDefinition
    NoRow = NoRow
    Clients = {c1, c2}
    MaxVersion = 6
SYMMETRY Symmetric
PROPERTY RejectionEndsInstance
