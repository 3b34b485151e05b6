CONSTANTS
    Roles = {clerk, lead}
    Codes = {member, manager}
    Permissions = {orderCreate}
    WorkPermission = orderCreate
    Branches = {pune}
    OpenYears = {pune}
    Works = {w1}
    Admins = {a1}
    None = None
SYMMETRY Interchangeable
SPECIFICATION AccessSpec
INVARIANTS
    RevocationHolds
