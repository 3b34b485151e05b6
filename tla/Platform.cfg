CONSTANTS
    Requests = {r1, r2}
    Identities = {i1, i2}
    Members = {m1, m2, m3}
    Owner = owner
    Roles = {editor}
    Keys <- MCKeys
    KeySets <- MCKeySets
    RoleSets <- MCRoleSets
    Tenants = {t1, t2}
    Slugs = {s1}
    Modules = {core, crm}
    CoreModules = {core}
    MaxRequests = 5
    None = None
SPECIFICATION PlatformSpec
SYMMETRY Symmetry
INVARIANTS
    GivenByOneRequest
    TenantsWhole
    HeldOnce
CHECK_DEADLOCK FALSE
