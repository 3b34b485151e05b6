CONSTANTS
    p1 = p1
    p2 = p2
    n1 = n1
    e1 = e1
    Processes = {p1, p2}
    Newest = 5
    Oldest = 4
    Checked = {1, 2, 3}
    Exact = {3}
    Creating = {1, 3}
    SelfCommitting = {4}
    Loosening = {5}
    Tasks = {"provision", "secure", "reference", "seed", "bootstrap", "recover"}
    Usernames = {n1, n2}
    Emails = {e1}
    Users = {u1}
    MaxRuns = 2
    MaxDismissals = 1
    Nobody = Nobody
SPECIFICATION InstanceSpec
INVARIANTS
    RecordedIsThere
    ReadyWhenDone
    AdministratorsMadeOnce
PROPERTIES
    NeverBehindALaterOne
    CommandsEnd
CHECK_DEADLOCK FALSE
