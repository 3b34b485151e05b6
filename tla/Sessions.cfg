SPECIFICATION Spec
CONSTANTS
    r1 = r1
    r2 = r2
    s1 = s1
    s2 = s2
    Requests = {r1, r2}
    Tenants = {t}
    Platform = {p}
    Challenges = {ch}
    SessionIds = {s1, s2}
    Direct = Direct
    Nobody = Nobody
    MaxFailed = 2
    MaxVersion = 2
    MaxSecond = 1
SYMMETRY Interchangeable
INVARIANTS ChallengeYieldsOneSession ReplayEndsSession FailuresCounted
PROPERTIES EndIsFinal
CHECK_DEADLOCK FALSE
