CONSTANTS
    c1 = c1
    c2 = c2
    k1 = k1
    k2 = k2
    s1 = s1
    t1 = t1
    t2 = t2
    Connections = {c1, c2}
    Keys = {k1, k2}
    Classes = {s1}
    Clients = {t1}
    MaxSeq = 2
    MaxLocal = 1
    MaxBinds = 2
    Absent = Absent
SYMMETRY Renaming
SPECIFICATION Spec
INVARIANTS
    TypeOK
    ProcessesFollowTheirBinds
    ServicesLiveOnce
CHECK_DEADLOCK FALSE
