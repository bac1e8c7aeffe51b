CONSTANTS
    c1 = c1
    c2 = c2
    k1 = k1
    k2 = k2
    s1 = s1
    t1 = t1
    t2 = t2
    Connections = {c1, c2}
    Keys = {k1, k2}
    Classes = {}
    Clients = {}
    MaxSeq = 2
    MaxLocal = 0
    MaxBinds = 2
    Absent = Absent
SPECIFICATION Spec
INVARIANT FinalUnbindStopsTheProcess
CHECK_DEADLOCK FALSE
