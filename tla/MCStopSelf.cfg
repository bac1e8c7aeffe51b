CONSTANTS
    c1 = c1
    c2 = c2
    k1 = k1
    k2 = k2
    s1 = s1
    t1 = t1
    t2 = t2
    Connections = {c1, c2}
    Keys = {}
    Classes = {s1}
    Clients = {t1, t2}
    MaxSeq = 0
    MaxLocal = 1
    MaxBinds = 2
    Absent = Absent
SPECIFICATION Spec
INVARIANT BoundServicesStayAlive
CHECK_DEADLOCK FALSE
