CONSTANTS
    a = a
    b = b
    r1 = r1
    r2 = r2
    p = p
    q = q
    Sessions = {a, b}
    Ending = {a}
    Requests = {r1, r2}
    Packages = {p}
    SessionOf <- TwoSessions
    PackageOf <- OnePackage
    Absent = Absent
SPECIFICATION Spec
INVARIANTS
    OneInstallation
CHECK_DEADLOCK FALSE
