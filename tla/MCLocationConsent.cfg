CONSTANTS
    a = a
    b = b
    r1 = r1
    r2 = r2
    p = p
    q = q
    Sessions = {a}
    Ending = {a}
    Requests = {r1, r2}
    Packages = {p}
    SessionOf <- OneSession
    PackageOf <- OnePackage
    Absent = Absent
SPECIFICATION FairSpec
INVARIANTS
    TypeOK
    AnswersKeepToTheirRequest
PROPERTIES
    ConsentRules
    EverythingEnds
CHECK_DEADLOCK FALSE
