\* Two connections and two services with a process each; two processes that publish,
\* withdraw and wait for one name; a host whose network changes three times.
CONSTANTS
    c1 = c1
    c2 = c2
    k1 = k1
    k2 = k2
    Connections = {c1, c2}
    Keys = {k1, k2}
    Classes = {}
    Clients = {}
    MaxSeq = 2
    MaxLocal = 0
    MaxBinds = 2
    Absent = Absent
    server = server
    client = client
    w1 = w1
    w2 = w2
    Names = {n1}
    Keepers = {}
    Procs <- MCProcs
    Binders = {b1}
    Callbacks <- MCCallbacks
    HomeOf <- MCHomeOf
    Retired = Retired
    MaxWaiters = 2
    Meterings = {0, 1}
    NetworkTypes = {"802-11-wireless", "vpn"}
    MaxHostChanges = 2
SPECIFICATION LiveSpec
PROPERTIES
    BindsAndStopsComplete
    WaitersAreTold
    AnswersFollowTheHost
CHECK_DEADLOCK FALSE
