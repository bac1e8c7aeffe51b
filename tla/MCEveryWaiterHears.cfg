CONSTANTS
    server = server
    client = client
    c1 = c1
    c2 = c2
    Names = {n1}
    Keepers = {server}
    Procs <- MCProcs
    Binders = {b1, b2}
    Callbacks <- MCCallbacks
    HomeOf <- MCHomeOf
    Absent = Absent
    Retired = Retired
    MaxWaiters = 2
SPECIFICATION FairSpec
PROPERTY EveryWaiterHears
CHECK_DEADLOCK FALSE
