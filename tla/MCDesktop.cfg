\* Two queues of a buffer each, two windows, a display event connection, an activity
\* with a dialog; a task of three launches; a sender with three alarms.
CONSTANTS
    q1 = q1
    q2 = q2
    b1 = b1
    b2 = b2
    w1 = w1
    w2 = w2
    t1 = t1
    t2 = t2
    activity = activity
    dialog = dialog
    home = home
    view_ = view_
    alias = alias
    unknown = unknown
    orion = orion
    Queues = {q1, q2}
    Buffers = {b1, b2}
    QueueOf <- MCQueueOf
    NumBuffers = 2
    MaxFrames = 3
    MaxPools = 2
    Nil = Nil
    Windows = {w1, w2}
    TagOf <- MCTagOf
    Alike <- MCAlike
    Looks <- MCLooks
    MaxPosts = 2
    Absent = Absent
    Capacity = 1
    MaxRequests = 3
    AppWindows = {activity, dialog}
    Dialogs = {dialog}
    MaxResizes = 1
    Names = {home, view_, alias, unknown}
    Declared = {home, view_, alias}
    target_activity <- MCTarget
    Main = home
    Manifest <- MCManifest
    Admits <- MCAdmits
    Intents <- MCIntents
    LaunchUrl <- NoData
    Requested = Nobody
    Nobody = Nobody
    MaxLaunches = 3
    MaxChoosers = 1
    PendingTypes = {1, 2, 4}
    MaxSenders = 1
    Callers = {t1, t2}
    MaxAlarms = 3
SPECIFICATION Spec
INVARIANTS
    TypeOK
    RequestsAreAnswered
    EveryWindowIsTold
    NobodyRunsTwice
    AlarmsAndIntentsKeepTheirWord
PROPERTIES
    BuffersAreOwned
    DesktopProgresses
CHECK_DEADLOCK FALSE
