\* A player of two playbacks, a recorder of three sessions, a calendar of two sessions,
\* one of two threads, settings of two keys, an index of three files, and an area of
\* four properties.
SPECIFICATION Spec
CONSTANTS
    MaxPlays = 2
    MaxRounds = 2
    NoChild = NoChild
    MaxRecordings = 3
    arod = arod
    other_arod = other_arod
    Sessions = {arod, other_arod}
    Threads <- MCThreads
    MaxOperations = 2
    MaxReminders = 1
    Reminded = {3}
    Spans <- MCSpans
    MaxLoads = 3
    Missing = Missing
    Torn = Torn
    Keys = {alarm_alert, app_key}
    DefaultKeys = {alarm_alert}
    Values = {beep, orion}
    DefaultValue = beep
    Clients = {c1, c2}
    NoValue = NoValue
    HalfFile = HalfFile
    MaxBoots = 2
    Directories = {1, 2, 3, 4, 5}
    Files = {1, 2, 3}
    Parent <- MCParent
    bucket_of <- MCBucketOf
    Placements <- MCPlacements
    RootSets <- MCRootSets
    Sounds = 1
    MAX_VISUAL_ITEMS = 4
    MAX_WALK_DEPTH = 1
    MaxChosen = 2
    Unset = Unset
    Lines <- MCLines
    ArenaSize = 560
    MaxLines = 4
INVARIANTS
    TypeOK
    RecordingsEndWell
    CalendarKnowsItsEvents
    PutSettingsStay
    IndexKnowsItsFiles
    PropertiesAreFound
    StopsAreFinal
PROPERTY
    StoppedPlayersFallSilent
CHECK_DEADLOCK FALSE
