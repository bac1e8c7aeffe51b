CONSTANTS
    media = media
    audio = audio
    app = app
    documents = documents
    provider = provider
    sound = sound
    b1 = b1
    Names <- MCNames
    Procs <- MCProcs
    Binders <- MCBinders
    Callbacks = {}
    HomeOf <- MCHomeOf
    Absent = Absent
    Retired = Retired
    Workers <- MCWorkers
    Apps <- MCApps
    StartOrder <- MCStartOrder
    NamesOf <- MCNamesOf
    Resolved = {media}
SPECIFICATION FairSpec
INVARIANTS
    TypeOK
    WithdrawnStayOut
    ReservedNamesExclusive
    WorkersAreAccountedFor
PROPERTIES
    LiveServicesStay
    ImplementsRegistry
    SupervisionProgresses
