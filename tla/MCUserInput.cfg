\* Three windows of the app; two keys in two layouts and two windows; two clip
\* listeners; two notifications and two widgets.
CONSTANTS
    Windows = {w1, w2, w3}
    None = None
    key_a = key_a
    key_b = key_b
    latin = latin
    greek = greek
    mail_ = mail_
    chat = chat
    mail_app = mail_app
    chat_app = chat_app
    Scans = {key_a, key_b}
    Layouts = {latin, greek}
    symbol <- MCSymbol
    Repeating = {key_a}
    KeyWindows = {x1, x2}
    Unmapped = 0
    NoKey = NoKey
    ClipThreads = {t1, t2}
    ClipListeners = {l1, l2}
    MaxClips = 2
    NoteKeys = {mail_, chat}
    AppOf <- MCAppOf
    Widgets = {v1, v2}
    SocketLines = 1
    MaxNotes = 2
    MaxCommands = 1
SPECIFICATION UserSpec
SYMMETRY Renaming
INVARIANTS
    TypeOK
    FocusFollowsChannel
    ChannelIsCurrent
    GesturesEnd
    NoKeySticks
    ListenersKnowTheClip
    WidgetsShowTheNotes
CHECK_DEADLOCK FALSE
