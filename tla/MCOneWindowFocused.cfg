CONSTANTS
    Windows = {w1, w2}
    None = None
SPECIFICATION Spec
INVARIANTS
    OneWindowFocused
CHECK_DEADLOCK FALSE
