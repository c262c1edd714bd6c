SPECIFICATION Spec
CONSTANTS
    Threads = {t0, t1}
    MainThread = t0
    None = None
    OrderNr = 2
PROPERTY NoJoinerFound
CHECK_DEADLOCK FALSE
