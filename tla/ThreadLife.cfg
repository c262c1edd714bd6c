SPECIFICATION Spec
CONSTANTS
    Threads = {t0, t1, t2}
    MainThread = t0
    None = None
    OrderNr = 3
INVARIANTS
     NoUseAfterFree TaskEndsLast
PROPERTIES
    JoinValue JoinReturns Reclaimed
CHECK_DEADLOCK FALSE
