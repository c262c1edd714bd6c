SPECIFICATION Spec
CONSTANTS
    KThreads = {k1}
    UThreads = {u1, u2}
    Idle = idle
    Remote = remote
    None = None
    RrQuantum = 2
    IrqWindow = TRUE
INVARIANT WakeupExpected
CHECK_DEADLOCK FALSE
