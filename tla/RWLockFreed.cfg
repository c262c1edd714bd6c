SPECIFICATION Safety
CONSTANTS
    Threads = {t1, t2, t3}
    Users = {t1, t2, t3}
INVARIANT KeptUntilDestroyed
CHECK_DEADLOCK FALSE
