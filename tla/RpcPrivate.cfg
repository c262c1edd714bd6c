SPECIFICATION Spec
CONSTANTS
    m1 = m1  m2 = m2  m3 = m3  t1 = t1  t2 = t2  t3 = t3  c1 = c1  c2 = c2
    Msgs = {m1, m2}
    Repeated = {}
    Blocking = {m1, m2}
    Cpus = {c1}
    Threads = {t1, t2}
    CpuOf <- CpuOfPrivate
    First <- FirstPrivate
    SlotNr = 2
    RemoteWake = {m1}
    UintNr = 3
    None = None
INVARIANT ExactlyOnce
PROPERTY EveryCallAnswered
CHECK_DEADLOCK FALSE
