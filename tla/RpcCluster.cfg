SPECIFICATION Spec
CONSTANTS
    m1 = m1  m2 = m2  m3 = m3  t1 = t1  t2 = t2  t3 = t3  c1 = c1  c2 = c2
    Msgs = {m1, m2}
    Repeated = {m1, m2}
    Blocking = {}
    Cpus = {c1, c2}
    Threads = {t1, t2}
    CpuOf <- CpuOfTwo
    First <- FirstTwo
    SlotNr = 2
    RemoteWake = {}
    UintNr = 8
    None = None
INVARIANTS OneConsumer ExactlyOnce NoneStranded
PROPERTY EveryCallAnswered
