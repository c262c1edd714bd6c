SPECIFICATION LockSpec
CONSTANTS
    Lockers = {m1, m2, m3}
    W = 4
    Writers = {w1, w2}
    Readers = {r1}
    Sign = 8
    Threads = {t1, t2, t3, u1, u2, u3}
    Users = {u1, u2, u3}
    Holders = {s1, s2, s3, s4}
    None = None
    Value = 2
    MaxExtra = 1
INVARIANTS
    TypesOK
    MutualExclusion
    
    Exclusion NoneForgotten
    SemPermits
PROPERTIES
    Fifo Served
    Progress
    WriterPriority 
    SemServed
CHECK_DEADLOCK FALSE
