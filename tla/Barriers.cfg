SPECIFICATION BarriersSpec
CONSTANTS
    Cpus = {c1, c2, c3, c4}
    Threads = {t1, t2, t3, t4}
    None = None
INVARIANTS
    TypesOK 
PROPERTIES
    McsImplementsBarrier
    
