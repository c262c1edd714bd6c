SPECIFICATION Spec
CONSTANTS
    e1 = e1  e2 = e2  e3 = e3  e4 = e4
    Events = {e1, e2, e3, e4}
    PrioNr = 3
    PrioOf <- MCPrioOf
    Manager = manager
    Threads = {manager, syscall}
    None = None
INVARIANTS TypeOK NoneStranded
PROPERTIES UrgentFirst EveryEventDelivered
CHECK_DEADLOCK FALSE
