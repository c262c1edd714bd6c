SPECIFICATION CSpec
CONSTANTS
    Producers = {p1, p2}
    Consumers = {c1, c2}
    Others = {o1}
    Threads = {p1, p2, c1, c2, o1}
    None = None
    Value = 1
    MaxExtra = 0
    InitOwners = {None}

     
PROPERTIES
    EveryoneLeaves
