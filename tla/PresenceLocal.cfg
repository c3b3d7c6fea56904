SPECIFICATION Spec
CONSTANTS
    c1 = c1
    c2 = c2
    c3 = c3
    c4 = c4
    c5 = c5
    i1 = i1
    i2 = i2
    u1 = u1
    u2 = u2
    Users = {u1, u2}
    Instances = {i1}
    Conns = {c1, c2, c3, c4, c5}
    UserOf <- MCUserOf
    InstOf <- MCInstOf
    MaxPerUser = 3
    Configured = FALSE
    Faults = {}
    FaultBudget = 0
INVARIANT LocalExact
PROPERTY KeepsPromise
