SPECIFICATION Spec
CONSTANTS
    c1 = c1
    c2 = c2
    c3 = c3
    c4 = c4
    c5 = c5
    i1 = i1
    i2 = i2
    u1 = u1
    u2 = u2
    Users = {u1}
    Instances = {i1, i2}
    Conns = {c1, c2, c3}
    UserOf <- MCUserOf
    InstOf <- MCInstOf
    MaxPerUser = 3
    Configured = TRUE
    Faults = {"abandon", "outage", "crash", "shutdown", "expiry"}
    FaultBudget = 2
SYMMETRY MCSymmetry
INVARIANT SharedAccounted
INVARIANT KeysExpire
INVARIANT SilentMeansOffline
