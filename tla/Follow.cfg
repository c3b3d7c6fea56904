SPECIFICATION Spec
CONSTANTS
    u1 = u1
    u2 = u2
    t1 = t1
    t2 = t2
    t3 = t3
    r1 = r1
    r2 = r2
    Users = {u1, u2}
    Tabs = {t1, t2, t3}
    Owner <- MCOwner
    Requests = {r1, r2}
    MaxTrouble = 1
SYMMETRY MCSymmetry
INVARIANT CountsFollowLists
INVARIANT FollowIsMutual
INVARIANT PageAsReloaded
