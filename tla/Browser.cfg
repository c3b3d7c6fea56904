SPECIFICATION Spec
CONSTANTS
    t1 = t1
    t2 = t2
    u1 = u1
    u2 = u2
    None = None
    Tabs = {t1, t2}
    Accounts = {u1, u2}
    MaxVersion = 1
    MaxRequests = 2
    MaxTrouble = 1
SYMMETRY Interchangeable
CHECK_DEADLOCK FALSE
INVARIANT ShownAsStored
INVARIANT SignedOutStays
PROPERTY AcceptedTokenKept
