SPECIFICATION Spec
CONSTANTS
    c1 = c1
    c2 = c2
    m1 = m1
    m2 = m2
    None = None
    Chats = {c1, c2}
    Messages = {m1, m2}
    MaxOpens = 2
SYMMETRY Interchangeable
CHECK_DEADLOCK FALSE
INVARIANT ReadOnce
INVARIANT OpenIsRead
INVARIANT BadgeCoversUnread
