SPECIFICATION Spec
CONSTANTS
    a = a
    b = b
    x = x
    m1 = m1
    m2 = m2
    Chats = {a, b, x}
    Mine = {a, b}
    Msgs = {m1, m2}
    ChatOf <- MCChatOf
    Own = {m2}
    MaxChatsPerJoin = 2
    MaxSelections = 2
    MaxTrouble = 1
CHECK_DEADLOCK FALSE
INVARIANT OnlyParticipants
INVARIANT SubscribedAsBelieved
INVARIANT NeverShownTwice
INVARIANT ShownIsKept
