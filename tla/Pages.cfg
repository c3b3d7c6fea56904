SPECIFICATION PagesSpec
CONSTANTS
    noText = noText
    hopeText = hopeText
    c1 = c1
    c2 = c2
    author = author
    i1 = i1
    i2 = i2
    u1 = u1
    u2 = u2
    u3 = u3
    p1 = p1
    p2 = p2
    p3 = p3
    k1 = k1
    k2 = k2
    k3 = k3
    k4 = k4
    a1 = a1
    a2 = a2
    f1 = f1
    f2 = f2
    Searches = {noText, hopeText}
    NoSearch = noText
    AllStories = all
    Filters = {all, health}
    PagesOf <- MCPagesOf
    MaxFetches = 5
    NotAsked = NotAsked
    Cards = {c1, c2}
    AuthorOf <- MCAuthorOf
    Orders = {recent, popular}
    Following = Following
    MaxAsked = 4
    Ids = {i1, i2}
    MaxVisits = 3
    MaxClicks = 3
    NoStory = NoStory
    MaxTexts = 4
    MaxSaves = 3
    MaxPrompts = 1
    MaxOpenings = 2
    Users = {u1, u2, u3}
    Me = u1
    Posts = {p1, p2, p3}
    Texts = {hopeText}
    MaxTyping = 3
    NoText = noText
    None = None
    Keys = {k1, k2, k3, k4}
    MaxPerWindow = 2
    MapCap = 1
    SweepInterval = 2
    MaxTicks = 4
    Profiles = {a1, a2}
    ListOf <- MCListOf
    MaxLists = 3
    MaxFollows = 3
    MaxLoads = 3
    MaxCount = 1
    MaxTimers = 1
CHECK_DEADLOCK FALSE
INVARIANT PageInRange
INVARIANT HomeAsServer
INVARIANT StoryAsServer
INVARIANT SavedOnce
INVARIANT KeptUntilSaved
INVARIANT OneChatPerPair
INVARIANT FewPerWindow
INVARIANT PeopleAsServer
INVARIANT DashboardAsServer
