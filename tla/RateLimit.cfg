SPECIFICATION SpanSpec
CONSTANTS
    r1 = r1
    r2 = r2
    r3 = r3
    i1 = i1
    i2 = i2
    InFlight = {r1, r2, r3}
    Instances = {i1, i2}
    Limiters <- MCOneLimiter
    Window <- MCWindow
    Limit <- MCLimit
    FaultBudget = 1
    Watched = "global"
 
PROPERTY NeverLimitedForGood
