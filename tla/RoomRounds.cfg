CONSTANTS
    a = a
    b = b
    Agents = {a, b}
    Messages = {m1}
    Items = {i1, i2}
    Dispatchers = {d1}
    Rounds = {r1, r2, r3}
    Audiences <- ToFirst
    Targets <- ToBoth
    Choices = {"interrupt", "letter"}
    Policies = {"interrupt"}
    MaxHops = 1
    MaxMentions = 1
    MaxTyped = 1
    MaxFailures = 1
    MaxWake = 1
    Nothing = Nothing
SPECIFICATION Spec
CHECK_DEADLOCK FALSE
INVARIANTS
    WakeChainBounded
    RouteKept
    WakesServedOnce
