CONSTANTS
    a = a
    b = b
    Agents = {a}
    Messages = {m1}
    Items = {i1}
    Dispatchers = {d1, d2}
    Rounds = {r1, r2}
    Audiences <- ToFirst
    Targets <- ToFirst
    Choices = {"queue", "interrupt", "stop"}
    Policies = {"queue"}
    MaxHops = 1
    MaxMentions = 0
    MaxTyped = 1
    MaxFailures = 0
    MaxWake = 1
    Nothing = Nothing
SPECIFICATION FairSpec
CHECK_DEADLOCK FALSE
INVARIANTS
    RoundsAreFound
PROPERTIES
    QueueServed
    InterruptsEnd
