CONSTANTS
    a = a
    b = b
    Agents = {a}
    Messages = {m1, m2}
    Items = {i1, i2}
    Dispatchers = {d1}
    Rounds = {r1, r2}
    Audiences <- ToFirst
    Targets <- ToFirst
    Choices = {"queue"}
    Policies = {"queue"}
    MaxHops = 1
    MaxMentions = 0
    MaxTyped = 0
    MaxFailures = 0
    MaxWake = 1
    Nothing = Nothing
SPECIFICATION FairSpec
CHECK_DEADLOCK FALSE
PROPERTIES
    QueuedIsHandled
