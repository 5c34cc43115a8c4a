\* Two rounds of a session that has a connected client, and a close of it.
CONSTANTS
    Rounds = {r1, r2, r3}
    Closers = {x1}
    Sends = {s1}
    Capacity = 1
    MaxEvents = 1
    First = r1
    Nothing = Nothing
SPECIFICATION FairSpec
CHECK_DEADLOCK FALSE
INVARIANTS
    ResultsAreOwn
    SessionsAreReachable
    PumpsAreWoken
PROPERTIES
    RoundsEndWithStream
