\* Finalizers: a request with its context and timer, raced by two answers
\* and a cancellation of its session.  No connection is bound.
CONSTANTS
    Sessions = {room, agent}
    AgentKeys = {agent}
    RoomKey = room
    Senders = {}
    Requests = {q1}
    Answers = {a1, a2}
    Cancellers = {c1}
    Binders = {}
    NoKey = NoKey
    NoRequest = NoRequest
    NoSender = NoSender
SPECIFICATION FairSpec
INVARIANTS
    PendingUntilResolved
    ExpiredMeansDenied
PROPERTIES
    ResolvedOnce
    RequestReturns
