\* Connections: a sender binds, unbinds and closes, twice at a time, while a
\* request of the room or of its agent is dispatched, replayed and resolved.
CONSTANTS
    Sessions = {room, agent}
    AgentKeys = {agent}
    RoomKey = room
    Senders = {s1}
    Requests = {q1}
    Answers = {}
    Cancellers = {}
    Binders = {b1, b2}
    NoKey = NoKey
    NoRequest = NoRequest
    NoSender = NoSender
SPECIFICATION FairSpec
INVARIANTS
    BindingsAreInverse
PROPERTIES
    PromptReachesSenders
