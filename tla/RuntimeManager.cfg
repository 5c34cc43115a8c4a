\* Two rounds of one session, an interrupt, two closes, one guidance input.
CONSTANTS
    Rounds = {r1, r2}
    Interrupters = {i1}
    Closers = {c1, c2}
    Inputs = {g1}
    Reasons = {newMessage}
    NoReason = NoReason
SPECIFICATION FairSpec
CHECK_DEADLOCK FALSE
INVARIANTS
    RegisteredUntilFinished
    WaitersHaveACloser
    GuidanceNeverOutlivesRounds
PROPERTIES
    ImplementsRegistry
    InterruptReturns
    CloseEndsRounds
