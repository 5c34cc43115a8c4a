\* One message that is delivered again and again, two requests at a time, an
\* update of the pairing beside other edits, and three failures, hang-ups or stops.
CONSTANTS
    Messages = {m1}
    Calls = {c1, c2}
    Edits = {e1}
    Nothing = Nothing
    MaxEvents = 3
SPECIFICATION FairSpec
CHECK_DEADLOCK FALSE
INVARIANTS
    HandledOnce
    AnsweredIsHandled
    VerdictKept
PROPERTIES
    MessagesAreAnswered
