CONSTANTS
    Runs = {r1, r2}
    NoRun = NoRun
    MaxEvents = 1
SPECIFICATION Spec
CHECK_DEADLOCK FALSE
INVARIANTS
    SkipIsExclusive
    NoRunForgotten
PROPERTIES
    FinalStatusKept
    RunsEnd
    TaskIsFreed
