\* One run, two goroutines of batches, two requests of administrators, and two
\* failed operations or stops.
CONSTANTS
    Runs = {r1}
    Batches = {b1, b2}
    Requests = {q1, q2}
    Nothing = Nothing
    MaxAttempts = 3
    Backoffs = 2
    MaxEvents = 2
SPECIFICATION FairSpec
CHECK_DEADLOCK FALSE
INVARIANTS
    DeliveredOnce
    DeadOrDue
PROPERTIES
    DeliveredStays
    FailedDeliveriesEnd
