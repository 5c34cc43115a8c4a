\* The file and its replay against the queue, with writes that fail half-way.
CONSTANTS
    i1 = i1
    i2 = i2
    i3 = i3
    Ids = {i1, i2, i3}
    Targets = {r1}
    NoTarget = NoTarget
    Lists <- IdLists
SPECIFICATION Spec
CHECK_DEADLOCK FALSE
PROPERTIES
    ImplementsQueue
    OrderKept
