CONSTANTS
    Messages = {m1}
    Items = {i1}
    Dispatchers = {d1, d2}
    Choices = {"queue", "guide", "interrupt", "stop"}
    MaxWake = 1
    NoInput = NoInput
SPECIFICATION Spec
SYMMETRY DispatcherSymmetry
INVARIANTS
    EachItemOnce
    RegisteredRoundEnds
    SomebodyLooks
