CONSTANTS
    none = none
    Machines <- SomeMachines
    Bits = 5
    Narrowest = 2
    Size <- Sizes
    LinkLocal = {24, 25, 26}
    NoAddress = none
    Cap = 4
    Concurrency = 2
SPECIFICATION Spec
INVARIANTS
    TypeOK
    HostsExact
    AnswerExact
    SelfMarked
    SlotsHeld
PROPERTIES
    ImplementsFanOut
    ScanEnds
