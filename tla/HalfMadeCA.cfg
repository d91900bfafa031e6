CONSTANTS
    w1 = w1
    w2 = w2
    Writers <- OneWriter
    CAs = {0, 1}
    Keys = {0, 1, 2, 3}
    Absent = absent
    Empty = empty
    None = none
    Uploads = {}
    Faults = {}
    MaxCrashes = 1
SPECIFICATION Spec
INVARIANTS
    CanGenerate
