CONSTANTS
    w1 = w1
    w2 = w2
    Writers <- OneWriter
    CAs = {0, 1}
    Keys = {0, 1, 2, 3}
    Absent = absent
    Empty = empty
    None = none
    Uploads = {"kept", "other", "broken"}
    Faults = {"disk"}
    MaxCrashes = 2
SPECIFICATION Spec
INVARIANTS
    TypeOK
    DownloadedTrusted
    GeneratedSound
PROPERTIES
    CAKept
