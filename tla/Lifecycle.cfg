CONSTANTS
    OwnRoutes <- ThreeRoutes
    Root = "root"
    MaxRuns = 3
    Faults = {"listen", "file", "save", "stall", "serve", "die"}
SPECIFICATION Spec
INVARIANTS
    TypeOK
    ReadyServes
    
    OrderlyExitLeavesNoFile
PROPERTIES
    
    BootCompletes
    
CHECK_DEADLOCK FALSE
