CONSTANTS
    r1 = r1
    r2 = r2
    l1 = l1
    a = a
    b = b
    bad = bad
    none = none
    Registrars <- OneRegistrar
    Lookups <- NoLookups
    Paths <- Nested
    URLs <- Requested
    Targets <- TwoTargets
    BadTarget = bad
    Offers <- OffersMoving
    NoTarget = none
    Faults = {"open", "race"}
    MaxCrashes = 1
    Serialized = TRUE
    Manifest = 2
    Kind <- OneOfEach
    VersionPath <- VersionPaths
SPECIFICATION ComponentsSpec
INVARIANTS
    TypeOK
    ComponentsTypeOK
    ListedTargetsRouted
    RoutesDurable
    
    ComponentsResolved
PROPERTIES
    ImplementsRegistry
    
