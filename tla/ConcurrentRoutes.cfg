CONSTANTS
    r1 = r1
    r2 = r2
    l1 = l1
    a = a
    b = b
    bad = bad
    none = none
    Registrars <- TwoRegistrars
    Lookups <- OneLookup
    Paths <- Nested
    URLs <- Requested
    Targets <- OneTarget
    BadTarget = bad
    Offers <- OffersNested
    NoTarget = none
    Faults = {"open", "write", "tear", "race"}
    MaxCrashes = 1
    Serialized = FALSE
SPECIFICATION Spec
INVARIANTS
    RoutedStayRoutable
    ListedPathsRouted
PROPERTIES
    LookupSeesRouted
