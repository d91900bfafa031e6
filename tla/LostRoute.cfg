CONSTANTS
    r1 = r1
    r2 = r2
    l1 = l1
    a = a
    b = b
    bad = bad
    none = none
    Registrars <- TwoRegistrars
    Lookups <- NoLookups
    Paths <- TwoPaths
    URLs <- Requested
    Targets <- OneTarget
    BadTarget = bad
    Offers <- OffersBeside
    NoTarget = none
    Faults = {}
    MaxCrashes = 1
    Serialized = FALSE
SPECIFICATION Spec
INVARIANTS
    AckedRoutesSurvive
