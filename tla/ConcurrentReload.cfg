CONSTANTS
    h1 = h1
    h2 = h2
    main = main
    p80 = p80
    p81 = p81
    p443 = p443
    nil = nil
    noport = noport
    Handlers <- TwoHandlers
    Main = main
    Ports <- MCPorts
    NoPort = noport
    AutoPorts <- MCAutoPorts
    DefaultSSLPort = p443
    Servers = {0, 1, 2}
    NoServer = nil
    InitialFiles <- FreshFile
    PortRequests <- OnePort
    SSLRequests <- OnlySSLOn
    Uploads = {}
    Contended = {}
    Faults = {"probe"}
    RetryLimit = 0
    RetryWrap = 1
    MaxCrashes = 0
    Serialized = FALSE
SPECIFICATION Spec
INVARIANTS
    FrontDoorOpen
    
    

    
SYMMETRY HandlerSymmetry
CHECK_DEADLOCK FALSE
