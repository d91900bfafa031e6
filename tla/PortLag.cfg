CONSTANTS
    h1 = h1
    h2 = h2
    main = main
    p80 = p80
    p81 = p81
    p443 = p443
    nil = nil
    noport = noport
    Handlers <- OneHandler
    Main = main
    Ports <- MCPorts
    NoPort = noport
    AutoPorts <- MCAutoPorts
    DefaultSSLPort = p443
    Servers = {0, 1, 2}
    NoServer = nil
    InitialFiles <- SSLFile
    PortRequests <- SwitchPorts
    SSLRequests <- NoInputs
    Uploads = {}
    Contended = {}
    Faults = {}
    RetryLimit = 1
    RetryWrap = 2
    MaxCrashes = 0
    Serialized = TRUE
SPECIFICATION Spec
INVARIANTS
    PortSwitchTakesEffect
