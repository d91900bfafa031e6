CONSTANTS
    h1 = h1
    h2 = h2
    main = main
    p80 = p80
    p81 = p81
    p443 = p443
    nil = nil
    noport = noport
    Handlers <- OneHandler
    Main = main
    Ports <- MCPorts
    NoPort = noport
    AutoPorts <- MCAutoPorts
    DefaultSSLPort = p443
    Servers = {0, 1, 2}
    NoServer = nil
    InitialFiles <- FreshFile
    PortRequests <- NoInputs
    SSLRequests <- CustomSSL
    Uploads = {"invalid"}
    Contended = {}
    Faults = {}
    RetryLimit = 1
    RetryWrap = 2
    MaxCrashes = 1
    Serialized = TRUE
SPECIFICATION FairSpec
PROPERTIES
    ProbesEnd
