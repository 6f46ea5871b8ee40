\* The engine: failures, restarts, HAProxy and host addresses that come and go.
CONSTANTS
    r1 = r1
    r2 = r2
    ip1 = ip1
    ip2 = ip2
    good = good
    empty = empty
    bad = bad
    None = None
    NoFile = NoFile
    Down = Down
    Ref <- MCRefs
    IP <- MCIPs
    Payload = {good, empty, bad}
    Renderable = {good, empty}
    Portless = {empty}
    HostAddrs = {ip2}
    Accepts <- MCAccepts
    ValidateCommand = TRUE
    ReloadCommand = TRUE
    PIDFile = TRUE
SPECIFICATION FairSpec
INVARIANTS
    TypeOK
    ServedAddressesAttached
    ReloadIsBindable
    OnlyAcceptedConfigs
PROPERTIES
    SuccessConverges
    EngineImplementsProvider
    MutexIsReleased
