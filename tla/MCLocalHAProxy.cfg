\* The local HAProxy provider under failures and restarts.
CONSTANTS
    r1 = r1
    r2 = r2
    ip1 = ip1
    ip2 = ip2
    clash = clash
    empty = empty
    bad = bad
    None = None
    NoFile = NoFile
    Down = Down
    Ref <- MCRefs
    IP <- MCIPs
    Payload = {clash, empty, bad}
    Renderable = {clash, empty}
    Portless = {empty}
    Accepts <- MCAccepts
    ValidateCommand = TRUE
    ReloadCommand = TRUE
    PIDFile = FALSE
SPECIFICATION Spec
INVARIANTS
    TypeOK
    OnlyAcceptedConfigs
PROPERTIES
    SuccessIsWritten
    LocalImplementsProvider
