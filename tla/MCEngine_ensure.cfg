\* A retried Ensure after a failed reload.
CONSTANTS
    r1 = r1
    r2 = r2
    ip1 = ip1
    ip2 = ip2
    good = good
    empty = empty
    bad = bad
    None = None
    NoFile = NoFile
    Down = Down
    Ref <- MCRefs
    IP <- MCIPs
    Payload = {good, bad}
    Renderable = {good}
    Portless = {}
    HostAddrs = {}
    Accepts <- MCAccepts
    ValidateCommand = TRUE
    ReloadCommand = TRUE
    PIDFile = TRUE
SPECIFICATION Spec
PROPERTY EnsureMakesPresent
