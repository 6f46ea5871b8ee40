\* A Service that leaves the controller while it is first reconciled.
CONSTANTS
    s1 = s1
    s2 = s2
    ip1 = ip1
    ip2 = ip2
    ip3 = ip3
    p1 = p1
    p2 = p2
    e1 = e1
    e2 = e2
    None = None
    Absent = Absent
    NoIP = NoIP
    NoKey = NoKey
    Ref <- MCRefs
    IP <- MCIPs
    Pool <- MCPool
    Payload <- MCPayloads
    Renderable <- MCPayloads
    Portless = {}
    Ports = {p1}
    Slices = {e1}
    UserEdits = {"create", "unmanage"}
    MaxEdits = 2
    MaxFaults = 0
    LocalProvider = FALSE
    RemoteRestarts = FALSE
SPECIFICATION FairSpec
CHECK_DEADLOCK FALSE
PROPERTY UnmanagedIsCleanedUp
