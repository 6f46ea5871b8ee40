\* Everything settles, with a local provider and one address for two Services.
CONSTANTS
    s1 = s1
    s2 = s2
    ip1 = ip1
    ip2 = ip2
    ip3 = ip3
    p1 = p1
    p2 = p2
    e1 = e1
    e2 = e2
    None = None
    Absent = Absent
    NoIP = NoIP
    NoKey = NoKey
    Ref <- MCRefs
    IP <- MCIPs
    Pool <- MCPoolOfOne
    Payload <- MCPayloads
    Renderable <- MCPayloads
    Portless = {}
    Ports = {p1, p2}
    Slices = {e1, e2}
    UserEdits = {"create", "delete", "ports", "slices"}
    MaxEdits = 3
    MaxFaults = 1
    LocalProvider = TRUE
    RemoteRestarts = FALSE
SPECIFICATION FairSpec
CHECK_DEADLOCK FALSE
PROPERTY EventuallySettled
