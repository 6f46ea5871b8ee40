\* Safety of the reconciler with a dataplane that restarts: two Services, two addresses.
CONSTANTS
    s1 = s1
    s2 = s2
    ip1 = ip1
    ip2 = ip2
    ip3 = ip3
    p1 = p1
    p2 = p2
    e1 = e1
    e2 = e2
    None = None
    Absent = Absent
    NoIP = NoIP
    NoKey = NoKey
    Ref <- MCRefs
    IP <- MCIPs3
    Pool <- MCPool
    Payload <- MCPayloads
    Renderable <- MCPayloads
    Portless = {}
    Ports = {p1}
    Slices = {e1}
    UserEdits = {"create", "delete", "unmanage", "manage", "foreign"}
    MaxEdits = 4
    MaxFaults = 2
    LocalProvider = FALSE
    RemoteRestarts = TRUE
SPECIFICATION Spec
SYMMETRY Symmetry
PROPERTIES
    AddressIsKept
    PublishedIsServed
CHECK_DEADLOCK FALSE
INVARIANTS
    TypeOK
    ProviderStateIsGuarded
    UniqueUnlessBlind
