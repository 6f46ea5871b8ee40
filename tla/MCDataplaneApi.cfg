\* One client, requests that outlive their calls, a dataplane that restarts.
CONSTANTS
    r1 = r1
    r2 = r2
    ip1 = ip1
    good = good
    other = other
    bad = bad
    huge = huge
    None = None
    Free = Free
    Unknown = Unknown
    Ref = {r1, r2}
    IP = {ip1}
    Payload = {good, other, bad, huge}
    Renderable = {good, other, huge}
    Portless = {}
    Oversized = {huge}
    MaxInFlight = 2
SPECIFICATION FairSpec
INVARIANTS
    TypeOK
    CleanSuccessHolds
PROPERTIES
    ApiImplementsRemote
    WaitersAreServed
