----------------------------- MODULE Discovery -----------------------------
(***************************************************************************)
(* Backend discovery (internal/backends/discovery.go): from the ports of a *)
(* Service and a listing of EndpointSlices to the backends of each port.   *)
(*                                                                         *)
(* A port name, a protocol or a target name that is not given is "", a     *)
(* number that is not given is 0.  Backend addresses are numbered in the   *)
(* order of their text; 0 is any text that is not an IPv4 address.         *)
(*                                                                         *)
(* The endpoint slice controller adds, removes and rewrites the slices of  *)
(* a Service; the cache lists what there is in an order of its own, and    *)
(* the reconcile that follows discovers the backends from that listing.    *)
(***************************************************************************)
EXTENDS Naturals, FiniteSets, Sequences, Functions

CONSTANTS
    PortLists,  \* the port lists a Service can have
    SliceSpace, \* what an EndpointSlice in the cache can be
    MaxSlices   \* how many of them there are at once

\* A Service port has a number, and the API server admits no two of one name.
ASSUME PortListsAssumption ==
    \A portList \in PortLists :
        /\ portList \in Seq([name : STRING, protocol : STRING, port : Nat \ {0},
                             targetName : STRING, targetNumber : Nat])
        /\ \A i, j \in DOMAIN portList : portList[i].name = portList[j].name => i = j
ASSUME SliceSpaceAssumption ==
    \A slice \in SliceSpace :
        /\ slice.belongs \in BOOLEAN
        /\ slice.ports \in Seq([name : STRING, protocol : STRING, port : Nat])
        /\ slice.endpoints \in Seq([ready : {"", "true", "false"}, addresses : Seq(Nat)])
ASSUME MaxSlicesAssumption == MaxSlices \in Nat

VARIABLES
    ports,      \* of the Service
    listing,    \* of the EndpointSlices in the cache
    discovered  \* the result of the last Discover

vars == <<ports, listing, discovered>>

NormalizeProtocol(protocol) == IF protocol = "" THEN "TCP" ELSE protocol

\* servicePortTargetPort: the number; its name, if any, is targetName.
TargetPortNumber(port) ==
    IF port.targetNumber > 0 THEN port.targetNumber ELSE port.port

\* Mutant: the comparison of the target port's name is left out.
EndpointSlicePortMatchesServicePort_NumberOnly(port, endpointPort) ==
    /\ endpointPort.port > 0
    /\ NormalizeProtocol(port.protocol) = NormalizeProtocol(endpointPort.protocol)
    /\ \/ port.name # "" /\ endpointPort.name = port.name
       \/ endpointPort.port = TargetPortNumber(port)

EndpointSlicePortMatchesServicePort(port, endpointPort) ==
    /\ endpointPort.port > 0
    /\ NormalizeProtocol(port.protocol) = NormalizeProtocol(endpointPort.protocol)
    /\ \/ port.name # "" /\ endpointPort.name = port.name
       \/ port.targetName # "" /\ endpointPort.name = port.targetName
       \/ port.targetName = "" /\ endpointPort.port = TargetPortNumber(port)

\* endpointReady: a condition that is not set counts as ready.
EndpointReady(endpoint) == endpoint.ready # "false"

\* The namespace and the label of the slice name the Service.
EndpointSliceBelongsToService(slice) == slice.belongs

\* The turns of the loops over slices, their ports, their endpoints and the
\* addresses of those, as positions <<slice, port, endpoint, address>>, and the
\* order in which they come.
Turns(slices) ==
    UNION {UNION {{<<i, q, e, a>> : q \in DOMAIN slices[i].ports,
                                    a \in DOMAIN slices[i].endpoints[e].addresses} :
                     e \in DOMAIN slices[i].endpoints} : i \in DOMAIN slices}

Earlier(t, u) == \E k \in 1..4 : t[k] < u[k] /\ \A j \in 1..k - 1 : t[j] = u[j]

Backend(slices, t) ==
    [address |-> slices[t[1]].endpoints[t[3]].addresses[t[4]],
     port |-> slices[t[1]].ports[t[2]].port]

\* The turns that no continue cuts short before the map seen.
Found(port, slices) ==
    {t \in Turns(slices) :
        /\ EndpointSliceBelongsToService(slices[t[1]])
        /\ EndpointSlicePortMatchesServicePort(port, slices[t[1]].ports[t[2]])
        /\ EndpointReady(slices[t[1]].endpoints[t[3]])
        /\ Backend(slices, t).address > 0}

\* The turns that append a backend: the first ones with theirs.
Unseen(port, slices) ==
    {t \in Found(port, slices) : \A u \in Found(port, slices) :
        Earlier(u, t) => Backend(slices, u) # Backend(slices, t)}

\* The order of sort.Slice.
Before(b, c) == b.address < c.address \/ (b.address = c.address /\ b.port < c.port)

\* Mutant: the backends are left in the order in which they were found.
Place_Unsorted(slices, turns, t) == Cardinality({u \in turns : Earlier(u, t)}) + 1

\* Where sort.Slice puts the backend of a turn.  The order of equal backends is
\* open in Go and does not show in the result.
Place(slices, turns, t) ==
    Cardinality({u \in turns :
        \/ Before(Backend(slices, u), Backend(slices, t))
        \/ Backend(slices, u) = Backend(slices, t) /\ Earlier(u, t)}) + 1

\* The backends of one Service port.
PortBackends(port, slices) ==
    LET turns == Unseen(port, slices)
    IN  [n \in 1..Cardinality(turns) |->
            Backend(slices, CHOOSE t \in turns : Place(slices, turns, t) = n)]

\* A provider.ServicePort, as buildProviderService makes it.
ServicePort(port, backends) ==
    [name |-> port.name, protocol |-> NormalizeProtocol(port.protocol), port |-> port.port,
     targetName |-> port.targetName, targetNumber |-> port.targetNumber, backends |-> backends]

Discover(portList, slices) ==
    [i \in DOMAIN portList |-> ServicePort(portList[i], PortBackends(portList[i], slices))]

-----------------------------------------------------------------------------
Elements(seq) == {seq[i] : i \in DOMAIN seq}

\* What the endpoint slice controller makes for a Service: an endpoint port
\* carries the name and the protocol of its Service port, and the target
\* number, if there is one.  About slices of others nothing is said.
Derived(slice, portList) ==
    slice.belongs =>
        /\ \A q \in Elements(slice.ports) : \E i \in DOMAIN portList :
              /\ q.name = portList[i].name
              /\ NormalizeProtocol(q.protocol) = NormalizeProtocol(portList[i].protocol)
              /\ portList[i].targetName = "" => q.port = TargetPortNumber(portList[i])
        /\ \A i \in DOMAIN portList : portList[i].targetName = "" =>
              \E q \in Elements(slice.ports) : q.name = portList[i].name

Init ==
    /\ ports \in PortLists
    /\ listing = <<>>
    /\ discovered = Discover(ports, listing)

\* listEndpointSlicesForService and Discover, for a changed cache.
Rediscover(slices) ==
    /\ listing' = slices
    /\ discovered' = Discover(ports, slices)
    /\ UNCHANGED ports

\* A slice shows up anywhere in the listing.
AddSlice ==
    /\ Len(listing) < MaxSlices
    /\ \E slice \in SliceSpace \ Elements(listing), i \in 1..Len(listing) + 1 :
          /\ Derived(slice, ports)
          /\ Rediscover(SubSeq(listing, 1, i - 1) \o <<slice>> \o SubSeq(listing, i, Len(listing)))

DropSlice ==
    \E i \in DOMAIN listing :
        Rediscover(SubSeq(listing, 1, i - 1) \o SubSeq(listing, i + 1, Len(listing)))

Next == AddSlice \/ DropSlice

Spec == Init /\ [][Next]_vars

-----------------------------------------------------------------------------
\* What EndpointSlices mean in Kubernetes: the endpoint port of a Service port
\* is the one with its name and protocol, if it has a number, and its backends
\* are the IPv4 addresses of the ready endpoints.
ReadyBackends(port) ==
    LET own == {slice \in Elements(listing) : slice.belongs}
        named(slice) == {q \in Elements(slice.ports) :
                            /\ q.port > 0
                            /\ q.name = port.name
                            /\ NormalizeProtocol(q.protocol) = NormalizeProtocol(port.protocol)}
        ready(slice) == {e \in Elements(slice.endpoints) : EndpointReady(e)}
        addresses(slice) == (UNION {Elements(e.addresses) : e \in ready(slice)}) \ {0}
    IN  UNION {{[address |-> a, port |-> q.port] : a \in addresses(slice), q \in named(slice)} :
                 slice \in own}

\* A port with a named target has a name itself, and no other port is named
\* like its target.
PlainlyNamed ==
    \A i \in DOMAIN ports : ports[i].targetName # "" =>
        /\ ports[i].name # ""
        /\ \A j \in DOMAIN ports \ {i} : ports[j].name # ports[i].targetName

\* Although Discover never compares a target number with a name, and accepts
\* either of two names, the ports of a Service get exactly the backends that
\* Kubernetes means, each once, over all slices and whatever the listing looks
\* like, unless a target name is at odds with the port names.
DiscoversTheReady ==
    PlainlyNamed =>
        \A i \in DOMAIN ports :
            LET backends == discovered[i].backends IN
            /\ Elements(backends) = ReadyBackends(ports[i])
            /\ Len(backends) = Cardinality(Elements(backends))

\* The order in which the cache lists the slices does not show in what is
\* discovered, for any Service: a resync or another order of the informer's map
\* never makes the provider render, or reload, anything else.
OrderIsImmaterial ==
    \A slices \in Surjection(DOMAIN listing, Elements(listing)) :
        Discover(ports, slices) = discovered

\* Every port gets the backends that Kubernetes means, without a condition on
\* the names ("Discover builds backend endpoints for each Service port from
\* EndpointSlice resources").
EveryPortIsDiscovered ==
    \A i \in DOMAIN ports : ReadyBackends(ports[i]) \subseteq Elements(discovered[i].backends)
=============================================================================
