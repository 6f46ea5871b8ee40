-------------------------------- MODULE Ipam --------------------------------
(***************************************************************************)
(* The address allocator (internal/ipam/allocator.go, pool.go) and the     *)
(* helpers on status.loadBalancer.ingress (internal/status) that decide    *)
(* from a Service object what it holds.                                    *)
(*                                                                         *)
(* An ingress list is a sequence of entries; the entries in IP are the     *)
(* ones that parse as IPv4 addresses, any other entry is a hostname or     *)
(* text that does not parse.                                               *)
(***************************************************************************)
EXTENDS Naturals, Sequences, ServiceState

CONSTANTS
    Pool,   \* the configured pool, in order
    NoIP,   \* ErrNoFreeIP, or no address in a status
    Absent  \* no such object

\* config.Load passes the pool through ParsePool: not empty, no duplicates.
ASSUME PoolAssumption ==
    /\ Pool # <<>>
    /\ \A i \in 1..Len(Pool) : Pool[i] \in IP
    /\ \A i, j \in 1..Len(Pool) : Pool[i] = Pool[j] => i = j
ASSUME NoIPAssumption == NoIP \notin IP

InPool(ip) == \E i \in 1..Len(Pool) : Pool[i] = ip

Entries(ingress) == {ingress[i] : i \in 1..Len(ingress)}

\* assignedIPFromStatus: the first entry that parses.
AssignedIPFromStatus(ingress) ==
    LET valid == {i \in 1..Len(ingress) : ingress[i] \in IP}
    IN  IF valid = {} THEN NoIP ELSE ingress[CHOOSE i \in valid : \A j \in valid : i <= j]

\* The objects collectUsedIPs counts: not being deleted, and matched by
\* isManagedLoadBalancerService (the field managed).
Live(object) == object # Absent /\ ~object.deleting /\ object.managed

\* Mutant: the test for a deletion timestamp is inverted.
CollectUsedIPs_Deleting(name, listing) ==
    {ip \in IP : /\ InPool(ip)
                 /\ \E other \in Ref \ {name} :
                       /\ listing[other] # Absent
                       /\ listing[other].deleting
                       /\ ip \in Entries(listing[other].ingress)}

\* collectUsedIPs: what the other live, managed Services of the listing hold.
CollectUsedIPs(name, listing) ==
    {ip \in IP : /\ InPool(ip)
                 /\ \E other \in Ref \ {name} :
                       Live(listing[other]) /\ ip \in Entries(listing[other].ingress)}

\* Mutant: the address of the status is not looked at.
Allocate_FirstFree(name, object, listing) ==
    LET used == CollectUsedIPs(name, listing)
        free == {i \in 1..Len(Pool) : Pool[i] \notin used}
    IN  IF free = {} THEN NoIP ELSE Pool[CHOOSE i \in free : \A j \in free : i <= j]

\* Allocate: keep the address of the status when it is in the pool and no
\* other Service holds it, else take the first free address of the pool.
Allocate(name, object, listing) ==
    LET used == CollectUsedIPs(name, listing)
        mine == AssignedIPFromStatus(object.ingress)
        free == {i \in 1..Len(Pool) : Pool[i] \notin used}
    IN  CASE InPool(mine) /\ mine \notin used -> mine
          [] ~(InPool(mine) /\ mine \notin used) /\ free # {} ->
                Pool[CHOOSE i \in free : \A j \in free : i <= j]
          [] OTHER -> NoIP

-----------------------------------------------------------------------------
\* DesiredLoadBalancerIngress.
DesiredLoadBalancerIngress(ip) == <<ip>>

\* LoadBalancerIngressEqual, with a desired list of at most one entry.
NeedsLoadBalancerIngressUpdate(current, desired) == current # desired

HasLoadBalancerIngressIPInPool(ingress) == \E ip \in Entries(ingress) : InPool(ip)
=============================================================================
