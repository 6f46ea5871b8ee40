-------------------------- MODULE ServiceController --------------------------
(***************************************************************************)
(* The Service reconciler (internal/controller) between the API server,    *)
(* the informer caches and a provider.                                     *)
(*                                                                         *)
(* api is what the API server stores.  The reconciler reads cache, which   *)
(* follows api through the watch stream; one watch serves all Services, so *)
(* the cache goes through the states of api in order, late.  Writes go to  *)
(* api directly: a status update carries the resourceVersion of the copy   *)
(* it was made from and is refused when the object has changed since       *)
(* (current), a merge patch of the finalizers carries none.                *)
(*                                                                         *)
(* One worker runs Reconcile (the default of controller-runtime, which     *)
(* SetupWithManager keeps).  Every call of Reconcile to the API server, to *)
(* a cache or to the provider is a step of its own.  An error returned by  *)
(* Reconcile, like RequeueAfter, puts the key back into the queue; how     *)
(* long it waits there is left open.                                       *)
(*                                                                         *)
(* The provider is the one of module Provider, or of RemoteProvider in     *)
(* dataplane-api mode: a call that succeeds has taken effect, and one that *)
(* fails, or that the controller dies in, may have taken effect, or, in    *)
(* the dataplane, may still do so at any later time.                       *)
(***************************************************************************)
EXTENDS Ipam

CONSTANTS
    Ports,         \* port lists a Service can have
    Slices,        \* contents the EndpointSlices of a Service can have
    UserEdits,     \* what others do: create, delete, unmanage, manage, ports,
                   \* slices, foreign
    MaxEdits,      \* how often they do it
    MaxFaults,     \* how often a call fails or a process restarts
    LocalProvider, \* local-haproxy: the state lives in the controller process
    RemoteRestarts, \* dataplane-api: the dataplane may restart
    NoKey          \* no reconcile in progress

ASSUME BoundsAssumption == MaxEdits \in Nat /\ MaxFaults \in Nat
ASSUME ModeAssumption ==
    /\ LocalProvider \in BOOLEAN
    /\ RemoteRestarts \in BOOLEAN
    /\ LocalProvider => ~RemoteRestarts
ASSUME NoKeyAssumption == NoKey \notin Ref
ASSUME PayloadAssumption == Ports \X Slices \subseteq Payload

VARIABLES
    api, cache, watch,        \* Services: stored, cached, on their way
    slices, sliceCache,       \* EndpointSlices: stored, cached
    queue,                    \* keys waiting for the worker
    pc, key, svc, current, ip, \* the reconcile in progress and its copy
    provider,                 \* the provider's desired state
    late,                     \* abandoned requests that may still take effect
    edits, faults,            \* bounds
    blind,                    \* history: an allocation missed a write
    returned,                 \* history: Services that match the controller again
    disturbed                 \* history: Services whose provider state is not what
                              \* the controller's last call for them made it

clusterVars == <<api, watch, slices, edits>>
cacheVars == <<cache, sliceCache>>
localVars == <<pc, key, svc, current, ip>>
providerVars == <<provider, late, disturbed>>
historyVars == <<blind, returned>>
vars == <<clusterVars, cacheVars, localVars, queue, providerVars, faults, historyVars>>

Object == [managed : BOOLEAN, deleting : BOOLEAN, finalizer : BOOLEAN,
           ingress : {<<>>} \cup {<<a>> : a \in IP}, ports : Ports]
ASSUME AbsentObjectAssumption == Absent \notin Object

\* "add" and "spec" events pass serviceReconcilePredicate; "meta" (neither the
\* generation nor the deletion timestamp changed) and "gone" do not.
Event == [name : Ref, object : Object \cup {Absent}, kind : {"add", "spec", "meta", "gone"}]

Pcs == {"idle", "addFinalizer", "refresh", "allocate", "ensure", "publish",
        "deleteProvider", "cleanupProvider", "clearStatus", "refreshCleared",
        "removeFinalizer"}

\* A request to the dataplane API that nobody waits for any more: a PUT of a
\* value or a DELETE.  The number tells equal requests apart.
LateRequest == [ref : Ref, val : Value \cup {None}, nr : 0..MaxFaults]

NotedTypeOK ==
    /\ late \subseteq LateRequest
    /\ returned \subseteq Ref
    /\ disturbed \subseteq Ref

\* Every variable has its type, and at most one reconcile is in progress.
TypeOK ==
    /\ api \in [Ref -> Object \cup {Absent}]
    /\ cache \in [Ref -> Object \cup {Absent}]
    /\ watch \in Seq(Event)
    /\ slices \in [Ref -> Slices]
    /\ sliceCache \in [Ref -> Slices]
    /\ queue \subseteq Ref
    /\ pc \in Pcs
    /\ key \in Ref \cup {NoKey}
    /\ pc = "idle" <=> key = NoKey
    /\ svc \in Object \cup {Absent}
    /\ current \in BOOLEAN
    /\ ip \in IP \cup {NoIP}
    /\ provider \in Config
    /\ edits \in 0..MaxEdits
    /\ faults \in 0..MaxFaults
    /\ blind \in BOOLEAN
    /\ NotedTypeOK

Init ==
    /\ api = [s \in Ref |-> Absent]
    /\ cache = api
    /\ watch = <<>>
    /\ slices \in [Ref -> Slices]
    /\ sliceCache = slices
    /\ queue = {}
    /\ pc = "idle"
    /\ key = NoKey
    /\ svc = Absent
    /\ current = FALSE
    /\ ip = NoIP
    /\ provider = EmptyConfig
    /\ late = {}
    /\ edits = 0
    /\ faults = 0
    /\ blind = FALSE
    /\ returned = {}
    /\ disturbed = {}

-----------------------------------------------------------------------------
\* The API server stores a new version of a Service.
Write(s, object, kind) ==
    /\ api' = [api EXCEPT ![s] = object]
    /\ watch' = Append(watch, [name |-> s, object |-> object, kind |-> kind])

NoWrite == UNCHANGED <<api, watch>>

\* A merge patch of metadata.finalizers: nothing happens when the list is the
\* same, and an object in deletion goes away with its last finalizer.
PatchFinalizer(s, on) ==
    IF api[s].finalizer = on THEN NoWrite
    ELSE IF api[s].deleting THEN Write(s, Absent, "gone")
    ELSE Write(s, [api[s] EXCEPT !.finalizer = on], "meta")

\* Mutant: the new ingress entries are appended to the old ones.
UpdateStatus_Appends(s, ingress) == Write(s, [api[s] EXCEPT !.ingress = @ \o ingress], "meta")

\* An update of the status subresource with an up-to-date resourceVersion.
UpdateStatus(s, ingress) == Write(s, [api[s] EXCEPT !.ingress = ingress], "meta")

\* Users create, edit and delete Services, and the copy a reconcile of that
\* Service works on is out of date from then on; the endpoint controller
\* changes the EndpointSlices.
Edit(s, kind) ==
    /\ kind \in UserEdits
    /\ edits < MaxEdits
    /\ edits' = edits + 1
    /\ current' = (current /\ s # key)
    /\ returned' = IF kind = "manage" THEN returned \cup {s} ELSE returned
    /\ UNCHANGED <<cacheVars, pc, key, svc, ip, queue, providerVars, faults, blind>>

Create(s) ==
    /\ Edit(s, "create")
    /\ api[s] = Absent
    /\ \E p \in Ports :
          Write(s, [managed |-> TRUE, deleting |-> FALSE, finalizer |-> FALSE,
                    ingress |-> <<>>, ports |-> p], "add")
    /\ UNCHANGED slices

\* Without a finalizer the object is gone at once.
UserDelete(s) ==
    /\ Edit(s, "delete")
    /\ api[s] # Absent
    /\ ~api[s].deleting
    /\ IF api[s].finalizer THEN Write(s, [api[s] EXCEPT !.deleting = TRUE], "spec")
                           ELSE Write(s, Absent, "gone")
    /\ UNCHANGED slices

\* spec.type or spec.loadBalancerClass changes.
SetManaged(s, on) ==
    /\ Edit(s, IF on THEN "manage" ELSE "unmanage")
    /\ api[s] # Absent
    /\ api[s].managed # on
    /\ Write(s, [api[s] EXCEPT !.managed = on], "spec")
    /\ UNCHANGED slices

SetPorts(s) ==
    /\ Edit(s, "ports")
    /\ api[s] # Absent
    /\ \E p \in Ports \ {api[s].ports} : Write(s, [api[s] EXCEPT !.ports = p], "spec")
    /\ UNCHANGED slices

\* Another load-balancer implementation publishes an address for a Service
\* that is not this controller's.
ForeignStatus(s) ==
    /\ Edit(s, "foreign")
    /\ api[s] # Absent
    /\ ~api[s].managed
    /\ \E a \in IP : UpdateStatus(s, <<a>>)
    /\ UNCHANGED slices

SetSlices(s) ==
    /\ "slices" \in UserEdits
    /\ edits < MaxEdits
    /\ edits' = edits + 1
    /\ \E e \in Slices \ {slices[s]} : slices' = [slices EXCEPT ![s] = e]
    /\ UNCHANGED <<api, watch, cacheVars, localVars, queue, providerVars, faults, historyVars>>

User ==
    \E s \in Ref : \/ Create(s) \/ UserDelete(s)
                   \/ SetManaged(s, TRUE) \/ SetManaged(s, FALSE)
                   \/ SetPorts(s) \/ ForeignStatus(s) \/ SetSlices(s)

-----------------------------------------------------------------------------
\* serviceReconcilePredicate.
ServiceReconcilePredicate(event) == event.kind \in {"add", "spec"}

\* The next event of the watch reaches the cache and the event handler.
Deliver ==
    /\ watch # <<>>
    /\ LET event == Head(watch) IN
          /\ cache' = [cache EXCEPT ![event.name] = event.object]
          /\ queue' = IF ServiceReconcilePredicate(event) THEN queue \cup {event.name} ELSE queue
    /\ watch' = Tail(watch)
    /\ UNCHANGED <<api, slices, edits, sliceCache, localVars, providerVars, faults, historyVars>>

\* Every change of an EndpointSlice passes, its deletion included.
EndpointSliceReconcilePredicate(s) == sliceCache[s] # slices[s]

\* endpointSliceToServiceRequests: a Service is enqueued for its slices.
DeliverSlices(s) ==
    /\ EndpointSliceReconcilePredicate(s)
    /\ sliceCache' = [sliceCache EXCEPT ![s] = slices[s]]
    /\ queue' = queue \cup {s}
    /\ UNCHANGED <<clusterVars, cache, localVars, providerVars, faults, historyVars>>

-----------------------------------------------------------------------------
\* No newer version of the Service is on its way to the cache.
Fresh(s) == \A i \in 1..Len(watch) : watch[i].name # s

\* Reconcile goes on.
Goto(label) ==
    /\ pc' = label
    /\ UNCHANGED <<key, queue>>

\* Reconcile returns, with a requeue or without.
Return(requeue) ==
    /\ pc' = "idle"
    /\ key' = NoKey
    /\ svc' = Absent
    /\ current' = FALSE
    /\ ip' = NoIP
    /\ queue' = IF requeue THEN queue \cup {key} ELSE queue

\* Mutant: the finalizer is not added before the provider is called.
Branch_NoFinalizer(object) ==
    IF object = Absent THEN "idle"
    ELSE IF object.deleting THEN
         IF object.finalizer THEN "deleteProvider" ELSE "idle"
    ELSE IF ~object.managed THEN
         IF object.finalizer \/ HasLoadBalancerIngressIPInPool(object.ingress)
         THEN "cleanupProvider" ELSE "idle"
    ELSE "allocate"

\* What Reconcile does with the object it reads.
Branch(object) ==
    IF object = Absent THEN "idle"
    ELSE IF object.deleting THEN
         IF object.finalizer THEN "deleteProvider" ELSE "idle"
    ELSE IF ~object.managed THEN
         IF object.finalizer \/ HasLoadBalancerIngressIPInPool(object.ingress)
         THEN "cleanupProvider" ELSE "idle"
    ELSE IF object.finalizer THEN "allocate" ELSE "addFinalizer"

\* The worker takes a key and Reconcile reads the Service from the cache.
Reconcile(s) ==
    /\ pc = "idle"
    /\ s \in queue
    /\ queue' = queue \ {s}
    /\ LET branch == Branch(cache[s]) IN
          /\ pc' = branch
          /\ key' = IF branch = "idle" THEN NoKey ELSE s
          /\ svc' = IF branch = "idle" THEN Absent ELSE cache[s]
          /\ current' = (branch # "idle" /\ Fresh(s))
    /\ UNCHANGED <<clusterVars, cacheVars, ip, providerVars, faults, historyVars>>

\* ensureServiceFinalizer.
EnsureServiceFinalizer ==
    /\ pc = "addFinalizer"
    /\ \/ /\ api[key] # Absent
          /\ PatchFinalizer(key, TRUE)
          /\ Goto("refresh")
          /\ UNCHANGED <<svc, current, ip>>
       \/ api[key] = Absent /\ NoWrite /\ Return(TRUE)
    /\ UNCHANGED <<slices, edits, cacheVars, providerVars, faults, historyVars>>

\* The Get after the patch (and after the status was cleared) reads the cache,
\* which may not have the write yet.
ReadAgain(label) ==
    /\ \/ /\ cache[key] # Absent
          /\ svc' = cache[key]
          /\ current' = Fresh(key)
          /\ Goto(label)
          /\ UNCHANGED ip
       \/ cache[key] = Absent /\ Return(TRUE)
    /\ UNCHANGED <<clusterVars, cacheVars, providerVars, faults, historyVars>>

Refresh == pc = "refresh" /\ ReadAgain("allocate")

\* Mutant: the status is published before the provider is called.
AllocateIP_PublishesFirst ==
    /\ pc = "allocate"
    /\ LET a == Allocate(key, svc, cache) IN
          \/ /\ a # NoIP
             /\ ip' = a
             /\ blind' = (blind \/ \E i \in 1..Len(watch) : watch[i].name # key)
             /\ Goto("publish")
             /\ UNCHANGED <<svc, current>>
          \/ a = NoIP /\ Return(TRUE) /\ UNCHANGED blind
    /\ UNCHANGED <<clusterVars, cacheVars, providerVars, faults, returned>>

\* Mutant: an exhausted pool is not retried.
AllocateIP_NoRequeue ==
    /\ pc = "allocate"
    /\ LET a == Allocate(key, svc, cache) IN
          \/ /\ a # NoIP
             /\ ip' = a
             /\ blind' = (blind \/ \E i \in 1..Len(watch) : watch[i].name # key)
             /\ Goto("ensure")
             /\ UNCHANGED <<svc, current>>
          \/ a = NoIP /\ Return(FALSE) /\ UNCHANGED blind
    /\ UNCHANGED <<clusterVars, cacheVars, providerVars, faults, returned>>

\* listServicesForAllocation and Allocate; an exhausted pool is retried.
AllocateIP ==
    /\ pc = "allocate"
    /\ LET a == Allocate(key, svc, cache) IN
          \/ /\ a # NoIP
             /\ ip' = a
             /\ blind' = (blind \/ \E i \in 1..Len(watch) : watch[i].name # key)
             /\ Goto("ensure")
             /\ UNCHANGED <<svc, current>>
          \/ a = NoIP /\ Return(TRUE) /\ UNCHANGED blind
    /\ UNCHANGED <<clusterVars, cacheVars, providerVars, faults, returned>>

\* Discover and buildProviderService.
ProviderService == [ip |-> ip, payload |-> <<svc.ports, sliceCache[key]>>]

\* Provider.Ensure.
EnsureProvider ==
    /\ pc = "ensure"
    /\ provider' = Upsert(provider, key, ProviderService)
    /\ disturbed' = disturbed \ {key}
    /\ Goto("publish")
    /\ UNCHANGED <<clusterVars, cacheVars, svc, current, ip, late, faults, historyVars>>

\* UpdateServiceLoadBalancerStatus with the new address.
PublishStatus ==
    /\ pc = "publish"
    /\ LET desired == DesiredLoadBalancerIngress(ip)
           needed == NeedsLoadBalancerIngressUpdate(svc.ingress, desired) IN
          \/ ~needed /\ NoWrite /\ Return(FALSE)
          \/ needed /\ current /\ UpdateStatus(key, desired) /\ Return(FALSE)
          \/ needed /\ ~current /\ NoWrite /\ Return(TRUE)
    /\ UNCHANGED <<slices, edits, cacheVars, providerVars, faults, historyVars>>

\* Provider.Delete, in reconcileDeletingService and reconcileUnmanagedService.
DeleteProvider ==
    /\ pc \in {"deleteProvider", "cleanupProvider"}
    /\ provider' = Remove(provider, key)
    /\ disturbed' = disturbed \ {key}
    /\ Goto(IF pc = "deleteProvider" THEN "removeFinalizer" ELSE "clearStatus")
    /\ UNCHANGED <<clusterVars, cacheVars, svc, current, ip, late, faults, historyVars>>

\* reconcileUnmanagedService clears the status, when there is one.
ClearStatus ==
    /\ pc = "clearStatus"
    /\ LET needed == NeedsLoadBalancerIngressUpdate(svc.ingress, <<>>) IN
          \/ ~needed /\ NoWrite /\ Goto("removeFinalizer") /\ UNCHANGED <<svc, current, ip>>
          \/ /\ needed /\ current /\ svc.finalizer
             /\ UpdateStatus(key, <<>>)
             /\ Goto("refreshCleared")
             /\ UNCHANGED <<svc, current, ip>>
          \/ needed /\ current /\ ~svc.finalizer /\ UpdateStatus(key, <<>>) /\ Return(FALSE)
          \/ needed /\ ~current /\ NoWrite /\ Return(TRUE)
    /\ UNCHANGED <<slices, edits, cacheVars, providerVars, faults, historyVars>>

RefreshCleared == pc = "refreshCleared" /\ ReadAgain("removeFinalizer")

\* removeServiceFinalizer: a patch of whatever object has the name now.
RemoveServiceFinalizer ==
    /\ pc = "removeFinalizer"
    /\ \/ ~svc.finalizer /\ NoWrite /\ Return(FALSE)
       \/ svc.finalizer /\ api[key] # Absent /\ PatchFinalizer(key, FALSE) /\ Return(FALSE)
       \/ svc.finalizer /\ api[key] = Absent /\ NoWrite /\ Return(TRUE)
    /\ UNCHANGED <<slices, edits, cacheVars, providerVars, faults, historyVars>>

Worker ==
    \/ EnsureServiceFinalizer \/ Refresh \/ AllocateIP \/ EnsureProvider \/ PublishStatus
    \/ DeleteProvider \/ ClearStatus \/ RefreshCleared \/ RemoveServiceFinalizer

-----------------------------------------------------------------------------
Fault ==
    /\ faults < MaxFaults
    /\ faults' = faults + 1

\* A call to the API server or to the provider returns an error, before or
\* after it took effect there; an update that is out of date takes none.
PatchFails(on) ==
    \/ NoWrite
    \/ api[key] # Absent /\ PatchFinalizer(key, on)

UpdateFails(ingress) ==
    /\ NeedsLoadBalancerIngressUpdate(svc.ingress, ingress)
    /\ NoWrite \/ (current /\ UpdateStatus(key, ingress))

ApiCallFails ==
    /\ Fault
    /\ \/ pc = "addFinalizer" /\ PatchFails(TRUE)
       \/ pc = "removeFinalizer" /\ svc.finalizer /\ PatchFails(FALSE)
       \/ pc = "publish" /\ UpdateFails(DesiredLoadBalancerIngress(ip))
       \/ pc = "clearStatus" /\ UpdateFails(<<>>)
    /\ Return(TRUE)
    /\ UNCHANGED <<slices, edits, cacheVars, providerVars, historyVars>>

\* The call of the provider in progress.
CallsProvider == pc \in {"ensure", "deleteProvider", "cleanupProvider"}
ProviderCall == [ref |-> key, val |-> IF pc = "ensure" THEN ProviderService ELSE None, nr |-> faults]

\* A call that is given up comes to nothing, or leaves a request on the way.
\* The local provider runs in the process and leaves none.
GiveUp ==
    \/ UNCHANGED late
    \/ ~LocalProvider /\ late' = late \cup {ProviderCall}

\* The error of Provider.Ensure or Provider.Delete: the client's timeout, a
\* refused connection, or an error of the provider, possibly after the effect.
ProviderCallFails ==
    /\ Fault
    /\ CallsProvider
    /\ \/ /\ provider' = [provider EXCEPT ![key] = ProviderCall.val]
          /\ disturbed' = disturbed \ {key}
          /\ UNCHANGED late
       \/ GiveUp /\ UNCHANGED <<provider, disturbed>>
    /\ Return(TRUE)
    /\ UNCHANGED <<clusterVars, cacheVars, historyVars>>

\* The dataplane comes to an abandoned request, whatever was done since.
LateEffect ==
    /\ \E c \in late :
          /\ provider' = [provider EXCEPT ![c.ref] = c.val]
          /\ disturbed' = disturbed \cup {c.ref}
          /\ late' = late \ {c}
    /\ UNCHANGED <<clusterVars, cacheVars, localVars, queue, faults, historyVars>>

\* The controller process restarts: the caches are filled anew, every Service
\* comes as a create event, and a local provider starts without any state; a
\* request to the dataplane stays on the way.
ControllerRestart ==
    /\ Fault
    /\ cache' = api
    /\ sliceCache' = slices
    /\ watch' = <<>>
    /\ queue' = {s \in Ref : api[s] # Absent}
    /\ pc' = "idle"
    /\ key' = NoKey
    /\ svc' = Absent
    /\ current' = FALSE
    /\ ip' = NoIP
    /\ provider' = IF LocalProvider THEN EmptyConfig ELSE provider
    /\ UNCHANGED late \/ (CallsProvider /\ GiveUp)
    /\ UNCHANGED <<api, slices, edits, disturbed, historyVars>>

\* The dataplane restarts with an empty store, and nobody is told.
DataplaneRestart ==
    /\ RemoteRestarts
    /\ Fault
    /\ provider' = EmptyConfig
    /\ disturbed' = Ref
    /\ UNCHANGED <<clusterVars, cacheVars, localVars, queue, late, historyVars>>

Next ==
    \/ User
    \/ Deliver \/ (\E s \in Ref : DeliverSlices(s))
    \/ (\E s \in Ref : Reconcile(s)) \/ Worker
    \/ ApiCallFails \/ ProviderCallFails \/ LateEffect
    \/ ControllerRestart \/ DataplaneRestart

Spec == Init /\ [][Next]_vars

\* The informers deliver, the worker goes on, and the work queue, which is
\* first in, first out, hands out every key that waits in it.
FairSpec ==
    /\ Spec
    /\ WF_vars(Deliver)
    /\ WF_vars(Worker)
    /\ \A s \in Ref : WF_vars(DeliverSlices(s)) /\ SF_vars(Reconcile(s))

-----------------------------------------------------------------------------
\* What the controller's calls leave in the provider is guarded: a Service
\* with provider state exists and carries the finalizer, so that no deletion
\* goes past the controller.  The finalizer is there before Provider.Ensure and
\* until after Provider.Delete, although Reconcile decides on copies that may be
\* out of date.  Two kinds of Services are excepted: those that left the
\* controller and came back (see DeletedIsCleanedUp), and those whose state an
\* abandoned request wrote last, until the controller's next call for them.
ProviderStateIsGuarded ==
    \A s \in Ref \ (returned \cup disturbed) :
        Has(provider, s) => api[s] # Absent /\ api[s].finalizer

\* No two live Services of the controller publish the same address.
AddressesAreUnique ==
    \A s, t \in Ref : (s # t /\ Live(api[s]) /\ Live(api[t])) =>
        Entries(api[s].ingress) \cap Entries(api[t].ingress) = {}

\* As long as every allocation listed the Services from a cache that had all
\* their writes, and no Service came back to the controller with an address in
\* its status, no two live Services publish the same address: failed status
\* updates, retries, deletions and restarts alone never lead to a double use.
UniqueUnlessBlind == (~blind /\ returned = {}) => AddressesAreUnique

\* And a live Service that has published an address keeps it (Allocate reuses
\* the address of the status), whatever becomes free or taken around it, as long
\* as no Service left the controller and came back.
AddressIsKept ==
    [][\A s \in Ref : (~blind' /\ returned' = {} /\ Live(api[s]) /\ Live(api'[s]) /\ api[s].ingress # <<>>) =>
          api'[s].ingress = api[s].ingress]_vars

\* The controller publishes an address only when the provider has taken the
\* Service with it (Provider.Ensure comes before the status update), unless the
\* dataplane restarted or came to an abandoned request between the two.  The
\* steps of the controller that write to a Service are those that change pc.
PublishedIsServed ==
    [][\A s \in Ref \ disturbed :
          (/\ pc' # pc /\ api[s] # Absent /\ api'[s] # Absent
           /\ api'[s].ingress \notin {<<>>, api[s].ingress}) =>
             Has(provider, s) /\ api'[s].ingress = <<provider[s].ip>>]_vars

\* What the controller works towards for one Service.
Served(s) ==
    /\ api[s].finalizer
    /\ Has(provider, s)
    /\ api[s].ingress = <<provider[s].ip>>
    /\ provider[s].payload = <<api[s].ports, slices[s]>>

\* It waits for an address; about its provider state nothing is said.
Exhausted(s) ==
    /\ api[s].ingress = <<>>
    /\ \A i \in 1..Len(Pool) : \E t \in Ref \ {s} : Live(api[t]) /\ api[t].ingress = <<Pool[i]>>

Settled(s) ==
    IF Live(api[s]) THEN Served(s) \/ Exhausted(s)
    ELSE /\ ~Has(provider, s)
         /\ api[s] # Absent => ~api[s].deleting /\ ~api[s].finalizer /\ api[s].ingress = <<>>

\* When edits and faults have ended, every Service ends up as it should be, and
\* stays so: a live one is served as it is and published, unless every address
\* of the pool is taken; one in deletion is gone; nothing else has provider
\* state, a status address or the finalizer.  Only an allocation from a listing
\* that was out of date can leave two Services with one address, and then one
\* of them retries forever.
EventuallySettled == <>[](blind \/ \A s \in Ref : Settled(s))

\* A Service that has stopped matching the controller ends up without provider
\* state ("provider state still present after cleanup" is a test failure).
UnmanagedIsCleanedUp ==
    <>[](\A s \in Ref : (api[s] # Absent /\ ~api[s].managed) => ~Has(provider, s))

\* A Service that has been deleted ends up without provider state ("provider
\* state still present after delete" is a test failure).
DeletedIsCleanedUp == <>[](\A s \in Ref : api[s] = Absent => ~Has(provider, s))
=============================================================================
