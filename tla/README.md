# A TLA+ development of k8s-lb-controller

k8s-lb-controller gives Kubernetes Services of type LoadBalancer an address from
a static pool, hands them to a *provider*, and publishes the address in their
status. The provider is either an HAProxy on the same host (`local-haproxy`) or a
separate dataplane process with an HAProxy sidecar (`dataplane-api`). The modules
in this directory model these parts from the Go source, TLC checks them on small
instances, and TLAPS proves the safety properties of the engine, the providers,
the IP managers, the controller and the discovery of backends for all instances.

## Inventory

| part | source | state and operations | modelled in |
|---|---|---|---|
| Service reconciler | `internal/controller/service_controller.go`, `finalizer.go` | Reconcile: finalizer, allocation, Provider.Ensure, status; deletion; cleanup of Services that no longer match | `ServiceController` |
| event filters | `internal/controller/service_filter.go` | which Service and EndpointSlice events enqueue a Service | `ServiceController` |
| IP allocation | `internal/ipam` | pool, used addresses, reuse of the published one | `Ipam` |
| Service status | `internal/status` | comparing, updating and recognising the ingress list | `Ipam`, `ServiceController` |
| provider contract | `internal/provider/provider.go`, `mock_provider.go` | Ensure, Delete | `Provider` (abstract) |
| local HAProxy provider | `internal/provider/haproxy` | map in memory, applier | `LocalHAProxy` |
| dataplane engine | `internal/dataplane/engine.go`, `externalips.go` | store, mutex, attach / apply / detach, rollback, bootstrap | `Engine` |
| store, rendering | `internal/dataplane/store.go`, `render.go` | clone, upsert, delete, list; text of the configuration | `ServiceState` |
| applier | `internal/dataplane/apply.go` | compare, candidate file, validate, rename, sync, reload | `Applier` |
| external IP managers | `internal/dataplane/ipattach` | settings; List, EnsurePresent, EnsureAbsent (netlink, exec) | `IPManager`; `IPAttach` as their caller sees them |
| dataplane API client | `internal/provider/dataplaneapi` | PUT and DELETE with a timeout | `DataplaneApi`, `RemoteProvider` (abstract) |
| dataplane HTTP server | `internal/dataplane/http.go` | routes, decoding, checks, statuses | `DataplaneApi` |
| backend discovery | `internal/backends/discovery.go` | ports and EndpointSlices to backends | `Discovery` |
| processes | `cmd/main.go`, `cmd/dataplane/main.go` | start, restart | `ServiceController`, `LocalHAProxy`, `Engine`, `DataplaneApi` |
| configuration, logging, metrics | `internal/config`, `internal/dataplane/config.go`, `internal/metrics` | read once at startup, or never read by the system | no |

What runs concurrently: users, the endpoint controller and other load-balancer
implementations write to the API server; the informers follow it late; one
worker runs Reconcile; HTTP requests, some of which have lost their client,
reach the engine in parallel and take its mutex; other software on the host
changes the interface; HAProxy is a process of its own; any process can die at any
time. Only the API server, the configuration file, the pid file and the addresses on the
interface outlive a process. The hazards that follow from this are listed, each
at its line, under `hazards` in `PROJECT.json`.

## Modules

    ServiceState --- Applier ---+--- LocalHAProxy --- MCLocalHAProxy, LocalHAProxyProofs
         |             IPAttach-+--- Engine --------- MCEngine, EngineProofs
         |                |
         |           AtomicAttach  (implemented by IPManager --- MCIPManager, IPManagerProofs)
         |
         +--- Provider        (implemented by Engine and LocalHAProxy)
         +--- RemoteProvider  (implemented by DataplaneApi)
         +--- DataplaneApi --- MCDataplaneApi, DataplaneApiProofs
         +--- Ipam --- ServiceController --- MCServiceController, ReconcileProofs
                                                                       +--- AddressProofs
                                                                       +--- ServiceControllerProofs
    Discovery --- MCDiscovery, DiscoveryProofs

**ServiceState.** A `Store` is a function from Service references to a value or
`None`. A value is an address and a payload, which stands for the normalised
ports and backends. `Render` keeps the frontends of the Services that have
ports and says whether the bootstrap frontend is there. It is not one-to-one: a
Service without ports leaves no trace, so two Stores can have one text.

**Applier.** `applyRenderedConfig` is one action per system call that can fail:
`Compare`, `WriteCandidateFile`, `Validate`, `Rename`, `SyncDir`, `Reload`. An
error up to the rename removes the candidate (`Abort`); an error after it leaves
the new file in place. `ApplierDies` can come between any two. HAProxy starts
once there is a file it can bind, exits, and reloads when told; a reload command
that reports an error may have told it or not.

**IPAttach.** What the two managers do for their caller: after a failed
operation they read the interface again and succeed when the wanted state holds.
An error therefore leaves the effect open. Engine takes these as atomic actions.

**IPManager, AtomicAttach.** Why it may. `IPManager` has one action for each
netlink request or command of EnsurePresent and EnsureAbsent: the first List,
the operation, and the List after an operation that failed. Between them `Host`
adds and deletes addresses, and an operation that reports an error may have taken
place. An address is on the interface with a prefix length; `List` sees those of
the configured length. `AtomicAttach` is a caller of `IPAttach` in which a call is
asked, takes place at one moment, and is answered. The moment of a call that
changes nothing is the List that found the wanted state. In the refinement
`replies` is the set of answers that are still possible, because an operation that
took place and failed is answered by what the second List finds.

**Engine.** `op` is the request that holds the mutex; the requests that wait
have no effect and are left out. `Lock`, `Ensure` or `Delete`, `ListAttached`,
`Attach(ip)`, `Apply`, the applier's steps, `Commit` (`e.store = nextStore`),
`Detach(ip)` and `DetachDone` are the success path of `reconcileLocked`;
`ApplyFails`, `Rollback(ip)` and `RollbackDone` are its error path. `Restart` is the
death of the process on the same volume, `PodReplaced` one with a new volume;
the addresses on the interface stay in both cases.

**LocalHAProxy.** The same applier without addresses, bootstrap or early return.

**Provider.** The abstract provider: a call takes effect at once, a call that
succeeds has taken effect, one that fails may have, no other Service is touched,
and the state may be lost as a whole. This is what the engine promises. The local
provider keeps the stricter `StrictSpec`: its state changes only together with the
success of a call, so that a call that fails leaves it as it was.

**DataplaneApi.** The provider's client, the network and the HTTP server. The
controller makes one call at a time (`mine`), but `request` also holds requests
whose client has given up: they stay on the wire or in the server, in any order,
get lost, or take effect later. `HandleServices` is the routing, decoding and
checking up to the engine's mutex. Behind the mutex the engine is the `Provider`
that `EngineProofs` shows it to be: `TakeEffect` replaces the state at once, and the
call fails at any time. `Restart` breaks the connections of the handlers and
empties the store. `acked` and `firm` are history variables: what the last call
for a Service achieved for certain, and whether the call in progress can be
interfered with.

**RemoteProvider.** What the controller may rely on then: a success means that
the dataplane had the state during the call, an error means nothing, and a failed
call may take effect at any later time.

**Discovery.** `Discover` as an operator, and around it a cache in which slices come
and go and are listed in any order. The four nested loops are a set of turns, each
the positions of a slice, a port, an endpoint and an address (`Turns`), with the
order in which they come (`Earlier`). `Found` are the turns that no `continue` cuts
short, `Unseen` those that the map `seen` lets through, the first ones with their
backend, and `Place` is where `sort.Slice` puts the backend of a turn.
`ReadyBackends` is the reference: what an EndpointSlice means in Kubernetes, as a
set.

**Ipam.** `Allocate`, `CollectUsedIPs` and the helpers on ingress lists, as
operators.

**ServiceController.** `api` is what the API server stores, `cache` what the
reconciler reads, `watch` the events in between. `svc` is the copy a reconcile
works on. `current` says whether its resourceVersion is still the stored one: a
status update succeeds only then, while the finalizer patches
(`client.MergeFrom` without optimistic lock) always succeed. Each call of
Reconcile to a cache, to the API server or to the provider is an action (the
label of `pc`). A call of the provider that fails has taken effect, comes to nothing,
or, with the dataplane, leaves its request in `late`; a controller that dies during
the call leaves it there too. `LateEffect` is the dataplane coming to such a request,
whatever was done since. Three variables are history. `blind`: some allocation worked
on a listing that lacked a write of another Service. `returned`: the Services that
left the controller and matched again. `disturbed`: the Services whose provider state
was last written by a late request, or lost in a restart of the dataplane, and not by
the controller's last call for them.

## Assumptions about what is not in the repository

- The API server gives a Service a new `metadata.generation` when its spec
  changes, as `serviceReconcilePredicate` expects. Where it does not, an update
  of a Service passes unnoticed until another event comes.
- The controller's finalizer is the only one, so that an object in deletion goes
  away with it.
- Informer caches go through the states of the API server in order. The work
  queue holds a key once and hands out all of them.
- The reload command has done its work when it returns. `os.Remove` of the
  candidate file does not fail.
- The results `changed` are used for logging only and are left out. With the
  noop IP manager the interface part of Engine is void.
- The requests of the dataplane client are not ordered, because a request whose
  client gave up has a connection of its own. Go's mutex does not starve a waiter.
- The ports of a Service have numbers and distinct names. The EndpointSlice
  controller gives an endpoint port the name and the protocol of its Service port
  and, unless the target is a name, the target's number; a Service port whose
  target is a number is in every slice of the Service.
- The kernel deletes the one address it is asked to delete.

## Runs

The engine, provider and controller runs have two Services; a Service can be
created, deleted and created again.

| run | shows | bounds |
|---|---|---|
| `engine` | `ServedAddressesAttached`, `ReloadIsBindable`, `OnlyAcceptedConfigs`, `SuccessConverges`, `EngineImplementsProvider`, `MutexIsReleased` | 2 addresses, one of which the host adds and removes itself; the validate command refuses two Services with ports at the first address; payloads that render, have no ports, or are invalid |
| `local_provider` | `SuccessIsWritten`, `OnlyAcceptedConfigs`, `LocalImplementsProvider` | 2 addresses, payloads that clash, have no ports, or do not validate |
| `ip_manager` | `CallsAreAtomic` | 2 addresses with 2 prefix lengths, settings that NewManager accepts, completes or refuses |
| `api` | `CleanSuccessHolds`, `ApiImplementsRemote`, `WaitersAreServed` | 2 requests at a time, payloads that are accepted, invalid, or too large |
| `controller_safety` | `ProviderStateIsGuarded`, `UniqueUnlessBlind`, `AddressIsKept`, `PublishedIsServed` in `dataplane-api` mode | 3 addresses, 2 of them in the pool, 4 edits (create, delete, unmanage, manage, foreign status), 2 faults, dataplane restarts |
| `controller_settles` | `EventuallySettled` in `local-haproxy` mode | a pool of one address, 3 edits (create, delete, ports, slices), 1 fault |
| `discovery` | `DiscoversTheReady`, `OrderIsImmaterial` | up to 2 slices with up to 2 ports (one may lack a number) and 2 endpoints each, Services with 1 or 2 ports |

The engine, provider, manager and API runs have no bound on calls, failures or
restarts: their state spaces are finite. Two Services and two addresses are what
sharing an address, moving one, and rolling one back beside another need. Two
requests at a time are the call in progress and one that a former call left
behind; `DataplaneApiProofs` is about any number. In the controller runs `MaxEdits`
bounds what others do and `MaxFaults` how often a call fails or a process
restarts; faults include calls that fail after they took effect. Four edits
create two Services, take one away and bring it back, or create one, take it away,
bring it back and delete it. A late request takes one fault; two are what it takes
to have it meet a restart, or another failed call. A behaviour ends
when the bounds are used up and the queue is empty, so these runs do not check
deadlock. An exhausted pool needs the pool of one. Two slices are what an endpoint
listed twice and an order of slices need.

`ProviderStateIsGuarded` is about what the controller's own calls leave in the
provider. It excepts a Service in `disturbed`, because a PUT that the client gave up
on can come after the deletion, and one in `returned`, for the reason that
`controller_return` shows. `UniqueUnlessBlind` and `AddressIsKept` are about
behaviours in which no Service came back, because the address of a Service that has
left may be given to another one and comes back with it. `PublishedIsServed` excepts
only the Services in `disturbed`.
`EventuallySettled` leaves out the edit that makes a Service
stop matching, for the reason `controller_cleanup` shows. `DiscoversTheReady` is
about Services whose target names are not at odds with their port names.

### Where the code and its documentation disagree

Each of these runs ends in a counterexample; `findings` in `PROJECT.json` quotes the
sentence it contradicts.

- `engine_ensure`: the reload (or the directory sync) fails after the rename; the
  retry finds the file up to date and succeeds without a reload.
- `controller_unique`: the second of two allocations lists a cache without the
  status the first has just written; both publish the same address.
- `controller_cleanup`: a Service stops matching during its first reconcile. The
  next one reads a copy without the finalizer and returns; the event that shows
  the finalizer is filtered.
- `controller_return`: a Service leaves the controller, comes back during its cleanup
  and is deleted. The patch that removes the finalizer carries no resourceVersion and
  lands on the Service that matches again; the Service is gone, and the next
  reconcile, on a cached copy with the finalizer, calls Provider.Ensure. Without the
  edit that makes a Service match again the property holds in this run's bounds.
- `discovery_unnamed`: a Service with one unnamed port and a named target port.
  Its endpoint port has the empty name, which Discover accepts neither as the
  Service port's name nor as the target's.

Three more ways to a state nobody wants are in the models and are listed as
hazards: a Delete after an Ensure that failed behind the rename returns early and
leaves the Service in the file until the next request (the local provider, whose
Delete always applies, does not have this problem, see `SuccessIsWritten`); a
Service whose status update was refused may wait for an address while the provider
serves it at one that another Service was given; and a late PUT brings back a
Service in the dataplane after its deletion.

A restart of the dataplane empties its store, and nothing makes the controller
send the Services again before an event for them comes. The documentation says
that the state is kept in memory, so this is no disagreement;
`controller_safety` has such restarts, and `EventuallySettled` is about the
local provider, which restarts with the controller.

### Fairness

`Engine!FairSpec` has weak fairness of the process only: a process that is alive
goes on, and its external commands end, because they run under the request's
context. Nothing is assumed of HAProxy, of requests or of restarts.
`ServiceController!FairSpec` has weak fairness of the informers and of the worker, and
strong fairness of `Reconcile(s)` for each Service, because the work queue is
first in, first out and a key that waits is handed out although others come and
go. Faults are bounded, so retries succeed in the end. `DataplaneApi!FairSpec` has
weak fairness of the client, whose calls end by their timeout, of the server, and
of the return of the engine (`MutexIsReleased`), and strong fairness of `Lock(id)`:
a mutex of Go is handed over first in, first out once a goroutine has waited for a
millisecond. Nothing makes a client call, a request take effect, or a dataplane
restart.

## Proofs

`EngineProofs` proves, for all sets of Services, addresses and payloads, all
settings and any verdict of the validate command:

| theorem | statement |
|---|---|
| `TypeCorrect` | `Spec => []TypeOK` |
| `EngineInvariant` | `Spec => []EngineInv` |
| `AddressesStayAttached` | `Spec => []ServedAddressesAttached` |
| `ReloadsAreBindable` | `Spec => []ReloadIsBindable` |
| `AcceptedConfigsOnly` | `Spec => []OnlyAcceptedConfigs` |
| `SuccessHasConverged` | `Spec => SuccessConverges` |
| `EngineRefinesProvider` | `Spec => EngineImplementsProvider` |

The assumptions are the named ones of `ServiceState` and `Applier` about the
constants (`None`, `NoFile` and `Down` are not values, the settings are Boolean),
and `HostChanges`: the host does not take away an address that a Service uses.

None of the properties is inductive by itself. `ServedAddressesAttached` is kept
by a rollback only because the addresses attached by this request are not among
the stored Services', which in turn rests on how the attach loop got its list.
`EngineInv` says this in three parts beside the types:

- `ApplyInv`: what is renamed is what was validated, what is synced and reloaded
  is what was renamed, and the target is what the caller's Store renders to.
- `AddressInv`: in each phase, which addresses are on the interface, still to
  attach, attached by this request, or still to detach, and that the latter two
  never meet the Store that is being kept.
- `RequestInv`: the mutex is held exactly between `Lock` and the return, and
  `next` is the Store with the one change of the request. The refinement needs it.

Each part has an initial and a step lemma, with one step per action.
`ReloadsAreBindable` and `SuccessHasConverged` follow from `ApplyInv`, `AddressInv`
and the fact that a text binds only addresses its Store asks for
(`RenderedStore`). The refinement maps `services` to `store` and `call` to `op`.

The other proof modules, each for all values of the constants:

| module | theorem | statement |
|---|---|---|
| `LocalHAProxyProofs` | `TypeCorrect` | `Spec => []TypeOK` |
| | `AcceptedConfigsOnly` | `Spec => []OnlyAcceptedConfigs` |
| | `SuccessWritten` | `Spec => SuccessIsWritten` |
| | `LocalRefinesProvider` | `Spec => LocalImplementsProvider` |
| `IPManagerProofs` | `TypeCorrect` | `Spec => []TypeOK` |
| | `AtomicCalls` | `Spec => CallsAreAtomic` |
| `DataplaneApiProofs` | `TypeCorrect` | `Spec => []TypeOK` |
| | `CleanSuccess` | `Spec => []CleanSuccessHolds` |
| | `ApiRefinesRemote` | `Spec => ApiImplementsRemote` |
| `ReconcileProofs` | `BaseHolds`, `TypeCorrect` | `Spec => []Base`, `Spec => []TypeOK` |
| `AddressProofs` | `PublishedAlways` | `Spec => PublishedIsServed` |
| | `UniqueAlways` | `Spec => []UniqueUnlessBlind` |
| | `AddressesAreKept` | `Spec => AddressIsKept` |
| `ServiceControllerProofs` | `GuardedAlways` | `Spec => []ProviderStateIsGuarded` |
| `DiscoveryProofs` | `InvHolds` | `Spec => []Inv` |
| | `OrderNeverShows` | `Spec => []OrderIsImmaterial` |
| | `ReadyIsDiscovered` | `Spec => []DiscoversTheReady` |

Each rests on a theorem for its inductive invariant (`InvHolds`; `BaseHolds` and
`AddressInvHolds` for the first two of the controller's). The constants are
constrained by the named assumptions of the modules that declare them, and by nothing
else: users may do all edits, and the dataplane may restart.

- `LocalHAProxyProofs`: the argument of `ApplyInv` again, and `CallInv`, which ties
  `next` to the state with the one change of the call. The refinement ends the abstract
  call with the assignment of `p.services`, which is the moment it succeeds.
- `IPManagerProofs`: what the managers' steps have established when they get to an
  operation, and that the answers still possible are those of `AtomicAttach`.
- `DataplaneApiProofs`: an acknowledged Service has no request left anywhere that
  could change it (`AckedInv`), and a firm call has no abandoned request beside it
  for its Service (`FirmInv`). `CleanSuccessHolds` alone is not inductive: a late
  request would break it.
- `ReconcileProofs`: what holds of the controller whatever users do. `Follows` says
  that the last version of a Service that the cache gets is the stored one, so a
  cache with nothing on the way is up to date. `Copied` says what a reconcile knows of
  its copy: it is the stored object as long as it is current, and the address at
  hand is one of the pool. The controller's types need `Copied`, because the address
  that reaches the provider is the one Allocate chose, and the other two modules need
  both parts.
- `AddressProofs`: `StepChanges` lists what a step can make of an ingress list, over
  all actions; the three theorems are read off it. `PublishedAlways` needs
  `Publishing`, that between Provider.Ensure and the status update the provider
  has the Service with the address to publish, or the Service is disturbed.
  `UniqueUnlessBlind` is not inductive: an allocation chooses an address some
  steps before its Service publishes it. `Chosen` covers the time between: nobody
  else holds the chosen address, and if the status update can still succeed (the
  copy is current), the Service holds no other one. `FromPool` is needed because
  collectUsedIPs counts, and Allocate reuses, addresses of the pool only. A Service that
  matches again brings an address back that may have been given to another one: this
  is where the proof needs `returned = {}`. Other implementations may publish in the
  status of Services that are not the controller's.
- `ServiceControllerProofs`: Reconcile decides on a cached copy and
  its patches of the finalizer carry no resourceVersion, so the invariant is about all
  versions of a Service that the cache still has before it. `Ordered` says which may
  follow which: a version that is served without touching the finalizer (`Kept`) is
  never followed by one without it, nor one from which the finalizer will be taken
  (`Doomed`) by a kept one, and the finalizer goes only when the cache has reached
  the doomed versions. `Relies` says for each label of `pc` what the reconcile relies
  on, and `Covered` is the property itself, all three for one Service (`InvOf`). The
  invariant is `InvOf` for every Service that is not in `returned`: one that matches again
  makes a kept version follow a doomed one.

- `DiscoveryProofs`: for any ports with distinct names, any slices with typed fields,
  and any number of them. The invariant says that the listing holds slices that the
  endpoint slice controller makes for these ports (`Derived`), and that `discovered` is
  what `Discover` returns for it. The rest is about the operators. The turns are
  finitely many and totally ordered (`TurnsFinite`, `EarlierTotal`), so among those
  with one backend there is a first one (`FirstTurn`): the map `seen` keeps each
  backend once. The places of the turns in the sort differ and lie between 1 and
  their number, hence they are all of these numbers (`Ranks`), and the result is the
  set of backends found, in the order of addresses and ports
  (`PortBackendsInOrder`). This set depends only on which slices are listed
  (`SameElements`), which gives `OrderNeverShows`. That it is the one Kubernetes
  means is `FindsTheReady`; it rests on `MatchedPorts`, that an endpoint port accepted
  by the target's name or number is the Service port's own or has the same number as
  its own. There the proof needs distinct port names, `Derived` and the condition
  `PlainlyNamed` of the property. Loops as sets of turns, and a sort as ranks, are
  what makes the proof possible: a fold over sequences would call for an induction
  over data.

Only model-checked: liveness (`MutexIsReleased`, `WaitersAreServed`,
`EventuallySettled`), which is out of the prover's reach.

## Not modelled

- The text of the HAProxy configuration. `sanitizeIdentifier` may give two Services
  the same identifier; what the engine does with an aggregate that the validate
  command refuses is modelled, when it happens is not.
- Finalizers of others, which a merge patch made from an old copy may drop.
- Deletion of secondary addresses with a primary one, which Linux does for prefix
  lengths below 32.
- Parsing of settings (`internal/config`, `internal/dataplane/config.go`), logging,
  metrics and the health endpoints: no state of the system depends on them after
  the start.
- Traffic through HAProxy, and leader election: one controller process is assumed.
