------------------------------- MODULE Engine -------------------------------
(***************************************************************************)
(* The dataplane engine (internal/dataplane/engine.go) with its applier,   *)
(* its IP manager and the process around it (cmd/dataplane/main.go).       *)
(*                                                                         *)
(* A request holds the engine's mutex from the clone of the store to its   *)
(* return, so at most one request is inside (op); the ones that wait have  *)
(* no effect and are not represented.  Inside the mutex every call that    *)
(* reaches the host is a step of its own: it may fail, the process may die *)
(* before the next one, HAProxy may start or exit in between.              *)
(***************************************************************************)
EXTENDS Applier, IPAttach

VARIABLES
    phase,    \* where the process or the request stands
    store,    \* e.store
    op,       \* the request that holds the mutex
    next,     \* its nextStore
    newIPs,   \* its addresses still to attach
    newly,    \* its newlyAttached
    staleIPs, \* its addresses still to detach
    reply     \* how the last request ended

engineVars == <<phase, store, op, next, newIPs, newly, staleIPs, reply>>
vars == <<applierVars, attached, engineVars>>

Request == [kind : {"ensure"}, ref : Ref, val : Value]
             \cup [kind : {"delete"}, ref : Ref, val : {None}]
NoOp == [kind |-> "none"]

Booting == {"start", "bootstrap"}
InReconcile == {"list", "attach", "apply", "detach", "rollback"}
Phases == Booting \cup {"idle", "locked"} \cup InReconcile

\* Every variable has its type.
TypeOK ==
    /\ ApplierTypeOK
    /\ attached \subseteq IP
    /\ phase \in Phases
    /\ store \in Config
    /\ op \in Request \cup {NoOp}
    /\ next \in Config
    /\ newIPs \subseteq IP
    /\ newly \subseteq IP
    /\ staleIPs \subseteq IP
    /\ reply \in {"none", "ok", "error"}

\* A fresh pod on a host whose interface has the addresses of initial.
InitWith(initial) ==
    /\ ApplierInit
    /\ attached = initial
    /\ phase = "start"
    /\ store = EmptyConfig
    /\ op = NoOp
    /\ next = EmptyConfig
    /\ newIPs = {}
    /\ newly = {}
    /\ staleIPs = {}
    /\ reply = "none"

\* The addresses of an earlier pod, or of the host itself, may be there.
Init == \E initial \in SUBSET IP : InitWith(initial)

-----------------------------------------------------------------------------
\* main calls engine.Bootstrap before it listens.
Bootstrap ==
    /\ phase = "start"
    /\ phase' = "bootstrap"
    /\ Call(EmptyConfig, ShouldReloadOnBootstrap)
    /\ UNCHANGED <<attached, store, op, next, newIPs, newly, staleIPs, reply>>

BootstrapDone ==
    /\ phase = "bootstrap"
    /\ step \in {"unchanged", "applied"}
    /\ phase' = "idle"
    /\ Return
    /\ UNCHANGED <<attached, store, op, next, newIPs, newly, staleIPs, reply>>

\* A request gets the mutex.  Ensure asks for it only with a Service that
\* validates; one that does not is refused without any effect.
Lock(req) ==
    /\ phase = "idle"
    /\ req.kind = "ensure" => ValidateService(req.val)
    /\ phase' = "locked"
    /\ op' = req
    /\ reply' = "none"
    /\ UNCHANGED <<applierVars, attached, store, next, newIPs, newly, staleIPs>>

\* The request returns: the mutex is free, its locals are gone.
Finish(answer) ==
    /\ phase' = "idle"
    /\ op' = NoOp
    /\ next' = EmptyConfig
    /\ newIPs' = {}
    /\ newly' = {}
    /\ staleIPs' = {}
    /\ reply' = answer

\* Ensure up to reconcileLocked.
Ensure ==
    /\ phase = "locked"
    /\ op.kind = "ensure"
    /\ phase' = "list"
    /\ next' = Upsert(store, op.ref, op.val)
    /\ UNCHANGED <<applierVars, attached, store, op, newIPs, newly, staleIPs, reply>>

\* Mutant: the early return of Delete, when the Service is not stored, leaves
\* the mutex locked, so the request never comes to its end.
Delete_KeepsMutex ==
    /\ phase = "locked"
    /\ op.kind = "delete"
    /\ Has(store, op.ref)
    /\ phase' = "list"
    /\ next' = Remove(store, op.ref)
    /\ UNCHANGED <<applierVars, attached, store, op, newIPs, newly, staleIPs, reply>>

\* Delete up to reconcileLocked: a Service that is not stored is done.
Delete ==
    /\ phase = "locked"
    /\ op.kind = "delete"
    /\ \/ /\ Has(store, op.ref)
          /\ phase' = "list"
          /\ next' = Remove(store, op.ref)
          /\ UNCHANGED <<op, newIPs, newly, staleIPs, reply>>
       \/ ~Has(store, op.ref) /\ Finish("ok")
    /\ UNCHANGED <<applierVars, attached, store>>

\* Mutant: a failed request rolls back every address it wanted.
ListAttached_RollsBackAll ==
    /\ phase = "list"
    /\ \/ /\ phase' = "attach"
          /\ newIPs' = DesiredExternalIPs(next) \ attached
          /\ staleIPs' = attached \ DesiredExternalIPs(next)
          /\ newly' = DesiredExternalIPs(next)
          /\ UNCHANGED <<op, next, reply>>
       \/ Finish("error")
    /\ UNCHANGED <<applierVars, attached, store>>

\* reconcileLocked lists the interface and computes both differences.
ListAttached ==
    /\ phase = "list"
    /\ \/ /\ phase' = "attach"
          /\ newIPs' = DesiredExternalIPs(next) \ attached
          /\ staleIPs' = attached \ DesiredExternalIPs(next)
          /\ UNCHANGED <<op, next, newly, reply>>
       \/ Finish("error")
    /\ UNCHANGED <<applierVars, attached, store>>

\* One round of the attach loop.  The code goes through the addresses in
\* ascending order; any order is allowed here.
Attach(ip) ==
    /\ phase = "attach"
    /\ ip \in newIPs
    /\ \/ \E changed \in BOOLEAN :
            /\ EnsurePresent(ip, changed)
            /\ newly' = IF changed THEN newly \cup {ip} ELSE newly
            /\ newIPs' = newIPs \ {ip}
            /\ UNCHANGED phase
       \/ /\ EnsurePresentFails(ip)
          /\ phase' = "rollback"
          /\ UNCHANGED <<newly, newIPs>>
    /\ UNCHANGED <<applierVars, store, op, next, staleIPs, reply>>

\* Mutant: Apply does not wait for the attach loop.
Apply_Early ==
    /\ phase = "attach"
    /\ phase' = "apply"
    /\ Call(next, TRUE)
    /\ UNCHANGED <<attached, store, op, next, newIPs, newly, staleIPs, reply>>

\* The attach loop is over: applier.Apply.
Apply ==
    /\ phase = "attach"
    /\ newIPs = {}
    /\ phase' = "apply"
    /\ Call(next, TRUE)
    /\ UNCHANGED <<attached, store, op, next, newIPs, newly, staleIPs, reply>>

Commit ==
    /\ phase = "apply"
    /\ step \in {"unchanged", "applied"}
    /\ phase' = "detach"
    /\ store' = next
    /\ Return
    /\ UNCHANGED <<attached, op, next, newIPs, newly, staleIPs, reply>>

ApplyFails ==
    /\ phase = "apply"
    /\ step = "failed"
    /\ phase' = "rollback"
    /\ Return
    /\ UNCHANGED <<attached, store, op, next, newIPs, newly, staleIPs, reply>>

\* One round of rollbackAttachedExternalIPs, which goes on after an error.
Rollback(ip) ==
    /\ phase = "rollback"
    /\ ip \in newly
    /\ EnsureAbsent(ip) \/ EnsureAbsentFails(ip)
    /\ newly' = newly \ {ip}
    /\ UNCHANGED <<applierVars, phase, store, op, next, newIPs, staleIPs, reply>>

\* Mutant: the error of a rollback without errors replaces the request's.
RollbackDone_ReportsOwn ==
    /\ phase = "rollback"
    /\ newly = {}
    /\ Finish("ok")
    /\ UNCHANGED <<applierVars, attached, store>>

RollbackDone ==
    /\ phase = "rollback"
    /\ newly = {}
    /\ Finish("error")
    /\ UNCHANGED <<applierVars, attached, store>>

\* Mutant: the detach loop goes on after an error and forgets it.
Detach_Swallows(ip) ==
    /\ phase = "detach"
    /\ ip \in staleIPs
    /\ EnsureAbsent(ip) \/ EnsureAbsentFails(ip)
    /\ staleIPs' = staleIPs \ {ip}
    /\ UNCHANGED <<applierVars, phase, store, op, next, newIPs, newly, reply>>

\* One round of the detach loop, which stops at the first error.
Detach(ip) ==
    /\ phase = "detach"
    /\ ip \in staleIPs
    /\ \/ /\ EnsureAbsent(ip)
          /\ staleIPs' = staleIPs \ {ip}
          /\ UNCHANGED <<phase, op, next, newIPs, newly, reply>>
       \/ EnsureAbsentFails(ip) /\ Finish("error")
    /\ UNCHANGED <<applierVars, store>>

DetachDone ==
    /\ phase = "detach"
    /\ staleIPs = {}
    /\ Finish("ok")
    /\ UNCHANGED <<applierVars, attached, store>>

-----------------------------------------------------------------------------
\* The memory of a process that dies: nothing of it is persisted.
LoseMemory ==
    /\ phase' = "start"
    /\ store' = EmptyConfig
    /\ op' = NoOp
    /\ next' = EmptyConfig
    /\ newIPs' = {}
    /\ newly' = {}
    /\ staleIPs' = {}
    /\ reply' = "none"
    /\ UNCHANGED attached

\* The dataplane container dies, or main exits because Bootstrap failed, and
\* is restarted on the same volume.
Restart ==
    /\ phase # "start"
    /\ ApplierDies
    /\ LoseMemory

\* The pod is replaced: the volume is new, the interface is the host's.
PodReplaced ==
    /\ file' = NoFile
    /\ candidate' = NoFile
    /\ litter' = FALSE
    /\ pidFile' = FALSE
    /\ running' = Down
    /\ step' = "ready"
    /\ target' = BootstrapText
    /\ reload' = FALSE
    /\ LoseMemory

\* HAProxy can bind the addresses of the file that are on the interface.
Bindable == file # NoFile /\ BoundIPs(file) \subseteq attached

HAProxy == HAProxyStarts(Bindable) \/ HAProxyExits

\* The host changes its own addresses, and takes none away that a Service
\* uses or is about to use.
HostChanges ==
    /\ \E ip \in IP : \/ HostAdds(ip)
                      \/ /\ ip \notin DesiredExternalIPs(store) \cup DesiredExternalIPs(next)
                         /\ HostRemoves(ip)
    /\ UNCHANGED <<applierVars, engineVars>>

ApplierStep ==
    /\ phase \in {"bootstrap", "apply"}
    /\ ApplierNext(Bindable)
    /\ UNCHANGED <<attached, engineVars>>

Process ==
    \/ Bootstrap \/ BootstrapDone
    \/ ApplierStep
    \/ Ensure \/ Delete \/ ListAttached
    \/ \E ip \in IP : Attach(ip) \/ Rollback(ip) \/ Detach(ip)
    \/ Apply \/ Commit \/ ApplyFails \/ RollbackDone \/ DetachDone

Next ==
    \/ Process
    \/ \E req \in Request : Lock(req)
    \/ Restart \/ PodReplaced
    \/ HAProxy /\ UNCHANGED <<attached, engineVars>>
    \/ HostChanges

Spec == Init /\ [][Next]_vars

\* The process runs while it is alive: its calls return, because the request's
\* context ends commands that hang.  Nothing is assumed of the rest.
FairSpec == Spec /\ WF_vars(Process)

-----------------------------------------------------------------------------
\* Every address that a stored Service uses is on the interface, in the
\* middle of a request too: neither the rollback of a failed request nor the
\* detach loop of a successful one takes an address from another Service
\* (reconcileLocked and rollbackAttachedExternalIPs).
ServedAddressesAttached == DesiredExternalIPs(store) \subseteq attached

\* When HAProxy is told to reload, every address the new file binds is on the
\* interface: attaching comes before Apply, detaching after it.
ReloadIsBindable == step = "reload" => Bindable

\* With a validate command, only configurations it accepted reach the active
\* file and HAProxy, whatever fails and whenever the process dies.
OnlyAcceptedConfigs ==
    ValidateCommand => /\ file # NoFile => Accepts(file)
                       /\ running # Down => Accepts(running)

\* A reconcileLocked that returns without an error leaves the interface with
\* exactly the addresses of the stored Services (the host's own aside) and the
\* file with what the store renders to, whatever earlier failed requests,
\* earlier processes or earlier pods left behind.
SuccessConverges ==
    [][(phase = "detach" /\ phase' = "idle" /\ reply' = "ok") =>
          /\ attached' \ HostAddrs = DesiredExternalIPs(store') \ HostAddrs
          /\ file' = Render(store')]_vars

\* The engine is a provider: its store changes by whole calls, a call that
\* succeeds has taken effect, one Service's call leaves the others alone.
AbstractProvider == INSTANCE Provider WITH services <- store, call <- op

EngineImplementsProvider == AbstractProvider!ProviderSpec

\* Every request that gets the mutex gives it back: the attach, rollback and
\* detach loops end on all their error paths.
MutexIsReleased == (op # NoOp) ~> (op = NoOp)

\* A Service whose Ensure succeeded is what a live HAProxy serves for it
\* ("Ensure makes the desired Service state present").
EnsureMakesPresent ==
    [][(op # NoOp /\ op.kind = "ensure" /\ reply' = "ok" /\ running # Down) =>
          running.frontends[op.ref] = RenderService(op.val)]_vars
=============================================================================
