----------------------------- MODULE LocalHAProxy -----------------------------
(***************************************************************************)
(* The local HAProxy provider (internal/provider/haproxy/provider.go): the *)
(* desired state in the memory of the controller process, and the applier  *)
(* that brings it to a file on the same host.  It attaches no addresses,   *)
(* has no bootstrap, and validates a Service only when it renders.         *)
(*                                                                         *)
(* As in Engine, op is the call that holds the mutex.  HAProxy is run by   *)
(* somebody else, who also decides which addresses it can bind.            *)
(***************************************************************************)
EXTENDS Applier

VARIABLES
    services, \* p.services
    op,       \* the call that holds the mutex
    next,     \* its nextState
    phase,    \* where the call stands
    reply     \* how the last call ended

providerVars == <<services, op, next, phase, reply>>
vars == <<applierVars, providerVars>>

Request == [kind : {"ensure"}, ref : Ref, val : Value]
             \cup [kind : {"delete"}, ref : Ref, val : {None}]
NoOp == [kind |-> "none"]

\* Every variable has its type, and the provider never keeps a Service that
\* Render refuses.
TypeOK ==
    /\ ApplierTypeOK
    /\ services \in Config
    /\ \A r \in Ref : Has(services, r) => ValidateService(services[r])
    /\ op \in Request \cup {NoOp}
    /\ next \in Config
    /\ phase \in {"idle", "locked", "apply", "done"}
    /\ reply \in {"none", "ok", "error"}

Init ==
    /\ ApplierInit
    /\ services = EmptyConfig
    /\ op = NoOp
    /\ next = EmptyConfig
    /\ phase = "idle"
    /\ reply = "none"

-----------------------------------------------------------------------------
Lock(req) ==
    /\ phase = "idle"
    /\ phase' = "locked"
    /\ op' = req
    /\ reply' = "none"
    /\ UNCHANGED <<applierVars, services, next>>

\* The call returns: the mutex is free, nextState is gone.
Finish(answer) ==
    /\ phase' = "idle"
    /\ op' = NoOp
    /\ next' = EmptyConfig
    /\ reply' = answer

\* Mutant: Render leaves the validation to its callers.
RenderableConfig_Any(config) == TRUE

\* Render refuses the aggregate configuration for any Service in it.
RenderableConfig(config) == \A r \in Ref : Has(config, r) => ValidateService(config[r])

\* p.apply: Applier.Apply renders first, and an error there touches nothing.
ApplyState(config) ==
    \/ /\ RenderableConfig(config)
       /\ phase' = "apply"
       /\ next' = config
       /\ Call(config, TRUE)
       /\ UNCHANGED <<op, reply>>
    \/ /\ ~RenderableConfig(config)
       /\ Finish("error")
       /\ UNCHANGED applierVars

\* Mutant: the state itself is changed, not a clone of it.
Ensure_InPlace ==
    /\ phase = "locked"
    /\ op.kind = "ensure"
    /\ ApplyState(Upsert(services, op.ref, op.val))
    /\ services' = Upsert(services, op.ref, op.val)

\* Ensure and Delete up to the applier, on a clone of the state.
Ensure ==
    /\ phase = "locked"
    /\ op.kind = "ensure"
    /\ ApplyState(Upsert(services, op.ref, op.val))
    /\ UNCHANGED services

\* Mutant: Delete is done when the provider has no such Service.
Delete_ReturnsEarly ==
    /\ phase = "locked"
    /\ op.kind = "delete"
    /\ \/ Has(services, op.ref) /\ ApplyState(Remove(services, op.ref))
       \/ ~Has(services, op.ref) /\ Finish("ok") /\ UNCHANGED applierVars
    /\ UNCHANGED services

Delete ==
    /\ phase = "locked"
    /\ op.kind = "delete"
    /\ ApplyState(Remove(services, op.ref))
    /\ UNCHANGED services

\* The applier is done: the state is replaced, unless it failed.
Commit ==
    /\ phase = "apply"
    /\ step \in {"unchanged", "applied"}
    /\ phase' = "done"
    /\ services' = next
    /\ Return
    /\ UNCHANGED <<op, next, reply>>

ApplyFails ==
    /\ phase = "apply"
    /\ step = "failed"
    /\ Finish("error")
    /\ Return
    /\ UNCHANGED services

Done ==
    /\ phase = "done"
    /\ Finish("ok")
    /\ UNCHANGED <<applierVars, services>>

-----------------------------------------------------------------------------
\* The controller process dies and starts again with NewProvider.
Restart ==
    /\ ApplierDies
    /\ services' = EmptyConfig
    /\ op' = NoOp
    /\ next' = EmptyConfig
    /\ phase' = "idle"
    /\ reply' = "none"

ApplierStep ==
    /\ phase = "apply"
    /\ \E bindable \in BOOLEAN : ApplierNext(bindable)
    /\ UNCHANGED providerVars

HAProxy ==
    /\ HAProxyStarts(TRUE) \/ HAProxyExits
    /\ UNCHANGED providerVars

Next ==
    \/ \E req \in Request : Lock(req)
    \/ Ensure \/ Delete \/ ApplierStep \/ Commit \/ ApplyFails \/ Done
    \/ Restart \/ HAProxy

Spec == Init /\ [][Next]_vars

-----------------------------------------------------------------------------
\* A call that succeeds leaves the file with what the provider's state renders
\* to and without the Service of a Delete, although earlier calls may have
\* failed after the file was replaced, and earlier processes may have left a
\* file of which this one knows nothing (Delete always applies).
SuccessIsWritten ==
    [][(op # NoOp /\ reply' = "ok") =>
          /\ file' = Render(services')
          /\ file'.frontends[op.ref] = RenderService(op.val)]_vars

\* With a validate command, only configurations it accepted reach the active
\* file and HAProxy, across failures and restarts of the controller.
OnlyAcceptedConfigs ==
    ValidateCommand => /\ file # NoFile => Accepts(file)
                       /\ running # Down => Accepts(running)

\* The call as a strict provider has it: over when the state is replaced, which
\* nothing that could fail comes after.
AbstractProvider ==
    INSTANCE Provider WITH
        call <- IF phase = "done" THEN NoOp ELSE op,
        reply <- IF phase = "done" THEN "ok" ELSE reply

\* The provider keeps the strict promise of module Provider: the state changes
\* only with the success of a call, so that a call that fails, in Render or
\* anywhere in the applier, leaves the desired state as it was; one Service's
\* call leaves the others alone.
LocalImplementsProvider == AbstractProvider!StrictSpec
=============================================================================
