---------------------------- MODULE EngineProofs ----------------------------
(***************************************************************************)
(* Proofs about module Engine, for any Services, addresses and payloads,   *)
(* any validate command and any settings.                                  *)
(***************************************************************************)
EXTENDS Engine, TLAPS

\* An empty Store is a Store and asks for no address.
LEMMA EmptyStore == EmptyConfig \in Config /\ DesiredExternalIPs(EmptyConfig) = {}
BY DEF EmptyConfig, Config, DesiredExternalIPs, Has

\* Upsert and Delete keep the shape of a Store.
LEMMA StoreUpdates ==
    ASSUME NEW c \in Config, NEW r \in Ref, NEW v \in Value
    PROVE  Upsert(c, r, v) \in Config /\ Remove(c, r) \in Config
BY DEF Config, Upsert, Remove

\* Render makes a configuration text of every Store, and binds only addresses
\* the Store asks for.
LEMMA RenderedStore ==
    ASSUME NEW c \in Config
    PROVE  Render(c) \in Rendered /\ BoundIPs(Render(c)) \subseteq DesiredExternalIPs(c)
<1>1. Render(c) \in Rendered
  BY DEF Render, Rendered, RenderService, Config
<1>2. Render(c).frontends = [r \in Ref |-> RenderService(c[r])]
  BY DEF Render
<1>3. \A r \in Ref : RenderService(c[r]) # None => RenderService(c[r]) = c[r] /\ c[r] # None
  BY DEF RenderService
<1> QED
  BY <1>1, <1>2, <1>3 DEF BoundIPs, DesiredExternalIPs, Has

\* The configuration of Bootstrap is a configuration text that binds nothing.
LEMMA BootstrapRendered == BootstrapText \in Rendered /\ BoundIPs(BootstrapText) = {}
BY EmptyStore, RenderedStore DEF BootstrapText

-----------------------------------------------------------------------------
\* The applier's variables keep their types when applyRenderedConfig goes on.
LEMMA ApplierStepType ==
    ASSUME ApplierTypeOK, ApplierNext(Bindable)
    PROVE  ApplierTypeOK'
<1>1. CASE Compare
  BY <1>1 DEF ApplierTypeOK, Compare, Goto, Abort, Steps, Working, Returned
<1>2. CASE WriteCandidateFile
  BY <1>2 DEF ApplierTypeOK, WriteCandidateFile, Goto, Abort, Steps, Working, Returned
<1>3. CASE Validate
  BY <1>3 DEF ApplierTypeOK, Validate, Goto, Abort, Steps, Working, Returned
<1>4. CASE Rename
  BY <1>4 DEF ApplierTypeOK, Rename, Goto, Abort, Steps, Working, Returned
<1>5. CASE SyncDir
  BY <1>5 DEF ApplierTypeOK, SyncDir, Goto, Steps, Working, Returned
<1>6. CASE Reload(Bindable)
  BY <1>6 DEF ApplierTypeOK, Reload, HAProxyReloads, Bindable, Goto, Steps, Working, Returned
<1> QED
  BY <1>1, <1>2, <1>3, <1>4, <1>5, <1>6 DEF ApplierNext

-----------------------------------------------------------------------------
\* Type correctness: every step of the engine, of HAProxy and of the host keeps
\* the types of the variables.
THEOREM TypeCorrect == Spec => []TypeOK
<1>1. Init => TypeOK
  BY EmptyStore, BootstrapRendered
     DEF Init, InitWith, ApplierInit, TypeOK, ApplierTypeOK, Phases, Booting, Steps
<1>2. TypeOK /\ [Next]_vars => TypeOK'
  <2> SUFFICES ASSUME TypeOK, [Next]_vars PROVE TypeOK'
    OBVIOUS
  <2> USE EmptyStore, BootstrapRendered DEF TypeOK, Phases, Booting, InReconcile
  <2>1. CASE Bootstrap
    BY <2>1, RenderedStore
       DEF Bootstrap, Call, ApplierTypeOK, ShouldReloadOnBootstrap, SettingsAssumption, Steps, Working
  <2>2. CASE BootstrapDone
    BY <2>2 DEF BootstrapDone, Return, ApplierTypeOK, Steps
  <2>3. CASE ApplierStep
    BY <2>3, ApplierStepType DEF ApplierStep, engineVars
  <2>4. CASE Ensure
    <3>1. op \in Request /\ op.val \in Value /\ op.ref \in Ref
      BY <2>4 DEF Ensure, Request, NoOp
    <3> QED
      BY <2>4, <3>1, StoreUpdates DEF Ensure, applierVars, ApplierTypeOK
  <2>5. CASE Delete
    <3>1. op \in Request /\ op.ref \in Ref
      BY <2>5 DEF Delete, Request, NoOp
    <3>2. Remove(store, op.ref) \in Config
      BY <3>1 DEF Remove, Config
    <3> QED
      BY <2>5, <3>1, <3>2 DEF Delete, Finish, applierVars, ApplierTypeOK
  <2>6. CASE ListAttached
    BY <2>6 DEF ListAttached, Finish, DesiredExternalIPs, applierVars, ApplierTypeOK
  <2>7. ASSUME NEW ip \in IP, Attach(ip) PROVE TypeOK'
    BY <2>7 DEF Attach, EnsurePresent, EnsurePresentFails, applierVars, ApplierTypeOK
  <2>8. ASSUME NEW ip \in IP, Rollback(ip) PROVE TypeOK'
    BY <2>8 DEF Rollback, EnsureAbsent, EnsureAbsentFails, applierVars, ApplierTypeOK
  <2>9. ASSUME NEW ip \in IP, Detach(ip) PROVE TypeOK'
    BY <2>9 DEF Detach, Finish, EnsureAbsent, EnsureAbsentFails, applierVars, ApplierTypeOK
  <2>10. CASE Apply
    BY <2>10, RenderedStore DEF Apply, Call, ApplierTypeOK, Steps, Working
  <2>11. CASE Commit
    BY <2>11 DEF Commit, Return, ApplierTypeOK, Steps
  <2>12. CASE ApplyFails
    BY <2>12 DEF ApplyFails, Return, ApplierTypeOK, Steps
  <2>13. CASE RollbackDone
    BY <2>13 DEF RollbackDone, Finish, applierVars, ApplierTypeOK
  <2>14. CASE DetachDone
    BY <2>14 DEF DetachDone, Finish, applierVars, ApplierTypeOK
  <2>15. ASSUME NEW req \in Request, Lock(req) PROVE TypeOK'
    BY <2>15 DEF Lock, applierVars, ApplierTypeOK
  <2>16. CASE Restart
    BY <2>16 DEF Restart, ApplierDies, LoseMemory, ApplierTypeOK, Steps
  <2>17. CASE PodReplaced
    BY <2>17 DEF PodReplaced, LoseMemory, ApplierTypeOK, Steps
  <2>18. CASE HAProxy /\ UNCHANGED <<attached, engineVars>>
    BY <2>18 DEF HAProxy, HAProxyStarts, HAProxyExits, ApplierTypeOK, engineVars
  <2>19. CASE HostChanges
    BY <2>19 DEF HostChanges, HostAdds, HostRemoves, applierVars, engineVars, ApplierTypeOK
  <2>20. CASE UNCHANGED vars
    BY <2>20 DEF vars, applierVars, engineVars, ApplierTypeOK
  <2> QED
    BY <2>1, <2>2, <2>3, <2>4, <2>5, <2>6, <2>7, <2>8, <2>9, <2>10, <2>11, <2>12,
       <2>13, <2>14, <2>15, <2>16, <2>17, <2>18, <2>19, <2>20 DEF Next, Process
<1> QED
  BY <1>1, <1>2, PTL DEF Spec

-----------------------------------------------------------------------------
\* Where applyRenderedConfig stands, and what the files hold there: the
\* candidate is the rendered target and was accepted before the rename, the
\* active file is the target after it.
ApplyInv ==
    /\ step # "ready" => phase \in {"bootstrap", "apply"}
    /\ phase = "bootstrap" => target = BootstrapText
    /\ phase = "apply" => target = Render(next)
    /\ step \in {"validate", "rename"} => candidate = target
    /\ (step = "rename" /\ ValidateCommand) => Accepts(candidate)
    /\ step \in {"sync", "reload", "unchanged", "applied"} => file = target
    /\ OnlyAcceptedConfigs

\* Which addresses are on the interface during reconcileLocked: the stored
\* Services' always, so newIPs and newly never meet them; the next Store's when
\* the attach loop is over; nothing else but what is still to be detached.
AddressInv ==
    /\ ServedAddressesAttached
    /\ phase \in Booting \cup {"idle", "locked", "list"} => newly = {}
    /\ phase = "attach" =>
          /\ newIPs \subseteq DesiredExternalIPs(next) \ DesiredExternalIPs(store)
          /\ DesiredExternalIPs(next) \subseteq attached \cup newIPs
    /\ phase \in {"attach", "apply", "rollback"} => newly \cap DesiredExternalIPs(store) = {}
    /\ phase = "apply" => DesiredExternalIPs(next) \subseteq attached
    /\ phase \in {"attach", "apply", "detach"} =>
          /\ staleIPs \cap DesiredExternalIPs(next) = {}
          /\ attached \subseteq DesiredExternalIPs(next) \cup staleIPs \cup HostAddrs
    /\ phase = "detach" => store = next /\ file = Render(next)

\* What the request that holds the mutex is about to do to the Store.
RequestInv ==
    /\ phase \in Booting \cup {"idle"} <=> op = NoOp
    /\ phase \in {"list", "attach", "apply"} => next = [store EXCEPT ![op.ref] = op.val]
    /\ phase = "detach" => store[op.ref] = op.val

EngineInv == TypeOK /\ ApplyInv /\ AddressInv /\ RequestInv

-----------------------------------------------------------------------------
\* A fresh pod has no candidate, no file and no apply in progress.
LEMMA ApplyInvInit == Init => ApplyInv
BY EmptyStore DEF Init, InitWith, ApplierInit, ApplyInv, OnlyAcceptedConfigs

\* Every step of the engine keeps the order of applyRenderedConfig: what is
\* renamed is what was validated, and what is reloaded is what was renamed.
LEMMA ApplyInvStep == TypeOK /\ ApplyInv /\ [Next]_vars => ApplyInv'
<1> SUFFICES ASSUME TypeOK, ApplyInv, [Next]_vars PROVE ApplyInv'
  OBVIOUS
<1> USE DEF ApplyInv, OnlyAcceptedConfigs
<1>1. CASE Bootstrap
  BY <1>1 DEF Bootstrap, Call, BootstrapText
<1>2. CASE BootstrapDone
  BY <1>2 DEF BootstrapDone, Return
<1>3. CASE ApplierStep
  <2> USE <1>3 DEF ApplierStep, engineVars, Goto
  <2>1. CASE Compare
    BY <2>1 DEF Compare, RenderedConfigMatchesCurrentFile, Abort
  <2>2. CASE WriteCandidateFile
    BY <2>2 DEF WriteCandidateFile, Abort
  <2>3. CASE Validate
    BY <2>3 DEF Validate, Abort
  <2>4. CASE Rename
    BY <2>4 DEF Rename, Abort
  <2>5. CASE SyncDir
    BY <2>5 DEF SyncDir
  <2>6. CASE Reload(Bindable)
    BY <2>6 DEF Reload, HAProxyReloads, Bindable
  <2> QED
    BY <2>1, <2>2, <2>3, <2>4, <2>5, <2>6 DEF ApplierNext
<1>4. CASE Ensure
  BY <1>4 DEF Ensure, applierVars
<1>5. CASE Delete
  BY <1>5 DEF Delete, Finish, applierVars
<1>6. CASE ListAttached
  BY <1>6 DEF ListAttached, Finish, applierVars
<1>7. ASSUME NEW ip \in IP, Attach(ip) PROVE ApplyInv'
  BY <1>7 DEF Attach, applierVars
<1>8. ASSUME NEW ip \in IP, Rollback(ip) PROVE ApplyInv'
  BY <1>8 DEF Rollback, applierVars
<1>9. ASSUME NEW ip \in IP, Detach(ip) PROVE ApplyInv'
  BY <1>9 DEF Detach, Finish, applierVars
<1>10. CASE Apply
  BY <1>10 DEF Apply, Call
<1>11. CASE Commit
  BY <1>11 DEF Commit, Return
<1>12. CASE ApplyFails
  BY <1>12 DEF ApplyFails, Return
<1>13. CASE RollbackDone
  BY <1>13 DEF RollbackDone, Finish, applierVars
<1>14. CASE DetachDone
  BY <1>14 DEF DetachDone, Finish, applierVars
<1>15. ASSUME NEW req \in Request, Lock(req) PROVE ApplyInv'
  BY <1>15 DEF Lock, applierVars
<1>16. CASE Restart
  BY <1>16 DEF Restart, ApplierDies, LoseMemory
<1>17. CASE PodReplaced
  BY <1>17 DEF PodReplaced, LoseMemory
<1>18. CASE HAProxy /\ UNCHANGED <<attached, engineVars>>
  BY <1>18 DEF HAProxy, HAProxyStarts, HAProxyExits, Bindable, engineVars
<1>19. CASE HostChanges
  BY <1>19 DEF HostChanges, applierVars, engineVars
<1>20. CASE UNCHANGED vars
  BY <1>20 DEF vars, applierVars, engineVars
<1> QED
  BY <1>1, <1>2, <1>3, <1>4, <1>5, <1>6, <1>7, <1>8, <1>9, <1>10, <1>11, <1>12,
     <1>13, <1>14, <1>15, <1>16, <1>17, <1>18, <1>19, <1>20 DEF Next, Process

-----------------------------------------------------------------------------
\* A new engine has an empty Store, so any addresses will do.
LEMMA AddressInvInit == Init => AddressInv
BY EmptyStore DEF Init, InitWith, AddressInv, ServedAddressesAttached, Booting

\* Every step of reconcileLocked, and every death in the middle of it, keeps
\* the stored Services' addresses and leaves the others where they are tracked.
LEMMA AddressInvStep == TypeOK /\ ApplyInv /\ AddressInv /\ [Next]_vars => AddressInv'
<1> SUFFICES ASSUME TypeOK, ApplyInv, AddressInv, [Next]_vars PROVE AddressInv'
  OBVIOUS
<1> USE DEF AddressInv, ServedAddressesAttached, Booting
<1>1. CASE Bootstrap
  BY <1>1 DEF Bootstrap, Call
<1>2. CASE BootstrapDone
  BY <1>2 DEF BootstrapDone, Return
<1>3. CASE ApplierStep
  BY <1>3 DEF ApplierStep, engineVars
<1>4. CASE Ensure
  BY <1>4 DEF Ensure, applierVars
<1>5. CASE Delete
  BY <1>5 DEF Delete, Finish, applierVars
<1>6. CASE ListAttached
  BY <1>6 DEF ListAttached, Finish, applierVars
<1>7. ASSUME NEW ip \in IP, Attach(ip) PROVE AddressInv'
  BY <1>7 DEF Attach, EnsurePresent, EnsurePresentFails, applierVars
<1>8. ASSUME NEW ip \in IP, Rollback(ip) PROVE AddressInv'
  BY <1>8 DEF Rollback, EnsureAbsent, EnsureAbsentFails, applierVars
<1>9. ASSUME NEW ip \in IP, Detach(ip) PROVE AddressInv'
  BY <1>9 DEF Detach, Finish, EnsureAbsent, EnsureAbsentFails, applierVars
<1>10. CASE Apply
  BY <1>10 DEF Apply, Call
<1>11. CASE Commit
  BY <1>11 DEF Commit, Return, ApplyInv
<1>12. CASE ApplyFails
  BY <1>12 DEF ApplyFails, Return
<1>13. CASE RollbackDone
  BY <1>13 DEF RollbackDone, Finish, applierVars
<1>14. CASE DetachDone
  BY <1>14 DEF DetachDone, Finish, applierVars
<1>15. ASSUME NEW req \in Request, Lock(req) PROVE AddressInv'
  BY <1>15 DEF Lock, applierVars
<1>16. CASE Restart
  BY <1>16, EmptyStore DEF Restart, LoseMemory
<1>17. CASE PodReplaced
  BY <1>17, EmptyStore DEF PodReplaced, LoseMemory
<1>18. CASE HAProxy /\ UNCHANGED <<attached, engineVars>>
  BY <1>18 DEF HAProxy, HAProxyStarts, HAProxyExits, engineVars
<1>19. CASE HostChanges
  BY <1>19 DEF HostChanges, HostAdds, HostRemoves, applierVars, engineVars
<1>20. CASE UNCHANGED vars
  BY <1>20 DEF vars, applierVars, engineVars
<1> QED
  BY <1>1, <1>2, <1>3, <1>4, <1>5, <1>6, <1>7, <1>8, <1>9, <1>10, <1>11, <1>12,
     <1>13, <1>14, <1>15, <1>16, <1>17, <1>18, <1>19, <1>20 DEF Next, Process

-----------------------------------------------------------------------------
\* No request holds the mutex of a process that has not started.
LEMMA RequestInvInit == Init => RequestInv
BY DEF Init, InitWith, RequestInv, Booting

\* Every step keeps nextStore the Store with the one change of the request.
LEMMA RequestInvStep == TypeOK /\ RequestInv /\ AddressInv /\ [Next]_vars => RequestInv'
<1> SUFFICES ASSUME TypeOK, RequestInv, AddressInv, [Next]_vars PROVE RequestInv'
  OBVIOUS
<1> USE DEF RequestInv, Booting
<1>1. CASE Bootstrap
  BY <1>1 DEF Bootstrap
<1>2. CASE BootstrapDone
  BY <1>2 DEF BootstrapDone
<1>3. CASE ApplierStep
  BY <1>3 DEF ApplierStep, engineVars
<1>4. CASE Ensure
  BY <1>4 DEF Ensure, Upsert
<1>5. CASE Delete
  <2>1. op \in Request /\ op.val = None
    BY <1>5 DEF Delete, TypeOK, Request, NoOp
  <2> QED
    BY <1>5, <2>1 DEF Delete, Finish, Remove
<1>6. CASE ListAttached
  BY <1>6 DEF ListAttached, Finish
<1>7. ASSUME NEW ip \in IP, Attach(ip) PROVE RequestInv'
  BY <1>7 DEF Attach
<1>8. ASSUME NEW ip \in IP, Rollback(ip) PROVE RequestInv'
  BY <1>8 DEF Rollback
<1>9. ASSUME NEW ip \in IP, Detach(ip) PROVE RequestInv'
  BY <1>9 DEF Detach, Finish
<1>10. CASE Apply
  BY <1>10 DEF Apply
<1>11. CASE Commit
  <2>1. op \in Request /\ op.ref \in Ref
    BY <1>11 DEF Commit, TypeOK, Request, NoOp
  <2> QED
    BY <1>11, <2>1 DEF Commit, TypeOK, Config
<1>12. CASE ApplyFails
  BY <1>12 DEF ApplyFails
<1>13. CASE RollbackDone
  BY <1>13 DEF RollbackDone, Finish
<1>14. CASE DetachDone
  BY <1>14 DEF DetachDone, Finish
<1>15. ASSUME NEW req \in Request, Lock(req) PROVE RequestInv'
  BY <1>15 DEF Lock, Request, NoOp
<1>16. CASE Restart
  BY <1>16 DEF Restart, LoseMemory
<1>17. CASE PodReplaced
  BY <1>17 DEF PodReplaced, LoseMemory
<1>18. CASE HAProxy /\ UNCHANGED <<attached, engineVars>>
  BY <1>18 DEF engineVars
<1>19. CASE HostChanges
  BY <1>19 DEF HostChanges, engineVars
<1>20. CASE UNCHANGED vars
  BY <1>20 DEF vars, engineVars
<1> QED
  BY <1>1, <1>2, <1>3, <1>4, <1>5, <1>6, <1>7, <1>8, <1>9, <1>10, <1>11, <1>12,
     <1>13, <1>14, <1>15, <1>16, <1>17, <1>18, <1>19, <1>20 DEF Next, Process

-----------------------------------------------------------------------------
\* The inductive invariant holds in every reachable state of the engine.
THEOREM EngineInvariant == Spec => []EngineInv
<1>1. Init => ApplyInv /\ AddressInv /\ RequestInv
  BY ApplyInvInit, AddressInvInit, RequestInvInit
<1>2. TypeOK /\ (ApplyInv /\ AddressInv /\ RequestInv) /\ [Next]_vars
        => (ApplyInv /\ AddressInv /\ RequestInv)'
  BY ApplyInvStep, AddressInvStep, RequestInvStep
<1> QED
  BY <1>1, <1>2, TypeCorrect, PTL DEF Spec, EngineInv

\* No request, however it ends, takes an address from the interface that a
\* stored Service uses (reconcileLocked, rollbackAttachedExternalIPs).
THEOREM AddressesStayAttached == Spec => []ServedAddressesAttached
BY EngineInvariant, PTL DEF EngineInv, AddressInv

\* When HAProxy is told to reload, it can bind every address of the new file.
THEOREM ReloadsAreBindable == Spec => []ReloadIsBindable
<1>1. EngineInv => ReloadIsBindable
  <2> SUFFICES ASSUME EngineInv, step = "reload" PROVE Bindable
    BY DEF ReloadIsBindable
  <2>1. file = target /\ target \in Rendered /\ phase \in {"bootstrap", "apply"}
    BY DEF EngineInv, ApplyInv, TypeOK, ApplierTypeOK
  <2>2. CASE phase = "bootstrap"
    BY <2>1, <2>2, BootstrapRendered, AbsentAssumption DEF EngineInv, ApplyInv, Bindable
  <2>3. CASE phase = "apply"
    BY <2>1, <2>3, RenderedStore, AbsentAssumption
       DEF EngineInv, ApplyInv, AddressInv, TypeOK, Bindable
  <2> QED
    BY <2>1, <2>2, <2>3
<1> QED
  BY <1>1, EngineInvariant, PTL

\* With a validate command, only what it accepted reaches the file and HAProxy.
THEOREM AcceptedConfigsOnly == Spec => []OnlyAcceptedConfigs
BY EngineInvariant, PTL DEF EngineInv, ApplyInv

\* A reconcileLocked that succeeds has converged, whatever was there before.
THEOREM SuccessHasConverged == Spec => SuccessConverges
<1>1. EngineInv /\ [Next]_vars =>
        [(phase = "detach" /\ phase' = "idle" /\ reply' = "ok") =>
            /\ attached' \ HostAddrs = DesiredExternalIPs(store') \ HostAddrs
            /\ file' = Render(store')]_vars
  <2> SUFFICES ASSUME EngineInv, [Next]_vars, phase = "detach", phase' = "idle", reply' = "ok"
               PROVE  /\ attached' \ HostAddrs = DesiredExternalIPs(store') \ HostAddrs
                      /\ file' = Render(store')
    OBVIOUS
  <2>1. DetachDone
    BY DEF Next, Process, Bootstrap, BootstrapDone, ApplierStep, Ensure, Delete, ListAttached,
           Attach, Rollback, Detach, Finish, Apply, Commit, ApplyFails, RollbackDone, Lock,
           Restart, PodReplaced, LoseMemory, HAProxy, HostChanges, vars, engineVars
  <2> QED
    BY <2>1 DEF DetachDone, applierVars, EngineInv, AddressInv, ServedAddressesAttached
<1> QED
  BY <1>1, EngineInvariant, PTL DEF Spec, SuccessConverges

-----------------------------------------------------------------------------
\* The engine implements the abstract provider with its Store as the desired
\* state: Lock accepts a call, Commit is where it takes effect, the ways a
\* request returns are Succeed and Fail, a death of the process is Lose.
THEOREM EngineRefinesProvider == Spec => EngineImplementsProvider
<1> USE DEF AbstractProvider!ProviderNext, AbstractProvider!providerVars,
            AbstractProvider!NoCall, NoOp
<1>1. Init => AbstractProvider!ProviderInit
  BY DEF Init, InitWith, AbstractProvider!ProviderInit, AbstractProvider!EmptyConfig, EmptyConfig
<1>2. EngineInv /\ [Next]_vars
        => [AbstractProvider!ProviderNext]_(AbstractProvider!providerVars)
  <2> SUFFICES ASSUME EngineInv, [Next]_vars
               PROVE  AbstractProvider!ProviderNext \/ UNCHANGED <<store, op, reply>>
    OBVIOUS
  <2>1. phase \notin Booting \cup {"idle"} =>
          /\ op \in Request
          /\ op # NoOp
    BY DEF EngineInv, TypeOK, RequestInv
  <2>2. ASSUME phase \notin Booting \cup {"idle"}, Finish("error"), UNCHANGED store
        PROVE  AbstractProvider!ProviderNext
    BY <2>1, <2>2 DEF Finish, AbstractProvider!Fail
  <2>3. ASSUME phase \notin Booting \cup {"idle"}, Finish("ok"), UNCHANGED store,
               store[op.ref] = op.val
        PROVE  AbstractProvider!ProviderNext
    BY <2>1, <2>3 DEF Finish, AbstractProvider!Succeed
  <2>4. CASE Bootstrap \/ BootstrapDone \/ ApplierStep \/ Ensure \/ Apply \/ ApplyFails
    BY <2>4 DEF Bootstrap, BootstrapDone, ApplierStep, Ensure, Apply, ApplyFails, engineVars
  <2>5. CASE Delete
    <3>1. op \in Request /\ op.val = None
      BY <2>5 DEF Delete, EngineInv, TypeOK, Request
    <3> QED
      BY <2>3, <2>5, <3>1 DEF Delete, Has, Booting
  <2>6. CASE ListAttached
    BY <2>2, <2>6 DEF ListAttached, Booting
  <2>7. ASSUME NEW ip \in IP, Attach(ip) \/ Rollback(ip) PROVE UNCHANGED <<store, op, reply>>
    BY <2>7 DEF Attach, Rollback
  <2>8. ASSUME NEW ip \in IP, Detach(ip)
        PROVE  AbstractProvider!ProviderNext \/ UNCHANGED <<store, op, reply>>
    BY <2>2, <2>8 DEF Detach, Booting
  <2>9. CASE Commit
    BY <2>1, <2>9 DEF Commit, EngineInv, RequestInv, Booting, AbstractProvider!TakeEffect
  <2>10. CASE RollbackDone
    BY <2>2, <2>10 DEF RollbackDone, Booting
  <2>11. CASE DetachDone
    BY <2>3, <2>11 DEF DetachDone, EngineInv, RequestInv, Booting
  <2>12. ASSUME NEW req \in Request, Lock(req) PROVE AbstractProvider!ProviderNext
    BY <2>12 DEF Lock, EngineInv, RequestInv, Request, AbstractProvider!Accept,
                 AbstractProvider!Calls, AbstractProvider!Value, Value
  <2>13. CASE Restart \/ PodReplaced
    BY <2>13 DEF Restart, PodReplaced, LoseMemory, AbstractProvider!Lose,
                 AbstractProvider!EmptyConfig, EmptyConfig
  <2>14. CASE HAProxy /\ UNCHANGED <<attached, engineVars>>
    BY <2>14 DEF engineVars
  <2>15. CASE HostChanges \/ UNCHANGED vars
    BY <2>15 DEF HostChanges, vars, engineVars
  <2> QED
    BY <2>4, <2>5, <2>6, <2>7, <2>8, <2>9, <2>10, <2>11, <2>12, <2>13, <2>14, <2>15
       DEF Next, Process
<1> QED
  BY <1>1, <1>2, EngineInvariant, PTL
     DEF Spec, EngineImplementsProvider, AbstractProvider!ProviderSpec
=============================================================================
