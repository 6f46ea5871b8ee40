------------------------- MODULE LocalHAProxyProofs -------------------------
(***************************************************************************)
(* Proofs about LocalHAProxy, for any Services and payloads, any validate  *)
(* command and any settings: a success is in the file, only accepted texts *)
(* are, and the provider implements the abstract one.                      *)
(***************************************************************************)
EXTENDS LocalHAProxy, TLAPS

\* Where applyRenderedConfig stands, and what the files hold there.
ApplyInv ==
    /\ step # "ready" => phase = "apply"
    /\ phase = "apply" => target = Render(next)
    /\ step \in {"validate", "rename"} => candidate = target
    /\ (step = "rename" /\ ValidateCommand) => Accepts(candidate)
    /\ step \in {"sync", "reload", "unchanged", "applied"} => file = target
    /\ OnlyAcceptedConfigs

\* What the call that holds the mutex is about to do, and has done.
CallInv ==
    /\ phase = "idle" <=> op = NoOp
    /\ op # NoOp => reply = "none"
    /\ phase = "apply" => /\ next = [services EXCEPT ![op.ref] = op.val]
                          /\ RenderableConfig(next)
    /\ phase = "done" => /\ file = Render(services)
                         /\ services[op.ref] = op.val

Inv == TypeOK /\ ApplyInv /\ CallInv

-----------------------------------------------------------------------------
\* An empty state is a state, and renders to the text of no Service.
LEMMA EmptyState == EmptyConfig \in Config /\ Render(EmptyConfig) \in Rendered
BY DEF EmptyConfig, Config, Render, Rendered, RenderService

\* A call is about one Service.
LEMMA CallFields ==
    ASSUME TypeOK, op # NoOp
    PROVE  /\ op \in Request /\ op.ref \in Ref /\ op.val \in Value \cup {None}
           /\ op.kind = "ensure" => op.val \in Value
           /\ op.kind = "delete" => op.val = None
BY DEF TypeOK, Request

\* Finish gives the mutex back.
LEMMA FinishKeepsInv ==
    ASSUME Inv, op # NoOp, NEW answer \in {"ok", "error"}, Finish(answer), ApplierTypeOK',
           step' = "ready", file' = file, running' = running, services' = services
    PROVE  Inv'
BY EmptyState DEF Inv, TypeOK, ApplyInv, CallInv, Finish, OnlyAcceptedConfigs, Has, ValidateService

\* Ensure and Delete hand a renderable state to the applier, or fail.
LEMMA ApplyStateKeepsInv ==
    ASSUME Inv, phase = "locked", op # NoOp,
           ApplyState([services EXCEPT ![op.ref] = op.val]), services' = services
    PROVE  Inv'
<1> DEFINE config == [services EXCEPT ![op.ref] = op.val]
<1>1. config \in Config /\ Render(config) \in Rendered
  BY CallFields DEF Inv, TypeOK, Config, Render, Rendered, RenderService
<1>2. step = "ready"
  BY DEF Inv, ApplyInv
<1> HIDE DEF config
<1>3. CASE RenderableConfig(config) /\ phase' = "apply" /\ next' = config /\ Call(config, TRUE)
           /\ UNCHANGED <<op, reply>>
  <2>1. /\ step' = "compare" /\ target' = Render(config) /\ reload' = TRUE
        /\ UNCHANGED <<file, candidate, litter, pidFile, running>>
    BY <1>3 DEF Call
  <2>2. TypeOK'
    BY <1>1, <1>3, <2>1 DEF Inv, TypeOK, ApplierTypeOK, Steps, Working, Has, ValidateService
  <2>3. ApplyInv'
    BY <1>3, <2>1 DEF Inv, ApplyInv, OnlyAcceptedConfigs
  <2>4. config = [services' EXCEPT ![op'.ref] = op'.val]
    BY <1>3 DEF config
  <2>5. CallInv'
    BY <1>3, <2>4 DEF Inv, CallInv, RenderableConfig, Has, ValidateService
  <2> QED BY <2>2, <2>3, <2>5 DEF Inv
<1>4. CASE Finish("error") /\ UNCHANGED applierVars
  <2>1. ApplierTypeOK' /\ step' = "ready" /\ file' = file /\ running' = running
    BY <1>2, <1>4 DEF applierVars, Inv, TypeOK, ApplierTypeOK
  <2> QED BY <1>4, <2>1, FinishKeepsInv
<1> QED
  BY <1>3, <1>4 DEF ApplyState, config

\* applyRenderedConfig renames only what was accepted and reloads only what
\* was renamed.
LEMMA ApplierKeepsInv ==
    ASSUME Inv, ApplierStep
    PROVE  Inv'
<1> USE DEF Inv
<1>1. PICK bindable \in BOOLEAN : ApplierNext(bindable)
  BY DEF ApplierStep
<1>2. phase = "apply" /\ UNCHANGED providerVars
  BY DEF ApplierStep
<1>3. UNCHANGED <<services, op, next, phase, reply>>
  BY <1>2 DEF providerVars
<1>4. ApplierTypeOK' /\ ApplyInv'
  <2> USE DEF TypeOK, ApplierTypeOK, ApplyInv, OnlyAcceptedConfigs, Goto, Steps, Working, Returned
  <2>1. CASE Compare
    BY <1>2, <1>3, <2>1 DEF Compare, RenderedConfigMatchesCurrentFile, Abort
  <2>2. CASE WriteCandidateFile
    BY <1>2, <1>3, <2>2 DEF WriteCandidateFile, Abort
  <2>3. CASE Validate
    BY <1>2, <1>3, <2>3 DEF Validate, Abort
  <2>4. CASE Rename
    BY <1>2, <1>3, <2>4 DEF Rename, Abort
  <2>5. CASE SyncDir
    BY <1>2, <1>3, <2>5 DEF SyncDir
  <2>6. CASE Reload(bindable)
    BY <1>2, <1>3, <2>6, AbsentAssumption DEF Reload, HAProxyReloads
  <2> QED BY <1>1, <2>1, <2>2, <2>3, <2>4, <2>5, <2>6 DEF ApplierNext
<1>5. TypeOK' /\ CallInv'
  BY <1>2, <1>3, <1>4 DEF TypeOK, CallInv, RenderableConfig, Has, ValidateService
<1> QED
  BY <1>4, <1>5

-----------------------------------------------------------------------------
\* The order of an apply and the place of a call in it hold throughout.
THEOREM InvHolds == Spec => []Inv
<1>1. Init => Inv
  BY EmptyState DEF Init, ApplierInit, BootstrapText, Inv, TypeOK, ApplierTypeOK, Steps, ApplyInv,
                    CallInv, OnlyAcceptedConfigs, EmptyConfig, Has
<1>2. Inv /\ [Next]_vars => Inv'
  <2> SUFFICES ASSUME Inv, [Next]_vars PROVE Inv'
    OBVIOUS
  <2>1. ASSUME NEW req \in Request, Lock(req) PROVE Inv'
    <3>1. req # NoOp
      BY DEF Request, NoOp
    <3> QED BY <2>1, <3>1 DEF Lock, applierVars, Inv, TypeOK, ApplierTypeOK, ApplyInv, CallInv,
                              OnlyAcceptedConfigs, Has, ValidateService
  <2>2. CASE Ensure \/ Delete
    <3>1. phase = "locked" /\ op # NoOp /\ services' = services
      BY <2>2 DEF Ensure, Delete, Inv, CallInv
    <3>2. ApplyState([services EXCEPT ![op.ref] = op.val])
      BY <2>2, <3>1, CallFields DEF Ensure, Delete, Upsert, Remove, Inv
    <3> QED BY <3>1, <3>2, ApplyStateKeepsInv
  <2>3. CASE ApplierStep
    BY <2>3, ApplierKeepsInv
  <2>4. CASE Commit
    <3>1. /\ phase' = "done" /\ services' = next /\ step' = "ready" /\ target' = BootstrapText
          /\ reload' = FALSE /\ file = Render(next)
          /\ UNCHANGED <<file, candidate, litter, pidFile, running, op, next, reply>>
      BY <2>4 DEF Commit, Return, Inv, ApplyInv
    <3>2. op # NoOp /\ phase = "apply" /\ services'[op.ref] = op.val
      BY <2>4, <3>1, CallFields DEF Commit, Inv, TypeOK, CallInv, Config
    <3>3. TypeOK'
      BY <3>1, <3>2, EmptyState
         DEF Inv, TypeOK, ApplierTypeOK, Steps, BootstrapText, CallInv, RenderableConfig, Has, ValidateService
    <3>4. ApplyInv' /\ CallInv'
      BY <3>1, <3>2 DEF Inv, ApplyInv, CallInv, OnlyAcceptedConfigs
    <3> QED BY <3>3, <3>4 DEF Inv
  <2>5. CASE ApplyFails
    <3>1. /\ step' = "ready" /\ file' = file /\ running' = running /\ services' = services
          /\ op # NoOp /\ Finish("error") /\ ApplierTypeOK'
      BY <2>5, EmptyState DEF ApplyFails, Return, Inv, TypeOK, ApplierTypeOK, Steps, BootstrapText, CallInv
    <3> QED BY <3>1, FinishKeepsInv
  <2>6. CASE Done
    <3>1. /\ step' = "ready" /\ file' = file /\ running' = running /\ services' = services
          /\ op # NoOp /\ Finish("ok") /\ ApplierTypeOK'
      BY <2>6 DEF Done, applierVars, Inv, TypeOK, ApplierTypeOK, ApplyInv, CallInv
    <3> QED BY <3>1, FinishKeepsInv
  <2>7. CASE Restart
    BY <2>7, EmptyState DEF Restart, ApplierDies, BootstrapText, Inv, TypeOK, ApplierTypeOK, Steps,
                            ApplyInv, CallInv, OnlyAcceptedConfigs, EmptyConfig, Has
  <2>8. CASE HAProxy
    <3>1. UNCHANGED <<services, op, next, phase, reply>>
      BY <2>8 DEF HAProxy, providerVars
    <3>2. /\ UNCHANGED <<file, candidate, litter, step, target, reload>>
          /\ pidFile' \in BOOLEAN /\ running' \in {file, Down} /\ (running' = Down \/ file # NoFile)
      BY <2>8 DEF HAProxy, HAProxyStarts, HAProxyExits, Inv, TypeOK, ApplierTypeOK
    <3> QED BY <3>1, <3>2 DEF Inv, TypeOK, ApplierTypeOK, ApplyInv, CallInv, OnlyAcceptedConfigs,
                              RenderableConfig, Has, ValidateService
  <2>9. CASE UNCHANGED vars
    BY <2>9 DEF vars, applierVars, providerVars, Inv, TypeOK, ApplierTypeOK, ApplyInv, CallInv,
                OnlyAcceptedConfigs, RenderableConfig, Has, ValidateService
  <2> QED
    BY <2>1, <2>2, <2>3, <2>4, <2>5, <2>6, <2>7, <2>8, <2>9 DEF Next
<1> QED
  BY <1>1, <1>2, PTL DEF Spec

\* Type correctness of the local provider, the file and HAProxy.
THEOREM TypeCorrect == Spec => []TypeOK
<1>1. Inv => TypeOK
  BY DEF Inv
<1> QED
  BY <1>1, InvHolds, PTL

\* With a validate command, only accepted configurations reach the file and
\* HAProxy, and Render never lets a Service through that does not validate.
THEOREM AcceptedConfigsOnly == Spec => []OnlyAcceptedConfigs
<1>1. Inv => OnlyAcceptedConfigs
  BY DEF Inv, ApplyInv
<1> QED
  BY <1>1, InvHolds, PTL

\* A call that succeeds is in the file, because Delete applies also when the
\* provider does not know the Service.
THEOREM SuccessWritten == Spec => SuccessIsWritten
<1> DEFINE Step == (op # NoOp /\ reply' = "ok") =>
                      /\ file' = Render(services')
                      /\ file'.frontends[op.ref] = RenderService(op.val)
<1>1. Inv /\ [Next]_vars => Step
  <2> SUFFICES ASSUME Inv, [Next]_vars, op # NoOp, reply' = "ok" PROVE Step
    OBVIOUS
  <2>1. reply = "none"
    BY DEF Inv, CallInv
  <2>2. CASE Done
    <3>1. file' = file /\ services' = services /\ phase = "done"
      BY <2>2 DEF Done, applierVars
    <3>2. file = Render(services) /\ services[op.ref] = op.val
      BY <3>1 DEF Inv, CallInv
    <3>3. file.frontends[op.ref] = RenderService(services[op.ref])
      BY <3>2, CallFields DEF Inv, Render
    <3> QED BY <3>1, <3>2, <3>3
  <2>3. CASE (\E req \in Request : Lock(req)) \/ Restart
    BY <2>3 DEF Lock, Restart
  <2>4. CASE Ensure \/ Delete
    BY <2>1, <2>4 DEF Ensure, Delete, ApplyState, Finish
  <2>5. CASE ApplierStep \/ HAProxy \/ UNCHANGED vars
    BY <2>1, <2>5 DEF ApplierStep, HAProxy, vars, providerVars
  <2>6. CASE Commit \/ ApplyFails
    BY <2>1, <2>6 DEF Commit, ApplyFails, Finish
  <2> QED
    BY <2>2, <2>3, <2>4, <2>5, <2>6 DEF Next
<1> HIDE DEF Step
<1>2. Spec => [][Step]_vars
  BY <1>1, InvHolds, PTL DEF Spec
<1> QED
  BY <1>2 DEF Step, SuccessIsWritten

-----------------------------------------------------------------------------
\* The local provider implements the strict abstract one: a call that fails
\* leaves the state as it was, and one that succeeds has changed its own
\* Service only.
THEOREM LocalRefinesProvider == Spec => LocalImplementsProvider
<1> DEFINE abstractCall == IF phase = "done" THEN NoOp ELSE op
           abstractReply == IF phase = "done" THEN "ok" ELSE reply
<1> USE DEF AbstractProvider!StrictNext, AbstractProvider!providerVars,
            AbstractProvider!NoCall, NoOp
<1>1. Init => AbstractProvider!ProviderInit
  BY DEF Init, AbstractProvider!ProviderInit, AbstractProvider!EmptyConfig, EmptyConfig
<1>2. Inv /\ [Next]_vars => [AbstractProvider!StrictNext]_(AbstractProvider!providerVars)
  <2> SUFFICES ASSUME Inv, [Next]_vars
               PROVE  AbstractProvider!StrictNext
                        \/ UNCHANGED <<services, abstractCall, abstractReply>>
    OBVIOUS
  <2>1. phase # "idle" => op # NoOp
    BY DEF Inv, CallInv
  <2>2. ASSUME NEW req \in Request, Lock(req) PROVE AbstractProvider!StrictNext
    BY <2>2 DEF Lock, Inv, CallInv, Request, AbstractProvider!Accept, AbstractProvider!Calls,
                AbstractProvider!Value, Value
  <2>3. CASE Ensure \/ Delete
    BY <2>1, <2>3 DEF Ensure, Delete, ApplyState, Finish, AbstractProvider!Fail
  <2>4. CASE ApplierStep \/ HAProxy \/ UNCHANGED vars
    BY <2>4 DEF ApplierStep, HAProxy, vars, providerVars
  <2>5. CASE Commit
    BY <2>1, <2>5 DEF Commit, Inv, CallInv, AbstractProvider!TakeEffectAndSucceed
  <2>6. CASE ApplyFails
    BY <2>1, <2>6 DEF ApplyFails, Finish, AbstractProvider!Fail
  <2>7. CASE Done
    BY <2>7 DEF Done, Finish
  <2>8. CASE Restart
    BY <2>8 DEF Restart, AbstractProvider!Lose, AbstractProvider!EmptyConfig, EmptyConfig
  <2> QED
    BY <2>2, <2>3, <2>4, <2>5, <2>6, <2>7, <2>8 DEF Next
<1> QED
  BY <1>1, <1>2, InvHolds, PTL
     DEF Spec, LocalImplementsProvider, AbstractProvider!StrictSpec
=============================================================================
