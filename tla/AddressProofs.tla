--------------------------- MODULE AddressProofs ----------------------------
(***************************************************************************)
(* Proofs about the addresses of ServiceController: one is published only  *)
(* when the provider has taken the Service with it; and as long as no      *)
(* allocation missed a write and no Service came back to the controller,   *)
(* no two live Services publish the same one, and a live Service keeps the *)
(* one it has.                                                             *)
(***************************************************************************)
EXTENDS ReconcileProofs, TLAPS

\* What a step makes of the ingress list of s: it leaves it alone, or empties
\* the one of a Service that is not the controller's, or publishes the address
\* of the reconcile in progress; or another implementation publishes, in a step
\* that is not the controller's.
Changed(s) ==
    \/ api'[s] = api[s]
    \/ api'[s] = Absent
    \/ api[s] = Absent /\ api'[s].ingress = <<>>
    \/ /\ api[s] # Absent
       /\ Live(api'[s]) => Live(api[s]) \/ s \in returned'
       /\ \/ api'[s].ingress = api[s].ingress
          \/ api'[s].ingress = <<>> /\ ~api'[s].managed
          \/ s = key /\ pc = "publish" /\ current /\ api'[s].ingress = <<ip>>
          \/ pc' = pc /\ ~api'[s].managed

\* The edits of users do no more,
LEMMA UserChanges ==
    ASSUME TypeOK, User, NEW s \in Ref
    PROVE  Changed(s)
<1>1. PICK t \in Ref : \/ Create(t) \/ UserDelete(t)
                       \/ SetManaged(t, TRUE) \/ SetManaged(t, FALSE)
                       \/ SetPorts(t) \/ ForeignStatus(t) \/ SetSlices(t)
  BY Zenon DEF User
<1>2. CASE SetSlices(t)
  BY <1>2 DEF SetSlices, Changed
<1>3. CASE \/ Create(t) \/ UserDelete(t) \/ SetManaged(t, TRUE) \/ SetManaged(t, FALSE)
           \/ SetPorts(t) \/ ForeignStatus(t)
  <2>1. PICK object \in Object \cup {Absent}, kind \in {"add", "spec", "meta", "gone"} :
           Write(t, object, kind) /\ Edited(t, object)
    BY <1>3, UserWrites, Zenon
  <2>2. api'[s] = IF s = t THEN object ELSE api[s]
    BY <2>1 DEF Write, TypeOK
  <2>3. ASSUME api[t] # Absent, object # Absent PROVE Live(object) => Live(api[t]) \/ t \in returned'
    <3>1. api[t].deleting \in BOOLEAN /\ object.deleting \in BOOLEAN
      BY <2>3 DEF TypeOK, Object
    <3> QED BY <2>1, <2>3, <3>1 DEF Edited, Live
  <2>4. pc' = pc
    BY <1>3, Zenon DEF Create, UserDelete, SetManaged, SetPorts, ForeignStatus, Edit
  <2> QED BY <2>1, <2>2, <2>3, <2>4 DEF Edited, Changed
<1> QED
  BY <1>1, <1>2, <1>3, Zenon

\* nor do the patches of the finalizer,
LEMMA PatchChanges ==
    ASSUME TypeOK, key \in Ref, NEW on \in BOOLEAN, api[key] # Absent, PatchFinalizer(key, on),
           NEW s \in Ref
    PROVE  Changed(s)
<1> DEFINE new == [api[key] EXCEPT !.finalizer = on]
<1>1. CASE NoWrite
  BY <1>1 DEF NoWrite, Changed
<1>2. CASE Write(key, Absent, "gone")
  BY <1>2 DEF Write, Changed, TypeOK
<1>3. CASE Write(key, new, "meta")
  <2>1. /\ new.ingress = api[key].ingress /\ new.managed = api[key].managed
        /\ new.deleting = api[key].deleting
    BY DEF TypeOK, Object
  <2> HIDE DEF new
  <2>2. api'[s] = IF s = key THEN new ELSE api[s]
    BY <1>3 DEF Write, TypeOK
  <2> QED BY <2>1, <2>2 DEF Changed, Live
<1> QED
  BY <1>1, <1>2, <1>3, PatchCases

\* and an update of the status publishes the address or clears the list of a
\* Service that is not the controller's any more.
LEMMA StatusChanges ==
    ASSUME Base, pc \in {"publish", "clearStatus"}, current, NEW ingress,
           ingress = IF pc = "publish" THEN <<ip>> ELSE <<>>, UpdateStatus(key, ingress),
           NEW s \in Ref
    PROVE  Changed(s)
<1>1. key \in Ref /\ api[key] # Absent /\ svc = api[key]
  BY UpdateWrites DEF Base, Copied
<1>2. ingress \in {<<>>} \cup {<<a>> : a \in IP}
  BY DEF Base, Copied
<1>3. PICK object \in Object :
         /\ Write(key, object, "meta") /\ object # Absent /\ object.ingress = ingress
         /\ object.managed = api[key].managed /\ object.deleting = api[key].deleting
  BY <1>1, <1>2, StatusCases DEF Base
<1>4. api'[s] = IF s = key THEN object ELSE api[s]
  BY <1>3 DEF Write, Base, TypeOK
<1>5. pc = "clearStatus" => ~api[key].managed
  BY <1>1 DEF Base, Copied
<1> QED
  BY <1>1, <1>3, <1>4, <1>5 DEF Changed, Live

\* So no step does more to the ingress list of a Service.
LEMMA StepChanges ==
    ASSUME Base, [Next]_vars, NEW s \in Ref
    PROVE  Changed(s)
<1>1. ASSUME api' = api PROVE Changed(s)
  BY <1>1 DEF Changed
<1>2. CASE User
  BY <1>2, UserChanges DEF Base
<1>3. CASE Deliver \/ (\E t \in Ref : DeliverSlices(t)) \/ (\E t \in Ref : Reconcile(t))
  BY <1>1, <1>3 DEF Deliver, DeliverSlices, Reconcile, clusterVars
<1>4. TypeOK /\ (pc # "idle" => key \in Ref)
  BY DEF Base, TypeOK
<1>5. CASE EnsureServiceFinalizer
  BY <1>1, <1>4, <1>5, PatchChanges, Zenon DEF EnsureServiceFinalizer, NoWrite
<1>6. CASE RemoveServiceFinalizer
  BY <1>1, <1>4, <1>6, PatchChanges, Zenon DEF RemoveServiceFinalizer, NoWrite
<1>7. CASE PublishStatus
  BY <1>1, <1>7, StatusChanges, Zenon DEF PublishStatus, NoWrite, DesiredLoadBalancerIngress
<1>8. CASE ClearStatus
  BY <1>1, <1>8, StatusChanges, Zenon DEF ClearStatus, NoWrite
<1>9. CASE Refresh \/ RefreshCleared \/ AllocateIP \/ EnsureProvider \/ DeleteProvider
  BY <1>1, <1>9, Zenon DEF Refresh, RefreshCleared, ReadAgain, AllocateIP, EnsureProvider, DeleteProvider,
                    clusterVars
<1>10. CASE ApiCallFails
  <2>1. CASE pc \in {"addFinalizer", "removeFinalizer"}
    BY <1>1, <1>4, <1>10, <2>1, PatchChanges, Zenon DEF ApiCallFails, PatchFails, NoWrite
  <2>2. CASE pc \in {"publish", "clearStatus"}
    BY <1>1, <1>10, <2>2, StatusChanges, Zenon
       DEF ApiCallFails, UpdateFails, NoWrite, DesiredLoadBalancerIngress
  <2> QED BY <1>10, <2>1, <2>2, Zenon DEF ApiCallFails
<1>11. CASE ProviderCallFails \/ LateEffect \/ ControllerRestart \/ DataplaneRestart \/ UNCHANGED vars
  BY <1>1, <1>11, Zenon DEF ProviderCallFails, LateEffect, ControllerRestart, DataplaneRestart, vars, clusterVars
<1> QED
  BY <1>2, <1>3, <1>5, <1>6, <1>7, <1>8, <1>9, <1>10, <1>11 DEF Next, Worker

\* And a reconcile has an address to publish only by an allocation, and
\* publishes it only after Provider.Ensure: every other step leaves it waiting,
\* and the provider alone, unless it is noted.
LEMMA Advances ==
    ASSUME Base, [Next]_vars, pc' \in {"ensure", "publish"}
    PROVE  \/ AllocateIP /\ pc' = "ensure"
           \/ EnsureProvider
           \/ /\ pc' = pc /\ key' = key /\ ip' = ip /\ blind' = blind /\ (current' => current)
              /\ \/ provider' = provider /\ disturbed' = disturbed
                 \/ LateEffect \/ DataplaneRestart
<1>1. CASE User
  <2>1. PICK s \in Ref : \/ Create(s) \/ UserDelete(s)
                         \/ SetManaged(s, TRUE) \/ SetManaged(s, FALSE)
                         \/ SetPorts(s) \/ ForeignStatus(s) \/ SetSlices(s)
    BY <1>1, Zenon DEF User
  <2>2. CASE SetSlices(s)
    BY <2>2 DEF SetSlices, localVars, providerVars, historyVars
  <2>3. CASE \E e : Edit(s, e)
    BY <2>3, Zenon DEF Edit, providerVars
  <2> QED BY <2>1, <2>2, <2>3, Zenon DEF Create, UserDelete, SetManaged, SetPorts, ForeignStatus
<1>2. CASE Deliver \/ \E s \in Ref : DeliverSlices(s)
  BY <1>2 DEF Deliver, DeliverSlices, localVars, providerVars, historyVars
<1>3. CASE \E s \in Ref : Reconcile(s)
  BY <1>3 DEF Reconcile, Branch
<1>4. ~Return(TRUE) /\ ~Return(FALSE)
  BY DEF Return
<1>5. CASE EnsureServiceFinalizer \/ PublishStatus \/ RemoveServiceFinalizer
  BY <1>4, <1>5, Zenon DEF EnsureServiceFinalizer, PublishStatus, RemoveServiceFinalizer, Goto
<1>6. CASE Refresh \/ RefreshCleared \/ ClearStatus \/ DeleteProvider
  BY <1>4, <1>6, Zenon DEF Refresh, RefreshCleared, ReadAgain, ClearStatus, DeleteProvider, Goto
<1>7. CASE AllocateIP
  BY <1>4, <1>7, Zenon DEF AllocateIP, Goto
<1>8. CASE ApiCallFails \/ ProviderCallFails \/ ControllerRestart
  BY <1>4, <1>8, Zenon DEF ApiCallFails, ProviderCallFails, ControllerRestart
<1>9. CASE LateEffect \/ DataplaneRestart \/ UNCHANGED vars
  BY <1>9 DEF LateEffect, DataplaneRestart, vars, localVars, providerVars, historyVars
<1> QED
  BY <1>1, <1>2, <1>3, <1>5, <1>6, <1>7, <1>8, <1>9 DEF Next, Worker

-----------------------------------------------------------------------------
\* What the status update publishes is what the provider has, unless something
\* came between the call and the update.
Publishing ==
    pc = "publish" /\ key \notin disturbed => Has(provider, key) /\ provider[key].ip = ip

\* Nothing else does.
LEMMA PublishingKept ==
    ASSUME Base, Publishing, [Next]_vars
    PROVE  Publishing'
<1> SUFFICES ASSUME pc' = "publish" PROVE Publishing'
  BY DEF Publishing
<1>1. CASE EnsureProvider
  <2>1. key \in Ref /\ ip \in IP /\ svc # Absent /\ provider \in Config
    BY <1>1 DEF EnsureProvider, Base, TypeOK, Copied
  <2>2. ProviderService \in Value /\ ProviderService.ip = ip
    BY <2>1, UpsertType DEF ProviderService, Base
  <2>3. provider'[key] = ProviderService /\ key' = key /\ ip' = ip
    BY <1>1, <2>1 DEF EnsureProvider, Goto, Upsert, Config
  <2> QED BY <2>2, <2>3, NoneAssumption DEF Publishing, Has, Value
<1>2. CASE pc' = pc /\ key' = key /\ ip' = ip /\ provider' = provider /\ disturbed' = disturbed
  BY <1>2 DEF Publishing, Has
<1>3. CASE pc' = pc /\ key' = key /\ ip' = ip /\ LateEffect
  <2>1. PICK c \in late : /\ provider' = [provider EXCEPT ![c.ref] = c.val]
                          /\ disturbed' = disturbed \cup {c.ref}
    BY <1>3, Zenon DEF LateEffect
  <2>2. key \notin disturbed' => key \notin disturbed /\ provider'[key] = provider[key]
    BY <2>1, <1>3 DEF Base, TypeOK, Config
  <2> QED BY <1>3, <2>2 DEF Publishing, Has
<1>4. CASE pc' = pc /\ key' = key /\ DataplaneRestart
  <2>1. key \in Ref /\ disturbed' = Ref
    BY <1>4 DEF DataplaneRestart, Base, TypeOK
  <2> QED BY <1>4, <2>1 DEF Publishing
<1> QED
  BY <1>1, <1>2, <1>3, <1>4, Advances

\* The controller publishes an address only when the provider has taken the
\* Service with it (Provider.Ensure comes before
\* UpdateServiceLoadBalancerStatus), in either mode and whatever fails, unless
\* the dataplane itself changed its state between the two.
THEOREM PublishedAlways == Spec => PublishedIsServed
<1> DEFINE Step == \A s \in Ref \ disturbed :
          (/\ pc' # pc /\ api[s] # Absent /\ api'[s] # Absent
           /\ api'[s].ingress \notin {<<>>, api[s].ingress}) =>
             Has(provider, s) /\ api'[s].ingress = <<provider[s].ip>>
<1>1. Init => Publishing
  BY DEF Init, Publishing
<1>2. Base /\ Publishing /\ [Next]_vars => Publishing'
  BY PublishingKept
<1>3. Base /\ Publishing /\ [Next]_vars => [Step]_vars
  <2> SUFFICES ASSUME Base, Publishing, [Next]_vars, NEW s \in Ref \ disturbed, pc' # pc,
                      api[s] # Absent, api'[s] # Absent,
                      api'[s].ingress \notin {<<>>, api[s].ingress}
               PROVE  Has(provider, s) /\ api'[s].ingress = <<provider[s].ip>>
    OBVIOUS
  <2>1. Changed(s)
    BY StepChanges
  <2> QED BY <2>1 DEF Changed, Publishing
<1> HIDE DEF Step
<1>4. Spec => [][Step]_vars
  BY <1>1, <1>2, <1>3, BaseHolds, PTL DEF Spec
<1> QED
  BY <1>4 DEF Step, PublishedIsServed

-----------------------------------------------------------------------------
\* The address a live Service has published.
Held(s, a) == Live(api[s]) /\ api[s].ingress = <<a>>

\* Nobody else has it, unless an allocation missed a write; it is one of the
\* pool; and the one a reconcile is about to publish is held by nobody else,
\* nor does the Service hold another one.
Exclusive == ~blind => \A s, t \in Ref, a \in IP : Held(s, a) /\ Held(t, a) => s = t
FromPool == \A s \in Ref, a \in IP : Held(s, a) => InPool(a)
Chosen ==
    ~blind /\ pc \in {"ensure", "publish"} =>
        /\ \A t \in Ref : Held(t, ip) => t = key
        /\ \A a \in IP : current /\ Held(key, a) => a = ip

\* All this as long as no Service that left the controller came back.
AddressInv == returned = {} => Exclusive /\ FromPool /\ Chosen

\* The entries of the ingress lists that the controller writes.
LEMMA EntriesOfOne ==
    /\ Entries(<<>>) = {}
    /\ \A a : Entries(<<a>>) = {a}
BY DEF Entries

\* assignedIPFromStatus finds the address of such a list,
LEMMA AssignedOfOne ==
    ASSUME NEW a \in IP
    PROVE  AssignedIPFromStatus(<<a>>) = a
<1> DEFINE valid == {i \in 1..Len(<<a>>) : <<a>>[i] \in IP}
<1>1. valid = {1}
  OBVIOUS
<1>2. (CHOOSE i \in valid : \A j \in valid : i <= j) = 1
  BY <1>1
<1> QED
  BY <1>1, <1>2 DEF AssignedIPFromStatus

\* and Allocate reuses it when it is in the pool and nobody else holds it.
LEMMA AllocateReuses ==
    ASSUME NEW name, NEW object, NEW listing, NEW a \in IP, object.ingress = <<a>>,
           InPool(a), a \notin CollectUsedIPs(name, listing)
    PROVE  Allocate(name, object, listing) = a
<1>1. AssignedIPFromStatus(object.ingress) = a
  BY AssignedOfOne
<1> HIDE DEF AssignedIPFromStatus, CollectUsedIPs, InPool
<1> QED
  BY <1>1 DEF Allocate

\* A Service gets an address only from the reconcile in progress.
LEMMA HeldBefore ==
    ASSUME Base, returned' = {}, [Next]_vars, NEW s \in Ref, NEW a \in IP, Held(s, a)'
    PROVE  Held(s, a) \/ (s = key /\ pc = "publish" /\ current /\ a = ip)
<1>1. Changed(s)
  BY StepChanges
<1>2. <<a>> # <<>> /\ (<<a>> = <<ip>> => a = ip)
  OBVIOUS
<1> QED
  BY <1>1, <1>2 DEF Changed, Held, Live

\* The allocation, from a listing that has all writes of other Services.
LEMMA AllocateChooses ==
    ASSUME Base, AddressInv, returned = {}, AllocateIP, pc' = "ensure"
    PROVE  Chosen'
<1> SUFFICES ASSUME ~blind' PROVE /\ \A t \in Ref : Held(t, ip)' => t = key'
                                  /\ \A a \in IP : current' /\ Held(key, a)' => a = ip'
  BY DEF Chosen
<1>1. /\ pc = "allocate" /\ key \in Ref /\ key' = key /\ api' = api /\ current' = current
      /\ ip' = Allocate(key, svc, cache) /\ ip' # NoIP
      /\ blind' = (blind \/ \E i \in 1..Len(watch) : watch[i].name # key)
  BY DEF AllocateIP, Goto, Return, clusterVars, Base, TypeOK
<1>2. ~blind /\ \A t \in Ref \ {key} : cache[t] = api[t]
  <2>1. ~blind /\ \A i \in 1..Len(watch) : watch[i].name = key
    BY <1>1, Zenon
  <2>2. \A t \in Ref \ {key} : Fresh(t)
    BY <2>1 DEF Fresh
  <2> QED BY <2>1, <2>2 DEF Base, Follows
<1>3. ip' \in IP /\ InPool(ip') /\ ip' \notin CollectUsedIPs(key, cache)
  BY <1>1, AllocateSound
<1>4. ASSUME NEW t \in Ref, NEW a \in IP, Held(t, a), t # key, InPool(a)
      PROVE  a \in CollectUsedIPs(key, cache)
  <2>1. Live(cache[t]) /\ a \in Entries(cache[t].ingress)
    BY <1>2, <1>4, EntriesOfOne, Zenon DEF Held
  <2> QED BY <1>4, <2>1 DEF CollectUsedIPs
<1>5. ASSUME NEW a \in IP, a \in CollectUsedIPs(key, cache)
      PROVE  \E t \in Ref \ {key} : Held(t, a)
  <2>1. PICK t \in Ref \ {key} : Live(cache[t]) /\ a \in Entries(cache[t].ingress)
    BY <1>5 DEF CollectUsedIPs
  <2>2. Live(api[t]) /\ a \in Entries(api[t].ingress)
    BY <1>2, <2>1
  <2>3. api[t].ingress \in {<<>>} \cup {<<b>> : b \in IP}
    BY <2>2 DEF Live, Base, TypeOK, Object
  <2>4. api[t].ingress = <<a>>
    BY <2>2, <2>3, EntriesOfOne
  <2> QED BY <2>2, <2>4 DEF Held
<1>6. ASSUME NEW t \in Ref, Held(t, ip)' PROVE t = key'
  <2>1. Held(t, ip')
    BY <1>1, <1>6 DEF Held
  <2> QED BY <1>1, <1>3, <1>4, <2>1
<1>7. ASSUME NEW a \in IP, current', Held(key, a)' PROVE a = ip'
  <2>1. Held(key, a) /\ svc.ingress = <<a>>
    BY <1>1, <1>7 DEF Held, Base, Copied
  <2>2. InPool(a)
    BY <1>1, <2>1 DEF AddressInv, FromPool
  <2>3. a \notin CollectUsedIPs(key, cache)
    BY <1>1, <1>2, <1>5, <2>1 DEF AddressInv, Exclusive
  <2> QED BY <1>1, <2>1, <2>2, <2>3, AllocateReuses
<1> QED
  BY <1>6, <1>7

\* Every step keeps the three.
LEMMA AddressStep ==
    ASSUME Base, AddressInv, [Next]_vars
    PROVE  AddressInv'
<1> SUFFICES ASSUME returned' = {} PROVE (Exclusive /\ FromPool /\ Chosen)'
  BY DEF AddressInv
<1>0. returned = {}
  BY HistoryStays
<1>1. ~blind' => ~blind
  BY HistoryStays
<1>2. ASSUME NEW s \in Ref, NEW a \in IP, Held(s, a)'
      PROVE  Held(s, a) \/ (s = key /\ pc = "publish" /\ current /\ a = ip)
  BY <1>2, HeldBefore
<1>3. pc \in {"ensure", "publish"} => key \in Ref /\ ip \in IP /\ InPool(ip)
  BY DEF Base, Copied, TypeOK
<1>4. Exclusive'
  <2> SUFFICES ASSUME ~blind', NEW s \in Ref, NEW t \in Ref, NEW a \in IP, Held(s, a)', Held(t, a)'
               PROVE  s = t
    BY DEF Exclusive
  <2>1. Held(s, a) \/ (s = key /\ pc = "publish" /\ a = ip)
    BY <1>2
  <2>2. Held(t, a) \/ (t = key /\ pc = "publish" /\ a = ip)
    BY <1>2
  <2> QED BY <1>0, <1>1, <2>1, <2>2 DEF AddressInv, Exclusive, Chosen
<1>5. FromPool'
  <2> SUFFICES ASSUME NEW s \in Ref, NEW a \in IP, Held(s, a)' PROVE InPool(a)
    BY DEF FromPool, InPool
  <2> QED BY <1>0, <1>2, <1>3 DEF AddressInv, FromPool
<1>6. Chosen'
  <2>1. CASE AllocateIP /\ pc' = "ensure"
    BY <1>0, <2>1, AllocateChooses
  <2>2. CASE pc' \in {"ensure", "publish"} /\ ~(AllocateIP /\ pc' = "ensure")
    <3>1. /\ pc \in {"ensure", "publish"} /\ key' = key /\ ip' = ip /\ (current' => current)
      BY <2>2, Advances DEF EnsureProvider, Goto
    <3> SUFFICES ASSUME ~blind' PROVE /\ \A t \in Ref : Held(t, ip)' => t = key'
                                      /\ \A a \in IP : current' /\ Held(key, a)' => a = ip'
      BY DEF Chosen
    <3>2. ASSUME NEW t \in Ref, Held(t, ip)' PROVE t = key
      <4>1. \A a \in IP : a = ip => Held(t, a)'
        BY <3>1, <3>2 DEF Held
      <4>2. Held(t, ip) \/ t = key
        BY <1>2, <1>3, <3>1, <4>1
      <4> QED BY <1>0, <1>1, <3>1, <4>2 DEF AddressInv, Chosen
    <3>3. ASSUME NEW a \in IP, current', Held(key, a)' PROVE a = ip
      <4>1. \A s \in Ref : s = key => Held(s, a)'
        BY <3>1, <3>3 DEF Held
      <4>2. Held(key, a) \/ a = ip
        BY <1>2, <1>3, <3>1, <4>1
      <4> QED BY <1>0, <1>1, <3>1, <3>3, <4>2 DEF AddressInv, Chosen
    <3> QED BY <3>1, <3>2, <3>3
  <2>3. CASE pc' \notin {"ensure", "publish"}
    BY <2>3 DEF Chosen
  <2> QED BY <2>1, <2>2, <2>3
<1> QED
  BY <1>4, <1>5, <1>6

\* The three hold throughout.
THEOREM AddressInvHolds == Spec => []AddressInv
<1>1. Init => AddressInv
  <2> SUFFICES ASSUME Init PROVE AddressInv
    OBVIOUS
  <2>1. pc = "idle" /\ \A s \in Ref : api[s] = Absent
    BY DEF Init
  <2> QED BY <2>1 DEF AddressInv, Exclusive, FromPool, Chosen, Held, Live
<1>2. Base /\ AddressInv /\ [Next]_vars => AddressInv'
  BY AddressStep
<1> QED
  BY <1>1, <1>2, BaseHolds, PTL DEF Spec

\* As long as every allocation listed the Services from a cache that had all
\* writes of the others and no Service came back, no two live Services publish the same address
\* (collectUsedIPs, Allocate): not for any number of Services, addresses,
\* failed or unanswered status updates, retries and restarts.
THEOREM UniqueAlways == Spec => []UniqueUnlessBlind
<1>1. Base /\ AddressInv => UniqueUnlessBlind
  <2> SUFFICES ASSUME Base, AddressInv, ~blind, returned = {}, NEW s \in Ref, NEW t \in Ref, s # t,
                      Live(api[s]), Live(api[t]), NEW a, a \in Entries(api[s].ingress),
                      a \in Entries(api[t].ingress)
               PROVE  FALSE
    BY DEF UniqueUnlessBlind, AddressesAreUnique
  <2>1. /\ api[s].ingress \in {<<>>} \cup {<<b>> : b \in IP}
        /\ api[t].ingress \in {<<>>} \cup {<<b>> : b \in IP}
    BY DEF Live, Base, TypeOK, Object
  <2>2. a \in IP /\ api[s].ingress = <<a>> /\ api[t].ingress = <<a>>
    BY <2>1, EntriesOfOne
  <2>3. Held(s, a) /\ Held(t, a)
    BY <2>2 DEF Held
  <2> QED BY <2>2, <2>3 DEF AddressInv, Exclusive
<1> QED
  BY <1>1, BaseHolds, AddressInvHolds, PTL

\* And a live Service keeps the address it has published, because Allocate
\* reuses the address of the status, the status update is refused when the copy
\* is out of date, and the status is cleared only of Services that have left.
THEOREM AddressesAreKept == Spec => AddressIsKept
<1> DEFINE Step == \A s \in Ref :
          (~blind' /\ returned' = {} /\ Live(api[s]) /\ Live(api'[s]) /\ api[s].ingress # <<>>) =>
             api'[s].ingress = api[s].ingress
<1>1. Base /\ AddressInv /\ [Next]_vars => [Step]_vars
  <2> SUFFICES ASSUME Base, AddressInv, [Next]_vars, NEW s \in Ref, ~blind', returned' = {}, Live(api[s]),
                      Live(api'[s]), api[s].ingress # <<>>
               PROVE  api'[s].ingress = api[s].ingress
    OBVIOUS
  <2>1. Changed(s)
    BY StepChanges
  <2>2. ~blind /\ returned = {}
    BY HistoryStays
  <2>3. PICK a \in IP : api[s].ingress = <<a>>
    BY DEF Live, Base, TypeOK, Object
  <2>4. s = key /\ pc = "publish" /\ current => a = ip
    BY <2>2, <2>3 DEF AddressInv, Chosen, Held
  <2> QED BY <2>1, <2>3, <2>4 DEF Changed, Live
<1> HIDE DEF Step
<1>2. Spec => [][Step]_vars
  BY <1>1, BaseHolds, AddressInvHolds, PTL DEF Spec
<1> QED
  BY <1>2 DEF Step, AddressIsKept
=============================================================================
