-------------------------- MODULE ReconcileProofs ---------------------------
(***************************************************************************)
(* Proofs about ServiceController that need no assumption about what users *)
(* do: the types, that the cache follows the API server, and what a        *)
(* reconcile knows of its own copy.  The other proofs about the reconciler *)
(* build on them.                                                          *)
(***************************************************************************)
EXTENDS ServiceController, WellFoundedInduction, TLAPS

\* The last version of s that the cache gets is the stored one.
Follows(s) ==
    /\ Fresh(s) => cache[s] = api[s]
    /\ \A i \in 1..Len(watch) :
          watch[i].name = s /\ (\A j \in 1..Len(watch) : i < j => watch[j].name # s) =>
              watch[i].object = api[s]

\* The copy of a reconcile is the stored object as long as it is current, and
\* the address is one of the pool once there is one.
Copied ==
    /\ pc # "idle" => svc # Absent
    /\ pc \in {"ensure", "publish"} => ip \in IP /\ InPool(ip)
    /\ current /\ pc \notin {"idle", "refresh", "refreshCleared"} => svc = api[key]
    /\ pc \in {"cleanupProvider", "clearStatus"} => ~svc.managed
    /\ pc = "refreshCleared" => svc.finalizer

Base ==
    /\ TypeOK
    /\ \A s \in Ref : Follows(s)
    /\ Copied

-----------------------------------------------------------------------------
\* A write of an object to the API server keeps the types of what it touches.
LEMMA WriteType ==
    ASSUME TypeOK, NEW s \in Ref, NEW object \in Object \cup {Absent},
           NEW kind \in {"add", "spec", "meta", "gone"}, Write(s, object, kind)
    PROVE  /\ api' \in [Ref -> Object \cup {Absent}]
           /\ watch' \in Seq(Event)
           /\ Len(watch') = Len(watch) + 1
           /\ \A i \in 1..Len(watch) : watch'[i] = watch[i]
           /\ watch'[Len(watch) + 1].name = s
           /\ watch'[Len(watch) + 1].object = object
           /\ api' = [api EXCEPT ![s] = object]
<1> DEFINE event == [name |-> s, object |-> object, kind |-> kind]
<1>1. event \in Event /\ watch \in Seq(Event) /\ watch' = Append(watch, event)
  BY DEF Event, TypeOK, Write
<1> HIDE DEF event
<1>2. /\ watch' \in Seq(Event)
      /\ Len(watch') = Len(watch) + 1
      /\ \A i \in 1..Len(watch) : watch'[i] = watch[i]
      /\ watch'[Len(watch) + 1] = event
  BY <1>1
<1> QED
  BY <1>2 DEF event, Write, TypeOK

\* A merge patch of the finalizers writes nothing or an object that differs in
\* the finalizer alone, or removes the object.
LEMMA PatchCases ==
    ASSUME TypeOK, NEW s \in Ref, NEW on \in BOOLEAN, api[s] # Absent, PatchFinalizer(s, on)
    PROVE  \/ api[s].finalizer = on /\ NoWrite
           \/ api[s].finalizer # on /\ api[s].deleting /\ Write(s, Absent, "gone")
           \/ /\ api[s].finalizer # on /\ ~api[s].deleting
              /\ [api[s] EXCEPT !.finalizer = on] \in Object
              /\ Write(s, [api[s] EXCEPT !.finalizer = on], "meta")
<1>1. api[s] \in Object
  BY DEF TypeOK
<1>2. [api[s] EXCEPT !.finalizer = on] \in Object
  BY <1>1 DEF Object
<1> QED
  BY <1>2 DEF PatchFinalizer

\* What a step does to the stored Services: nothing, or one write of an object.
Writes(s) ==
    \/ NoWrite
    \/ \E object \in Object \cup {Absent}, kind \in {"add", "spec", "meta", "gone"} :
          Write(s, object, kind)

\* So does the merge patch,
LEMMA PatchWrites ==
    ASSUME TypeOK, NEW s \in Ref, NEW on \in BOOLEAN, api[s] # Absent, PatchFinalizer(s, on)
    PROVE  Writes(s)
BY PatchCases, Zenon DEF Writes

\* and the update of the status, which writes an object that differs in the
\* ingress alone.
LEMMA StatusCases ==
    ASSUME TypeOK, NEW s \in Ref, api[s] # Absent,
           NEW ingress \in {<<>>} \cup {<<a>> : a \in IP}, UpdateStatus(s, ingress)
    PROVE  \E object \in Object :
              /\ Write(s, object, "meta") /\ object # Absent /\ object.ingress = ingress
              /\ object.managed = api[s].managed /\ object.deleting = api[s].deleting
              /\ object.finalizer = api[s].finalizer
<1> DEFINE new == [api[s] EXCEPT !.ingress = ingress]
<1>1. api[s] \in Object
  BY DEF TypeOK
<1>2. /\ new \in Object /\ Write(s, new, "meta") /\ new.ingress = ingress
      /\ new.managed = api[s].managed /\ new.deleting = api[s].deleting
      /\ new.finalizer = api[s].finalizer
  BY <1>1 DEF Object, UpdateStatus
<1>3. new # Absent
  BY <1>2, AbsentObjectAssumption
<1> HIDE DEF new
<1> QED
  BY <1>2, <1>3

\* The cache takes over the first event of the watch; the rest moves up.
LEMMA DeliverType ==
    ASSUME TypeOK, Deliver
    PROVE  /\ Len(watch) \in Nat \ {0}
           /\ Len(watch') = Len(watch) - 1
           /\ \A i \in 1..Len(watch) - 1 : watch'[i] = watch[i + 1]
           /\ watch[1] \in Event
           /\ \A t \in Ref : cache'[t] = IF watch[1].name = t THEN watch[1].object ELSE cache[t]
           /\ api' = api
           /\ cache' \in [Ref -> Object \cup {Absent}]
           /\ watch' \in Seq(Event)
<1>1. watch \in Seq(Event) /\ watch # <<>> /\ watch' = Tail(watch)
  BY DEF TypeOK, Deliver
<1>2. /\ Len(watch) \in Nat \ {0}
      /\ Len(watch') = Len(watch) - 1
      /\ \A i \in 1..Len(watch) - 1 : watch'[i] = watch[i + 1]
      /\ watch' \in Seq(Event)
      /\ watch[1] \in Event
      /\ Head(watch) = watch[1]
  BY <1>1
<1>3. cache' = [cache EXCEPT ![watch[1].name] = watch[1].object] /\ api' = api
  BY <1>2, Zenon DEF Deliver
<1>4. watch[1].name \in Ref /\ watch[1].object \in Object \cup {Absent}
  BY <1>2 DEF Event
<1> QED
  BY <1>2, <1>3, <1>4, Zenon DEF TypeOK

\* A non-empty set of pool positions has a first one.
LEMMA FirstPosition ==
    ASSUME NEW S \in SUBSET Nat, S # {}
    PROVE  \E i \in S : \A j \in S : i <= j
<1>1. PICK i \in S : \A j \in S : <<j, i>> \notin OpToRel(<, Nat)
  BY NatLessThanWellFounded, WFMin, Zenon
<1>2. \A j \in S : ~(j < i)
  BY <1>1, Zenon DEF OpToRel
<1> QED
  BY <1>2

\* Allocate returns an address of the pool that no other live Service of the
\* listing holds, or ErrNoFreeIP (allocator.go).
LEMMA AllocateSound ==
    ASSUME NEW name, NEW object, NEW listing, Allocate(name, object, listing) # NoIP
    PROVE  /\ Allocate(name, object, listing) \in IP
           /\ InPool(Allocate(name, object, listing))
           /\ Allocate(name, object, listing) \notin CollectUsedIPs(name, listing)
<1> DEFINE used == CollectUsedIPs(name, listing)
           mine == AssignedIPFromStatus(object.ingress)
           free == {i \in 1..Len(Pool) : Pool[i] \notin used}
           first == CHOOSE i \in free : \A j \in free : i <= j
<1>1. CASE InPool(mine) /\ mine \notin used
  <2>1. Allocate(name, object, listing) = mine
    BY <1>1 DEF Allocate
  <2> QED
    BY <1>1, <2>1, PoolAssumption DEF InPool
<1>2. CASE ~(InPool(mine) /\ mine \notin used) /\ free # {}
  <2>1. Allocate(name, object, listing) = Pool[first]
    BY <1>2 DEF Allocate
  <2>2. first \in free
    <3> HIDE DEF used, mine
    <3>1. free \in SUBSET Nat
      OBVIOUS
    <3>2. \E i \in free : \A j \in free : i <= j
      BY <1>2, <3>1, FirstPosition, Zenon
    <3> HIDE DEF free
    <3> QED BY <3>2
  <2> QED
    BY <2>1, <2>2, PoolAssumption, Zenon DEF InPool
<1>3. CASE ~(InPool(mine) /\ mine \notin used) /\ ~(free # {})
  BY <1>3 DEF Allocate
<1> QED
  BY <1>1, <1>2, <1>3

\* What the reconciler hands to the provider is a Service the provider takes.
LEMMA UpsertType ==
    ASSUME TypeOK, key \in Ref, ip \in IP, svc # Absent
    PROVE  ProviderService \in Value
<1>1. svc.ports \in Ports /\ sliceCache[key] \in Slices
  BY DEF TypeOK, Object
<1>2. <<svc.ports, sliceCache[key]>> \in Payload
  BY <1>1, PayloadAssumption
<1> QED
  BY <1>2 DEF ProviderService, Value


-----------------------------------------------------------------------------
\* What a user makes of a Service: a new object without finalizer and status,
\* none any more when there was no finalizer, or one with the same finalizer,
\* which is in deletion only if it was or has the finalizer, is noted when it
\* comes back to the controller, and whose status others change only when it is
\* not the controller's.
Edited(s, object) ==
    IF object = Absent THEN api[s] # Absent /\ ~api[s].finalizer
    ELSE IF api[s] = Absent THEN ~object.finalizer /\ ~object.deleting /\ object.ingress = <<>>
    ELSE /\ object.finalizer = api[s].finalizer
         /\ object.deleting = api[s].deleting \/ (object.deleting /\ api[s].finalizer)
         /\ object.managed => api[s].managed \/ s \in returned'
         /\ object.ingress = api[s].ingress \/ ~object.managed

\* Every edit of a Service is such a write.
LEMMA UserWrites ==
    ASSUME TypeOK, NEW s \in Ref,
           \/ Create(s) \/ UserDelete(s) \/ SetManaged(s, TRUE) \/ SetManaged(s, FALSE)
           \/ SetPorts(s) \/ ForeignStatus(s)
    PROVE  \E object \in Object \cup {Absent}, kind \in {"add", "spec", "meta", "gone"} :
              Write(s, object, kind) /\ Edited(s, object)
<1> USE DEF Edited
<1>0. api[s] # Absent => api[s] \in Object
  BY DEF TypeOK
<1>1. CASE Create(s)
  <2>1. PICK p \in Ports :
           Write(s, [managed |-> TRUE, deleting |-> FALSE, finalizer |-> FALSE,
                     ingress |-> <<>>, ports |-> p], "add")
    BY <1>1, Zenon DEF Create
  <2> DEFINE new == [managed |-> TRUE, deleting |-> FALSE, finalizer |-> FALSE,
                     ingress |-> <<>>, ports |-> p]
  <2>2. new \in Object
    BY DEF Object
  <2>3. /\ new.deleting = FALSE /\ new.finalizer = FALSE /\ new.ingress = <<>>
        /\ api[s] = Absent /\ Write(s, new, "add") /\ new # Absent
    BY <1>1, <2>1, <2>2, AbsentObjectAssumption, Zenon DEF Create
  <2> HIDE DEF new
  <2> QED BY <2>2, <2>3
<1>2. CASE UserDelete(s)
  <2>1. api[s] # Absent /\ ~api[s].deleting
    BY <1>2 DEF UserDelete
  <2>2. CASE api[s].finalizer
    <3> DEFINE new == [api[s] EXCEPT !.deleting = TRUE]
    <3>1. /\ new \in Object /\ new.deleting /\ new.finalizer = api[s].finalizer
          /\ new.managed = api[s].managed /\ new.ingress = api[s].ingress
          /\ Write(s, new, "spec")
      BY <1>0, <1>2, <2>1, <2>2, Zenon DEF UserDelete, Object
    <3>2. new # Absent
      BY <3>1, AbsentObjectAssumption, Zenon
    <3> HIDE DEF new
    <3> QED BY <2>1, <2>2, <3>1, <3>2, Zenon
  <2>3. CASE ~api[s].finalizer
    BY <1>2, <2>1, <2>3 DEF UserDelete
  <2> QED BY <2>2, <2>3
<1>3. ASSUME NEW on \in BOOLEAN, SetManaged(s, on), on => s \in returned'
      PROVE  \E object \in Object \cup {Absent}, kind \in {"add", "spec", "meta", "gone"} :
                Write(s, object, kind) /\ Edited(s, object)
  <2> DEFINE new == [api[s] EXCEPT !.managed = on]
  <2>1. api[s] # Absent
    BY <1>3 DEF SetManaged
  <2>2. /\ new \in Object /\ Write(s, new, "spec") /\ new.managed = on
        /\ new.deleting = api[s].deleting /\ new.finalizer = api[s].finalizer
        /\ new.ingress = api[s].ingress
    BY <1>0, <1>3, <2>1 DEF SetManaged, Object
  <2>3. new # Absent
    BY <2>2, AbsentObjectAssumption
  <2> HIDE DEF new
  <2>4. Edited(s, new)
    BY <1>3, <2>1, <2>2, <2>3
  <2> QED BY <2>2, <2>4
<1>4. SetManaged(s, TRUE) => s \in returned'
  BY DEF SetManaged, Edit
<1>5. CASE SetPorts(s)
  <2>1. PICK p \in Ports : Write(s, [api[s] EXCEPT !.ports = p], "spec")
    BY <1>5 DEF SetPorts
  <2> DEFINE new == [api[s] EXCEPT !.ports = p]
  <2>2. api[s] # Absent
    BY <1>5 DEF SetPorts
  <2>3. /\ new \in Object /\ Write(s, new, "spec") /\ new.managed = api[s].managed
        /\ new.deleting = api[s].deleting /\ new.finalizer = api[s].finalizer
        /\ new.ingress = api[s].ingress
    BY <1>0, <2>1, <2>2 DEF Object
  <2>4. new # Absent
    BY <2>3, AbsentObjectAssumption
  <2> HIDE DEF new
  <2> QED BY <2>2, <2>3, <2>4
<1>6. CASE ForeignStatus(s)
  <2>1. PICK a \in IP : UpdateStatus(s, <<a>>)
    BY <1>6 DEF ForeignStatus
  <2>2. api[s] # Absent /\ ~api[s].managed
    BY <1>6 DEF ForeignStatus
  <2>3. PICK object \in Object :
           /\ Write(s, object, "meta") /\ object # Absent
           /\ object.managed = api[s].managed /\ object.deleting = api[s].deleting
           /\ object.finalizer = api[s].finalizer
    BY <2>1, <2>2, StatusCases
  <2> QED BY <2>2, <2>3
<1> QED
  BY <1>1, <1>2, <1>3, <1>4, <1>5, <1>6, Zenon

-----------------------------------------------------------------------------
\* A write leaves the other Services alone, and the cache follows,
LEMMA WritesFollow ==
    ASSUME TypeOK, \A t \in Ref : Follows(t), NEW s \in Ref, Writes(s), cache' = cache
    PROVE  /\ api' \in [Ref -> Object \cup {Absent}]
           /\ watch' \in Seq(Event)
           /\ \A t \in Ref : Follows(t)' /\ (t # s => api'[t] = api[t])
<1>1. CASE NoWrite
  BY <1>1 DEF NoWrite, Follows, Fresh, TypeOK
<1>2. CASE \E object \in Object \cup {Absent}, kind \in {"add", "spec", "meta", "gone"} :
              Write(s, object, kind)
  <2>1. PICK object \in Object \cup {Absent}, kind \in {"add", "spec", "meta", "gone"} :
           Write(s, object, kind)
    BY <1>2
  <2> DEFINE n == Len(watch)
  <2>2. /\ api' \in [Ref -> Object \cup {Absent}]
        /\ watch' \in Seq(Event)
    BY <2>1, WriteType
  <2>3. /\ n \in Nat
        /\ Len(watch') = n + 1
        /\ \A i \in 1..n : watch'[i] = watch[i]
        /\ watch'[n + 1].name = s
        /\ watch'[n + 1].object = object
    BY <2>1, WriteType DEF TypeOK
  <2>4. \A t \in Ref : api'[t] = IF t = s THEN object ELSE api[t]
    BY <2>1 DEF Write, TypeOK
  <2>5. \A i \in 1..n + 1 : i \in 1..n \/ i = n + 1
    BY <2>3
  <2>6. n + 1 \in 1..n + 1 /\ \A i \in 1..n : i \in 1..n + 1 /\ i < n + 1
    BY <2>3
  <2>7. ASSUME NEW t \in Ref PROVE Follows(t)'
    <3>1. (Fresh(t) => cache[t] = api[t])'
      <4> SUFFICES ASSUME \A i \in 1..n + 1 : watch'[i].name # t PROVE cache[t] = api'[t]
        BY <2>3 DEF Fresh
      <4>1. t # s
        BY <2>3, <2>6
      <4>2. Fresh(t)
        BY <2>3, <2>6 DEF Fresh
      <4> QED BY <2>4, <4>1, <4>2 DEF Follows
    <3>2. (\A i \in 1..Len(watch) :
             watch[i].name = t /\ (\A j \in 1..Len(watch) : i < j => watch[j].name # t) =>
                 watch[i].object = api[t])'
      <4> SUFFICES ASSUME NEW i \in 1..n + 1, watch'[i].name = t,
                          \A j \in 1..n + 1 : i < j => watch'[j].name # t
                   PROVE  watch'[i].object = api'[t]
        BY <2>3
      <4>1. CASE i = n + 1
        BY <2>3, <2>4, <4>1
      <4>2. CASE i \in 1..n
        <5>1. t # s
          BY <2>3, <2>6, <4>2
        <5>2. \A j \in 1..n : i < j => watch[j].name # t
          BY <2>3, <2>6
        <5> QED BY <2>3, <2>4, <4>2, <5>1, <5>2 DEF Follows
      <4> QED BY <2>5, <4>1, <4>2
    <3> QED BY <3>1, <3>2 DEF Follows
  <2> QED BY <2>2, <2>4, <2>7
<1> QED
  BY <1>1, <1>2 DEF Writes

\* as it does when it takes over an event.
LEMMA DeliverFollows ==
    ASSUME TypeOK, Deliver, NEW t \in Ref, Follows(t)
    PROVE  Follows(t)'
<1> DEFINE n == Len(watch)
<1>0. n \in Nat \ {0} /\ Len(watch') = n - 1
  BY DeliverType
<1>1. \A i \in 1..n - 1 : watch'[i] = watch[i + 1]
  BY DeliverType
<1>2. cache'[t] = (IF watch[1].name = t THEN watch[1].object ELSE cache[t]) /\ api' = api
  BY DeliverType
<1>3. 1 \in 1..n /\ \A i \in 1..n - 1 : i + 1 \in 1..n
  BY <1>0
<1>4. \A j \in 1..n : 1 < j => j - 1 \in 1..n - 1 /\ (j - 1) + 1 = j
  BY <1>0
<1>5. (Fresh(t) => cache[t] = api[t])'
  <2> SUFFICES ASSUME \A i \in 1..n - 1 : watch'[i].name # t PROVE cache'[t] = api[t]
    BY <1>0, <1>2 DEF Fresh
  <2>1. \A i \in 1..n : 1 < i => watch[i].name # t
    <3> SUFFICES ASSUME NEW i \in 1..n, 1 < i PROVE watch[i].name # t
      OBVIOUS
    <3>1. i - 1 \in 1..n - 1 /\ (i - 1) + 1 = i
      BY <1>4
    <3>2. watch'[i - 1] = watch[(i - 1) + 1]
      BY <1>1, <3>1
    <3> QED BY <3>1, <3>2
  <2>2. CASE watch[1].name = t
    BY <1>2, <1>3, <2>1, <2>2 DEF Follows
  <2>3. CASE watch[1].name # t
    <3>1. \A i \in 1..n : i = 1 \/ 1 < i
      BY <1>0
    <3>2. Fresh(t)
      BY <2>1, <2>3, <3>1 DEF Fresh
    <3> QED BY <1>2, <2>3, <3>2 DEF Follows
  <2> QED BY <2>2, <2>3
<1>6. (\A i \in 1..Len(watch) :
         watch[i].name = t /\ (\A j \in 1..Len(watch) : i < j => watch[j].name # t) =>
             watch[i].object = api[t])'
  <2> SUFFICES ASSUME NEW i \in 1..n - 1, watch'[i].name = t,
                      \A j \in 1..n - 1 : i < j => watch'[j].name # t
               PROVE  watch'[i].object = api[t]
    BY <1>0, <1>2
  <2>1. i + 1 \in 1..n
    BY <1>3
  <2>2. watch'[i] = watch[i + 1]
    BY <1>1
  <2>3. \A j \in 1..n : i + 1 < j => watch[j].name # t
    <3> SUFFICES ASSUME NEW j \in 1..n, i + 1 < j PROVE watch[j].name # t
      OBVIOUS
    <3>1. j - 1 \in 1..n - 1 /\ i < j - 1 /\ (j - 1) + 1 = j
      BY <1>0
    <3>2. watch'[j - 1] = watch[(j - 1) + 1]
      BY <1>1, <3>1
    <3> QED BY <3>1, <3>2
  <2>4. watch[i + 1].object = api[t]
    BY <2>1, <2>2, <2>3 DEF Follows
  <2> QED BY <2>2, <2>4
<1> QED
  BY <1>5, <1>6 DEF Follows

-----------------------------------------------------------------------------
\* A call of the provider is a request that can be left on the way,
LEMMA ProviderCallType ==
    ASSUME Base, CallsProvider
    PROVE  ProviderCall \in LateRequest
<1> USE DEF Base
<1>1. key \in Ref /\ faults \in 0..MaxFaults
  BY DEF TypeOK, CallsProvider
<1>2. pc = "ensure" => ProviderService \in Value
  BY <1>1, UpsertType DEF Copied
<1> HIDE DEF ProviderService
<1> QED
  BY <1>1, <1>2 DEF ProviderCall, LateRequest

\* and what is noted beside the system has its type.
LEMMA StepKeepsNoted ==
    ASSUME Base, [Next]_vars
    PROVE  NotedTypeOK'
<1>0. NotedTypeOK /\ (pc # "idle" => key \in Ref)
  BY DEF Base, TypeOK
<1> USE <1>0 DEF NotedTypeOK
<1>1. CASE User
  <2>1. PICK s \in Ref : \/ Create(s) \/ UserDelete(s)
                         \/ SetManaged(s, TRUE) \/ SetManaged(s, FALSE)
                         \/ SetPorts(s) \/ ForeignStatus(s) \/ SetSlices(s)
    BY <1>1, Zenon DEF User
  <2>2. CASE SetSlices(s)
    BY <2>2 DEF SetSlices, providerVars, historyVars
  <2>3. CASE \E e : Edit(s, e)
    BY <2>3 DEF Edit, providerVars
  <2> QED BY <2>1, <2>2, <2>3, Zenon DEF Create, UserDelete, SetManaged, SetPorts, ForeignStatus
<1>2. CASE Deliver \/ (\E s \in Ref : DeliverSlices(s)) \/ (\E s \in Ref : Reconcile(s))
  BY <1>2 DEF Deliver, DeliverSlices, Reconcile, providerVars, historyVars
<1>3. CASE EnsureServiceFinalizer \/ PublishStatus \/ ClearStatus \/ RemoveServiceFinalizer
  BY <1>3, Zenon DEF EnsureServiceFinalizer, PublishStatus, ClearStatus, RemoveServiceFinalizer,
              providerVars, historyVars
<1>4. CASE Refresh \/ RefreshCleared \/ AllocateIP
  BY <1>4, Zenon DEF Refresh, RefreshCleared, ReadAgain, AllocateIP, providerVars, historyVars
<1>5. CASE EnsureProvider \/ DeleteProvider
  BY <1>5 DEF EnsureProvider, DeleteProvider, historyVars
<1>6. CASE ApiCallFails \/ UNCHANGED vars
  BY <1>6, Zenon DEF ApiCallFails, vars, providerVars, historyVars
<1>7. CASE ProviderCallFails \/ ControllerRestart
  <2>1. CallsProvider => ProviderCall \in LateRequest
    BY ProviderCallType
  <2> QED BY <1>7, <2>1, Zenon DEF ProviderCallFails, ControllerRestart, GiveUp, historyVars
<1>8. CASE LateEffect
  <2>1. PICK c \in LateRequest : disturbed' = disturbed \cup {c.ref} /\ late' = late \ {c}
    BY <1>8 DEF LateEffect
  <2> QED BY <1>8, <2>1 DEF LateEffect, LateRequest, historyVars
<1>9. CASE DataplaneRestart
  BY <1>9 DEF DataplaneRestart, historyVars
<1> QED
  BY <1>1, <1>2, <1>3, <1>4, <1>5, <1>6, <1>7, <1>8, <1>9 DEF Next, Worker

\* Neither an allocation that missed a write nor a Service that came back is
\* forgotten.
LEMMA HistoryStays ==
    ASSUME [Next]_vars
    PROVE  (blind => blind') /\ returned \subseteq returned'
<1>0. ASSUME UNCHANGED historyVars PROVE (blind => blind') /\ returned \subseteq returned'
  BY <1>0 DEF historyVars
<1>1. CASE User
  <2>1. CASE \E s \in Ref : \E e : Edit(s, e)
    BY <2>1 DEF Edit
  <2>2. CASE \E s \in Ref : SetSlices(s)
    BY <1>0, <2>2, Zenon DEF SetSlices
  <2> QED BY <1>1, <2>1, <2>2, Zenon DEF User, Create, UserDelete, SetManaged, SetPorts, ForeignStatus
<1>2. CASE Deliver \/ (\E s \in Ref : DeliverSlices(s)) \/ (\E s \in Ref : Reconcile(s))
  BY <1>0, <1>2, Zenon DEF Deliver, DeliverSlices, Reconcile
<1>3. CASE EnsureServiceFinalizer \/ PublishStatus \/ ClearStatus \/ RemoveServiceFinalizer
  BY <1>0, <1>3, Zenon DEF EnsureServiceFinalizer, PublishStatus, ClearStatus, RemoveServiceFinalizer
<1>4. CASE Refresh \/ RefreshCleared \/ EnsureProvider \/ DeleteProvider
  BY <1>0, <1>4, Zenon DEF Refresh, RefreshCleared, ReadAgain, EnsureProvider, DeleteProvider
<1>5. CASE AllocateIP
  <2>1. returned' = returned
    BY <1>5, Zenon DEF AllocateIP
  <2>2. blind => blind'
    BY <1>5, Zenon DEF AllocateIP
  <2> QED BY <2>1, <2>2, Zenon
<1>6. CASE \/ ApiCallFails \/ ProviderCallFails \/ LateEffect \/ ControllerRestart
           \/ DataplaneRestart \/ UNCHANGED vars
  BY <1>0, <1>6, Zenon DEF ApiCallFails, ProviderCallFails, LateEffect, ControllerRestart,
                           DataplaneRestart, vars
<1> QED
  BY <1>1, <1>2, <1>3, <1>4, <1>5, <1>6 DEF Next, Worker

-----------------------------------------------------------------------------
\* The actions one by one: users and the endpoint controller,
LEMMA UserKeepsBase ==
    ASSUME Base, NotedTypeOK', User
    PROVE  Base'
<1> USE DEF Base
<1>1. PICK s \in Ref : \/ Create(s) \/ UserDelete(s)
                       \/ SetManaged(s, TRUE) \/ SetManaged(s, FALSE)
                       \/ SetPorts(s) \/ ForeignStatus(s) \/ SetSlices(s)
  BY Zenon DEF User
<1>2. CASE SetSlices(s)
  <2>1. /\ api' = api /\ cache' = cache /\ watch' = watch /\ pc' = pc /\ key' = key /\ svc' = svc
        /\ ip' = ip /\ current' = current
    BY <1>2 DEF SetSlices, cacheVars, localVars
  <2>2. edits' \in 0..MaxEdits /\ slices' \in [Ref -> Slices]
    BY <1>2, BoundsAssumption DEF SetSlices, TypeOK
  <2>3. TypeOK'
    BY <1>2, <2>1, <2>2 DEF SetSlices, TypeOK, cacheVars, providerVars, historyVars
  <2>4. (\A t \in Ref : Follows(t)') /\ Copied'
    BY <2>1 DEF Follows, Fresh, Copied
  <2> QED BY <2>3, <2>4
<1>3. CASE \/ Create(s) \/ UserDelete(s) \/ SetManaged(s, TRUE) \/ SetManaged(s, FALSE)
           \/ SetPorts(s) \/ ForeignStatus(s)
  <2>1. Writes(s)
    BY <1>3, UserWrites, Zenon DEF Writes
  <2>2. (\E e : Edit(s, e)) /\ slices' = slices
    BY <1>3, Zenon DEF Create, UserDelete, SetManaged, SetPorts, ForeignStatus
  <2>3. /\ cache' = cache /\ sliceCache' = sliceCache /\ pc' = pc /\ key' = key /\ svc' = svc
        /\ ip' = ip /\ queue' = queue /\ provider' = provider /\ faults' = faults /\ blind' = blind
        /\ current' = (current /\ s # key) /\ edits < MaxEdits /\ edits' = edits + 1
    BY <2>2 DEF Edit, cacheVars, providerVars
  <2>4. /\ api' \in [Ref -> Object \cup {Absent}]
        /\ watch' \in Seq(Event)
        /\ \A t \in Ref : Follows(t)' /\ (t # s => api'[t] = api[t])
    BY <2>1, <2>3, WritesFollow
  <2>5. edits' \in 0..MaxEdits /\ current' \in BOOLEAN
    BY <2>3, BoundsAssumption DEF TypeOK
  <2>6. TypeOK'
    BY <2>2, <2>3, <2>4, <2>5 DEF TypeOK
  <2>7. current' /\ pc # "idle" => api'[key] = api[key] /\ current
    BY <2>3, <2>4, ZenonT(30) DEF TypeOK
  <2>8. Copied'
    BY <2>3, <2>7 DEF Copied
  <2> QED BY <2>4, <2>6, <2>8
<1> QED
  BY <1>1, <1>2, <1>3, Zenon

\* the informers,
LEMMA DeliverKeepsBase ==
    ASSUME Base, NotedTypeOK', Deliver \/ \E s \in Ref : DeliverSlices(s)
    PROVE  Base'
<1> USE DEF Base
<1>1. CASE Deliver
  <2>1. /\ pc' = pc /\ key' = key /\ svc' = svc /\ ip' = ip /\ provider' = provider
        /\ current' = current /\ api' = api /\ slices' = slices /\ edits' = edits
        /\ sliceCache' = sliceCache /\ faults' = faults /\ blind' = blind
    BY <1>1 DEF Deliver, localVars, providerVars, historyVars
  <2>2. /\ watch[1] \in Event
        /\ cache' \in [Ref -> Object \cup {Absent}]
        /\ watch' \in Seq(Event)
    BY <1>1, DeliverType, Zenon
  <2>3. queue' \subseteq Ref
    <3>1. Head(watch) = watch[1]
      BY <1>1 DEF Deliver, TypeOK
    <3> QED BY <1>1, <2>2, <3>1, Zenon DEF Deliver, Event, TypeOK
  <2>4. TypeOK'
    BY <2>1, <2>2, <2>3 DEF TypeOK
  <2>5. Copied'
    BY <2>1 DEF Copied
  <2> QED BY <1>1, <2>4, <2>5, DeliverFollows
<1>2. CASE \E s \in Ref : DeliverSlices(s)
  <2>0. PICK s \in Ref : DeliverSlices(s)
    BY <1>2
  <2>1. /\ pc' = pc /\ key' = key /\ svc' = svc /\ ip' = ip /\ provider' = provider
        /\ current' = current /\ api' = api /\ slices' = slices /\ edits' = edits
        /\ cache' = cache /\ watch' = watch /\ faults' = faults /\ blind' = blind
    BY <2>0 DEF DeliverSlices, localVars, clusterVars, providerVars, historyVars
  <2>2. TypeOK'
    BY <2>0, <2>1, ZenonT(30) DEF DeliverSlices, TypeOK
  <2>3. (\A t \in Ref : Follows(t)') /\ Copied'
    BY <2>1, Zenon DEF Follows, Fresh, Copied
  <2> QED BY <2>2, <2>3
<1> QED
  BY <1>1, <1>2

\* the start of a reconcile,
LEMMA ReconcileKeepsBase ==
    ASSUME Base, NotedTypeOK', NEW s \in Ref, Reconcile(s)
    PROVE  Base'
<1> USE DEF Base
<1> DEFINE branch == Branch(cache[s])
<1>1. /\ api' = api /\ cache' = cache /\ watch' = watch /\ slices' = slices /\ edits' = edits
      /\ sliceCache' = sliceCache /\ ip' = ip /\ provider' = provider /\ faults' = faults
      /\ blind' = blind
      /\ queue' \subseteq Ref
      /\ pc' = branch
      /\ key' = IF branch = "idle" THEN NoKey ELSE s
      /\ svc' = IF branch = "idle" THEN Absent ELSE cache[s]
      /\ current' = (branch # "idle" /\ Fresh(s))
  BY DEF Reconcile, clusterVars, cacheVars, providerVars, historyVars, TypeOK
<1>2. cache[s] \in Object \cup {Absent}
  BY DEF TypeOK
<1>3. /\ branch \in {"idle", "addFinalizer", "allocate", "deleteProvider", "cleanupProvider"}
      /\ branch # "idle" => cache[s] # Absent
      /\ branch = "cleanupProvider" => ~cache[s].managed
  BY DEF Branch
<1>4. Fresh(s) => cache[s] = api[s]
  BY DEF Follows
<1> HIDE DEF branch
<1>5. TypeOK'
  <2>1. current' \in BOOLEAN /\ key' \in Ref \cup {NoKey} /\ svc' \in Object \cup {Absent}
    BY <1>1, <1>2
  <2>2. pc' \in Pcs /\ (pc' = "idle" <=> key' = NoKey)
    BY <1>1, <1>3, NoKeyAssumption, Zenon DEF Pcs
  <2> QED BY <1>1, <2>1, <2>2 DEF TypeOK
<1>6. \A t \in Ref : Follows(t)'
  BY <1>1 DEF Follows, Fresh
<1>7. Copied'
  BY <1>1, <1>3, <1>4, Zenon DEF Copied
<1> QED
  BY <1>5, <1>6, <1>7

\* the end of a reconcile, with a last write or without,
LEMMA ReturnKeepsBase ==
    ASSUME Base, NotedTypeOK', key \in Ref, NEW requeue, Return(requeue), Writes(key),
           UNCHANGED <<slices, edits, cacheVars, blind>>,
           provider' \in Config, faults' \in 0..MaxFaults
    PROVE  Base'
<1> USE DEF Base
<1>1. /\ pc' = "idle" /\ key' = NoKey /\ svc' = Absent /\ current' = FALSE /\ ip' = NoIP
      /\ queue' \subseteq Ref
  BY DEF Return, TypeOK
<1>2. /\ slices' = slices /\ edits' = edits /\ cache' = cache /\ sliceCache' = sliceCache
      /\ blind' = blind
  BY DEF cacheVars
<1>3. /\ api' \in [Ref -> Object \cup {Absent}]
      /\ watch' \in Seq(Event)
      /\ \A t \in Ref : Follows(t)'
  BY <1>2, WritesFollow
<1>4. TypeOK'
  BY <1>1, <1>2, <1>3, Zenon DEF TypeOK, Pcs
<1>5. Copied'
  BY <1>1, Zenon DEF Copied
<1> QED
  BY <1>3, <1>4, <1>5

\* (the update of the status by a reconcile with a current copy is a write,)
LEMMA UpdateWrites ==
    ASSUME Base, pc \in {"publish", "clearStatus"}, current, NEW ingress,
           ingress = IF pc = "publish" THEN <<ip>> ELSE <<>>, UpdateStatus(key, ingress)
    PROVE  key \in Ref /\ api[key] # Absent /\ Writes(key)
<1>1. key \in Ref /\ api[key] # Absent
  BY DEF Base, TypeOK, Copied
<1>2. ingress \in {<<>>} \cup {<<a>> : a \in IP}
  BY DEF Base, Copied
<1> QED
  BY <1>1, <1>2, StatusCases DEF Base, Writes

\* the steps of a reconcile that go on after a write to the API server or after
\* a call of the provider,
LEMMA WorkerWritesKeepBase ==
    ASSUME Base, NotedTypeOK', EnsureServiceFinalizer \/ PublishStatus \/ ClearStatus \/ RemoveServiceFinalizer
    PROVE  Base'
<1> USE DEF Base
<1>0. /\ key \in Ref
      /\ slices' = slices /\ edits' = edits /\ cache' = cache /\ sliceCache' = sliceCache
      /\ provider' = provider /\ faults' = faults /\ blind' = blind
  BY Zenon DEF TypeOK, EnsureServiceFinalizer, PublishStatus, ClearStatus, RemoveServiceFinalizer,
         cacheVars, providerVars, historyVars
<1>1. ASSUME NEW requeue, Return(requeue), Writes(key) PROVE Base'
  BY <1>0, <1>1, ReturnKeepsBase DEF TypeOK, cacheVars
<1>2. ASSUME NEW label \in {"refresh", "refreshCleared", "removeFinalizer"}, Goto(label),
             UNCHANGED <<svc, current, ip>>, Writes(key), pc # "idle",
             label = "refreshCleared" => svc.finalizer,
             label = "removeFinalizer" => NoWrite /\ pc = "clearStatus"
      PROVE  Base'
  <2>1. pc' = label /\ key' = key /\ queue' = queue /\ svc' = svc /\ current' = current /\ ip' = ip
    BY <1>2 DEF Goto
  <2>2. /\ api' \in [Ref -> Object \cup {Absent}]
        /\ watch' \in Seq(Event)
        /\ \A t \in Ref : Follows(t)'
    BY <1>0, <1>2, WritesFollow
  <2>3. TypeOK'
    BY <1>0, <1>2, <2>1, <2>2 DEF TypeOK, Pcs
  <2>4. Copied'
    BY <1>2, <2>1 DEF Copied, NoWrite
  <2> QED BY <2>2, <2>3, <2>4
<1>3. NoWrite => Writes(key)
  BY DEF Writes
<1>4. CASE EnsureServiceFinalizer
  <2>1. pc = "addFinalizer"
    BY <1>4 DEF EnsureServiceFinalizer
  <2>2. CASE NoWrite /\ Return(TRUE)
    BY <1>1, <1>3, <2>2, Zenon
  <2>3. CASE /\ api[key] # Absent /\ PatchFinalizer(key, TRUE)
             /\ Goto("refresh") /\ UNCHANGED <<svc, current, ip>>
    <3>1. Writes(key)
      BY <1>0, <2>3, PatchWrites, Zenon
    <3> QED BY <1>2, <2>1, <2>3, <3>1
  <2> QED BY <1>4, <2>2, <2>3, Zenon DEF EnsureServiceFinalizer
<1>5. CASE PublishStatus
  <2>1. CASE NoWrite /\ (Return(TRUE) \/ Return(FALSE))
    BY <1>1, <1>3, <2>1, Zenon
  <2>2. CASE pc = "publish" /\ current /\ UpdateStatus(key, <<ip>>) /\ Return(FALSE)
    BY <1>1, <2>2, UpdateWrites, Zenon
  <2> QED BY <1>5, <2>1, <2>2, Zenon DEF PublishStatus, DesiredLoadBalancerIngress
<1>6. CASE ClearStatus
  <2>0. pc = "clearStatus"
    BY <1>6 DEF ClearStatus
  <2>1. CASE NoWrite /\ Goto("removeFinalizer") /\ UNCHANGED <<svc, current, ip>>
    BY <1>2, <1>3, <2>0, <2>1
  <2>2. CASE NoWrite /\ Return(TRUE)
    BY <1>1, <1>3, <2>2, Zenon
  <2>3. CASE current /\ UpdateStatus(key, <<>>)
    <3>1. Writes(key)
      BY <2>0, <2>3, UpdateWrites
    <3>2. CASE Return(FALSE)
      BY <1>1, <3>1, <3>2, Zenon
    <3>3. CASE svc.finalizer /\ Goto("refreshCleared") /\ UNCHANGED <<svc, current, ip>>
      BY <1>2, <2>0, <3>1, <3>3
    <3> QED BY <1>6, <2>1, <2>2, <3>2, <3>3, Zenon DEF ClearStatus
  <2> QED BY <1>6, <2>1, <2>2, <2>3, Zenon DEF ClearStatus
<1>7. CASE RemoveServiceFinalizer
  <2>1. CASE NoWrite /\ (Return(TRUE) \/ Return(FALSE))
    BY <1>1, <1>3, <2>1, Zenon
  <2>2. CASE api[key] # Absent /\ PatchFinalizer(key, FALSE) /\ Return(FALSE)
    BY <1>0, <1>1, <2>2, PatchWrites, Zenon
  <2> QED BY <1>7, <2>1, <2>2, Zenon DEF RemoveServiceFinalizer
<1> QED
  BY <1>4, <1>5, <1>6, <1>7

\* and those that write nothing there,
LEMMA WorkerReadsKeepBase ==
    ASSUME Base, NotedTypeOK', Refresh \/ RefreshCleared \/ AllocateIP \/ EnsureProvider \/ DeleteProvider
    PROVE  Base'
<1> USE DEF Base
<1>0. /\ key \in Ref
      /\ api' = api /\ watch' = watch /\ slices' = slices /\ edits' = edits
      /\ cache' = cache /\ sliceCache' = sliceCache /\ faults' = faults
  BY Zenon DEF TypeOK, Refresh, RefreshCleared, ReadAgain, AllocateIP, EnsureProvider, DeleteProvider,
         cacheVars, clusterVars
<1>1. \A t \in Ref : Follows(t)'
  BY <1>0 DEF Follows, Fresh
<1>2. ASSUME NEW requeue, Return(requeue), provider' = provider, blind' = blind PROVE Base'
  <2>1. Writes(key) /\ UNCHANGED <<slices, edits, cacheVars, blind>>
    BY <1>0, <1>2 DEF Writes, NoWrite, cacheVars
  <2> QED BY <1>0, <1>2, <2>1, ReturnKeepsBase DEF TypeOK
<1>3. ASSUME NEW label \in {"allocate", "removeFinalizer"}, ReadAgain(label), pc # "idle" PROVE Base'
  <2>1. CASE cache[key] # Absent /\ svc' = cache[key] /\ current' = Fresh(key) /\ Goto(label) /\ ip' = ip
    <3>1. pc' = label /\ key' = key /\ queue' = queue /\ provider' = provider /\ blind' = blind
      BY <1>3, <2>1 DEF ReadAgain, Goto, providerVars, historyVars
    <3>2. current' \in BOOLEAN /\ (current' => svc' = api[key])
      BY <1>0, <2>1 DEF Fresh, Follows
    <3>3. TypeOK'
      BY <1>0, <1>3, <2>1, <3>1, <3>2 DEF TypeOK, Pcs
    <3>4. Copied'
      BY <1>0, <2>1, <3>1, <3>2 DEF Copied
    <3> QED BY <1>1, <3>3, <3>4
  <2>2. CASE Return(TRUE)
    BY <1>2, <1>3, <2>2, Zenon DEF ReadAgain, providerVars, historyVars
  <2> QED BY <1>3, <2>1, <2>2, Zenon DEF ReadAgain
<1>4. CASE Refresh \/ RefreshCleared
  BY <1>3, <1>4 DEF Refresh, RefreshCleared
<1>5. CASE AllocateIP
  <2> DEFINE a == Allocate(key, svc, cache)
             missed == blind \/ \E i \in 1..Len(watch) : watch[i].name # key
  <2>0. /\ pc = "allocate" /\ provider' = provider
        /\ \/ /\ a # NoIP /\ ip' = a /\ blind' = missed
              /\ Goto("ensure") /\ svc' = svc /\ current' = current
           \/ Return(TRUE) /\ blind' = blind
    BY <1>5, Zenon DEF AllocateIP, providerVars
  <2>1. a # NoIP => a \in IP /\ InPool(a)
    BY AllocateSound
  <2>2. missed \in BOOLEAN
    BY DEF TypeOK
  <2> HIDE DEF a, missed
  <2>3. CASE a # NoIP /\ ip' = a /\ blind' = missed /\ Goto("ensure") /\ svc' = svc /\ current' = current
    <3>1. pc' = "ensure" /\ key' = key /\ queue' = queue /\ ip' \in IP /\ InPool(ip')
      BY <2>1, <2>3 DEF Goto
    <3>2. TypeOK'
      BY <1>0, <2>0, <2>2, <2>3, <3>1 DEF TypeOK, Pcs
    <3>3. Copied'
      BY <1>0, <2>0, <2>3, <3>1 DEF Copied, InPool
    <3> QED BY <1>1, <3>2, <3>3
  <2>4. CASE Return(TRUE) /\ blind' = blind
    BY <1>2, <2>0, <2>4, Zenon
  <2> QED BY <2>0, <2>3, <2>4, Zenon
<1>6. CASE EnsureProvider
  <2>1. /\ pc = "ensure" /\ pc' = "publish" /\ key' = key /\ queue' = queue /\ svc' = svc
        /\ current' = current /\ ip' = ip /\ blind' = blind
        /\ provider' = Upsert(provider, key, ProviderService)
    BY <1>6 DEF EnsureProvider, Goto, historyVars
  <2>2. ProviderService \in Value
    BY <1>0, <2>1, UpsertType DEF Copied
  <2>3. TypeOK'
    BY <1>0, <2>1, <2>2 DEF TypeOK, Pcs, Config, Upsert
  <2>4. Copied'
    BY <1>0, <2>1 DEF Copied, InPool
  <2> QED BY <1>1, <2>3, <2>4
<1>7. CASE DeleteProvider
  <2>1. /\ pc \in {"deleteProvider", "cleanupProvider"} /\ key' = key /\ queue' = queue /\ svc' = svc
        /\ current' = current /\ ip' = ip /\ blind' = blind
        /\ provider' = Remove(provider, key)
        /\ pc' = IF pc = "deleteProvider" THEN "removeFinalizer" ELSE "clearStatus"
    BY <1>7 DEF DeleteProvider, Goto, historyVars
  <2>2. TypeOK'
    BY <1>0, <2>1 DEF TypeOK, Pcs, Config, Remove
  <2>3. Copied'
    BY <1>0, <2>1 DEF Copied
  <2> QED BY <1>1, <2>2, <2>3
<1> QED
  BY <1>4, <1>5, <1>6, <1>7

\* the failures of calls, and restarts.
LEMMA FaultKeepsBase ==
    ASSUME Base, NotedTypeOK', ApiCallFails \/ ProviderCallFails \/ ControllerRestart \/ DataplaneRestart
    PROVE  Base'
<1> USE DEF Base
<1>0. faults' \in 0..MaxFaults
  <2>1. Fault
    BY Zenon DEF ApiCallFails, ProviderCallFails, ControllerRestart, DataplaneRestart
  <2> QED BY <2>1, BoundsAssumption DEF Fault, TypeOK
<1>1. EmptyConfig \in Config
  BY DEF EmptyConfig, Config
<1>2. CASE ApiCallFails
  <2>1. /\ UNCHANGED <<slices, edits, cacheVars, blind>> /\ provider' = provider /\ Return(TRUE)
        /\ key \in Ref /\ provider' \in Config
    BY <1>2, Zenon DEF ApiCallFails, TypeOK, providerVars, historyVars
  <2>2. Writes(key)
    <3>1. CASE NoWrite
      BY <3>1 DEF Writes
    <3>2. CASE \E on \in BOOLEAN : api[key] # Absent /\ PatchFinalizer(key, on)
      BY <2>1, <3>2, PatchWrites
    <3>3. CASE pc = "publish" /\ current /\ UpdateStatus(key, <<ip>>)
      BY <3>3, UpdateWrites
    <3>4. CASE pc = "clearStatus" /\ current /\ UpdateStatus(key, <<>>)
      BY <3>4, UpdateWrites
    <3> QED BY <1>2, <3>1, <3>2, <3>3, <3>4, Zenon
            DEF ApiCallFails, PatchFails, UpdateFails, DesiredLoadBalancerIngress
  <2> QED BY <1>0, <2>1, <2>2, ReturnKeepsBase, Zenon
<1>3. CASE ProviderCallFails
  <2>1. /\ Writes(key) /\ Return(TRUE) /\ UNCHANGED <<slices, edits, cacheVars, blind>> /\ key \in Ref
    BY <1>3, Zenon DEF ProviderCallFails, CallsProvider, clusterVars, historyVars, Writes, NoWrite, TypeOK
  <2>2. provider' \in Config
    <3>1. CASE provider' = provider
      BY <3>1 DEF TypeOK
    <3>2. CASE provider' = [provider EXCEPT ![key] = ProviderCall.val]
      <4>1. ProviderCall.val \in Value \cup {None}
        BY <1>3, ProviderCallType DEF ProviderCallFails, LateRequest
      <4> QED BY <2>1, <3>2, <4>1 DEF TypeOK, Config
    <3> QED BY <1>3, <3>1, <3>2 DEF ProviderCallFails
  <2> QED BY <1>0, <2>1, <2>2, ReturnKeepsBase, Zenon
<1>4. CASE ControllerRestart
  <2>1. /\ api' = api /\ cache' = api /\ watch' = <<>> /\ pc' = "idle" /\ key' = NoKey
        /\ svc' = Absent /\ current' = FALSE /\ ip' = NoIP /\ slices' = slices
        /\ sliceCache' = slices /\ edits' = edits /\ blind' = blind /\ queue' \subseteq Ref
        /\ provider' \in {EmptyConfig, provider}
    BY <1>4 DEF ControllerRestart, historyVars
  <2>2. watch' \in Seq(Event) /\ 1..Len(watch') = {}
    BY <2>1
  <2>3. TypeOK'
    BY <1>0, <1>1, <2>1, <2>2, Zenon DEF TypeOK, Pcs
  <2>4. (\A t \in Ref : Follows(t)') /\ Copied'
    BY <2>1, <2>2 DEF Follows, Copied
  <2> QED BY <2>3, <2>4
<1>5. CASE DataplaneRestart
  <2>1. /\ api' = api /\ watch' = watch /\ slices' = slices /\ edits' = edits /\ cache' = cache
        /\ sliceCache' = sliceCache /\ pc' = pc /\ key' = key /\ svc' = svc /\ current' = current
        /\ ip' = ip /\ queue' = queue /\ blind' = blind /\ provider' = EmptyConfig
    BY <1>5 DEF DataplaneRestart, clusterVars, cacheVars, localVars, historyVars
  <2>2. TypeOK'
    BY <1>0, <1>1, <2>1, SMTT(20) DEF TypeOK
  <2>3. (\A t \in Ref : Follows(t)') /\ Copied'
    BY <2>1 DEF Follows, Fresh, Copied
  <2> QED BY <2>2, <2>3
<1> QED
  BY <1>2, <1>3, <1>4, <1>5

\* and the requests that nobody waits for.
LEMMA LateEffectKeepsBase ==
    ASSUME Base, NotedTypeOK', LateEffect
    PROVE  Base'
<1> USE DEF Base
<1>1. /\ api' = api /\ watch' = watch /\ slices' = slices /\ edits' = edits /\ cache' = cache
      /\ sliceCache' = sliceCache /\ pc' = pc /\ key' = key /\ svc' = svc /\ current' = current
      /\ ip' = ip /\ queue' = queue /\ blind' = blind /\ faults' = faults
  BY DEF LateEffect, clusterVars, cacheVars, localVars, historyVars
<1>2. provider' \in Config
  <2>1. PICK c \in LateRequest : provider' = [provider EXCEPT ![c.ref] = c.val]
    BY Zenon DEF LateEffect, TypeOK, NotedTypeOK
  <2> QED BY <2>1 DEF LateRequest, TypeOK, Config
<1>3. TypeOK'
  BY <1>1, <1>2 DEF TypeOK
<1>4. (\A t \in Ref : Follows(t)') /\ Copied'
  BY <1>1, Zenon DEF Follows, Fresh, Copied
<1> QED
  BY <1>3, <1>4

-----------------------------------------------------------------------------
\* The cache follows, and a reconcile knows its copy, whatever users do.
THEOREM BaseHolds == Spec => []Base
<1>1. Init => Base
  <2> SUFFICES ASSUME Init PROVE Base
    OBVIOUS
  <2>1. /\ api = [t \in Ref |-> Absent] /\ cache = api /\ watch = <<>> /\ sliceCache = slices
        /\ slices \in [Ref -> Slices] /\ queue = {} /\ pc = "idle" /\ key = NoKey /\ svc = Absent
        /\ current = FALSE /\ ip = NoIP /\ provider = EmptyConfig /\ edits = 0 /\ faults = 0
        /\ blind = FALSE /\ NotedTypeOK
    BY DEF Init, NotedTypeOK
  <2>2. EmptyConfig \in Config /\ watch \in Seq(Event) /\ 1..Len(watch) = {}
    BY <2>1 DEF EmptyConfig, Config
  <2>3. edits \in 0..MaxEdits /\ faults \in 0..MaxFaults
    BY <2>1, BoundsAssumption
  <2>4. TypeOK
    BY <2>1, <2>2, <2>3, Zenon DEF TypeOK, Pcs
  <2>5. (\A t \in Ref : Follows(t)) /\ Copied
    BY <2>1, <2>2 DEF Follows, Copied
  <2> QED BY <2>4, <2>5 DEF Base
<1>2. Base /\ [Next]_vars => Base'
  <2> SUFFICES ASSUME Base, [Next]_vars PROVE Base'
    OBVIOUS
  <2>0. NotedTypeOK'
    BY StepKeepsNoted
  <2>1. CASE User
    BY <2>0, <2>1, UserKeepsBase
  <2>2. CASE Deliver \/ \E s \in Ref : DeliverSlices(s)
    BY <2>0, <2>2, DeliverKeepsBase
  <2>3. CASE \E s \in Ref : Reconcile(s)
    BY <2>0, <2>3, ReconcileKeepsBase
  <2>4. CASE Worker
    BY <2>0, <2>4, WorkerWritesKeepBase, WorkerReadsKeepBase DEF Worker
  <2>5. CASE ApiCallFails \/ ProviderCallFails \/ ControllerRestart \/ DataplaneRestart
    BY <2>0, <2>5, FaultKeepsBase
  <2>6. CASE UNCHANGED vars
    <3>1. /\ api' = api /\ watch' = watch /\ slices' = slices /\ edits' = edits /\ cache' = cache
          /\ sliceCache' = sliceCache /\ pc' = pc /\ key' = key /\ svc' = svc /\ current' = current
          /\ ip' = ip /\ queue' = queue /\ blind' = blind /\ provider' = provider /\ faults' = faults
      BY <2>6 DEF vars, clusterVars, cacheVars, localVars, providerVars, historyVars
    <3>2. TypeOK'
      BY <2>0, <3>1, SMTT(20) DEF Base, TypeOK
    <3>3. (\A t \in Ref : Follows(t)') /\ Copied'
      BY <3>1 DEF Base, Follows, Fresh, Copied
    <3> QED BY <3>2, <3>3 DEF Base
  <2>7. CASE LateEffect
    BY <2>0, <2>7, LateEffectKeepsBase
  <2> QED BY <2>1, <2>2, <2>3, <2>4, <2>5, <2>6, <2>7 DEF Next
<1> QED
  BY <1>1, <1>2, PTL DEF Spec

\* Every variable has its type, and at most one reconcile is in progress, for
\* any number of Services, addresses, edits and faults.
THEOREM TypeCorrect == Spec => []TypeOK
<1>1. Base => TypeOK
  BY DEF Base
<1> QED
  BY <1>1, BaseHolds, PTL
=============================================================================
