---------------------- MODULE ServiceControllerProofs -----------------------
(***************************************************************************)
(* Proofs about ServiceController: the provider state of a Service that    *)
(* did not come back to the controller, and that no late request disturbed,*)
(* is guarded by the finalizer, for any number of Services, addresses,     *)
(* edits, faults and restarts.                                             *)
(*                                                                         *)
(* The reconciler decides on a cached copy and patches the finalizer       *)
(* without a resourceVersion.  So the proofs start with the versions that  *)
(* the cache has before it: the cached one, those of the watch in their    *)
(* order, and the stored one.                                              *)
(***************************************************************************)
EXTENDS ReconcileProofs, TLAPS

\* The versions that Reconcile serves without touching the finalizer, and the
\* ones it takes the finalizer from.
Kept(object) == object # Absent /\ object.managed /\ ~object.deleting /\ object.finalizer
Doomed(object) == object # Absent /\ object.finalizer /\ (object.deleting \/ ~object.managed)

Guarded(s) == api[s] # Absent /\ api[s].finalizer

\* About the versions of s that the cache still has before it.
NoKept(s) ==
    /\ ~Kept(cache[s])
    /\ \A i \in 1..Len(watch) : watch[i].name = s => ~Kept(watch[i].object)

NoDoomedBefore(s, k) ==
    /\ ~Doomed(cache[s])
    /\ \A i \in 1..Len(watch) : i < k /\ watch[i].name = s => ~Doomed(watch[i].object)

NoDoomed(s) == NoDoomedBefore(s, Len(watch) + 1)

\* The doomed versions before k follow each other.
Together(s, k) ==
    \A j \in 1..Len(watch) :
        j < k /\ watch[j].name = s /\ ~Doomed(watch[j].object) => NoDoomedBefore(s, j)

SeenFirst(s) ==
    \A i \in 1..Len(watch) : watch[i].name = s /\ Doomed(watch[i].object) => Doomed(cache[s])

\* The order of the versions: a kept version is never followed by one without
\* the finalizer, nor a doomed one by a kept one; doomed versions follow each
\* other, and the finalizer goes only when the cache has reached them.
Ordered(s) ==
    /\ api[s] # Absent /\ api[s].deleting => api[s].finalizer
    /\ NoKept(s) \/ Guarded(s)
    /\ Kept(api[s]) => NoDoomed(s)
    /\ \A i \in 1..Len(watch) :
          watch[i].name = s /\ Kept(watch[i].object) => NoDoomedBefore(s, i)
    /\ Doomed(api[s]) => Together(s, Len(watch) + 1)
    /\ \A k \in 1..Len(watch) :
          watch[k].name = s /\ Doomed(watch[k].object) => Together(s, k)
    /\ SeenFirst(s) \/ Doomed(api[s])

\* What it takes to add the finalizer, and to take it away.
MayAdd(s) == NoDoomed(s) \/ Doomed(api[s])
MayRemove(s) ==
    /\ NoKept(s)
    /\ ~Kept(api[s])
    /\ SeenFirst(s)
    /\ Doomed(api[s]) => Doomed(cache[s])

-----------------------------------------------------------------------------
\* What the edits of users, and updates of the status, leave of a Service: the
\* finalizer, and that it is in deletion or unmanaged.
Stays(s, object) ==
    /\ object # Absent /\ object.deleting => object.finalizer
    /\ Guarded(s) => object # Absent /\ object.finalizer
    /\ Doomed(api[s]) => Doomed(object)
    /\ Kept(object) => Kept(api[s])
    /\ Doomed(object) => Doomed(api[s]) \/ Kept(api[s])

\* An update of the status leaves as much,
LEMMA StatusStays ==
    ASSUME TypeOK, NEW s \in Ref, Ordered(s), api[s] # Absent,
           NEW ingress \in {<<>>} \cup {<<a>> : a \in IP}, UpdateStatus(s, ingress)
    PROVE  \E object \in Object : Write(s, object, "meta") /\ Stays(s, object)
<1>1. PICK object \in Object :
         /\ Write(s, object, "meta") /\ object # Absent
         /\ object.managed = api[s].managed /\ object.deleting = api[s].deleting
         /\ object.finalizer = api[s].finalizer
  BY StatusCases
<1>2. api[s].deleting => api[s].finalizer
  BY DEF Ordered
<1>3. Kept(object) = Kept(api[s]) /\ Doomed(object) = Doomed(api[s])
  BY <1>1 DEF Kept, Doomed
<1>4. Stays(s, object)
  BY <1>1, <1>2, <1>3 DEF Stays, Guarded
<1> QED
  BY <1>1, <1>4

\* and so do users, to a Service that does not come back to the controller.
LEMMA EditStays ==
    ASSUME TypeOK, NEW s \in Ref, Ordered(s), s \notin returned',
           NEW object \in Object \cup {Absent}, Edited(s, object)
    PROVE  Stays(s, object)
<1>1. api[s] # Absent /\ api[s].deleting => api[s].finalizer
  BY DEF Ordered
<1>2. CASE object = Absent \/ api[s] = Absent
  BY <1>2 DEF Edited, Stays, Kept, Doomed, Guarded
<1>3. CASE object # Absent /\ api[s] # Absent
  <2>1. /\ object.deleting \in BOOLEAN /\ api[s].deleting \in BOOLEAN
        /\ object.managed \in BOOLEAN /\ api[s].managed \in BOOLEAN
    BY <1>3 DEF TypeOK, Object
  <2>2. /\ object.finalizer = api[s].finalizer
        /\ object.deleting = api[s].deleting \/ (object.deleting /\ api[s].finalizer)
        /\ object.managed => api[s].managed
    BY <1>3 DEF Edited
  <2> QED BY <1>1, <1>3, <2>1, <2>2 DEF Stays, Kept, Doomed, Guarded
<1> QED
  BY <1>2, <1>3

-----------------------------------------------------------------------------
\* The writes that keep the versions in order.
Allowed(s, object) ==
    /\ object # Absent /\ object.deleting => object.finalizer
    /\ Kept(object) => Kept(api[s]) \/ NoDoomed(s)
    /\ Doomed(object) => Doomed(api[s]) \/ NoDoomed(s)
    /\ (object # Absent /\ object.finalizer) \/ NoKept(s)
    /\ Doomed(object) \/ ~Doomed(api[s]) \/ SeenFirst(s)

\* Those of users are among them.
LEMMA StaysIsAllowed ==
    ASSUME NEW s \in Ref, Ordered(s), NEW object, Stays(s, object)
    PROVE  Allowed(s, object)
BY DEF Stays, Allowed, Ordered

\* What an event at the end of the watch changes for the versions of t.
LEMMA WriteViews ==
    ASSUME TypeOK, NEW s \in Ref, NEW object \in Object \cup {Absent},
           NEW kind \in {"add", "spec", "meta", "gone"}, Write(s, object, kind),
           cache' = cache, NEW t \in Ref
    PROVE  /\ NoKept(t) /\ (t = s => ~Kept(object)) => NoKept(t)'
           /\ \A k \in 1..Len(watch) + 1 : NoDoomedBefore(t, k) => NoDoomedBefore(t, k)'
           /\ NoDoomed(t) /\ (t = s => ~Doomed(object)) => NoDoomed(t)'
           /\ \A k \in 1..Len(watch) + 1 : Together(t, k) => Together(t, k)'
           /\ /\ Together(t, Len(watch) + 1)
              /\ t = s => Doomed(object) \/ NoDoomed(t)
              => Together(t, Len(watch) + 2)'
           /\ SeenFirst(t) /\ (t = s /\ Doomed(object) => Doomed(cache[s])) => SeenFirst(t)'
<1> DEFINE n == Len(watch)
<1>0. /\ n \in Nat
      /\ Len(watch') = n + 1
      /\ \A i \in 1..n : watch'[i] = watch[i]
      /\ watch'[n + 1].name = s
      /\ watch'[n + 1].object = object
  BY WriteType DEF TypeOK
<1>1. \A i \in 1..n + 1 : i \in 1..n \/ i = n + 1
  BY <1>0
<1>2. NoKept(t) /\ (t = s => ~Kept(object)) => NoKept(t)'
  BY <1>0, <1>1 DEF NoKept, Kept
<1>3. \A k \in 1..n + 1 : NoDoomedBefore(t, k) => NoDoomedBefore(t, k)'
  BY <1>0, <1>1 DEF NoDoomedBefore, Doomed
<1>4. NoDoomed(t) /\ (t = s => ~Doomed(object)) => NoDoomed(t)'
  BY <1>0, <1>1 DEF NoDoomed, NoDoomedBefore, Doomed
<1>5. \A k \in 1..n + 1 : Together(t, k) => Together(t, k)'
  BY <1>0, <1>1, <1>3 DEF Together, Doomed
<1>6. Together(t, n + 1) /\ (t = s => Doomed(object) \/ NoDoomed(t)) => Together(t, n + 2)'
  BY <1>0, <1>1, <1>3 DEF Together, NoDoomed, Doomed
<1>7. SeenFirst(t) /\ (t = s /\ Doomed(object) => Doomed(cache[s])) => SeenFirst(t)'
  BY <1>0, <1>1 DEF SeenFirst, Doomed
<1> QED
  BY <1>2, <1>3, <1>4, <1>5, <1>6, <1>7

\* A write keeps the versions of its Service in order if it is allowed, and
\* those of the others always.
LEMMA WriteOrdered ==
    ASSUME TypeOK, NEW t \in Ref, Ordered(t),
           NEW s \in Ref, NEW object \in Object \cup {Absent},
           NEW kind \in {"add", "spec", "meta", "gone"}, Write(s, object, kind),
           cache' = cache, t = s => Allowed(s, object)
    PROVE  Ordered(t)'
<1> DEFINE n == Len(watch)
<1>0. /\ n \in Nat
      /\ Len(watch') = n + 1
      /\ \A i \in 1..n : watch'[i] = watch[i]
      /\ watch'[n + 1].name = s
      /\ watch'[n + 1].object = object
      /\ api \in [Ref -> Object \cup {Absent}]
      /\ api' = [api EXCEPT ![s] = object]
  BY WriteType, SMTT(20) DEF TypeOK
<1>1. \A i \in 1..n + 1 : i \in 1..n \/ i = n + 1
  BY <1>0
<1>2. api'[t] = IF t = s THEN object ELSE api[t]
  BY <1>0
<1>3. Ordered(t) /\ (t = s => Ordered(s))
  OBVIOUS
<1>4. /\ NoKept(t) /\ (t = s => ~Kept(object)) => NoKept(t)'
      /\ \A k \in 1..n + 1 : NoDoomedBefore(t, k) => NoDoomedBefore(t, k)'
      /\ NoDoomed(t) /\ (t = s => ~Doomed(object)) => NoDoomed(t)'
      /\ \A k \in 1..n + 1 : Together(t, k) => Together(t, k)'
      /\ Together(t, n + 1) /\ (t = s => Doomed(object) \/ NoDoomed(t)) => Together(t, n + 2)'
      /\ SeenFirst(t) /\ (t = s /\ Doomed(object) => Doomed(cache[s])) => SeenFirst(t)'
  BY WriteViews
<1>5. ~(Kept(object) /\ Doomed(object))
  BY DEF Kept, Doomed
<1>6. t = s /\ Doomed(object) => Together(s, n + 1)
  <2>1. NoDoomed(s) => Together(s, n + 1)
    BY <1>0 DEF Together, NoDoomed, NoDoomedBefore
  <2> QED BY <1>3, <2>1 DEF Allowed, Ordered
<1>7. (api[t] # Absent /\ api[t].deleting => api[t].finalizer)'
  <2>1. t = s /\ object # Absent /\ object.deleting => object.finalizer
    BY DEF Allowed
  <2>2. api[t] # Absent /\ api[t].deleting => api[t].finalizer
    BY <1>3 DEF Ordered
  <2>3. CASE t = s
    BY <1>2, <2>1, <2>3
  <2>4. CASE t # s
    BY <1>2, <2>2, <2>4
  <2> QED BY <2>3, <2>4
<1>8. (NoKept(t) \/ Guarded(t))'
  <2>1. CASE t = s
    BY <1>2, <1>4, <2>1, Zenon DEF Allowed, Guarded, Kept
  <2>2. CASE t # s
    BY <1>2, <1>3, <1>4, <2>2 DEF Ordered, Guarded
  <2> QED BY <2>1, <2>2
<1>9. (Kept(api[t]) => NoDoomed(t))'
  <2>1. CASE t = s
    <3>1. Kept(object) => NoDoomed(s)
      BY <1>3, <2>1 DEF Allowed, Ordered
    <3>2. Kept(api[t])' <=> Kept(object)
      BY <1>2, <2>1, Zenon DEF Kept
    <3> QED BY <1>4, <1>5, <2>1, <3>1, <3>2, Zenon
  <2>2. CASE t # s
    <3>1. Kept(api[t])' <=> Kept(api[t])
      BY <1>2, <2>2 DEF Kept
    <3> QED BY <1>3, <1>4, <2>2, <3>1 DEF Ordered
  <2> QED BY <2>1, <2>2, Zenon
<1>10. (\A i \in 1..Len(watch) :
          watch[i].name = t /\ Kept(watch[i].object) => NoDoomedBefore(t, i))'
  <2> SUFFICES ASSUME NEW i \in 1..n + 1, watch'[i].name = t, Kept(watch'[i].object)
               PROVE  NoDoomedBefore(t, i)'
    BY <1>0, Zenon DEF Kept
  <2>1. CASE i \in 1..n
    BY <1>0, <1>3, <1>4, <2>1, Zenon DEF Ordered
  <2>2. CASE i = n + 1
    <3>1. t = s /\ Kept(object)
      BY <1>0, <2>2, Zenon
    <3>2. NoDoomedBefore(t, n + 1)
      BY <1>3, <3>1 DEF Allowed, Ordered, NoDoomed
    <3> QED BY <1>0, <1>4, <2>2, <3>2
  <2> QED BY <1>1, <2>1, <2>2
<1>11. (Doomed(api[t]) => Together(t, Len(watch) + 1))'
  <2>1. CASE t = s
    <3>2. Doomed(api[t])' <=> Doomed(object)
      BY <1>2, <2>1 DEF Doomed
    <3>3. Doomed(object) => Together(t, n + 2)'
      BY <1>4, <1>6, <2>1
    <3>4. Together(t, n + 2)' => Together(t, Len(watch) + 1)'
      BY <1>0 DEF Together
    <3> QED BY <3>2, <3>3, <3>4
  <2>2. CASE t # s
    <3>1. Doomed(api[t])' <=> Doomed(api[t])
      BY <1>2, <2>2, Zenon DEF Doomed
    <3>2. Doomed(api[t]) => Together(t, n + 2)'
      BY <1>3, <1>4, <2>2, Zenon DEF Ordered
    <3>3. Together(t, n + 2)' => Together(t, Len(watch) + 1)'
      BY <1>0 DEF Together
    <3> QED BY <3>1, <3>2, <3>3
  <2> QED BY <2>1, <2>2
<1>12. (\A k \in 1..Len(watch) :
          watch[k].name = t /\ Doomed(watch[k].object) => Together(t, k))'
  <2> SUFFICES ASSUME NEW k \in 1..n + 1, watch'[k].name = t, Doomed(watch'[k].object)
               PROVE  Together(t, k)'
    BY <1>0, Zenon DEF Doomed
  <2>1. CASE k \in 1..n
    BY <1>0, <1>3, <1>4, <2>1, Zenon DEF Ordered
  <2>2. CASE k = n + 1
    <3>1. t = s /\ Doomed(object)
      BY <1>0, <2>2
    <3>2. Together(t, n + 1)
      BY <1>6, <3>1
    <3> QED BY <1>0, <1>4, <2>2, <3>2
  <2> QED BY <1>1, <2>1, <2>2
<1>13. (SeenFirst(t) \/ Doomed(api[t]))'
  <2>1. CASE t = s
    <3>1. Doomed(api[t])' <=> Doomed(object)
      BY <1>2, <2>1 DEF Doomed
    <3>2. CASE ~Doomed(object)
      BY <1>3, <1>4, <2>1, <3>2, Zenon DEF Allowed, Ordered
    <3> QED BY <3>1, <3>2, Zenon
  <2>2. CASE t # s
    <3>1. Doomed(api[t])' <=> Doomed(api[t])
      BY <1>2, <2>2, Zenon DEF Doomed
    <3> QED BY <1>3, <1>4, <2>2, <3>1, Zenon DEF Ordered
  <2> QED BY <2>1, <2>2
<1> QED
  BY <1>7, <1>8, <1>9, <1>10, <1>11, <1>12, <1>13 DEF Ordered

\* What the delivery of an event changes for the versions of t.
LEMMA DeliverViews ==
    ASSUME TypeOK, Deliver, NEW t \in Ref, Ordered(t)
    PROVE  /\ NoKept(t) => NoKept(t)'
           /\ \A k \in 1..Len(watch) : NoDoomedBefore(t, k + 1) => NoDoomedBefore(t, k)'
           /\ NoDoomed(t) => NoDoomed(t)'
           /\ \A k \in 1..Len(watch) : Together(t, k + 1) => Together(t, k)'
           /\ SeenFirst(t) => SeenFirst(t)'
           /\ (Doomed(api[t]) => Doomed(cache[t])) => (Doomed(api[t]) => Doomed(cache[t]))'
           /\ Doomed(cache[t]) /\ ~Doomed(cache'[t]) => SeenFirst(t)'
<1> DEFINE n == Len(watch)
<1>0. /\ n \in Nat \ {0}
      /\ Len(watch') = n - 1
      /\ \A i \in 1..n - 1 : watch'[i] = watch[i + 1]
      /\ cache'[t] = IF watch[1].name = t THEN watch[1].object ELSE cache[t]
      /\ api' = api
  BY DeliverType
<1>1. \A i \in 1..n - 1 : i \in 1..n /\ i + 1 \in 1..n
  BY <1>0
<1>2. 1 \in 1..n
  BY <1>0
<1>3. NoKept(t) => NoKept(t)'
  <2> SUFFICES ASSUME NoKept(t) PROVE NoKept(t)'
    OBVIOUS
  <2>1. ~Kept(cache'[t])
    BY <1>0, <1>2 DEF NoKept
  <2>2. ASSUME NEW i \in 1..n - 1, watch'[i].name = t PROVE ~Kept(watch'[i].object)
    <3>1. i + 1 \in 1..n /\ watch'[i] = watch[i + 1]
      BY <1>0, <1>1, Zenon
    <3> QED BY <2>2, <3>1 DEF NoKept
  <2> QED BY <1>0, <2>1, <2>2 DEF NoKept, Kept
<1>4. \A k \in 1..n : NoDoomedBefore(t, k + 1) => NoDoomedBefore(t, k)'
  <2> SUFFICES ASSUME NEW k \in 1..n, NoDoomedBefore(t, k + 1) PROVE NoDoomedBefore(t, k)'
    OBVIOUS
  <2>1. ~Doomed(cache'[t])
    BY <1>0, <1>2 DEF NoDoomedBefore
  <2>2. ASSUME NEW i \in 1..n - 1, i < k, watch'[i].name = t PROVE ~Doomed(watch'[i].object)
    <3>1. i + 1 \in 1..n /\ i + 1 < k + 1 /\ watch'[i] = watch[i + 1]
      BY <1>0, <1>1, <2>2
    <3> QED BY <2>2, <3>1 DEF NoDoomedBefore
  <2> QED BY <1>0, <2>1, <2>2 DEF NoDoomedBefore, Doomed
<1>5. NoDoomed(t) => NoDoomed(t)'
  BY <1>0, <1>4 DEF NoDoomed
<1>6. \A k \in 1..n : Together(t, k + 1) => Together(t, k)'
  <2> SUFFICES ASSUME NEW k \in 1..n, Together(t, k + 1),
                      NEW j \in 1..n - 1, j < k, watch'[j].name = t, ~Doomed(watch'[j].object)
               PROVE  NoDoomedBefore(t, j)'
    BY <1>0 DEF Together, Doomed
  <2>1. j + 1 \in 1..n /\ j + 1 < k + 1 /\ watch[j + 1].name = t /\ ~Doomed(watch[j + 1].object)
    BY <1>0, <1>1
  <2>2. NoDoomedBefore(t, j + 1)
    BY <2>1 DEF Together
  <2> QED BY <1>1, <1>4, <2>2
<1>7. CASE watch[1].name = t /\ Doomed(cache[t]) /\ ~Doomed(watch[1].object)
  \* Nothing doomed is left, neither in the watch nor stored.
  <2>1. \A k \in 1..n : watch[k].name = t => ~Doomed(watch[k].object)
    <3> SUFFICES ASSUME NEW k \in 1..n, watch[k].name = t, Doomed(watch[k].object) PROVE FALSE
      OBVIOUS
    <3>1. Together(t, k) /\ 1 < k
      BY <1>0, <1>7 DEF Ordered
    <3>2. NoDoomedBefore(t, 1)
      BY <1>2, <1>7, <3>1 DEF Together
    <3> QED BY <1>7, <3>2 DEF NoDoomedBefore
  <2>2. ~Doomed(api[t])
    <3> SUFFICES ASSUME Doomed(api[t]) PROVE FALSE
      OBVIOUS
    <3>1. Together(t, n + 1) /\ 1 < n + 1
      BY <1>0 DEF Ordered
    <3>2. NoDoomedBefore(t, 1)
      BY <1>2, <1>7, <3>1 DEF Together
    <3> QED BY <1>7, <3>2 DEF NoDoomedBefore
  <2>3. SeenFirst(t)'
    <3>1. \A i \in 1..n - 1 : watch'[i].name = t => ~Doomed(watch'[i].object)
      <4> SUFFICES ASSUME NEW i \in 1..n - 1, watch'[i].name = t
                   PROVE  ~Doomed(watch'[i].object)
        OBVIOUS
      <4>1. i + 1 \in 1..n /\ watch'[i] = watch[i + 1]
        BY <1>0, <1>1
      <4> QED BY <2>1, <4>1
    <3> QED BY <1>0, <3>1, Zenon DEF SeenFirst, Doomed
  <2>4. (Doomed(api[t]) => Doomed(cache[t]))'
    BY <1>0, <2>2, Zenon DEF Doomed
  <2> QED BY <1>3, <1>4, <1>5, <1>6, <2>3, <2>4
<1>8. CASE ~(watch[1].name = t /\ Doomed(cache[t]) /\ ~Doomed(watch[1].object))
  <2>1. Doomed(cache[t]) => Doomed(cache'[t])
    BY <1>0, <1>8
  <2>2. SeenFirst(t) => SeenFirst(t)'
    <3> SUFFICES ASSUME SeenFirst(t), NEW i \in 1..n - 1, watch'[i].name = t, Doomed(watch'[i].object)
                 PROVE  Doomed(cache'[t])
      BY <1>0, SMTT(20) DEF SeenFirst, Doomed
    <3>1. i + 1 \in 1..n /\ watch'[i] = watch[i + 1]
      BY <1>0, <1>1
    <3> QED BY <2>1, <3>1, Zenon DEF SeenFirst
  <2>3. (Doomed(api[t]) => Doomed(cache[t])) => (Doomed(api[t]) => Doomed(cache[t]))'
    BY <1>0, <2>1, Zenon DEF Doomed
  <2> QED BY <1>3, <1>4, <1>5, <1>6, <2>1, <2>2, <2>3, Zenon
<1> QED
  BY <1>7, <1>8

\* The delivery of an event keeps the versions in order.
LEMMA DeliverOrdered ==
    ASSUME TypeOK, NEW t \in Ref, Ordered(t), Deliver
    PROVE  Ordered(t)'
<1> DEFINE n == Len(watch)
<1>0. /\ n \in Nat \ {0}
      /\ Len(watch') = n - 1
      /\ \A i \in 1..n - 1 : watch'[i] = watch[i + 1]
      /\ api' = api
  BY DeliverType
<1>a. n \in Nat /\ Len(watch') = n - 1
  BY DeliverType
<1>1. (\A i \in 1..n - 1 : i \in 1..n /\ i + 1 \in 1..n) /\ 1 \in 1..n
  BY <1>0
<1>2. Ordered(t)
  BY Zenon
<1>3. /\ NoKept(t) => NoKept(t)'
      /\ \A k \in 1..n : NoDoomedBefore(t, k + 1) => NoDoomedBefore(t, k)'
      /\ NoDoomed(t) => NoDoomed(t)'
      /\ \A k \in 1..n : Together(t, k + 1) => Together(t, k)'
      /\ SeenFirst(t) => SeenFirst(t)'
  BY DeliverViews, Zenon
<1>4. (api[t] # Absent /\ api[t].deleting => api[t].finalizer)'
  BY <1>0, <1>2, Zenon DEF Ordered
<1>5. (NoKept(t) \/ Guarded(t))'
  BY <1>0, <1>2, <1>3, Zenon DEF Ordered, Guarded
<1>6. (Kept(api[t]) => NoDoomed(t))'
  BY <1>0, <1>2, <1>3, Zenon DEF Ordered, Kept
<1>7. (\A i \in 1..Len(watch) :
         watch[i].name = t /\ Kept(watch[i].object) => NoDoomedBefore(t, i))'
  <2> SUFFICES ASSUME NEW i \in 1..n - 1, watch'[i].name = t, Kept(watch'[i].object)
               PROVE  NoDoomedBefore(t, i)'
    BY <1>0, Zenon DEF Kept
  <2>1. i + 1 \in 1..n /\ watch'[i] = watch[i + 1]
    BY <1>0, <1>1, Zenon
  <2>2. NoDoomedBefore(t, i + 1)
    BY <1>2, <2>1, Zenon DEF Ordered
  <2> QED BY <1>1, <1>3, <2>2, Zenon
<1>8. (Doomed(api[t]) => Together(t, Len(watch) + 1))'
  <2> SUFFICES ASSUME Doomed(api[t]) PROVE Together(t, Len(watch) + 1)'
    BY <1>0 DEF Doomed
  <2>1. PICK k \in 1..n : k = n
    BY <1>0, SMTT(20)
  <2>2. Together(t, k + 1)
    BY <1>2, <2>1 DEF Ordered
  <2>3. Together(t, k)'
    BY <1>3, <2>2
  <2>4. Len(watch') + 1 = k
    BY <1>a, <2>1
  <2> QED BY <2>3, <2>4 DEF Together
<1>9. (\A k \in 1..Len(watch) :
          watch[k].name = t /\ Doomed(watch[k].object) => Together(t, k))'
  <2> SUFFICES ASSUME NEW k \in 1..n - 1, watch'[k].name = t, Doomed(watch'[k].object)
               PROVE  Together(t, k)'
    BY <1>0, Zenon DEF Doomed
  <2>1. k + 1 \in 1..n /\ watch'[k] = watch[k + 1]
    BY <1>0, <1>1
  <2>2. Together(t, k + 1)
    BY <1>2, <2>1, Zenon DEF Ordered
  <2> QED BY <1>1, <1>3, <2>2, Zenon
<1>10. (SeenFirst(t) \/ Doomed(api[t]))'
  BY <1>0, <1>2, <1>3, Zenon DEF Ordered, Doomed
<1> QED
  BY <1>4, <1>5, <1>6, <1>7, <1>8, <1>9, <1>10 DEF Ordered

-----------------------------------------------------------------------------
\* What a reconcile relies on is kept by the edits of users and by updates of
\* the status,
LEMMA WriteKeeps ==
    ASSUME TypeOK, NEW s \in Ref, NEW object \in Object \cup {Absent},
           NEW kind \in {"add", "spec", "meta", "gone"}, Write(s, object, kind),
           cache' = cache, NEW t \in Ref, t = s => Stays(s, object)
    PROVE  /\ MayAdd(t) => MayAdd(t)'
           /\ MayRemove(t) => MayRemove(t)'
           /\ Guarded(t) => Guarded(t)'
<1>1. api'[t] = IF t = s THEN object ELSE api[t]
  <2>1. api' = [api EXCEPT ![s] = object]
    BY WriteType
  <2>2. api \in [Ref -> Object \cup {Absent}]
    BY DEF TypeOK
  <2> QED BY <2>1, <2>2, Zenon
<1>2. /\ NoKept(t) /\ (t = s => ~Kept(object)) => NoKept(t)'
      /\ NoDoomed(t) /\ (t = s => ~Doomed(object)) => NoDoomed(t)'
      /\ SeenFirst(t) /\ (t = s /\ Doomed(object) => Doomed(cache[s])) => SeenFirst(t)'
  BY WriteViews, Zenon
<1>3. /\ Doomed(api[t])' <=> IF t = s THEN Doomed(object) ELSE Doomed(api[t])
      /\ Kept(api[t])' <=> IF t = s THEN Kept(object) ELSE Kept(api[t])
      /\ Doomed(cache[t])' <=> Doomed(cache[t])
  BY <1>1, Zenon DEF Doomed, Kept
<1>4. MayAdd(t) => MayAdd(t)'
  BY <1>2, <1>3, Zenon DEF MayAdd, Stays
<1>5. MayRemove(t) => MayRemove(t)'
  BY <1>2, <1>3, Zenon DEF MayRemove, Stays
<1>6. Guarded(t) => Guarded(t)'
  BY <1>1, Zenon DEF Guarded, Stays
<1> QED
  BY <1>4, <1>5, <1>6

\* by the delivery of events,
LEMMA DeliverKeeps ==
    ASSUME TypeOK, Deliver, NEW t \in Ref, Ordered(t)
    PROVE  /\ MayAdd(t) => MayAdd(t)'
           /\ MayRemove(t) => MayRemove(t)'
           /\ Guarded(t) => Guarded(t)'
<1>1. /\ NoKept(t) => NoKept(t)'
      /\ NoDoomed(t) => NoDoomed(t)'
      /\ SeenFirst(t) => SeenFirst(t)'
      /\ (Doomed(api[t]) => Doomed(cache[t])) => (Doomed(api[t]) => Doomed(cache[t]))'
  BY DeliverViews
<1>2. api' = api
  BY DEF Deliver
<1>3. /\ Doomed(api[t])' <=> Doomed(api[t])
      /\ Kept(api[t])' <=> Kept(api[t])
      /\ Guarded(t)' <=> Guarded(t)
  BY <1>2, Zenon DEF Doomed, Kept, Guarded
<1> QED
  BY <1>1, <1>3, ZenonT(30) DEF MayAdd, MayRemove

\* and by steps that leave the versions alone.
LEMMA SameKeeps ==
    ASSUME api' = api, cache' = cache, watch' = watch, NEW t \in Ref
    PROVE  /\ MayAdd(t) <=> MayAdd(t)'
           /\ MayRemove(t) <=> MayRemove(t)'
           /\ Guarded(t) <=> Guarded(t)'
           /\ Ordered(t) <=> Ordered(t)'
<1>1. /\ NoKept(t) <=> NoKept(t)'
      /\ NoDoomed(t) <=> NoDoomed(t)'
      /\ SeenFirst(t) <=> SeenFirst(t)'
      /\ Guarded(t) <=> Guarded(t)'
  BY DEF NoKept, NoDoomed, NoDoomedBefore, SeenFirst, Guarded, Kept, Doomed
<1>2. \A k : NoDoomedBefore(t, k) <=> NoDoomedBefore(t, k)'
  BY DEF NoDoomedBefore, Doomed
<1>3. \A k : Together(t, k) <=> Together(t, k)'
  BY <1>2 DEF Together, Doomed
<1>4. /\ Doomed(api[t])' <=> Doomed(api[t])
      /\ Doomed(cache[t])' <=> Doomed(cache[t])
      /\ Kept(api[t])' <=> Kept(api[t])
      /\ \A i : Doomed(watch[i].object)' <=> Doomed(watch[i].object)
      /\ \A i : Kept(watch[i].object)' <=> Kept(watch[i].object)
  BY Zenon DEF Doomed, Kept
<1>5. Ordered(t) <=> Ordered(t)'
  BY <1>1, <1>2, <1>3, <1>4, Zenon DEF Ordered
<1> QED
  BY <1>1, <1>4, <1>5, Zenon DEF MayAdd, MayRemove

-----------------------------------------------------------------------------
Serving == {"refresh", "allocate", "ensure", "publish"}
Removing == {"deleteProvider", "cleanupProvider", "clearStatus", "refreshCleared", "removeFinalizer"}
Removed == {"clearStatus", "refreshCleared", "removeFinalizer"}

\* What a reconcile of s relies on, although its copy may be old.
Relies(s) ==
    key = s =>
        /\ pc = "addFinalizer" => MayAdd(s)
        /\ pc \in Serving => Guarded(s)
        /\ pc \in Removing /\ svc.finalizer => MayRemove(s)
        /\ pc \in Removed /\ s \notin disturbed => ~Has(provider, s)

\* ProviderStateIsGuarded for one Service.
Covered(s) == Has(provider, s) /\ s \notin disturbed => Guarded(s)

InvOf(s) == Ordered(s) /\ Relies(s) /\ Covered(s)

Inv == \A s \in Ref \ returned : InvOf(s)

-----------------------------------------------------------------------------
\* A step that touches neither the versions nor the reconcile nor the provider.
LEMMA SameKeepsInv ==
    ASSUME NEW t \in Ref, InvOf(t), api' = api, cache' = cache, watch' = watch,
           pc' = pc, key' = key, svc' = svc, provider' = provider, disturbed' = disturbed
    PROVE  InvOf(t)'
<1> USE DEF InvOf
<1>1. /\ MayAdd(t) <=> MayAdd(t)'
      /\ MayRemove(t) <=> MayRemove(t)'
      /\ Guarded(t) <=> Guarded(t)'
      /\ Ordered(t) <=> Ordered(t)'
  BY SameKeeps
<1>2. Relies(t)'
  BY <1>1, Zenon DEF Relies, Has
<1>3. Covered(t)'
  BY <1>1, Zenon DEF Covered, Has
<1> QED
  BY <1>1, <1>2, <1>3

\* The actions one by one: users and the endpoint controller,
LEMMA UserKeepsInv ==
    ASSUME Base, NEW t \in Ref, t \notin returned', InvOf(t), User
    PROVE  InvOf(t)'
<1> USE DEF Base, InvOf
<1>1. PICK s \in Ref : \/ Create(s) \/ UserDelete(s)
                       \/ SetManaged(s, TRUE) \/ SetManaged(s, FALSE)
                       \/ SetPorts(s) \/ ForeignStatus(s) \/ SetSlices(s)
  BY Zenon DEF User
<1>2. CASE SetSlices(s)
  <2>1. /\ api' = api /\ cache' = cache /\ watch' = watch /\ pc' = pc /\ key' = key /\ svc' = svc
        /\ provider' = provider /\ disturbed' = disturbed
    BY <1>2 DEF SetSlices, cacheVars, localVars, providerVars
  <2> QED BY <2>1, SameKeepsInv
<1>3. CASE \/ Create(s) \/ UserDelete(s) \/ SetManaged(s, TRUE) \/ SetManaged(s, FALSE)
           \/ SetPorts(s) \/ ForeignStatus(s)
  <2>1. PICK object \in Object \cup {Absent}, kind \in {"add", "spec", "meta", "gone"} :
           Write(s, object, kind) /\ Edited(s, object)
    BY <1>3, UserWrites, Zenon
  <2>2. t = s => Stays(s, object) /\ Allowed(s, object)
    BY <2>1, EditStays, StaysIsAllowed
  <2>3. \E e : Edit(s, e)
    BY <1>3, Zenon DEF Create, UserDelete, SetManaged, SetPorts, ForeignStatus
  <2>4. /\ cache' = cache /\ pc' = pc /\ key' = key /\ svc' = svc
        /\ provider' = provider /\ disturbed' = disturbed
    BY <2>3 DEF Edit, cacheVars, providerVars
  <2>5. Ordered(t)'
    BY <2>1, <2>2, <2>4, WriteOrdered
  <2>6. /\ MayAdd(t) => MayAdd(t)'
        /\ MayRemove(t) => MayRemove(t)'
        /\ Guarded(t) => Guarded(t)'
    BY <2>1, <2>2, <2>4, WriteKeeps
  <2>7. Relies(t)'
    BY <2>4, <2>6, Zenon DEF Relies, Has
  <2>8. Covered(t)'
    BY <2>4, <2>6, Zenon DEF Covered, Has
  <2> QED BY <2>5, <2>7, <2>8
<1> QED
  BY <1>1, <1>2, <1>3, Zenon

\* the informers,
LEMMA DeliverKeepsInv ==
    ASSUME Base, NEW t \in Ref, InvOf(t), Deliver \/ \E s \in Ref : DeliverSlices(s)
    PROVE  InvOf(t)'
<1> USE DEF Base, InvOf
<1>1. CASE Deliver
  <2>1. /\ pc' = pc /\ key' = key /\ svc' = svc /\ provider' = provider /\ disturbed' = disturbed
        /\ api' = api
    BY <1>1, Zenon DEF Deliver, localVars, providerVars
  <2>2. Ordered(t)'
    BY <1>1, DeliverOrdered
  <2>3. /\ MayAdd(t) => MayAdd(t)'
        /\ MayRemove(t) => MayRemove(t)'
        /\ Guarded(t) => Guarded(t)'
    BY <1>1, DeliverKeeps
  <2>4. Relies(t)'
    BY <2>1, <2>3, Zenon DEF Relies, Has
  <2>5. Covered(t)'
    BY <2>1, <2>3, Zenon DEF Covered, Has
  <2> QED BY <2>2, <2>4, <2>5, Zenon
<1>2. CASE \E s \in Ref : DeliverSlices(s)
  BY <1>2, SameKeepsInv DEF DeliverSlices, localVars, clusterVars, providerVars
<1> QED
  BY <1>1, <1>2

\* the start of a reconcile, which turns the order of the versions into what it
\* relies on,
LEMMA ReconcileKeepsInv ==
    ASSUME Base, NEW t \in Ref, InvOf(t), NEW s \in Ref, Reconcile(s)
    PROVE  InvOf(t)'
<1> USE DEF Base, InvOf
<1> DEFINE branch == Branch(cache[s])
<1>1. /\ api' = api /\ cache' = cache /\ watch' = watch
      /\ provider' = provider /\ disturbed' = disturbed
      /\ pc' = branch
      /\ key' = IF branch = "idle" THEN NoKey ELSE s
      /\ svc' = IF branch = "idle" THEN Absent ELSE cache[s]
  BY DEF Reconcile, clusterVars, cacheVars, providerVars
<1>2. Ordered(t) /\ cache[s] \in Object \cup {Absent}
  BY DEF TypeOK
<1>3. branch \in {"idle", "addFinalizer", "allocate", "deleteProvider", "cleanupProvider"}
  BY Zenon DEF Branch
<1>4. t = s /\ branch = "addFinalizer" => MayAdd(t)
  <2>1. branch = "addFinalizer" => ~Doomed(cache[s])
    BY <1>2, Zenon DEF Branch, Doomed, Object
  <2> QED BY <1>2, <2>1, Zenon DEF Ordered, MayAdd, SeenFirst, NoDoomed, NoDoomedBefore
<1>5. t = s /\ branch = "allocate" => Guarded(t)
  <2>1. branch = "allocate" => Kept(cache[s])
    BY <1>2, Zenon DEF Branch, Kept, Object
  <2> QED BY <1>2, <2>1, Zenon DEF Ordered, NoKept
<1>6. t = s /\ branch \in {"deleteProvider", "cleanupProvider"} /\ cache[s].finalizer => MayRemove(t)
  <2> SUFFICES ASSUME t = s, branch \in {"deleteProvider", "cleanupProvider"}, cache[s].finalizer
               PROVE  MayRemove(t)
    BY Zenon
  <2>1. Doomed(cache[t]) /\ ~Kept(cache[t])
    BY <1>2, Zenon DEF Branch, Doomed, Kept, Object
  <2>2. \A k : ~NoDoomedBefore(t, k)
    BY <2>1 DEF NoDoomedBefore
  <2> QED BY <1>2, <2>1, <2>2, Zenon DEF Ordered, MayRemove, NoKept, NoDoomed, SeenFirst
<1> HIDE DEF branch
<1>7. /\ MayAdd(t) <=> MayAdd(t)'
      /\ MayRemove(t) <=> MayRemove(t)'
      /\ Guarded(t) <=> Guarded(t)'
      /\ Ordered(t) <=> Ordered(t)'
  BY <1>1, SameKeeps
<1>8. Relies(t)'
  <2>1. CASE branch = "idle"
    BY <1>1, <2>1 DEF Relies, Serving, Removing, Removed
  <2>2. CASE branch = "addFinalizer"
    BY <1>1, <1>4, <1>7, <2>2 DEF Relies, Serving, Removing, Removed
  <2>3. CASE branch = "allocate"
    BY <1>1, <1>5, <1>7, <2>3 DEF Relies, Serving, Removing, Removed
  <2>4. CASE branch \in {"deleteProvider", "cleanupProvider"}
    BY <1>1, <1>6, <1>7, <2>4 DEF Relies, Serving, Removing, Removed
  <2> QED BY <1>3, <2>1, <2>2, <2>3, <2>4
<1>9. Covered(t)'
  BY <1>1, <1>7, Zenon DEF Covered, Has
<1> QED
  BY <1>7, <1>8, <1>9

\* A write to another Service.
LEMMA OtherWriteKeeps ==
    ASSUME Base, NEW t \in Ref, InvOf(t), key \in Ref, t # key, Writes(key), cache' = cache
    PROVE  Ordered(t)' /\ (Guarded(t) => Guarded(t)')
<1> USE DEF Base, InvOf
<1>1. CASE NoWrite
  BY <1>1, SameKeeps DEF NoWrite
<1>2. CASE \E object \in Object \cup {Absent}, kind \in {"add", "spec", "meta", "gone"} :
              Write(key, object, kind)
  BY <1>2, WriteOrdered, WriteKeeps
<1> QED
  BY <1>1, <1>2 DEF Writes

\* The patches of the finalizer, whether the caller is told or not,
LEMMA AddFinalizerKeeps ==
    ASSUME Base, NEW t \in Ref, InvOf(t), pc = "addFinalizer", api[key] # Absent,
           PatchFinalizer(key, TRUE), cache' = cache
    PROVE  Ordered(t)' /\ (t = key \/ Guarded(t) => Guarded(t)')
<1> USE DEF Base, InvOf
<1> DEFINE new == [api[key] EXCEPT !.finalizer = TRUE]
<1>0. key \in Ref /\ api[key] \in Object
  BY DEF TypeOK
<1>1. CASE t # key
  BY <1>0, <1>1, PatchWrites, OtherWriteKeeps, Zenon
<1>2. CASE t = key
  <2>0. Ordered(key) /\ MayAdd(key)
    BY <1>2 DEF Relies
  <2>1. CASE api[key].finalizer = TRUE /\ NoWrite
    BY <1>0, <1>2, <2>1, SameKeeps DEF NoWrite, Guarded
  <2>2. CASE api[key].finalizer # TRUE /\ api[key].deleting
    BY <1>0, <2>0, <2>2, Zenon DEF Ordered, Object
  <2>3. CASE api[key].finalizer # TRUE /\ ~api[key].deleting /\ new \in Object /\ Write(key, new, "meta")
    <3>1. new.finalizer /\ ~new.deleting
      BY <1>0, <2>3 DEF Object
    <3>2. new # Absent
      BY <2>3, AbsentObjectAssumption, Zenon
    <3>3. ~Doomed(api[key])
      BY <1>0, <2>3, Zenon DEF Doomed, Object
    <3> HIDE DEF new
    <3>4. Allowed(key, new)
      BY <2>0, <3>1, <3>2, <3>3, Zenon DEF Allowed, MayAdd
    <3>5. Ordered(t)'
      BY <1>0, <2>3, <3>4, WriteOrdered
    <3>6. api' = [api EXCEPT ![key] = new]
      BY <2>3 DEF Write
    <3> QED BY <1>0, <1>2, <3>1, <3>2, <3>5, <3>6 DEF Guarded, TypeOK
  <2> QED BY <1>0, <2>1, <2>2, <2>3, PatchCases, Zenon
<1> QED
  BY <1>1, <1>2

\* removeServiceFinalizer keeps the order of the versions, and the other
\* Services guarded.
LEMMA RemoveFinalizerKeeps ==
    ASSUME Base, NEW t \in Ref, InvOf(t), pc = "removeFinalizer", svc.finalizer, api[key] # Absent,
           PatchFinalizer(key, FALSE), cache' = cache
    PROVE  Ordered(t)' /\ (t # key /\ Guarded(t) => Guarded(t)')
<1> USE DEF Base, InvOf
<1> DEFINE new == [api[key] EXCEPT !.finalizer = FALSE]
<1>0. key \in Ref /\ api[key] \in Object
  BY DEF TypeOK
<1>1. CASE t # key
  BY <1>0, <1>1, PatchWrites, OtherWriteKeeps, Zenon
<1>2. CASE t = key
  <2>0. Ordered(key) /\ MayRemove(key)
    BY <1>2 DEF Relies, Removing
  <2>1. CASE NoWrite
    BY <1>2, <2>1, SameKeeps DEF NoWrite
  <2>2. CASE Write(key, Absent, "gone")
    <3>1. Allowed(key, Absent)
      BY <2>0, Zenon DEF Allowed, MayRemove, Kept, Doomed
    <3> QED BY <1>0, <1>2, <2>2, <3>1, WriteOrdered
  <2>3. CASE ~api[key].deleting /\ new \in Object /\ Write(key, new, "meta")
    <3>1. ~new.finalizer /\ ~new.deleting
      BY <1>0, <2>3, Zenon DEF Object
    <3> HIDE DEF new
    <3>2. Allowed(key, new)
      BY <2>0, <3>1, Zenon DEF Allowed, MayRemove, Kept, Doomed
    <3> QED BY <1>0, <1>2, <2>3, <3>2, WriteOrdered
  <2> QED BY <1>0, <2>1, <2>2, <2>3, PatchCases, Zenon
<1> QED
  BY <1>1, <1>2

\* the updates of the status,
LEMMA UpdateKeeps ==
    ASSUME Base, NEW t \in Ref, InvOf(t), pc \in {"publish", "clearStatus"}, current, NEW ingress,
           ingress = IF pc = "publish" THEN <<ip>> ELSE <<>>, UpdateStatus(key, ingress), cache' = cache
    PROVE  Ordered(t)' /\ (Guarded(t) => Guarded(t)') /\ (MayRemove(t) => MayRemove(t)')
<1> USE DEF Base, InvOf
<1>0. key \in Ref /\ api[key] # Absent /\ ingress \in {<<>>} \cup {<<a>> : a \in IP}
  BY UpdateWrites, Zenon DEF Copied
<1>1. PICK object \in Object : Write(key, object, "meta") /\ (t = key => Stays(key, object))
  <2>1. CASE t = key
    BY <1>0, <2>1, StatusStays, Zenon
  <2>2. CASE t # key
    BY <1>0, <2>2, StatusCases, Zenon
  <2> QED BY <2>1, <2>2
<1>2. t = key => Allowed(key, object)
  BY <1>0, <1>1, StaysIsAllowed, Zenon
<1>3. Ordered(t)'
  BY <1>0, <1>1, <1>2, WriteOrdered, Zenon
<1>4. (Guarded(t) => Guarded(t)') /\ (MayRemove(t) => MayRemove(t)')
  BY <1>0, <1>1, WriteKeeps, Zenon
<1> QED
  BY <1>3, <1>4, Zenon

\* the end of a reconcile, which relies on nothing any more,
LEMMA ReturnKeeps ==
    ASSUME NEW t \in Ref, NEW requeue, Return(requeue), Ordered(t)', Covered(t)'
    PROVE  InvOf(t)'
<1>1. pc' = "idle"
  BY DEF Return
<1>2. Relies(t)'
  BY <1>1 DEF Relies, Serving, Removing, Removed
<1> QED
  BY <1>2 DEF InvOf

\* and the steps of a reconcile that writes to the API server,
LEMMA ApiStepKeepsInv ==
    ASSUME Base, NEW t \in Ref, InvOf(t),
           EnsureServiceFinalizer \/ PublishStatus \/ ClearStatus \/ RemoveServiceFinalizer
    PROVE  InvOf(t)'
<1> USE DEF Base, InvOf
<1>0. key \in Ref /\ cache' = cache /\ provider' = provider /\ disturbed' = disturbed
  BY Zenon DEF TypeOK, EnsureServiceFinalizer, PublishStatus, ClearStatus, RemoveServiceFinalizer,
               cacheVars, providerVars
<1>1. ASSUME NoWrite
      PROVE  Ordered(t)' /\ (Guarded(t) => Guarded(t)') /\ (MayRemove(t) => MayRemove(t)')
  BY <1>0, <1>1, SameKeeps DEF NoWrite
<1>2. ASSUME Guarded(t) => Guarded(t)' PROVE Covered(t)'
  BY <1>0, <1>2, Zenon DEF Covered, Has
<1>3. ASSUME current, pc \in {"publish", "clearStatus"}, NEW ingress,
             ingress = IF pc = "publish" THEN <<ip>> ELSE <<>>, UpdateStatus(key, ingress)
      PROVE  Ordered(t)' /\ (Guarded(t) => Guarded(t)') /\ (MayRemove(t) => MayRemove(t)')
  BY <1>0, <1>3, UpdateKeeps, Zenon
<1>4. CASE EnsureServiceFinalizer
  <2>0. pc = "addFinalizer"
    BY <1>4 DEF EnsureServiceFinalizer
  <2>1. CASE NoWrite /\ Return(TRUE)
    BY <1>1, <1>2, <2>1, ReturnKeeps, Zenon
  <2>2. CASE /\ api[key] # Absent /\ PatchFinalizer(key, TRUE)
             /\ Goto("refresh") /\ UNCHANGED <<svc, current, ip>>
    <3>1. Ordered(t)' /\ (t = key \/ Guarded(t) => Guarded(t)')
      BY <1>0, <2>0, <2>2, AddFinalizerKeeps, Zenon
    <3>2. pc' = "refresh" /\ key' = key
      BY <2>2, Zenon DEF Goto
    <3>3. Relies(t)'
      BY <3>1, <3>2 DEF Relies, Serving, Removing, Removed
    <3> QED BY <1>2, <3>1, <3>3
  <2> QED BY <1>4, <2>1, <2>2, Zenon DEF EnsureServiceFinalizer
<1>5. CASE PublishStatus
  <2>1. CASE NoWrite /\ (Return(TRUE) \/ Return(FALSE))
    BY <1>1, <1>2, <2>1, ReturnKeeps, Zenon
  <2>2. CASE pc = "publish" /\ current /\ UpdateStatus(key, <<ip>>) /\ Return(FALSE)
    BY <1>2, <1>3, <2>2, ReturnKeeps, Zenon
  <2> QED BY <1>5, <2>1, <2>2, Zenon DEF PublishStatus, DesiredLoadBalancerIngress
<1>6. CASE ClearStatus
  <2>0. /\ pc = "clearStatus"
        /\ t = key => /\ t \notin disturbed => ~Has(provider, t)
                      /\ svc.finalizer => MayRemove(t)
    BY <1>6 DEF ClearStatus, Relies, Removing, Removed
  <2>1. ASSUME NEW label \in {"removeFinalizer", "refreshCleared"}, Goto(label), svc' = svc,
               Ordered(t)', (Guarded(t) => Guarded(t)') /\ (MayRemove(t) => MayRemove(t)')
        PROVE  InvOf(t)'
    <3>1. pc' = label /\ key' = key
      BY <2>1 DEF Goto
    <3>2. Relies(t)'
      BY <1>0, <2>0, <2>1, <3>1 DEF Relies, Serving, Removing, Removed, Has
    <3> QED BY <1>2, <2>1, <3>2
  <2>2. CASE NoWrite /\ Goto("removeFinalizer") /\ UNCHANGED <<svc, current, ip>>
    BY <1>1, <2>1, <2>2, Zenon
  <2>3. CASE current /\ UpdateStatus(key, <<>>) /\ Goto("refreshCleared") /\ UNCHANGED <<svc, current, ip>>
    BY <1>3, <2>0, <2>1, <2>3, Zenon
  <2>4. CASE current /\ UpdateStatus(key, <<>>) /\ Return(FALSE)
    BY <1>2, <1>3, <2>0, <2>4, ReturnKeeps, Zenon
  <2>5. CASE NoWrite /\ Return(TRUE)
    BY <1>1, <1>2, <2>5, ReturnKeeps, Zenon
  <2> QED BY <1>6, <2>2, <2>3, <2>4, <2>5, Zenon DEF ClearStatus
<1>7. CASE RemoveServiceFinalizer
  <2>0. pc = "removeFinalizer" /\ (t = key /\ t \notin disturbed => ~Has(provider, t))
    BY <1>7 DEF RemoveServiceFinalizer, Relies, Removed
  <2>1. CASE NoWrite /\ (Return(TRUE) \/ Return(FALSE))
    BY <1>1, <1>2, <2>1, ReturnKeeps, Zenon
  <2>2. CASE svc.finalizer /\ api[key] # Absent /\ PatchFinalizer(key, FALSE) /\ Return(FALSE)
    <3>1. Ordered(t)' /\ (t # key /\ Guarded(t) => Guarded(t)')
      BY <1>0, <2>0, <2>2, RemoveFinalizerKeeps, Zenon
    <3>2. Covered(t)'
      BY <1>0, <2>0, <3>1, Zenon DEF Covered, Has
    <3> QED BY <2>2, <3>1, <3>2, ReturnKeeps, Zenon
  <2> QED BY <1>7, <2>1, <2>2, Zenon DEF RemoveServiceFinalizer
<1> QED
  BY <1>4, <1>5, <1>6, <1>7, Zenon

\* and of one that reads the cache or calls the provider,
LEMMA OtherStepKeepsInv ==
    ASSUME Base, NEW t \in Ref, InvOf(t),
           Refresh \/ RefreshCleared \/ AllocateIP \/ EnsureProvider \/ DeleteProvider
    PROVE  InvOf(t)'
<1> USE DEF Base, InvOf
<1>0. key \in Ref /\ api' = api /\ watch' = watch /\ cache' = cache
  BY Zenon DEF TypeOK, Refresh, RefreshCleared, ReadAgain, AllocateIP, EnsureProvider, DeleteProvider,
         cacheVars, clusterVars
<1>1. Ordered(t)' /\ (Guarded(t) => Guarded(t)') /\ (MayRemove(t) => MayRemove(t)')
  BY <1>0, SameKeeps
<1>2. UNCHANGED providerVars => provider' = provider /\ disturbed' = disturbed /\ Covered(t)'
  BY <1>1, Zenon DEF Covered, Has, providerVars
<1>3. ASSUME NEW requeue, Return(requeue), UNCHANGED providerVars PROVE InvOf(t)'
  BY <1>1, <1>2, <1>3, ReturnKeeps, Zenon
<1>4. ASSUME NEW label \in Serving, Goto(label), pc \in Serving PROVE Relies(t)'
  <2>1. pc' = label /\ key' = key /\ (key = t => Guarded(t)')
    BY <1>1, <1>4 DEF Goto, Relies
  <2> QED BY <2>1 DEF Relies, Serving, Removing, Removed
<1>5. CASE Refresh
  <2>1. pc = "refresh" /\ UNCHANGED providerVars /\ (Goto("allocate") \/ Return(TRUE))
    BY <1>5, Zenon DEF Refresh, ReadAgain
  <2> QED BY <1>1, <1>2, <1>3, <1>4, <2>1, Zenon DEF Serving
<1>6. CASE RefreshCleared
  <2>1. /\ pc = "refreshCleared" /\ UNCHANGED providerVars
        /\ Goto("removeFinalizer") \/ Return(TRUE)
    BY <1>6, Zenon DEF RefreshCleared, ReadAgain
  <2>2. CASE Goto("removeFinalizer")
    <3>1. pc' = "removeFinalizer" /\ key' = key
      BY <2>2 DEF Goto
    <3>2. t = key => MayRemove(t) /\ (t \notin disturbed => ~Has(provider, t))
      BY <2>1 DEF Relies, Removing, Removed, Copied
    <3>3. Relies(t)'
      BY <1>1, <1>2, <2>1, <3>1, <3>2 DEF Relies, Serving, Removing, Removed, Has
    <3> QED BY <1>1, <1>2, <2>1, <3>3
  <2> QED BY <1>3, <2>1, <2>2, Zenon
<1>7. CASE AllocateIP
  <2>1. pc = "allocate" /\ UNCHANGED providerVars /\ (Goto("ensure") \/ Return(TRUE))
    BY <1>7, Zenon DEF AllocateIP
  <2> QED BY <1>1, <1>2, <1>3, <1>4, <2>1, Zenon DEF Serving
<1>8. CASE EnsureProvider
  <2>1. /\ pc = "ensure" /\ Goto("publish") /\ provider' = Upsert(provider, key, ProviderService)
        /\ disturbed' = disturbed \ {key}
    BY <1>8, Zenon DEF EnsureProvider
  <2>2. key = t => Guarded(t)'
    BY <1>1, <2>1, Zenon DEF Relies, Serving
  <2>3. Covered(t)'
    BY <1>0, <1>1, <2>1, <2>2 DEF Covered, Has, Upsert, TypeOK, Config
  <2> QED BY <1>1, <1>4, <2>1, <2>3 DEF Serving
<1>9. CASE DeleteProvider
  <2>1. /\ pc \in {"deleteProvider", "cleanupProvider"} /\ key' = key /\ svc' = svc
        /\ provider' = Remove(provider, key) /\ disturbed' = disturbed \ {key}
        /\ pc' = IF pc = "deleteProvider" THEN "removeFinalizer" ELSE "clearStatus"
    BY <1>9 DEF DeleteProvider, Goto
  <2>2. t = key /\ svc.finalizer => MayRemove(t)'
    BY <1>1, <2>1 DEF Relies, Removing
  <2>3. t = key => ~Has(provider, t)'
    BY <1>0, <2>1, Zenon DEF Has, Remove, TypeOK, Config
  <2>4. Relies(t)'
    BY <2>1, <2>2, <2>3, Zenon DEF Relies, Serving, Removing, Removed
  <2>5. Covered(t)'
    BY <1>0, <1>1, <2>1 DEF Covered, Has, Remove, TypeOK, Config
  <2> QED BY <1>1, <2>4, <2>5
<1> QED
  BY <1>5, <1>6, <1>7, <1>8, <1>9, Zenon

\* the failures of calls,
LEMMA FailureKeepsInv ==
    ASSUME Base, NEW t \in Ref, InvOf(t), ApiCallFails \/ ProviderCallFails
    PROVE  InvOf(t)'
<1> USE DEF Base, InvOf
<1>1. CASE ApiCallFails
  <2>1. cache' = cache /\ provider' = provider /\ disturbed' = disturbed /\ Return(TRUE) /\ key \in Ref
    BY <1>1, Zenon DEF ApiCallFails, cacheVars, providerVars, TypeOK
  <2>2. ASSUME Guarded(t) => Guarded(t)' PROVE Covered(t)'
    BY <2>1, <2>2, Zenon DEF Covered, Has
  <2>3. CASE NoWrite
    <3>1. Ordered(t)' /\ (Guarded(t) => Guarded(t)')
      BY <2>1, <2>3, SameKeeps, Zenon DEF NoWrite
    <3> QED BY <2>1, <2>2, <3>1, ReturnKeeps, Zenon
  <2>4. CASE pc = "addFinalizer" /\ api[key] # Absent /\ PatchFinalizer(key, TRUE)
    <3>1. Ordered(t)' /\ (Guarded(t) => Guarded(t)')
      BY <2>1, <2>4, AddFinalizerKeeps, Zenon
    <3> QED BY <2>1, <2>2, <3>1, ReturnKeeps, Zenon
  <2>5. CASE pc = "removeFinalizer" /\ svc.finalizer /\ api[key] # Absent /\ PatchFinalizer(key, FALSE)
    <3>1. Ordered(t)' /\ (t # key /\ Guarded(t) => Guarded(t)')
      BY <2>1, <2>5, RemoveFinalizerKeeps, Zenon
    <3>2. t = key /\ t \notin disturbed => ~Has(provider, t)
      BY <2>5, Zenon DEF Relies, Removed
    <3>3. Covered(t)'
      BY <2>1, <3>1, <3>2, Zenon DEF Covered, Has
    <3> QED BY <2>1, <3>1, <3>3, ReturnKeeps, Zenon
  <2>6. CASE \/ pc = "publish" /\ current /\ UpdateStatus(key, <<ip>>)
             \/ pc = "clearStatus" /\ current /\ UpdateStatus(key, <<>>)
    <3>1. Ordered(t)' /\ (Guarded(t) => Guarded(t)')
      BY <2>1, <2>6, UpdateKeeps
    <3> QED BY <2>1, <2>2, <3>1, ReturnKeeps, Zenon
  <2> QED BY <1>1, <2>3, <2>4, <2>5, <2>6, Zenon
          DEF ApiCallFails, PatchFails, UpdateFails, DesiredLoadBalancerIngress
<1>2. CASE ProviderCallFails
  <2>1. api' = api /\ watch' = watch /\ cache' = cache /\ Return(TRUE) /\ key \in Ref /\ CallsProvider
    BY <1>2, Zenon DEF ProviderCallFails, CallsProvider, clusterVars, cacheVars, TypeOK
  <2>2. Ordered(t)' /\ (Guarded(t) => Guarded(t)')
    BY <2>1, SameKeeps
  <2>3. Covered(t)'
    <3>1. CASE provider' = provider /\ disturbed' = disturbed
      BY <2>2, <3>1, Zenon DEF Covered, Has
    <3>2. CASE provider' = [provider EXCEPT ![key] = ProviderCall.val] /\ disturbed' = disturbed \ {key}
      <4>1. CASE pc = "ensure"
        <5>1. key = t => Guarded(t)'
          BY <2>2, <4>1, Zenon DEF Relies, Serving
        <5> QED BY <2>1, <2>2, <3>2, <5>1 DEF Covered, Has, TypeOK, Config
      <4>2. CASE pc # "ensure"
        <5>1. ProviderCall.val = None
          BY <4>2 DEF ProviderCall
        <5> QED BY <2>1, <2>2, <3>2, <5>1 DEF Covered, Has, TypeOK, Config
      <4> QED BY <4>1, <4>2
    <3> QED BY <1>2, <3>1, <3>2, Zenon DEF ProviderCallFails
  <2> QED BY <2>1, <2>2, <2>3, ReturnKeeps, Zenon
<1> QED
  BY <1>1, <1>2

\* late requests, and restarts.
LEMMA RestartKeepsInv ==
    ASSUME Base, NEW t \in Ref, InvOf(t), LateEffect \/ ControllerRestart \/ DataplaneRestart
    PROVE  InvOf(t)'
<1> USE DEF Base, InvOf
<1>1. CASE LateEffect \/ DataplaneRestart
  <2>1. /\ api' = api /\ watch' = watch /\ cache' = cache /\ pc' = pc /\ key' = key /\ svc' = svc
    BY <1>1 DEF LateEffect, DataplaneRestart, clusterVars, cacheVars, localVars
  <2>2. /\ MayAdd(t) => MayAdd(t)'
        /\ MayRemove(t) => MayRemove(t)'
        /\ Guarded(t) => Guarded(t)'
        /\ Ordered(t)'
    BY <2>1, SameKeeps
  <2>3. t \notin disturbed' => provider'[t] = provider[t] /\ t \notin disturbed
    <3>1. CASE DataplaneRestart
      BY <3>1 DEF DataplaneRestart
    <3>2. CASE LateEffect
      <4>1. PICK c \in LateRequest : /\ provider' = [provider EXCEPT ![c.ref] = c.val]
                                     /\ disturbed' = disturbed \cup {c.ref}
        BY <3>2, ZenonT(30) DEF LateEffect, TypeOK, NotedTypeOK
      <4> QED BY <4>1 DEF LateRequest, TypeOK, Config
    <3> QED BY <1>1, <3>1, <3>2
  <2>4. Relies(t)'
    BY <2>1, <2>2, <2>3, ZenonT(30) DEF Relies, Has
  <2>5. Covered(t)'
    BY <2>1, <2>2, <2>3 DEF Covered, Has
  <2> QED BY <2>2, <2>4, <2>5
<1>2. CASE ControllerRestart
  <2>1. /\ api' = api /\ cache' = api /\ watch' = <<>> /\ pc' = "idle"
        /\ provider' \in {EmptyConfig, provider} /\ disturbed' = disturbed
    BY <1>2, Zenon DEF ControllerRestart
  <2>2. Ordered(t)'
    <3>1. api[t] # Absent /\ api[t].deleting => api[t].finalizer
      BY Zenon DEF Ordered
    <3>2. 1..Len(watch') = {}
      BY <2>1
    <3>3. Kept(api[t]) => ~Doomed(api[t]) /\ Guarded(t)
      BY Zenon DEF Kept, Doomed, Guarded
    <3>4. SeenFirst(t)' /\ (\A k : Together(t, k)')
      BY <3>2, Zenon DEF SeenFirst, Together
    <3>5. (NoKept(t)' <=> ~Kept(api[t])) /\ (NoDoomed(t)' <=> ~Doomed(api[t]))
      BY <2>1, <3>2, Zenon DEF NoKept, NoDoomed, NoDoomedBefore, Kept, Doomed
    <3>6. (Kept(api[t])' <=> Kept(api[t])) /\ (Guarded(t)' <=> Guarded(t))
      BY <2>1 DEF Kept, Guarded
    <3> QED BY <2>1, <3>1, <3>2, <3>3, <3>4, <3>5, <3>6, Zenon DEF Ordered
  <2>3. Relies(t)'
    BY <2>1 DEF Relies, Serving, Removing, Removed
  <2>4. Covered(t)'
    BY <2>1, Zenon DEF Covered, Has, Guarded, EmptyConfig
  <2> QED BY <2>2, <2>3, <2>4, Zenon
<1> QED
  BY <1>1, <1>2

-----------------------------------------------------------------------------
\* The order of the versions and what a reconcile relies on hold throughout,
\* for every Service that has not come back to the controller.
THEOREM InvHolds == Spec => []Inv
<1>1. Init => Inv
  <2> SUFFICES ASSUME Init, NEW t \in Ref PROVE InvOf(t)
    BY DEF Inv
  <2>1. /\ watch = <<>> /\ pc = "idle" /\ provider = EmptyConfig
        /\ api[t] = Absent /\ cache[t] = Absent
    BY Zenon DEF Init
  <2>2. 1..Len(watch) = {}
    BY <2>1, SMTT(20)
  <2>3. Ordered(t)
    <3>1. ~Kept(Absent) /\ ~Doomed(Absent)
      BY Zenon DEF Kept, Doomed
    <3> QED BY <2>1, <2>2, <3>1, Zenon DEF Ordered, NoKept, SeenFirst
  <2>4. Relies(t)
    BY <2>1, Zenon DEF Relies, Serving, Removing, Removed
  <2>5. Covered(t)
    BY <2>1 DEF Covered, Has, EmptyConfig
  <2> QED BY <2>3, <2>4, <2>5 DEF InvOf
<1>2. Base /\ Inv /\ [Next]_vars => Inv'
  <2> SUFFICES ASSUME Base, Inv, [Next]_vars, NEW t \in Ref, t \notin returned' PROVE InvOf(t)'
    BY DEF Inv
  <2>0. InvOf(t)
    BY HistoryStays DEF Inv
  <2>1. CASE User
    BY <2>0, <2>1, UserKeepsInv
  <2>2. CASE Deliver \/ \E s \in Ref : DeliverSlices(s)
    BY <2>0, <2>2, DeliverKeepsInv
  <2>3. CASE \E s \in Ref : Reconcile(s)
    BY <2>0, <2>3, ReconcileKeepsInv
  <2>4. CASE Worker
    BY <2>0, <2>4, ApiStepKeepsInv, OtherStepKeepsInv DEF Worker
  <2>5. CASE ApiCallFails \/ ProviderCallFails
    BY <2>0, <2>5, FailureKeepsInv
  <2>6. CASE LateEffect \/ ControllerRestart \/ DataplaneRestart
    BY <2>0, <2>6, RestartKeepsInv
  <2>7. CASE UNCHANGED vars
    BY <2>0, <2>7, SameKeepsInv DEF vars, clusterVars, cacheVars, localVars, providerVars
  <2> QED BY <2>1, <2>2, <2>3, <2>4, <2>5, <2>6, <2>7 DEF Next
<1> QED
  BY <1>1, <1>2, BaseHolds, PTL DEF Spec

\* So every Service with provider state exists and carries the finalizer, except
\* those that came back to the controller or that a late request or a restart of
\* the dataplane disturbed: for any number of Services, whatever the delay of the
\* caches, whatever users edit, and however often calls fail, succeed without an
\* answer, or processes restart.
THEOREM GuardedAlways == Spec => []ProviderStateIsGuarded
<1>1. Inv => ProviderStateIsGuarded
  BY DEF Inv, InvOf, Covered, Guarded, ProviderStateIsGuarded
<1> QED
  BY <1>1, InvHolds, PTL
=============================================================================
