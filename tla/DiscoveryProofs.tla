-------------------------- MODULE DiscoveryProofs ---------------------------
(***************************************************************************)
(* Proofs about Discovery: for any ports of a Service and any listing of   *)
(* EndpointSlices, Discover returns the backends that Kubernetes means, in *)
(* one order.                                                              *)
(***************************************************************************)
EXTENDS Discovery, FiniteSetTheorems, TLAPS

\* The backends that the loops come across, as a set.
Backends(port, slices) == {Backend(slices, t) : t \in Found(port, slices)}

\* A set of backends in the order of sort.Slice.
Rank(S, b) == Cardinality({c \in S : Before(c, b)}) + 1
InOrder(S) == [n \in 1..Cardinality(S) |-> CHOOSE b \in S : Rank(S, b) = n]

BackendType == [address : Nat, port : Nat]
TurnType == Nat \X Nat \X Nat \X Nat

-----------------------------------------------------------------------------
\* The positions of a sequence, and what it holds there.
LEMMA Positions ==
    ASSUME NEW T, NEW s \in Seq(T)
    PROVE  /\ Len(s) \in Nat
           /\ DOMAIN s = 1..Len(s)
           /\ \A i \in DOMAIN s : i \in Nat /\ s[i] \in T
OBVIOUS

EndpointPortType == [name : STRING, protocol : STRING, port : Nat]
EndpointType == [ready : {"", "true", "false"}, addresses : Seq(Nat)]

\* The fields of an EndpointSlice.
LEMMA SliceFields ==
    ASSUME NEW slices \in Seq(SliceSpace), NEW i \in DOMAIN slices
    PROVE  /\ slices[i].belongs \in BOOLEAN
           /\ slices[i].ports \in Seq(EndpointPortType)
           /\ slices[i].endpoints \in Seq(EndpointType)
           /\ \A e \in DOMAIN slices[i].endpoints :
                 slices[i].endpoints[e].addresses \in Seq(Nat)
<1>1. slices[i] \in SliceSpace
  OBVIOUS
<1>2. /\ slices[i].belongs \in BOOLEAN
      /\ slices[i].ports \in Seq(EndpointPortType)
      /\ slices[i].endpoints \in Seq(EndpointType)
  BY <1>1, SliceSpaceAssumption, Zenon DEF EndpointPortType, EndpointType
<1>3. \A e \in DOMAIN slices[i].endpoints : slices[i].endpoints[e] \in EndpointType
  BY <1>2, Positions
<1> QED
  BY <1>2, <1>3, Zenon DEF EndpointType

\* What a turn of the loops is.
LEMMA TurnFields ==
    ASSUME NEW slices \in Seq(SliceSpace), NEW t
    PROVE  t \in Turns(slices) <=>
              /\ t \in TurnType
              /\ t[1] \in DOMAIN slices
              /\ t[2] \in DOMAIN slices[t[1]].ports
              /\ t[3] \in DOMAIN slices[t[1]].endpoints
              /\ t[4] \in DOMAIN slices[t[1]].endpoints[t[3]].addresses
<1>1. ASSUME t \in Turns(slices)
      PROVE  \E i \in DOMAIN slices : \E e \in DOMAIN slices[i].endpoints :
                \E q \in DOMAIN slices[i].ports, a \in DOMAIN slices[i].endpoints[e].addresses :
                    t = <<i, q, e, a>>
  BY <1>1 DEF Turns
<1>2. ASSUME NEW i \in DOMAIN slices, NEW e \in DOMAIN slices[i].endpoints,
             NEW q \in DOMAIN slices[i].ports, NEW a \in DOMAIN slices[i].endpoints[e].addresses
      PROVE  <<i, q, e, a>> \in TurnType
  <2>1. i \in Nat /\ e \in Nat /\ q \in Nat /\ a \in Nat
    BY SliceFields, Positions
  <2> QED BY <2>1 DEF TurnType
<1>3. ASSUME t \in TurnType, t[1] \in DOMAIN slices, t[2] \in DOMAIN slices[t[1]].ports,
             t[3] \in DOMAIN slices[t[1]].endpoints,
             t[4] \in DOMAIN slices[t[1]].endpoints[t[3]].addresses
      PROVE  t \in Turns(slices)
  <2>1. t = <<t[1], t[2], t[3], t[4]>>
    BY <1>3 DEF TurnType
  <2> QED BY <1>3, <2>1 DEF Turns
<1> QED
  BY <1>1, <1>2, <1>3

\* There are finitely many.
LEMMA FiniteUnion ==
    ASSUME NEW n \in Nat, NEW F, \A i \in 1..n : IsFiniteSet(F[i])
    PROVE  IsFiniteSet(UNION {F[i] : i \in 1..n})
<1> DEFINE S == {F[i] : i \in 1..n}
           f == [i \in 1..n |-> F[i]]
<1>1. f \in Surjection(1..n, S)
  BY DEF Surjection
<1>2. IsFiniteSet(1..n)
  <2>1. 1 \in Int /\ n \in Int
    OBVIOUS
  <2> QED BY <2>1, FS_Interval
<1>3. IsFiniteSet(S)
  BY <1>1, <1>2, FS_Surjection
<1> QED
  BY <1>3, FS_UNION, Zenon

\* The loops end: a listing has finitely many turns.
LEMMA TurnsFinite ==
    ASSUME NEW slices \in Seq(SliceSpace)
    PROVE  IsFiniteSet(Turns(slices))
<1> DEFINE Inner(i, e) == {<<i, q, e, a>> : q \in DOMAIN slices[i].ports,
                                          a \in DOMAIN slices[i].endpoints[e].addresses}
           Middle(i) == UNION {Inner(i, e) : e \in DOMAIN slices[i].endpoints}
<1>1. ASSUME NEW i \in DOMAIN slices, NEW e \in DOMAIN slices[i].endpoints
      PROVE  IsFiniteSet(Inner(i, e))
  <2> DEFINE P == DOMAIN slices[i].ports
             A == DOMAIN slices[i].endpoints[e].addresses
             g == [x \in P \X A |-> <<i, x[1], e, x[2]>>]
  <2>1. IsFiniteSet(P)
    <3>1. P = 1..Len(slices[i].ports) /\ Len(slices[i].ports) \in Nat
      BY SliceFields, Positions
    <3>2. 1 \in Int /\ Len(slices[i].ports) \in Int
      BY <3>1
    <3> QED BY <3>1, <3>2, FS_Interval
  <2>2. IsFiniteSet(A)
    <3> DEFINE m == Len(slices[i].endpoints[e].addresses)
    <3>1. A = 1..m /\ m \in Nat
      BY SliceFields, Positions
    <3>2. 1 \in Int /\ m \in Int
      BY <3>1
    <3> QED BY <3>1, <3>2, FS_Interval
  <2> HIDE DEF P, A
  <2>3. IsFiniteSet(P \X A)
    BY <2>1, <2>2, FS_Product
  <2>4. g \in Surjection(P \X A, {<<i, q, e, a>> : q \in P, a \in A})
    <3>1. \A x \in P \X A : x[1] \in P /\ x[2] \in A
      OBVIOUS
    <3>2. g \in [P \X A -> {<<i, q, e, a>> : q \in P, a \in A}]
      BY <3>1
    <3>3. ASSUME NEW r \in {<<i, q, e, a>> : q \in P, a \in A} PROVE \E x \in P \X A : g[x] = r
      <4>1. PICK q \in P, a \in A : r = <<i, q, e, a>>
        OBVIOUS
      <4>2. <<q, a>> \in P \X A /\ g[<<q, a>>] = <<i, q, e, a>>
        OBVIOUS
      <4> QED BY <4>1, <4>2
    <3> HIDE DEF g
    <3> QED BY <3>2, <3>3 DEF Surjection
  <2>5. IsFiniteSet({<<i, q, e, a>> : q \in P, a \in A})
    BY <2>3, <2>4, FS_Surjection
  <2> QED BY <2>5 DEF P, A
<1> HIDE DEF Inner
<1>2. ASSUME NEW i \in DOMAIN slices
      PROVE  IsFiniteSet(Middle(i))
  <2> DEFINE n == Len(slices[i].endpoints)
             F == [e \in 1..n |-> Inner(i, e)]
  <2>1. n \in Nat /\ DOMAIN slices[i].endpoints = 1..n
    BY SliceFields, Positions
  <2> HIDE DEF n
  <2>2. \A e \in 1..n : IsFiniteSet(F[e])
    BY <1>1, <2>1
  <2>3. {F[e] : e \in 1..n} = {Inner(i, e) : e \in DOMAIN slices[i].endpoints}
    BY <2>1
  <2> HIDE DEF F
  <2> QED BY <2>1, <2>2, <2>3, FiniteUnion, Zenon
<1> HIDE DEF Middle
<1> DEFINE n == Len(slices)
           F == [i \in 1..n |-> Middle(i)]
<1>3. n \in Nat /\ DOMAIN slices = 1..n
  OBVIOUS
<1> HIDE DEF n
<1>4. \A i \in 1..n : IsFiniteSet(F[i])
  BY <1>2, <1>3
<1>5. {F[i] : i \in 1..n} = {Middle(i) : i \in DOMAIN slices}
  BY <1>3
<1> HIDE DEF F
<1>6. IsFiniteSet(UNION {Middle(i) : i \in DOMAIN slices})
  BY <1>3, <1>4, <1>5, FiniteUnion, Zenon
<1> QED
  BY <1>6 DEF Turns, Middle, Inner

-----------------------------------------------------------------------------
\* The order of the turns,
LEMMA EarlierCases ==
    ASSUME NEW t \in TurnType, NEW u \in TurnType
    PROVE  Earlier(t, u) <=>
              \/ t[1] < u[1]
              \/ t[1] = u[1] /\ t[2] < u[2]
              \/ t[1] = u[1] /\ t[2] = u[2] /\ t[3] < u[3]
              \/ t[1] = u[1] /\ t[2] = u[2] /\ t[3] = u[3] /\ t[4] < u[4]
<1>1. 1..4 = {1, 2, 3, 4} /\ 1..1 - 1 = {} /\ 1..2 - 1 = {1} /\ 1..3 - 1 = {1, 2} /\ 1..4 - 1 = {1, 2, 3}
  OBVIOUS
<1> QED
  BY <1>1 DEF Earlier

\* Of two turns one comes first.
LEMMA EarlierTotal ==
    ASSUME NEW t \in TurnType, NEW u \in TurnType, t # u
    PROVE  Earlier(t, u) \/ Earlier(u, t)
<1>1. t[1] # u[1] \/ t[2] # u[2] \/ t[3] # u[3] \/ t[4] # u[4]
  BY DEF TurnType
<1>2. \A k \in {1, 2, 3, 4} : t[k] \in Nat /\ u[k] \in Nat
  BY DEF TurnType
<1> QED
  BY <1>1, <1>2, EarlierCases

\* in which there is a first one of any kind.
LEMMA Least ==
    ASSUME NEW S \in SUBSET Nat, S # {}
    PROVE  \E i \in S : \A j \in S : i <= j
<1>1. PICK i \in S : \A j \in S : <<j, i>> \notin OpToRel(<, Nat)
  BY NatLessThanWellFounded, WFMin, Zenon
<1>2. \A j \in S : ~(j < i)
  BY <1>1, Zenon DEF OpToRel
<1> QED
  BY <1>2

\* Any turns there are have a first one, which is the one that finds the map
\* seen without their backend.
LEMMA FirstTurn ==
    ASSUME NEW U \in SUBSET TurnType, U # {}
    PROVE  \E t \in U : \A u \in U : ~Earlier(u, t)
<1> DEFINE Smallest(V, k) == {t \in V : \A u \in V : t[k] <= u[k]}
<1>1. ASSUME NEW V \in SUBSET TurnType, V # {}, NEW k \in {1, 2, 3, 4}
      PROVE  Smallest(V, k) # {}
  <2> DEFINE S == {t[k] : t \in V}
  <2>1. S \in SUBSET Nat /\ S # {}
    BY <1>1 DEF TurnType
  <2>2. PICK i \in S : \A j \in S : i <= j
    BY <2>1, Least, Zenon
  <2> QED BY <2>2
<1> DEFINE A == Smallest(U, 1)
           B == Smallest(A, 2)
           C == Smallest(B, 3)
           D == Smallest(C, 4)
<1>2. A \in SUBSET U /\ A # {}
  BY <1>1, Zenon
<1>3. B \in SUBSET A /\ B # {}
  <2> HIDE DEF A
  <2> QED BY <1>1, <1>2, Zenon
<1>4. C \in SUBSET B /\ C # {}
  <2> HIDE DEF B
  <2> QED BY <1>1, <1>2, <1>3, Zenon
<1>5. D \in SUBSET C /\ D # {}
  <2> HIDE DEF C
  <2> QED BY <1>1, <1>2, <1>3, <1>4, Zenon
<1>6. PICK t \in D : TRUE
  BY <1>5
<1>7. ASSUME NEW u \in U, Earlier(u, t) PROVE FALSE
  <2>1. t \in TurnType /\ u \in TurnType /\ t \in A /\ t \in B /\ t \in C
    BY <1>2, <1>3, <1>4, <1>5, <1>6
  <2>2. \A k \in {1, 2, 3, 4} : t[k] \in Nat /\ u[k] \in Nat
    BY <2>1 DEF TurnType
  <2>3. t[1] <= u[1]
    BY <2>1
  <2>4. t[1] = u[1] => u \in A
    BY <2>1
  <2>5. u \in A => t[2] <= u[2] /\ (t[2] = u[2] => u \in B)
    <3> HIDE DEF A
    <3> QED BY <2>1
  <2>6. u \in B => t[3] <= u[3] /\ (t[3] = u[3] => u \in C)
    <3> HIDE DEF B
    <3> QED BY <2>1
  <2>7. u \in C => t[4] <= u[4]
    <3> HIDE DEF C
    <3> QED BY <1>6
  <2> HIDE DEF A, B, C, D
  <2> QED BY <1>7, <2>1, <2>2, <2>3, <2>4, <2>5, <2>6, <2>7, EarlierCases
<1>8. t \in U
  BY <1>2, <1>3, <1>4, <1>5, <1>6
<1> QED
  BY <1>7, <1>8

-----------------------------------------------------------------------------
\* The order of sort.Slice is total on backends,
LEMMA BeforeOrder ==
    ASSUME NEW b \in BackendType, NEW c \in BackendType, NEW d \in BackendType
    PROVE  /\ ~Before(b, b)
           /\ Before(b, c) /\ Before(c, d) => Before(b, d)
           /\ b # c => Before(b, c) \/ Before(c, b)
<1>1. b # c => b.address # c.address \/ b.port # c.port
  BY DEF BackendType
<1>2. b.address \in Nat /\ b.port \in Nat /\ c.address \in Nat /\ c.port \in Nat
      /\ d.address \in Nat /\ d.port \in Nat
  BY DEF BackendType
<1> QED
  BY <1>1, <1>2 DEF Before

\* so that each place in a finite set of backends is taken by one of them.
LEMMA Ranks ==
    ASSUME NEW S \in SUBSET BackendType, IsFiniteSet(S)
    PROVE  /\ Cardinality(S) \in Nat
           /\ \A b \in S : Rank(S, b) \in 1..Cardinality(S)
           /\ \A b, c \in S : Rank(S, b) = Rank(S, c) => b = c
           /\ \A n \in 1..Cardinality(S) : \E b \in S : Rank(S, b) = n
<1> DEFINE Below(b) == {c \in S : Before(c, b)}
           N == Cardinality(S)
<1>1. N \in Nat
  BY FS_CardinalityType
<1>2. ASSUME NEW b \in S
      PROVE  /\ IsFiniteSet(Below(b)) /\ Cardinality(Below(b)) \in Nat
             /\ Cardinality(Below(b)) < N
  <2>1. Below(b) \in SUBSET S /\ b \notin Below(b)
    BY BeforeOrder
  <2> HIDE DEF Below
  <2>2. /\ IsFiniteSet(Below(b)) /\ Cardinality(Below(b)) <= N
        /\ N = Cardinality(Below(b)) => S = Below(b)
    BY <2>1, FS_Subset
  <2>3. Cardinality(Below(b)) \in Nat
    BY <2>2, FS_CardinalityType
  <2>4. Cardinality(Below(b)) # N
    BY <2>1, <2>2
  <2> QED BY <1>1, <2>2, <2>3, <2>4
<1>3. ASSUME NEW b \in S, NEW c \in S, Before(b, c)
      PROVE  Cardinality(Below(b)) < Cardinality(Below(c))
  <2>1. Below(b) \in SUBSET Below(c) /\ b \in Below(c) /\ b \notin Below(b)
    BY <1>3, BeforeOrder
  <2>2. /\ IsFiniteSet(Below(c)) /\ Cardinality(Below(b)) \in Nat /\ Cardinality(Below(c)) \in Nat
    BY <1>2, Zenon
  <2> HIDE DEF Below
  <2>3. /\ Cardinality(Below(b)) <= Cardinality(Below(c))
        /\ Cardinality(Below(c)) = Cardinality(Below(b)) => Below(c) = Below(b)
    BY <2>1, <2>2, FS_Subset
  <2>4. Cardinality(Below(c)) # Cardinality(Below(b))
    BY <2>1, <2>3
  <2> QED BY <2>2, <2>3, <2>4
<1>4. \A b \in S : Rank(S, b) = Cardinality(Below(b)) + 1
  BY DEF Rank
<1> HIDE DEF Below
<1>5. \A b \in S : Rank(S, b) \in 1..N
  BY <1>1, <1>2, <1>4
<1>6. \A b, c \in S : Rank(S, b) = Rank(S, c) => b = c
  <2> SUFFICES ASSUME NEW b \in S, NEW c \in S, Rank(S, b) = Rank(S, c), b # c PROVE FALSE
    OBVIOUS
  <2>1. Before(b, c) \/ Before(c, b)
    BY BeforeOrder
  <2>2. Cardinality(Below(b)) < Cardinality(Below(c)) \/ Cardinality(Below(c)) < Cardinality(Below(b))
    BY <1>3, <2>1
  <2>3. Cardinality(Below(b)) \in Nat /\ Cardinality(Below(c)) \in Nat
    BY <1>2
  <2> QED BY <1>4, <2>2, <2>3
<1> DEFINE f == [b \in S |-> Rank(S, b)]
<1>7. f \in Injection(S, 1..N)
  BY <1>5, <1>6 DEF Injection, IsInjective
<1>8. IsFiniteSet(1..N) /\ Cardinality(1..N) = N
  <2>1. 1 \in Int /\ N \in Int
    BY <1>1
  <2> HIDE DEF N
  <2>2. IsFiniteSet(1..N) /\ Cardinality(1..N) = IF 1 > N THEN 0 ELSE N - 1 + 1
    BY <2>1, FS_Interval
  <2> QED BY <1>1, <2>2
<1>9. f \in Surjection(S, 1..N)
  <2> HIDE DEF f
  <2> QED BY <1>7, <1>8, FS_Injection
<1>10. \A n \in 1..N : \E b \in S : Rank(S, b) = n
  BY <1>9, Zenon DEF Surjection
<1> QED
  BY <1>1, <1>5, <1>6, <1>10

\* The listing of a set in its order has its elements, each once.
LEMMA InOrderElements ==
    ASSUME NEW S \in SUBSET BackendType, IsFiniteSet(S)
    PROVE  /\ Elements(InOrder(S)) = S
           /\ Len(InOrder(S)) = Cardinality(S)
<1> DEFINE N == Cardinality(S)
           r == InOrder(S)
<1>1. N \in Nat /\ DOMAIN r = 1..N
  BY Ranks DEF InOrder
<1>2. Len(r) = N
  BY <1>1 DEF InOrder
<1>3. ASSUME NEW n \in 1..N PROVE r[n] \in S /\ Rank(S, r[n]) = n
  <2>1. r[n] = CHOOSE b \in S : Rank(S, b) = n
    BY DEF InOrder
  <2>2. \E b \in S : Rank(S, b) = n
    BY Ranks
  <2> HIDE DEF r
  <2> QED BY <2>1, <2>2
<1>4. ASSUME NEW b \in S PROVE \E n \in 1..N : r[n] = b
  <2>1. Rank(S, b) \in 1..N
    BY Ranks
  <2>2. r[Rank(S, b)] \in S /\ Rank(S, r[Rank(S, b)]) = Rank(S, b)
    BY <1>3, <2>1
  <2>3. r[Rank(S, b)] = b
    BY <2>2, Ranks
  <2> QED BY <2>1, <2>3
<1> HIDE DEF r
<1>5. Elements(r) = S
  BY <1>1, <1>3, <1>4 DEF Elements
<1> QED
  BY <1>2, <1>5 DEF r

-----------------------------------------------------------------------------
\* A turn that is found has a backend.
LEMMA FoundTypes ==
    ASSUME NEW port, NEW slices \in Seq(SliceSpace)
    PROVE  /\ Found(port, slices) \in SUBSET Turns(slices)
           /\ Found(port, slices) \in SUBSET TurnType
           /\ Backends(port, slices) \in SUBSET BackendType
           /\ IsFiniteSet(Found(port, slices))
           /\ IsFiniteSet(Backends(port, slices))
<1> DEFINE F == Found(port, slices)
           B == Backends(port, slices)
<1>1. F \in SUBSET Turns(slices)
  BY DEF Found
<1>2. F \in SUBSET TurnType
  BY <1>1, TurnFields, Zenon
<1>3. ASSUME NEW t \in Turns(slices) PROVE Backend(slices, t) \in BackendType
  <2>1. /\ t[1] \in DOMAIN slices
        /\ t[2] \in DOMAIN slices[t[1]].ports
        /\ t[3] \in DOMAIN slices[t[1]].endpoints
        /\ t[4] \in DOMAIN slices[t[1]].endpoints[t[3]].addresses
    BY TurnFields
  <2>2. /\ slices[t[1]].ports \in Seq(EndpointPortType)
        /\ slices[t[1]].endpoints[t[3]].addresses \in Seq(Nat)
    BY <2>1, SliceFields, Zenon
  <2>3. slices[t[1]].ports[t[2]] \in EndpointPortType
    BY <2>1, <2>2, Positions, Zenon
  <2>4. slices[t[1]].endpoints[t[3]].addresses[t[4]] \in Nat
    BY <2>1, <2>2, Positions, Zenon
  <2> QED BY <2>3, <2>4 DEF Backend, BackendType, EndpointPortType
<1>4. B \in SUBSET BackendType
  BY <1>1, <1>3 DEF Backends
<1>5. IsFiniteSet(F)
  BY <1>1, TurnsFinite, FS_Subset
<1> DEFINE f == [t \in F |-> Backend(slices, t)]
<1>6. f \in Surjection(F, B)
  BY DEF Surjection, Backends
<1>7. IsFiniteSet(B)
  <2> HIDE DEF f, F, B
  <2> QED BY <1>5, <1>6, FS_Surjection
<1> QED
  BY <1>1, <1>2, <1>4, <1>5, <1>7

\* The map seen lets exactly one turn through for each backend.
LEMMA UnseenTurns ==
    ASSUME NEW port, NEW slices \in Seq(SliceSpace)
    PROVE  /\ \A b \in Backends(port, slices) :
                 \E t \in Unseen(port, slices) : Backend(slices, t) = b
           /\ \A t \in Unseen(port, slices) : Backend(slices, t) \in Backends(port, slices)
           /\ \A t, u \in Unseen(port, slices) : Backend(slices, t) = Backend(slices, u) => t = u
<1> DEFINE F == Found(port, slices)
<1>1. F \in SUBSET TurnType
  BY FoundTypes
<1>2. ASSUME NEW b \in Backends(port, slices)
      PROVE  \E t \in Unseen(port, slices) : Backend(slices, t) = b
  <2> DEFINE U == {t \in F : Backend(slices, t) = b}
  <2>1. U \in SUBSET TurnType /\ U # {}
    BY <1>1 DEF Backends
  <2>2. PICK t \in U : \A u \in U : ~Earlier(u, t)
    BY <2>1, FirstTurn, Zenon
  <2>3. t \in Unseen(port, slices)
    BY <2>2 DEF Unseen
  <2> QED BY <2>2, <2>3
<1>3. ASSUME NEW t \in Unseen(port, slices), NEW u \in Unseen(port, slices),
             Backend(slices, t) = Backend(slices, u), t # u
      PROVE  FALSE
  <2>1. t \in F /\ u \in F
    BY DEF Unseen
  <2>2. Earlier(t, u) \/ Earlier(u, t)
    BY <1>1, <1>3, <2>1, EarlierTotal
  <2> QED BY <1>3, <2>1, <2>2 DEF Unseen
<1> QED
  BY <1>2, <1>3 DEF Unseen, Backends

\* The seen map and sort.Slice make of the turns the listing of the set of
\* their backends in its order.
LEMMA PortBackendsInOrder ==
    ASSUME NEW port, NEW slices \in Seq(SliceSpace)
    PROVE  PortBackends(port, slices) = InOrder(Backends(port, slices))
<1> DEFINE U == Unseen(port, slices)
           S == Backends(port, slices)
           f == [t \in U |-> Backend(slices, t)]
<1>1. S \in SUBSET BackendType /\ IsFiniteSet(S)
  BY FoundTypes
<1>2. /\ \A b \in S : \E t \in U : Backend(slices, t) = b
      /\ \A t \in U : Backend(slices, t) \in S
      /\ \A t, u \in U : Backend(slices, t) = Backend(slices, u) => t = u
  BY UnseenTurns
<1>3. IsFiniteSet(U)
  <2>1. U \in SUBSET Found(port, slices)
    BY DEF Unseen
  <2> QED BY <2>1, FoundTypes, FS_Subset
<1> HIDE DEF U, S
<1>4. Cardinality(U) = Cardinality(S)
  <2>1. f \in Bijection(U, S)
    BY <1>2 DEF Bijection, Injection, Surjection, IsInjective
  <2>2. ExistsBijection(U, S)
    BY <2>1 DEF ExistsBijection
  <2> QED BY <1>3, <2>2, FS_Bijection
<1>5. ASSUME NEW t \in U PROVE Place(slices, U, t) = Rank(S, Backend(slices, t))
  <2> DEFINE L == {u \in U : \/ Before(Backend(slices, u), Backend(slices, t))
                             \/ Backend(slices, u) = Backend(slices, t) /\ Earlier(u, t)}
             M == {c \in S : Before(c, Backend(slices, t))}
             g == [u \in L |-> Backend(slices, u)]
  <2>1. ~Earlier(t, t)
    <3>1. t \in TurnType
      BY FoundTypes DEF U, Unseen
    <3> QED BY <3>1, EarlierCases DEF TurnType
  <2>2. L = {u \in U : Before(Backend(slices, u), Backend(slices, t))}
    BY <1>2, <2>1
  <2>3. g \in Bijection(L, M)
    <3>1. \A u \in L : u \in U /\ Before(Backend(slices, u), Backend(slices, t))
      BY <2>2
    <3>2. \A c \in M : \E u \in L : Backend(slices, u) = c
      BY <1>2
    <3>3. \A u \in L : Backend(slices, u) \in M
      BY <1>2, <3>1
    <3> HIDE DEF L, M
    <3> QED BY <1>2, <3>1, <3>2, <3>3 DEF Bijection, Injection, Surjection, IsInjective
  <2>4. IsFiniteSet(L)
    BY <1>3, FS_Subset
  <2>5. Cardinality(L) = Cardinality(M)
    <3> HIDE DEF L, M, g
    <3>1. ExistsBijection(L, M)
      BY <2>3 DEF ExistsBijection
    <3> QED BY <2>4, <3>1, FS_Bijection
  <2> QED BY <2>5 DEF Place, Rank
<1>6. ASSUME NEW n \in 1..Cardinality(S)
      PROVE  Backend(slices, CHOOSE t \in U : Place(slices, U, t) = n)
               = CHOOSE b \in S : Rank(S, b) = n
  <2> DEFINE t == CHOOSE t \in U : Place(slices, U, t) = n
             b == CHOOSE b \in S : Rank(S, b) = n
  <2>1. b \in S /\ Rank(S, b) = n
    <3>1. \E c \in S : Rank(S, c) = n
      BY <1>1, Ranks
    <3> QED BY <3>1
  <2> HIDE DEF b
  <2>2. t \in U /\ Place(slices, U, t) = n
    <3>1. \E u \in U : Place(slices, U, u) = n
      BY <1>2, <1>5, <2>1
    <3> QED BY <3>1
  <2> HIDE DEF t
  <2>3. Backend(slices, t) \in S /\ Rank(S, Backend(slices, t)) = Rank(S, b)
    BY <1>2, <1>5, <2>1, <2>2
  <2>4. Backend(slices, t) = b
    BY <1>1, <2>1, <2>3, Ranks
  <2> QED BY <2>4 DEF t, b
<1>7. PortBackends(port, slices) =
        [n \in 1..Cardinality(U) |-> Backend(slices, CHOOSE t \in U : Place(slices, U, t) = n)]
  BY DEF PortBackends, U
<1> QED
  BY <1>4, <1>6, <1>7 DEF InOrder, S

\* The order of a listing, and a slice that is listed twice, do not show in the
\* set of backends, nor in what is made of it.
LEMMA SameElements ==
    ASSUME NEW port, NEW slices \in Seq(SliceSpace), NEW others \in Seq(SliceSpace),
           Elements(slices) \subseteq Elements(others)
    PROVE  Backends(port, slices) \subseteq Backends(port, others)
<1> SUFFICES ASSUME NEW t \in Found(port, slices)
             PROVE  \E u \in Found(port, others) : Backend(others, u) = Backend(slices, t)
  BY Zenon DEF Backends
<1>1. /\ t \in TurnType
      /\ t[1] \in DOMAIN slices
      /\ t[2] \in DOMAIN slices[t[1]].ports
      /\ t[3] \in DOMAIN slices[t[1]].endpoints
      /\ t[4] \in DOMAIN slices[t[1]].endpoints[t[3]].addresses
  BY TurnFields DEF Found
<1>2. PICK i \in DOMAIN others : others[i] = slices[t[1]]
  BY <1>1, Zenon DEF Elements
<1> DEFINE u == <<i, t[2], t[3], t[4]>>
<1>3. u \in TurnType /\ u[1] = i /\ u[2] = t[2] /\ u[3] = t[3] /\ u[4] = t[4]
  <2>1. i \in Nat
    BY Positions
  <2> QED BY <1>1, <2>1 DEF TurnType
<1> HIDE DEF u
<1>4. u \in Turns(others)
  BY <1>1, <1>2, <1>3, TurnFields, Zenon
<1>5. Backend(others, u) = Backend(slices, t)
  BY <1>2, <1>3 DEF Backend
<1>6. u \in Found(port, others)
  BY <1>2, <1>3, <1>4, <1>5 DEF Found
<1> QED
  BY <1>5, <1>6

\* Listings of the same slices give every Service port the same backends.
LEMMA SameDiscovered ==
    ASSUME NEW portList, NEW slices \in Seq(SliceSpace), NEW others \in Seq(SliceSpace),
           Elements(slices) = Elements(others)
    PROVE  Discover(portList, slices) = Discover(portList, others)
<1>1. ASSUME NEW port PROVE PortBackends(port, slices) = PortBackends(port, others)
  <2>1. Backends(port, slices) \subseteq Backends(port, others)
    BY SameElements
  <2>2. Backends(port, others) \subseteq Backends(port, slices)
    BY SameElements
  <2>3. Backends(port, slices) = Backends(port, others)
    BY <2>1, <2>2, Zenon
  <2> QED BY <2>3, PortBackendsInOrder
<1> QED
  BY <1>1 DEF Discover

-----------------------------------------------------------------------------
\* What the endpoint slice controller has made of a Service, and what the last
\* reconcile discovered.
Inv ==
    /\ ports \in PortLists
    /\ listing \in Seq(SliceSpace)
    /\ \A slice \in Elements(listing) : Derived(slice, ports)
    /\ discovered = Discover(ports, listing)

\* A slice that shows up or goes leaves the others.
LEMMA SubSeqElements ==
    ASSUME NEW T, NEW s \in Seq(T), NEW a \in Nat \ {0}, NEW b \in 0..Len(s)
    PROVE  SubSeq(s, a, b) \in Seq(T) /\ Elements(SubSeq(s, a, b)) \subseteq Elements(s)
<1> DEFINE r == SubSeq(s, a, b)
<1>1. /\ r \in Seq(T)
      /\ Len(r) = IF a <= b THEN b - a + 1 ELSE 0
      /\ \A k \in 1..b - a + 1 : r[k] = s[a + k - 1]
  OBVIOUS
<1> HIDE DEF r
<1>2. ASSUME NEW k \in DOMAIN r PROVE r[k] \in Elements(s)
  <2>1. k \in 1..b - a + 1 /\ a + k - 1 \in DOMAIN s
    BY <1>1
  <2> QED BY <1>1, <2>1 DEF Elements
<1> QED
  BY <1>1, <1>2 DEF Elements, r

\* A concatenation holds what its parts hold.
LEMMA ConcatElements ==
    ASSUME NEW T, NEW l \in Seq(T), NEW r \in Seq(T)
    PROVE  l \o r \in Seq(T) /\ Elements(l \o r) \subseteq Elements(l) \cup Elements(r)
<1> DEFINE c == l \o r
<1>1. /\ c \in Seq(T) /\ Len(c) = Len(l) + Len(r)
      /\ \A k \in 1..Len(l) : c[k] = l[k]
      /\ \A k \in Len(l) + 1..Len(l) + Len(r) : c[k] = r[k - Len(l)]
  OBVIOUS
<1> HIDE DEF c
<1>2. ASSUME NEW k \in DOMAIN c PROVE c[k] \in Elements(l) \cup Elements(r)
  <2>1. CASE k \in 1..Len(l)
    BY <1>1, <2>1 DEF Elements
  <2>2. CASE k \in Len(l) + 1..Len(l) + Len(r)
    <3>1. k - Len(l) \in DOMAIN r
      BY <2>2
    <3> QED BY <1>1, <2>2, <3>1 DEF Elements
  <2> QED BY <1>1, <2>1, <2>2
<1> QED
  BY <1>1, <1>2 DEF Elements, c

\* The listing after AddSlice.
LEMMA InsertElements ==
    ASSUME NEW T, NEW s \in Seq(T), NEW i \in 1..Len(s) + 1, NEW e \in T
    PROVE  LET inserted == SubSeq(s, 1, i - 1) \o <<e>> \o SubSeq(s, i, Len(s))
           IN  inserted \in Seq(T) /\ Elements(inserted) \subseteq Elements(s) \cup {e}
<1> DEFINE l == SubSeq(s, 1, i - 1)
           r == SubSeq(s, i, Len(s))
<1>1. /\ 1 \in Nat \ {0} /\ i - 1 \in 0..Len(s)
      /\ i \in Nat \ {0} /\ Len(s) \in 0..Len(s)
  OBVIOUS
<1>2. /\ l \in Seq(T) /\ Elements(l) \subseteq Elements(s)
      /\ r \in Seq(T) /\ Elements(r) \subseteq Elements(s)
  BY <1>1, SubSeqElements
<1>3. <<e>> \in Seq(T) /\ Elements(<<e>>) = {e}
  BY DEF Elements
<1> HIDE DEF l, r
<1>4. l \o <<e>> \in Seq(T) /\ Elements(l \o <<e>>) \subseteq Elements(s) \cup {e}
  BY <1>2, <1>3, ConcatElements, Zenon
<1>5. /\ (l \o <<e>>) \o r \in Seq(T)
      /\ Elements((l \o <<e>>) \o r) \subseteq Elements(l \o <<e>>) \cup Elements(r)
  BY <1>2, <1>4, ConcatElements, Zenon
<1>6. /\ (l \o <<e>>) \o r \in Seq(T)
      /\ Elements((l \o <<e>>) \o r) \subseteq Elements(s) \cup {e}
  BY <1>2, <1>4, <1>5
<1> QED
  BY <1>6 DEF l, r

\* The listing after DropSlice.
LEMMA RemoveElements ==
    ASSUME NEW T, NEW s \in Seq(T), NEW i \in 1..Len(s)
    PROVE  LET removed == SubSeq(s, 1, i - 1) \o SubSeq(s, i + 1, Len(s))
           IN  removed \in Seq(T) /\ Elements(removed) \subseteq Elements(s)
<1> DEFINE l == SubSeq(s, 1, i - 1)
           r == SubSeq(s, i + 1, Len(s))
<1>1. /\ 1 \in Nat \ {0} /\ i - 1 \in 0..Len(s)
      /\ i + 1 \in Nat \ {0} /\ Len(s) \in 0..Len(s)
  OBVIOUS
<1>2. /\ l \in Seq(T) /\ Elements(l) \subseteq Elements(s)
      /\ r \in Seq(T) /\ Elements(r) \subseteq Elements(s)
  BY <1>1, SubSeqElements
<1> HIDE DEF l, r
<1>3. l \o r \in Seq(T) /\ Elements(l \o r) \subseteq Elements(l) \cup Elements(r)
  BY <1>2, ConcatElements
<1>4. l \o r \in Seq(T) /\ Elements(l \o r) \subseteq Elements(s)
  BY <1>2, <1>3
<1> QED
  BY <1>4 DEF l, r

\* The listing holds slices of this Service, and others, throughout.
THEOREM InvHolds == Spec => []Inv
<1>1. Init => Inv
  <2> SUFFICES ASSUME Init PROVE Inv
    OBVIOUS
  <2>1. listing \in Seq(SliceSpace) /\ Elements(listing) = {}
    BY DEF Init, Elements
  <2> QED BY <2>1 DEF Init, Inv
<1>2. Inv /\ [Next]_vars => Inv'
  <2> SUFFICES ASSUME Inv, [Next]_vars PROVE Inv'
    OBVIOUS
  <2>1. ASSUME NEW slices, slices \in Seq(SliceSpace),
               \A slice \in Elements(slices) : Derived(slice, ports), Rediscover(slices)
        PROVE  Inv'
    BY <2>1 DEF Inv, Rediscover
  <2>2. CASE AddSlice
    <3>1. PICK slice \in SliceSpace, i \in 1..Len(listing) + 1 :
             /\ Derived(slice, ports)
             /\ Rediscover(SubSeq(listing, 1, i - 1) \o <<slice>> \o SubSeq(listing, i, Len(listing)))
      BY <2>2 DEF AddSlice
    <3> DEFINE slices == SubSeq(listing, 1, i - 1) \o <<slice>> \o SubSeq(listing, i, Len(listing))
    <3>2. slices \in Seq(SliceSpace) /\ Elements(slices) \subseteq Elements(listing) \cup {slice}
      BY InsertElements DEF Inv
    <3>3. Rediscover(slices)
      BY <3>1
    <3> HIDE DEF slices
    <3> QED BY <2>1, <3>1, <3>2, <3>3 DEF Inv
  <2>3. CASE DropSlice
    <3>1. PICK i \in DOMAIN listing :
             Rediscover(SubSeq(listing, 1, i - 1) \o SubSeq(listing, i + 1, Len(listing)))
      BY <2>3 DEF DropSlice
    <3> DEFINE slices == SubSeq(listing, 1, i - 1) \o SubSeq(listing, i + 1, Len(listing))
    <3>2. i \in 1..Len(listing)
      BY Positions DEF Inv
    <3>3. slices \in Seq(SliceSpace) /\ Elements(slices) \subseteq Elements(listing)
      BY <3>2, RemoveElements DEF Inv
    <3>4. Rediscover(slices)
      BY <3>1
    <3> HIDE DEF slices
    <3> QED BY <2>1, <3>3, <3>4 DEF Inv
  <2>4. CASE UNCHANGED vars
    BY <2>4 DEF vars, Inv
  <2> QED BY <2>2, <2>3, <2>4 DEF Next
<1> QED
  BY <1>1, <1>2, PTL DEF Spec

\* Whatever order the cache lists the slices in, the same is discovered
\* (discovery.go, the map seen and sort.Slice), for any number of slices, ports
\* and endpoints: no resync makes the provider render anything else.
THEOREM OrderNeverShows == Spec => []OrderIsImmaterial
<1>1. Inv => OrderIsImmaterial
  <2> SUFFICES ASSUME Inv, NEW slices \in Surjection(DOMAIN listing, Elements(listing))
               PROVE  Discover(ports, slices) = discovered
    BY DEF OrderIsImmaterial
  <2>1. DOMAIN listing = 1..Len(listing) /\ Len(listing) \in Nat
    BY Positions DEF Inv
  <2>2. Elements(listing) \subseteq SliceSpace
    BY Positions DEF Inv, Elements
  <2>3. /\ slices \in [1..Len(listing) -> Elements(listing)]
        /\ \A slice \in Elements(listing) : \E i \in 1..Len(listing) : slices[i] = slice
    BY <2>1 DEF Surjection
  <2>4. slices \in Seq(SliceSpace)
    BY <2>1, <2>2, <2>3
  <2>5. Elements(slices) = Elements(listing)
    <3> DEFINE S == Elements(listing)
    <3>1. slices \in [1..Len(listing) -> S] /\ \A x \in S : \E i \in 1..Len(listing) : slices[i] = x
      BY <2>3
    <3> HIDE DEF S
    <3>2. Elements(slices) = S
      BY <3>1 DEF Elements
    <3> QED BY <3>2 DEF S
  <2> QED BY <2>4, <2>5, SameDiscovered DEF Inv
<1> QED
  BY <1>1, InvHolds, PTL

-----------------------------------------------------------------------------
\* The endpoint ports that Discover accepts for a Service port have, between
\* them, the numbers of the ones that Kubernetes means.
LEMMA MatchedPorts ==
    ASSUME Inv, PlainlyNamed, NEW i \in DOMAIN ports, NEW slice \in Elements(listing), slice.belongs
    PROVE  /\ \A q \in Elements(slice.ports) :
                 /\ q.port > 0
                 /\ q.name = ports[i].name
                 /\ NormalizeProtocol(q.protocol) = NormalizeProtocol(ports[i].protocol)
                 => EndpointSlicePortMatchesServicePort(ports[i], q)
           /\ \A q \in Elements(slice.ports) :
                 EndpointSlicePortMatchesServicePort(ports[i], q) =>
                     \E p \in Elements(slice.ports) :
                         /\ p.port > 0 /\ p.port = q.port
                         /\ p.name = ports[i].name
                         /\ NormalizeProtocol(p.protocol) = NormalizeProtocol(ports[i].protocol)
<1>1. \A j \in DOMAIN ports : ports[j].name = ports[i].name => j = i
  BY PortListsAssumption DEF Inv
<1>2. Derived(slice, ports)
  BY DEF Inv
<1>3. ASSUME NEW q \in Elements(slice.ports), q.name = ports[i].name
      PROVE  /\ NormalizeProtocol(q.protocol) = NormalizeProtocol(ports[i].protocol)
             /\ ports[i].targetName = "" => q.port = TargetPortNumber(ports[i])
  BY <1>1, <1>2, <1>3, Zenon DEF Derived
<1>4. ASSUME NEW q \in Elements(slice.ports), q.port > 0, q.name = ports[i].name
      PROVE  EndpointSlicePortMatchesServicePort(ports[i], q)
  BY <1>3, <1>4, Zenon DEF EndpointSlicePortMatchesServicePort, PlainlyNamed
<1>5. ASSUME NEW q \in Elements(slice.ports), EndpointSlicePortMatchesServicePort(ports[i], q)
      PROVE  \E p \in Elements(slice.ports) :
                 /\ p.port > 0 /\ p.port = q.port
                 /\ p.name = ports[i].name
                 /\ NormalizeProtocol(p.protocol) = NormalizeProtocol(ports[i].protocol)
  <2>1. q.port > 0 /\ NormalizeProtocol(ports[i].protocol) = NormalizeProtocol(q.protocol)
    BY <1>5, Zenon DEF EndpointSlicePortMatchesServicePort
  <2>2. CASE q.name = ports[i].name
    BY <2>1, <2>2
  <2>3. CASE ports[i].targetName # "" /\ q.name = ports[i].targetName
    <3>1. PICK j \in DOMAIN ports : q.name = ports[j].name
      BY <1>2, Zenon DEF Derived
    <3>2. j = i
      BY <2>3, <3>1, Zenon DEF PlainlyNamed
    <3> QED BY <2>1, <3>1, <3>2
  <2>4. CASE ports[i].targetName = "" /\ q.port = TargetPortNumber(ports[i])
    <3>1. PICK p \in Elements(slice.ports) : p.name = ports[i].name
      BY <1>2, <2>4, Zenon DEF Derived
    <3> QED BY <1>3, <2>1, <2>4, <3>1, Zenon
  <2> QED BY <1>5, <2>2, <2>3, <2>4, Zenon DEF EndpointSlicePortMatchesServicePort
<1> QED
  BY <1>4, <1>5

\* The members of the reference.
LEMMA ReadyMember ==
    ASSUME NEW port, NEW b
    PROVE  b \in ReadyBackends(port) <=>
              \E slice \in Elements(listing) :
                  /\ slice.belongs
                  /\ \E q \in Elements(slice.ports), e \in Elements(slice.endpoints) :
                        /\ q.port > 0 /\ q.name = port.name
                        /\ NormalizeProtocol(q.protocol) = NormalizeProtocol(port.protocol)
                        /\ EndpointReady(e)
                        /\ \E a \in Elements(e.addresses) :
                              a # 0 /\ b = [address |-> a, port |-> q.port]
<1> DEFINE own == {slice \in Elements(listing) : slice.belongs}
           named(slice) == {q \in Elements(slice.ports) :
                              /\ q.port > 0
                              /\ q.name = port.name
                              /\ NormalizeProtocol(q.protocol) = NormalizeProtocol(port.protocol)}
           ready(slice) == {e \in Elements(slice.endpoints) : EndpointReady(e)}
           addresses(slice) == (UNION {Elements(e.addresses) : e \in ready(slice)}) \ {0}
           of(slice) == {[address |-> a, port |-> q.port] : a \in addresses(slice), q \in named(slice)}
<1>1. ReadyBackends(port) = UNION {of(slice) : slice \in own}
  BY DEF ReadyBackends
<1>2. ASSUME NEW slice, NEW a
      PROVE  a \in addresses(slice) <=>
                \E e \in Elements(slice.endpoints) :
                    EndpointReady(e) /\ a \in Elements(e.addresses) /\ a # 0
  <2>1. \A e : e \in ready(slice) <=> e \in Elements(slice.endpoints) /\ EndpointReady(e)
    BY DEF EndpointReady
  <2> HIDE DEF ready
  <2> DEFINE R == ready(slice)
  <2>2. addresses(slice) = (UNION {Elements(e.addresses) : e \in R}) \ {0}
    OBVIOUS
  <2> HIDE DEF R, addresses
  <2>3. a \in UNION {Elements(e.addresses) : e \in R} <=> \E e \in R : a \in Elements(e.addresses)
    OBVIOUS
  <2>4. a \in addresses(slice) <=> a # 0 /\ \E e \in R : a \in Elements(e.addresses)
    BY <2>2, <2>3
  <2> QED BY <2>1, <2>4 DEF R
<1>3. ASSUME NEW slice
      PROVE  b \in of(slice) <=> \E a \in addresses(slice), q \in named(slice) :
                                    b = [address |-> a, port |-> q.port]
  <2> HIDE DEF addresses, named
  <2> QED OBVIOUS
<1> HIDE DEF of
<1>4. b \in ReadyBackends(port) <=> \E slice \in own : b \in of(slice)
  BY <1>1
<1> HIDE DEF addresses
<1> QED
  BY <1>2, <1>3, <1>4, SMTT(20)

\* So the loops find what Kubernetes means, over all slices.
LEMMA FindsTheReady ==
    ASSUME Inv, PlainlyNamed, NEW i \in DOMAIN ports
    PROVE  Backends(ports[i], listing) = ReadyBackends(ports[i])
<1> USE DEF Inv
<1>1. ASSUME NEW t \in Found(ports[i], listing)
      PROVE  Backend(listing, t) \in ReadyBackends(ports[i])
  <2> DEFINE slice == listing[t[1]]
             endpoint == slice.endpoints[t[3]]
             address == endpoint.addresses[t[4]]
  <2>1. /\ t[1] \in DOMAIN listing
        /\ t[2] \in DOMAIN slice.ports
        /\ t[3] \in DOMAIN slice.endpoints
        /\ t[4] \in DOMAIN endpoint.addresses
    BY TurnFields, Zenon DEF Found
  <2>2. /\ slice.belongs
        /\ EndpointSlicePortMatchesServicePort(ports[i], slice.ports[t[2]])
        /\ EndpointReady(endpoint)
        /\ address > 0
    BY DEF Found, Backend, EndpointSliceBelongsToService
  <2>3. slice \in Elements(listing) /\ slice.ports[t[2]] \in Elements(slice.ports)
    BY <2>1, Zenon DEF Elements
  <2>4. endpoint \in Elements(slice.endpoints) /\ address \in Elements(endpoint.addresses)
    BY <2>1 DEF Elements
  <2>5. PICK p \in Elements(slice.ports) :
            /\ p.port > 0 /\ p.port = slice.ports[t[2]].port
            /\ p.name = ports[i].name
            /\ NormalizeProtocol(p.protocol) = NormalizeProtocol(ports[i].protocol)
    <3> DEFINE own == slice
               q == slice.ports[t[2]]
    <3>1. /\ own \in Elements(listing) /\ own.belongs /\ q \in Elements(own.ports)
          /\ EndpointSlicePortMatchesServicePort(ports[i], q)
      BY <2>2, <2>3
    <3> HIDE DEF own, q, Inv
    <3>2. \E p \in Elements(own.ports) :
              /\ p.port > 0 /\ p.port = q.port
              /\ p.name = ports[i].name
              /\ NormalizeProtocol(p.protocol) = NormalizeProtocol(ports[i].protocol)
      BY <3>1, MatchedPorts
    <3> QED BY <3>2, Zenon DEF own, q
  <2>6. Backend(listing, t) = [address |-> address, port |-> p.port]
    BY <2>5, Zenon DEF Backend
  <2>7. address # 0
    BY <2>2
  <2> HIDE DEF slice, endpoint, address
  <2> QED BY <2>2, <2>3, <2>4, <2>5, <2>6, <2>7, ReadyMember, Zenon
<1>2. ASSUME NEW slice \in Elements(listing), slice.belongs,
             NEW q \in Elements(slice.ports), q.port > 0, q.name = ports[i].name,
             NormalizeProtocol(q.protocol) = NormalizeProtocol(ports[i].protocol),
             NEW e \in Elements(slice.endpoints), EndpointReady(e),
             NEW a \in Elements(e.addresses), a # 0
      PROVE  [address |-> a, port |-> q.port] \in Backends(ports[i], listing)
  <2>1. PICK k \in DOMAIN listing : slice = listing[k]
    BY DEF Elements
  <2>2. PICK x \in DOMAIN slice.ports : q = slice.ports[x]
    BY DEF Elements
  <2>3. PICK y \in DOMAIN slice.endpoints : e = slice.endpoints[y]
    BY DEF Elements
  <2>4. PICK z \in DOMAIN e.addresses : a = e.addresses[z]
    BY DEF Elements
  <2>5. e.addresses \in Seq(Nat) /\ slice.ports \in Seq(EndpointPortType)
        /\ slice.endpoints \in Seq(EndpointType)
    BY <2>1, <2>3, SliceFields
  <2>6. k \in Nat /\ x \in Nat /\ y \in Nat /\ z \in Nat /\ a \in Nat
    BY <2>4, <2>5, Positions, Zenon
  <2> DEFINE t == <<k, x, y, z>>
  <2>7. t \in TurnType /\ t[1] = k /\ t[2] = x /\ t[3] = y /\ t[4] = z
    BY <2>6 DEF TurnType
  <2> HIDE DEF t
  <2>8. t \in Turns(listing)
    BY <2>1, <2>2, <2>3, <2>4, <2>7, TurnFields, Zenon
  <2>9. Backend(listing, t) = [address |-> a, port |-> q.port]
    BY <2>1, <2>2, <2>3, <2>4, <2>7, Zenon DEF Backend
  <2>10. EndpointSlicePortMatchesServicePort(ports[i], q)
    BY <1>2, MatchedPorts
  <2>11. a > 0
    BY <1>2, <2>6, SMTT(20)
  <2>12. t \in Found(ports[i], listing)
    BY <1>2, <2>1, <2>2, <2>3, <2>7, <2>8, <2>9, <2>10, <2>11, SMTT(20)
       DEF Found, EndpointSliceBelongsToService
  <2> QED BY <2>9, <2>12 DEF Backends
<1>3. ASSUME NEW b \in ReadyBackends(ports[i]) PROVE b \in Backends(ports[i], listing)
  <2>1. PICK slice \in Elements(listing) :
            /\ slice.belongs
            /\ \E q \in Elements(slice.ports), e \in Elements(slice.endpoints) :
                  /\ q.port > 0 /\ q.name = ports[i].name
                  /\ NormalizeProtocol(q.protocol) = NormalizeProtocol(ports[i].protocol)
                  /\ EndpointReady(e)
                  /\ \E a \in Elements(e.addresses) :
                        a # 0 /\ b = [address |-> a, port |-> q.port]
    BY ReadyMember, SMTT(20)
  <2> QED BY <1>2, <2>1
<1> QED
  BY <1>1, <1>3 DEF Backends

\* For any ports and any slices that the endpoint slice controller makes of
\* them, the ports of a Service get exactly the backends that Kubernetes means,
\* each once (Discover, endpointSlicePortMatchesServicePort), unless a target
\* name is at odds with the port names.
THEOREM ReadyIsDiscovered == Spec => []DiscoversTheReady
<1>1. Inv => DiscoversTheReady
  <2> SUFFICES ASSUME Inv, PlainlyNamed, NEW i \in DOMAIN ports
               PROVE  /\ Elements(discovered[i].backends) = ReadyBackends(ports[i])
                      /\ Len(discovered[i].backends) = Cardinality(Elements(discovered[i].backends))
    BY DEF DiscoversTheReady
  <2>1. discovered[i].backends = PortBackends(ports[i], listing)
    BY DEF Inv, Discover, ServicePort
  <2>2. discovered[i].backends = InOrder(ReadyBackends(ports[i]))
    BY <2>1, PortBackendsInOrder, FindsTheReady DEF Inv
  <2>3. ReadyBackends(ports[i]) \in SUBSET BackendType /\ IsFiniteSet(ReadyBackends(ports[i]))
    BY FoundTypes, FindsTheReady DEF Inv
  <2> QED BY <2>2, <2>3, InOrderElements
<1> QED
  BY <1>1, InvHolds, PTL
=============================================================================
