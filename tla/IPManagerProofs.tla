--------------------------- MODULE IPManagerProofs ---------------------------
(***************************************************************************)
(* Proofs about IPManager: its calls are atomic, for any set of addresses, *)
(* any settings, and whatever the host does meanwhile.                     *)
(***************************************************************************)
EXTENDS IPManager, TLAPS

\* TypeOK with where a call can stand: only an IPv4 address gets past the first
\* step, and only a failed operation is remembered as having taken place.
Inv ==
    /\ TypeOK
    /\ pc \in {"operate", "again"} => call.ip \in IP
    /\ took => pc = "again"

\* The accepted prefix lengths are prefix lengths (normalizeConfig).
LEMMA Suffixes == \A c \in Managers : c.suffix \in 1..32
  BY DEF Managers, Accepted

\* A call that does not hold yet changes the list by its own address alone
\* (AddIPv4Addr and DeleteIPv4Addr with the managed prefix length).
LEMMA OperatedList ==
    ASSUME TypeOK, call \in Call, call.ip \in IP, ~Holds,
           interface' = Operated, config' = config
    PROVE  List' = IF call.kind = "present" THEN List \cup {call.ip} ELSE List \ {call.ip}
  <1>1. CASE call.kind = "present"
    <2>1. List' \subseteq List \cup {call.ip}
      BY <1>1 DEF Operated, Entry, List
    <2>2. <<call.ip, config.suffix>> \in {x \in interface' : x[2] = config'.suffix}
      BY <1>1 DEF Operated, Entry
    <2>3. List \cup {call.ip} \subseteq List'
      BY <1>1, <2>2 DEF Operated, List
    <2> QED BY <1>1, <2>1, <2>3
  <1>2. CASE call.kind # "present"
    <2>1. List' \subseteq List \ {call.ip}
      BY <1>2 DEF Operated, Entry, List, TypeOK
    <2>2. List \ {call.ip} \subseteq List'
      BY <1>2 DEF Operated, Entry, List, TypeOK
    <2> QED BY <1>2, <2>1, <2>2
  <1> QED BY <1>1, <1>2

\* The host's change of one entry changes the list by one address or not at
\* all, according to the prefix length (List).
LEMMA HostList ==
    ASSUME TypeOK, NEW e \in IP \X {c.suffix : c \in Managers}, config' = config,
           interface' \in {interface \cup {e}, interface \ {e}}
    PROVE  \/ List' = List
           \/ e[1] \in IP \ List /\ List' = List \cup {e[1]}
           \/ e[1] \in IP \cap List /\ List' = List \ {e[1]}
  <1>1. e[1] \in IP /\ e = <<e[1], e[2]>>
    OBVIOUS
  <1>2. CASE e[2] # config.suffix
    BY <1>2 DEF List
  <1>3. CASE e[2] = config.suffix /\ interface' = interface \cup {e}
    BY <1>1, <1>3 DEF List
  <1>4. CASE e[2] = config.suffix /\ interface' = interface \ {e}
    <2>1. List' \subseteq List \ {e[1]}
      BY <1>1, <1>4 DEF List, TypeOK
    <2>2. List \ {e[1]} \subseteq List'
      BY <1>1, <1>4 DEF List, TypeOK
    <2> QED BY <1>1, <2>1, <2>2
  <1> QED BY <1>2, <1>3, <1>4

\* Inv is an invariant of the manager (ListFirst, Operate and the second List
\* leave a call where Inv says).
THEOREM InvHolds == Spec => []Inv
  <1>1. Init => Inv
    BY Suffixes DEF Init, Inv, TypeOK
  <1>2. Inv /\ [Next]_vars => Inv'
    <2> SUFFICES ASSUME Inv, [Next]_vars PROVE Inv'
      OBVIOUS
    <2> USE DEF Inv, TypeOK
    <2>1. CASE Begin
      BY <2>1, NoCallAssumption DEF Begin, Call
    <2>2. CASE ListFirst
      BY <2>2 DEF ListFirst, Finish, Call
    <2>3. CASE Operate
      <3>1. config.suffix \in 1..32
        BY Suffixes
      <3>2. call \in Call /\ call.ip \in IP
        BY <2>3 DEF Operate
      <3>3. interface' \subseteq IP \X (1..32)
        BY <2>3, <3>1, <3>2 DEF Operate, Operated, Entry
      <3>4. ~took /\ config' = config /\ call' = call /\ pc' \in {"again", "return"}
        BY <2>3 DEF Operate, Finish
      <3>5. reply' \in {"changed", "unchanged", "error"} /\ took' \in BOOLEAN
        BY <2>3 DEF Operate, Finish
      <3>6. took' => pc' = "again"
        BY <2>3, <3>4 DEF Operate
      <3>7. call' # NoCall
        BY <2>3, <3>4 DEF Operate
      <3> QED BY <3>2, <3>3, <3>4, <3>5, <3>6, <3>7
    <2>4. CASE StateAfterOperation
      BY <2>4 DEF StateAfterOperation, Finish
    <2>5. CASE Return
      BY <2>5 DEF Return
    <2>6. CASE Host
      BY <2>6, Suffixes DEF Host
    <2>7. CASE UNCHANGED vars
      BY <2>7 DEF vars
    <2> QED BY <2>1, <2>2, <2>3, <2>4, <2>5, <2>6, <2>7 DEF Next, Manager
  <1> QED BY <1>1, <1>2, PTL DEF Spec

\* Type correctness of a manager: a failed or interrupted call leaves a call
\* record, and the kernel's table never holds anything but addresses.
THEOREM TypeCorrect == Spec => []TypeOK
  <1>1. Inv => TypeOK
    BY DEF Inv
  <1> QED
    BY <1>1, InvHolds, PTL

\* Every call of a manager is one atomic action of IPAttach (EnsurePresent,
\* EnsureAbsent and the state check after a failed operation, in both modes).
THEOREM AtomicCalls == Spec => CallsAreAtomic
  <1>1. Init => Atomic!AtomicInit
    <2> SUFFICES ASSUME Init PROVE Atomic!AtomicInit
      OBVIOUS
    <2>1. List \subseteq IP
      BY DEF Init, List
    <2>2. Replies = {}
      BY DEF Init, Replies
    <2> QED BY <2>1, <2>2 DEF Init, Atomic!AtomicInit
  <1>2. Inv /\ [Next]_vars => [Atomic!AtomicNext]_(Atomic!atomicVars)
    <2> SUFFICES ASSUME Inv, [Next]_vars
                 PROVE  Atomic!AtomicNext \/ UNCHANGED Atomic!atomicVars
      OBVIOUS
    <2> USE DEF Inv, TypeOK
    <2>1. CASE Begin
      <3>1. List' = List
        BY <2>1 DEF Begin, List
      <3>2. Replies = {} /\ Replies' = {}
        BY <2>1 DEF Begin, Replies
      <3> QED BY <2>1, <3>1, <3>2 DEF Begin, Call, Atomic!AtomicNext, Atomic!Ask, Atomic!Call
    <2>2. CASE ListFirst
      <3>1. List' = List
        BY <2>2 DEF ListFirst, List
      <3>2. call # NoCall /\ call \in Call /\ call' = call
        BY <2>2 DEF ListFirst
      <3>3. Replies = {}
        BY <2>2 DEF ListFirst, Replies
      <3>4. CASE Finish("error")
        <4>1. Replies' = {"error"}
          BY <3>4 DEF Finish, Replies
        <4>2. Atomic!Takes("error")
          BY <3>1, <3>2 DEF Atomic!Takes, Atomic!EnsurePresentFails, Atomic!EnsureAbsentFails, Call
        <4>3. Replies' \in (SUBSET Atomic!Replies) \ {{}}
          BY <4>1 DEF Atomic!Replies
        <4>4. \A r \in Replies' : Atomic!Takes(r)
          BY <4>1, <4>2
        <4> QED BY <3>2, <3>3, <4>3, <4>4 DEF Atomic!AtomicNext, Atomic!Perform
      <3>5. CASE Holds /\ Finish("unchanged")
        <4>1. Replies' = {"unchanged"}
          BY <3>5 DEF Finish, Replies
        <4>2. Atomic!Takes("unchanged")
          BY <3>1, <3>2, <3>5 DEF Atomic!Takes, Atomic!EnsurePresent, Atomic!EnsureAbsent, Call, Holds
        <4>3. Replies' \in (SUBSET Atomic!Replies) \ {{}}
          BY <4>1 DEF Atomic!Replies
        <4>4. \A r \in Replies' : Atomic!Takes(r)
          BY <4>1, <4>2
        <4> QED BY <3>2, <3>3, <4>3, <4>4 DEF Atomic!AtomicNext, Atomic!Perform
      <3>6. CASE pc' = "operate" /\ UNCHANGED reply
        <4>1. Replies' = {}
          BY <3>6 DEF Replies
        <4> QED BY <3>1, <3>2, <3>3, <4>1 DEF Atomic!atomicVars
      <3> QED BY <2>2, <3>4, <3>5, <3>6 DEF ListFirst
    <2>3. CASE Operate
      <3>1. call # NoCall /\ call \in Call /\ call' = call /\ call.ip \in IP /\ config' = config
        BY <2>3 DEF Operate
      <3>2. Replies = {} /\ took = FALSE
        BY <2>3 DEF Operate, Replies
      <3>3. CASE /\ ~Holds
                 /\ interface' = Operated
                 /\ Finish("changed") \/ (pc' = "again" /\ took' = TRUE)
        <4>1. List' = IF call.kind = "present" THEN List \cup {call.ip} ELSE List \ {call.ip}
          BY <3>1, <3>3, OperatedList
        <4>2. call.kind = "present" => call.ip \notin List
          BY <3>3 DEF Holds
        <4>3. \A r \in Atomic!Replies : Atomic!Takes(r)
          BY <3>1, <4>1, <4>2 DEF Atomic!Replies, Atomic!Takes, Atomic!EnsurePresent,
             Atomic!EnsurePresentFails, Atomic!EnsureAbsent, Atomic!EnsureAbsentFails, Call
        <4>4. Replies' \in (SUBSET Atomic!Replies) \ {{}}
          BY <3>3 DEF Finish, Replies, Atomic!Replies
        <4> QED BY <3>1, <3>2, <4>3, <4>4 DEF Atomic!AtomicNext, Atomic!Perform
      <3>4. CASE pc' = "again" /\ UNCHANGED <<interface, reply, took>>
        <4>1. Replies' = {} /\ List' = List
          BY <3>1, <3>2, <3>4 DEF Replies, List
        <4> QED BY <3>1, <3>2, <4>1 DEF Atomic!atomicVars
      <3> QED BY <2>3, <3>3, <3>4 DEF Operate
    <2>4. CASE StateAfterOperation
      <3>1. call # NoCall /\ call \in Call /\ call' = call /\ List' = List
        BY <2>4 DEF StateAfterOperation, List
      <3>2. Replies' = {reply'} /\ (reply' = "error" \/ (Holds /\ reply' = "unchanged"))
        <4>1. pc' = "return" /\ (reply' = "error" \/ (Holds /\ reply' = "unchanged"))
          BY <2>4 DEF StateAfterOperation, Finish, Holds
        <4> QED BY <4>1 DEF Replies
      <3>3. CASE took
        <4>1. Replies = {"unchanged", "error"}
          BY <2>4, <3>3 DEF StateAfterOperation, Replies
        <4> QED BY <3>1, <3>2, <4>1 DEF Atomic!AtomicNext, Atomic!Settle
      <3>4. CASE ~took
        <4>1. Replies = {}
          BY <2>4, <3>4 DEF StateAfterOperation, Replies
        <4>2. Atomic!Takes(reply')
          BY <3>1, <3>2 DEF Atomic!Takes, Atomic!EnsurePresent, Atomic!EnsurePresentFails,
             Atomic!EnsureAbsent, Atomic!EnsureAbsentFails, Call, Holds
        <4>3. Replies' \in (SUBSET Atomic!Replies) \ {{}}
          BY <3>2 DEF Atomic!Replies
        <4>4. \A r \in Replies' : Atomic!Takes(r)
          BY <3>2, <4>2
        <4> QED BY <3>1, <4>1, <4>3, <4>4 DEF Atomic!AtomicNext, Atomic!Perform
      <3> QED BY <3>3, <3>4
    <2>5. CASE Return
      <3>1. List' = List /\ Replies = {reply} /\ Replies' = {}
        BY <2>5 DEF Return, List, Replies
      <3> QED BY <2>5, <3>1 DEF Return, Atomic!AtomicNext, Atomic!Answer, Atomic!Replies
    <2>6. CASE Host
      <3>1. PICK e \in IP \X {c.suffix : c \in Managers} :
               interface' \in {interface \cup {e}, interface \ {e}}
        BY <2>6 DEF Host
      <3>2. call' = call /\ Replies' = Replies /\ config' = config
        BY <2>6 DEF Host, Replies
      <3>3. \/ List' = List
            \/ e[1] \in IP \ List /\ List' = List \cup {e[1]}
            \/ e[1] \in IP \cap List /\ List' = List \ {e[1]}
        BY <3>1, <3>2, HostList
      <3> QED BY <3>2, <3>3 DEF Atomic!AtomicNext, Atomic!Host, Atomic!HostAdds,
                 Atomic!HostRemoves, Atomic!atomicVars
    <2>7. CASE UNCHANGED vars
      BY <2>7 DEF vars, Atomic!atomicVars, List, Replies
    <2> QED BY <2>1, <2>2, <2>3, <2>4, <2>5, <2>6, <2>7 DEF Next, Manager
  <1> QED BY <1>1, <1>2, InvHolds, PTL DEF Spec, CallsAreAtomic, Atomic!AtomicSpec
=============================================================================
