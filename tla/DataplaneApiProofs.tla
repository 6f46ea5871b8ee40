------------------------- MODULE DataplaneApiProofs -------------------------
(***************************************************************************)
(* Proofs about DataplaneApi, for any Services and payloads and any number *)
(* of requests in flight: a call that succeeds with no older request for   *)
(* its Service on the way is final, and client and server together         *)
(* implement RemoteProvider.                                               *)
(***************************************************************************)
EXTENDS DataplaneApi, TLAPS

\* A PUT has a body, and the call in progress is firm as long as no abandoned
\* request is for its Service; then its answer still tells what the store has.
Bodies == \A id \in Id : request[id] # Free /\ request[id].method = "PUT" => request[id].body \in Body

FirmInv ==
    firm => /\ mine # NoId
            /\ \A id \in Id : Abandoned(id) => request[id].path # request[mine].path
            /\ request[mine].at = "200" => store[request[mine].path] = Val(mine)

\* What is acknowledged has no request left that could change it.
AckedInv ==
    \A r \in Ref : acked[r] # Unknown =>
        /\ store[r] = acked[r]
        /\ \A id \in Id : request[id] # Free => request[id].path # r

Inv == TypeOK /\ Bodies /\ FirmInv /\ AckedInv

-----------------------------------------------------------------------------
\* A request of the table has its fields.
LEMMA RequestFields ==
    ASSUME TypeOK, Bodies, NEW id \in Id, request[id] # Free
    PROVE  /\ request[id] \in Request
           /\ request[id].path \in Ref
           /\ request[id].method \in {"PUT", "DELETE"}
           /\ Val(id) \in Value \cup {None}
           /\ request[id].method = "PUT" => Val(id) \in Value
<1>1. request[id] \in Request
  BY DEF TypeOK
<1>2. request[id].path \in Ref /\ request[id].method \in {"PUT", "DELETE"}
  BY <1>1 DEF Request
<1> QED
  BY <1>1, <1>2 DEF Bodies, Body, Val

\* A request that moves on is otherwise the same,
LEMMA MoveFacts ==
    ASSUME TypeOK, NEW id \in Id, request[id] # Free, NEW place \in Places, Move(id, place)
    PROVE  /\ request' \in [Id -> Request \cup {Free}]
           /\ \A i \in Id : /\ request'[i] = Free <=> request[i] = Free
                            /\ i # id => request'[i] = request[i]
           /\ request'[id].method = request[id].method
           /\ request'[id].path = request[id].path
           /\ request'[id].body = request[id].body
           /\ request'[id].at = place
<1>1. request \in [Id -> Request \cup {Free}] /\ request[id] \in Request
  BY DEF TypeOK
<1> DEFINE new == [request[id] EXCEPT !.at = place]
<1>2. request' = [request EXCEPT ![id] = new]
  BY DEF Move
<1>3. /\ new \in Request
      /\ new.method = request[id].method /\ new.path = request[id].path
      /\ new.body = request[id].body /\ new.at = place
  BY <1>1 DEF Request
<1>4. new # Free
  BY <1>3, FreeAssumption
<1> HIDE DEF new
<1> QED
  BY <1>1, <1>2, <1>3, <1>4

\* one that is over leaves the others alone.
LEMMA DropFacts ==
    ASSUME TypeOK, NEW id \in Id, Drop(id)
    PROVE  /\ request' \in [Id -> Request \cup {Free}]
           /\ request'[id] = Free
           /\ \A i \in Id : i # id => request'[i] = request[i]
BY DEF TypeOK, Drop

\* Neither changes what a request asks for.
LEMMA SameCall ==
    ASSUME NEW i \in Id, request'[i].method = request[i].method,
           request'[i].path = request[i].path, request'[i].body = request[i].body
    PROVE  Val(i)' = Val(i) /\ CallOf(i)' = CallOf(i)
BY DEF Val, CallOf

\* No request has the number that stands for no call in progress.
LEMMA NoIdIsNone == NoId \notin Id
BY DEF NoId, Id

-----------------------------------------------------------------------------
\* The steps of the server that move one request keep the invariant.
LEMMA MoveKeepsInv ==
    ASSUME Inv, NEW id \in Id, request[id] # Free, NEW place \in Places, Move(id, place),
           UNCHANGED <<mine, server, store, result, acked, firm>>,
           place = "engine" => \A other \in Id : ~Inside(other),
           place = "200" => store[request[id].path] = Val(id)
    PROVE  Inv'
<1> USE DEF Inv
<1>1. /\ request' \in [Id -> Request \cup {Free}]
      /\ \A i \in Id : /\ request'[i] = Free <=> request[i] = Free
                       /\ i # id => request'[i] = request[i]
      /\ request'[id].method = request[id].method
      /\ request'[id].path = request[id].path
      /\ request'[id].body = request[id].body
      /\ request'[id].at = place
  BY MoveFacts
<1>2. \A i \in Id : Val(i)' = Val(i) /\ request'[i].path = request[i].path
  <2> SUFFICES ASSUME NEW i \in Id PROVE Val(i)' = Val(i) /\ request'[i].path = request[i].path
    OBVIOUS
  <2>1. /\ request'[i].method = request[i].method /\ request'[i].path = request[i].path
        /\ request'[i].body = request[i].body
    BY <1>1
  <2> QED BY <2>1, SameCall
<1>3. \A i, j \in Id : Inside(i)' /\ Inside(j)' => i = j
  BY <1>1 DEF TypeOK, Inside
<1>4. TypeOK'
  BY <1>1, <1>3, NoIdIsNone DEF TypeOK
<1>5. Bodies'
  BY <1>1 DEF Bodies
<1>6. FirmInv'
  <2> SUFFICES ASSUME firm
               PROVE  /\ mine # NoId
                      /\ \A i \in Id : Abandoned(i)' => request'[i].path # request'[mine].path
                      /\ request'[mine].at = "200" => store[request'[mine].path] = Val(mine)'
    BY DEF FirmInv, Val
  <2>1. mine \in Id /\ FirmInv
    BY DEF FirmInv, TypeOK
  <2>2. \A i \in Id : Abandoned(i)' => Abandoned(i)
    BY <1>1 DEF Abandoned
  <2>3. Val(mine)' = Val(mine) /\ request'[mine].path = request[mine].path
    BY <1>2, <2>1 DEF Val
  <2> QED BY <1>1, <1>2, <2>1, <2>2, <2>3 DEF FirmInv
<1>7. AckedInv'
  BY <1>1, <1>2 DEF AckedInv
<1> QED
  BY <1>4, <1>5, <1>6, <1>7

\* A new call forgets what was acknowledged for its Service.
LEMMA DoRequestKeepsInv ==
    ASSUME Inv, NEW ref \in Ref, NEW method \in {"PUT", "DELETE"}, NEW body \in Body \cup {None},
           method = "PUT" => body \in Body, DoRequest(method, ref, body)
    PROVE  Inv'
<1> USE DEF Inv
<1> DEFINE new == [method |-> method, path |-> ref, body |-> body, at |-> "wire"]
<1>1. PICK id \in Id : /\ request[id] = Free /\ mine' = id
                       /\ request' = [request EXCEPT ![id] = new]
  BY DEF DoRequest
<1>2. /\ new \in Request /\ new.path = ref /\ new.at = "wire" /\ new.method = method /\ new.body = body
  BY DEF Request, Places
<1>3. new # Free
  BY <1>2, FreeAssumption
<1> HIDE DEF new
<1>4. /\ request' \in [Id -> Request \cup {Free}]
      /\ request'[id] = new
      /\ \A i \in Id : i # id => request'[i] = request[i]
  BY <1>1, <1>2 DEF TypeOK
<1>5. /\ mine = NoId /\ result' = "none" /\ acked' = [acked EXCEPT ![ref] = Unknown]
      /\ firm' = \A i \in Id : Abandoned(i) => request[i].path # ref
      /\ server' = server /\ store' = store
  BY DEF DoRequest
<1>6. TypeOK'
  <2>1. acked' \in [Ref -> Value \cup {None, Unknown}] /\ firm' \in BOOLEAN
    BY <1>5 DEF TypeOK
  <2>2. \A i, j \in Id : Inside(i)' /\ Inside(j)' => i = j
    BY <1>2, <1>4 DEF TypeOK, Inside
  <2> QED BY <1>1, <1>3, <1>4, <1>5, <2>1, <2>2 DEF TypeOK
<1>7. Bodies'
  BY <1>2, <1>4 DEF Bodies
<1>8. FirmInv'
  <2> SUFFICES ASSUME firm' PROVE FirmInv'
    BY DEF FirmInv
  <2>1. \A i \in Id : Abandoned(i)' => Abandoned(i) /\ i # id
    BY <1>1, <1>4, <1>5, NoIdIsNone DEF Abandoned
  <2>2. request'[mine'].path = ref /\ request'[mine'].at = "wire" /\ mine' # NoId
    BY <1>1, <1>2, <1>4, NoIdIsNone
  <2> QED BY <1>4, <1>5, <2>1, <2>2 DEF FirmInv, NoId
<1>9. AckedInv'
  BY <1>2, <1>4, <1>5 DEF AckedInv, TypeOK
<1> QED
  BY <1>6, <1>7, <1>8, <1>9

\* The client's call ends with an answer or without.
LEMMA ClientKeepsInv ==
    ASSUME Inv, Client
    PROVE  Inv'
<1> USE DEF Inv
<1>0. mine \in Id /\ request[mine] # Free /\ mine' = NoId /\ firm' = FALSE /\ server' = server /\ store' = store
  BY DEF Client, ReadResponse, GiveUp, Return, TypeOK
<1>1. FirmInv'
  BY <1>0 DEF FirmInv
<1>2. request[mine].path \in Ref /\ Val(mine) \in Value \cup {None}
  BY <1>0, RequestFields
<1>3. CASE ReadResponse
  <2>1. /\ request' \in [Id -> Request \cup {Free}]
        /\ request'[mine] = Free
        /\ \A i \in Id : i # mine => request'[i] = request[i]
    BY <1>0, <1>3, DropFacts DEF ReadResponse
  <2>2. \/ acked' = acked
        \/ /\ acked' = [acked EXCEPT ![request[mine].path] = Val(mine)]
           /\ firm /\ request[mine].at = "200"
    BY <1>3 DEF ReadResponse
  <2>3. acked' \in [Ref -> Value \cup {None, Unknown}] /\ result' \in {"ok", "error"}
    BY <1>2, <1>3, <2>2 DEF TypeOK, ReadResponse, Return
  <2>4. \A i, j \in Id : Inside(i)' /\ Inside(j)' => i = j
    BY <2>1 DEF TypeOK, Inside
  <2>5. TypeOK'
    BY <1>0, <2>1, <2>3, <2>4 DEF TypeOK
  <2>6. Bodies'
    BY <2>1 DEF Bodies
  <2>7. AckedInv'
    <3>1. CASE acked' = acked
      BY <1>0, <2>1, <3>1 DEF AckedInv
    <3>2. CASE /\ acked' = [acked EXCEPT ![request[mine].path] = Val(mine)]
               /\ firm /\ request[mine].at = "200"
      <4>1. store[request[mine].path] = Val(mine)
        BY <3>2 DEF FirmInv
      <4>2. \A i \in Id : request'[i] # Free => /\ request'[i] = request[i] /\ request[i] # Free
                                              /\ request[i].path # request[mine].path
        BY <2>1, <3>2 DEF FirmInv, Abandoned
      <4> QED BY <1>0, <1>2, <3>2, <4>1, <4>2 DEF AckedInv, TypeOK
    <3> QED BY <2>2, <3>1, <3>2
  <2> QED BY <1>1, <2>5, <2>6, <2>7
<1>4. CASE GiveUp
  <2>1. request' = request /\ acked' = acked /\ result' = "error"
    BY <1>4 DEF GiveUp, Return
  <2>2. TypeOK'
    BY <1>0, <2>1 DEF TypeOK, Inside
  <2>3. Bodies' /\ AckedInv'
    BY <1>0, <2>1 DEF Bodies, AckedInv
  <2> QED BY <1>1, <2>2, <2>3
<1> QED
  BY <1>3, <1>4 DEF Client

\* A request whose client has gone disappears.
LEMMA LostKeepsInv ==
    ASSUME Inv, NEW id \in Id, Lost(id)
    PROVE  Inv'
<1> USE DEF Inv
<1>1. /\ request' \in [Id -> Request \cup {Free}]
      /\ request'[id] = Free
      /\ \A i \in Id : i # id => request'[i] = request[i]
      /\ id # mine
  BY DropFacts DEF Lost, Abandoned
<1>2. UNCHANGED <<mine, server, store, result, acked, firm>>
  BY DEF Lost
<1>3. \A i, j \in Id : Inside(i)' /\ Inside(j)' => i = j
  BY <1>1 DEF TypeOK, Inside
<1>4. TypeOK'
  BY <1>1, <1>2, <1>3, NoIdIsNone DEF TypeOK
<1>5. Bodies' /\ AckedInv'
  BY <1>1, <1>2 DEF Bodies, AckedInv
<1>6. FirmInv'
  <2> SUFFICES ASSUME firm PROVE FirmInv'
    BY <1>2 DEF FirmInv
  <2>1. mine \in Id
    BY DEF FirmInv, TypeOK
  <2>2. request'[mine] = request[mine] /\ mine' = mine
    BY <1>1, <1>2, <2>1
  <2>3. \A i \in Id : Abandoned(i)' => Abandoned(i) /\ request'[i] = request[i]
    BY <1>1, <1>2 DEF Abandoned
  <2> QED BY <1>2, <2>2, <2>3 DEF FirmInv, Val
<1> QED
  BY <1>4, <1>5, <1>6

\* The engine replaces the store for one request, and no acknowledgement or
\* firm call is about its Service.
LEMMA TakeEffectKeepsInv ==
    ASSUME Inv, NEW id \in Id, TakeEffect(id)
    PROVE  Inv'
<1> USE DEF Inv
<1>1. /\ request' = request /\ store' = [store EXCEPT ![request[id].path] = Val(id)]
      /\ request[id] # Free /\ request[id].at = "engine"
      /\ UNCHANGED <<mine, server, result, acked, firm>>
  BY DEF TakeEffect, Handler
<1>2. request[id].path \in Ref /\ Val(id) \in Value \cup {None}
  BY <1>1, RequestFields
<1>3. TypeOK'
  BY <1>1, <1>2 DEF TypeOK, Inside, Config
<1>4. Bodies'
  BY <1>1 DEF Bodies
<1>5. AckedInv'
  BY <1>1, <1>2 DEF AckedInv, TypeOK, Config
<1>6. FirmInv'
  <2> SUFFICES ASSUME firm PROVE FirmInv'
    BY <1>1 DEF FirmInv
  <2>1. request[mine].at = "200" => request[id].path # request[mine].path
    BY <1>1 DEF FirmInv, Abandoned
  <2>2. mine \in Id /\ request[mine].path \in Ref
    BY RequestFields DEF FirmInv, TypeOK
  <2> QED BY <1>1, <1>2, <2>1, <2>2 DEF FirmInv, Val, Abandoned, TypeOK, Config
<1> QED
  BY <1>3, <1>4, <1>5, <1>6

\* The dataplane restarts.
LEMMA RestartKeepsInv ==
    ASSUME Inv, Restart
    PROVE  /\ Inv'
           /\ \A i \in Id : /\ request'[i] = Free <=> request[i] = Free
                            /\ request'[i].method = request[i].method
                            /\ request'[i].path = request[i].path
                            /\ request'[i].body = request[i].body
                            /\ request'[i].at = "200" <=> request[i].at = "200"
<1> USE DEF Inv
<1>1. /\ server' = "starting" /\ store' = EmptyConfig /\ acked' = [r \in Ref |-> Unknown]
      /\ firm' = FALSE /\ mine' = mine /\ result' = result
      /\ request' = [i \in Id |->
            IF request[i] # Free /\ request[i].at \in {"mutex", "engine"}
            THEN [request[i] EXCEPT !.at = "broken"] ELSE request[i]]
  BY DEF Restart
<1>2. ASSUME NEW i \in Id
      PROVE  /\ request'[i] \in Request \cup {Free}
             /\ request'[i] = Free <=> request[i] = Free
             /\ request'[i].method = request[i].method
             /\ request'[i].path = request[i].path
             /\ request'[i].body = request[i].body
             /\ request'[i].at = "200" <=> request[i].at = "200"
             /\ ~Inside(i)'
  <2> DEFINE new == [request[i] EXCEPT !.at = "broken"]
  <2>1. CASE request[i] # Free /\ request[i].at \in {"mutex", "engine"}
    <3>1. request'[i] = new /\ request[i] \in Request
      BY <1>1, <2>1 DEF TypeOK
    <3>2. /\ new \in Request /\ new.at = "broken" /\ new.method = request[i].method
          /\ new.path = request[i].path /\ new.body = request[i].body
      BY <3>1 DEF Request, Places, Answered
    <3>3. new # Free
      BY <3>2, FreeAssumption
    <3> HIDE DEF new
    <3> QED BY <2>1, <3>1, <3>2, <3>3 DEF Inside
  <2>2. CASE ~(request[i] # Free /\ request[i].at \in {"mutex", "engine"})
    BY <1>1, <2>2 DEF TypeOK, Inside
  <2> QED BY <2>1, <2>2
<1>3. request' \in [Id -> Request \cup {Free}]
  BY <1>1, <1>2
<1>4. TypeOK'
  BY <1>1, <1>2, <1>3, NoIdIsNone DEF TypeOK, EmptyConfig, Config
<1>5. Bodies' /\ FirmInv' /\ AckedInv'
  BY <1>1, <1>2 DEF Bodies, FirmInv, AckedInv
<1> QED
  BY <1>2, <1>4, <1>5

\* Every step of the network, the client and the server keeps the invariant.
LEMMA NextKeepsInv ==
    ASSUME Inv, [Next]_vars
    PROVE  Inv'
<1>1. ASSUME NEW ref \in Ref, Delete(ref) PROVE Inv'
  BY <1>1, DoRequestKeepsInv DEF Delete
<1>2. ASSUME NEW ref \in Ref, NEW val \in Value, Ensure(ref, val) PROVE Inv'
  <2>1. [ref |-> ref, val |-> val] \in Body
    BY DEF Body
  <2> QED BY <1>2, <2>1, DoRequestKeepsInv DEF Ensure
<1>3. CASE Client
  BY <1>3, ClientKeepsInv
<1>4. CASE Listen
  BY <1>4 DEF Listen, Inv, TypeOK, Inside, Bodies, FirmInv, AckedInv, Abandoned, Val
<1>5. CASE Restart
  BY <1>5, RestartKeepsInv
<1>6. ASSUME NEW id \in Id, Lost(id) PROVE Inv'
  BY <1>6, LostKeepsInv
<1>7. ASSUME NEW id \in Id, TakeEffect(id) PROVE Inv'
  BY <1>7, TakeEffectKeepsInv
<1>8. ASSUME NEW id \in Id, HandleServices(id) PROVE Inv'
  <2>1. PICK place \in {"mutex", "400"} : Move(id, place)
    BY <1>8 DEF HandleServices
  <2>2. place \in Places /\ request[id] # Free
    BY <1>8 DEF Places, Answered, HandleServices, Handler
  <2> QED BY <1>8, <2>1, <2>2, MoveKeepsInv DEF HandleServices, Handler
<1>9. ASSUME NEW id \in Id, Lock(id) PROVE Inv'
  BY <1>9, MoveKeepsInv DEF Lock, Handler, Places
<1>10. ASSUME NEW id \in Id, EngineReturns(id) PROVE Inv'
  BY <1>10, MoveKeepsInv DEF EngineReturns, HandlerSucceeds, HandlerFails, Handler, Places, Answered
<1>11. CASE UNCHANGED vars
  BY <1>11 DEF vars, apiVars, Inv, TypeOK, Inside, Bodies, FirmInv, AckedInv, Abandoned, Val
<1> QED
  BY <1>1, <1>2, <1>3, <1>4, <1>5, <1>6, <1>7, <1>8, <1>9, <1>10, <1>11 DEF Next

-----------------------------------------------------------------------------
\* The invariant holds whatever the network, the client's timeouts and the
\* restarts of the dataplane do.
THEOREM InvHolds == Spec => []Inv
<1>1. Init => Inv
  BY NoIdIsNone DEF Init, Inv, TypeOK, Bodies, FirmInv, AckedInv, Inside, Config, EmptyConfig
<1>2. Inv /\ [Next]_vars => Inv'
  BY NextKeepsInv
<1> QED
  BY <1>1, <1>2, PTL DEF Spec

\* Type correctness of the client, the network and the server: a request of
\* the table keeps its fields however late it is received.
THEOREM TypeCorrect == Spec => []TypeOK
<1>1. Inv => TypeOK
  BY DEF Inv
<1> QED
  BY <1>1, InvHolds, PTL

\* A success of doRequest with no older request for the Service on the way
\* stands until the next call for it, and the engine's mutex admits one
\* handler at a time.
THEOREM CleanSuccess == Spec => []CleanSuccessHolds
<1>1. Inv => CleanSuccessHolds
  BY DEF Inv, AckedInv, CleanSuccessHolds
<1> QED
  BY <1>1, InvHolds, PTL

-----------------------------------------------------------------------------
\* The mapping of the refinement, by name.
Call == IF mine = NoId THEN [kind |-> "none"] ELSE CallOf(mine)
Done == mine # NoId /\ request[mine].at = "200"
Late == {CallOf(id) : id \in {i \in Id : Abandoned(i)}}

\* A request in the table is a call of the abstract provider.
LEMMA CallOfType ==
    ASSUME Inv, NEW id \in Id, request[id] # Free
    PROVE  /\ CallOf(id) \in Remote!Calls
           /\ CallOf(id) # Remote!NoCall
           /\ CallOf(id).ref = request[id].path
           /\ CallOf(id).val = Val(id)
<1>1. /\ request[id].path \in Ref /\ request[id].method \in {"PUT", "DELETE"}
      /\ request[id].method = "PUT" => Val(id) \in Value
      /\ request[id].method = "DELETE" => Val(id) = None
  BY RequestFields DEF Inv, Val
<1>2. CallOf(id).kind \in {"ensure", "delete"} /\ CallOf(id).ref = request[id].path /\ CallOf(id).val = Val(id)
  BY DEF CallOf
<1>3. CallOf(id) # Remote!NoCall
  BY <1>2 DEF Remote!NoCall
<1>4. CallOf(id) \in Remote!Calls
  BY <1>1 DEF CallOf, Remote!Calls, Remote!Value, Value
<1> QED
  BY <1>2, <1>3, <1>4

\* A step that keeps what the requests ask for, and whose they are, keeps the
\* abstract calls; one that drops an abandoned request drops a late call.
LEMMA SameCalls ==
    ASSUME Inv, mine' = mine,
           \A i \in Id : /\ request'[i] # Free => request[i] # Free
                         /\ (request'[i] # Free \/ i = mine) =>
                               /\ request'[i].method = request[i].method
                               /\ request'[i].path = request[i].path
                               /\ request'[i].body = request[i].body
    PROVE  /\ Call' = Call
           /\ Late' \subseteq Late
           /\ (\A i \in Id : request[i] # Free => request'[i] # Free) => Late' = Late
<1>1. \A i \in Id : request'[i] # Free \/ i = mine => CallOf(i)' = CallOf(i)
  BY SameCall
<1>2. \A i \in Id : Abandoned(i)' => Abandoned(i)
  BY DEF Abandoned
<1>3. Call' = Call
  <2>1. CASE mine = NoId
    BY <2>1 DEF Call
  <2>2. CASE mine # NoId
    <3>1. mine \in Id
      BY <2>2 DEF Inv, TypeOK
    <3>2. CallOf(mine)' = CallOf(mine)
      BY <3>1 DEF CallOf, Val
    <3> QED BY <2>2, <3>2 DEF Call
  <2> QED BY <2>1, <2>2
<1>4. Late' \subseteq Late
  BY <1>1, <1>2 DEF Late, Abandoned
<1>5. ASSUME \A i \in Id : request[i] # Free => request'[i] # Free
      PROVE  Late \subseteq Late'
  <2>1. \A i \in Id : Abandoned(i) => Abandoned(i)' /\ CallOf(i)' = CallOf(i)
    BY <1>1, <1>5 DEF Abandoned
  <2> QED BY <2>1 DEF Late
<1> QED
  BY <1>3, <1>4, <1>5

\* A new call is accepted.
LEMMA DoRequestAccepts ==
    ASSUME Inv, Inv', NEW ref \in Ref, NEW method \in {"PUT", "DELETE"}, NEW body,
           DoRequest(method, ref, body)
    PROVE  Remote!Accept
<1>1. PICK id \in Id : /\ request[id] = Free /\ mine' = id
                       /\ request' = [request EXCEPT ![id] =
                              [method |-> method, path |-> ref, body |-> body, at |-> "wire"]]
  BY DEF DoRequest
<1>2. /\ mine = NoId /\ result' = "none" /\ store' = store
  BY DEF DoRequest
<1>3. /\ request'[id].at = "wire"
      /\ \A i \in Id : i # id => request'[i] = request[i]
      /\ request'[id] # Free
  BY <1>1, NoIdIsNone DEF Inv, TypeOK
<1>4. \A i \in Id : /\ Abandoned(i)' <=> Abandoned(i)
                    /\ Abandoned(i) => CallOf(i)' = CallOf(i)
  BY <1>1, <1>2, <1>3, NoIdIsNone DEF Abandoned, CallOf, Val
<1>5. Late' = Late
  BY <1>4 DEF Late
<1>6. CallOf(id)' \in Remote!Calls
  <2>1. request'[id].method = method /\ request'[id].path = ref /\ request'[id].body = body
    BY <1>1 DEF Inv, TypeOK
  <2>2. method = "PUT" => body.val \in Value
    BY <1>3, <2>1 DEF Inv, Bodies, Body
  <2> QED BY <2>1, <2>2 DEF CallOf, Val, Remote!Calls, Remote!Value, Value
<1>7. Call = Remote!NoCall /\ Call' \in Remote!Calls
  BY <1>1, <1>2, <1>6, NoIdIsNone DEF Call, Remote!NoCall, CallOf, Val
<1>8. Done' = FALSE
  BY <1>1, <1>3 DEF Done
<1> QED
  BY <1>2, <1>5, <1>7, <1>8 DEF Remote!Accept, Call, Done, Late

\* The end of a call is a success only after 200, and the call of a client
\* that gives up stays behind.
LEMMA ClientReturns ==
    ASSUME Inv, Client
    PROVE  Remote!Succeed \/ Remote!Fail
<1>1. /\ mine \in Id /\ request[mine] # Free /\ mine # NoId
      /\ mine' = NoId /\ store' = store
  BY NoIdIsNone DEF Client, ReadResponse, GiveUp, Return, Inv, TypeOK
<1>2. Call = CallOf(mine) /\ Call # Remote!NoCall /\ Call' = Remote!NoCall /\ Done' = FALSE
  BY <1>1, CallOfType DEF Call, Done, Remote!NoCall
<1>3. CASE ReadResponse
  <2>1. \A i \in Id : /\ request'[i] = IF i = mine THEN Free ELSE request[i]
    BY <1>1, <1>3, DropFacts DEF ReadResponse, Inv
  <2>2. \A i \in Id : /\ Abandoned(i)' <=> Abandoned(i)
                      /\ Abandoned(i) => CallOf(i)' = CallOf(i)
    BY <1>1, <2>1, NoIdIsNone DEF Abandoned, CallOf, Val
  <2>3. Late' = Late
    BY <2>2 DEF Late
  <2>4. CASE request[mine].at = "200" /\ Return("ok")
    BY <1>1, <1>2, <2>3, <2>4 DEF Return, Done, Remote!Succeed, Call, Late
  <2>5. CASE Return("error")
    BY <1>1, <1>2, <2>3, <2>5 DEF Return, Done, Remote!Fail, Call, Late
  <2> QED BY <1>3, <2>4, <2>5 DEF ReadResponse
<1>4. CASE GiveUp
  <2>1. request' = request /\ result' = "error"
    BY <1>4 DEF GiveUp, Return
  <2>2. \A i \in Id : /\ Abandoned(i)' => Abandoned(i) \/ i = mine
                      /\ CallOf(i)' = CallOf(i)
    BY <1>1, <2>1 DEF Abandoned, CallOf, Val
  <2>3. Late' \subseteq Late \cup {Call}
    BY <1>2, <2>2 DEF Late
  <2> QED BY <1>1, <1>2, <2>1, <2>3 DEF Remote!Fail, Call, Done, Late
<1> QED
  BY <1>3, <1>4 DEF Client

\* A request that moves on in the server leaves the abstract calls alone, and
\* confirms the call in progress when it is that call and moves to 200.
LEMMA MoveMaps ==
    ASSUME Inv, NEW id \in Id, NEW place \in Places, Move(id, place),
           request[id] # Free, request[id].at # "200", UNCHANGED <<mine, store, result>>,
           place = "200" => store[request[id].path] = Val(id)
    PROVE  Remote!Confirm \/ UNCHANGED <<store, Call, Done, Late, result>>
<1>1. /\ \A i \in Id : /\ request'[i] = Free <=> request[i] = Free
                       /\ i # id => request'[i] = request[i]
      /\ request'[id].method = request[id].method
      /\ request'[id].path = request[id].path
      /\ request'[id].body = request[id].body
      /\ request'[id].at = place
  BY MoveFacts DEF Inv
<1>2. Call' = Call /\ Late' = Late
  BY <1>1, SameCalls
<1>3. CASE place = "200" /\ id = mine
  <2>1. mine # NoId /\ Call = CallOf(id) /\ Done' = TRUE
    BY <1>1, <1>3, NoIdIsNone DEF Call, Done
  <2>2. Call # Remote!NoCall /\ store[Call.ref] = Call.val
    BY <1>3, <2>1, CallOfType
  <2> QED BY <1>2, <2>1, <2>2 DEF Remote!Confirm, Call, Done, Late
<1>4. CASE ~(place = "200" /\ id = mine)
  <2>1. Done' = Done
    BY <1>1, <1>4 DEF Done, Inv, TypeOK
  <2> QED BY <1>2, <2>1
<1> QED
  BY <1>3, <1>4

\* The engine works for the call in progress or for a late one.
LEMMA EffectMaps ==
    ASSUME Inv, NEW id \in Id, TakeEffect(id)
    PROVE  Remote!TakeEffect
<1>1. /\ request' = request /\ store' = [store EXCEPT ![request[id].path] = Val(id)]
      /\ request[id] # Free /\ UNCHANGED <<mine, result>>
  BY DEF TakeEffect, Handler
<1>2. UNCHANGED <<Call, Done, Late>>
  BY <1>1 DEF Call, Done, Late, CallOf, Val, Abandoned
<1>3. CallOf(id) \in Late \cup ({Call} \ {Remote!NoCall})
  <2>1. CASE id = mine
    BY <1>1, <2>1, NoIdIsNone, CallOfType DEF Call
  <2>2. CASE id # mine
    BY <1>1, <2>2 DEF Late, Abandoned
  <2> QED BY <2>1, <2>2
<1>4. store' = [store EXCEPT ![CallOf(id).ref] = CallOf(id).val]
  BY <1>1, CallOfType
<1> QED
  BY <1>1, <1>2, <1>3, <1>4 DEF Remote!TakeEffect, Call, Done, Late

\* The client, the network and the server implement RemoteProvider: a success
\* of doRequest means that the dataplane had the state during the call, and
\* only a call the client gave up on works behind its back.
THEOREM ApiRefinesRemote == Spec => ApiImplementsRemote
<1>1. Init => Remote!RemoteInit
  BY DEF Init, Remote!RemoteInit, Remote!NoCall, Remote!EmptyConfig, EmptyConfig, Abandoned
<1>2. Inv /\ Inv' /\ [Next]_vars => [Remote!RemoteNext]_(Remote!remoteVars)
  <2> SUFFICES ASSUME Inv, Inv', [Next]_vars
               PROVE  Remote!RemoteNext \/ UNCHANGED <<store, Call, Done, Late, result>>
    BY DEF Remote!remoteVars, Call, Done, Late
  <2> USE DEF Remote!RemoteNext
  <2>1. ASSUME NEW ref \in Ref, Delete(ref) \/ \E val \in Value : Ensure(ref, val)
        PROVE  Remote!RemoteNext
    BY <2>1, DoRequestAccepts DEF Delete, Ensure
  <2>2. CASE Client
    BY <2>2, ClientReturns
  <2>3. CASE Listen \/ UNCHANGED vars
    BY <2>3 DEF Listen, vars, apiVars, Call, Done, Late, CallOf, Val, Abandoned
  <2>4. ASSUME NEW id \in Id, Lost(id) PROVE Remote!RemoteNext
    <3>1. \A i \in Id : /\ request'[i] # Free => request'[i] = request[i]
                        /\ i = mine => request'[i] = request[i]
      BY <2>4, DropFacts DEF Lost, Abandoned, Inv
    <3>2. UNCHANGED <<mine, store, result>>
      BY <2>4 DEF Lost
    <3>3. Call' = Call /\ Late' \subseteq Late
      BY <3>1, <3>2, SameCalls
    <3>4. Done' = Done
      BY <3>1, <3>2 DEF Done, Inv, TypeOK
    <3> QED BY <3>2, <3>3, <3>4 DEF Remote!Lose, Call, Done, Late
  <2>5. CASE Restart
    <3>1. UNCHANGED <<mine, result>> /\ store' = EmptyConfig
      BY <2>5 DEF Restart
    <3>2. Call' = Call /\ Late' = Late
      BY <2>5, <3>1, RestartKeepsInv, SameCalls
    <3>3. Done' = Done
      BY <2>5, <3>1, RestartKeepsInv DEF Done, Inv, TypeOK
    <3> QED BY <3>1, <3>2, <3>3 DEF Remote!Lose, Remote!EmptyConfig, EmptyConfig, Call, Done, Late
  <2>6. ASSUME NEW id \in Id, TakeEffect(id) PROVE Remote!RemoteNext
    BY <2>6, EffectMaps
  <2>7. ASSUME NEW id \in Id, HandleServices(id) \/ Lock(id) \/ EngineReturns(id)
        PROVE  Remote!RemoteNext \/ UNCHANGED <<store, Call, Done, Late, result>>
    <3>1. /\ request[id] # Free /\ request[id].at # "200" /\ UNCHANGED <<mine, store, result>>
      BY <2>7 DEF HandleServices, Lock, EngineReturns, HandlerSucceeds, HandlerFails, Handler
    <3>2. PICK place \in Places : /\ Move(id, place)
                                  /\ place = "200" => store[request[id].path] = Val(id)
      BY <2>7 DEF HandleServices, Lock, EngineReturns, HandlerSucceeds, HandlerFails, Places, Answered
    <3> QED BY <3>1, <3>2, MoveMaps
  <2> QED
    BY <2>1, <2>2, <2>3, <2>4, <2>5, <2>6, <2>7 DEF Next
<1> QED
  BY <1>1, <1>2, InvHolds, PTL DEF Spec, ApiImplementsRemote, Remote!RemoteSpec
=============================================================================
