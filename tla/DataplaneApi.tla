---------------------------- MODULE DataplaneApi ----------------------------
(***************************************************************************)
(* The HTTP client of the dataplane-api provider                           *)
(* (internal/provider/dataplaneapi/provider.go), the network, and the HTTP *)
(* server of the dataplane (internal/dataplane/http.go, cmd/dataplane).    *)
(*                                                                         *)
(* The controller's single worker makes one call at a time.  A call is one *)
(* request on a connection of its own, so that requests are not ordered.   *)
(* The client gives up when its timeout has passed, its context is done or *)
(* the connection breaks; the request then goes on without it, on the wire *)
(* or inside the server, where waiting for the engine's mutex does not     *)
(* look at the context.  A context that is done makes the engine's         *)
(* commands fail, if they are still to come; nothing relies on that.       *)
(*                                                                         *)
(* The engine is taken as the provider that EngineProofs shows it to be:   *)
(* inside the mutex a request takes effect at once, and fails at any time. *)
(***************************************************************************)
EXTENDS Naturals, ServiceState

CONSTANTS
    MaxInFlight, \* bound: requests that exist at the same time
    Oversized,   \* payloads whose JSON exceeds DefaultMaxRequestBodyBytes
    Free,        \* no request with this number
    Unknown      \* the client cannot know the state of a Service

ASSUME InFlightAssumption == MaxInFlight \in Nat \ {0}
ASSUME OversizedAssumption == Oversized \subseteq Payload
ASSUME UnknownAssumption == Unknown \notin Value \cup {None}

Id == 1..MaxInFlight
NoId == 0

VARIABLES
    mine,    \* the request of the client's call in progress
    request, \* the requests on the wire and in the server
    server,  \* the dataplane process
    store,   \* the engine's store
    result,  \* what the last call returned
    acked,   \* history: what the client's last call for a Service achieved
    firm     \* history: nothing can interfere with the call in progress

apiVars == <<mine, request, server, store, result>>
vars == <<apiVars, acked, firm>>

\* Where a request is: on the wire, waiting for the mutex, inside it, or over,
\* with the status on the wire to the client or the connection broken.
Answered == {"200", "400", "500", "broken"}
Places == {"wire", "mutex", "engine"} \cup Answered
Body == [ref : Ref, val : Value]
Request == [method : {"PUT", "DELETE"}, path : Ref, body : Body \cup {None}, at : Places]
ASSUME FreeAssumption == Free \notin Request

Abandoned(id) == request[id] # Free /\ id # mine
Inside(id) == request[id] # Free /\ request[id].at = "engine"
Val(id) == IF request[id].method = "PUT" THEN request[id].body.val ELSE None

\* Every variable has its type, and one request at most holds the mutex.
TypeOK ==
    /\ mine \in Id \cup {NoId}
    /\ mine # NoId => request[mine] # Free
    /\ request \in [Id -> Request \cup {Free}]
    /\ \A i, j \in Id : Inside(i) /\ Inside(j) => i = j
    /\ server \in {"starting", "serving"}
    /\ store \in Config
    /\ result \in {"none", "ok", "error"}
    /\ acked \in [Ref -> Value \cup {None, Unknown}]
    /\ firm \in BOOLEAN

Init ==
    /\ mine = NoId
    /\ request = [id \in Id |-> Free]
    /\ server = "starting"
    /\ store = EmptyConfig
    /\ result = "none"
    /\ acked = [r \in Ref |-> Unknown]
    /\ firm = FALSE

-----------------------------------------------------------------------------
Move(id, place) == request' = [request EXCEPT ![id].at = place]
Drop(id) == request' = [request EXCEPT ![id] = Free]

\* doRequest sends one request; its number is the lowest that is free.
DoRequest(method, ref, body) ==
    /\ mine = NoId
    /\ \E id \in Id :
          /\ request[id] = Free
          /\ \A lower \in 1..(id - 1) : request[lower] # Free
          /\ mine' = id
          /\ request' = [request EXCEPT ![id] =
                 [method |-> method, path |-> ref, body |-> body, at |-> "wire"]]
    /\ result' = "none"
    /\ acked' = [acked EXCEPT ![ref] = Unknown]
    /\ firm' = \A id \in Id : Abandoned(id) => request[id].path # ref
    /\ UNCHANGED <<server, store>>

Ensure(ref, val) == DoRequest("PUT", ref, [ref |-> ref, val |-> val])
Delete(ref) == DoRequest("DELETE", ref, None)

\* The call returns to the controller.
Return(answer) ==
    /\ mine' = NoId
    /\ result' = answer
    /\ firm' = FALSE
    /\ UNCHANGED <<server, store>>

\* Mutant: the client does not look at the status.
ReadResponse_AnyStatus ==
    /\ mine # NoId
    /\ request[mine].at \in {"200", "400", "500"}
    /\ Return("ok")
    /\ Drop(mine)
    /\ acked' = IF firm THEN [acked EXCEPT ![request[mine].path] = Val(mine)] ELSE acked

\* The response arrives: an error unless the status is 2xx and the body says
\* whether something changed, which the handlers write with every 200.
ReadResponse ==
    /\ mine # NoId
    /\ \/ /\ request[mine].at = "200"
          /\ Return("ok")
          /\ acked' = IF firm THEN [acked EXCEPT ![request[mine].path] = Val(mine)] ELSE acked
       \/ /\ request[mine].at \in Answered \ {"200"}
          /\ Return("error")
          /\ UNCHANGED acked
    /\ Drop(mine)

\* client.Do or the reading of the body fails: the timeout, a context that is
\* done, a connection that is refused or breaks.
GiveUp ==
    /\ mine # NoId
    /\ Return("error")
    /\ UNCHANGED <<request, acked>>

\* A request of a client that has gone does not reach the server, or its
\* response is thrown away.
Lost(id) ==
    /\ Abandoned(id)
    /\ request[id].at \in {"wire"} \cup Answered
    /\ Drop(id)
    /\ UNCHANGED <<mine, server, store, result, acked, firm>>

-----------------------------------------------------------------------------
\* engine.Bootstrap has succeeded: NewHandler, ListenAndServe.
Listen ==
    /\ server = "starting"
    /\ server' = "serving"
    /\ UNCHANGED <<mine, request, store, result, acked, firm>>

\* A handler makes a step; the client and the history are not involved.
Handler(id, place) ==
    /\ server = "serving"
    /\ request[id] # Free
    /\ request[id].at = place
    /\ UNCHANGED <<mine, server, result, acked, firm>>

\* decodeServiceRequest: the body is small enough, and one JSON object.
Decodes(req) == req.body.val.payload \notin Oversized

\* The checks of handleEnsureService: the body names the Service of the path,
\* and describes a Service that validates.
Acceptable(req) ==
    /\ Decodes(req)
    /\ req.body.ref = req.path
    /\ ValidateService(req.body.val)

\* handleServices up to the call of the engine.
HandleServices(id) ==
    /\ Handler(id, "wire")
    /\ \/ request[id].method = "PUT" /\ Acceptable(request[id]) /\ Move(id, "mutex")
       \/ request[id].method = "PUT" /\ ~Acceptable(request[id]) /\ Move(id, "400")
       \/ request[id].method = "DELETE" /\ Move(id, "mutex")
    /\ UNCHANGED store

\* Mutant: Ensure and Delete of the engine do not take the mutex.
Lock_NoMutex(id) ==
    /\ Handler(id, "mutex")
    /\ Move(id, "engine")
    /\ UNCHANGED store

\* The mutex is given to any request that waits for it.
Lock(id) ==
    /\ Handler(id, "mutex")
    /\ \A other \in Id : ~Inside(other)
    /\ Move(id, "engine")
    /\ UNCHANGED store

\* Engine.Ensure or Engine.Delete replaces the store.
TakeEffect(id) ==
    /\ Handler(id, "engine")
    /\ store' = [store EXCEPT ![request[id].path] = Val(id)]
    /\ UNCHANGED request

\* It returns, and the handler writes the response.
HandlerSucceeds(id) ==
    /\ Handler(id, "engine")
    /\ store[request[id].path] = Val(id)
    /\ Move(id, "200")
    /\ UNCHANGED store

\* Mutant: the error of the engine is dropped.
HandlerFails_Dropped(id) ==
    /\ Handler(id, "engine")
    /\ Move(id, "200")
    /\ UNCHANGED store

\* Mutant: the handler of a client that has gone does not come back.
HandlerFails_Waits(id) ==
    /\ Handler(id, "engine")
    /\ id = mine
    /\ Move(id, "500")
    /\ UNCHANGED store

HandlerFails(id) ==
    /\ Handler(id, "engine")
    /\ Move(id, "500")
    /\ UNCHANGED store

\* The process ends, after the graceful shutdown or at once, with all its
\* handlers; what is on the wire in either direction may still arrive.
Restart ==
    /\ server = "serving"
    /\ server' = "starting"
    /\ store' = EmptyConfig
    /\ request' = [id \in Id |->
          IF request[id] # Free /\ request[id].at \in {"mutex", "engine"}
          THEN [request[id] EXCEPT !.at = "broken"] ELSE request[id]]
    /\ acked' = [r \in Ref |-> Unknown]
    /\ firm' = FALSE
    /\ UNCHANGED <<mine, result>>

Client == ReadResponse \/ GiveUp
EngineReturns(id) == HandlerSucceeds(id) \/ HandlerFails(id)

Next ==
    \/ \E ref \in Ref : Delete(ref) \/ \E val \in Value : Ensure(ref, val)
    \/ Client
    \/ Listen \/ Restart
    \/ \E id \in Id : \/ Lost(id) \/ HandleServices(id) \/ Lock(id)
                    \/ TakeEffect(id) \/ EngineReturns(id)

Spec == Init /\ [][Next]_vars

\* A call ends by its timeout at the latest, the server runs, the engine gives
\* the mutex back (MutexIsReleased of module Engine), and a mutex of Go turns
\* to first in, first out when a goroutine has waited for a millisecond.
FairSpec ==
    /\ Spec
    /\ WF_vars(Client)
    /\ WF_vars(Listen)
    /\ \A id \in Id : /\ WF_vars(Lost(id))
                     /\ WF_vars(HandleServices(id))
                     /\ WF_vars(EngineReturns(id))
                     /\ SF_vars(Lock(id))

-----------------------------------------------------------------------------
\* A call that succeeds while no earlier request for the same Service is on
\* its way without a client has settled the matter: the dataplane keeps what
\* the call asked for until the next call for the Service or a restart,
\* whatever happens to the requests for other Services that the client gave
\* up on, and although failed calls may have taken effect (doRequest,
\* handleServices and the engine's mutex).
CleanSuccessHolds == \A r \in Ref : acked[r] # Unknown => store[r] = acked[r]

\* The dataplane-api provider is a RemoteProvider: a success means that the
\* dataplane had the state at some time during the call, an error means
\* nothing, and a call the client gave up on is the only one that takes effect
\* behind its back.
CallOf(id) ==
    [kind |-> IF request[id].method = "PUT" THEN "ensure" ELSE "delete",
     ref |-> request[id].path, val |-> Val(id)]

Remote == INSTANCE RemoteProvider WITH
    services <- store,
    call <- IF mine = NoId THEN [kind |-> "none"] ELSE CallOf(mine),
    done <- mine # NoId /\ request[mine].at = "200",
    late <- {CallOf(id) : id \in {i \in Id : Abandoned(i)}},
    reply <- result

ApiImplementsRemote == Remote!RemoteSpec

\* A request that waits for the mutex leaves it behind, also when its client
\* has gone and new calls keep coming.
WaitersAreServed ==
    \A id \in Id : (request[id] # Free /\ request[id].at = "mutex")
                     ~> (request[id] = Free \/ request[id].at \in Answered)
=============================================================================
