--------------------------- MODULE RemoteProvider ---------------------------
(***************************************************************************)
(* What the dataplane API provider promises the controller about the state *)
(* in the dataplane: as Provider, except that a call which has failed may  *)
(* take effect at any later time, as long as its request is on the way,    *)
(* and that the state is lost without notice.                              *)
(***************************************************************************)
EXTENDS ServiceState

VARIABLES
    services, \* the desired state in the dataplane
    call,     \* the call in progress
    done,     \* it has taken effect
    late,     \* failed calls that may still take effect
    reply     \* how the last call ended

remoteVars == <<services, call, done, late, reply>>

Calls == [kind : {"ensure"}, ref : Ref, val : Value]
           \cup [kind : {"delete"}, ref : Ref, val : {None}]
NoCall == [kind |-> "none"]

RemoteInit ==
    /\ services = EmptyConfig
    /\ call = NoCall
    /\ done = FALSE
    /\ late = {}
    /\ reply = "none"

Accept ==
    /\ call = NoCall
    /\ call' \in Calls
    /\ done' = FALSE
    /\ reply' = "none"
    /\ UNCHANGED <<services, late>>

\* The call in progress, or one that failed, changes the state.
TakeEffect ==
    /\ \E c \in late \cup ({call} \ {NoCall}) :
          services' = [services EXCEPT ![c.ref] = c.val]
    /\ late' \subseteq late
    /\ UNCHANGED <<call, done, reply>>

\* The dataplane has what the call asks for, and answers.
Confirm ==
    /\ call # NoCall
    /\ services[call.ref] = call.val
    /\ done' = TRUE
    /\ UNCHANGED <<services, call, late, reply>>

Succeed ==
    /\ call # NoCall
    /\ done
    /\ call' = NoCall
    /\ done' = FALSE
    /\ reply' = "ok"
    /\ UNCHANGED <<services, late>>

\* An error says nothing about the effect, not even that it is over.
Fail ==
    /\ call # NoCall
    /\ call' = NoCall
    /\ done' = FALSE
    /\ late' \subseteq late \cup {call}
    /\ reply' = "error"
    /\ UNCHANGED services

Lose ==
    /\ services' \in {services, EmptyConfig}
    /\ late' \subseteq late
    /\ UNCHANGED <<call, done, reply>>

RemoteNext == Accept \/ TakeEffect \/ Confirm \/ Succeed \/ Fail \/ Lose

RemoteSpec == RemoteInit /\ [][RemoteNext]_remoteVars
=============================================================================
