------------------------------ MODULE Provider ------------------------------
(***************************************************************************)
(* What a provider promises the controller (internal/provider/provider.go) *)
(* about its desired state, whatever it does underneath: calls take effect *)
(* one at a time and all at once; a call that succeeds has taken effect,   *)
(* one that fails may or may not have; no other Service's state changes.   *)
(* The state lives in memory and is lost as a whole.  StrictSpec is the    *)
(* stronger promise that a call that fails has not taken effect.           *)
(***************************************************************************)
EXTENDS ServiceState

VARIABLES
    services, \* the desired state
    call,     \* the call being served
    reply     \* how the last call ended

providerVars == <<services, call, reply>>

Calls == [kind : {"ensure"}, ref : Ref, val : Value]
           \cup [kind : {"delete"}, ref : Ref, val : {None}]
NoCall == [kind |-> "none"]

ProviderInit ==
    /\ services = EmptyConfig
    /\ call = NoCall
    /\ reply = "none"

Accept ==
    /\ call = NoCall
    /\ call' \in Calls
    /\ reply' = "none"
    /\ UNCHANGED services

TakeEffect ==
    /\ call # NoCall
    /\ services' = [services EXCEPT ![call.ref] = call.val]
    /\ UNCHANGED <<call, reply>>

Succeed ==
    /\ call # NoCall
    /\ services[call.ref] = call.val
    /\ call' = NoCall
    /\ reply' = "ok"
    /\ UNCHANGED services

Fail ==
    /\ call # NoCall
    /\ call' = NoCall
    /\ reply' = "error"
    /\ UNCHANGED services

Lose ==
    /\ services' = EmptyConfig
    /\ call' = NoCall
    /\ reply' = "none"

ProviderNext == Accept \/ TakeEffect \/ Succeed \/ Fail \/ Lose

ProviderSpec == ProviderInit /\ [][ProviderNext]_providerVars

-----------------------------------------------------------------------------
\* The state changes only together with the success of the call.
TakeEffectAndSucceed ==
    /\ call # NoCall
    /\ services' = [services EXCEPT ![call.ref] = call.val]
    /\ call' = NoCall
    /\ reply' = "ok"

StrictNext == Accept \/ TakeEffectAndSucceed \/ Fail \/ Lose

StrictSpec == ProviderInit /\ [][StrictNext]_providerVars
=============================================================================
