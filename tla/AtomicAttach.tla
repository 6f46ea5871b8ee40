---------------------------- MODULE AtomicAttach ----------------------------
(***************************************************************************)
(* What an IP manager promises its caller: a call happens at one moment    *)
(* between its start and its return, as an action of IPAttach, although    *)
(* the host changes the interface at the same time.                        *)
(***************************************************************************)
EXTENDS IPAttach

CONSTANTS IP, NoCall

VARIABLES
    call,   \* the call in progress
    replies \* how it may return; {} before its moment

atomicVars == <<attached, call, replies>>

Replies == {"changed", "unchanged", "error"}
Call == [kind : {"present", "absent"}, ip : IP]

\* The action of IPAttach that a call with this reply is.
Takes(reply) ==
    CASE call.kind = "present" /\ reply = "changed"   -> EnsurePresent(call.ip, TRUE)
      [] call.kind = "present" /\ reply = "unchanged" -> EnsurePresent(call.ip, FALSE)
      [] call.kind = "present" /\ reply = "error"     -> EnsurePresentFails(call.ip)
      [] call.kind = "absent" /\ reply = "error"      -> EnsureAbsentFails(call.ip)
      [] OTHER                                        -> EnsureAbsent(call.ip)

AtomicInit ==
    /\ attached \subseteq IP
    /\ call = NoCall
    /\ replies = {}

Ask ==
    /\ call = NoCall
    /\ call' \in Call
    /\ UNCHANGED <<attached, replies>>

\* Several replies may fit what happens to the interface.
Perform ==
    /\ call # NoCall
    /\ replies = {}
    /\ replies' \in (SUBSET Replies) \ {{}}
    /\ \A reply \in replies' : Takes(reply)
    /\ UNCHANGED call

\* One of them turns out to be the reply.
Settle ==
    /\ \E reply \in replies : replies' = {reply}
    /\ UNCHANGED <<attached, call>>

Answer ==
    /\ \E reply \in Replies : replies = {reply}
    /\ call' = NoCall
    /\ replies' = {}
    /\ UNCHANGED attached

Host ==
    /\ \E ip \in IP : HostAdds(ip) \/ HostRemoves(ip)
    /\ UNCHANGED <<call, replies>>

AtomicNext == Ask \/ Perform \/ Settle \/ Answer \/ Host

AtomicSpec == AtomicInit /\ [][AtomicNext]_atomicVars
=============================================================================
