------------------------------ MODULE IPAttach ------------------------------
(***************************************************************************)
(* The external IP managers of internal/dataplane/ipattach (netlink and    *)
(* exec), as their caller sees them.  Both read the interface, add or      *)
(* delete one address, and after a failed operation read the interface     *)
(* again: the call succeeds, reporting no change, when the wanted state    *)
(* holds anyway.  attached is the set of addresses on the interface that   *)
(* carry the managed prefix length, which is what List returns.            *)
(***************************************************************************)
CONSTANTS HostAddrs \* addresses of that prefix length the host configures

VARIABLES attached

\* EnsurePresent returned (changed, nil): found present at the start, added,
\* or found present after an addition that reported an error.
EnsurePresent(ip, changed) ==
    \/ ip \in attached /\ ~changed /\ UNCHANGED attached
    \/ ip \notin attached /\ attached' = attached \cup {ip}

\* EnsurePresent returned an error: reading or adding failed, and when the
\* last read failed too the address may have been added all the same.
EnsurePresentFails(ip) == attached' \in {attached, attached \cup {ip}}

EnsureAbsent(ip) == attached' = attached \ {ip}

EnsureAbsentFails(ip) == attached' \in {attached, attached \ {ip}}

\* Other software configures the host's own addresses on the interface.
HostAdds(ip) ==
    /\ ip \in HostAddrs \ attached
    /\ attached' = attached \cup {ip}

HostRemoves(ip) ==
    /\ ip \in HostAddrs \cap attached
    /\ attached' = attached \ {ip}
=============================================================================
