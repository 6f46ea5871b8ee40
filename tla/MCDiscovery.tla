---------------------------- MODULE MCDiscovery ----------------------------
(***************************************************************************)
(* Small instances of Discovery for TLC.                                   *)
(***************************************************************************)
EXTENDS Discovery

Target == {[n |-> "", p |-> 0], [n |-> "", p |-> 2], [n |-> "web", p |-> 0]}

Port(name, protocol, number, target) ==
    [name |-> name, protocol |-> protocol, port |-> number,
     targetName |-> target.n, targetNumber |-> target.p]

\* A single port may be unnamed; several have different names.
MCPortLists ==
    {<<Port(name, "", 1, t)>> : name \in {"", "http"}, t \in Target}
    \cup {<<Port("http", "", 1, t), second>> : t \in Target,
              second \in {Port(name, "TCP", 3, u) : name \in {"web", "alt"}, u \in Target}
                         \cup {Port("dns", "UDP", 3, u) : u \in Target}}

MCUnnamed == {<<Port("", "", 1, [n |-> "web", p |-> 0])>>}

EndpointPort(names, protocol) == [name : names, protocol : {protocol}, port : 1..3]
First == EndpointPort({"", "http"}, "")
Second == EndpointPort({"web", "alt"}, "TCP") \cup EndpointPort({"dns"}, "UDP")
          \cup {[name |-> "web", protocol |-> "TCP", port |-> 0]}

Endpoint(ready, address) == [ready |-> ready, addresses |-> <<address>>]

\* Two endpoints in some order of their addresses, or none; address 0 is of
\* another family.
MCSliceSpace ==
    [belongs : {TRUE},
     ports : {<<p>> : p \in First \cup Second} \cup {<<p, q>> : p \in First, q \in Second},
     endpoints : {<<>>} \cup {<<Endpoint(r, 1), Endpoint("true", a)>> :
                                  r \in {"", "false"}, a \in {2, 1, 0}}]
    \cup [belongs : {FALSE},
          ports : {<<p>> : p \in First},
          endpoints : {<<Endpoint("true", 3)>>}]
=============================================================================
