------------------------------ MODULE MCEngine ------------------------------
(***************************************************************************)
(* Small instances of Engine for TLC.                                      *)
(***************************************************************************)
EXTENDS Engine

CONSTANTS r1, r2, ip1, ip2, good, empty, bad

MCRefs == {r1, r2}
MCIPs == {ip1, ip2}

\* The validate command refuses two Services with ports at one of the addresses,
\* each of which it accepts alone.
MCAccepts(text) == ~ \A r \in MCRefs : Has(text.frontends, r) /\ text.frontends[r].ip = ip1
=============================================================================
