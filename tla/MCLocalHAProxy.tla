--------------------------- MODULE MCLocalHAProxy ---------------------------
(***************************************************************************)
(* A small instance of LocalHAProxy for TLC.                               *)
(***************************************************************************)
EXTENDS LocalHAProxy, TLC

CONSTANTS r1, r2, ip1, ip2, clash, empty, bad

MCRefs == {r1, r2}
MCIPs == {ip1, ip2}

\* The validate command refuses two clashing Services in one configuration,
\* each of which it accepts alone.
MCAccepts(text) ==
    ~ \A r \in MCRefs : Has(text.frontends, r) /\ text.frontends[r].payload = clash
=============================================================================
