------------------------ MODULE MCServiceController ------------------------
(***************************************************************************)
(* Small instances of ServiceController for TLC.                           *)
(***************************************************************************)
EXTENDS ServiceController, TLC

CONSTANTS s1, s2, ip1, ip2, ip3, p1, p2, e1, e2

MCRefs == {s1, s2}
MCIPs == {ip1, ip2}
MCIPs3 == {ip1, ip2, ip3}
MCPool == <<ip1, ip2>>
MCPoolOfOne == <<ip1>>
MCPayloads == Ports \X Slices

Symmetry == Permutations(MCRefs)
=============================================================================
