--------------------------- MODULE MCDataplaneApi ---------------------------
(***************************************************************************)
(* Small instances of DataplaneApi for TLC.                                *)
(***************************************************************************)
EXTENDS DataplaneApi

CONSTANTS r1, r2, ip1, good, other, bad, huge
=============================================================================
