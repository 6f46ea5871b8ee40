---------------------------- MODULE MCIPManager ----------------------------
(***************************************************************************)
(* A small instance of IPManager for TLC.                                  *)
(***************************************************************************)
EXTENDS IPManager

MCConfigs == [mode : {"", "exec", "ipvs"}, interface : {"", "eth0"}, suffix : {0, 24, 33}]
=============================================================================
