------------------------------- MODULE MCHost -------------------------------
(* Small instances of OtoboHost.                                           *)
EXTENDS OtoboHost

CONSTANTS s1, s2, px, vm
=============================================================================
