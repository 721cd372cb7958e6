------------------------------ MODULE MCSessions ------------------------------
(* A small instance of OpsSessions.                                        *)
EXTENDS OpsSessions, TLC

CONSTANTS b1, b2, b3, start, p1, p2

Alike == Permutations({b1, b2, b3}) \cup Permutations({p1, p2})
=============================================================================
