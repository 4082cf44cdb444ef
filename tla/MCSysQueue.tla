----------------------------- MODULE MCSysQueue -----------------------------
(* Instances of SysQueue for TLC. *)
EXTENDS SysQueue

CONSTANTS n1, n2, n3, p1, p2, c1, c2


=============================================================================
