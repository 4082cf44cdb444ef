---------------------------- MODULE MCQueueLife ----------------------------
(* An instance of QueueLife for TLC.                                       *)
EXTENDS QueueLife

CONSTANTS n1, n2, n3, p1, p2, k1, k2

=============================================================================
