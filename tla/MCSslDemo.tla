----------------------------- MODULE MCSslDemo -----------------------------
(* An instance of SslDemo for TLC.                                         *)
EXTENDS SslDemo

CONSTANTS c1, c2, c3

=============================================================================
