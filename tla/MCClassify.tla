----------------------------- MODULE MCClassify -----------------------------
(* Instances of Classify for TLC. *)
EXTENDS Classify

=============================================================================
