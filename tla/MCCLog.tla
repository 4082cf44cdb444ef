------------------------------ MODULE MCCLog ------------------------------
(* Instances of CLog for TLC: threads of two processes.                    *)
EXTENDS CLog, TLC

CONSTANTS P, Q, p1, p2, q1, q2

TwoAndOne == (p1 :> P) @@ (p2 :> P) @@ (q1 :> Q)

TwoAndTwo == (p1 :> P) @@ (p2 :> P) @@ (q1 :> Q) @@ (q2 :> Q)

OneAndOne == (p1 :> P) @@ (q1 :> Q)

SameProcess == Permutations({p1, p2}) \cup Permutations({q1, q2})

=============================================================================
