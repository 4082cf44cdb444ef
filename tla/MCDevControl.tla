---------------------------- MODULE MCDevControl ----------------------------
(* Instances of DevControl for TLC: which requests each program makes.     *)
EXTENDS DevControl, TLC

CONSTANTS p1, p2

\* One program that makes every request, and one that switches redirection
\* off, adds rules and reads the whitelist meanwhile.
OneManager ==
    (p1 :> Codes) @@ (p2 :> {"disable", "add", "getrange"})

\* Two programs that each name a proxy.
TwoProxies == [p \in {p1, p2} |-> {"setproxy"}]

\* Two programs that only add rules.
TwoAdders == [p \in {p1, p2} |-> {"add"}]

MCRanges  == {[lo |-> 1, hi |-> 3], [lo |-> 2, hi |-> 9]}
MCProxies == {[pid |-> 1, port |-> 1], [pid |-> 2, port |-> 2]}

=============================================================================
