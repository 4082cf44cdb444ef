----------------------------- MODULE MCRuleMgr -----------------------------
(***************************************************************************)
(* Instances of RuleMgr for TLC.  Every Mix* operator is a population of   *)
(* callers: which calls each thread makes.                                 *)
(***************************************************************************)
EXTENDS RuleMgr

CONSTANTS ctl, app, cls, e1, e2, e3

\* One control application that adds and removes; another only adds.
MixNoClear ==
    (ctl :> {"add", "remove"}) @@ (app :> {"add"})

\* One thread that adds and clears.
MixClear == ctl :> {"add", "clear", "typeclear"}

\* Two applications that both add and remove.
MixTwoRemovers ==
    (ctl :> {"add", "remove"}) @@ (app :> {"add", "remove"})

\* One thread that adds and removes.
MixSolo == ctl :> {"add", "remove"}

\* Two writers of the whitelist, one of which removes and clears the rules
\* that both add and one of which reads the whitelist back, and a classifier.
MixRange ==
    (ctl :> {"add", "remove", "clear", "typeclear", "setrange"})
    @@ (app :> {"add", "setrange", "getrange"}) @@ (cls :> {"inrange"})

MCIPs      == {0, 1}
MCPorts    == {0, 1, 2}

MCSrcPorts == {0, 2, 3, 5}
MCRanges   == {[lo |-> 1, hi |-> 3], [lo |-> 4, hi |-> 6], [lo |-> 1, hi |-> 8]}

Blocks == Permutations({e1, e2})

=============================================================================
