----------------------------- MODULE RuleStore -----------------------------
(***************************************************************************)
(* What the rule manager promises its callers: a store of rules, in which  *)
(* a rule may be kept several times; a caller that asks for a rule to be   *)
(* removed waits until one block with this very rule is taken out, or      *)
(* there is no rule of its kind.  Nothing here says how: no lists, no      *)
(* rotation, no lock.                                                      *)
(***************************************************************************)
EXTENDS Functions

CONSTANTS
    Threads,    \* the callers
    Entries,    \* blocks that hold one rule each
    Rules,      \* the rules
    Kind        \* the kind of each rule

VARIABLES
    stored,     \* the rules that are in force, by the block that holds them
    asked       \* the rule each caller waits to be rid of: none or one

Init ==
    /\ stored = [e \in {} |-> {}]
    /\ asked = [t \in Threads |-> {}]

Add(e, r) ==
    /\ e \notin DOMAIN stored
    /\ stored' = [b \in DOMAIN stored \cup {e} |-> IF b = e THEN r ELSE stored[b]]
    /\ UNCHANGED asked

Ask(t, r) ==
    /\ asked[t] = {}
    /\ asked' = [asked EXCEPT ![t] = {r}]
    /\ UNCHANGED stored

Take(t, e) ==
    /\ asked[t] = {stored[e]}
    /\ stored' = Restrict(stored, DOMAIN stored \ {e})
    /\ asked' = [asked EXCEPT ![t] = {}]

GiveUp(t) ==
    /\ asked[t] # {}
    /\ \A r \in asked[t], e \in DOMAIN stored : Kind[stored[e]] # Kind[r]
    /\ asked' = [asked EXCEPT ![t] = {}]
    /\ UNCHANGED stored

Clear(kinds) ==
    /\ stored' = Restrict(stored, {e \in DOMAIN stored : Kind[stored[e]] \notin kinds})
    /\ UNCHANGED asked

Next ==
    \/ \E e \in Entries, r \in Rules : Add(e, r)
    \/ \E t \in Threads, r \in Rules : Ask(t, r)
    \/ \E t \in Threads, e \in DOMAIN stored : Take(t, e)
    \/ \E t \in Threads : GiveUp(t)
    \/ \E kinds \in SUBSET {Kind[r] : r \in Rules} : Clear(kinds)

Spec == Init /\ [][Next]_<<stored, asked>>

=============================================================================
