---------------------------- MODULE PacketPool ----------------------------
(***************************************************************************)
(* What the packet queue of common/Queue.cpp promises its callers: a fixed *)
(* pool of nodes, handed out and taken back one at a time, and packets     *)
(* received in the order in which they were sent ("receive and send order  *)
(* must be kept", Queue.cpp:187).  Nothing here says how: no links, no     *)
(* counters, no semaphore.                                                 *)
(***************************************************************************)
EXTENDS Integers, Sequences, FiniteSets

CONSTANTS Nodes, Threads, Null

VARIABLES
    free,       \* nodes nobody uses, oldest first
    used,       \* nodes with a packet, oldest first
    hand        \* the node each thread works on

vars == <<free, used, hand>>

Init ==
    /\ free \in {s \in [1 .. Cardinality(Nodes) -> Nodes] :
                    \A i, j \in DOMAIN s : s[i] = s[j] => i = j}
    /\ used = <<>>
    /\ hand = [t \in Threads |-> Null]

Holding(t, n) == hand' = [hand EXCEPT ![t] = n]

\* A thread takes a node out of one end of the pool ...
Allocate(t) ==
    /\ hand[t] = Null /\ free # <<>>
    /\ Holding(t, Head(free)) /\ free' = Tail(free) /\ UNCHANGED used

\* ... sends it,
Send(t) ==
    /\ hand[t] # Null
    /\ used' = Append(used, hand[t]) /\ Holding(t, Null) /\ UNCHANGED free

\* another receives it,
Receive(t) ==
    /\ hand[t] = Null /\ used # <<>>
    /\ Holding(t, Head(used)) /\ used' = Tail(used) /\ UNCHANGED free

\* ... and gives it back.
Recycle(t) ==
    /\ hand[t] # Null
    /\ free' = Append(free, hand[t]) /\ Holding(t, Null) /\ UNCHANGED used

Next == \E t \in Threads : Allocate(t) \/ Send(t) \/ Receive(t) \/ Recycle(t)

Spec == Init /\ [][Next]_vars

=============================================================================
