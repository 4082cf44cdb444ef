------------------------------ MODULE SysQueue ------------------------------
(***************************************************************************)
(* The packet queue pool of common/Queue.cpp: two circular doubly linked   *)
(* lists threaded through the same nodes (stFreeList and stUsedList), a    *)
(* counter for each, one critical section around every operation, and a    *)
(* semaphore (common/Sem.cpp) that is signalled after the critical section.*)
(*                                                                         *)
(* The callers are not in the repository.  They are modelled by the        *)
(* protocol the comments of Queue.h describe: a producer takes a free      *)
(* node, fills it and pushes it; a consumer waits, pops a packet and gives *)
(* the node back.  Consumers in Drainers also pop without waiting first.   *)
(*                                                                         *)
(* A definition Bug_X is X with a plausible mistake in it.  Nothing uses   *)
(* them; put in the place of X, each breaks the property that guards it.   *)
(***************************************************************************)
EXTENDS Integers, SequencesExt

CONSTANTS
    Nodes,                  \* QUE_ENTRY_S blocks of the pool
    Producers, Consumers,   \* the threads that call the queue
    Drainers,               \* consumers that pop packets they did not wait for
    FreeHead, UsedHead,     \* &stFreeList and &stUsedList
    Null,
    SemMax                  \* MAXLONG, the limit of the semaphore

Threads == Producers \cup Consumers
Links   == Nodes \cup {FreeHead, UsedHead}

ASSUME CallersAssumption ==
    /\ Producers \cap Consumers = {}
    /\ Drainers \subseteq Consumers
    /\ IsFiniteSet(Producers) /\ IsFiniteSet(Consumers)

ASSUME PoolAssumption ==
    /\ IsFiniteSet(Nodes) /\ Nodes # {}
    /\ FreeHead # UsedHead /\ {FreeHead, UsedHead} \cap Nodes = {}
    /\ Null \notin Links
    \* MAXLONG against the SYS_QUE_NUMS = 2000 nodes of Queue.h
    /\ SemMax \in Nat /\ SemMax >= Cardinality(Nodes)

VARIABLES
    next, prev,             \* NODE_HEAD_S of every node and list head
    freeNums, usedNums,     \* uiFreeNums, uiUsedNums
    sem,                    \* the count of hSemNotify
    pc, held                \* where each caller is, and the node it works on

vars == <<next, prev, freeNums, usedNums, sem, pc, held>>

-----------------------------------------------------------------------------
\* SYS_Queue_Create: both lists empty, the semaphore created with count 1, and
\* then one FreePush per node, in some order.
Init ==
    /\ \E s \in {f \in [1 .. Cardinality(Nodes) -> Nodes] : IsInjective(f)} :
          LET n == Cardinality(Nodes)
              at(i) == IF i \in 1 .. n THEN s[i] ELSE FreeHead
              pos(x) == CHOOSE i \in 1 .. n : s[i] = x
          IN /\ next = [x \in Links |-> CASE x = UsedHead -> UsedHead
                                          [] x = FreeHead -> at(1)
                                          [] OTHER        -> at(pos(x) + 1)]
             /\ prev = [x \in Links |-> CASE x = UsedHead -> UsedHead
                                          [] x = FreeHead -> at(n)
                                          [] OTHER        -> at(pos(x) - 1)]
    /\ freeNums = Cardinality(Nodes)
    /\ usedNums = 0
    /\ sem = 1
    /\ pc = [t \in Threads |-> "idle"]
    /\ held = [t \in Threads |-> Null]

\* The pointer assignments of the two pushes and of the two pops, in order.
Bug_LinkLast_Skips(n, head) ==         \* the old tail keeps its next pointer
    /\ next' = [next EXCEPT ![n] = head, ![head] = n]
    /\ prev' = [prev EXCEPT ![n] = prev[head], ![head] = n]

Bug_LinkLast_AtHead(n, head) ==        \* last in, first out
    /\ next' = [next EXCEPT ![n] = next[head], ![head] = n]
    /\ prev' = [prev EXCEPT ![next[head]] = n, ![n] = head]

LinkLast(n, head) ==
    /\ next' = [next EXCEPT ![n] = head, ![prev[head]] = n]
    /\ prev' = [prev EXCEPT ![n] = prev[head], ![head] = n]

Bug_Unlink(n) ==                       \* the next node keeps its prev pointer
    /\ next' = [next EXCEPT ![prev[n]] = next[n], ![n] = n]
    /\ prev' = [prev EXCEPT ![n] = n]

Unlink(n) ==
    /\ next' = [next EXCEPT ![prev[n]] = next[n], ![n] = n]
    /\ prev' = [prev EXCEPT ![next[n]] = prev[n], ![n] = n]

Goto(t, l)  == pc' = [pc EXCEPT ![t] = l]
Holds(t, n) == held' = [held EXCEPT ![t] = n]

-----------------------------------------------------------------------------
\* A pop of an empty list returns NULL and changes nothing; only a consumer
\* that was woken for it has a step for that.

FreePop(t) ==
    /\ pc[t] = "idle"
    /\ freeNums > 0
    /\ Unlink(next[FreeHead])
    /\ freeNums' = freeNums - 1
    /\ Holds(t, next[FreeHead])
    /\ Goto(t, "fill")
    /\ UNCHANGED <<usedNums, sem>>

UsedPush(t) ==
    /\ pc[t] = "fill"
    /\ LinkLast(held[t], UsedHead)
    /\ usedNums' = usedNums + 1
    /\ Holds(t, Null)
    /\ Goto(t, "signal")
    /\ UNCHANGED <<freeNums, sem>>

\* only the packet that ends an empty list is announced
Bug_Signal(t) ==
    /\ pc[t] = "signal"
    /\ sem' = IF usedNums = 1 THEN sem + 1 ELSE sem
    /\ Goto(t, "idle")
    /\ UNCHANGED <<next, prev, freeNums, usedNums, held>>

\* SYS_Sem_Signal: ReleaseSemaphore fails, silently, at the limit.
Signal(t) ==
    /\ pc[t] = "signal"
    /\ sem' = IF sem < SemMax THEN sem + 1 ELSE sem
    /\ Goto(t, "idle")
    /\ UNCHANGED <<next, prev, freeNums, usedNums, held>>

\* SYS_Queue_UsedListWaitfor, without a timeout: from the call until the count
\* of the semaphore is above zero the consumer is blocked in SYS_Sem_Wait.
Waitfor(t) ==
    /\ pc[t] = "idle"
    /\ Goto(t, "waiting")
    /\ UNCHANGED <<next, prev, freeNums, usedNums, sem, held>>

Wake(t) ==
    /\ pc[t] = "waiting"
    /\ sem > 0
    /\ sem' = sem - 1
    /\ Goto(t, "woken")
    /\ UNCHANGED <<next, prev, freeNums, usedNums, held>>

UsedPop(t) ==
    /\ pc[t] = "woken" \/ (pc[t] = "idle" /\ t \in Drainers)
    /\ usedNums > 0
    /\ Unlink(next[UsedHead])
    /\ usedNums' = usedNums - 1
    /\ Holds(t, next[UsedHead])
    /\ Goto(t, "work")
    /\ UNCHANGED <<freeNums, sem>>

UsedPopNull(t) ==
    /\ pc[t] = "woken"
    /\ usedNums = 0
    /\ Goto(t, "idle")
    /\ UNCHANGED <<next, prev, freeNums, usedNums, sem, held>>

\* the node never given back
Bug_FreePush(t) ==
    /\ pc[t] = "work"
    /\ Holds(t, Null)
    /\ Goto(t, "idle")
    /\ UNCHANGED <<next, prev, freeNums, usedNums, sem>>

FreePush(t) ==
    /\ pc[t] = "work"
    /\ LinkLast(held[t], FreeHead)
    /\ freeNums' = freeNums + 1
    /\ Holds(t, Null)
    /\ Goto(t, "idle")
    /\ UNCHANGED <<usedNums, sem>>

Produce(t) == FreePop(t) \/ UsedPush(t) \/ Signal(t)
Consume(t) == Waitfor(t) \/ Wake(t) \/ UsedPop(t) \/ UsedPopNull(t) \/ FreePush(t)

Next == (\E t \in Producers : Produce(t)) \/ (\E t \in Consumers : Consume(t))

Spec == Init /\ [][Next]_vars

(* A producer that has a node sends it and signals; a consumer comes back  *)
(* to wait, is released if the count stays above zero, and goes on when it *)
(* has been woken or has a node.  No producer is obliged to send anything, *)
(* and no consumer to pop a packet it did not wait for.                    *)
Fairness ==
    /\ \A t \in Producers : WF_vars(UsedPush(t) \/ Signal(t))
    /\ \A t \in Consumers : /\ WF_vars(Waitfor(t))
                            /\ WF_vars(pc[t] # "idle" /\ Consume(t))

FairSpec == Spec /\ Fairness

-----------------------------------------------------------------------------
(* Every variable has its type. *)
TypeOK ==
    /\ next \in [Links -> Links]
    /\ prev \in [Links -> Links]
    /\ freeNums \in Nat
    /\ usedNums \in Nat
    /\ sem \in 0 .. SemMax
    /\ pc \in [Threads -> {"idle", "fill", "signal", "waiting", "woken", "work"}]
    /\ held \in [Threads -> Nodes \cup {Null}]

\* The nodes of a list, from its head along the next pointers; at most as
\* many as there are nodes.
Chain(head) ==
    LET walk[k \in 0 .. Cardinality(Nodes)] ==
            IF k = 0 THEN <<head, <<>>>>
            ELSE LET at == next[walk[k - 1][1]]
                 IN  IF at \in Nodes /\ (k = 1 \/ walk[k - 1][1] # head)
                     THEN <<at, Append(walk[k - 1][2], at)>>
                     ELSE <<head, walk[k - 1][2]>>
    IN  walk[Cardinality(Nodes)][2]

(* The two lists are rings in both directions, and a node that is in no    *)
(* list points to itself (Queue.cpp:42-48, 74-81, 98-104, 126-133).        *)
RingsClosed == \A x \in Links : prev[next[x]] = x /\ next[prev[x]] = x

(* Every node is in exactly one place, the free list, the used list or the *)
(* hands of one caller, and the two counters are the lengths of the lists: *)
(* "the number of nodes in the free list, to check for anomalies"          *)
(* (Queue.h:40).                                                           *)
NodesConserved ==
    LET holders == {t \in Threads : held[t] # Null}
    IN  /\ freeNums = Len(Chain(FreeHead))
        /\ usedNums = Len(Chain(UsedHead))
        /\ ToSet(Chain(FreeHead)) \cup ToSet(Chain(UsedHead))
              \cup {held[t] : t \in holders} = Nodes
        /\ freeNums + usedNums + Cardinality(holders) = Cardinality(Nodes)

Woken     == {t \in Consumers : pc[t] = "woken"}
Signallers == {t \in Producers : pc[t] = "signal"}

(* No wake-up is lost: for every packet in the used list there is a count  *)
(* of the semaphore, a consumer already woken, or a producer about to      *)
(* signal; also when the semaphore has hit its limit and ReleaseSemaphore  *)
(* fails (Queue.cpp:42-51, 144-160; Sem.cpp:19-26).                        *)
NoLostWakeup == usedNums <= sem + Cardinality(Woken) + Cardinality(Signallers)

(* When every consumer waits before it pops, there is at most one wake-up  *)
(* more than there are packets: the one the semaphore is created with      *)
(* (Queue.cpp:176).                                                        *)
AtMostOneSpurious == sem + Cardinality(Woken) + Cardinality(Signallers) <= usedNums + 1

(* A consumer is woken because a packet was pushed: "when data is pushed   *)
(* to the Used queue, notify directly" (Queue.cpp:50).                     *)
WokenForAPacket == Woken # {} => usedNums > 0

(* The linked lists, counters and critical sections implement the pool:    *)
(* nodes are handed out and packets received in first-in first-out order.  *)
Pool == INSTANCE PacketPool WITH
            free <- Chain(FreeHead), used <- Chain(UsedHead), hand <- held
PoolSpec == Pool!Spec

(* Every packet that was pushed is popped, and every node a caller took is *)
(* given back to the free list ("otherwise memory leaks, it must be given  *)
(* back after use", Queue.h:41).                                           *)
PacketsPopped == \A n \in Nodes : n \in ToSet(Chain(UsedHead)) ~> n \notin ToSet(Chain(UsedHead))
NodesRecycled == \A n \in Nodes : n \notin ToSet(Chain(FreeHead)) ~> n \in ToSet(Chain(FreeHead))

=============================================================================
