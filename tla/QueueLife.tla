----------------------------- MODULE QueueLife -----------------------------
(***************************************************************************)
(* The packet queue from SYS_Queue_Create to SYS_Queue_Free                *)
(* (common/Queue.cpp): the owner allocates the queue, its semaphore and    *)
(* its nodes one by one, the callers of SysQueue work with it, and the     *)
(* owner takes it down, nodes first.  Every allocation may fail.           *)
(*                                                                         *)
(* What is acquired, the queue's own parts and its nodes, is what SysQueue *)
(* does not know of; the links are SysQueue's.  SYS_Queue_Free keeps the   *)
(* critical section, so that no caller is at the lists meanwhile; nothing  *)
(* ever deletes that section.                                              *)
(*                                                                         *)
(* A definition Bug_X is X with a plausible mistake in it.  Nothing uses   *)
(* them; put in the place of X, each breaks the property that guards it.   *)
(***************************************************************************)
EXTENDS SysQueue

CONSTANTS
    Quiet       \* the owner frees the queue only when no caller is in a call
                \* (one that waits for a packet is) or has a node

ASSUME QuietAssumption == Quiet \in BOOLEAN

VARIABLES
    life,       \* how far the owner is
    made,       \* the nodes that are allocated
    parts,      \* what else is acquired: the queue's memory, its semaphore,
                \* its critical section
    given       \* what SYS_Queue_Create returned: a pointer or NULL

owner    == <<life, made, parts, given>>
lifeVars == <<vars, owner>>

Parts == {"queue", "semaphore", "section"}

\* hSemNotify is a semaphore, not NULL.
signalled == "semaphore" \in parts

LifeInit ==
    /\ life = "none" /\ made = {} /\ parts = {} /\ given = "nothing"
    /\ next = [x \in Links |-> x] /\ prev = [x \in Links |-> x]
    /\ freeNums = 0 /\ usedNums = 0 /\ sem = 0
    /\ pc = [t \in Threads |-> "idle"]
    /\ held = [t \in Threads |-> Null]

-----------------------------------------------------------------------------
(* SYS_Queue_Create.                                                       *)

CreateNothing ==
    /\ life = "none"
    /\ life' = "gone" /\ given' = "NULL"
    /\ UNCHANGED <<vars, made, parts>>

\* A CreateSemaphore that fails returns NULL and is compared with
\* INVALID_HANDLE_VALUE, so the queue goes on without one.
CreateHead ==
    /\ life = "none"
    /\ life' = "making"
    /\ parts' \in {Parts, Parts \ {"semaphore"}}
    /\ sem' = IF signalled' THEN 1 ELSE 0
    /\ UNCHANGED <<next, prev, freeNums, usedNums, pc, held, made, given>>

\* pushed into the wrong list
Bug_CreateNode ==
    /\ life = "making"
    /\ \E n \in Nodes \ made : made' = made \cup {n} /\ LinkLast(n, UsedHead)
    /\ freeNums' = freeNums + 1
    /\ UNCHANGED <<usedNums, sem, pc, held, life, parts, given>>

CreateNode ==
    /\ life = "making"
    /\ \E n \in Nodes \ made : made' = made \cup {n} /\ LinkLast(n, FreeHead)
    /\ freeNums' = freeNums + 1
    /\ UNCHANGED <<usedNums, sem, pc, held, life, parts, given>>

\* SYS_Queue_Free starts with SYS_Sem_Free.
SemFree == sem' = 0 /\ parts' = parts \ {"semaphore"}

\* The pointer is returned all the same.
CreateNodeFails ==
    /\ life = "making" /\ made # Nodes
    /\ life' = "freeing" /\ given' = "pointer"
    /\ SemFree
    /\ UNCHANGED <<next, prev, freeNums, usedNums, pc, held, made>>

CreateReturns ==
    /\ life = "making" /\ made = Nodes
    /\ life' = "up" /\ given' = "pointer"
    /\ UNCHANGED <<vars, made, parts>>

-----------------------------------------------------------------------------
(* The callers, while there is a queue.  Without a semaphore a wait        *)
(* returns at once with an error, and a signal has no effect.              *)

Work(t) ==
    /\ life = "up" /\ signalled
    /\ IF t \in Producers THEN Produce(t) ELSE Consume(t)
    /\ UNCHANGED owner

WorkUnsignalled(t) ==
    /\ life = "up" /\ ~signalled
    /\ \/ t \in Producers /\ (FreePop(t) \/ UsedPush(t))
       \/ t \in Consumers /\ (UsedPop(t) \/ FreePush(t))
       \/ pc[t] = "signal" /\ Goto(t, "idle")
             /\ UNCHANGED <<next, prev, freeNums, usedNums, sem, held>>
    /\ UNCHANGED owner

-----------------------------------------------------------------------------
(* SYS_Queue_Free.  The numbers of its loops are read under the lock.      *)

FreeBegin ==
    /\ life = "up"
    /\ Quiet => \A t \in Threads : pc[t] = "idle"
    /\ life' = "freeing"
    /\ SemFree
    /\ UNCHANGED <<next, prev, freeNums, usedNums, pc, held, made, given>>

\* the packets that nobody received forgotten
Bug_FreeUsedNode ==
    /\ life = "freeing" /\ usedNums > 0
    /\ usedNums' = 0
    /\ UNCHANGED <<next, prev, freeNums, sem, pc, held, made, life, parts, given>>

FreeUsedNode ==
    /\ life = "freeing" /\ usedNums > 0
    /\ Unlink(next[UsedHead])
    /\ usedNums' = usedNums - 1
    /\ made' = made \ {next[UsedHead]}
    /\ UNCHANGED <<freeNums, sem, pc, held, life, parts, given>>

\* freed without being taken out
Bug_FreeFreeNode ==
    /\ life = "freeing" /\ usedNums = 0 /\ freeNums > 0
    /\ freeNums' = freeNums - 1
    /\ made' = made \ {next[FreeHead]}
    /\ UNCHANGED <<next, prev, usedNums, sem, pc, held, life, parts, given>>

FreeFreeNode ==
    /\ life = "freeing" /\ usedNums = 0 /\ freeNums > 0
    /\ Unlink(next[FreeHead])
    /\ freeNums' = freeNums - 1
    /\ made' = made \ {next[FreeHead]}
    /\ UNCHANGED <<usedNums, sem, pc, held, life, parts, given>>

FreeQueue ==
    /\ life = "freeing" /\ usedNums = 0 /\ freeNums = 0
    /\ life' = "gone"
    /\ parts' = parts \ {"queue"}
    /\ UNCHANGED <<vars, made, given>>

-----------------------------------------------------------------------------
Create == CreateNothing \/ CreateHead \/ CreateNode \/ CreateNodeFails \/ CreateReturns
Free   == FreeUsedNode \/ FreeFreeNode \/ FreeQueue

LifeNext ==
    \/ Create \/ FreeBegin \/ Free
    \/ \E t \in Threads : Work(t) \/ WorkUnsignalled(t)

LifeSpec == LifeInit /\ [][LifeNext]_lifeVars

-----------------------------------------------------------------------------
(* From the first node to the last, and on both ways down, a node is       *)
(* linked or in a caller's hands exactly while it is allocated: no list    *)
(* leads to memory that is freed, none is lost (Queue.cpp:194-252).        *)
LinkedIsAllocated ==
    /\ made = ToSet(Chain(FreeHead)) \cup ToSet(Chain(UsedHead))
                  \cup {held[t] : t \in {u \in Threads : held[u] # Null}}
    /\ RingsClosed

(* A creation that succeeds leaves the pool as the callers expect it: all  *)
(* nodes free, in a ring, and one wake-up (Queue.cpp:163-213).  So what is *)
(* shown of SysQueue holds of the queue that was created.                  *)
CreatedIsPool == [][life # "up" /\ life' = "up" /\ signalled => Init']_lifeVars

(* When the queue is freed, its memory, its semaphore and every node are   *)
(* given back, however far its creation came and whatever packets were in  *)
(* it (Queue.cpp:172, 196-210, 223-251): all that can be left is the       *)
(* critical section of line 192.                                           *)
OnlySectionLeft == life = "gone" => made = {} /\ parts \subseteq {"section"}

(* When the queue is freed nothing of it is left: what the code misses by  *)
(* the critical section, which it initialises and never deletes            *)
(* (Queue.cpp:192, 215-253).                                               *)
NothingLeft == life = "gone" => made = {} /\ parts = {}

(* A pointer that SYS_Queue_Create returned points to a queue, unless the  *)
(* owner has freed it since: a failure is told by NULL (Queue.cpp:172,     *)
(* 180, 207).                                                              *)
ReturnedIsQueue == [][given = "nothing" /\ given' = "pointer" => life' = "up"]_lifeVars

(* Nobody waits at the queue, works on it or holds a node of it once it is *)
(* freed (Queue.cpp:153, 223-251): what the code leaves to its owner.      *)
FreedIsUnused == life = "gone" => \A t \in Threads : pc[t] = "idle"

=============================================================================
