--------------------------- MODULE SysQueueProofs ---------------------------
(***************************************************************************)
(* Proofs about SysQueue and QueueLife, for every number of nodes,         *)
(* producers and consumers.                                                *)
(*                                                                         *)
(* Part one, the counters: the semaphore against the number of packets.    *)
(* It does not look at the links.                                          *)
(*                                                                         *)
(* Part two, the links: the two lists are rings, nodes are conserved, and  *)
(* the linked queue implements the first-in first-out pool.  The lists are *)
(* followed as sequences of nodes: a pop takes the tail of a sequence, a   *)
(* push appends to it.  What the pointers say of a sequence is Ring; the   *)
(* lemmas about it speak of any pair of pointer functions.                 *)
(*                                                                         *)
(* Part three, the life of the queue: its creation and its end, with the   *)
(* same sequences.  While the callers work, part two says what they do.    *)
(***************************************************************************)
EXTENDS QueueLife, FiniteSetTheorems, SequenceTheorems, WellFoundedInduction, TLAPS

USE CallersAssumption, PoolAssumption, QuietAssumption

ProducerLabels == {"idle", "fill", "signal"}
ConsumerLabels == {"idle", "waiting", "woken", "work"}

\* The callers that have a node.
Busy == {t \in Threads : pc[t] \in {"fill", "work"}}

CountersOK ==
    /\ freeNums \in Nat /\ usedNums \in Nat /\ sem \in 0 .. SemMax
    /\ pc \in [Threads -> ProducerLabels \cup ConsumerLabels]
    /\ \A t \in Producers : pc[t] \in ProducerLabels
    /\ \A t \in Consumers : pc[t] \in ConsumerLabels

\* No node is made or lost: this bounds usedNums by the size of the pool, and
\* so by the limit of the semaphore.
Conserved == freeNums + usedNums + Cardinality(Busy) = Cardinality(Nodes)

-----------------------------------------------------------------------------
LEMMA Gains ==
    ASSUME NEW S, NEW x, IsFiniteSet(S), x \notin S
    PROVE  Cardinality(S \cup {x}) = Cardinality(S) + 1
BY FS_AddElement

LEMMA Loses ==
    ASSUME NEW S, NEW x, IsFiniteSet(S), x \in S
    PROVE  Cardinality(S \ {x}) = Cardinality(S) - 1
BY FS_RemoveElement

LEMMA Counted ==
    /\ IsFiniteSet(Woken) /\ Cardinality(Woken) \in Nat
    /\ IsFiniteSet(Signallers) /\ Cardinality(Signallers) \in Nat
    /\ IsFiniteSet(Busy) /\ Cardinality(Busy) \in Nat
    /\ Cardinality(Nodes) \in Nat
<1>1. IsFiniteSet(Threads)
  BY FS_Union DEF Threads
<1>2. Woken \subseteq Consumers /\ Signallers \subseteq Producers /\ Busy \subseteq Threads
  BY DEF Woken, Signallers, Busy
<1>3. IsFiniteSet(Woken) /\ IsFiniteSet(Signallers) /\ IsFiniteSet(Busy)
  BY <1>1, <1>2, FS_Subset
<1> QED
  BY <1>3, FS_CardinalityType

(* What each step does to the three sets of callers that are counted.      *)
LEMMA Labelled ==
    ASSUME CountersOK, NEW t \in Threads
    PROVE  /\ t \in Busy <=> pc[t] \in {"fill", "work"}
           /\ t \in Woken <=> pc[t] = "woken"
           /\ t \in Signallers <=> pc[t] = "signal"
BY DEF CountersOK, Threads, Busy, Woken, Signallers, ProducerLabels, ConsumerLabels

LEMMA OneLabel ==
    ASSUME CountersOK, NEW t \in Threads, NEW l, pc' = [pc EXCEPT ![t] = l],
           l \in ProducerLabels \/ t \notin Producers,
           l \in ConsumerLabels \/ t \notin Consumers
    PROVE  /\ l \in {"fill", "work"} => Busy' = Busy \cup {t}
           /\ l \notin {"fill", "work"} => Busy' = Busy \ {t}
           /\ l = "woken" => Woken' = Woken \cup {t}
           /\ l # "woken" => Woken' = Woken \ {t}
           /\ l = "signal" => Signallers' = Signallers \cup {t}
           /\ l # "signal" => Signallers' = Signallers \ {t}
BY DEF CountersOK, Threads, Busy, Woken, Signallers, ProducerLabels, ConsumerLabels

LEMMA ToIdle ==
    ASSUME CountersOK, NEW t \in Threads, pc' = [pc EXCEPT ![t] = "idle"]
    PROVE  Busy' = Busy \ {t} /\ Woken' = Woken \ {t} /\ Signallers' = Signallers \ {t}
BY DEF CountersOK, Threads, Busy, Woken, Signallers, ProducerLabels, ConsumerLabels

LEMMA ToWaiting ==
    ASSUME CountersOK, NEW t \in Consumers, pc' = [pc EXCEPT ![t] = "waiting"]
    PROVE  Busy' = Busy \ {t} /\ Woken' = Woken \ {t} /\ Signallers' = Signallers \ {t}
BY DEF CountersOK, Threads, Busy, Woken, Signallers, ProducerLabels, ConsumerLabels

LEMMA CountersKept ==
    ASSUME CountersOK, NEW t \in Threads, NEW l, pc' = [pc EXCEPT ![t] = l],
           l \in ProducerLabels \cup ConsumerLabels,
           l \in ProducerLabels \/ t \notin Producers,
           l \in ConsumerLabels \/ t \notin Consumers,
           freeNums' \in Nat, usedNums' \in Nat, sem' \in 0 .. SemMax
    PROVE  CountersOK'
BY DEF CountersOK, Threads

-----------------------------------------------------------------------------
(* The wake-ups on their way, less the packets waiting for one.            *)
Slack == sem + Cardinality(Woken) + Cardinality(Signallers) - usedNums

\* AtMostOneSpurious is the other bound, and holds only of consumers that wait
\* before they pop.
WakeupsOK == NoLostWakeup /\ (Drainers = {} => AtMostOneSpurious)

LEMMA SlackBounds ==
    ASSUME CountersOK
    PROVE  /\ Slack \in Int
           /\ NoLostWakeup <=> Slack >= 0
           /\ AtMostOneSpurious <=> Slack <= 1
BY Counted DEF CountersOK, Slack, NoLostWakeup, AtMostOneSpurious

\* A step that keeps the sum of the nodes and does not raise the slack, unless
\* some consumer drains, nor lower it below zero.
LEMMA Balance ==
    ASSUME CountersOK, CountersOK', Conserved, WakeupsOK,
           freeNums' + usedNums' + Cardinality(Busy') = freeNums + usedNums + Cardinality(Busy),
           Slack' >= Slack \/ Slack' >= 0,
           Slack' <= Slack \/ Drainers # {}
    PROVE  Conserved' /\ WakeupsOK'
<1>1. Conserved'
  BY DEF Conserved
<1>2. /\ Slack \in Int /\ Slack' \in Int
      /\ NoLostWakeup <=> Slack >= 0
      /\ NoLostWakeup' <=> Slack' >= 0
      /\ AtMostOneSpurious <=> Slack <= 1
      /\ AtMostOneSpurious' <=> Slack' <= 1
  <2>1. CountersOK => /\ Slack \in Int
                      /\ NoLostWakeup <=> Slack >= 0
                      /\ AtMostOneSpurious <=> Slack <= 1
    BY SlackBounds
  <2>2. (CountersOK => /\ Slack \in Int
                       /\ NoLostWakeup <=> Slack >= 0
                       /\ AtMostOneSpurious <=> Slack <= 1)'
    BY SlackBounds, PTL
  <2> QED BY <2>1, <2>2
<1>3. NoLostWakeup'
  BY <1>2 DEF WakeupsOK
<1>4. Drainers = {} => AtMostOneSpurious'
  BY <1>2 DEF WakeupsOK
<1> QED BY <1>1, <1>3, <1>4 DEF WakeupsOK

LEMMA CountStep ==
    ASSUME CountersOK, Conserved, WakeupsOK, [Next]_vars
    PROVE  CountersOK' /\ Conserved' /\ WakeupsOK'
<1> DEFINE B == Cardinality(Busy)
           W == Cardinality(Woken)
           S == Cardinality(Signallers)
<1>a. /\ freeNums \in Nat /\ usedNums \in Nat /\ sem \in 0 .. SemMax
      /\ B \in Nat /\ W \in Nat /\ S \in Nat /\ SemMax \in Nat
      /\ Cardinality(Nodes) \in Nat /\ Cardinality(Nodes) <= SemMax
  BY Counted DEF CountersOK
<1>b. IsFiniteSet(Busy) /\ IsFiniteSet(Woken) /\ IsFiniteSet(Signallers)
  BY Counted
<1>c. /\ Producers \subseteq Threads /\ Consumers \subseteq Threads
      /\ \A t \in Producers : t \notin Consumers
  BY DEF Threads
<1>d. Slack \in Int
  BY <1>a DEF Slack
<1>1. ASSUME NEW t \in Producers, FreePop(t)
      PROVE  CountersOK' /\ Conserved' /\ WakeupsOK'
  <2>1. /\ pc[t] = "idle" /\ pc' = [pc EXCEPT ![t] = "fill"]
        /\ freeNums > 0 /\ freeNums' = freeNums - 1 /\ usedNums' = usedNums /\ sem' = sem
    BY <1>1 DEF FreePop, Goto
  <2>2. CountersOK'
    <3>1. freeNums' \in Nat /\ usedNums' \in Nat /\ sem' \in 0 .. SemMax
      BY <2>1, <1>a
    <3> QED BY <2>1, <3>1, <1>c, CountersKept DEF ProducerLabels, ConsumerLabels
  <2>3. /\ Busy' = Busy \cup {t} /\ t \notin Busy
        /\ Woken' = Woken
        /\ Signallers' = Signallers
    <3>1. t \in Busy <=> pc[t] \in {"fill", "work"}
      BY <1>c, Labelled
    <3>2. (t \in Woken <=> pc[t] = "woken") /\ (t \in Signallers <=> pc[t] = "signal")
      BY <1>c, Labelled
    <3>3. Busy' = Busy \cup {t} /\ Woken' = Woken \ {t} /\ Signallers' = Signallers \ {t}
      BY <2>1, <1>c, OneLabel DEF ProducerLabels, ConsumerLabels
    <3> QED BY <2>1, <3>1, <3>2, <3>3
  <2>4. Cardinality(Busy') = B + 1 /\ Cardinality(Woken') = W /\ Cardinality(Signallers') = S
    BY <2>3, <1>b, Gains, Loses
  <2>5. Slack' = Slack
    BY <2>1, <2>4, <1>a DEF Slack
  <2>6. freeNums' + usedNums' + Cardinality(Busy') = freeNums + usedNums + B
    BY <2>1, <2>4, <1>a
  <2> QED BY <2>2, <2>5, <2>6, <1>d, Balance
<1>2. ASSUME NEW t \in Producers, UsedPush(t)
      PROVE  CountersOK' /\ Conserved' /\ WakeupsOK'
  <2>1. /\ pc[t] = "fill" /\ pc' = [pc EXCEPT ![t] = "signal"]
        /\ freeNums' = freeNums /\ usedNums' = usedNums + 1 /\ sem' = sem
    BY <1>2 DEF UsedPush, Goto
  <2>2. CountersOK'
    <3>1. freeNums' \in Nat /\ usedNums' \in Nat /\ sem' \in 0 .. SemMax
      BY <2>1, <1>a
    <3> QED BY <2>1, <3>1, <1>c, CountersKept DEF ProducerLabels, ConsumerLabels
  <2>3. /\ Busy' = Busy \ {t} /\ t \in Busy
        /\ Woken' = Woken
        /\ Signallers' = Signallers \cup {t} /\ t \notin Signallers
    <3>1. t \in Busy <=> pc[t] \in {"fill", "work"}
      BY <1>c, Labelled
    <3>2. (t \in Woken <=> pc[t] = "woken") /\ (t \in Signallers <=> pc[t] = "signal")
      BY <1>c, Labelled
    <3>3. Busy' = Busy \ {t} /\ Woken' = Woken \ {t} /\ Signallers' = Signallers \cup {t}
      BY <2>1, <1>c, OneLabel DEF ProducerLabels, ConsumerLabels
    <3> QED BY <2>1, <3>1, <3>2, <3>3
  <2>4. Cardinality(Busy') = B - 1 /\ Cardinality(Woken') = W /\ Cardinality(Signallers') = S + 1
    BY <2>3, <1>b, Gains, Loses
  <2>5. Slack' = Slack
    BY <2>1, <2>4, <1>a DEF Slack
  <2>6. freeNums' + usedNums' + Cardinality(Busy') = freeNums + usedNums + B
    BY <2>1, <2>4, <1>a
  <2> QED BY <2>2, <2>5, <2>6, <1>d, Balance
<1>3. ASSUME NEW t \in Producers, Signal(t)
      PROVE  CountersOK' /\ Conserved' /\ WakeupsOK'
  <2>1. /\ pc[t] = "signal" /\ pc' = [pc EXCEPT ![t] = "idle"]
        /\ freeNums' = freeNums /\ usedNums' = usedNums
        /\ sem' = IF sem < SemMax THEN sem + 1 ELSE sem
    BY <1>3 DEF Signal, Goto
  <2>2. CountersOK'
    <3>1. freeNums' \in Nat /\ usedNums' \in Nat /\ sem' \in 0 .. SemMax
      BY <2>1, <1>a
    <3> QED BY <2>1, <3>1, <1>c, CountersKept DEF ProducerLabels, ConsumerLabels
  <2>3. /\ Busy' = Busy
        /\ Woken' = Woken
        /\ Signallers' = Signallers \ {t} /\ t \in Signallers
    <3>1. t \in Busy <=> pc[t] \in {"fill", "work"}
      BY <1>c, Labelled
    <3>2. (t \in Woken <=> pc[t] = "woken") /\ (t \in Signallers <=> pc[t] = "signal")
      BY <1>c, Labelled
    <3>3. Busy' = Busy \ {t} /\ Woken' = Woken \ {t} /\ Signallers' = Signallers \ {t}
      BY <2>1, <1>c, ToIdle
    <3> QED BY <2>1, <3>1, <3>2, <3>3
  <2>4. Cardinality(Busy') = B /\ Cardinality(Woken') = W /\ Cardinality(Signallers') = S - 1
    BY <2>3, <1>b, Gains, Loses
  \* at the limit the signal is lost, but every packet of the pool is covered
  <2>5. Slack' = Slack \/ (Slack' <= Slack /\ Slack' >= 0)
    <3>1. CASE sem = SemMax
      <4>1. usedNums <= SemMax
        BY <1>a DEF Conserved
      <4>2. S - 1 \in Nat
        BY <2>3, <2>4, <1>b, FS_RemoveElement, FS_CardinalityType
      <4> QED BY <2>1, <2>4, <3>1, <4>1, <4>2, <1>a DEF Slack
    <3>2. CASE sem < SemMax
      BY <2>1, <2>4, <3>2, <1>a DEF Slack
    <3> QED BY <3>1, <3>2, <1>a
  <2>6. freeNums' + usedNums' + Cardinality(Busy') = freeNums + usedNums + B
    BY <2>1, <2>4, <1>a
  <2> QED BY <2>2, <2>5, <2>6, <1>d, Balance
<1>4. ASSUME NEW t \in Consumers, Wake(t)
      PROVE  CountersOK' /\ Conserved' /\ WakeupsOK'
  <2>1. /\ pc[t] = "waiting" /\ pc' = [pc EXCEPT ![t] = "woken"]
        /\ freeNums' = freeNums /\ usedNums' = usedNums /\ sem > 0 /\ sem' = sem - 1
    BY <1>4 DEF Wake, Goto
  <2>2. CountersOK'
    <3>1. freeNums' \in Nat /\ usedNums' \in Nat /\ sem' \in 0 .. SemMax
      BY <2>1, <1>a
    <3> QED BY <2>1, <3>1, <1>c, CountersKept DEF ProducerLabels, ConsumerLabels
  <2>3. /\ Busy' = Busy
        /\ Woken' = Woken \cup {t} /\ t \notin Woken
        /\ Signallers' = Signallers
    <3>1. t \in Busy <=> pc[t] \in {"fill", "work"}
      BY <1>c, Labelled
    <3>2. (t \in Woken <=> pc[t] = "woken") /\ (t \in Signallers <=> pc[t] = "signal")
      BY <1>c, Labelled
    <3>3. Busy' = Busy \ {t} /\ Woken' = Woken \cup {t} /\ Signallers' = Signallers \ {t}
      BY <2>1, <1>c, OneLabel DEF ProducerLabels, ConsumerLabels
    <3> QED BY <2>1, <3>1, <3>2, <3>3
  <2>4. Cardinality(Busy') = B /\ Cardinality(Woken') = W + 1 /\ Cardinality(Signallers') = S
    BY <2>3, <1>b, Gains, Loses
  <2>5. Slack' = Slack
    BY <2>1, <2>4, <1>a DEF Slack
  <2>6. freeNums' + usedNums' + Cardinality(Busy') = freeNums + usedNums + B
    BY <2>1, <2>4, <1>a
  <2> QED BY <2>2, <2>5, <2>6, <1>d, Balance
<1>5. ASSUME NEW t \in Consumers, UsedPop(t), pc[t] = "woken"
      PROVE  CountersOK' /\ Conserved' /\ WakeupsOK'
  <2>1. /\ pc[t] = "woken" /\ pc' = [pc EXCEPT ![t] = "work"]
        /\ freeNums' = freeNums /\ usedNums > 0 /\ usedNums' = usedNums - 1 /\ sem' = sem
    BY <1>5 DEF UsedPop, Goto
  <2>2. CountersOK'
    <3>1. freeNums' \in Nat /\ usedNums' \in Nat /\ sem' \in 0 .. SemMax
      BY <2>1, <1>a
    <3> QED BY <2>1, <3>1, <1>c, CountersKept DEF ProducerLabels, ConsumerLabels
  <2>3. /\ Busy' = Busy \cup {t} /\ t \notin Busy
        /\ Woken' = Woken \ {t} /\ t \in Woken
        /\ Signallers' = Signallers
    <3>1. t \in Busy <=> pc[t] \in {"fill", "work"}
      BY <1>c, Labelled
    <3>2. (t \in Woken <=> pc[t] = "woken") /\ (t \in Signallers <=> pc[t] = "signal")
      BY <1>c, Labelled
    <3>3. Busy' = Busy \cup {t} /\ Woken' = Woken \ {t} /\ Signallers' = Signallers \ {t}
      BY <2>1, <1>c, OneLabel DEF ProducerLabels, ConsumerLabels
    <3> QED BY <2>1, <3>1, <3>2, <3>3
  <2>4. Cardinality(Busy') = B + 1 /\ Cardinality(Woken') = W - 1 /\ Cardinality(Signallers') = S
    BY <2>3, <1>b, Gains, Loses
  <2>5. Slack' = Slack
    BY <2>1, <2>4, <1>a DEF Slack
  <2>6. freeNums' + usedNums' + Cardinality(Busy') = freeNums + usedNums + B
    BY <2>1, <2>4, <1>a
  <2> QED BY <2>2, <2>5, <2>6, <1>d, Balance
\* a packet taken without a wake-up leaves one wake-up too many
<1>6. ASSUME NEW t \in Consumers, UsedPop(t), pc[t] # "woken"
      PROVE  CountersOK' /\ Conserved' /\ WakeupsOK'
  <2>1. /\ pc[t] = "idle" /\ t \in Drainers /\ pc' = [pc EXCEPT ![t] = "work"]
        /\ freeNums' = freeNums /\ usedNums > 0 /\ usedNums' = usedNums - 1 /\ sem' = sem
    BY <1>6 DEF UsedPop, Goto
  <2>2. CountersOK'
    <3>1. freeNums' \in Nat /\ usedNums' \in Nat /\ sem' \in 0 .. SemMax
      BY <2>1, <1>a
    <3> QED BY <2>1, <3>1, <1>c, CountersKept DEF ProducerLabels, ConsumerLabels
  <2>3. /\ Busy' = Busy \cup {t} /\ t \notin Busy
        /\ Woken' = Woken
        /\ Signallers' = Signallers
    <3>1. t \in Busy <=> pc[t] \in {"fill", "work"}
      BY <1>c, Labelled
    <3>2. (t \in Woken <=> pc[t] = "woken") /\ (t \in Signallers <=> pc[t] = "signal")
      BY <1>c, Labelled
    <3>3. Busy' = Busy \cup {t} /\ Woken' = Woken \ {t} /\ Signallers' = Signallers \ {t}
      BY <2>1, <1>c, OneLabel DEF ProducerLabels, ConsumerLabels
    <3> QED BY <2>1, <3>1, <3>2, <3>3
  <2>4. Cardinality(Busy') = B + 1 /\ Cardinality(Woken') = W /\ Cardinality(Signallers') = S
    BY <2>3, <1>b, Gains, Loses
  <2>5. Slack' = Slack + 1 /\ Drainers # {}
    BY <2>1, <2>4, <1>a DEF Slack
  <2>6. freeNums' + usedNums' + Cardinality(Busy') = freeNums + usedNums + B
    BY <2>1, <2>4, <1>a
  <2> QED BY <2>2, <2>5, <2>6, <1>d, Balance
<1>7. ASSUME NEW t \in Consumers, UsedPopNull(t)
      PROVE  CountersOK' /\ Conserved' /\ WakeupsOK'
  <2>1. /\ pc[t] = "woken" /\ pc' = [pc EXCEPT ![t] = "idle"]
        /\ freeNums' = freeNums /\ usedNums = 0 /\ usedNums' = usedNums /\ sem' = sem
    BY <1>7 DEF UsedPopNull, Goto
  <2>2. CountersOK'
    <3>1. freeNums' \in Nat /\ usedNums' \in Nat /\ sem' \in 0 .. SemMax
      BY <2>1, <1>a
    <3> QED BY <2>1, <3>1, <1>c, CountersKept DEF ProducerLabels, ConsumerLabels
  <2>3. /\ Busy' = Busy
        /\ Woken' = Woken \ {t} /\ t \in Woken
        /\ Signallers' = Signallers
    <3>1. t \in Busy <=> pc[t] \in {"fill", "work"}
      BY <1>c, Labelled
    <3>2. (t \in Woken <=> pc[t] = "woken") /\ (t \in Signallers <=> pc[t] = "signal")
      BY <1>c, Labelled
    <3>3. Busy' = Busy \ {t} /\ Woken' = Woken \ {t} /\ Signallers' = Signallers \ {t}
      BY <2>1, <1>c, ToIdle
    <3> QED BY <2>1, <3>1, <3>2, <3>3
  <2>4. Cardinality(Busy') = B /\ Cardinality(Woken') = W - 1 /\ Cardinality(Signallers') = S
    BY <2>3, <1>b, Gains, Loses
  <2>5. Slack' = Slack - 1 /\ Slack' >= 0
    <3>1. W - 1 \in Nat
      BY <2>3, <2>4, <1>b, FS_RemoveElement, FS_CardinalityType
    <3> QED BY <2>1, <2>4, <3>1, <1>a DEF Slack
  <2>6. freeNums' + usedNums' + Cardinality(Busy') = freeNums + usedNums + B
    BY <2>1, <2>4, <1>a
  <2> QED BY <2>2, <2>5, <2>6, <1>d, Balance
<1>8. ASSUME NEW t \in Consumers, FreePush(t)
      PROVE  CountersOK' /\ Conserved' /\ WakeupsOK'
  <2>1. /\ pc[t] = "work" /\ pc' = [pc EXCEPT ![t] = "idle"]
        /\ freeNums' = freeNums + 1 /\ usedNums' = usedNums /\ sem' = sem
    BY <1>8 DEF FreePush, Goto
  <2>2. CountersOK'
    <3>1. freeNums' \in Nat /\ usedNums' \in Nat /\ sem' \in 0 .. SemMax
      BY <2>1, <1>a
    <3> QED BY <2>1, <3>1, <1>c, CountersKept DEF ProducerLabels, ConsumerLabels
  <2>3. /\ Busy' = Busy \ {t} /\ t \in Busy
        /\ Woken' = Woken
        /\ Signallers' = Signallers
    <3>1. t \in Busy <=> pc[t] \in {"fill", "work"}
      BY <1>c, Labelled
    <3>2. (t \in Woken <=> pc[t] = "woken") /\ (t \in Signallers <=> pc[t] = "signal")
      BY <1>c, Labelled
    <3>3. Busy' = Busy \ {t} /\ Woken' = Woken \ {t} /\ Signallers' = Signallers \ {t}
      BY <2>1, <1>c, ToIdle
    <3> QED BY <2>1, <3>1, <3>2, <3>3
  <2>4. Cardinality(Busy') = B - 1 /\ Cardinality(Woken') = W /\ Cardinality(Signallers') = S
    BY <2>3, <1>b, Gains, Loses
  <2>5. Slack' = Slack
    BY <2>1, <2>4, <1>a DEF Slack
  <2>6. freeNums' + usedNums' + Cardinality(Busy') = freeNums + usedNums + B
    BY <2>1, <2>4, <1>a
  <2> QED BY <2>2, <2>5, <2>6, <1>d, Balance
<1>9. ASSUME NEW t \in Consumers, Waitfor(t)
      PROVE  CountersOK' /\ Conserved' /\ WakeupsOK'
  <2>1. /\ pc[t] = "idle" /\ pc' = [pc EXCEPT ![t] = "waiting"]
        /\ freeNums' = freeNums /\ usedNums' = usedNums /\ sem' = sem
    BY <1>9 DEF Waitfor, Goto
  <2>2. CountersOK'
    BY <2>1, <1>a, <1>c, CountersKept DEF ProducerLabels, ConsumerLabels
  <2>3. Busy' = Busy /\ Woken' = Woken /\ Signallers' = Signallers
    <3>1. t \notin Busy /\ t \notin Woken /\ t \notin Signallers
      BY <2>1, <1>c, Labelled
    <3>2. Busy' = Busy \ {t} /\ Woken' = Woken \ {t} /\ Signallers' = Signallers \ {t}
      BY <2>1, <1>c, ToWaiting
    <3>3. \A Q : t \notin Q => Q \ {t} = Q
      OBVIOUS
    <3> QED BY <3>1, <3>2, <3>3, Zenon
  <2>4. Slack' = Slack
    BY <2>1, <2>3 DEF Slack
  <2>5. freeNums' + usedNums' + Cardinality(Busy') = freeNums + usedNums + B
    BY <2>1, <2>3
  <2> QED BY <2>2, <2>4, <2>5, <1>d, Balance
<1>10. CASE UNCHANGED vars
  BY <1>10 DEF vars, CountersOK, Conserved, WakeupsOK, NoLostWakeup, AtMostOneSpurious,
               Busy, Woken, Signallers
<1> QED
  BY <1>1, <1>2, <1>3, <1>4, <1>5, <1>6, <1>7, <1>8, <1>9, <1>10 DEF Next, Produce, Consume

LEMMA CountCorrect == Spec => [](CountersOK /\ Conserved /\ WakeupsOK)
<1>1. Init => CountersOK /\ Conserved /\ WakeupsOK
  <2> SUFFICES ASSUME Init PROVE CountersOK /\ Conserved /\ WakeupsOK
    OBVIOUS
  <2>1. Busy = {} /\ Woken = {} /\ Signallers = {} /\ Cardinality({}) = 0
    BY FS_EmptySet DEF Init, Busy, Woken, Signallers, Threads
  <2>2. 1 <= SemMax
    BY FS_EmptySet, FS_CardinalityType
  <2>3. CountersOK
    BY <2>2, Counted DEF Init, CountersOK, ProducerLabels, ConsumerLabels, Threads
  <2>4. Conserved
    BY <2>1, Counted DEF Init, Conserved
  <2>5. NoLostWakeup /\ AtMostOneSpurious
    BY <2>1 DEF Init, NoLostWakeup, AtMostOneSpurious
  <2> QED BY <2>3, <2>4, <2>5 DEF WakeupsOK
<1>2. CountersOK /\ Conserved /\ WakeupsOK /\ [Next]_vars
         => (CountersOK /\ Conserved /\ WakeupsOK)'
  BY CountStep
<1> QED
  BY <1>1, <1>2, PTL DEF Spec

(* For any pool, any number of producers and consumers, and any way of     *)
(* waiting and draining, no packet is left in the used list without a      *)
(* wake-up to come for it (Queue.cpp:42-51, Sem.cpp:19-26).                *)
THEOREM NoWakeupIsLost == Spec => []NoLostWakeup
BY CountCorrect, PTL DEF WakeupsOK

(* If every consumer waits before it pops, the semaphore never runs ahead  *)
(* of the packets by more than the one it was created with                 *)
(* (Queue.cpp:144-176).                                                    *)
THEOREM WakeupsBounded == ASSUME Drainers = {} PROVE Spec => []AtMostOneSpurious
BY CountCorrect, PTL DEF WakeupsOK

-----------------------------------------------------------------------------
(* The links.                                                              *)

Heads == {FreeHead, UsedHead}

\* The link at place i of the ring of s: its head is at 0 and behind the end.
At(h, s, i) == IF i \in 1 .. Len(s) THEN s[i] ELSE h

Ring(nx, pv, h, s) ==
    /\ \A i, j \in 1 .. Len(s) : s[i] = s[j] => i = j
    /\ \A i \in 0 .. Len(s) : /\ nx[At(h, s, i)] = At(h, s, i + 1)
                              /\ pv[At(h, s, i + 1)] = At(h, s, i)

In(x, s) == \E i \in 1 .. Len(s) : s[i] = x

\* The two functions agree on a link.
Same(nx, pv, nx1, pv1, y) == nx1[y] = nx[y] /\ pv1[y] = pv[y]

-----------------------------------------------------------------------------
LEMMA HeadsAre == /\ \A h \in Heads : h \in Links /\ h \notin Nodes
                  /\ \A x \in Nodes : x \in Links /\ x # Null
BY DEF Heads, Links

LEMMA AtLink ==
    ASSUME NEW h \in Heads, NEW s \in Seq(Nodes), NEW i \in Nat
    PROVE  At(h, s, i) \in Links /\ (At(h, s, i) \in Nodes <=> i \in 1 .. Len(s))
BY HeadsAre DEF At

\* A ring stays one as long as its own links do.
LEMMA RingFrame ==
    ASSUME NEW nx, NEW pv, NEW nx1, NEW pv1, NEW h \in Heads, NEW s \in Seq(Nodes),
           Ring(nx, pv, h, s),
           Same(nx, pv, nx1, pv1, h), \A x \in Nodes : In(x, s) => Same(nx, pv, nx1, pv1, x)
    PROVE  Ring(nx1, pv1, h, s)
<1>1. \A i \in 0 .. Len(s) + 1 : Same(nx, pv, nx1, pv1, At(h, s, i))
  <2> SUFFICES ASSUME NEW i \in 0 .. Len(s) + 1 PROVE Same(nx, pv, nx1, pv1, At(h, s, i))
    OBVIOUS
  <2>1. CASE i \in 1 .. Len(s)
    <3>1. s[i] \in Nodes /\ In(s[i], s) /\ At(h, s, i) = s[i]
      BY <2>1 DEF In, At
    <3> QED BY <3>1
  <2>2. CASE i \notin 1 .. Len(s)
    BY <2>2 DEF At
  <2> QED BY <2>1, <2>2
<1>2. \A i \in 0 .. Len(s) : i \in 0 .. Len(s) + 1 /\ i + 1 \in 0 .. Len(s) + 1
  OBVIOUS
<1> QED BY <1>1, <1>2 DEF Ring, Same

\* A link of a ring other than its head has another behind it.
LEMMA NoLoop ==
    ASSUME NEW nx, NEW pv, NEW h \in Heads, NEW s \in Seq(Nodes), Ring(nx, pv, h, s),
           NEW x \in Nodes, nx[x] = x
    PROVE  ~In(x, s)
<1> SUFFICES ASSUME NEW i \in 1 .. Len(s), s[i] = x PROVE FALSE
  BY DEF In
<1>1. i \in 0 .. Len(s) /\ At(h, s, i) = x
  BY DEF At
<1>2. At(h, s, i + 1) = x
  BY <1>1 DEF Ring
<1>3. CASE i + 1 \in 1 .. Len(s)
  <2>1. s[i + 1] = s[i]
    BY <1>2, <1>3 DEF At
  <2> QED BY <1>3, <2>1 DEF Ring
<1>4. CASE i + 1 \notin 1 .. Len(s)
  BY <1>2, <1>4, HeadsAre DEF At
<1> QED BY <1>3, <1>4

LEMMA EmptyRing ==
    ASSUME NEW nx, NEW pv, NEW h, nx[h] = h, pv[h] = h
    PROVE  Ring(nx, pv, h, <<>>)
BY DEF Ring, At

\* The pointer functions after Unlink(x), and after LinkLast(x, h).
UnNext(nx, pv, x)     == [nx EXCEPT ![pv[x]] = nx[x], ![x] = x]
UnPrev(nx, pv, x)     == [pv EXCEPT ![nx[x]] = pv[x], ![x] = x]
AddNext(nx, pv, h, x) == [nx EXCEPT ![x] = h, ![pv[h]] = x]
AddPrev(nx, pv, h, x) == [pv EXCEPT ![x] = pv[h], ![h] = x]

\* A pop takes the first node off the sequence and lets it point to itself.
LEMMA PopRing ==
    ASSUME NEW nx \in [Links -> Links], NEW pv \in [Links -> Links], NEW h \in Heads,
           NEW s \in Seq(Nodes), s # <<>>, Ring(nx, pv, h, s),
           NEW x, x = nx[h], NEW nx1, NEW pv1,
           nx1 = UnNext(nx, pv, x), pv1 = UnPrev(nx, pv, x)
    PROVE  /\ x = Head(s) /\ x \in Nodes /\ Ring(nx1, pv1, h, Tail(s))
           /\ nx1 \in [Links -> Links] /\ pv1 \in [Links -> Links]
           /\ nx1[x] = x /\ pv1[x] = x
           /\ \A y \in Links : y # h /\ ~In(y, s) => Same(nx, pv, nx1, pv1, y)
<1> DEFINE n == Len(s)
           r == Tail(s)
           z == At(h, s, 2)
<1>0. /\ n \in Nat /\ n >= 1 /\ 1 \in 1 .. n /\ 0 \in 0 .. n /\ 0 + 1 = 1 /\ 1 + 1 = 2
      /\ r \in Seq(Nodes) /\ Len(r) = n - 1
      /\ \A i \in 1 .. n - 1 : r[i] = s[i + 1] /\ i + 1 \in 1 .. n
  OBVIOUS
<1>h. h \in Links /\ h \notin Nodes
  BY HeadsAre
<1>1. /\ At(h, s, 0) = h /\ At(h, s, 1) = s[1] /\ s[1] \in Nodes /\ x = s[1] /\ In(x, s)
      /\ nx[x] = z /\ pv[x] = h /\ pv[z] = x /\ x # h /\ x \in Links /\ Head(s) = s[1]
  <2>1. At(h, s, 0) = h /\ At(h, s, 1) = s[1] /\ s[1] \in Nodes /\ Head(s) = s[1]
    BY <1>0 DEF At
  <2>2. nx[At(h, s, 0)] = At(h, s, 1) /\ pv[At(h, s, 1)] = At(h, s, 0)
    BY <1>0 DEF Ring
  <2>3. nx[At(h, s, 1)] = z /\ pv[z] = At(h, s, 1)
    BY <1>0 DEF Ring
  <2>4. In(s[1], s)
    BY <1>0 DEF In
  <2> QED BY <2>1, <2>2, <2>3, <2>4, <1>h, HeadsAre
<1>2. z \in Links /\ (z = h \/ In(z, s)) /\ z # x
  <2>1. CASE n >= 2
    <3>1. 2 \in 1 .. n /\ z = s[2] /\ s[2] \in Nodes
      BY <2>1, <1>0 DEF At
    <3>2. s[2] # s[1]
      BY <3>1, <1>0 DEF Ring
    <3> QED BY <1>1, <3>1, <3>2, HeadsAre DEF In
  <2>2. CASE n < 2
    <3>1. z = h
      BY <2>2, <1>0 DEF At
    <3> QED BY <3>1, <1>h, <1>1
  <2> QED BY <2>1, <2>2, <1>0
<1> HIDE DEF z
<1>3. /\ nx1 = [nx EXCEPT ![h] = z, ![x] = x]
      /\ pv1 = [pv EXCEPT ![z] = h, ![x] = x]
  BY <1>1 DEF UnNext, UnPrev
<1>4. /\ nx1[h] = z /\ nx1[x] = x /\ pv1[z] = h /\ pv1[x] = x
      /\ nx1 \in [Links -> Links] /\ pv1 \in [Links -> Links]
      /\ \A y \in Links : y # h /\ y # x => nx1[y] = nx[y]
      /\ \A y \in Links : y # z /\ y # x => pv1[y] = pv[y]
  BY <1>1, <1>2, <1>3, <1>h
<1>5. \A y \in Links : y # h /\ ~In(y, s) => Same(nx, pv, nx1, pv1, y)
  BY <1>1, <1>2, <1>4 DEF Same
<1>6. \A i \in 0 .. n : At(h, r, i) = IF i = 0 THEN h ELSE At(h, s, i + 1)
  BY <1>0 DEF At
<1>7. \A i, j \in 1 .. n - 1 : r[i] = r[j] => i = j
  BY <1>0 DEF Ring
<1>8. ASSUME NEW i \in 0 .. n - 1
      PROVE nx1[At(h, r, i)] = At(h, r, i + 1) /\ pv1[At(h, r, i + 1)] = At(h, r, i)
  <2>1. CASE i = 0
    <3>1. At(h, r, 0) = h /\ At(h, r, 1) = z
      <4>1. 0 \in 0 .. n /\ 1 \in 0 .. n
        BY <1>0
      <4> QED BY <1>6, <4>1, <1>0 DEF z
    <3>2. At(h, r, i) = h /\ At(h, r, i + 1) = z
      BY <2>1, <3>1, <1>0
    <3> QED BY <1>4, <3>2
  <2>2. CASE i # 0
    <3> DEFINE a == At(h, s, i + 1)
               b == At(h, s, i + 2)
    <3>1. i \in 1 .. n - 1 /\ i + 1 \in 1 .. n /\ i + 1 \in 0 .. n /\ i \in 0 .. n
      BY <2>2, <1>0
    <3>2. At(h, r, i) = a /\ At(h, r, i + 1) = b
      <4>1. (i + 1) + 1 = i + 2 /\ i + 1 # 0
        BY <3>1
      <4> QED BY <1>6, <2>2, <3>1, <4>1
    <3>3. a = s[i + 1] /\ a \in Nodes /\ a # x /\ a # h /\ a \in Links
      <4>1. a = s[i + 1] /\ s[i + 1] \in Nodes
        BY <3>1 DEF At
      <4>2. s[i + 1] # s[1]
        BY <1>0, <3>1, <2>2 DEF Ring
      <4> QED BY <1>1, <1>h, <4>1, <4>2, HeadsAre
    <3>4. nx[a] = b /\ pv[b] = a
      <4>1. (i + 1) + 1 = i + 2
        BY <3>1
      <4> QED BY <3>1, <4>1 DEF Ring
    <3>5. b \in Links /\ b # x /\ b # z
      <4>1. CASE i + 2 <= n
        <5>1. i + 2 \in 1 .. n /\ i + 2 # 1 /\ i + 2 # 2 /\ 2 \in 1 .. n
          BY <3>1, <4>1
        <5>2. b = s[i + 2] /\ z = s[2] /\ s[i + 2] \in Nodes
          BY <5>1 DEF At, z
        <5>3. s[i + 2] # s[1] /\ s[i + 2] # s[2]
          BY <5>1, <1>0 DEF Ring
        <5> QED BY <1>1, <5>2, <5>3, HeadsAre
      <4>2. CASE i + 2 > n
        <5>1. i + 2 \notin 1 .. n /\ 2 \in 1 .. n
          BY <3>1, <4>2
        <5>2. b = h /\ z = s[2] /\ s[2] \in Nodes
          BY <5>1 DEF At, z
        <5> QED BY <5>2, <1>h, <1>1
      <4> QED BY <4>1, <4>2, <3>1
    <3> QED BY <1>4, <3>2, <3>3, <3>4, <3>5
  <2> QED BY <2>1, <2>2
<1>9. Ring(nx1, pv1, h, r)
  BY <1>0, <1>7, <1>8 DEF Ring
<1> QED BY <1>1, <1>4, <1>5, <1>9

\* A push puts a node that is in no list at the end of the sequence.
LEMMA PushRing ==
    ASSUME NEW nx \in [Links -> Links], NEW pv \in [Links -> Links], NEW h \in Heads,
           NEW s \in Seq(Nodes), Ring(nx, pv, h, s),
           NEW x \in Nodes, nx[x] = x, NEW nx1, NEW pv1,
           nx1 = AddNext(nx, pv, h, x), pv1 = AddPrev(nx, pv, h, x)
    PROVE  /\ Ring(nx1, pv1, h, Append(s, x))
           /\ nx1 \in [Links -> Links] /\ pv1 \in [Links -> Links]
           /\ \A y \in Links : y # h /\ y # x /\ ~In(y, s) => Same(nx, pv, nx1, pv1, y)
<1> DEFINE n == Len(s)
           r == Append(s, x)
           z == At(h, s, n)
<1>0. /\ n \in Nat /\ n \in 0 .. n /\ n + 1 \notin 1 .. n
      /\ r \in Seq(Nodes) /\ Len(r) = n + 1 /\ r[n + 1] = x
      /\ \A i \in 1 .. n : r[i] = s[i] /\ i \in 1 .. n + 1
  OBVIOUS
<1>h. h \in Links /\ h \notin Nodes /\ x \in Links /\ x # h
  BY HeadsAre
<1>1. At(h, s, n + 1) = h /\ nx[z] = h /\ pv[h] = z
  <2>1. At(h, s, n + 1) = h
    BY <1>0 DEF At
  <2> QED BY <2>1, <1>0 DEF Ring
<1>2. z \in Links /\ (z = h \/ In(z, s)) /\ z # x
  <2>1. ~In(x, s)
    BY NoLoop
  <2>2. CASE n >= 1
    <3>1. n \in 1 .. n /\ z = s[n] /\ s[n] \in Nodes
      BY <2>2, <1>0 DEF At
    <3>2. In(s[n], s)
      BY <3>1 DEF In
    <3> QED BY <2>1, <3>1, <3>2, HeadsAre
  <2>3. CASE n < 1
    <3>1. z = h
      BY <2>3, <1>0 DEF At
    <3> QED BY <3>1, <1>h
  <2> QED BY <2>2, <2>3, <1>0
<1> HIDE DEF z
<1>3. /\ nx1 = [nx EXCEPT ![x] = h, ![z] = x]
      /\ pv1 = [pv EXCEPT ![x] = z, ![h] = x]
  BY <1>1 DEF AddNext, AddPrev
<1>4. /\ nx1[z] = x /\ nx1[x] = h /\ pv1[x] = z /\ pv1[h] = x
      /\ nx1 \in [Links -> Links] /\ pv1 \in [Links -> Links]
      /\ \A y \in Links : y # z /\ y # x => nx1[y] = nx[y]
      /\ \A y \in Links : y # h /\ y # x => pv1[y] = pv[y]
  <2> HIDE DEF n, r
  <2>1. /\ nx1[z] = x /\ nx1[x] = h /\ nx1 \in [Links -> Links]
        /\ \A y \in Links : y # z /\ y # x => nx1[y] = nx[y]
    BY <1>2, <1>3, <1>h
  <2>2. /\ pv1[x] = z /\ pv1[h] = x /\ pv1 \in [Links -> Links]
        /\ \A y \in Links : y # h /\ y # x => pv1[y] = pv[y]
    BY <1>2, <1>3, <1>h
  <2> QED BY <2>1, <2>2
<1>5. \A y \in Links : y # h /\ y # x /\ ~In(y, s) => Same(nx, pv, nx1, pv1, y)
  BY <1>2, <1>4 DEF Same
<1>6. \A i \in 0 .. n : At(h, r, i) = At(h, s, i)
  BY <1>0 DEF At
<1>7. At(h, r, n + 1) = x /\ At(h, r, n + 2) = h
  BY <1>0 DEF At
<1>x. \A i \in 1 .. n : s[i] # x
  BY NoLoop DEF In
<1>8. ASSUME NEW i \in 1 .. n + 1, NEW j \in 1 .. n + 1, r[i] = r[j]
      PROVE i = j
  <2>1. CASE i = n + 1
    <3>1. r[j] = x
      BY <2>1, <1>0, <1>8
    <3>2. j \notin 1 .. n
      BY <3>1, <1>0, <1>x
    <3> QED BY <2>1, <3>2, <1>0
  <2>2. CASE j = n + 1
    <3>1. r[i] = x
      BY <2>2, <1>0, <1>8
    <3>2. i \notin 1 .. n
      BY <3>1, <1>0, <1>x
    <3> QED BY <2>2, <3>2, <1>0
  <2>3. CASE i # n + 1 /\ j # n + 1
    <3>1. i \in 1 .. n /\ j \in 1 .. n
      BY <2>3, <1>0
    <3>2. s[i] = s[j]
      BY <3>1, <1>0, <1>8
    <3> QED BY <3>1, <3>2 DEF Ring
  <2> QED BY <2>1, <2>2, <2>3
<1>9. ASSUME NEW i \in 0 .. n + 1
      PROVE nx1[At(h, r, i)] = At(h, r, i + 1) /\ pv1[At(h, r, i + 1)] = At(h, r, i)
  <2>1. CASE i = n + 1
    <3>1. At(h, r, i) = x /\ At(h, r, i + 1) = h
      <4>1. i + 1 = n + 2
        BY <2>1, <1>0
      <4> QED BY <2>1, <4>1, <1>7
    <3> QED BY <3>1, <1>4
  <2>2. CASE i = n
    <3>1. At(h, r, i) = z /\ At(h, r, i + 1) = x
      BY <2>2, <1>0, <1>6, <1>7 DEF z
    <3> QED BY <3>1, <1>4
  <2>3. CASE i # n /\ i # n + 1
    <3> DEFINE a == At(h, s, i)
               b == At(h, s, i + 1)
    <3>1. i \in 0 .. n /\ i + 1 \in 1 .. n /\ i + 1 \in 0 .. n
      BY <2>3, <1>0
    <3>2. At(h, r, i) = a /\ At(h, r, i + 1) = b
      BY <3>1, <1>6
    <3>3. nx[a] = b /\ pv[b] = a
      BY <3>1 DEF Ring
    <3>4. b = s[i + 1] /\ s[i + 1] \in Nodes
      BY <3>1 DEF At
    <3>5. b # x /\ b # h /\ b \in Links
      BY <3>1, <3>4, <1>x, <1>h, HeadsAre
    <3>6. a # x /\ a # z /\ a \in Links
      <4>1. CASE i = 0
        <5>1. a = h /\ n \in 1 .. n
          BY <4>1, <3>1 DEF At
        <5>2. z = s[n] /\ s[n] \in Nodes
          BY <5>1 DEF At, z
        <5> QED BY <5>1, <5>2, <1>h
      <4>2. CASE i # 0
        <5>1. i \in 1 .. n /\ n \in 1 .. n
          BY <4>2, <3>1, <1>0
        <5>2. a = s[i] /\ s[i] \in Nodes /\ z = s[n]
          BY <5>1 DEF At, z
        <5>3. s[i] # s[n]
          BY <5>1, <2>3 DEF Ring
        <5> QED BY <5>1, <5>2, <5>3, <1>x, HeadsAre
      <4> QED BY <4>1, <4>2
    <3> HIDE DEF a, b
    <3> QED BY <1>4, <3>2, <3>3, <3>5, <3>6
  <2> QED BY <2>1, <2>2, <2>3
<1>10. Ring(nx1, pv1, h, r)
  BY <1>0, <1>8, <1>9 DEF Ring
<1> QED BY <1>4, <1>5, <1>10

-----------------------------------------------------------------------------
Types == /\ next \in [Links -> Links] /\ prev \in [Links -> Links]
         /\ held \in [Threads -> Nodes \cup {Null}]

\* The two lists as the sequences s and r: no node is in both, one that is in
\* neither is in the hands of a caller, and what a caller holds is in no list.
Lists(h, s, g, r) ==
    /\ Ring(next, prev, h, s) /\ Ring(next, prev, g, r)
    /\ \A x \in Nodes : ~(In(x, s) /\ In(x, r))
    /\ \A x \in Nodes : ~In(x, s) /\ ~In(x, r) => \E t \in Threads : held[t] = x
    /\ \A t \in Threads : held[t] # Null => next[held[t]] = held[t] /\ prev[held[t]] = held[t]
    /\ \A t, u \in Threads : held[t] = held[u] /\ held[t] # Null => t = u

LEMMA ListsSwap ==
    ASSUME NEW h, NEW s, NEW g, NEW r, Lists(h, s, g, r)
    PROVE  Lists(g, r, h, s)
BY DEF Lists

LEMMA InTail ==
    ASSUME NEW s \in Seq(Nodes), s # <<>>, \A i, j \in 1 .. Len(s) : s[i] = s[j] => i = j,
           NEW x
    PROVE  In(x, Tail(s)) <=> In(x, s) /\ x # Head(s)
<1>1. /\ Len(s) \in Nat /\ 1 \in 1 .. Len(s) /\ Head(s) = s[1] /\ Len(Tail(s)) = Len(s) - 1
      /\ \A i \in 1 .. Len(s) - 1 : Tail(s)[i] = s[i + 1] /\ i + 1 \in 1 .. Len(s) /\ i + 1 # 1
      /\ \A i \in 1 .. Len(s) : i # 1 => i - 1 \in 1 .. Len(s) - 1 /\ (i - 1) + 1 = i
  OBVIOUS
<1>2. In(x, Tail(s)) => In(x, s) /\ x # Head(s)
  BY <1>1 DEF In
<1>3. ASSUME NEW i \in 1 .. Len(s), s[i] = x, x # Head(s) PROVE In(x, Tail(s))
  <2>1. i - 1 \in 1 .. Len(s) - 1 /\ Tail(s)[i - 1] = x
    BY <1>1, <1>3
  <2> QED BY <1>1, <2>1 DEF In
<1> QED BY <1>2, <1>3 DEF In

LEMMA InAppend ==
    ASSUME NEW s \in Seq(Nodes), NEW x \in Nodes, NEW y
    PROVE  In(y, Append(s, x)) <=> In(y, s) \/ y = x
<1>1. /\ Len(s) \in Nat /\ Len(Append(s, x)) = Len(s) + 1 /\ Append(s, x)[Len(s) + 1] = x
      /\ \A i \in 1 .. Len(s) : Append(s, x)[i] = s[i] /\ i \in 1 .. Len(s) + 1
      /\ \A i \in 1 .. Len(s) + 1 : i # Len(s) + 1 => i \in 1 .. Len(s)
      /\ Len(s) + 1 \in 1 .. Len(s) + 1
  OBVIOUS
<1> QED BY <1>1 DEF In

LEMMA InAreNodes ==
    ASSUME NEW s \in Seq(Nodes), NEW x, In(x, s) PROVE x \in Nodes
BY DEF In

\* A caller with empty hands takes the first node of a list.
LEMMA Taken ==
    ASSUME Types, NEW h \in Heads, NEW g \in Heads, h # g,
           NEW s \in Seq(Nodes), NEW r \in Seq(Nodes), Lists(h, s, g, r), s # <<>>,
           NEW t \in Threads, held[t] = Null, Unlink(next[h]), Holds(t, next[h])
    PROVE  Types' /\ Lists(h, Tail(s), g, r)' /\ next[h] = Head(s)
<1> DEFINE x == next[h]
<1>1. /\ x = Head(s) /\ x \in Nodes /\ Ring(next', prev', h, Tail(s))
      /\ next' \in [Links -> Links] /\ prev' \in [Links -> Links]
      /\ next'[x] = x /\ prev'[x] = x
      /\ \A y \in Links : y # h /\ ~In(y, s) => Same(next, prev, next', prev', y)
  <2>1. Ring(next, prev, h, s) /\ next \in [Links -> Links] /\ prev \in [Links -> Links]
    BY DEF Lists, Types
  <2>2. next' = UnNext(next, prev, x) /\ prev' = UnPrev(next, prev, x)
    BY DEF Unlink, UnNext, UnPrev
  <2> HIDE DEF x
  <2>3. x = next[h]
    BY DEF x
  <2> QED BY <2>1, <2>2, <2>3, PopRing
<1>2. \A y : In(y, Tail(s)) <=> In(y, s) /\ y # x
  BY <1>1, InTail DEF Lists, Ring
<1>3. Ring(next', prev', g, r)
  <2>1. Same(next, prev, next', prev', g)
    BY <1>1, HeadsAre, InAreNodes
  <2>2. \A y \in Nodes : In(y, r) => Same(next, prev, next', prev', y)
    BY <1>1, HeadsAre DEF Lists
  <2>3. Ring(next, prev, g, r)
    BY DEF Lists
  <2> QED BY <2>1, <2>2, <2>3, RingFrame
<1>4. In(x, s)
  BY <1>1 DEF In
<1>5. \A u \in Threads : held[u] # Null => ~In(held[u], s) /\ held[u] # x
  BY <1>4, NoLoop DEF Types, Lists
<1>6. held' = [held EXCEPT ![t] = x] /\ held' \in [Threads -> Nodes \cup {Null}]
  BY <1>1 DEF Types, Holds
<1>7. \A y \in Nodes : ~(In(y, Tail(s)) /\ In(y, r))
  BY <1>2 DEF Lists
<1>8. \A y \in Nodes : ~In(y, Tail(s)) /\ ~In(y, r) => \E u \in Threads : held'[u] = y
  <2> SUFFICES ASSUME NEW y \in Nodes, ~In(y, Tail(s)), ~In(y, r)
               PROVE  \E u \in Threads : held'[u] = y
    OBVIOUS
  <2>1. CASE y = x
    BY <2>1, <1>6 DEF Types
  <2>2. CASE y # x
    <3>1. PICK u \in Threads : held[u] = y
      BY <2>2, <1>2 DEF Lists
    <3> QED BY <3>1, <1>6, HeadsAre DEF Types
  <2> QED BY <2>1, <2>2
<1>9. ASSUME NEW u \in Threads, held'[u] # Null
      PROVE  next'[held'[u]] = held'[u] /\ prev'[held'[u]] = held'[u]
  <2>1. CASE u = t
    BY <2>1, <1>1, <1>6 DEF Types
  <2>2. CASE u # t
    <3>1. held'[u] = held[u] /\ held[u] \in Nodes /\ ~In(held[u], s)
      BY <2>2, <1>5, <1>6, <1>9 DEF Types
    <3>2. next[held[u]] = held[u] /\ prev[held[u]] = held[u]
      BY <3>1, <1>9 DEF Lists
    <3> QED BY <3>1, <3>2, <1>1, HeadsAre DEF Same
  <2> QED BY <2>1, <2>2
<1>10. \A u, v \in Threads : held'[u] = held'[v] /\ held'[u] # Null => u = v
  BY <1>5, <1>6 DEF Types, Lists
<1>11. Types'
  BY <1>1, <1>6 DEF Types
<1>12. Lists(h, Tail(s), g, r)'
  BY <1>1, <1>3, <1>7, <1>8, <1>9, <1>10 DEF Lists
<1> QED BY <1>1, <1>11, <1>12

\* A caller puts its node at the end of a list.
LEMMA Given ==
    ASSUME Types, NEW h \in Heads, NEW g \in Heads, h # g,
           NEW s \in Seq(Nodes), NEW r \in Seq(Nodes), Lists(h, s, g, r),
           NEW t \in Threads, NEW x, x = held[t], x # Null, LinkLast(x, h), Holds(t, Null)
    PROVE  Types' /\ Lists(h, Append(s, x), g, r)'
<1> DEFINE s1 == Append(s, x)
<1>0. x \in Nodes /\ next[x] = x /\ ~In(x, s) /\ ~In(x, r)
  <2>1. x \in Nodes /\ next[x] = x
    BY DEF Types, Lists
  <2> QED BY <2>1, NoLoop DEF Lists
<1>1. /\ Ring(next', prev', h, s1)
      /\ next' \in [Links -> Links] /\ prev' \in [Links -> Links]
      /\ \A y \in Links : y # h /\ y # x /\ ~In(y, s) => Same(next, prev, next', prev', y)
  <2>1. Ring(next, prev, h, s) /\ next \in [Links -> Links] /\ prev \in [Links -> Links]
    BY DEF Lists, Types
  <2>2. next' = AddNext(next, prev, h, x) /\ prev' = AddPrev(next, prev, h, x)
    BY DEF LinkLast, AddNext, AddPrev
  <2> QED BY <2>1, <2>2, <1>0, PushRing
<1>2. \A y : In(y, s1) <=> In(y, s) \/ y = x
  BY <1>0, InAppend
<1>3. Ring(next', prev', g, r)
  <2>1. Same(next, prev, next', prev', g)
    BY <1>0, <1>1, HeadsAre, InAreNodes
  <2>2. \A y \in Nodes : In(y, r) => Same(next, prev, next', prev', y)
    BY <1>0, <1>1, HeadsAre DEF Lists
  <2>3. Ring(next, prev, g, r)
    BY DEF Lists
  <2> QED BY <2>1, <2>2, <2>3, RingFrame
<1>4. held' = [held EXCEPT ![t] = Null] /\ held' \in [Threads -> Nodes \cup {Null}]
  BY DEF Types, Holds
<1>5. \A u \in Threads : held[u] # Null /\ u # t => ~In(held[u], s) /\ held[u] # x /\ held[u] \in Nodes
  <2> SUFFICES ASSUME NEW u \in Threads, held[u] # Null, u # t
               PROVE  ~In(held[u], s) /\ held[u] # x /\ held[u] \in Nodes
    OBVIOUS
  <2>1. held[u] \in Nodes /\ next[held[u]] = held[u] /\ held[u] # x
    BY DEF Types, Lists
  <2> QED BY <2>1, NoLoop DEF Lists
<1>7. \A y \in Nodes : ~(In(y, s1) /\ In(y, r))
  BY <1>0, <1>2 DEF Lists
<1>8. \A y \in Nodes : ~In(y, s1) /\ ~In(y, r) => \E u \in Threads : held'[u] = y
  <2> SUFFICES ASSUME NEW y \in Nodes, ~In(y, s1), ~In(y, r)
               PROVE  \E u \in Threads : held'[u] = y
    OBVIOUS
  <2>1. ~In(y, s) /\ y # x
    BY <1>2
  <2>2. PICK u \in Threads : held[u] = y
    BY <2>1 DEF Lists
  <2> QED BY <2>1, <2>2, <1>4 DEF Types
<1>9. ASSUME NEW u \in Threads, held'[u] # Null
      PROVE  next'[held'[u]] = held'[u] /\ prev'[held'[u]] = held'[u]
  <2>1. u # t /\ held'[u] = held[u]
    BY <1>4, <1>9 DEF Types
  <2>2. held[u] \in Nodes /\ ~In(held[u], s) /\ held[u] # x
    BY <2>1, <1>5, <1>9
  <2>3. next[held[u]] = held[u] /\ prev[held[u]] = held[u]
    BY <2>1, <1>9 DEF Lists
  <2> QED BY <2>1, <2>2, <2>3, <1>1, HeadsAre DEF Same
<1>10. \A u, v \in Threads : held'[u] = held'[v] /\ held'[u] # Null => u = v
  BY <1>4 DEF Types, Lists
<1>11. Types'
  BY <1>1, <1>4 DEF Types
<1>12. Lists(h, s1, g, r)'
  <2> HIDE DEF s1
  <2>1. /\ Ring(next', prev', h, s1) /\ Ring(next', prev', g, r)
        /\ \A y \in Nodes : ~(In(y, s1) /\ In(y, r))
        /\ \A y \in Nodes : ~In(y, s1) /\ ~In(y, r) => \E u \in Threads : held'[u] = y
    BY <1>1, <1>3, <1>7, <1>8
  <2>2. \A u \in Threads : held'[u] # Null => next'[held'[u]] = held'[u] /\ prev'[held'[u]] = held'[u]
    BY <1>9
  <2> QED BY <2>1, <2>2, <1>10 DEF Lists
<1> QED BY <1>11, <1>12

-----------------------------------------------------------------------------
\* The whole state, with the lists as fs and us.
Placed(fs, us) ==
    /\ Types /\ Lists(FreeHead, fs, UsedHead, us)
    /\ freeNums = Len(fs) /\ usedNums = Len(us)
    /\ \A t \in Threads : held[t] # Null <=> pc[t] \in {"fill", "work"}

\* What a step does to the sequences, in the words of the pool.
Moves(fs, us, fs1, us1) ==
    \/ \E t \in Threads :
          \/ /\ held[t] = Null /\ fs # <<>>
             /\ held' = [held EXCEPT ![t] = Head(fs)] /\ fs1 = Tail(fs) /\ us1 = us
          \/ /\ held[t] # Null
             /\ held' = [held EXCEPT ![t] = Null] /\ us1 = Append(us, held[t]) /\ fs1 = fs
          \/ /\ held[t] = Null /\ us # <<>>
             /\ held' = [held EXCEPT ![t] = Head(us)] /\ us1 = Tail(us) /\ fs1 = fs
          \/ /\ held[t] # Null
             /\ held' = [held EXCEPT ![t] = Null] /\ fs1 = Append(fs, held[t]) /\ us1 = us
    \/ held' = held /\ fs1 = fs /\ us1 = us

LEMMA EmptyHands ==
    ASSUME Types, NEW t \in Threads, held[t] = Null, NEW x \in Nodes,
           NEW l, l \in {"fill", "work"}, CountersOK,
           \A u \in Threads : held[u] # Null <=> pc[u] \in {"fill", "work"},
           held' = [held EXCEPT ![t] = x], pc' = [pc EXCEPT ![t] = l]
    PROVE  \A u \in Threads : held'[u] # Null <=> pc'[u] \in {"fill", "work"}
BY HeadsAre DEF Types, CountersOK

LEMMA FullHands ==
    ASSUME Types, NEW t \in Threads, NEW l, l \notin {"fill", "work"}, CountersOK,
           \A u \in Threads : held[u] # Null <=> pc[u] \in {"fill", "work"},
           held' = [held EXCEPT ![t] = Null], pc' = [pc EXCEPT ![t] = l]
    PROVE  \A u \in Threads : held'[u] # Null <=> pc'[u] \in {"fill", "work"}
BY DEF Types, CountersOK

\* A step that touches no list.
LEMMA NoList ==
    ASSUME NEW fs, NEW us, Placed(fs, us), CountersOK, NEW t \in Threads, NEW l, NEW k,
           pc[t] = k, k \notin {"fill", "work"}, l \notin {"fill", "work"},
           pc' = [pc EXCEPT ![t] = l], UNCHANGED <<next, prev, freeNums, usedNums, held>>
    PROVE  Placed(fs, us)' /\ Moves(fs, us, fs, us)
<1>1. \A u \in Threads : held'[u] # Null <=> pc'[u] \in {"fill", "work"}
  BY DEF Placed, CountersOK
<1> QED BY <1>1 DEF Placed, Types, Lists, Moves

LEMMA LinkStep ==
    ASSUME NEW fs \in Seq(Nodes), NEW us \in Seq(Nodes), Placed(fs, us), CountersOK, [Next]_vars
    PROVE  \E fs1, us1 \in Seq(Nodes) : Placed(fs1, us1)' /\ Moves(fs, us, fs1, us1)
<1> DEFINE Goal == \E fs1, us1 \in Seq(Nodes) : Placed(fs1, us1)' /\ Moves(fs, us, fs1, us1)
<1>h. /\ FreeHead \in Heads /\ UsedHead \in Heads /\ FreeHead # UsedHead
      /\ Producers \subseteq Threads /\ Consumers \subseteq Threads
  BY DEF Heads, Threads
<1>p. /\ Types /\ Lists(FreeHead, fs, UsedHead, us) /\ Lists(UsedHead, us, FreeHead, fs)
      /\ freeNums = Len(fs) /\ usedNums = Len(us)
      /\ \A t \in Threads : held[t] # Null <=> pc[t] \in {"fill", "work"}
  BY ListsSwap DEF Placed
<1>1. ASSUME NEW t \in Producers, FreePop(t) PROVE Goal
  <2>1. /\ t \in Threads /\ held[t] = Null /\ fs # <<>>
        /\ Unlink(next[FreeHead]) /\ Holds(t, next[FreeHead])
        /\ freeNums' = Len(fs) - 1 /\ usedNums' = Len(us) /\ pc' = [pc EXCEPT ![t] = "fill"]
    BY <1>1, <1>h, <1>p DEF FreePop, Goto
  <2>2. Types' /\ Lists(FreeHead, Tail(fs), UsedHead, us)' /\ next[FreeHead] = Head(fs)
    BY <2>1, <1>h, <1>p, Taken
  <2>3. /\ Tail(fs) \in Seq(Nodes) /\ Len(Tail(fs)) = Len(fs) - 1 /\ Head(fs) \in Nodes
        /\ held' = [held EXCEPT ![t] = Head(fs)]
    BY <2>1, <2>2 DEF Holds
  <2>4. \A u \in Threads : held'[u] # Null <=> pc'[u] \in {"fill", "work"}
    BY <2>1, <2>3, <1>p, EmptyHands
  <2>5. Placed(Tail(fs), us)'
    BY <2>1, <2>2, <2>3, <2>4 DEF Placed
  <2>6. Moves(fs, us, Tail(fs), us)
    BY <2>1, <2>3 DEF Moves
  <2> QED BY <2>3, <2>5, <2>6
<1>2. ASSUME NEW t \in Producers, UsedPush(t) PROVE Goal
  <2>1. PICK x \in Nodes : x = held[t] /\ x # Null
    BY <1>2, <1>h, <1>p DEF UsedPush, Types
  <2>2. /\ t \in Threads /\ LinkLast(x, UsedHead) /\ Holds(t, Null)
        /\ freeNums' = Len(fs) /\ usedNums' = Len(us) + 1 /\ pc' = [pc EXCEPT ![t] = "signal"]
        /\ held' = [held EXCEPT ![t] = Null]
    BY <1>2, <1>h, <1>p, <2>1 DEF UsedPush, Goto, Holds
  <2>3. Types' /\ Lists(UsedHead, Append(us, x), FreeHead, fs)'
    BY <2>1, <2>2, <1>h, <1>p, Given
  <2>4. Append(us, x) \in Seq(Nodes) /\ Len(Append(us, x)) = Len(us) + 1
    BY <2>1
  <2>5. \A u \in Threads : held'[u] # Null <=> pc'[u] \in {"fill", "work"}
    BY <2>2, <1>p, FullHands
  <2>6. Lists(FreeHead, fs, UsedHead, Append(us, x))'
    BY <2>3 DEF Lists
  <2>7. Placed(fs, Append(us, x))'
    BY <2>2, <2>3, <2>4, <2>5, <2>6 DEF Placed
  <2>8. Moves(fs, us, fs, Append(us, x))
    BY <2>1, <2>2 DEF Moves
  <2> QED BY <2>4, <2>7, <2>8
<1>3. ASSUME NEW t \in Producers, Signal(t) PROVE Goal
  <2>1. Placed(fs, us)' /\ Moves(fs, us, fs, us)
    BY <1>3, <1>h, NoList DEF Signal, Goto
  <2> QED BY <2>1
<1>4. ASSUME NEW t \in Consumers, Waitfor(t) \/ Wake(t) PROVE Goal
  <2>1. Placed(fs, us)' /\ Moves(fs, us, fs, us)
    BY <1>4, <1>h, NoList DEF Waitfor, Wake, Goto
  <2> QED BY <2>1
<1>5. ASSUME NEW t \in Consumers, UsedPop(t) PROVE Goal
  <2>1. /\ t \in Threads /\ held[t] = Null /\ us # <<>>
        /\ Unlink(next[UsedHead]) /\ Holds(t, next[UsedHead])
        /\ freeNums' = Len(fs) /\ usedNums' = Len(us) - 1 /\ pc' = [pc EXCEPT ![t] = "work"]
    BY <1>5, <1>h, <1>p DEF UsedPop, Goto
  <2>2. Types' /\ Lists(UsedHead, Tail(us), FreeHead, fs)' /\ next[UsedHead] = Head(us)
    BY <2>1, <1>h, <1>p, Taken
  <2>3. /\ Tail(us) \in Seq(Nodes) /\ Len(Tail(us)) = Len(us) - 1 /\ Head(us) \in Nodes
        /\ held' = [held EXCEPT ![t] = Head(us)]
    BY <2>1, <2>2 DEF Holds
  <2>4. \A u \in Threads : held'[u] # Null <=> pc'[u] \in {"fill", "work"}
    BY <2>1, <2>3, <1>p, EmptyHands
  <2>5. Lists(FreeHead, fs, UsedHead, Tail(us))'
    BY <2>2 DEF Lists
  <2>6. Placed(fs, Tail(us))'
    BY <2>1, <2>2, <2>3, <2>4, <2>5 DEF Placed
  <2>7. Moves(fs, us, fs, Tail(us))
    BY <2>1, <2>3 DEF Moves
  <2> QED BY <2>3, <2>6, <2>7
<1>6. ASSUME NEW t \in Consumers, UsedPopNull(t) PROVE Goal
  <2>1. Placed(fs, us)' /\ Moves(fs, us, fs, us)
    BY <1>6, <1>h, NoList DEF UsedPopNull, Goto
  <2> QED BY <2>1
<1>7. ASSUME NEW t \in Consumers, FreePush(t) PROVE Goal
  <2>1. PICK x \in Nodes : x = held[t] /\ x # Null
    BY <1>7, <1>h, <1>p DEF FreePush, Types
  <2>2. /\ t \in Threads /\ LinkLast(x, FreeHead) /\ Holds(t, Null)
        /\ freeNums' = Len(fs) + 1 /\ usedNums' = Len(us) /\ pc' = [pc EXCEPT ![t] = "idle"]
        /\ held' = [held EXCEPT ![t] = Null]
    BY <1>7, <1>h, <1>p, <2>1 DEF FreePush, Goto, Holds
  <2>3. Types' /\ Lists(FreeHead, Append(fs, x), UsedHead, us)'
    BY <2>1, <2>2, <1>h, <1>p, Given
  <2>4. Append(fs, x) \in Seq(Nodes) /\ Len(Append(fs, x)) = Len(fs) + 1
    BY <2>1
  <2>5. \A u \in Threads : held'[u] # Null <=> pc'[u] \in {"fill", "work"}
    BY <2>2, <1>p, FullHands
  <2>6. Placed(Append(fs, x), us)'
    BY <2>2, <2>3, <2>4, <2>5 DEF Placed
  <2>7. Moves(fs, us, Append(fs, x), us)
    BY <2>1, <2>2 DEF Moves
  <2> QED BY <2>4, <2>6, <2>7
<1>8. CASE UNCHANGED vars
  <2>1. Placed(fs, us)' /\ Moves(fs, us, fs, us)
    BY <1>8 DEF vars, Placed, Types, Lists, Moves
  <2> QED BY <2>1
<1> QED
  BY <1>1, <1>2, <1>3, <1>4, <1>5, <1>6, <1>7, <1>8 DEF Next, Produce, Consume

-----------------------------------------------------------------------------
\* SYS_Queue_Create has put every node into the free list.
LEMMA InitPlaced ==
    ASSUME Init
    PROVE  \E fs \in Seq(Nodes) : Placed(fs, <<>>) /\ fs \in Injection(1 .. Cardinality(Nodes), Nodes)
<1> DEFINE n == Cardinality(Nodes)
           at(s, i) == IF i \in 1 .. n THEN s[i] ELSE FreeHead
           pos(s, x) == CHOOSE i \in 1 .. n : s[i] = x
<1>0. n \in Nat /\ n >= 1 /\ n + 1 \notin 1 .. n /\ IsFiniteSet(Nodes)
  BY Counted, FS_EmptySet
<1>1. PICK s \in [1 .. n -> Nodes] :
         /\ IsInjective(s)
         /\ next = [x \in Links |-> CASE x = UsedHead -> UsedHead
                                      [] x = FreeHead -> at(s, 1)
                                      [] OTHER        -> at(s, pos(s, x) + 1)]
         /\ prev = [x \in Links |-> CASE x = UsedHead -> UsedHead
                                      [] x = FreeHead -> at(s, n)
                                      [] OTHER        -> at(s, pos(s, x) - 1)]
  BY DEF Init
<1>2. s \in Seq(Nodes) /\ Len(s) = n
  BY <1>0, <1>1
<1>3. \A i, j \in 1 .. n : s[i] = s[j] => i = j
  BY <1>1 DEF IsInjective
<1>4. \A x \in Nodes : \E i \in 1 .. n : s[i] = x
  <2>1. s \in Injection(1 .. n, Nodes) /\ n = Cardinality(1 .. n) /\ IsFiniteSet(1 .. n)
    <3>1. s \in Injection(1 .. n, Nodes)
      BY <1>1 DEF Injection
    <3>2. IsFiniteSet(1 .. n) /\ Cardinality(1 .. n) = n
      <4> HIDE DEF n
      <4> QED BY <1>0, FS_Interval
    <3> QED BY <3>1, <3>2
  <2>2. s \in Surjection(1 .. n, Nodes)
    BY <1>0, <2>1, FS_Injection
  <2> QED BY <2>2 DEF Surjection
<1>5. \A i \in 1 .. n : pos(s, s[i]) = i
  BY <1>3
<1>6. \A x \in Nodes : pos(s, x) \in 1 .. n /\ s[pos(s, x)] = x
  BY <1>4
<1>h. /\ UsedHead \in Links /\ FreeHead \in Links /\ FreeHead # UsedHead
      /\ \A x \in Nodes : x \in Links /\ x # UsedHead /\ x # FreeHead
  BY DEF Links
<1>7. /\ next[UsedHead] = UsedHead /\ prev[UsedHead] = UsedHead
      /\ next[FreeHead] = at(s, 1) /\ prev[FreeHead] = at(s, n)
  BY <1>1, <1>h
<1>8. \A x \in Nodes : next[x] = at(s, pos(s, x) + 1) /\ prev[x] = at(s, pos(s, x) - 1)
  BY <1>1, <1>h
<1>9. \A i : at(s, i) = At(FreeHead, s, i) /\ (i \in Nat => at(s, i) \in Links)
  BY <1>1, <1>2, <1>h DEF At
<1>10. ASSUME NEW i \in 0 .. n
       PROVE  next[at(s, i)] = at(s, i + 1) /\ prev[at(s, i + 1)] = at(s, i)
  <2>1. next[at(s, i)] = at(s, i + 1)
    <3>1. CASE i = 0
      <4>1. at(s, i) = FreeHead /\ i + 1 = 1
        BY <3>1
      <4> QED BY <4>1, <1>7
    <3>2. CASE i # 0
      <4>1. i \in 1 .. n
        BY <3>2, <1>0
      <4>2. at(s, i) = s[i] /\ s[i] \in Nodes /\ pos(s, s[i]) = i
        BY <4>1, <1>1, <1>5
      <4> HIDE DEF at, pos
      <4> QED BY <4>2, <1>8
    <3> QED BY <3>1, <3>2
  <2>2. prev[at(s, i + 1)] = at(s, i)
    <3>1. CASE i = n
      <4>1. at(s, i + 1) = FreeHead
        BY <3>1, <1>0
      <4> QED BY <3>1, <4>1, <1>7
    <3>2. CASE i # n
      <4>1. i + 1 \in 1 .. n /\ (i + 1) - 1 = i
        BY <3>2, <1>0
      <4>2. at(s, i + 1) = s[i + 1] /\ s[i + 1] \in Nodes /\ pos(s, s[i + 1]) = i + 1
        BY <4>1, <1>1, <1>5
      <4> HIDE DEF at, pos
      <4> QED BY <4>1, <4>2, <1>8
    <3> QED BY <3>1, <3>2
  <2> QED BY <2>1, <2>2
<1> HIDE DEF at, pos
<1>11. Ring(next, prev, FreeHead, s)
  BY <1>2, <1>3, <1>9, <1>10 DEF Ring
<1>12. Ring(next, prev, UsedHead, <<>>)
  BY <1>7, EmptyRing
<1>13. \A x \in Nodes : In(x, s) /\ ~In(x, <<>>)
  BY <1>2, <1>4 DEF In
<1>14. held = [t \in Threads |-> Null] /\ pc = [t \in Threads |-> "idle"]
       /\ freeNums = n /\ usedNums = 0
  BY DEF Init
<1>15. Types
  <2>1. \A x \in Nodes : pos(s, x) + 1 \in Nat /\ pos(s, x) - 1 \in Nat
    BY <1>0, <1>6
  <2>2. \A x \in Links : next[x] \in Links /\ prev[x] \in Links
    <3> SUFFICES ASSUME NEW x \in Links PROVE next[x] \in Links /\ prev[x] \in Links
      OBVIOUS
    <3>1. CASE x \in Nodes
      BY <3>1, <2>1, <1>8, <1>9
    <3>2. CASE x \notin Nodes
      BY <3>2, <1>0, <1>7, <1>9, <1>h DEF Links
    <3> QED BY <3>1, <3>2
  <2>3. \E f, g : next = [x \in Links |-> f[x]] /\ prev = [x \in Links |-> g[x]]
    <3>1. next = [x \in Links |-> next[x]] /\ prev = [x \in Links |-> prev[x]]
      BY <1>1
    <3> QED BY <3>1
  <2> QED BY <2>2, <2>3, <1>14 DEF Types
<1>16. Lists(FreeHead, s, UsedHead, <<>>)
  BY <1>11, <1>12, <1>13, <1>14 DEF Lists
<1>17. Placed(s, <<>>)
  BY <1>2, <1>14, <1>15, <1>16 DEF Placed
<1> QED BY <1>1, <1>2, <1>17 DEF Injection

\* A link of a ring is where its neighbours point to.
LEMMA RingCloses ==
    ASSUME NEW nx, NEW pv, NEW h \in Heads, NEW s \in Seq(Nodes), Ring(nx, pv, h, s),
           NEW x, x = h \/ In(x, s)
    PROVE  pv[nx[x]] = x /\ nx[pv[x]] = x
<1>0. Len(s) \in Nat /\ 0 \in 0 .. Len(s) /\ Len(s) \in 0 .. Len(s)
  OBVIOUS
<1>1. CASE x = h
  <2>1. At(h, s, 0) = h /\ At(h, s, Len(s) + 1) = h
    BY <1>0 DEF At
  <2> QED BY <1>0, <1>1, <2>1 DEF Ring
<1>2. CASE In(x, s)
  <2>1. PICK i \in 1 .. Len(s) : x = At(h, s, i)
    BY <1>2 DEF In, At
  <2>2. i \in 0 .. Len(s) /\ i - 1 \in 0 .. Len(s) /\ (i - 1) + 1 = i
    BY <1>0
  <2> QED BY <2>1, <2>2 DEF Ring
<1> QED BY <1>1, <1>2

LinksOK == \E fs, us \in Seq(Nodes) : Placed(fs, us)

LEMMA LinksCorrect == Spec => [](CountersOK /\ LinksOK)
<1>1. Init => LinksOK
  <2> SUFFICES ASSUME Init PROVE LinksOK
    OBVIOUS
  <2>1. <<>> \in Seq(Nodes)
    OBVIOUS
  <2> QED BY <2>1, InitPlaced DEF LinksOK
<1>2. CountersOK /\ LinksOK /\ [Next]_vars => LinksOK'
  BY LinkStep DEF LinksOK
<1> QED BY <1>1, <1>2, CountCorrect, PTL DEF Spec

(* Every pointer points to a head or a node of the pool, whatever the      *)
(* callers do, and the counters do not go below zero (Queue.cpp:28-142).   *)
THEOREM TypeCorrect == Spec => []TypeOK
<1>1. CountersOK /\ LinksOK => TypeOK
  BY DEF CountersOK, LinksOK, Placed, Types, TypeOK, ProducerLabels, ConsumerLabels
<1> QED BY <1>1, LinksCorrect, PTL

(* For any pool and any callers, every link can be followed back: the two  *)
(* lists stay rings in both directions, and the node a caller works on is  *)
(* in neither of them (Queue.cpp:28-142).                                  *)
THEOREM RingsStayClosed == Spec => []RingsClosed
<1>1. LinksOK => RingsClosed
  <2> SUFFICES ASSUME NEW fs \in Seq(Nodes), NEW us \in Seq(Nodes), Placed(fs, us),
                      NEW x \in Links
               PROVE  prev[next[x]] = x /\ next[prev[x]] = x
    BY DEF LinksOK, RingsClosed
  <2>1. CASE x = FreeHead \/ In(x, fs)
    BY <2>1, RingCloses DEF Placed, Lists, Heads
  <2>2. CASE x = UsedHead \/ In(x, us)
    BY <2>2, RingCloses DEF Placed, Lists, Heads
  <2>3. CASE x \in Nodes /\ ~In(x, fs) /\ ~In(x, us)
    <3>1. PICK t \in Threads : held[t] = x
      BY <2>3 DEF Placed, Lists
    <3>2. next[x] = x /\ prev[x] = x
      BY <2>3, <3>1, HeadsAre DEF Placed, Lists
    <3> QED BY <3>2
  <2> QED BY <2>1, <2>2, <2>3 DEF Links
<1> QED BY <1>1, LinksCorrect, PTL

-----------------------------------------------------------------------------
\* Chain follows the next pointers one node at a time; the steps of its walk.
Size == Cardinality(Nodes)

Goes(nx, h, k, p) ==
    IF k = 0 THEN <<h, <<>>>>
    ELSE IF nx[p[1]] \in Nodes /\ (k = 1 \/ p[1] # h)
         THEN <<nx[p[1]], Append(p[2], nx[p[1]])>>
         ELSE <<h, p[2]>>

Follows(nx, h, w) == w = [k \in 0 .. Size |-> Goes(nx, h, k, w[k - 1])]

LEMMA ChainWalks ==
    ASSUME NEW h
    PROVE  Chain(h) = (CHOOSE w : Follows(next, h, w))[Size][2]
BY DEF Chain, Follows, Goes, Size

\* The first k nodes of s.
Upto(s, k) == [i \in 1 .. k |-> s[i]]

LEMMA UptoGrows ==
    ASSUME NEW s \in Seq(Nodes)
    PROVE  /\ Upto(s, 0) = <<>> /\ Upto(s, Len(s)) = s
           /\ \A k \in 1 .. Len(s) : Append(Upto(s, k - 1), s[k]) = Upto(s, k)
<1>1. Upto(s, 0) = <<>> /\ Upto(s, Len(s)) = s
  BY DEF Upto
<1>2. ASSUME NEW k \in 1 .. Len(s) PROVE Append(Upto(s, k - 1), s[k]) = Upto(s, k)
  <2> DEFINE u == Upto(s, k - 1)
             v == Upto(s, k)
  <2>1. k \in Nat /\ k - 1 \in Nat /\ \A i \in 1 .. k : i \in 1 .. Len(s)
    OBVIOUS
  <2>2. u \in Seq(Nodes) /\ Len(u) = k - 1 /\ v \in Seq(Nodes) /\ Len(v) = k
    BY <2>1 DEF Upto
  <2>3. \A i \in 1 .. k : Append(u, s[k])[i] = v[i]
    BY <2>1, <2>2 DEF Upto
  <2>4. Append(u, s[k]) \in Seq(Nodes) /\ Len(Append(u, s[k])) = k
    BY <2>1, <2>2
  <2> QED BY <2>2, <2>3, <2>4, SeqEqual
<1> QED BY <1>1, <1>2

LEMMA Least ==
    ASSUME NEW T, T \subseteq Nat, T # {} PROVE \E x \in T : \A y \in T : x <= y
<1> DEFINE R == OpToRel(<, Nat)
<1>1. IsWellFoundedOn(R, Nat)
  BY NatLessThanWellFounded
<1>2. \A x, y \in T : <<y, x>> \in R <=> y < x
  BY DEF OpToRel
<1> HIDE DEF R
<1>3. PICK x \in T : \A y \in T : ~ (<<y, x>> \in R)
  BY <1>1, WFMin
<1>4. \A y \in T : ~ (y < x)
  BY <1>2, <1>3
<1> QED BY <1>4

\* Along a ring the walk collects its nodes, and then stays at the head.
Collected(h, s) ==
    [k \in 0 .. Size |-> IF k <= Len(s) THEN <<At(h, s, k), Upto(s, k)>> ELSE <<h, s>>]

LEMMA CollectedFollows ==
    ASSUME NEW nx, NEW pv, NEW h \in Heads, NEW s \in Seq(Nodes), Ring(nx, pv, h, s)
    PROVE  Follows(nx, h, Collected(h, s))
<1> DEFINE c == Collected(h, s)
<1>0. Len(s) \in Nat /\ Size \in Nat /\ h \notin Nodes
  BY Counted, HeadsAre DEF Size
<1>c. \A k \in 0 .. Size : /\ k <= Len(s) => c[k] = <<At(h, s, k), Upto(s, k)>>
                           /\ ~(k <= Len(s)) => c[k] = <<h, s>>
  BY DEF Collected
<1>f. c = [k \in 0 .. Size |-> c[k]]
  BY DEF Collected
<1>u. Upto(s, 0) = <<>> /\ Upto(s, Len(s)) = s
  BY UptoGrows
<1> HIDE DEF c
<1>1. ASSUME NEW k \in 0 .. Size PROVE c[k] = Goes(nx, h, k, c[k - 1])
  <2>1. CASE k = 0
    <3>1. c[0] = <<At(h, s, 0), Upto(s, 0)>>
      BY <1>0, <1>c
    <3>2. c[0] = <<h, <<>>>>
      BY <3>1, <1>u DEF At
    <3> QED BY <2>1, <3>2 DEF Goes
  <2>2. CASE k # 0 /\ k <= Len(s)
    <3>1. k \in 1 .. Len(s) /\ k - 1 \in 0 .. Len(s) /\ k - 1 \in 0 .. Size /\ (k - 1) + 1 = k
          /\ k - 1 <= Len(s)
      BY <2>2, <1>0
    <3>2. c[k] = <<s[k], Upto(s, k)>> /\ c[k - 1] = <<At(h, s, k - 1), Upto(s, k - 1)>>
          /\ At(h, s, k) = s[k]
      BY <1>c, <2>2, <3>1 DEF At
    <3>3. nx[At(h, s, k - 1)] = s[k] /\ s[k] \in Nodes
      <4>1. nx[At(h, s, k - 1)] = At(h, s, (k - 1) + 1)
        BY <3>1 DEF Ring
      <4> QED BY <4>1, <3>1, <3>2
    <3>4. k = 1 \/ At(h, s, k - 1) # h
      <4>1. CASE k # 1
        <5>1. k - 1 \in 1 .. Len(s)
          BY <4>1, <3>1
        <5> QED BY <5>1, <1>0 DEF At
      <4> QED BY <4>1
    <3>5. Append(Upto(s, k - 1), s[k]) = Upto(s, k)
      BY <3>1, UptoGrows
    <3>6. Goes(nx, h, k, c[k - 1]) = <<s[k], Append(Upto(s, k - 1), s[k])>>
      BY <2>2, <3>2, <3>3, <3>4 DEF Goes
    <3> QED BY <3>2, <3>5, <3>6
  <2>3. CASE k # 0 /\ k > Len(s)
    <3>1. k - 1 \in 0 .. Size /\ ~(k <= Len(s)) /\ c[k] = <<h, s>>
      BY <2>3, <1>0, <1>c
    <3>2. CASE k - 1 = Len(s)
      <4>1. c[k - 1] = <<At(h, s, Len(s)), s>>
        <5>1. k - 1 <= Len(s) /\ k - 1 \in 0 .. Size
          BY <1>0, <3>1, <3>2
        <5>2. c[k - 1] = <<At(h, s, k - 1), Upto(s, k - 1)>>
          BY <1>c, <5>1
        <5> QED BY <5>2, <3>2, <1>u
      <4>2. nx[At(h, s, Len(s))] = h
        <5>1. nx[At(h, s, Len(s))] = At(h, s, Len(s) + 1) /\ Len(s) + 1 \notin 1 .. Len(s)
          BY <1>0 DEF Ring
        <5> QED BY <5>1 DEF At
      <4> QED BY <1>0, <2>3, <3>1, <4>1, <4>2 DEF Goes
    <3>3. CASE k - 1 # Len(s)
      <4>1. k # 1 /\ ~(k - 1 <= Len(s))
        BY <2>3, <3>3, <1>0
      <4>2. c[k - 1] = <<h, s>>
        BY <1>c, <3>1, <4>1
      <4> QED BY <2>3, <3>1, <4>1, <4>2 DEF Goes
    <3> QED BY <3>2, <3>3
  <2> QED BY <2>1, <2>2, <2>3, <1>0
<1>2. Follows(nx, h, c)
  BY <1>1, <1>f DEF Follows
<1> QED BY <1>2 DEF c

\* There is only one walk: the first place where two of them differ follows
\* from the one before it.
LEMMA OneWalk ==
    ASSUME NEW nx, NEW h, NEW v, NEW w, Follows(nx, h, v), Follows(nx, h, w)
    PROVE  v = w
<1> DEFINE T == {k \in 0 .. Size : v[k] # w[k]}
<1>0. Size \in Nat
  BY Counted DEF Size
<1>1. \A k \in 0 .. Size : /\ v[k] = Goes(nx, h, k, v[k - 1])
                           /\ w[k] = Goes(nx, h, k, w[k - 1])
  BY DEF Follows
<1>2. ASSUME T # {} PROVE FALSE
  <2>1. T \subseteq Nat
    BY <1>0
  <2>2. PICK k \in T : \A j \in T : k <= j
    <3> HIDE DEF T
    <3> QED BY <1>2, <2>1, Least
  <2>3. k \in 0 .. Size /\ v[k] # w[k]
    OBVIOUS
  <2>4. CASE k = 0
    BY <1>1, <2>3, <2>4 DEF Goes
  <2>5. CASE k # 0
    <3>1. k - 1 \in 0 .. Size /\ ~(k <= k - 1)
      BY <1>0, <2>3, <2>5
    <3>2. v[k - 1] = w[k - 1]
      BY <2>2, <3>1
    <3> QED BY <1>1, <2>3, <3>2
  <2> QED BY <2>4, <2>5
<1>3. \A k \in 0 .. Size : v[k] = w[k]
  BY <1>2
<1>4. v = [k \in 0 .. Size |-> v[k]] /\ w = [k \in 0 .. Size |-> w[k]]
  BY DEF Follows
<1> HIDE DEF T
<1> QED BY <1>3, <1>4

LEMMA ChainIs ==
    ASSUME NEW h \in Heads, NEW s \in Seq(Nodes), Ring(next, prev, h, s), Len(s) <= Size
    PROVE  Chain(h) = s
<1> DEFINE w == CHOOSE w : Follows(next, h, w)
<1>1. Follows(next, h, Collected(h, s))
  BY CollectedFollows
<1>2. Follows(next, h, w)
  BY <1>1
<1> HIDE DEF w
<1>3. w = Collected(h, s)
  BY <1>1, <1>2, OneWalk
<1>4. Collected(h, s)[Size][2] = s
  <2>1. Size \in Nat /\ Size \in 0 .. Size /\ Len(s) \in Nat
    BY Counted DEF Size
  <2>2. CASE Len(s) = Size
    BY <2>1, <2>2, UptoGrows DEF Collected
  <2>3. CASE Len(s) # Size
    BY <2>1, <2>3 DEF Collected
  <2> QED BY <2>2, <2>3
<1> QED BY <1>3, <1>4, ChainWalks DEF w

LEMMA ChainsAre ==
    ASSUME NEW fs \in Seq(Nodes), NEW us \in Seq(Nodes), Placed(fs, us), CountersOK, Conserved
    PROVE  Chain(FreeHead) = fs /\ Chain(UsedHead) = us
<1>1. Len(fs) <= Size /\ Len(us) <= Size
  BY Counted DEF Placed, Conserved, CountersOK, Size
<1> QED BY <1>1, ChainIs DEF Placed, Lists, Heads

ChainsRight ==
    \A fs, us \in Seq(Nodes) : Placed(fs, us) /\ CountersOK /\ Conserved
                                => Chain(FreeHead) = fs /\ Chain(UsedHead) = us

LEMMA ChainsAreRight == ChainsRight
BY ChainsAre DEF ChainsRight

(* For any pool and any callers, no node is lost and none is in two places, *)
(* and the two counters are right, which is what uiFreeNums is there to     *)
(* show (Queue.h:40).                                                       *)
THEOREM NoNodeIsLost == Spec => []NodesConserved
<1>1. CountersOK /\ Conserved /\ LinksOK => NodesConserved
  <2> SUFFICES ASSUME CountersOK, Conserved,
                      NEW fs \in Seq(Nodes), NEW us \in Seq(Nodes), Placed(fs, us)
               PROVE  NodesConserved
    BY DEF LinksOK
  <2> DEFINE holders == {t \in Threads : held[t] # Null}
  <2>1. Chain(FreeHead) = fs /\ Chain(UsedHead) = us
    BY ChainsAre
  <2>2. holders = Busy
    BY DEF Placed, Busy
  <2>3. \A x : (x \in ToSet(fs) <=> In(x, fs)) /\ (x \in ToSet(us) <=> In(x, us))
    BY DEF ToSet, In
  <2>4. ToSet(fs) \cup ToSet(us) \cup {held[t] : t \in holders} = Nodes
    <3>1. \A x \in Nodes : In(x, fs) \/ In(x, us) \/ \E t \in holders : held[t] = x
      BY HeadsAre DEF Placed, Lists
    <3>2. \A t \in holders : held[t] \in Nodes
      BY DEF Placed, Types
    <3>3. \A x : In(x, fs) \/ In(x, us) => x \in Nodes
      BY InAreNodes
    <3> QED BY <2>3, <3>1, <3>2, <3>3
  <2>5. freeNums = Len(fs) /\ usedNums = Len(us)
    BY DEF Placed
  <2> QED BY <2>1, <2>2, <2>4, <2>5 DEF NodesConserved, Conserved
<1> QED BY <1>1, CountCorrect, LinksCorrect, PTL

(* For any pool and any callers, the linked lists with their counters and   *)
(* critical sections implement the pool of PacketPool: nodes are handed out *)
(* and packets received in the order in which they were put back and sent   *)
(* ("receive and send order must be kept", Queue.cpp:187).                  *)
THEOREM PoolImplemented == Spec => PoolSpec
<1>1. Init /\ CountersOK /\ Conserved => Pool!Init
  <2> SUFFICES ASSUME Init, CountersOK, Conserved PROVE Pool!Init
    OBVIOUS
  <2>1. PICK fs \in Seq(Nodes) :
           Placed(fs, <<>>) /\ fs \in Injection(1 .. Cardinality(Nodes), Nodes)
    BY InitPlaced
  <2>2. Chain(FreeHead) = fs /\ Chain(UsedHead) = <<>>
    <3>1. <<>> \in Seq(Nodes)
      OBVIOUS
    <3> QED BY <2>1, <3>1, ChainsAre
  <2>3. /\ fs \in [1 .. Cardinality(Nodes) -> Nodes]
        /\ \A i, j \in DOMAIN fs : fs[i] = fs[j] => i = j
    BY <2>1 DEF Injection, IsInjective
  <2>4. held = [t \in Threads |-> Null]
    BY DEF Init
  <2>5. fs \in {s \in [1 .. Cardinality(Nodes) -> Nodes] :
                   \A i, j \in DOMAIN s : s[i] = s[j] => i = j}
    BY <2>3
  <2>6. Cardinality(Nodes) = Pool!Cardinality(Nodes)
    BY DEF Cardinality, Pool!Cardinality
  <2> QED BY <2>2, <2>4, <2>5, <2>6 DEF Pool!Init
<1>2. /\ CountersOK /\ Conserved /\ LinksOK /\ [Next]_vars
      /\ CountersOK' /\ Conserved'
      => [Pool!Next]_(Pool!vars)
  <2> SUFFICES ASSUME CountersOK, Conserved, [Next]_vars, CountersOK', Conserved',
                      NEW fs \in Seq(Nodes), NEW us \in Seq(Nodes), Placed(fs, us)
               PROVE  [Pool!Next]_(Pool!vars)
    BY DEF LinksOK
  <2>1. PICK fs1, us1 \in Seq(Nodes) : Placed(fs1, us1)' /\ Moves(fs, us, fs1, us1)
    BY LinkStep
  <2>2. Chain(FreeHead) = fs /\ Chain(UsedHead) = us
    BY ChainsAre
  <2>3. Chain(FreeHead)' = fs1 /\ Chain(UsedHead)' = us1
    <3>1. ChainsRight'
      BY ChainsAreRight, PTL
    <3> QED BY <2>1, <3>1 DEF ChainsRight
  <2>4. CASE held' = held /\ fs1 = fs /\ us1 = us
    BY <2>2, <2>3, <2>4 DEF Pool!vars
  <2>5. CASE ~(held' = held /\ fs1 = fs /\ us1 = us)
    <3>1. Pool!Next
      BY <2>1, <2>2, <2>3, <2>5
         DEF Moves, Pool!Next, Pool!Allocate, Pool!Send, Pool!Receive, Pool!Recycle, Pool!Holding
    <3> QED BY <3>1
  <2> QED BY <2>4, <2>5
<1> QED BY <1>1, <1>2, CountCorrect, LinksCorrect, PTL DEF Spec, PoolSpec, Pool!Spec

-----------------------------------------------------------------------------
(* The life of the queue.                                                  *)

\* The nodes that are in a list or in a caller's hands.
Kept(fs, us) == {x \in Nodes : In(x, fs) \/ In(x, us) \/ \E t \in Threads : held[t] = x}

\* The lists and the memory, whoever is at work.
Built(fs, us) ==
    /\ Types
    /\ Ring(next, prev, FreeHead, fs) /\ Ring(next, prev, UsedHead, us)
    /\ \A x \in Nodes : ~(In(x, fs) /\ In(x, us))
    /\ \A x \in Nodes : ~In(x, fs) /\ ~In(x, us) => next[x] = x /\ prev[x] = x
    /\ \A t \in Threads : ~In(held[t], fs) /\ ~In(held[t], us)
    /\ freeNums = Len(fs) /\ usedNums = Len(us)
    /\ made = Kept(fs, us)

EmptyHanded == \A t \in Threads : held[t] = Null

\* What the owner knows at each stage.
Stage(fs, us) ==
    /\ life \in {"none", "making", "up", "freeing", "gone"}
    /\ parts \subseteq Parts
    /\ life \in {"none", "making"} =>
          /\ us = <<>> /\ pc = [t \in Threads |-> "idle"] /\ EmptyHanded
          /\ sem = IF signalled THEN 1 ELSE 0
    /\ life = "none" => fs = <<>> /\ parts = {}
    /\ life = "up" => Placed(fs, us) /\ CountersOK
    /\ life \in {"freeing", "gone"} => ~signalled
    /\ life = "freeing" /\ Quiet => EmptyHanded
    /\ life = "gone" => "queue" \notin parts
    /\ life = "gone" /\ Quiet => made = {}

LifeOK == \E fs, us \in Seq(Nodes) : Built(fs, us) /\ Stage(fs, us)

LEMMA EmptyIn == \A x : ~In(x, <<>>)
BY DEF In

LEMMA NullIn == \A s \in Seq(Nodes) : ~In(Null, s)
BY InAreNodes DEF Links

\* While the callers work, the pool is all there is.
LEMMA PlacedIsBuilt ==
    ASSUME NEW fs \in Seq(Nodes), NEW us \in Seq(Nodes), Placed(fs, us), made = Nodes
    PROVE  Built(fs, us)
<1>1. Types /\ Lists(FreeHead, fs, UsedHead, us) /\ freeNums = Len(fs) /\ usedNums = Len(us)
  BY DEF Placed
<1>2. \A x \in Nodes : ~In(x, fs) /\ ~In(x, us) => next[x] = x /\ prev[x] = x
  BY <1>1, HeadsAre DEF Lists
<1>3. ASSUME NEW t \in Threads PROVE ~In(held[t], fs) /\ ~In(held[t], us)
  <2>1. CASE held[t] = Null
    BY <2>1, NullIn
  <2>2. CASE held[t] # Null
    BY <2>2, <1>1, NoLoop DEF Types, Lists, Heads
  <2> QED BY <2>1, <2>2
<1>4. made = Kept(fs, us)
  BY <1>1 DEF Lists, Kept
<1> QED BY <1>1, <1>2, <1>3, <1>4 DEF Built, Lists

PlacedMeansBuilt ==
    \A fs, us \in Seq(Nodes) : Placed(fs, us) /\ made = Nodes => Built(fs, us)

LEMMA PlacedIsBuiltNow == PlacedMeansBuilt
BY PlacedIsBuilt DEF PlacedMeansBuilt

LEMMA PlacedIsBuiltThen == PlacedMeansBuilt'
BY PlacedIsBuiltNow, PTL

\* A pool that is complete and that nobody works with yet.
LEMMA BuiltIsPlaced ==
    ASSUME NEW fs \in Seq(Nodes), Built(fs, <<>>), made = Nodes,
           EmptyHanded, pc = [t \in Threads |-> "idle"]
    PROVE  Placed(fs, <<>>)
<1>1. \A x \in Nodes : In(x, fs)
  BY EmptyIn, HeadsAre DEF Built, Kept, EmptyHanded
<1> QED BY <1>1, EmptyIn DEF Built, Placed, Lists, EmptyHanded

LEMMA BuiltKept ==
    ASSUME NEW fs, NEW us, Built(fs, us), UNCHANGED <<next, prev, freeNums, usedNums, held, made>>
    PROVE  Built(fs, us)'
BY DEF Built, Types, Kept

-----------------------------------------------------------------------------
\* SYS_Queue_Create puts a new node at the end of the free list.
LEMMA NodeMade ==
    ASSUME NEW fs \in Seq(Nodes), Built(fs, <<>>), EmptyHanded,
           NEW n \in Nodes, n \notin made, LinkLast(n, FreeHead),
           freeNums' = freeNums + 1, usedNums' = usedNums, held' = held,
           made' = made \cup {n}
    PROVE  Built(Append(fs, n), <<>>)'
<1> DEFINE s == Append(fs, n)
<1>1. next[n] = n /\ prev[n] = n /\ ~In(n, fs)
  BY EmptyIn DEF Built, Kept
<1>2. next' = AddNext(next, prev, FreeHead, n) /\ prev' = AddPrev(next, prev, FreeHead, n)
  BY DEF LinkLast, AddNext, AddPrev
<1>3. /\ Ring(next', prev', FreeHead, s)
      /\ next' \in [Links -> Links] /\ prev' \in [Links -> Links]
      /\ \A y \in Links : y # FreeHead /\ y # n /\ ~In(y, fs) => Same(next, prev, next', prev', y)
  BY <1>1, <1>2, PushRing DEF Built, Types, Heads
<1>4. s \in Seq(Nodes) /\ Len(s) = Len(fs) + 1 /\ \A y : In(y, s) <=> In(y, fs) \/ y = n
  BY InAppend
<1> HIDE DEF s
<1>5. Ring(next', prev', UsedHead, <<>>)
  <2>1. Same(next, prev, next', prev', UsedHead)
    BY <1>3, HeadsAre, InAreNodes DEF Heads
  <2>2. <<>> \in Seq(Nodes) /\ Ring(next, prev, UsedHead, <<>>)
    BY DEF Built
  <2> QED BY <2>1, <2>2, EmptyIn, RingFrame DEF Heads
<1>6. \A x \in Nodes : ~In(x, s) => next'[x] = x /\ prev'[x] = x
  BY <1>3, <1>4, EmptyIn, HeadsAre DEF Built, Same, Heads
<1>7. \A t \in Threads : held'[t] = Null
  BY DEF EmptyHanded
<1>8. \A t \in Threads : ~In(held'[t], s) /\ ~In(held'[t], <<>>)
  BY <1>4, <1>7, NullIn, EmptyIn
<1>9. made' = {x \in Nodes : In(x, s) \/ In(x, <<>>) \/ \E t \in Threads : held'[t] = x}
  BY <1>4 DEF Built, Kept
<1>10. freeNums' = Len(s) /\ usedNums' = Len(<<>>) /\ held' \in [Threads -> Nodes \cup {Null}]
  BY <1>4 DEF Built, Types
<1>11. Built(s, <<>>)'
  BY <1>3, <1>5, <1>6, <1>8, <1>9, <1>10, EmptyIn DEF Built, Types, Kept
<1> QED BY <1>11 DEF s

LEMMA FirstUnlinked ==
    ASSUME Types, NEW h \in Heads, NEW s \in Seq(Nodes), s # <<>>,
           Ring(next, prev, h, s), Unlink(next[h])
    PROVE  /\ next[h] = Head(s) /\ next[h] \in Nodes /\ Ring(next', prev', h, Tail(s))
           /\ next' \in [Links -> Links] /\ prev' \in [Links -> Links]
           /\ next'[next[h]] = next[h] /\ prev'[next[h]] = next[h]
           /\ \A y \in Links : y # h /\ ~In(y, s) => Same(next, prev, next', prev', y)
<1> DEFINE x == next[h]
<1>1. next' = UnNext(next, prev, x) /\ prev' = UnPrev(next, prev, x)
  BY DEF Unlink, UnNext, UnPrev
<1>2. next \in [Links -> Links] /\ prev \in [Links -> Links]
  BY DEF Types
<1> HIDE DEF x
<1>3. x = next[h]
  BY DEF x
<1> QED BY <1>1, <1>2, <1>3, PopRing

\* SYS_Queue_Free takes the first node out of a list.
LEMMA NodeFreed ==
    ASSUME Types, NEW h \in Heads, NEW g \in Heads, h # g,
           NEW s \in Seq(Nodes), NEW r \in Seq(Nodes), s # <<>>,
           Ring(next, prev, h, s), Ring(next, prev, g, r),
           \A x \in Nodes : ~(In(x, s) /\ In(x, r)),
           \A x \in Nodes : ~In(x, s) /\ ~In(x, r) => next[x] = x /\ prev[x] = x,
           \A t \in Threads : ~In(held[t], s) /\ ~In(held[t], r),
           Unlink(next[h]), held' = held
    PROVE  /\ Types'
           /\ Ring(next', prev', h, Tail(s)) /\ Ring(next', prev', g, r)
           /\ Tail(s) \in Seq(Nodes) /\ Len(Tail(s)) = Len(s) - 1
           /\ \A x : In(x, Tail(s)) <=> In(x, s) /\ x # next[h]
           /\ In(next[h], s)
           /\ \A x \in Nodes : ~In(x, Tail(s)) /\ ~In(x, r) => next'[x] = x /\ prev'[x] = x
<1> DEFINE x == next[h]
<1>1. /\ x = Head(s) /\ x \in Nodes /\ Ring(next', prev', h, Tail(s))
      /\ next' \in [Links -> Links] /\ prev' \in [Links -> Links]
      /\ next'[x] = x /\ prev'[x] = x
      /\ \A y \in Links : y # h /\ ~In(y, s) => Same(next, prev, next', prev', y)
  BY FirstUnlinked
<1>2. \A y : In(y, Tail(s)) <=> In(y, s) /\ y # x
  BY <1>1, InTail DEF Ring
<1>3. In(x, s)
  BY <1>1 DEF In
<1>4. Ring(next', prev', g, r)
  <2>1. Same(next, prev, next', prev', g)
    BY <1>1, HeadsAre, InAreNodes
  <2>2. \A y \in Nodes : In(y, r) => Same(next, prev, next', prev', y)
    BY <1>1, HeadsAre
  <2> QED BY <2>1, <2>2, RingFrame
<1>5. ASSUME NEW y \in Nodes, ~In(y, Tail(s)), ~In(y, r) PROVE next'[y] = y /\ prev'[y] = y
  <2>1. CASE y = x
    BY <2>1, <1>1
  <2>2. CASE y # x
    BY <2>2, <1>1, <1>2, <1>5, HeadsAre DEF Same
  <2> QED BY <2>1, <2>2
<1>6. Tail(s) \in Seq(Nodes) /\ Len(Tail(s)) = Len(s) - 1
  OBVIOUS
<1>7. Types'
  BY <1>1 DEF Types
<1> QED BY <1>1, <1>2, <1>3, <1>4, <1>5, <1>6, <1>7

-----------------------------------------------------------------------------
\* What the callers do, with a semaphore or without one.
LEMMA WorkStep ==
    ASSUME NEW fs \in Seq(Nodes), NEW us \in Seq(Nodes), Placed(fs, us), CountersOK,
           NEW t \in Threads, Work(t) \/ WorkUnsignalled(t)
    PROVE  CountersOK' /\ \E fs1, us1 \in Seq(Nodes) : Placed(fs1, us1)'
<1>1. \/ Next
      \/ /\ pc[t] = "signal" /\ Goto(t, "idle")
         /\ UNCHANGED <<next, prev, freeNums, usedNums, sem, held>>
  BY DEF Work, WorkUnsignalled, Next, Produce, Consume, Threads
<1>2. \E fs1, us1 \in Seq(Nodes) : Placed(fs1, us1)'
  <2>1. CASE Next
    BY <2>1, LinkStep
  <2>2. CASE pc[t] = "signal" /\ Goto(t, "idle")
             /\ UNCHANGED <<next, prev, freeNums, usedNums, sem, held>>
    <3>1. Placed(fs, us)'
      BY <2>2, NoList DEF Goto
    <3> QED BY <3>1
  <2> QED BY <1>1, <2>1, <2>2
<1>3. freeNums' \in Nat /\ usedNums' \in Nat
  BY <1>2 DEF Placed
<1>4. sem' \in 0 .. SemMax
  BY <1>1 DEF CountersOK, Next, Produce, Consume, FreePop, UsedPush, Signal, Waitfor, Wake, UsedPop,
              UsedPopNull, FreePush
<1>5. PICK u \in Threads, l \in ProducerLabels \cup ConsumerLabels :
         /\ pc' = [pc EXCEPT ![u] = l]
         /\ u \in Producers => l \in ProducerLabels
         /\ u \in Consumers => l \in ConsumerLabels
  BY <1>1 DEF Next, Produce, Consume, FreePop, UsedPush, Signal, Waitfor, Wake, UsedPop, UsedPopNull,
              FreePush, Goto, Threads, ProducerLabels, ConsumerLabels
<1>6. CountersOK'
  BY <1>3, <1>4, <1>5 DEF CountersOK
<1> QED BY <1>2, <1>6

LEMMA LifeInitOK == LifeInit => LifeOK
<1> SUFFICES ASSUME LifeInit PROVE LifeOK
  OBVIOUS
<1>1. <<>> \in Seq(Nodes)
  OBVIOUS
<1>2. Ring(next, prev, FreeHead, <<>>) /\ Ring(next, prev, UsedHead, <<>>)
  <2>1. \A h \in Heads : next[h] = h /\ prev[h] = h
    BY HeadsAre DEF LifeInit
  <2> QED BY <2>1, EmptyRing DEF Heads
<1>3. Types /\ \A x \in Nodes : next[x] = x /\ prev[x] = x
  BY HeadsAre DEF LifeInit, Types
<1>4. EmptyHanded /\ Kept(<<>>, <<>>) = {}
  BY EmptyIn, HeadsAre DEF EmptyHanded, Kept, LifeInit
<1>5. Built(<<>>, <<>>)
  BY <1>2, <1>3, <1>4, EmptyIn DEF Built, LifeInit
<1>6. Stage(<<>>, <<>>)
  BY <1>4 DEF Stage, signalled, LifeInit
<1> QED BY <1>1, <1>5, <1>6 DEF LifeOK

LEMMA LifeStep == LifeOK /\ [LifeNext]_lifeVars => LifeOK'
<1> SUFFICES ASSUME NEW fs \in Seq(Nodes), NEW us \in Seq(Nodes), Built(fs, us), Stage(fs, us),
                    [LifeNext]_lifeVars
             PROVE  \E fs1, us1 \in Seq(Nodes) : Built(fs1, us1)' /\ Stage(fs1, us1)'
  BY DEF LifeOK
<1> DEFINE Goal == \E fs1, us1 \in Seq(Nodes) : Built(fs1, us1)' /\ Stage(fs1, us1)'
<1>e. <<>> \in Seq(Nodes)
  OBVIOUS
<1>1. CASE CreateNothing
  <2>1. made = {} /\ Built(fs, us)'
    BY <1>1, BuiltKept, EmptyIn, HeadsAre DEF CreateNothing, Stage, Built, Kept, EmptyHanded, vars
  <2>2. Stage(fs, us)'
    BY <1>1, <2>1 DEF CreateNothing, Stage, signalled, Parts, SemFree
  <2> QED BY <2>1, <2>2
<1>2. CASE CreateHead
  <2>1. Built(fs, us)'
    BY <1>2, BuiltKept DEF CreateHead
  <2>2. Stage(fs, us)'
    BY <1>2 DEF CreateHead, Stage, signalled, Parts, SemFree, EmptyHanded
  <2> QED BY <2>1, <2>2
<1>3. CASE CreateNode
  <2>1. PICK n \in Nodes \ made : made' = made \cup {n} /\ LinkLast(n, FreeHead)
    BY <1>3 DEF CreateNode
  <2>2. us = <<>> /\ EmptyHanded
    BY <1>3 DEF CreateNode, Stage
  <2>3. Built(Append(fs, n), <<>>)'
    BY <1>3, <2>1, <2>2, NodeMade DEF CreateNode
  <2>4. Stage(Append(fs, n), <<>>)'
    BY <1>3 DEF CreateNode, Stage, signalled, EmptyHanded
  <2>5. Append(fs, n) \in Seq(Nodes)
    OBVIOUS
  <2> QED BY <2>3, <2>4, <2>5, <1>e
<1>4. CASE CreateNodeFails
  <2>1. Built(fs, us)'
    BY <1>4, BuiltKept DEF CreateNodeFails
  <2>2. Stage(fs, us)'
    BY <1>4 DEF CreateNodeFails, Stage, signalled, Parts, SemFree, EmptyHanded
  <2> QED BY <2>1, <2>2
<1>5. CASE CreateReturns
  <2>1. Built(fs, us)'
    BY <1>5, BuiltKept DEF CreateReturns, vars
  <2>2. us = <<>> /\ Placed(fs, us)
    BY <1>5, BuiltIsPlaced DEF CreateReturns, Stage
  <2>3. CountersOK
    <3>1. freeNums \in Nat /\ usedNums \in Nat
      BY DEF Built
    <3>2. sem \in 0 .. SemMax
      <4>1. Cardinality(Nodes) \in Nat /\ Cardinality(Nodes) # 0
        BY FS_EmptySet, FS_CardinalityType
      <4> QED BY <1>5, <4>1 DEF CreateReturns, Stage
    <3> QED BY <1>5, <3>1, <3>2 DEF CountersOK, CreateReturns, Stage, ProducerLabels, ConsumerLabels, Threads
  <2>4. Placed(fs, us)' /\ CountersOK'
    BY <1>5, <2>2, <2>3 DEF CreateReturns, vars, Placed, Types, Lists, CountersOK
  <2>5. Stage(fs, us)'
    BY <1>5, <2>4 DEF CreateReturns, Stage
  <2> QED BY <2>1, <2>5
<1>6. ASSUME NEW t \in Threads, Work(t) \/ WorkUnsignalled(t) PROVE Goal
  <2>1. life = "up" /\ UNCHANGED owner /\ Placed(fs, us) /\ CountersOK
    BY <1>6 DEF Work, WorkUnsignalled, Stage
  <2>2. PICK fs1, us1 \in Seq(Nodes) : Placed(fs1, us1)'
    BY <1>6, <2>1, WorkStep
  <2>3. CountersOK'
    BY <1>6, <2>1, WorkStep
  <2>4. made' = Nodes
    BY <2>1 DEF owner, Placed, Lists, Built, Kept
  <2>5. Built(fs1, us1)'
    BY <2>2, <2>4, PlacedIsBuiltThen DEF PlacedMeansBuilt
  <2>6. Stage(fs1, us1)'
    BY <2>1, <2>2, <2>3 DEF Stage, owner
  <2> QED BY <2>5, <2>6
<1>7. CASE FreeBegin
  <2>1. Built(fs, us)'
    BY <1>7, BuiltKept DEF FreeBegin
  <2>2. Quiet => EmptyHanded
    BY <1>7 DEF FreeBegin, Stage, Placed, EmptyHanded
  <2>3. Stage(fs, us)'
    BY <1>7, <2>2 DEF FreeBegin, Stage, signalled, EmptyHanded, SemFree
  <2> QED BY <2>1, <2>3
<1>8. CASE FreeUsedNode
  <2>1. us # <<>>
    BY <1>8 DEF FreeUsedNode, Built
  <2>2. /\ Types' /\ Ring(next', prev', UsedHead, Tail(us)) /\ Ring(next', prev', FreeHead, fs)
        /\ Tail(us) \in Seq(Nodes) /\ Len(Tail(us)) = Len(us) - 1
        /\ \A x : In(x, Tail(us)) <=> In(x, us) /\ x # next[UsedHead]
        /\ In(next[UsedHead], us)
        /\ \A x \in Nodes : ~In(x, Tail(us)) /\ ~In(x, fs) => next'[x] = x /\ prev'[x] = x
    BY <1>8, <2>1, NodeFreed DEF FreeUsedNode, Built, Heads
  <2>3. made' = {x \in Nodes : In(x, fs) \/ In(x, Tail(us)) \/ \E t \in Threads : held'[t] = x}
    BY <1>8, <2>2 DEF FreeUsedNode, Built, Kept
  <2>4. Built(fs, Tail(us))'
    BY <1>8, <2>2, <2>3 DEF FreeUsedNode, Built, Kept
  <2>5. Stage(fs, Tail(us))'
    BY <1>8 DEF FreeUsedNode, Stage, signalled, EmptyHanded
  <2> QED BY <2>2, <2>4, <2>5
<1>9. CASE FreeFreeNode
  <2>1. fs # <<>>
    BY <1>9 DEF FreeFreeNode, Built
  <2>2. /\ Types' /\ Ring(next', prev', FreeHead, Tail(fs)) /\ Ring(next', prev', UsedHead, us)
        /\ Tail(fs) \in Seq(Nodes) /\ Len(Tail(fs)) = Len(fs) - 1
        /\ \A x : In(x, Tail(fs)) <=> In(x, fs) /\ x # next[FreeHead]
        /\ In(next[FreeHead], fs)
        /\ \A x \in Nodes : ~In(x, Tail(fs)) /\ ~In(x, us) => next'[x] = x /\ prev'[x] = x
    BY <1>9, <2>1, NodeFreed DEF FreeFreeNode, Built, Heads
  <2>3. made' = {x \in Nodes : In(x, Tail(fs)) \/ In(x, us) \/ \E t \in Threads : held'[t] = x}
    BY <1>9, <2>2 DEF FreeFreeNode, Built, Kept
  <2>4. Built(Tail(fs), us)'
    BY <1>9, <2>2, <2>3 DEF FreeFreeNode, Built, Kept
  <2>5. Stage(Tail(fs), us)'
    BY <1>9 DEF FreeFreeNode, Stage, signalled, EmptyHanded
  <2> QED BY <2>2, <2>4, <2>5
<1>10. CASE FreeQueue
  <2>1. Built(fs, us)'
    BY <1>10, BuiltKept DEF FreeQueue, vars
  <2>2. fs = <<>> /\ us = <<>>
    <3>1. Len(fs) = 0 /\ Len(us) = 0
      BY <1>10 DEF FreeQueue, Built
    <3> QED BY <3>1, EmptySeq
  <2>3. Quiet => made = {}
    BY <1>10, <2>2, EmptyIn, HeadsAre DEF FreeQueue, Stage, Built, Kept, EmptyHanded
  <2>4. Stage(fs, us)'
    BY <1>10, <2>3 DEF FreeQueue, Stage, signalled
  <2> QED BY <2>1, <2>4
<1>11. CASE UNCHANGED lifeVars
  <2>1. Built(fs, us)'
    BY <1>11, BuiltKept DEF lifeVars, vars, owner
  <2>2. Stage(fs, us)'
    BY <1>11 DEF lifeVars, vars, owner, Stage, signalled, EmptyHanded, Placed, Types, Lists, CountersOK
  <2> QED BY <2>1, <2>2
<1> QED
  BY <1>1, <1>2, <1>3, <1>4, <1>5, <1>6, <1>7, <1>8, <1>9, <1>10, <1>11
     DEF LifeNext, Create, Free

LEMMA LifeCorrect == LifeSpec => []LifeOK
BY LifeInitOK, LifeStep, PTL DEF LifeSpec

-----------------------------------------------------------------------------
LEMMA UpTo == \A n \in Nat : IsFiniteSet(1 .. n) /\ Cardinality(1 .. n) = n
<1> SUFFICES ASSUME NEW n \in Nat PROVE IsFiniteSet(1 .. n) /\ Cardinality(1 .. n) = n
  OBVIOUS
<1> QED BY FS_Interval

LEMMA RingIsShort ==
    ASSUME NEW nx, NEW pv, NEW h, NEW s \in Seq(Nodes), Ring(nx, pv, h, s)
    PROVE  Len(s) <= Size
<1>1. s \in Injection(1 .. Len(s), Nodes)
  BY DEF Ring, Injection, IsInjective
<1>2. Cardinality(1 .. Len(s)) = Len(s) /\ IsFiniteSet(1 .. Len(s))
  BY UpTo
<1> QED BY <1>1, <1>2, FS_Injection DEF Size

(* For any pool, any callers and any moment at which an allocation fails   *)
(* or the queue is freed, a node is linked or in a caller's hands exactly  *)
(* while it is allocated (Queue.cpp:194-252).                              *)
THEOREM NoListDangles == LifeSpec => []LinkedIsAllocated
<1>1. LifeOK => LinkedIsAllocated
  <2> SUFFICES ASSUME NEW fs \in Seq(Nodes), NEW us \in Seq(Nodes), Built(fs, us)
               PROVE  LinkedIsAllocated
    BY DEF LifeOK
  <2>1. Chain(FreeHead) = fs /\ Chain(UsedHead) = us
    BY RingIsShort, ChainIs DEF Built, Heads
  <2>2. \A x : (x \in ToSet(fs) <=> In(x, fs)) /\ (x \in ToSet(us) <=> In(x, us))
    BY DEF ToSet, In
  <2>3. Kept(fs, us) = ToSet(fs) \cup ToSet(us)
                          \cup {held[t] : t \in {u \in Threads : held[u] # Null}}
    <3>1. \A x : In(x, fs) \/ In(x, us) => x \in Nodes
      BY InAreNodes
    <3>2. \A t \in Threads : held[t] # Null <=> held[t] \in Nodes
      BY HeadsAre DEF Built, Types
    <3> QED BY <2>2, <3>1, <3>2 DEF Kept
  <2>4. ASSUME NEW x \in Links PROVE prev[next[x]] = x /\ next[prev[x]] = x
    <3>1. CASE x = FreeHead \/ In(x, fs)
      BY <3>1, RingCloses DEF Built, Heads
    <3>2. CASE x = UsedHead \/ In(x, us)
      BY <3>2, RingCloses DEF Built, Heads
    <3>3. CASE x \in Nodes /\ ~In(x, fs) /\ ~In(x, us)
      BY <3>3 DEF Built
    <3> QED BY <3>1, <3>2, <3>3 DEF Links
  <2> QED BY <2>1, <2>3, <2>4 DEF Built, LinkedIsAllocated, RingsClosed
<1> QED BY <1>1, LifeCorrect, PTL

(* An owner that waits for its callers leaves nothing behind but the       *)
(* critical section, which nothing deletes, however far the creation came  *)
(* and whatever packets were in the queue (Queue.cpp:172, 192, 196-210,    *)
(* 223-251).                                                               *)
THEOREM OnlySectionIsLeft == ASSUME Quiet PROVE LifeSpec => []OnlySectionLeft
<1>1. LifeOK => OnlySectionLeft
  BY DEF LifeOK, Stage, OnlySectionLeft, signalled, Parts
<1> QED BY <1>1, LifeCorrect, PTL

\* With all nodes in the free list, the state is one that SysQueue starts in.
LEMMA BuiltIsInit ==
    ASSUME NEW fs \in Seq(Nodes), Built(fs, <<>>), made = Nodes, EmptyHanded,
           pc = [t \in Threads |-> "idle"], sem = 1
    PROVE  Init
<1> DEFINE n == Cardinality(Nodes)
           at(i) == IF i \in 1 .. n THEN fs[i] ELSE FreeHead
           pos(x) == CHOOSE i \in 1 .. n : fs[i] = x
<1>1. \A x \in Nodes : \E i \in 1 .. Len(fs) : fs[i] = x
  BY EmptyIn, HeadsAre DEF Built, Kept, EmptyHanded, In
<1>2. \A i, j \in 1 .. Len(fs) : fs[i] = fs[j] => i = j
  BY DEF Built, Ring
<1>3. Len(fs) = n /\ n \in Nat
  <2>0. fs \in [1 .. Len(fs) -> Nodes] /\ DOMAIN fs = 1 .. Len(fs)
    OBVIOUS
  <2>1. fs \in Injection(1 .. Len(fs), Nodes) /\ fs \in Surjection(1 .. Len(fs), Nodes)
    <3>1. fs \in Injection(1 .. Len(fs), Nodes)
      BY <2>0, <1>2 DEF Injection, IsInjective
    <3>2. fs \in Surjection(1 .. Len(fs), Nodes)
      BY <2>0, <1>1 DEF Surjection
    <3> QED BY <3>1, <3>2
  <2>2. Len(fs) \in Nat
    OBVIOUS
  <2>3. IsFiniteSet(1 .. Len(fs)) /\ Cardinality(1 .. Len(fs)) = Len(fs)
    BY <2>2, UpTo
  <2> QED BY <2>1, <2>2, <2>3, FS_Injection
<1>4. fs \in [1 .. n -> Nodes] /\ IsInjective(fs)
  BY <1>2, <1>3 DEF IsInjective
<1>5. \A i : At(FreeHead, fs, i) = at(i)
  BY <1>3 DEF At
<1>6. \A i \in 1 .. n : pos(fs[i]) = i
  BY <1>2, <1>3
<1>7. \A i \in 0 .. n : next[at(i)] = at(i + 1) /\ prev[at(i + 1)] = at(i)
  BY <1>3, <1>5 DEF Built, Ring
<1>8. next[UsedHead] = UsedHead /\ prev[UsedHead] = UsedHead
  <2>1. At(UsedHead, <<>>, 0) = UsedHead /\ At(UsedHead, <<>>, 0 + 1) = UsedHead /\ Len(<<>>) = 0
    BY DEF At
  <2>2. Ring(next, prev, UsedHead, <<>>) /\ 0 \in 0 .. 0
    BY DEF Built
  <2> QED BY <2>1, <2>2 DEF Ring
<1>9. next[FreeHead] = at(1) /\ prev[FreeHead] = at(n)
  <2>1. at(0) = FreeHead /\ at(n + 1) = FreeHead /\ 0 \in 0 .. n /\ n \in 0 .. n /\ 0 + 1 = 1
    BY <1>3
  <2> HIDE DEF at
  <2> QED BY <2>1, <1>7
<1>10. ASSUME NEW x \in Nodes PROVE next[x] = at(pos(x) + 1) /\ prev[x] = at(pos(x) - 1)
  <2>1. PICK i \in 1 .. n : fs[i] = x
    BY <1>1, <1>3
  <2>2. pos(x) = i /\ at(i) = x
    BY <2>1, <1>6
  <2>3. i \in 0 .. n /\ i - 1 \in 0 .. n /\ (i - 1) + 1 = i
    BY <1>3
  <2> HIDE DEF at, pos
  <2> QED BY <2>2, <2>3, <1>7
<1>11. /\ FreeHead # UsedHead /\ \A x \in Nodes : x # FreeHead /\ x # UsedHead
       /\ next = [x \in Links |-> next[x]] /\ prev = [x \in Links |-> prev[x]]
  BY DEF Built, Types
<1> HIDE DEF at, pos
<1>12. /\ next = [x \in Links |-> CASE x = UsedHead -> UsedHead
                                    [] x = FreeHead -> at(1)
                                    [] OTHER        -> at(pos(x) + 1)]
       /\ prev = [x \in Links |-> CASE x = UsedHead -> UsedHead
                                    [] x = FreeHead -> at(n)
                                    [] OTHER        -> at(pos(x) - 1)]
  BY <1>8, <1>9, <1>10, <1>11 DEF Links
<1>13. freeNums = n /\ usedNums = 0 /\ held = [t \in Threads |-> Null]
  BY <1>3 DEF Built, Types, EmptyHanded
<1> QED BY <1>4, <1>12, <1>13 DEF Init, at, pos

(* A creation that succeeds leaves a state in which SysQueue may start,    *)
(* for any pool: what is proved of SysQueue is proved of a queue that was  *)
(* created (Queue.cpp:163-213).                                            *)
THEOREM CreatedWell == LifeSpec => CreatedIsPool
<1> DEFINE Well == life # "up" /\ life' = "up" /\ signalled => Init'
<1>1. LifeOK /\ [LifeNext]_lifeVars => [Well]_lifeVars
  <2> SUFFICES ASSUME NEW fs \in Seq(Nodes), NEW us \in Seq(Nodes), Built(fs, us), Stage(fs, us),
                      LifeNext, life # "up", life' = "up", signalled
               PROVE  Init'
    BY DEF LifeOK
  <2>1. CreateReturns
    BY DEF LifeNext, Create, CreateNothing, CreateHead, CreateNode, CreateNodeFails, CreateReturns,
           FreeBegin, Free, FreeUsedNode, FreeFreeNode, FreeQueue, Work, WorkUnsignalled
  <2>2. Init
    BY <2>1, BuiltIsInit DEF CreateReturns, Stage
  <2> QED BY <2>1, <2>2 DEF CreateReturns, vars, Init
<1> HIDE DEF Well
<1>2. LifeSpec => [][Well]_lifeVars
  BY <1>1, LifeCorrect, PTL DEF LifeSpec
<1> QED BY <1>2 DEF CreatedIsPool, Well

=============================================================================
