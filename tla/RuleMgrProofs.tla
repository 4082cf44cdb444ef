--------------------------- MODULE RuleMgrProofs ---------------------------
(***************************************************************************)
(* Proofs about RuleMgr, for any threads, entries, rules and port ranges.  *)
(*                                                                         *)
(*   Shape       types, and what is non-NULL where it is dereferenced      *)
(*   LockInv     a thread is in a critical section iff it owns its lock    *)
(*   OwnInv      Shape, who may be where, EntriesOwned and CursorInv       *)
(*   RangeInv    what writers and readers of the whitelist know of it      *)
(*                                                                         *)
(* The entries are safe when one caller at a time removes (SingleRemover); *)
(* the whitelist is when no caller runs above APC_LEVEL, where the lock    *)
(* becomes another lock.  RuleMgr's failing runs show what happens else.   *)
(***************************************************************************)
EXTENDS RuleMgr, SequenceTheorems, TLAPS

USE ThreadsAssumption, DataAssumption

-----------------------------------------------------------------------------
\* TypeOK is not inductive alone: AddInsert and ReleaseList dereference cur and
\* take the head of todo.
Shape ==
    /\ TypeOK
    /\ \A t \in Threads : pc[t] = "add_insert" => cur[t] # Null
    /\ \A t \in Threads : pc[t] = "clr" => todo[t] # <<>>

LEMMA TypeOfType == \A r \in Rules : TypeOf(r) \in RuleTypes
BY DEF Rules, TypeOf, RuleTypes

LEMMA WrapRange == \A n \in Int : Wrap(n) \in 0 .. (NumsMod - 1)
BY DEF Wrap

LEMMA ShapeInit == Init => Shape
BY DEF Init, Shape, TypeOK, RuleTypes, NoRule, Rules, NoRange, Labels

LEMMA ShapeStep == Shape /\ [Next]_vars => Shape'
<1> SUFFICES ASSUME Shape, [Next]_vars PROVE Shape'
  OBVIOUS
<1> USE DEF Shape, TypeOK, Labels, Goto
<1>1. ASSUME NEW t \in Threads, AddAlloc(t) PROVE Shape'
  BY <1>1 DEF AddAlloc
<1>2. ASSUME NEW t \in Threads, AddInsert(t) PROVE Shape'
  <2>1. /\ cur[t] \in Entries
        /\ TypeOf(rule[cur[t]]) \in RuleTypes
    BY <1>2, TypeOfType DEF AddInsert
  <2>2. list' \in [RuleTypes -> Seq(Entries)]
    BY <2>1, <1>2 DEF AddInsert
  <2>3. nums' \in 0 .. (NumsMod - 1)
    <3>1. nums + 1 \in Int /\ nums' = Wrap(nums + 1)
      BY <1>2 DEF AddInsert
    <3> HIDE DEF Shape, TypeOK
    <3> QED BY <3>1, WrapRange
  <2> QED
    BY <2>2, <2>3, <1>2 DEF AddInsert
<1>3. ASSUME NEW t \in Threads, RemoveBegin(t) PROVE Shape'
  BY <1>3 DEF RemoveBegin, lists
<1>4. ASSUME NEW t \in Threads, RemoveCheck(t) PROVE Shape'
  BY <1>4 DEF RemoveCheck, lists, locals
<1>5. ASSUME NEW t \in Threads, RemovePop(t) PROVE Shape'
  <2> DEFINE ty == TypeOf(key[t])
  <2>1. ty \in RuleTypes
    BY <1>5, TypeOfType
  <2>2. /\ list' \in [RuleTypes -> Seq(Entries)]
        /\ cur' \in [Threads -> Entries \cup {Null}]
        /\ \A s \in Threads : s # t => cur'[s] = cur[s]
    <3>1. CASE list[ty] = <<>>
      <4>1. list' = list /\ cur' = cur
        BY <3>1, <1>5 DEF RemovePop
      <4> QED BY <4>1
    <3>2. CASE list[ty] # <<>>
      <4>1. list[ty] \in Seq(Entries)
        BY <2>1
      <4>2. Head(list[ty]) \in Entries /\ Tail(list[ty]) \in Seq(Entries)
        BY <4>1, <3>2
      <4> QED
        <5>1. /\ cur' = [cur EXCEPT ![t] = Head(list[ty])]
              /\ list' = [list EXCEPT ![ty] = Tail(list[ty])]
          BY <3>2, <1>5 DEF RemovePop
        <5> QED BY <5>1, <4>2, <2>1
    <3> QED BY <3>1, <3>2
  <2> QED
    BY <2>2, <1>5 DEF RemovePop, Acquire, LockOf
<1>6. ASSUME NEW t \in Threads, RemoveMatch(t) PROVE Shape'
  <2>1. nums' \in 0 .. (NumsMod - 1)
    <3>1. nums - 1 \in Int /\ nums' = Wrap(nums - 1)
      BY <1>6 DEF RemoveMatch
    <3> HIDE DEF Shape, TypeOK
    <3> QED BY <3>1, WrapRange
  <2> QED
    BY <2>1, <1>6 DEF RemoveMatch, Release, LockOf, locals
<1>7. ASSUME NEW t \in Threads, RemovePutBack(t) PROVE Shape'
  <2>1. list' \in [RuleTypes -> Seq(Entries)]
    BY <1>7, TypeOfType DEF RemovePutBack
  <2> QED
    BY <2>1, <1>7 DEF RemovePutBack, Release, LockOf, locals
<1>8. ASSUME NEW t \in Threads, RemoveFree(t) PROVE Shape'
  BY <1>8 DEF RemoveFree, Rules, NoRule
<1>9. ASSUME NEW t \in Threads, AllClear(t) \/ TypeClear(t) PROVE Shape'
  <2>1. PICK tys \in Seq(RuleTypes) : tys # <<>> /\ BeginClear(t, tys)
    <3>1. CASE AllClear(t)
      <4>1. <<"PORT", "IPADDR", "IPPORT">> \in Seq(RuleTypes)
        BY DEF RuleTypes
      <4> QED BY <3>1, <4>1 DEF AllClear
    <3>2. CASE TypeClear(t)
      <4>1. PICK ty \in RuleTypes : BeginClear(t, <<ty>>)
        BY <3>2 DEF TypeClear
      <4>2. <<ty>> \in Seq(RuleTypes) /\ <<ty>> # <<>>
        OBVIOUS
      <4> HIDE DEF Shape, TypeOK
      <4> QED BY <4>1, <4>2
    <3> QED BY <1>9, <3>1, <3>2
  <2>2. /\ owner' = [owner EXCEPT ![LockOf(t)] = t]
        /\ todo' = [todo EXCEPT ![t] = tys]
        /\ pc' = [pc EXCEPT ![t] = "clr"]
        /\ UNCHANGED <<list, rule, live, nums, range, cur, key, pair, port, answer>>
    BY <2>1 DEF BeginClear, Acquire, lists
  <2> QED
    BY <2>1, <2>2 DEF LockOf
<1>10. ASSUME NEW t \in Threads, ReleaseList(t) PROVE Shape'
  <2>1. /\ todo[t] \in Seq(RuleTypes) /\ todo[t] # <<>>
        /\ Head(todo[t]) \in RuleTypes
        /\ Tail(todo[t]) \in Seq(RuleTypes)
    BY <1>10 DEF ReleaseList
  <2>2. list' \in [RuleTypes -> Seq(Entries)]
    BY <2>1, <1>10 DEF ReleaseList
  <2>3. /\ todo' = [todo EXCEPT ![t] = Tail(todo[t])]
        /\ live' = live \ ToSet(list[Head(todo[t])])
        /\ UNCHANGED <<rule, nums, range, cur, key, pair, port, answer>>
    BY <1>10 DEF ReleaseList
  <2>4. CASE Tail(todo[t]) = <<>>
    <3>1. /\ owner' = [owner EXCEPT ![LockOf(t)] = Null]
          /\ pc' = [pc EXCEPT ![t] = "idle"]
      BY <2>4, <1>10 DEF ReleaseList, Release
    <3> QED BY <3>1, <2>1, <2>2, <2>3 DEF LockOf
  <2>5. CASE Tail(todo[t]) # <<>>
    <3>1. UNCHANGED <<owner, pc>>
      BY <2>5, <1>10 DEF ReleaseList
    <3> QED BY <3>1, <2>1, <2>2, <2>3, <2>5
  <2> QED
    BY <2>4, <2>5
<1>11. ASSUME NEW t \in Threads, SetLo(t) PROVE Shape'
  BY <1>11 DEF SetLo, Acquire, LockOf, lists, ValidRanges
<1>12. ASSUME NEW t \in Threads, SetHi(t) PROVE Shape'
  BY <1>12 DEF SetHi, Release, LockOf, lists, locals
<1>13. ASSUME NEW t \in Threads, GetLo(t) PROVE Shape'
  BY <1>13 DEF GetLo, Acquire, LockOf, lists
<1>14. ASSUME NEW t \in Threads, GetHi(t) PROVE Shape'
  BY <1>14 DEF GetHi, Release, LockOf, lists
<1>15. ASSUME NEW t \in Threads, InLo(t) PROVE Shape'
  <2>1. PICK p \in SrcPorts :
           /\ port' = [port EXCEPT ![t] = p]
           /\ IF p > range.lo
              THEN Acquire(t) /\ Goto(t, "in_hi") /\ UNCHANGED answer
              ELSE answer' = [answer EXCEPT ![t] = FALSE] /\ UNCHANGED <<owner, pc>>
    BY <1>15 DEF InLo
  <2>2. UNCHANGED <<list, rule, live, nums, range, cur, key, todo, pair>>
    BY <1>15 DEF InLo, lists
  <2>3. port' \in [Threads -> SrcPorts]
    BY <2>1
  <2>4. CASE p > range.lo
    <3>1. /\ owner' = [owner EXCEPT ![LockOf(t)] = t]
          /\ pc' = [pc EXCEPT ![t] = "in_hi"]
          /\ answer' = answer
      BY <2>1, <2>4 DEF Acquire
    <3> QED
      BY <3>1, <2>2, <2>3 DEF LockOf
  <2>5. CASE ~(p > range.lo)
    <3>1. answer' = [answer EXCEPT ![t] = FALSE] /\ UNCHANGED <<owner, pc>>
      BY <2>1, <2>5
    <3>2. answer' \in [Threads -> BOOLEAN]
      BY <3>1
    <3> QED
      BY <3>1, <3>2, <2>2, <2>3
  <2> QED
    BY <2>4, <2>5
<1>16. ASSUME NEW t \in Threads, InHi(t) PROVE Shape'
  BY <1>16 DEF InHi, Release, LockOf, lists
<1>17. CASE UNCHANGED vars
  BY <1>17 DEF vars
<1> QED
  BY <1>1, <1>2, <1>3, <1>4, <1>5, <1>6, <1>7, <1>8, <1>9, <1>10, <1>11, <1>12,
     <1>13, <1>14, <1>15, <1>16, <1>17 DEF Next, Call, Proceed

(* Every variable keeps its type, in particular uiRuleNums its width and   *)
(* the lists their elements, whatever the callers do (Rule.c:60-354).      *)
THEOREM TypeCorrect == Spec => []TypeOK
<1>1. Spec => []Shape
  BY ShapeInit, ShapeStep, PTL DEF Spec
<1> QED
  BY <1>1, PTL DEF Shape

-----------------------------------------------------------------------------
(* The lock.  Every step keeps the acting thread on its side of its lock,  *)
(* enters with the lock free, or leaves it.                                *)

\* The thread stays on its side.
LEMMA LockStays ==
    ASSUME TypeOK, LockInv, NEW t \in Threads, owner' = owner,
           \A s \in Threads \ {t} : pc'[s] = pc[s],
           pc[t] \in Sections <=> pc'[t] \in Sections
    PROVE  LockInv'
BY DEF TypeOK, LockInv, LockOf

\* It takes its lock.
LEMMA LockEnters ==
    ASSUME TypeOK, LockInv, NEW t \in Threads, Acquire(t),
           \A s \in Threads \ {t} : pc'[s] = pc[s],
           pc'[t] \in Sections
    PROVE  LockInv'
<1> DEFINE l == LockOf(t)
<1>1. /\ owner \in [{"resource", "spin"} -> Threads \cup {Null}]
      /\ l \in {"resource", "spin"}
      /\ owner[l] = Null /\ owner' = [owner EXCEPT ![l] = t]
      /\ Null \notin Threads
  BY DEF TypeOK, LockOf, Acquire, LockFree
<1>2. ASSUME NEW s \in Threads PROVE pc'[s] \in Sections <=> owner'[LockOf(s)] = s
  BY <1>1 DEF LockInv, LockOf
<1>3. ASSUME NEW s \in Threads, NEW k \in DOMAIN owner', owner'[k] = s
      PROVE  k = LockOf(s)
  BY <1>1, <1>3 DEF LockInv
<1> QED BY <1>2, <1>3 DEF LockInv, LockOf

\* It gives its lock back.
LEMMA LockLeaves ==
    ASSUME TypeOK, LockInv, NEW t \in Threads, Release(t),
           \A s \in Threads \ {t} : pc'[s] = pc[s],
           pc[t] \in Sections, pc'[t] \notin Sections
    PROVE  LockInv'
BY DEF TypeOK, LockInv, LockOf, Release

LEMMA LockStep == TypeOK /\ LockInv /\ [Next]_vars => LockInv'
<1> SUFFICES ASSUME TypeOK, LockInv, [Next]_vars PROVE LockInv'
  OBVIOUS
<1>a. pc \in [Threads -> Labels]
  BY DEF TypeOK
<1> USE <1>a DEF Sections, Goto, Calling
<1>1. ASSUME NEW t \in Threads,
             AddAlloc(t) \/ AddInsert(t) \/ RemoveBegin(t) \/ RemoveCheck(t) \/ RemoveFree(t)
      PROVE  LockInv'
  <2>1. /\ owner' = owner
        /\ \A s \in Threads \ {t} : pc'[s] = pc[s]
        /\ pc[t] \notin Sections /\ pc'[t] \notin Sections
    BY <1>1 DEF AddAlloc, AddInsert, RemoveBegin, RemoveCheck, RemoveFree
  <2> QED BY <2>1, LockStays
<1>2. ASSUME NEW t \in Threads,
             RemovePop(t) \/ AllClear(t) \/ TypeClear(t) \/ SetLo(t) \/ GetLo(t)
      PROVE  LockInv'
  <2>1. /\ Acquire(t)
        /\ \A s \in Threads \ {t} : pc'[s] = pc[s]
        /\ pc'[t] \in Sections
    BY <1>2 DEF RemovePop, AllClear, TypeClear, BeginClear, SetLo, GetLo
  <2> QED BY <2>1, LockEnters
<1>3. ASSUME NEW t \in Threads,
             RemoveMatch(t) \/ RemovePutBack(t) \/ SetHi(t) \/ GetHi(t) \/ InHi(t)
      PROVE  LockInv'
  <2>1. /\ Release(t)
        /\ \A s \in Threads \ {t} : pc'[s] = pc[s]
        /\ pc[t] \in Sections /\ pc'[t] \notin Sections
    BY <1>3 DEF RemoveMatch, RemovePutBack, SetHi, GetHi, InHi
  <2> QED BY <2>1, LockLeaves
<1>4. ASSUME NEW t \in Threads, ReleaseList(t) PROVE LockInv'
  <2>1. CASE Tail(todo[t]) = <<>>
    <3>1. Release(t) /\ Goto(t, "idle") /\ pc[t] = "clr"
      BY <1>4, <2>1 DEF ReleaseList
    <3> QED BY <3>1, LockLeaves
  <2>2. CASE Tail(todo[t]) # <<>>
    BY <1>4, <2>2, LockStays DEF ReleaseList
  <2> QED BY <2>1, <2>2
<1>5. ASSUME NEW t \in Threads, InLo(t) PROVE LockInv'
  <2>1. \/ Acquire(t) /\ Goto(t, "in_hi")
        \/ UNCHANGED <<owner, pc>>
    BY <1>5 DEF InLo
  <2>2. CASE Acquire(t) /\ Goto(t, "in_hi")
    BY <2>2, LockEnters
  <2>3. CASE UNCHANGED <<owner, pc>>
    BY <2>3, LockStays
  <2> QED BY <2>1, <2>2, <2>3
<1>6. CASE UNCHANGED vars
  BY <1>6 DEF vars, LockInv, LockOf
<1> QED
  BY <1>1, <1>2, <1>3, <1>4, <1>5, <1>6 DEF Next, Call, Proceed

(* Lock ownership and the program counters agree, for any number of        *)
(* threads, on both sides of the IRQL split (Utils.c:46-68).               *)
THEOREM LockCorrect == Spec => []LockInv
<1>1. Init => LockInv
  BY DEF Init, LockInv, Sections, LockOf
<1> QED
  BY <1>1, LockStep, TypeCorrect, PTL DEF Spec

-----------------------------------------------------------------------------
(* Sequences as the sets of their elements.                                *)

LEMMA AppendElems ==
    ASSUME NEW s \in Seq(Entries), NEW e \in Entries
    PROVE  /\ ToSet(Append(s, e)) = ToSet(s) \cup {e}
           /\ IsInjective(s) /\ e \notin ToSet(s) => IsInjective(Append(s, e))
<1>1. /\ Len(s) \in Nat /\ DOMAIN s = 1 .. Len(s)
      /\ DOMAIN Append(s, e) = 1 .. Len(s) + 1
      /\ \A i \in 1 .. Len(s) : Append(s, e)[i] = s[i]
      /\ Append(s, e)[Len(s) + 1] = e
  BY AppendProperties
<1>2. \A i \in 1 .. Len(s) + 1 : i \in 1 .. Len(s) \/ i = Len(s) + 1
  BY <1>1
<1>3. Len(s) + 1 \in 1 .. Len(s) + 1 /\ 1 .. Len(s) \subseteq 1 .. Len(s) + 1
  BY <1>1
<1>4. ToSet(Append(s, e)) = ToSet(s) \cup {e}
  <2>1. ASSUME NEW i \in 1 .. Len(s) + 1 PROVE Append(s, e)[i] \in ToSet(s) \cup {e}
    BY <1>1, <1>2 DEF ToSet
  <2>2. ASSUME NEW i \in 1 .. Len(s) PROVE s[i] \in ToSet(Append(s, e))
    BY <1>1, <1>3 DEF ToSet
  <2>3. e \in ToSet(Append(s, e))
    BY <1>1, <1>3 DEF ToSet
  <2> QED BY <2>1, <2>2, <2>3, <1>1 DEF ToSet
<1>5. ASSUME IsInjective(s), e \notin ToSet(s) PROVE IsInjective(Append(s, e))
  <2>1. \A i \in 1 .. Len(s) : s[i] # e
    BY <1>5, <1>1 DEF ToSet
  <2> QED BY <2>1, <1>5, <1>1, <1>2 DEF IsInjective
<1> QED BY <1>4, <1>5

LEMMA TailElems ==
    ASSUME NEW s \in Seq(Entries), s # <<>>
    PROVE  /\ Head(s) \in Entries
           /\ ToSet(s) = ToSet(Tail(s)) \cup {Head(s)}
           /\ IsInjective(s) => IsInjective(Tail(s)) /\ Head(s) \notin ToSet(Tail(s))
<1>1. /\ Len(s) \in Nat \ {0}
      /\ Head(s) = s[1]
      /\ Tail(s) \in Seq(Entries)
      /\ Len(Tail(s)) = Len(s) - 1
      /\ \A i \in 1 .. Len(s) - 1 : Tail(s)[i] = s[i + 1]
  BY HeadTailProperties
<1>2. DOMAIN s = 1 .. Len(s) /\ DOMAIN Tail(s) = 1 .. Len(s) - 1
  BY <1>1
<1>3. ToSet(s) = ToSet(Tail(s)) \cup {Head(s)}
  <2>1. ASSUME NEW i \in 1 .. Len(s) PROVE s[i] \in ToSet(Tail(s)) \cup {Head(s)}
    <3>1. CASE i = 1
      BY <3>1, <1>1
    <3>2. CASE i # 1
      <4>1. i - 1 \in 1 .. Len(s) - 1 /\ Tail(s)[i - 1] = s[i]
        BY <3>2, <1>1
      <4> QED BY <4>1, <1>2 DEF ToSet
    <3> QED BY <3>1, <3>2
  <2>2. ASSUME NEW i \in 1 .. Len(s) - 1 PROVE Tail(s)[i] \in ToSet(s)
    <3>1. i + 1 \in DOMAIN s /\ s[i + 1] = Tail(s)[i]
      BY <1>1, <1>2
    <3> QED BY <3>1 DEF ToSet
  <2>3. Head(s) \in ToSet(s)
    <3>1. 1 \in DOMAIN s
      BY <1>1, <1>2
    <3> QED BY <3>1, <1>1 DEF ToSet
  <2> QED BY <2>1, <2>2, <2>3, <1>2 DEF ToSet
<1>4. ASSUME IsInjective(s)
      PROVE  IsInjective(Tail(s)) /\ Head(s) \notin ToSet(Tail(s))
  <2>1. \A i, j \in 1 .. Len(s) : s[i] = s[j] => i = j
    BY <1>4, <1>2 DEF IsInjective
  <2>2. IsInjective(Tail(s))
    BY <2>1, <1>1, <1>2 DEF IsInjective
  <2>3. \A i \in 1 .. Len(s) - 1 : Tail(s)[i] # Head(s)
    BY <2>1, <1>1
  <2> QED BY <2>2, <2>3, <1>2 DEF ToSet
<1>5. Head(s) \in Entries
  BY <1>1
<1> QED BY <1>3, <1>4, <1>5

LEMMA EmptyElems == ToSet(<<>>) = {} /\ IsInjective(<<>>)
BY DEF ToSet, IsInjective

-----------------------------------------------------------------------------
(* Where entries are.  The five ways a step moves an entry between a list, *)
(* a thread's hand and the lookaside list, each stated on its own.         *)

HandsKept(t) == \A s \in Threads \ {t} : Hand(s)' = Hand(s)

LEMMA HandOrNull == ASSUME TypeOK, NEW t \in Threads PROVE Hand(t) \in Entries \cup {Null}
BY DEF TypeOK, Hand

\* A thread's entry goes to the tail of a list.
LEMMA ToTail ==
    ASSUME TypeOK, EntriesOwned, NEW t \in Threads, NEW ty \in RuleTypes,
           Hand(t) # Null, Hand(t)' = Null, HandsKept(t),
           list' = [list EXCEPT ![ty] = Append(list[ty], Hand(t))], live' = live
    PROVE  EntriesOwned'
<1>1. Hand(t) \in Entries /\ list \in [RuleTypes -> Seq(Entries)]
  BY HandOrNull DEF TypeOK
<1>2. /\ list'[ty] = Append(list[ty], Hand(t))
      /\ \A k \in RuleTypes \ {ty} : list'[k] = list[k]
  BY <1>1
<1>3. /\ ToSet(list'[ty]) = ToSet(list[ty]) \cup {Hand(t)}
      /\ IsInjective(list'[ty])
  BY <1>1, <1>2, AppendElems DEF EntriesOwned
<1>4. \A k \in RuleTypes : IsInjective(list'[k])
  BY <1>2, <1>3 DEF EntriesOwned
<1>5. \A s \in Threads : Hand(s)' \in Entries => Hand(s)' = Hand(s) /\ s # t
  BY <1>1 DEF HandsKept
<1>6. \A k \in RuleTypes \ {ty} : ToSet(list'[k]) = ToSet(list[k])
  BY <1>2
<1>7. \A a, b \in RuleTypes : a # b => ToSet(list'[a]) \cap ToSet(list'[b]) = {}
  BY <1>3, <1>6 DEF EntriesOwned
<1>8. ASSUME NEW s \in Threads, NEW k \in RuleTypes PROVE Hand(s)' \notin ToSet(list'[k])
  <2>1. ASSUME NEW e \in ToSet(list'[k]) PROVE e \in Entries
    BY <2>1, <1>1, <1>3, <1>6 DEF ToSet
  <2>2. CASE Hand(s)' \in Entries
    BY <2>2, <1>1, <1>3, <1>5, <1>6 DEF EntriesOwned
  <2> QED BY <2>1, <2>2
<1>9. \A s, u \in Threads : s # u => Hand(s)' # Hand(u)' \/ Hand(s)' = Null
  BY <1>1 DEF EntriesOwned, HandsKept
<1>10. ASSUME NEW e \in Entries
       PROVE  e \in live' <=> \/ \E k \in RuleTypes : e \in ToSet(list'[k])
                              \/ \E s \in Threads : Hand(s)' = e
  BY <1>1, <1>3, <1>5, <1>6 DEF EntriesOwned, HandsKept
<1> QED BY <1>4, <1>7, <1>8, <1>9, <1>10 DEF EntriesOwned

\* The head of a list goes to a thread's empty hand.
LEMMA FromHead ==
    ASSUME TypeOK, EntriesOwned, NEW t \in Threads, NEW ty \in RuleTypes,
           list[ty] # <<>>, Hand(t) = Null, Hand(t)' = Head(list[ty]), HandsKept(t),
           list' = [list EXCEPT ![ty] = Tail(list[ty])], live' = live
    PROVE  EntriesOwned'
<1>1. list \in [RuleTypes -> Seq(Entries)]
  BY DEF TypeOK
<1>2. /\ list'[ty] = Tail(list[ty])
      /\ \A k \in RuleTypes \ {ty} : list'[k] = list[k]
  BY <1>1
<1>3. /\ Head(list[ty]) \in Entries
      /\ ToSet(list[ty]) = ToSet(list'[ty]) \cup {Head(list[ty])}
      /\ IsInjective(list'[ty]) /\ Head(list[ty]) \notin ToSet(list'[ty])
  BY <1>1, <1>2, TailElems DEF EntriesOwned
<1>4. \A k \in RuleTypes : IsInjective(list'[k])
  BY <1>2, <1>3 DEF EntriesOwned
<1>5. \A k \in RuleTypes \ {ty} : ToSet(list'[k]) = ToSet(list[k])
  BY <1>2
<1>6. \A a, b \in RuleTypes : a # b => ToSet(list'[a]) \cap ToSet(list'[b]) = {}
  BY <1>3, <1>5 DEF EntriesOwned
<1>7. ASSUME NEW s \in Threads, NEW k \in RuleTypes PROVE Hand(s)' \notin ToSet(list'[k])
  <2>1. CASE s = t /\ k = ty
    BY <2>1, <1>3
  <2>2. CASE s = t /\ k # ty
    BY <2>2, <1>3, <1>5 DEF EntriesOwned
  <2>3. CASE s # t
    BY <2>3, <1>3, <1>5 DEF EntriesOwned, HandsKept
  <2> QED BY <2>1, <2>2, <2>3
<1>8. \A s, u \in Threads : s # u => Hand(s)' # Hand(u)' \/ Hand(s)' = Null
  BY <1>3 DEF EntriesOwned, HandsKept
<1>9. ASSUME NEW e \in Entries
      PROVE  e \in live' <=> \/ \E k \in RuleTypes : e \in ToSet(list'[k])
                             \/ \E s \in Threads : Hand(s)' = e
  BY <1>3, <1>5 DEF EntriesOwned, HandsKept
<1> QED BY <1>4, <1>6, <1>7, <1>8, <1>9 DEF EntriesOwned

\* A free block is allocated into a thread's empty hand.
LEMMA ToHand ==
    ASSUME TypeOK, EntriesOwned, NEW t \in Threads, NEW e \in Entries \ live,
           Hand(t) = Null, Hand(t)' = e, HandsKept(t),
           list' = list, live' = live \cup {e}
    PROVE  EntriesOwned'
BY DEF EntriesOwned, HandsKept

\* A thread frees the block in its hand, if there is one.
LEMMA FromHand ==
    ASSUME TypeOK, EntriesOwned, NEW t \in Threads,
           Hand(t)' = Null, HandsKept(t),
           list' = list, live' = live \ {Hand(t)}
    PROVE  EntriesOwned'
<1>1. \A k \in RuleTypes : \A e \in ToSet(list[k]) : e \in Entries
  BY DEF TypeOK, ToSet
<1> QED BY <1>1, HandOrNull DEF EntriesOwned, HandsKept

\* A whole list is freed.
LEMMA FromList ==
    ASSUME TypeOK, EntriesOwned, NEW ty \in RuleTypes,
           \A s \in Threads : Hand(s)' = Hand(s),
           list' = [list EXCEPT ![ty] = <<>>], live' = live \ ToSet(list[ty])
    PROVE  EntriesOwned'
<1>1. list \in [RuleTypes -> Seq(Entries)]
  BY DEF TypeOK
<1>2. /\ ToSet(list'[ty]) = {} /\ IsInjective(list'[ty])
      /\ \A k \in RuleTypes \ {ty} : list'[k] = list[k]
  BY <1>1, EmptyElems
<1>3. \A k \in RuleTypes \ {ty} : ToSet(list'[k]) = ToSet(list[k])
  BY <1>2
<1>4. \A k \in RuleTypes : IsInjective(list'[k])
  BY <1>2 DEF EntriesOwned
<1>5. \A a, b \in RuleTypes : a # b => ToSet(list'[a]) \cap ToSet(list'[b]) = {}
  BY <1>2, <1>3 DEF EntriesOwned
<1>6. \A s \in Threads, k \in RuleTypes : Hand(s)' \notin ToSet(list'[k])
  BY <1>2, <1>3 DEF EntriesOwned
<1>7. \A s, u \in Threads : s # u => Hand(s)' # Hand(u)' \/ Hand(s)' = Null
  BY DEF EntriesOwned
<1>8. ASSUME NEW e \in Entries
      PROVE  e \in live' <=> \/ \E k \in RuleTypes : e \in ToSet(list'[k])
                             \/ \E s \in Threads : Hand(s)' = e
  <2>1. CASE e \in ToSet(list[ty])
    <3>1. \A k \in RuleTypes : e \notin ToSet(list'[k])
      BY <2>1, <1>2, <1>3 DEF EntriesOwned
    <3>2. \A s \in Threads : Hand(s)' # e
      BY <2>1 DEF EntriesOwned
    <3> QED BY <2>1, <3>1, <3>2
  <2>2. CASE e \notin ToSet(list[ty])
    <3>1. \A k \in RuleTypes : e \in ToSet(list'[k]) <=> e \in ToSet(list[k])
      BY <2>2, <1>2, <1>3
    <3>2. e \in live' <=> e \in live
      BY <2>2
    <3>3. e \in live <=> \/ \E k \in RuleTypes : e \in ToSet(list[k])
                         \/ \E s \in Threads : Hand(s) = e
      BY DEF EntriesOwned
    <3> QED BY <3>1, <3>2, <3>3
  <2> QED BY <2>1, <2>2
<1> QED BY <1>4, <1>5, <1>6, <1>7, <1>8 DEF EntriesOwned

\* Nothing moves.
LEMMA NothingMoves ==
    ASSUME EntriesOwned, list' = list, live' = live,
           \A s \in Threads : Hand(s)' = Hand(s)
    PROVE  EntriesOwned'
BY DEF EntriesOwned

-----------------------------------------------------------------------------
(* Who is where: only a caller that removes is inside RuleEntryRemove, only*)
(* one that clears inside a clear, and pRuleEntry is NULL outside of       *)
(* RuleEntryAdd and RuleEntryRemove.                                       *)
InRemove == {"rm_check", "rm_pop", "rm_put", "rm_free"}

CallInv ==
    \A t \in Threads :
        /\ pc[t] \in InRemove => "remove" \in MayIssue[t]
        /\ pc[t] = "clr" => MayIssue[t] \cap {"clear", "typeclear"} # {}
        /\ pc[t] \notin InRemove \cup {"add_insert"} => cur[t] = Null

LEMMA CallStep == TypeOK /\ CallInv /\ [Next]_vars => CallInv'
<1> SUFFICES ASSUME TypeOK, CallInv, [Next]_vars PROVE CallInv'
  OBVIOUS
<1>a. pc \in [Threads -> Labels] /\ cur \in [Threads -> Entries \cup {Null}]
  BY DEF TypeOK
<1> USE <1>a DEF CallInv, InRemove, Goto, Calling
<1>1. ASSUME NEW t \in Threads,
             \/ AddAlloc(t) \/ AddInsert(t) \/ RemoveBegin(t) \/ RemoveCheck(t)
             \/ RemoveMatch(t) \/ RemovePutBack(t) \/ RemoveFree(t)
      PROVE  CallInv'
  BY <1>1 DEF AddAlloc, AddInsert, RemoveBegin, RemoveCheck, RemoveMatch,
              RemovePutBack, RemoveFree, lists, locals
<1>2. ASSUME NEW t \in Threads, RemovePop(t) PROVE CallInv'
  <2>1. /\ pc[t] = "rm_pop" /\ pc' = [pc EXCEPT ![t] = "rm_put"]
        /\ \A s \in Threads \ {t} : cur'[s] = cur[s]
    BY <1>2 DEF RemovePop
  <2> QED BY <2>1
<1>3. ASSUME NEW t \in Threads, AllClear(t) \/ TypeClear(t) PROVE CallInv'
  BY <1>3 DEF AllClear, TypeClear, BeginClear
<1>4. ASSUME NEW t \in Threads, ReleaseList(t) PROVE CallInv'
  BY <1>4 DEF ReleaseList
<1>5. ASSUME NEW t \in Threads,
             SetLo(t) \/ SetHi(t) \/ GetLo(t) \/ GetHi(t) \/ InHi(t)
      PROVE  CallInv'
  BY <1>5 DEF SetLo, SetHi, GetLo, GetHi, InHi, locals
<1>6. ASSUME NEW t \in Threads, InLo(t) PROVE CallInv'
  <2>1. /\ pc[t] = "idle" /\ cur' = cur
        /\ Goto(t, "in_hi") \/ pc' = pc
    BY <1>6 DEF InLo
  <2> QED BY <2>1
<1>7. CASE UNCHANGED vars
  BY <1>7 DEF vars
<1> QED
  BY <1>1, <1>2, <1>3, <1>4, <1>5, <1>6, <1>7 DEF Next, Call, Proceed

-----------------------------------------------------------------------------
(* The inductive invariant: neither half of it is inductive without the    *)
(* other, since what RuleEntryRemove frees is in its hand only if its loop *)
(* ended at a match, and the loop ends at a match only if the list cannot  *)
(* become empty behind its back.                                           *)
OwnInv == Shape /\ CallInv /\ EntriesOwned /\ CursorInv

LEMMA OwnInit == Init => OwnInv
<1> SUFFICES ASSUME Init PROVE OwnInv
  OBVIOUS
<1>1. Shape
  BY ShapeInit
<1>2. \A ty \in RuleTypes : ToSet(list[ty]) = {} /\ IsInjective(list[ty])
  BY EmptyElems DEF Init
<1>3. \A t \in Threads : pc[t] = "idle" /\ cur[t] = Null /\ Hand(t) = Null
  BY DEF Init, Hand
<1>4. EntriesOwned
  BY <1>2, <1>3 DEF EntriesOwned, Init
<1> QED
  BY <1>1, <1>3, <1>4 DEF OwnInv, CallInv, InRemove, CursorInv, CursorOk

LEMMA OwnedStep ==
    ASSUME OwnInv, [Next]_vars
    PROVE  EntriesOwned'
<1> USE DEF Goto, Calling
<1>a. /\ TypeOK /\ EntriesOwned /\ CallInv /\ CursorInv
      /\ pc \in [Threads -> Labels] /\ cur \in [Threads -> Entries \cup {Null}]
      /\ list \in [RuleTypes -> Seq(Entries)]
      /\ rule \in [Entries -> Rules] /\ key \in [Threads -> Rules]
  BY DEF OwnInv, Shape, TypeOK
<1>1. ASSUME NEW t \in Threads, AddAlloc(t) PROVE EntriesOwned'
  <2>1. PICK e \in Entries \ live :
           live' = live \cup {e} /\ cur' = [cur EXCEPT ![t] = e]
    BY <1>1 DEF AddAlloc
  <2>2. list' = list /\ pc[t] = "idle" /\ pc' = [pc EXCEPT ![t] = "add_insert"]
    BY <1>1 DEF AddAlloc
  <2>3. Hand(t) = Null /\ Hand(t)' = e /\ HandsKept(t)
    BY <1>a, <2>1, <2>2 DEF Hand, HandsKept
  <2> QED BY <1>a, <2>1, <2>2, <2>3, ToHand
<1>2. ASSUME NEW t \in Threads, AddInsert(t) PROVE EntriesOwned'
  <2>1. cur[t] \in Entries
    BY <1>2, <1>a DEF OwnInv, Shape, AddInsert
  <2>2. TypeOf(rule[cur[t]]) \in RuleTypes
    BY <2>1, <1>a, TypeOfType
  <2>3. Hand(t) = cur[t] /\ Hand(t)' = Null /\ HandsKept(t)
    BY <1>a, <1>2 DEF AddInsert, Hand, HandsKept
  <2>4. live' = live /\ list' = [list EXCEPT ![TypeOf(rule[cur[t]])] = Append(@, cur[t])]
    BY <1>2 DEF AddInsert
  <2> QED BY <1>a, <2>1, <2>2, <2>3, <2>4, ToTail
<1>3. ASSUME NEW t \in Threads, RemoveBegin(t) PROVE EntriesOwned'
  <2>1. \A s \in Threads : Hand(s)' = Hand(s)
    BY <1>3, <1>a DEF RemoveBegin, Hand
  <2> QED BY <2>1, <1>3, <1>a, NothingMoves DEF RemoveBegin, lists
<1>4. ASSUME NEW t \in Threads, RemoveCheck(t) PROVE EntriesOwned'
  <2>1. /\ list' = list /\ live' = live /\ cur' = cur
        /\ pc[t] = "rm_check"
        /\ pc' = [pc EXCEPT ![t] = IF list[TypeOf(key[t])] = <<>> THEN "rm_free" ELSE "rm_pop"]
    BY <1>4 DEF RemoveCheck, lists, locals
  <2>2. CASE list[TypeOf(key[t])] = <<>>
    <3>1. cur[t] = Null
      BY <2>1, <2>2, <1>a, EmptyElems DEF CursorInv, CursorOk
    <3>2. \A s \in Threads : Hand(s)' = Hand(s)
      BY <2>1, <3>1, <1>a DEF Hand
    <3> QED BY <2>1, <3>2, <1>a, NothingMoves
  <2>3. CASE list[TypeOf(key[t])] # <<>>
    <3>1. \A s \in Threads : Hand(s)' = Hand(s)
      BY <2>1, <2>3, <1>a DEF Hand
    <3> QED BY <2>1, <3>1, <1>a, NothingMoves
  <2> QED BY <2>2, <2>3
<1>5. ASSUME NEW t \in Threads, RemovePop(t) PROVE EntriesOwned'
  <2> DEFINE ty == TypeOf(key[t])
  <2>1. ty \in RuleTypes /\ list[ty] # <<>>
    BY <1>5, <1>a, TypeOfType DEF RemovePop, CursorInv, CursorOk
  <2>2. /\ cur' = [cur EXCEPT ![t] = Head(list[ty])]
        /\ list' = [list EXCEPT ![ty] = Tail(@)]
        /\ pc[t] = "rm_pop" /\ pc' = [pc EXCEPT ![t] = "rm_put"]
        /\ live' = live
    BY <1>5, <2>1 DEF RemovePop
  <2>3. Hand(t) = Null /\ Hand(t)' = Head(list[ty]) /\ HandsKept(t)
    BY <2>2, <1>a DEF Hand, HandsKept
  <2> QED BY <1>a, <2>1, <2>2, <2>3, FromHead
<1>6. ASSUME NEW t \in Threads, RemoveMatch(t) PROVE EntriesOwned'
  <2>1. \A s \in Threads : Hand(s)' = Hand(s)
    BY <1>6, <1>a DEF RemoveMatch, Hand, locals
  <2> QED BY <2>1, <1>6, <1>a, NothingMoves DEF RemoveMatch
<1>7. ASSUME NEW t \in Threads, RemovePutBack(t) PROVE EntriesOwned'
  <2>1. cur[t] # Null /\ TypeOf(key[t]) \in RuleTypes
    BY <1>7, <1>a, TypeOfType DEF RemovePutBack, CursorInv, CursorOk
  <2>2. /\ pc[t] = "rm_put" /\ pc' = [pc EXCEPT ![t] = "rm_check"]
        /\ cur' = cur /\ live' = live
        /\ list' = [list EXCEPT ![TypeOf(key[t])] = Append(@, cur[t])]
    BY <1>7, <2>1 DEF RemovePutBack, locals
  <2>3. Hand(t) = cur[t] /\ Hand(t)' = Null /\ HandsKept(t)
    BY <2>2, <1>a DEF Hand, HandsKept
  <2> QED BY <1>a, <2>1, <2>2, <2>3, ToTail
<1>8. ASSUME NEW t \in Threads, RemoveFree(t) PROVE EntriesOwned'
  <2>1. /\ Hand(t) = cur[t] /\ Hand(t)' = Null /\ HandsKept(t)
        /\ list' = list /\ live' = live \ {cur[t]}
    BY <1>8, <1>a DEF RemoveFree, Hand, HandsKept
  <2> QED BY <1>a, <2>1, FromHand
<1>9. ASSUME NEW t \in Threads, AllClear(t) \/ TypeClear(t) PROVE EntriesOwned'
  <2>1. /\ pc[t] = "idle" /\ pc' = [pc EXCEPT ![t] = "clr"]
        /\ cur' = cur /\ list' = list /\ live' = live
    BY <1>9 DEF AllClear, TypeClear, BeginClear, lists
  <2>2. \A s \in Threads : Hand(s)' = Hand(s)
    BY <2>1, <1>a DEF Hand
  <2> QED BY <2>1, <2>2, <1>a, NothingMoves
<1>10. ASSUME NEW t \in Threads, ReleaseList(t) PROVE EntriesOwned'
  <2>1. Head(todo[t]) \in RuleTypes
    BY <1>10 DEF OwnInv, Shape, TypeOK, ReleaseList
  <2>2. /\ cur' = cur
        /\ list' = [list EXCEPT ![Head(todo[t])] = <<>>]
        /\ live' = live \ ToSet(list[Head(todo[t])])
    BY <1>10 DEF ReleaseList
  <2>3. pc[t] = "clr" /\ (pc' = pc \/ pc' = [pc EXCEPT ![t] = "idle"])
    BY <1>10 DEF ReleaseList
  <2>4. \A s \in Threads : Hand(s)' = Hand(s)
    BY <2>2, <2>3, <1>a DEF Hand
  <2> QED BY <2>1, <2>2, <2>4, <1>a, FromList
<1>11. ASSUME NEW t \in Threads, SetLo(t) \/ SetHi(t) \/ GetLo(t) \/ GetHi(t) \/ InHi(t)
       PROVE  EntriesOwned'
  <2>1. /\ pc[t] \in {"idle", "set_hi", "get_hi", "in_hi"}
        /\ \E l \in {"idle", "set_hi", "get_hi"} : pc' = [pc EXCEPT ![t] = l]
        /\ cur' = cur /\ list' = list /\ live' = live
    BY <1>11 DEF SetLo, SetHi, GetLo, GetHi, InHi, lists, locals
  <2>2. \A s \in Threads : Hand(s)' = Hand(s)
    BY <2>1, <1>a DEF Hand
  <2> QED BY <2>1, <2>2, <1>a, NothingMoves
<1>12. ASSUME NEW t \in Threads, InLo(t) PROVE EntriesOwned'
  <2>1. /\ pc[t] = "idle" /\ (pc' = pc \/ pc' = [pc EXCEPT ![t] = "in_hi"])
        /\ cur' = cur /\ list' = list /\ live' = live
    BY <1>12 DEF InLo, lists
  <2>2. \A s \in Threads : Hand(s)' = Hand(s)
    BY <2>1, <1>a DEF Hand
  <2> QED BY <2>1, <2>2, <1>a, NothingMoves
<1>13. CASE UNCHANGED vars
  <2>1. \A s \in Threads : Hand(s)' = Hand(s)
    BY <1>13 DEF vars, Hand
  <2> QED BY <2>1, <1>13, <1>a, NothingMoves DEF vars
<1> QED
  BY <1>1, <1>2, <1>3, <1>4, <1>5, <1>6, <1>7, <1>8, <1>9, <1>10, <1>11, <1>12,
     <1>13 DEF Next, Call, Proceed

\* What another thread's step must keep for a thread inside RuleEntryRemove.
LEMMA CursorFrame ==
    ASSUME OwnInv, NEW s \in Threads,
           pc'[s] = pc[s], cur'[s] = cur[s], key'[s] = key[s],
           pc[s] \in InRemove => list' = list \/
              \A ty \in RuleTypes : /\ ToSet(list[ty]) \subseteq ToSet(list'[ty])
                                    /\ list[ty] # <<>> => list'[ty] # <<>>,
           \A e \in live : rule'[e] = rule[e]
    PROVE  CursorOk(s)'
<1>1. CursorOk(s) /\ TypeOf(key[s]) \in RuleTypes
  BY TypeOfType DEF OwnInv, Shape, TypeOK, CursorInv
<1>2. pc[s] = "rm_free" /\ cur[s] # Null => cur[s] \in live
  BY DEF OwnInv, Shape, TypeOK, EntriesOwned, Hand
<1>3. TypeOf(key'[s]) = TypeOf(key[s])
  OBVIOUS
<1> QED
  BY <1>1, <1>2, <1>3 DEF CursorOk, InRemove

LEMMA Alone ==
    ASSUME SingleRemover, CallInv, NEW s \in Threads, NEW t \in Threads, s # t,
           pc[t] \in InRemove \cup {"clr"}
    PROVE  pc[s] \notin InRemove
BY DEF SingleRemover, CallInv, InRemove

LEMMA CursorStep ==
    ASSUME SingleRemover, OwnInv, [Next]_vars
    PROVE  CursorInv'
<1> USE DEF Goto, Calling
<1>a. /\ TypeOK /\ EntriesOwned /\ CallInv /\ CursorInv
      /\ pc \in [Threads -> Labels] /\ cur \in [Threads -> Entries \cup {Null}]
      /\ list \in [RuleTypes -> Seq(Entries)]
      /\ rule \in [Entries -> Rules] /\ key \in [Threads -> Rules]
  BY DEF OwnInv, Shape, TypeOK
<1>1. ASSUME NEW t \in Threads, AddAlloc(t) PROVE CursorInv'
  <2>1. PICK r \in Rules, e \in Entries \ live :
           rule' = [rule EXCEPT ![e] = r] /\ cur' = [cur EXCEPT ![t] = e]
    BY <1>1 DEF AddAlloc
  <2>2. list' = list /\ key' = key /\ pc' = [pc EXCEPT ![t] = "add_insert"]
    BY <1>1 DEF AddAlloc
  <2>3. \A x \in live : rule'[x] = rule[x]
    BY <2>1, <1>a DEF TypeOK
  <2>4. ASSUME NEW s \in Threads, s # t PROVE CursorOk(s)'
    BY <1>a, <2>1, <2>2, <2>3, <2>4, CursorFrame
  <2>5. CursorOk(t)'
    BY <1>a, <2>2 DEF CursorOk
  <2> QED BY <2>4, <2>5 DEF CursorInv
<1>2. ASSUME NEW t \in Threads, AddInsert(t) PROVE CursorInv'
  <2>1. cur[t] \in Entries
    BY <1>2, <1>a DEF OwnInv, Shape, AddInsert
  <2> DEFINE ty == TypeOf(rule[cur[t]])
  <2>2. ty \in RuleTypes
    BY <2>1, <1>a, TypeOfType
  <2>3. /\ list' = [list EXCEPT ![ty] = Append(list[ty], cur[t])]
        /\ rule' = rule /\ key' = key
        /\ cur' = [cur EXCEPT ![t] = Null] /\ pc' = [pc EXCEPT ![t] = "idle"]
    BY <1>2 DEF AddInsert
  <2>4. /\ list'[ty] # <<>> /\ ToSet(list[ty]) \subseteq ToSet(list'[ty])
        /\ \A k \in RuleTypes \ {ty} : list'[k] = list[k]
    <3>1. list'[ty] = Append(list[ty], cur[t]) /\ list[ty] \in Seq(Entries)
      BY <1>a, <2>2, <2>3
    <3>2. list'[ty] # <<>>
      BY <2>1, <3>1
    <3>3. ToSet(list[ty]) \subseteq ToSet(list'[ty])
      BY <2>1, <3>1, AppendElems
    <3>4. \A k \in RuleTypes \ {ty} : list'[k] = list[k]
      BY <1>a, <2>3
    <3> QED BY <3>2, <3>3, <3>4
  <2>5. \A k \in RuleTypes : /\ ToSet(list[k]) \subseteq ToSet(list'[k])
                             /\ list[k] # <<>> => list'[k] # <<>>
    BY <2>4
  <2>6. ASSUME NEW s \in Threads, s # t PROVE CursorOk(s)'
    BY <1>a, <2>3, <2>5, <2>6, CursorFrame
  <2>7. CursorOk(t)'
    BY <1>a, <2>3 DEF CursorOk
  <2> QED BY <2>6, <2>7 DEF CursorInv
<1>3. ASSUME NEW t \in Threads,
             \/ RemoveBegin(t) \/ RemoveCheck(t) \/ RemovePop(t)
             \/ RemoveMatch(t) \/ RemovePutBack(t) \/ RemoveFree(t)
      PROVE  CursorInv'
  <2>1. "remove" \in MayIssue[t]
    BY <1>3, <1>a DEF CallInv, InRemove, RemoveBegin, RemoveCheck, RemovePop,
                      RemoveMatch, RemovePutBack, RemoveFree
  <2>2. \A s \in Threads \ {t} : pc[s] \notin InRemove
    BY <2>1, <1>a DEF SingleRemover, CallInv
  <2>3. \A s \in Threads \ {t} : pc'[s] = pc[s]
    BY <1>3, <1>a DEF RemoveBegin, RemoveCheck, RemovePop,
                      RemoveMatch, RemovePutBack, RemoveFree
  <2>4. \A s \in Threads \ {t} : CursorOk(s)'
    BY <2>2, <2>3 DEF CursorOk, InRemove
  <2>5. CursorOk(t)'
    <3>1. CASE RemoveBegin(t)
      BY <3>1, <1>a DEF RemoveBegin, CallInv, InRemove, CursorOk
    <3>2. CASE RemoveCheck(t)
      <4>1. /\ UNCHANGED <<list, cur, key, rule>> /\ pc[t] = "rm_check"
            /\ pc' = [pc EXCEPT ![t] = IF list[TypeOf(key[t])] = <<>> THEN "rm_free" ELSE "rm_pop"]
        BY <3>2 DEF RemoveCheck, lists, locals
      <4>2. cur[t] = Null \/ cur[t] \in ToSet(list[TypeOf(key[t])])
        BY <4>1, <1>a DEF CursorInv, CursorOk
      <4>3. CASE list[TypeOf(key[t])] = <<>>
        <5>1. cur[t] = Null
          BY <4>2, <4>3, EmptyElems
        <5> QED BY <4>1, <4>3, <5>1, <1>a DEF CursorOk
      <4>4. CASE list[TypeOf(key[t])] # <<>>
        BY <4>1, <4>2, <4>4, <1>a DEF CursorOk
      <4> QED BY <4>3, <4>4
    <3>3. CASE RemovePop(t)
      <4>1. list[TypeOf(key[t])] # <<>> /\ TypeOf(key[t]) \in RuleTypes
        BY <3>3, <1>a, TypeOfType DEF RemovePop, CursorInv, CursorOk
      <4>2. cur' = [cur EXCEPT ![t] = Head(list[TypeOf(key[t])])] /\ pc' = [pc EXCEPT ![t] = "rm_put"]
        BY <3>3, <4>1 DEF RemovePop
      <4>3. Head(list[TypeOf(key[t])]) \in Entries
        BY <4>1, <1>a
      <4> QED BY <4>2, <4>3, <1>a DEF CursorOk
    <3>4. CASE RemoveMatch(t)
      BY <3>4, <1>a DEF RemoveMatch, Matches, CursorOk, locals
    <3>5. CASE RemovePutBack(t)
      <4>1. cur[t] \in Entries /\ TypeOf(key[t]) \in RuleTypes
        BY <3>5, <1>a, TypeOfType DEF RemovePutBack, CursorInv, CursorOk
      <4>2. /\ pc' = [pc EXCEPT ![t] = "rm_check"] /\ cur' = cur /\ key' = key
            /\ list' = [list EXCEPT ![TypeOf(key[t])] = Append(list[TypeOf(key[t])], cur[t])]
        BY <3>5, <4>1 DEF RemovePutBack, locals
      <4>3. list'[TypeOf(key[t])] = Append(list[TypeOf(key[t])], cur[t])
        BY <4>1, <4>2, <1>a
      <4>4. cur[t] \in ToSet(list'[TypeOf(key[t])])
        BY <4>1, <4>3, <1>a, AppendElems
      <4> QED BY <4>2, <4>4, <1>a DEF CursorOk
    <3>6. CASE RemoveFree(t)
      BY <3>6, <1>a DEF RemoveFree, CursorOk
    <3> QED BY <1>3, <3>1, <3>2, <3>3, <3>4, <3>5, <3>6
  <2> QED BY <2>4, <2>5 DEF CursorInv
<1>4. ASSUME NEW t \in Threads, ReleaseList(t) PROVE CursorInv'
  <2>1. pc[t] = "clr" /\ (pc' = pc \/ pc' = [pc EXCEPT ![t] = "idle"])
    BY <1>4 DEF ReleaseList
  <2>2. \A s \in Threads : pc'[s] \notin InRemove
    BY <2>1, <1>a, Alone DEF InRemove
  <2> QED BY <2>2 DEF CursorInv, CursorOk, InRemove
<1>5. ASSUME NEW t \in Threads,
             \/ AllClear(t) \/ TypeClear(t)
             \/ SetLo(t) \/ SetHi(t) \/ GetLo(t) \/ GetHi(t) \/ InLo(t) \/ InHi(t)
      PROVE  CursorInv'
  <2>1. /\ UNCHANGED <<list, rule, cur, key>>
        /\ pc[t] \notin InRemove
        /\ \A s \in Threads \ {t} : pc'[s] = pc[s]
        /\ pc'[t] \notin InRemove
    BY <1>5, <1>a DEF AllClear, TypeClear, BeginClear, SetLo, SetHi, GetLo, GetHi,
                      InLo, InHi, lists, locals, InRemove
  <2>2. CursorOk(t)'
    BY <2>1 DEF CursorOk, InRemove
  <2>3. ASSUME NEW s \in Threads, s # t PROVE CursorOk(s)'
    BY <1>a, <2>1, <2>3, CursorFrame
  <2> QED BY <2>2, <2>3 DEF CursorInv
<1>6. CASE UNCHANGED vars
  <2>1. ASSUME NEW s \in Threads PROVE CursorOk(s)'
    BY <1>a, <1>6, <2>1, CursorFrame DEF vars
  <2> QED BY <2>1 DEF CursorInv
<1> QED
  BY <1>1, <1>2, <1>3, <1>4, <1>5, <1>6 DEF Next, Call, Proceed

LEMMA OwnCorrect == ASSUME SingleRemover PROVE Spec => []OwnInv
<1>1. OwnInv /\ [Next]_vars => OwnInv'
  BY ShapeStep, CallStep, OwnedStep, CursorStep DEF OwnInv, Shape
<1> QED
  BY OwnInit, <1>1, PTL DEF Spec

(* An allocated rule entry is in exactly one list or one hand, for any     *)
(* number of threads, entries and rules, as long as one caller at a time   *)
(* removes (Rule.c:60-178, 297-354).                                       *)
THEOREM OwnershipCorrect == ASSUME SingleRemover PROVE Spec => []EntriesOwned
BY OwnCorrect, PTL DEF OwnInv

(* Under the same discipline RuleEntryRemove may rely on what it read      *)
(* before it let go of the lock (Rule.c:147-177).                          *)
THEOREM CursorCorrect == ASSUME SingleRemover PROVE Spec => []CursorInv
BY OwnCorrect, PTL DEF OwnInv

(* Under the same discipline no rule is freed but by a clear or by the     *)
(* remove that named it (Rule.c:147-177, 297-320).                         *)
THEOREM FreesCorrect == ASSUME SingleRemover PROVE Spec => FreesOnlyWhatItMatched
<1> DEFINE FreeStep == \A e \in live \ live' :
                          \E t \in Threads : \/ pc[t] = "clr"
                                             \/ pc[t] = "rm_free" /\ rule[e] = key[t]
<1>1. ASSUME OwnInv, [Next]_vars PROVE [FreeStep]_vars
  <2>1. CASE UNCHANGED vars
    BY <2>1
  <2>2. ASSUME NEW t \in Threads, RemoveFree(t) PROVE FreeStep
    BY <1>1, <2>2 DEF RemoveFree, OwnInv, CursorInv, CursorOk, Shape, TypeOK
  <2>3. ASSUME NEW t \in Threads, ReleaseList(t) PROVE FreeStep
    BY <2>3 DEF ReleaseList
  <2>4. ASSUME NEW t \in Threads, AddAlloc(t) PROVE live \subseteq live'
    BY <2>4 DEF AddAlloc
  <2>5. ASSUME NEW t \in Threads,
               \/ AddInsert(t) \/ RemoveBegin(t) \/ RemoveCheck(t) \/ RemovePop(t)
               \/ RemoveMatch(t) \/ RemovePutBack(t) \/ AllClear(t) \/ TypeClear(t)
               \/ SetLo(t) \/ SetHi(t) \/ GetLo(t) \/ GetHi(t) \/ InLo(t) \/ InHi(t)
        PROVE  live' = live
    BY <2>5 DEF AddInsert, RemoveBegin, RemoveCheck, RemovePop, RemoveMatch,
                RemovePutBack, AllClear, TypeClear, BeginClear, SetLo, SetHi,
                GetLo, GetHi, InLo, InHi, lists
  <2> QED
    BY <1>1, <2>1, <2>2, <2>3, <2>4, <2>5 DEF Next, Call, Proceed
<1> QED
  BY <1>1, OwnCorrect, PTL DEF Spec, FreesOnlyWhatItMatched

-----------------------------------------------------------------------------
(* The rotation.  While a thread is in its loop the others can only append *)
(* to its list and fill in entries that are in no list.                    *)

\* What the list of a remove is, before and after a step.
Wanted(t) == list[TypeOf(key[t])]

LEMMA WantedIs ==
    ASSUME OwnInv, NEW t \in Threads
    PROVE  /\ TypeOf(key[t]) \in RuleTypes
           /\ Wanted(t) \in Seq(Entries)
           /\ Len(Wanted(t)) \in Nat
           /\ DOMAIN Wanted(t) = 1 .. Len(Wanted(t))
           /\ \A i \in DOMAIN Wanted(t) : Wanted(t)[i] \in live
<1>1. TypeOf(key[t]) \in RuleTypes
  BY TypeOfType DEF OwnInv, Shape, TypeOK
<1>2. Wanted(t) \in Seq(Entries)
  BY <1>1 DEF Wanted, OwnInv, Shape, TypeOK
<1>3. /\ Len(Wanted(t)) \in Nat
      /\ DOMAIN Wanted(t) = 1 .. Len(Wanted(t))
  BY <1>2
<1>4. ASSUME NEW i \in DOMAIN Wanted(t) PROVE Wanted(t)[i] \in live
  <2>1. Wanted(t)[i] \in ToSet(list[TypeOf(key[t])]) /\ Wanted(t)[i] \in Entries
    BY <1>2, <1>3 DEF Wanted, ToSet
  <2> QED BY <1>1, <2>1 DEF OwnInv, EntriesOwned
<1> QED BY <1>1, <1>2, <1>3, <1>4

\* A step of another thread.
LEMMA OthersAppend ==
    ASSUME SingleRemover, OwnInv, NEW t \in Threads, NEW s \in Threads, s # t,
           Call(s) \/ Proceed(s), pc[t] \in Round
    PROVE  /\ pc'[t] = pc[t] /\ cur'[t] = cur[t] /\ key'[t] = key[t]
           /\ \A e \in live : rule'[e] = rule[e]
           /\ \/ list' = list
              \/ /\ pc[s] = "add_insert" /\ pc'[s] = "idle" /\ cur[s] \in live
                 /\ list' = [list EXCEPT ![TypeOf(rule[cur[s]])] = Append(@, cur[s])]
<1> USE DEF Goto, Calling
<1>a. /\ pc \in [Threads -> Labels] /\ cur \in [Threads -> Entries \cup {Null}]
      /\ key \in [Threads -> Rules] /\ rule \in [Entries -> Rules]
      /\ CallInv /\ EntriesOwned
  BY DEF OwnInv, Shape, TypeOK
<1>1. "remove" \in MayIssue[t]
  BY <1>a DEF CallInv, Round, InRemove
<1>2. MayIssue[s] \cap {"remove", "clear", "typeclear"} = {}
  BY <1>1 DEF SingleRemover
<1>3. pc[s] \notin InRemove /\ pc[s] # "clr"
  BY <1>2, <1>a DEF CallInv
<1>4. CASE AddAlloc(s)
  <2>1. PICK r \in Rules, e \in Entries \ live :
           rule' = [rule EXCEPT ![e] = r] /\ cur' = [cur EXCEPT ![s] = e]
    BY <1>4 DEF AddAlloc
  <2>2. list' = list /\ key' = key /\ pc' = [pc EXCEPT ![s] = "add_insert"]
    BY <1>4 DEF AddAlloc
  <2>3. \A x \in live : rule'[x] = rule[x]
    BY <2>1, <1>a DEF OwnInv, Shape, TypeOK
  <2> QED BY <2>1, <2>2, <2>3, <1>a
<1>5. CASE AddInsert(s)
  <2>1. pc[s] = "add_insert" /\ Hand(s) = cur[s] /\ cur[s] \in Entries
    BY <1>5, <1>a DEF AddInsert, Hand, OwnInv, Shape
  <2>2. cur[s] \in live
    BY <2>1, <1>a DEF EntriesOwned
  <2>3. /\ list' = [list EXCEPT ![TypeOf(rule[cur[s]])] = Append(@, cur[s])]
        /\ rule' = rule /\ key' = key
        /\ cur' = [cur EXCEPT ![s] = Null] /\ pc' = [pc EXCEPT ![s] = "idle"]
    BY <1>5 DEF AddInsert
  <2> QED BY <2>1, <2>2, <2>3, <1>a
<1>6. CASE SetLo(s) \/ SetHi(s) \/ GetLo(s) \/ GetHi(s) \/ InLo(s) \/ InHi(s)
  BY <1>6, <1>a DEF SetLo, SetHi, GetLo, GetHi, InLo, InHi, lists, locals
<1>7. CASE \/ RemoveBegin(s) \/ RemoveCheck(s) \/ RemovePop(s) \/ RemoveMatch(s)
           \/ RemovePutBack(s) \/ RemoveFree(s) \/ AllClear(s) \/ TypeClear(s)
           \/ ReleaseList(s)
  BY <1>7, <1>2, <1>3 DEF RemoveBegin, RemoveCheck, RemovePop, RemoveMatch, RemovePutBack,
     RemoveFree, AllClear, TypeClear, ReleaseList, InRemove
<1> QED BY <1>4, <1>5, <1>6, <1>7 DEF Call, Proceed

\* The list of a remove after a step that may have appended to it.
LEMMA WantedGrows ==
    ASSUME OwnInv, NEW t \in Threads, key'[t] = key[t],
           NEW ty, NEW e \in Entries,
           list' = list \/ list' = [list EXCEPT ![ty] = Append(@, e)]
    PROVE  \/ Wanted(t)' = Wanted(t)
           \/ ty = TypeOf(key[t]) /\ Wanted(t)' = Append(Wanted(t), e)
<1>1. list \in [RuleTypes -> Seq(Entries)] /\ TypeOf(key[t]) \in RuleTypes
  BY WantedIs DEF OwnInv, Shape, TypeOK
<1> QED BY <1>1 DEF Wanted

LEMMA SoughtIs ==
    ASSUME NEW t \in Threads
    PROVE  \A i : i \in Sought(t) <=> i \in DOMAIN Wanted(t) /\ rule[Wanted(t)[i]] = key[t]
BY DEF Sought, Wanted

LEMMA SoughtThen ==
    ASSUME NEW t \in Threads
    PROVE  \A i : i \in Sought(t)' <=> /\ i \in DOMAIN Wanted(t)'
                                     /\ rule'[Wanted(t)'[i]] = key'[t]
BY DEF Sought, Wanted

\* Where the rule is does not change when others append, except that it may
\* now be at the end too.
LEMMA SoughtGrows ==
    ASSUME OwnInv, NEW t \in Threads, key'[t] = key[t],
           \A x \in live : rule'[x] = rule[x],
           NEW e \in live,
           Wanted(t)' = Wanted(t) \/ Wanted(t)' = Append(Wanted(t), e)
    PROVE  /\ Sought(t) \subseteq Sought(t)'
           /\ Wanted(t)' = Wanted(t) \/ rule[e] # key[t] => Sought(t)' = Sought(t)
           /\ Wanted(t) # <<>> => Wanted(t)' # <<>>
<1> DEFINE q == Wanted(t)  n == Len(q)
<1>1. /\ q \in Seq(Entries) /\ n \in Nat /\ DOMAIN q = 1 .. n
      /\ \A i \in DOMAIN q : rule'[q[i]] = rule[q[i]]
  BY WantedIs
<1>2. e \in Entries /\ rule'[e] = rule[e]
  BY DEF OwnInv, Shape, TypeOK
<1>3. CASE Wanted(t)' = q
  <2>1. \A i : i \in Sought(t)' <=> i \in Sought(t)
    BY <1>3, <1>1, SoughtIs, SoughtThen
  <2>2. Sought(t)' = Sought(t)
    BY <2>1 DEF Sought
  <2> QED BY <1>3, <2>2
<1>4. CASE Wanted(t)' = Append(q, e)
  <2>1. /\ DOMAIN Append(q, e) = 1 .. n + 1
        /\ \A i \in 1 .. n : Append(q, e)[i] = q[i]
        /\ Append(q, e)[n + 1] = e
        /\ Append(q, e) # <<>>
    BY <1>1, <1>2, AppendProperties
  <2>2. \A i \in 1 .. n + 1 : i \in 1 .. n \/ i = n + 1
    BY <1>1
  <2>3. 1 .. n \subseteq 1 .. n + 1
    BY <1>1
  <2>4. Sought(t) \subseteq Sought(t)'
    BY <1>4, <1>1, <2>1, <2>3, SoughtIs, SoughtThen
  <2>5. rule[e] # key[t] => Sought(t)' \subseteq Sought(t)
    BY <1>4, <1>1, <1>2, <2>1, <2>2, SoughtIs, SoughtThen
  <2>6. Wanted(t)' # q
    <3>1. n + 1 \in DOMAIN Append(q, e) /\ n + 1 \notin DOMAIN q
      BY <1>1, <2>1
    <3> QED BY <3>1, <1>4
  <2> QED BY <1>4, <2>1, <2>4, <2>5, <2>6
<1> QED BY <1>3, <1>4

\* The steps of the remove itself.
LEMMA OwnRounds ==
    ASSUME OwnInv, NEW t \in Threads, Call(t) \/ Proceed(t), pc[t] \in Round
    PROVE  /\ key'[t] = key[t] /\ rule' = rule
           /\ \/ /\ pc[t] = "rm_check" /\ Wanted(t)' = Wanted(t) /\ cur'[t] = cur[t]
                 /\ pc'[t] = IF Wanted(t) = <<>> THEN "rm_free" ELSE "rm_pop"
              \/ /\ pc[t] = "rm_pop" /\ pc'[t] = "rm_put" /\ Wanted(t) # <<>>
                 /\ cur'[t] = Head(Wanted(t)) /\ Wanted(t)' = Tail(Wanted(t))
              \/ /\ pc[t] = "rm_put" /\ pc'[t] = "rm_free" /\ Matches(t)
                 /\ Wanted(t)' = Wanted(t) /\ cur'[t] = cur[t]
              \/ /\ pc[t] = "rm_put" /\ pc'[t] = "rm_check" /\ ~Matches(t)
                 /\ cur[t] \in live /\ rule[cur[t]] # key[t]
                 /\ Wanted(t)' = Append(Wanted(t), cur[t])
<1> USE DEF Goto, Calling
<1>a. /\ pc \in [Threads -> Labels] /\ cur \in [Threads -> Entries \cup {Null}]
      /\ list \in [RuleTypes -> Seq(Entries)] /\ TypeOf(key[t]) \in RuleTypes
      /\ CursorOk(t) /\ EntriesOwned
  BY WantedIs DEF OwnInv, Shape, TypeOK, CursorInv
<1>1. CASE RemoveCheck(t)
  BY <1>1, <1>a DEF RemoveCheck, lists, locals, Wanted
<1>2. CASE RemovePop(t)
  <2>1. pc[t] = "rm_pop" /\ Wanted(t) # <<>>
    BY <1>2, <1>a DEF RemovePop, CursorOk, Wanted
  <2>2. /\ cur' = [cur EXCEPT ![t] = Head(Wanted(t))]
        /\ list' = [list EXCEPT ![TypeOf(key[t])] = Tail(@)]
        /\ pc' = [pc EXCEPT ![t] = "rm_put"] /\ rule' = rule /\ key' = key
    BY <1>2, <2>1 DEF RemovePop, Wanted
  <2>3. Wanted(t)' = Tail(Wanted(t))
    BY <2>2, <1>a DEF Wanted
  <2> QED BY <2>1, <2>2, <2>3, <1>a
<1>3. CASE RemoveMatch(t)
  BY <1>3, <1>a DEF RemoveMatch, locals, Wanted
<1>4. CASE RemovePutBack(t)
  <2>1. pc[t] = "rm_put" /\ cur[t] # Null /\ cur[t] \in Entries /\ Hand(t) = cur[t]
    BY <1>4, <1>a DEF RemovePutBack, CursorOk, Hand
  <2>2. cur[t] \in live /\ rule[cur[t]] # key[t] /\ ~Matches(t)
    BY <2>1, <1>4, <1>a DEF RemovePutBack, Matches, EntriesOwned
  <2>3. /\ list' = [list EXCEPT ![TypeOf(key[t])] = Append(@, cur[t])]
        /\ pc' = [pc EXCEPT ![t] = "rm_check"] /\ rule' = rule /\ key' = key
    BY <1>4, <2>1 DEF RemovePutBack, locals
  <2>4. Wanted(t)' = Append(Wanted(t), cur[t])
    BY <2>3, <1>a DEF Wanted
  <2> QED BY <2>1, <2>2, <2>3, <2>4, <1>a
<1>5. CASE Call(t) \/ AddInsert(t) \/ RemoveFree(t) \/ ReleaseList(t) \/ SetHi(t)
           \/ GetHi(t) \/ InHi(t)
  <2>1. pc[t] \notin Round
    BY <1>5, <1>a DEF Round, Call, AddAlloc, AddInsert, RemoveBegin, RemoveFree, AllClear,
       TypeClear, ReleaseList, SetLo, SetHi, GetLo, GetHi, InLo, InHi
  <2> QED BY <2>1
<1> QED BY <1>1, <1>2, <1>3, <1>4, <1>5 DEF Proceed

\* The head of the list of a remove goes, and the others move up.
LEMMA SoughtMovesUp ==
    ASSUME OwnInv, NEW t \in Threads, key'[t] = key[t], rule' = rule,
           Wanted(t) # <<>>, Wanted(t)' = Tail(Wanted(t)),
           NEW i \in Sought(t)
    PROVE  IF i = 1 THEN rule[Head(Wanted(t))] = key[t] ELSE i - 1 \in Sought(t)'
<1> DEFINE q == Wanted(t)  n == Len(q)
<1>1. /\ q \in Seq(Entries) /\ n \in Nat /\ DOMAIN q = 1 .. n
  BY WantedIs
<1>2. /\ Head(q) = q[1] /\ DOMAIN Tail(q) = 1 .. n - 1
      /\ \A k \in 1 .. n - 1 : Tail(q)[k] = q[k + 1]
  BY <1>1, HeadTailProperties
<1>3. i \in 1 .. n /\ rule[q[i]] = key[t]
  BY <1>1, SoughtIs
<1>4. CASE i = 1
  BY <1>4, <1>2, <1>3
<1>5. CASE i # 1
  <2>1. i - 1 \in 1 .. n - 1 /\ Tail(q)[i - 1] = q[i]
    BY <1>1, <1>2, <1>3, <1>5
  <2> QED BY <2>1, <1>2, <1>3, <1>5, SoughtThen
<1> QED BY <1>4, <1>5

\* A rule that is not in the list is not in what is left of it.
LEMMA SoughtStaysEmpty ==
    ASSUME OwnInv, NEW t \in Threads, key'[t] = key[t], rule' = rule, Sought(t) = {},
           Wanted(t) # <<>>, Wanted(t)' = Tail(Wanted(t))
    PROVE  Sought(t)' = {} /\ rule[Head(Wanted(t))] # key[t]
<1> DEFINE q == Wanted(t)  n == Len(q)
<1>1. /\ q \in Seq(Entries) /\ n \in Nat \ {0} /\ DOMAIN q = 1 .. n
  BY WantedIs, EmptySeq
<1>2. /\ Head(q) = q[1] /\ DOMAIN Tail(q) = 1 .. n - 1
      /\ \A k \in 1 .. n - 1 : Tail(q)[k] = q[k + 1]
  BY <1>1, HeadTailProperties
<1>3. \A k \in 1 .. n : rule[q[k]] # key[t]
  BY <1>1, SoughtIs
<1>4. ASSUME NEW k \in 1 .. n - 1 PROVE rule[Tail(q)[k]] # key[t]
  <2>1. k + 1 \in 1 .. n
    BY <1>1
  <2> QED BY <2>1, <1>2, <1>3
<1>5. \A k : k \notin Sought(t)'
  BY <1>2, <1>4, SoughtThen
<1> QED BY <1>1, <1>2, <1>3, <1>5

LEMMA RoundAdvances ==
    ASSUME SingleRemover, OwnInv, [Next]_vars, NEW t \in Threads
    PROVE  /\ Found(t) => Found(t)' \/ (pc'[t] = "rm_free" /\ cur'[t] = cur[t])
           /\ pc[t] \in Round /\ ~Found(t) =>
                 \A i \in Sought(t) :
                     IF pc[t] = "rm_pop" /\ pc'[t] = "rm_put"
                     THEN IF i = 1 THEN Found(t)' ELSE i - 1 \in Sought(t)'
                     ELSE i \in Sought(t)' /\ pc'[t] \in Round
<1> SUFFICES ASSUME pc[t] \in Round
             PROVE  /\ Found(t) => Found(t)' \/ (pc'[t] = "rm_free" /\ cur'[t] = cur[t])
                    /\ ~Found(t) =>
                          \A i \in Sought(t) :
                              IF pc[t] = "rm_pop" /\ pc'[t] = "rm_put"
                              THEN IF i = 1 THEN Found(t)' ELSE i - 1 \in Sought(t)'
                              ELSE i \in Sought(t)' /\ pc'[t] \in Round
  BY DEF Found, Round
<1>a. pc[t] = "rm_put" => cur[t] \in live
  <2>1. pc[t] = "rm_put" => cur[t] # Null /\ cur[t] \in Entries /\ Hand(t) = cur[t]
    BY DEF OwnInv, Shape, TypeOK, CursorInv, CursorOk, Hand
  <2> QED BY <2>1 DEF OwnInv, EntriesOwned
<1>b. Wanted(t) = <<>> => Sought(t) = {}
  BY SoughtIs
\* Nothing of the remove changes but the end of its list.
<1>1. ASSUME pc'[t] = pc[t], cur'[t] = cur[t], key'[t] = key[t],
             \A e \in live : rule'[e] = rule[e], Sought(t) \subseteq Sought(t)'
      PROVE  /\ Found(t) => Found(t)'
             /\ \A i \in Sought(t) : i \in Sought(t)' /\ pc'[t] \in Round
  BY <1>1, <1>a DEF Found, Matches
<1>2. CASE UNCHANGED vars
  <2>1. Sought(t)' = Sought(t)
    BY <1>2 DEF vars, Sought
  <2> QED BY <1>1, <1>2, <2>1 DEF vars
<1>3. ASSUME NEW s \in Threads, s # t, Call(s) \/ Proceed(s)
      PROVE  /\ pc'[t] = pc[t]
             /\ Found(t) => Found(t)'
             /\ \A i \in Sought(t) : i \in Sought(t)' /\ pc'[t] \in Round
  <2>1. /\ pc'[t] = pc[t] /\ cur'[t] = cur[t] /\ key'[t] = key[t]
        /\ \A e \in live : rule'[e] = rule[e]
        /\ \/ list' = list
           \/ /\ cur[s] \in live
              /\ list' = [list EXCEPT ![TypeOf(rule[cur[s]])] = Append(@, cur[s])]
    BY <1>3, OthersAppend
  <2>2. CASE list' = list
    <3>1. Wanted(t)' = Wanted(t)
      BY <2>1, <2>2 DEF Wanted
    <3>2. \A i \in Sought(t) : i \in Sought(t)'
      BY <2>1, <3>1, WantedIs, SoughtIs, SoughtThen
    <3> QED BY <1>1, <2>1, <3>2
  <2>3. CASE list' # list
    <3>1. PICK e \in live : list' = [list EXCEPT ![TypeOf(rule[cur[s]])] = Append(@, e)]
      BY <2>1, <2>3
    <3>2. e \in Entries
      BY DEF OwnInv, Shape, TypeOK
    <3>3. Wanted(t)' = Wanted(t) \/ Wanted(t)' = Append(Wanted(t), e)
      BY <2>1, <3>1, <3>2, WantedGrows
    <3> QED BY <1>1, <2>1, <3>3, SoughtGrows
  <2> QED BY <2>2, <2>3
<1>4. CASE Call(t) \/ Proceed(t)
  <2>1. key'[t] = key[t] /\ rule' = rule
    BY <1>4, OwnRounds
  <2>2. CASE /\ pc[t] = "rm_check" /\ Wanted(t)' = Wanted(t) /\ cur'[t] = cur[t]
             /\ pc'[t] = IF Wanted(t) = <<>> THEN "rm_free" ELSE "rm_pop"
    <3>1. ASSUME NEW i \in Sought(t) PROVE i \in Sought(t)' /\ pc'[t] \in Round
      BY <2>1, <2>2, <1>b, SoughtIs, SoughtThen DEF Round
    <3> QED BY <2>2, <3>1 DEF Found
  <2>3. CASE /\ pc[t] = "rm_pop" /\ pc'[t] = "rm_put" /\ Wanted(t) # <<>>
             /\ cur'[t] = Head(Wanted(t)) /\ Wanted(t)' = Tail(Wanted(t))
    <3>1. Head(Wanted(t)) # Null
      BY <2>3, WantedIs, TailElems
    <3>2. ASSUME NEW i \in Sought(t)
          PROVE  IF i = 1 THEN Found(t)' ELSE i - 1 \in Sought(t)'
      <4>1. IF i = 1 THEN rule[Head(Wanted(t))] = key[t] ELSE i - 1 \in Sought(t)'
        BY <2>1, <2>3, SoughtMovesUp
      <4> QED BY <4>1, <3>1, <2>1, <2>3 DEF Found, Matches
    <3> QED BY <2>3, <3>2 DEF Found
  <2>4. CASE /\ pc[t] = "rm_put" /\ pc'[t] = "rm_free" /\ Matches(t)
             /\ Wanted(t)' = Wanted(t) /\ cur'[t] = cur[t]
    BY <2>4 DEF Found
  <2>5. CASE /\ pc[t] = "rm_put" /\ pc'[t] = "rm_check" /\ ~Matches(t)
             /\ cur[t] \in live /\ rule[cur[t]] # key[t]
             /\ Wanted(t)' = Append(Wanted(t), cur[t])
    <3>1. \A e \in live : Wanted(t)' = Append(Wanted(t), e) => Sought(t) \subseteq Sought(t)'
      BY <2>1, SoughtGrows
    <3> QED BY <2>5, <3>1 DEF Found, Round
  <2> QED BY <1>4, OwnRounds, <2>2, <2>3, <2>4, <2>5
<1>5. CASE \E s \in Threads : s # t /\ (Call(s) \/ Proceed(s))
  <2>1. /\ pc'[t] = pc[t]
        /\ Found(t) => Found(t)'
        /\ \A i \in Sought(t) : i \in Sought(t)' /\ pc'[t] \in Round
    BY <1>5, <1>3
  <2> QED BY <2>1
<1> QED BY <1>2, <1>4, <1>5 DEF Next

(* A remove comes nearer to its rule with every round, whatever others add *)
(* meanwhile, and does not end before it has it: the place of the rule in  *)
(* its list bounds the rounds that are left (Rule.c:147-177).              *)
THEOREM RotationAdvances == ASSUME SingleRemover PROVE Spec => RemoveAdvances
<1> DEFINE Advance == \A t \in Threads :
          /\ Found(t) => Found(t)' \/ (pc'[t] = "rm_free" /\ cur'[t] = cur[t])
          /\ pc[t] \in Round /\ ~Found(t) =>
                \A i \in Sought(t) :
                    IF pc[t] = "rm_pop" /\ pc'[t] = "rm_put"
                    THEN IF i = 1 THEN Found(t)' ELSE i - 1 \in Sought(t)'
                    ELSE i \in Sought(t)' /\ pc'[t] \in Round
<1>1. ASSUME OwnInv, [Next]_vars PROVE [Advance]_vars
  BY <1>1, RoundAdvances
<1> QED
  BY <1>1, OwnCorrect, PTL DEF Spec, RemoveAdvances

LEMMA AbsentStays ==
    ASSUME SingleRemover, OwnInv, [Next]_vars, NEW t \in Threads, Absent(t)
    PROVE  \/ Absent(t)'
           \/ \E s \in Threads : /\ pc[s] = "add_insert" /\ pc'[s] = "idle"
                                 /\ rule[cur[s]] = key[t]
<1>a. pc[t] \in Round /\ Sought(t) = {} /\ ~Found(t)
  BY DEF Absent
<1>b. pc[t] = "rm_put" \/ Wanted(t) # <<>>
  BY DEF Absent, Wanted
<1>c. Absent(t)' <=> /\ pc'[t] \in Round /\ Sought(t)' = {} /\ ~Found(t)'
                     /\ pc'[t] = "rm_put" \/ Wanted(t)' # <<>>
  BY DEF Absent, Wanted
<1>d. pc[t] = "rm_put" => cur[t] \in live
  <2>1. pc[t] = "rm_put" => cur[t] # Null /\ cur[t] \in Entries /\ Hand(t) = cur[t]
    BY DEF OwnInv, Shape, TypeOK, CursorInv, CursorOk, Hand
  <2> QED BY <2>1 DEF OwnInv, EntriesOwned
<1>e. Null \notin live
  BY DEF OwnInv, Shape, TypeOK
<1>1. CASE UNCHANGED vars
  <2>1. Absent(t)' = Absent(t)
    BY <1>1 DEF vars, Absent, Sought, Found, Matches
  <2> QED BY <2>1
<1>2. ASSUME NEW s \in Threads, s # t, Call(s) \/ Proceed(s)
      PROVE  Absent(t)' \/ /\ pc[s] = "add_insert" /\ pc'[s] = "idle"
                           /\ rule[cur[s]] = key[t]
  <2>1. /\ pc'[t] = pc[t] /\ cur'[t] = cur[t] /\ key'[t] = key[t]
        /\ \A e \in live : rule'[e] = rule[e]
        /\ \/ list' = list
           \/ /\ pc[s] = "add_insert" /\ pc'[s] = "idle" /\ cur[s] \in live
              /\ list' = [list EXCEPT ![TypeOf(rule[cur[s]])] = Append(@, cur[s])]
    BY <1>2, <1>a, OthersAppend
  <2>2. Found(t)' = Found(t)
    BY <2>1, <1>d DEF Found, Matches
  <2>3. CASE list' = list
    <3>1. Wanted(t)' = Wanted(t)
      BY <2>1, <2>3 DEF Wanted
    <3>2. \A i : i \notin Sought(t)'
      BY <2>1, <3>1, <1>a, WantedIs, SoughtIs, SoughtThen
    <3> QED BY <2>1, <2>2, <3>1, <3>2, <1>a, <1>b, <1>c
  <2>4. CASE list' # list
    <3>1. PICK e \in live : /\ list' = [list EXCEPT ![TypeOf(rule[cur[s]])] = Append(@, e)]
                            /\ e = cur[s] /\ pc[s] = "add_insert" /\ pc'[s] = "idle"
      BY <2>1, <2>4
    <3>2. CASE rule[e] = key[t]
      BY <3>1, <3>2
    <3>3. CASE rule[e] # key[t]
      <4>1. e \in Entries
        BY DEF OwnInv, Shape, TypeOK
      <4>2. Wanted(t)' = Wanted(t) \/ Wanted(t)' = Append(Wanted(t), e)
        BY <2>1, <3>1, <4>1, WantedGrows
      <4>3. Sought(t)' = {} /\ (Wanted(t) # <<>> => Wanted(t)' # <<>>)
        BY <2>1, <3>3, <4>2, <1>a, SoughtGrows
      <4> QED BY <2>1, <2>2, <4>3, <1>a, <1>b, <1>c
    <3> QED BY <3>2, <3>3
  <2> QED BY <2>3, <2>4
<1>3. CASE Call(t) \/ Proceed(t)
  <2>1. key'[t] = key[t] /\ rule' = rule
    BY <1>3, <1>a, OwnRounds
  <2>2. CASE /\ pc[t] = "rm_check" /\ Wanted(t)' = Wanted(t) /\ cur'[t] = cur[t]
             /\ pc'[t] = IF Wanted(t) = <<>> THEN "rm_free" ELSE "rm_pop"
    <3>1. pc'[t] = "rm_pop" /\ Wanted(t)' # <<>>
      BY <2>2, <1>b
    <3>2. \A i : i \notin Sought(t)'
      BY <2>1, <2>2, <1>a, SoughtIs, SoughtThen
    <3>3. ~Found(t)'
      BY <3>1 DEF Found
    <3> QED BY <3>1, <3>2, <3>3, <1>c DEF Round
  <2>3. CASE /\ pc[t] = "rm_pop" /\ pc'[t] = "rm_put" /\ Wanted(t) # <<>>
             /\ cur'[t] = Head(Wanted(t)) /\ Wanted(t)' = Tail(Wanted(t))
    <3>1. Sought(t)' = {} /\ rule[Head(Wanted(t))] # key[t]
      BY <2>1, <2>3, <1>a, SoughtStaysEmpty
    <3>2. ~Found(t)'
      BY <2>1, <2>3, <3>1 DEF Found, Matches
    <3> QED BY <2>3, <3>1, <3>2, <1>c DEF Round
  <2>4. CASE pc[t] = "rm_put" /\ Matches(t)
    BY <2>4, <1>a DEF Found
  <2>5. CASE /\ pc[t] = "rm_put" /\ pc'[t] = "rm_check"
             /\ cur[t] \in live /\ rule[cur[t]] # key[t]
             /\ Wanted(t)' = Append(Wanted(t), cur[t])
    <3>1. PICK e \in live : rule[e] # key[t] /\ Wanted(t)' = Append(Wanted(t), e)
      BY <2>5
    <3>2. Sought(t)' = {}
      BY <2>1, <3>1, <1>a, SoughtGrows
    <3>3. e \in Entries /\ Wanted(t) \in Seq(Entries)
      BY WantedIs DEF OwnInv, Shape, TypeOK
    <3>4. Wanted(t)' # <<>>
      BY <3>1, <3>3
    <3>5. ~Found(t)'
      BY <2>5 DEF Found
    <3> QED BY <2>5, <3>2, <3>4, <3>5, <1>c DEF Round
  <2> QED BY <1>3, <1>a, OwnRounds, <2>2, <2>3, <2>4, <2>5
<1> QED BY <1>1, <1>2, <1>3 DEF Next

(* A remove whose rule is not there, while there is another of its kind,   *)
(* does not return before somebody adds that rule (Rule.c:147-175).        *)
THEOREM AbsentNeverReturns == ASSUME SingleRemover PROVE Spec => AbsentGoesRound
<1> DEFINE Turn == \A t \in Threads : Absent(t) =>
          \/ Absent(t)'
          \/ \E s \in Threads : /\ pc[s] = "add_insert" /\ pc'[s] = "idle"
                                /\ rule[cur[s]] = key[t]
<1>1. ASSUME OwnInv, [Next]_vars PROVE [Turn]_vars
  BY <1>1, AbsentStays
<1> QED
  BY <1>1, OwnCorrect, PTL DEF Spec, AbsentGoesRound

-----------------------------------------------------------------------------
(* The whitelist, when every caller is at or below APC_LEVEL and therefore *)
(* takes the same lock.                                                    *)

RangeOk(t) ==
    /\ pc[t] = "set_hi" => pair[t] \in ValidRanges /\ pair[t].lo = range.lo
    /\ pc[t] = "get_hi" => pair[t].lo = range.lo
    /\ pc[t] = "in_hi" => range.lo < port[t]
    /\ pc[t] # "in_hi" /\ answer[t] => \E r \in Whitelists : Within(port[t], r)

Settled == (\A t \in Threads : pc[t] # "set_hi") => range \in Whitelists

RangeInv == Settled /\ \A t \in Threads : RangeOk(t)

Access == {"set_hi", "get_hi", "in_hi"}

LEMMA OneInside ==
    ASSUME DispatchThreads = {}, LockInv, NEW s \in Threads, NEW t \in Threads, s # t,
           pc[t] \in Sections \/ LockFree(t)
    PROVE  pc[s] \notin Sections
BY DEF LockInv, LockOf, LockFree

\* A step that touches neither the whitelist nor what readers know of it.
LEMMA RangeKept ==
    ASSUME TypeOK, RangeInv, NEW t \in Threads,
           UNCHANGED <<range, pair, port, answer>>,
           \A s \in Threads \ {t} : pc'[s] = pc[s],
           pc[t] \notin Access, pc'[t] \notin Access
    PROVE  RangeInv'
<1>1. ASSUME NEW s \in Threads PROVE RangeOk(s)'
  <2>1. pc'[s] = pc[s] \/ (pc[s] \notin Access /\ pc'[s] \notin Access)
    OBVIOUS
  <2> QED BY <2>1 DEF RangeInv, RangeOk, Access
<1>2. Settled'
  BY DEF RangeInv, Settled, Access
<1> QED BY <1>1, <1>2 DEF RangeInv

LEMMA RangeStep ==
    ASSUME DispatchThreads = {}, TypeOK, LockInv, RangeInv, [Next]_vars
    PROVE  RangeInv'
<1> USE DEF Goto, Calling
<1>a. /\ pc \in [Threads -> Labels]
      /\ pair \in [Threads -> [lo : Nat, hi : Nat]]
      /\ port \in [Threads -> SrcPorts]
      /\ range \in [lo : Nat, hi : Nat]
      /\ SrcPorts \subseteq Nat
  BY DEF TypeOK
<1>b. answer \in [Threads -> BOOLEAN]
  BY DEF TypeOK
<1>1. ASSUME NEW t \in Threads,
             \/ AddAlloc(t) \/ AddInsert(t) \/ RemoveBegin(t) \/ RemoveCheck(t) \/ RemovePop(t)
             \/ RemoveMatch(t) \/ RemovePutBack(t) \/ RemoveFree(t)
             \/ AllClear(t) \/ TypeClear(t)
      PROVE  RangeInv'
  <2>1. /\ UNCHANGED <<range, pair, port, answer>>
        /\ \A s \in Threads \ {t} : pc'[s] = pc[s]
        /\ pc[t] \notin Access /\ pc'[t] \notin Access
    BY <1>1, <1>a DEF AddAlloc, AddInsert, RemoveBegin, RemoveCheck, RemovePop,
       RemoveMatch, RemovePutBack, RemoveFree, AllClear, TypeClear, BeginClear,
       locals, Access
  <2> QED BY <2>1, RangeKept
<1>2. ASSUME NEW t \in Threads, ReleaseList(t) PROVE RangeInv'
  <2>1. /\ UNCHANGED <<range, pair, port, answer>>
        /\ pc[t] = "clr" /\ (pc' = pc \/ pc' = [pc EXCEPT ![t] = "idle"])
    BY <1>2 DEF ReleaseList
  <2> QED BY <2>1, <1>a, RangeKept DEF Access
<1>3. ASSUME NEW t \in Threads, SetLo(t) PROVE RangeInv'
  <2>1. PICK r \in ValidRanges :
           /\ pair' = [pair EXCEPT ![t] = r]
           /\ range' = [range EXCEPT !.lo = r.lo]
    BY <1>3 DEF SetLo
  <2>2. /\ pc[t] = "idle" /\ pc' = [pc EXCEPT ![t] = "set_hi"] /\ LockFree(t)
        /\ port' = port /\ answer' = answer
    BY <1>3 DEF SetLo, Acquire
  <2>3. Settled'
    BY <2>2, <1>a DEF Settled
  <2>4. RangeOk(t)'
    <3>1. pair'[t] = r /\ range'.lo = r.lo /\ pc'[t] = "set_hi"
      BY <2>1, <2>2, <1>a
    <3> QED BY <3>1, <2>1, <2>2 DEF RangeInv, RangeOk
  <2>5. ASSUME NEW s \in Threads, s # t PROVE RangeOk(s)'
    <3>1. pc[s] \notin Access /\ pc'[s] = pc[s]
      BY <2>2, <2>5, <1>a, OneInside DEF Access, Sections
    <3> QED BY <3>1, <2>2 DEF RangeInv, RangeOk, Access
  <2> QED BY <2>3, <2>4, <2>5 DEF RangeInv
<1>4. ASSUME NEW t \in Threads, SetHi(t) PROVE RangeInv'
  <2>1. /\ pc[t] = "set_hi" /\ pc' = [pc EXCEPT ![t] = "idle"]
        /\ range' = [range EXCEPT !.hi = pair[t].hi]
        /\ UNCHANGED <<pair, port, answer>>
    BY <1>4 DEF SetHi, locals
  <2>2. range' \in Whitelists
    <3>1. pair[t] \in ValidRanges /\ pair[t].lo = range.lo
      BY <2>1 DEF RangeInv, RangeOk
    <3>2. range' = [lo |-> range.lo, hi |-> pair[t].hi]
      BY <2>1, <1>a
    <3>3. pair[t] = [lo |-> pair[t].lo, hi |-> pair[t].hi]
      BY <1>a
    <3> QED BY <3>1, <3>2, <3>3 DEF Whitelists
  <2>3. ASSUME NEW s \in Threads, s # t PROVE RangeOk(s)'
    <3>1. pc[s] \notin Access /\ pc'[s] = pc[s]
      BY <2>1, <2>3, <1>a, OneInside DEF Access, Sections
    <3> QED BY <3>1, <2>1 DEF RangeInv, RangeOk, Access
  <2>4. RangeOk(t)'
    BY <2>1, <1>a DEF RangeInv, RangeOk
  <2> QED BY <2>2, <2>3, <2>4 DEF RangeInv, Settled
<1>5. ASSUME NEW t \in Threads, GetLo(t) PROVE RangeInv'
  <2>1. /\ pc[t] = "idle" /\ pc' = [pc EXCEPT ![t] = "get_hi"]
        /\ pair' = [pair EXCEPT ![t].lo = range.lo]
        /\ UNCHANGED <<range, port, answer>>
    BY <1>5 DEF GetLo
  <2>2. pair'[t].lo = range.lo /\ \A s \in Threads \ {t} : pair'[s] = pair[s]
    BY <2>1, <1>a
  <2>3. ASSUME NEW s \in Threads PROVE RangeOk(s)'
    BY <2>1, <2>2, <1>a DEF RangeInv, RangeOk
  <2>4. Settled'
    BY <2>1, <1>a DEF RangeInv, Settled
  <2> QED BY <2>3, <2>4 DEF RangeInv
<1>6. ASSUME NEW t \in Threads, GetHi(t) PROVE RangeInv'
  <2>1. /\ pc[t] = "get_hi" /\ pc' = [pc EXCEPT ![t] = "idle"]
        /\ \A s \in Threads \ {t} : pair'[s] = pair[s]
        /\ UNCHANGED <<range, port, answer>>
    BY <1>6, <1>a DEF GetHi
  <2>2. ASSUME NEW s \in Threads PROVE RangeOk(s)'
    BY <2>1, <1>a DEF RangeInv, RangeOk
  <2>3. Settled'
    BY <2>1, <1>a DEF RangeInv, Settled
  <2> QED BY <2>2, <2>3 DEF RangeInv
<1>7. ASSUME NEW t \in Threads, InLo(t) PROVE RangeInv'
  <2>1. PICK p \in SrcPorts :
           /\ port' = [port EXCEPT ![t] = p]
           /\ IF p > range.lo
              THEN Acquire(t) /\ Goto(t, "in_hi") /\ UNCHANGED answer
              ELSE answer' = [answer EXCEPT ![t] = FALSE] /\ UNCHANGED <<owner, pc>>
    BY <1>7 DEF InLo
  <2>2. pc[t] = "idle" /\ UNCHANGED <<range, pair>>
    BY <1>7 DEF InLo
  <2>3. CASE p > range.lo
    <3>1. pc' = [pc EXCEPT ![t] = "in_hi"] /\ answer' = answer
      BY <2>1, <2>3
    <3>2. /\ pc'[t] = "in_hi" /\ port'[t] = p
          /\ \A s \in Threads \ {t} : pc'[s] = pc[s] /\ port'[s] = port[s]
      BY <3>1, <2>1, <1>a
    <3>3. RangeOk(t)'
      BY <3>2, <2>2, <2>3, <1>a DEF RangeOk
    <3>4. \A s \in Threads \ {t} : RangeOk(s)'
      BY <3>1, <3>2, <2>2 DEF RangeInv, RangeOk
    <3>5. Settled'
      BY <3>2, <2>2 DEF RangeInv, Settled
    <3> QED BY <3>3, <3>4, <3>5 DEF RangeInv
  <2>4. CASE ~(p > range.lo)
    <3>1. answer' = [answer EXCEPT ![t] = FALSE] /\ pc' = pc
      BY <2>1, <2>4
    <3>2. /\ ~answer'[t]
          /\ \A s \in Threads \ {t} : answer'[s] = answer[s] /\ port'[s] = port[s]
      BY <3>1, <2>1, <1>a, <1>b
    <3>3. RangeOk(t)'
      BY <3>1, <3>2, <2>2 DEF RangeInv, RangeOk
    <3>4. \A s \in Threads \ {t} : RangeOk(s)'
      BY <3>1, <3>2, <2>2 DEF RangeInv, RangeOk
    <3>5. Settled'
      BY <3>1, <2>2 DEF RangeInv, Settled
    <3> QED BY <3>3, <3>4, <3>5 DEF RangeInv
  <2> QED BY <2>3, <2>4
<1>8. ASSUME NEW t \in Threads, InHi(t) PROVE RangeInv'
  <2>1. /\ pc[t] = "in_hi" /\ pc' = [pc EXCEPT ![t] = "idle"]
        /\ answer' = [answer EXCEPT ![t] = port[t] < range.hi]
        /\ UNCHANGED <<range, pair, port>>
    BY <1>8 DEF InHi
  <2>2. \A s \in Threads \ {t} : pc[s] \notin Access
    BY <2>1, OneInside DEF Access, Sections
  <2>3. range \in Whitelists
    BY <2>1, <2>2 DEF RangeInv, Settled, Access
  <2>4. /\ answer'[t] <=> port[t] < range.hi
        /\ \A s \in Threads \ {t} : answer'[s] = answer[s]
    BY <2>1, <1>b
  <2>5. RangeOk(t)'
    <3>1. range.lo < port[t]
      BY <2>1 DEF RangeInv, RangeOk
    <3>2. answer'[t] => Within(port[t], range)
      BY <2>4, <3>1 DEF Within
    <3>3. pc'[t] = "idle"
      BY <2>1, <1>a
    <3> QED BY <2>1, <2>3, <3>2, <3>3 DEF RangeOk
  <2>6. \A s \in Threads \ {t} : RangeOk(s)'
    BY <2>1, <2>4, <1>a DEF RangeInv, RangeOk
  <2>7. Settled'
    BY <2>1, <2>3 DEF Settled
  <2> QED BY <2>5, <2>6, <2>7 DEF RangeInv
<1>9. CASE UNCHANGED vars
  BY <1>9 DEF vars, RangeInv, RangeOk, Settled
<1> QED
  BY <1>1, <1>2, <1>3, <1>4, <1>5, <1>6, <1>7, <1>8, <1>9 DEF Next, Call, Proceed

LEMMA RangeCorrect == ASSUME DispatchThreads = {} PROVE Spec => [](TypeOK /\ LockInv /\ RangeInv)
<1>1. Init => RangeInv
  BY DEF Init, RangeInv, RangeOk, Settled, Whitelists
<1>2. RangeInv /\ TypeOK /\ LockInv /\ [Next]_vars => RangeInv'
  BY RangeStep
<1> QED
  BY <1>1, <1>2, TypeCorrect, LockCorrect, PTL DEF Spec

(* With one lock, a port is found whitelisted only if a configured         *)
(* whitelist contains it, for any ranges and any number of threads         *)
(* (Rule.c:238-273).                                                       *)
THEOREM WhitelistCorrect == ASSUME DispatchThreads = {} PROVE Spec => []WhitelistSound
<1>1. RangeInv => WhitelistSound
  BY DEF RangeInv, RangeOk, WhitelistSound
<1> QED
  BY <1>1, RangeCorrect, PTL

(* With one lock, what a reader of the whitelist returns is the whitelist  *)
(* of that moment (Rule.c:219-236, 257-273).                               *)
THEOREM ReadsCorrect == ASSUME DispatchThreads = {} PROVE Spec => ReadsAreAtomic
<1> DEFINE ReadStep ==
       \A t \in Threads : pc'[t] = "idle" =>
          /\ pc[t] = "in_hi" => (answer'[t] <=> Within(port[t], range))
          /\ pc[t] = "get_hi" => pair'[t] = range
<1>1. ASSUME TypeOK, RangeInv, [Next]_vars PROVE [ReadStep]_vars
  <2>a. /\ pc \in [Threads -> Labels]
        /\ pair \in [Threads -> [lo : Nat, hi : Nat]]
        /\ range \in [lo : Nat, hi : Nat]
    BY <1>1 DEF TypeOK
  <2>b. answer \in [Threads -> BOOLEAN]
    BY <1>1 DEF TypeOK
  <2>1. ASSUME NEW t \in Threads, NEW s \in Threads, Call(t) \/ Proceed(t),
               pc[s] \in {"in_hi", "get_hi"}, pc'[s] = "idle"
        PROVE  s = t /\ (GetHi(t) \/ InHi(t))
    BY <2>a, <2>1 DEF Call, Proceed, AddAlloc, AddInsert, RemoveBegin, RemoveCheck, RemovePop,
       RemoveMatch, RemovePutBack, RemoveFree, AllClear, TypeClear, BeginClear, ReleaseList,
       SetLo, SetHi, GetLo, GetHi, InLo, InHi, Goto, Calling
  <2>2. ASSUME NEW t \in Threads, InHi(t)
        PROVE  pc[t] = "in_hi" /\ (answer'[t] <=> Within(port[t], range))
    <3>1. answer' = [answer EXCEPT ![t] = port[t] < range.hi] /\ pc[t] = "in_hi"
      BY <2>2 DEF InHi
    <3>2. answer'[t] <=> port[t] < range.hi
      BY <3>1, <2>b
    <3>3. range.lo < port[t]
      BY <1>1, <3>1 DEF RangeInv, RangeOk
    <3> QED BY <3>1, <3>2, <3>3 DEF Within
  <2>3. ASSUME NEW t \in Threads, GetHi(t)
        PROVE  pc[t] = "get_hi" /\ pair'[t] = range
    <3>1. pc[t] = "get_hi" /\ pair' = [pair EXCEPT ![t].hi = range.hi]
      BY <2>3 DEF GetHi
    <3>2. pair[t].lo = range.lo
      BY <1>1, <3>1 DEF RangeInv, RangeOk
    <3> QED BY <3>1, <3>2, <2>a
  <2>4. CASE UNCHANGED vars
    BY <2>4
  <2>5. CASE Next
    <3> SUFFICES ASSUME NEW s \in Threads, pc'[s] = "idle", pc[s] \in {"in_hi", "get_hi"}
                 PROVE  /\ pc[s] = "in_hi" => (answer'[s] <=> Within(port[s], range))
                        /\ pc[s] = "get_hi" => pair'[s] = range
      OBVIOUS
    <3>1. PICK t \in Threads : Call(t) \/ Proceed(t)
      BY <2>5 DEF Next
    <3>2. s = t /\ (GetHi(t) \/ InHi(t))
      BY <3>1, <2>1
    <3> QED BY <3>2, <2>2, <2>3
  <2> QED BY <1>1, <2>4, <2>5
<1> QED
  BY <1>1, RangeCorrect, PTL DEF Spec, ReadsAreAtomic
=============================================================================
