------------------------- MODULE RuleMgrStoreProofs -------------------------
(***************************************************************************)
(* Proofs that the rule manager implements a store of rules and counts     *)
(* them, for any threads, entries and rules.                               *)
(*                                                                         *)
(*   InForce     the entries whose rules are stored                        *)
(*   Asked       the rules that remove calls have not decided yet          *)
(*   Sorted      a rule is in the list of its type, also while compared    *)
(*   StoreStep   what a step of a thread does to the store and the count   *)
(*                                                                         *)
(* Both results follow from StoreStep: the refinement maps each kind of    *)
(* step to an action of RuleStore, the count follows InForce by one up or  *)
(* down.                                                                   *)
(***************************************************************************)
EXTENDS RuleMgrProofs, FiniteSetTheorems

USE ThreadsAssumption, DataAssumption

InForce == Listed \cup {cur[t] : t \in {u \in Threads : pc[u] = "rm_put"}}

Asked == [t \in Threads |-> IF pc[t] \in {"rm_check", "rm_pop", "rm_put"} THEN {key[t]} ELSE {}]

Sorted ==
    /\ \A ty \in RuleTypes : \A e \in ToSet(list[ty]) : TypeOf(rule[e]) = ty
    /\ \A t \in Threads : pc[t] = "rm_put" => TypeOf(rule[cur[t]]) = TypeOf(key[t])

\* What OwnInv says of the variables that the store is read from.
Parts ==
    /\ list \in [RuleTypes -> Seq(Entries)] /\ rule \in [Entries -> Rules]
    /\ pc \in [Threads -> Labels] /\ cur \in [Threads -> Entries \cup {Null}]
    /\ key \in [Threads -> Rules] /\ live \subseteq Entries
    /\ EntriesOwned /\ CursorInv /\ CallInv

LEMMA PartsOf == OwnInv => Parts
BY DEF OwnInv, Shape, TypeOK, Parts

InForceSays ==
    \A e : e \in InForce <=> \/ \E ty \in RuleTypes : e \in ToSet(list[ty])
                             \/ \E t \in Threads : pc[t] = "rm_put" /\ cur[t] = e

LEMMA InForceIs == InForceSays
BY DEF InForceSays, InForce, Listed

\* Every entry in force is allocated.
LEMMA InForceLive == ASSUME Parts PROVE InForce \subseteq live /\ InForce \subseteq Entries
<1>1. ASSUME NEW ty \in RuleTypes, NEW e \in ToSet(list[ty]) PROVE e \in live
  <2>1. e \in Entries
    BY DEF Parts, ToSet
  <2> QED BY <2>1 DEF Parts, EntriesOwned
<1>2. ASSUME NEW t \in Threads, pc[t] = "rm_put" PROVE cur[t] \in live
  <2>1. cur[t] \in Entries /\ Hand(t) = cur[t]
    BY <1>2 DEF Parts, CursorInv, CursorOk, Hand
  <2> QED BY <2>1 DEF Parts, EntriesOwned
<1>3. ASSUME NEW e \in InForce PROVE e \in live
  <2>1. \/ \E ty \in RuleTypes : e \in ToSet(list[ty])
        \/ \E t \in Threads : pc[t] = "rm_put" /\ cur[t] = e
    BY InForceIs DEF InForceSays
  <2> QED BY <2>1, <1>1, <1>2
<1> QED BY <1>3 DEF Parts

-----------------------------------------------------------------------------
LEMMA SortedInit == Init => Sorted
<1> SUFFICES ASSUME Init PROVE Sorted
  OBVIOUS
<1>1. \A ty \in RuleTypes : ToSet(list[ty]) = {}
  BY EmptyElems DEF Init
<1> QED BY <1>1 DEF Init, Sorted

\* What another step leaves alone stays sorted.
LEMMA SortedFrame ==
    ASSUME Parts, Sorted,
           \A e \in live : rule'[e] = rule[e],
           \A ty \in RuleTypes : ToSet(list'[ty]) \subseteq ToSet(list[ty]),
           \A t \in Threads : pc'[t] = "rm_put" =>
               pc[t] = "rm_put" /\ cur'[t] = cur[t] /\ key'[t] = key[t]
    PROVE  Sorted'
<1>1. \A ty \in RuleTypes : \A e \in ToSet(list[ty]) : e \in live
  BY InForceLive, InForceIs DEF InForceSays
<1>2. \A t \in Threads : pc[t] = "rm_put" => cur[t] \in live
  BY InForceLive, InForceIs DEF InForceSays
<1>3. \A ty \in RuleTypes : \A e \in ToSet(list'[ty]) : TypeOf(rule'[e]) = ty
  BY <1>1 DEF Sorted, TypeOf
<1>4. \A t \in Threads : pc'[t] = "rm_put" => TypeOf(rule'[cur'[t]]) = TypeOf(key'[t])
  BY <1>2 DEF Sorted, TypeOf
<1> QED BY <1>3, <1>4 DEF Sorted, TypeOf

LEMMA SortedStep ==
    ASSUME Parts, Sorted, Shape, [Next]_vars
    PROVE  Sorted'
<1> USE DEF Goto, Calling
<1>p. /\ list \in [RuleTypes -> Seq(Entries)] /\ rule \in [Entries -> Rules]
      /\ pc \in [Threads -> Labels] /\ cur \in [Threads -> Entries \cup {Null}]
      /\ key \in [Threads -> Rules] /\ live \subseteq Entries
  BY DEF Parts
<1>1. ASSUME NEW t \in Threads, AddAlloc(t) PROVE Sorted'
  <2>1. PICK e \in Entries \ live : \E r \in Rules : rule' = [rule EXCEPT ![e] = r]
    BY <1>1 DEF AddAlloc
  <2>2. list' = list /\ key' = key /\ pc' = [pc EXCEPT ![t] = "add_insert"]
        /\ \A s \in Threads \ {t} : cur'[s] = cur[s]
    BY <1>1, <1>p DEF AddAlloc
  <2> QED BY <2>1, <2>2, <1>p, SortedFrame
<1>2. ASSUME NEW t \in Threads, AddInsert(t) PROVE Sorted'
  <2>1. cur[t] \in Entries
    BY <1>2, <1>p DEF Shape, AddInsert
  <2> DEFINE ty == TypeOf(rule[cur[t]])
  <2>2. ty \in RuleTypes
    BY <2>1, <1>p, TypeOfType
  <2>3. /\ list' = [list EXCEPT ![ty] = Append(list[ty], cur[t])]
        /\ rule' = rule /\ key' = key
        /\ cur' = [cur EXCEPT ![t] = Null] /\ pc' = [pc EXCEPT ![t] = "idle"]
    BY <1>2 DEF AddInsert
  <2>4. ToSet(list'[ty]) = ToSet(list[ty]) \cup {cur[t]}
    <3>1. list'[ty] = Append(list[ty], cur[t]) /\ list[ty] \in Seq(Entries)
      BY <1>p, <2>2, <2>3
    <3> QED BY <2>1, <3>1, AppendElems
  <2>5. \A k \in RuleTypes \ {ty} : list'[k] = list[k]
    BY <1>p, <2>3
  <2>6. \A k \in RuleTypes : \A e \in ToSet(list'[k]) : TypeOf(rule'[e]) = k
    BY <2>3, <2>4, <2>5 DEF Sorted
  <2>7. \A s \in Threads : pc'[s] = "rm_put" => TypeOf(rule'[cur'[s]]) = TypeOf(key'[s])
    BY <1>p, <2>3 DEF Sorted
  <2> QED BY <2>6, <2>7 DEF Sorted, TypeOf
<1>3. ASSUME NEW t \in Threads, RemovePop(t) PROVE Sorted'
  <2> DEFINE ty == TypeOf(key[t])
  <2>1. ty \in RuleTypes /\ list[ty] # <<>>
    BY <1>3, <1>p, TypeOfType DEF RemovePop, Parts, CursorInv, CursorOk
  <2>2. /\ cur' = [cur EXCEPT ![t] = Head(list[ty])]
        /\ list' = [list EXCEPT ![ty] = Tail(list[ty])]
        /\ rule' = rule /\ key' = key
        /\ pc[t] = "rm_pop" /\ pc' = [pc EXCEPT ![t] = "rm_put"]
    BY <1>3, <2>1 DEF RemovePop
  <2>3. ToSet(list[ty]) = ToSet(list'[ty]) \cup {Head(list[ty])}
    <3>1. list'[ty] = Tail(list[ty]) /\ list[ty] \in Seq(Entries)
      BY <1>p, <2>1, <2>2
    <3> QED BY <2>1, <3>1, TailElems
  <2>4. \A k \in RuleTypes \ {ty} : list'[k] = list[k]
    BY <1>p, <2>2
  <2>5. \A k \in RuleTypes : \A e \in ToSet(list'[k]) : TypeOf(rule'[e]) = k
    BY <2>1, <2>2, <2>3, <2>4 DEF Sorted
  <2>6. cur'[t] = Head(list[ty]) /\ \A s \in Threads \ {t} : cur'[s] = cur[s] /\ pc'[s] = pc[s]
    BY <1>p, <2>2
  <2>7. \A s \in Threads : pc'[s] = "rm_put" => TypeOf(rule'[cur'[s]]) = TypeOf(key'[s])
    <3>1. TypeOf(rule'[cur'[t]]) = TypeOf(key'[t])
      BY <2>1, <2>2, <2>3, <2>6 DEF Sorted
    <3>2. \A s \in Threads \ {t} : pc'[s] = "rm_put" => TypeOf(rule'[cur'[s]]) = TypeOf(key'[s])
      BY <2>2, <2>6 DEF Sorted
    <3> QED BY <3>1, <3>2
  <2> QED BY <2>5, <2>7 DEF Sorted, TypeOf
<1>4. ASSUME NEW t \in Threads, RemovePutBack(t) PROVE Sorted'
  <2> DEFINE ty == TypeOf(key[t])
  <2>1. cur[t] \in Entries /\ ty \in RuleTypes /\ TypeOf(rule[cur[t]]) = ty
    BY <1>4, <1>p, TypeOfType DEF RemovePutBack, Parts, CursorInv, CursorOk, Sorted
  <2>2. /\ pc' = [pc EXCEPT ![t] = "rm_check"] /\ cur' = cur /\ key' = key /\ rule' = rule
        /\ list' = [list EXCEPT ![ty] = Append(list[ty], cur[t])]
    BY <1>4, <2>1 DEF RemovePutBack, locals
  <2>3. ToSet(list'[ty]) = ToSet(list[ty]) \cup {cur[t]}
    <3>1. list'[ty] = Append(list[ty], cur[t]) /\ list[ty] \in Seq(Entries)
      BY <1>p, <2>1, <2>2
    <3> QED BY <2>1, <3>1, AppendElems
  <2>4. \A k \in RuleTypes \ {ty} : list'[k] = list[k]
    BY <1>p, <2>2
  <2>5. \A k \in RuleTypes : \A e \in ToSet(list'[k]) : TypeOf(rule'[e]) = k
    BY <2>1, <2>2, <2>3, <2>4 DEF Sorted
  <2>6. \A s \in Threads : pc'[s] = "rm_put" => TypeOf(rule'[cur'[s]]) = TypeOf(key'[s])
    BY <1>p, <2>2 DEF Sorted
  <2> QED BY <2>5, <2>6 DEF Sorted, TypeOf
<1>5. ASSUME NEW t \in Threads, ReleaseList(t) PROVE Sorted'
  <2>1. Head(todo[t]) \in RuleTypes
    BY <1>5 DEF Shape, TypeOK, ReleaseList
  <2>2. /\ list' = [list EXCEPT ![Head(todo[t])] = <<>>]
        /\ rule' = rule /\ cur' = cur /\ key' = key
        /\ pc[t] = "clr" /\ (pc' = pc \/ pc' = [pc EXCEPT ![t] = "idle"])
    BY <1>5 DEF ReleaseList
  <2>3. \A k \in RuleTypes : ToSet(list'[k]) \subseteq ToSet(list[k])
    BY <1>p, <2>1, <2>2, EmptyElems
  <2>4. \A s \in Threads : pc'[s] = "rm_put" => pc[s] = "rm_put"
    BY <1>p, <2>2
  <2> QED BY <2>2, <2>3, <2>4, SortedFrame
<1>6. ASSUME NEW t \in Threads,
             \/ RemoveBegin(t) \/ RemoveCheck(t) \/ RemoveMatch(t) \/ RemoveFree(t)
             \/ AllClear(t) \/ TypeClear(t)
             \/ SetLo(t) \/ SetHi(t) \/ GetLo(t) \/ GetHi(t) \/ InLo(t) \/ InHi(t)
      PROVE  Sorted'
  <2>1. /\ list' = list /\ rule' = rule
        /\ pc'[t] # "rm_put"
        /\ \A s \in Threads \ {t} : pc'[s] = pc[s] /\ cur'[s] = cur[s] /\ key'[s] = key[s]
    BY <1>6, <1>p DEF RemoveBegin, RemoveCheck, RemoveMatch, RemoveFree, AllClear, TypeClear,
       BeginClear, SetLo, SetHi, GetLo, GetHi, InLo, InHi, lists, locals
  <2> QED BY <2>1, SortedFrame
<1>7. CASE UNCHANGED vars
  BY <1>7, SortedFrame DEF vars
<1> QED
  BY <1>1, <1>2, <1>3, <1>4, <1>5, <1>6, <1>7 DEF Next, Call, Proceed

-----------------------------------------------------------------------------
(* What a step does to the store: nothing, or one of five things.          *)

Nothing ==
    /\ InForce' = InForce /\ Asked' = Asked /\ nums' = nums
    /\ \A e \in InForce : rule'[e] = rule[e]

PutIn(e) ==
    /\ e \in Entries \ InForce /\ InForce' = InForce \cup {e}
    /\ rule' = rule /\ Asked' = Asked /\ nums' = Wrap(nums + 1)

AskedFor(t, r) ==
    /\ Asked[t] = {} /\ Asked' = [Asked EXCEPT ![t] = {r}]
    /\ InForce' = InForce /\ rule' = rule /\ nums' = nums

TakenOut(t, e) ==
    /\ e \in InForce /\ InForce' = InForce \ {e}
    /\ Asked[t] = {rule[e]} /\ Asked' = [Asked EXCEPT ![t] = {}]
    /\ rule' = rule /\ nums' = Wrap(nums - 1)

GivenUp(t, r) ==
    /\ Asked[t] = {r} /\ Asked' = [Asked EXCEPT ![t] = {}]
    /\ \A e \in InForce : TypeOf(rule[e]) # TypeOf(r)
    /\ InForce' = InForce /\ rule' = rule /\ nums' = nums

Cleared(ty) ==
    /\ InForce' = {e \in InForce : TypeOf(rule[e]) # ty}
    /\ rule' = rule /\ Asked' = Asked /\ nums' = nums

StoreStep ==
    \/ Nothing
    \/ \E e \in Entries : PutIn(e)
    \/ \E t \in Threads, r \in Rules : AskedFor(t, r)
    \/ \E t \in Threads, e \in Entries : TakenOut(t, e)
    \/ \E t \in Threads, r \in Rules : GivenUp(t, r)
    \/ \E t \in Threads, ty \in RuleTypes : pc[t] = "clr" /\ Cleared(ty)

LEMMA InForceNext == InForceSays'
BY InForceIs, PTL

\* A step that moves no entry and leaves the cursors of rm_put alone.
LEMMA InForceSame ==
    ASSUME list' = list,
           \A t \in Threads : pc'[t] = "rm_put" <=> pc[t] = "rm_put",
           \A t \in Threads : pc[t] = "rm_put" => cur'[t] = cur[t]
    PROVE  InForce' = InForce
BY InForceIs, InForceNext DEF InForceSays

\* A step that takes no thread in or out of the remove call's loop.
LEMMA AskedSame ==
    ASSUME \A t \in Threads : /\ pc'[t] \in {"rm_check", "rm_pop", "rm_put"}
                                    <=> pc[t] \in {"rm_check", "rm_pop", "rm_put"}
                              /\ pc[t] \in {"rm_check", "rm_pop", "rm_put"} => key'[t] = key[t]
    PROVE  Asked' = Asked
BY DEF Asked

LEMMA AddAllocStores ==
    ASSUME Parts, NEW t \in Threads, AddAlloc(t) PROVE Nothing
<1> USE DEF Goto, Calling
<1>1. PICK e \in Entries \ live : \E r \in Rules : rule' = [rule EXCEPT ![e] = r]
  BY DEF AddAlloc
<1>2. /\ list' = list /\ key' = key /\ nums' = nums
      /\ pc[t] = "idle" /\ pc' = [pc EXCEPT ![t] = "add_insert"]
      /\ \A s \in Threads \ {t} : cur'[s] = cur[s]
  BY DEF AddAlloc, Parts
<1>3. InForce' = InForce
  BY <1>2, InForceSame DEF Parts
<1>4. Asked' = Asked
  BY <1>2, AskedSame DEF Parts
<1>5. \A x \in InForce : rule'[x] = rule[x]
  BY <1>1, InForceLive DEF Parts
<1> QED BY <1>2, <1>3, <1>4, <1>5 DEF Nothing

LEMMA AddInsertStores ==
    ASSUME Parts, Shape, NEW t \in Threads, AddInsert(t) PROVE PutIn(cur[t])
<1> USE DEF Goto, Calling
<1> DEFINE e == cur[t]
<1> DEFINE ty == TypeOf(rule[e])
<1>1. e \in Entries
  BY DEF Shape, AddInsert, Parts
<1>2. ty \in RuleTypes
  BY <1>1, TypeOfType DEF Parts
<1>3. /\ list' = [list EXCEPT ![ty] = Append(list[ty], e)]
      /\ rule' = rule /\ key' = key /\ nums' = Wrap(nums + 1)
      /\ cur' = [cur EXCEPT ![t] = Null]
      /\ pc[t] = "add_insert" /\ pc' = [pc EXCEPT ![t] = "idle"]
  BY DEF AddInsert
<1>4. ToSet(list'[ty]) = ToSet(list[ty]) \cup {e}
  <2>1. list'[ty] = Append(list[ty], e) /\ list[ty] \in Seq(Entries)
    BY <1>2, <1>3 DEF Parts
  <2> QED BY <1>1, <2>1, AppendElems
<1>5. \A k \in RuleTypes \ {ty} : list'[k] = list[k]
  BY <1>3 DEF Parts
<1>6. \A s \in Threads : /\ pc'[s] = "rm_put" <=> pc[s] = "rm_put"
                         /\ pc[s] = "rm_put" => cur'[s] = cur[s]
  BY <1>3 DEF Parts
<1>7. InForce' = InForce \cup {e}
  <2> HIDE DEF e, ty
  <2>1. \A x : (\E k \in RuleTypes : x \in ToSet(list'[k]))
                 <=> (\E k \in RuleTypes : x \in ToSet(list[k])) \/ x = e
    BY <1>2, <1>4, <1>5
  <2>2. \A x : (\E s \in Threads : pc'[s] = "rm_put" /\ cur'[s] = x)
                 <=> (\E s \in Threads : pc[s] = "rm_put" /\ cur[s] = x)
    BY <1>6
  <2>3. \A x : x \in InForce' <=> x \in InForce \/ x = e
    BY <2>1, <2>2, InForceIs, InForceNext DEF InForceSays
  <2> QED BY <2>3
<1>8. e \notin InForce
  <2>1. Hand(t) = e
    BY <1>3 DEF Hand
  <2>2. ASSUME NEW k \in RuleTypes PROVE e \notin ToSet(list[k])
    BY <2>1 DEF Parts, EntriesOwned
  <2>3. ASSUME NEW s \in Threads, pc[s] = "rm_put" PROVE cur[s] # e
    <3>1. s # t /\ Hand(s) = cur[s] /\ Hand(s) # Null
      BY <1>3, <2>3 DEF Hand, Parts, CursorInv, CursorOk
    <3> QED BY <3>1, <2>1 DEF Parts, EntriesOwned
  <2> QED BY <2>2, <2>3, InForceIs DEF InForceSays
<1>9. Asked' = Asked
  BY <1>3, AskedSame DEF Parts
<1> QED BY <1>1, <1>3, <1>7, <1>8, <1>9 DEF PutIn

LEMMA RemoveBeginStores ==
    ASSUME Parts, NEW t \in Threads, RemoveBegin(t)
    PROVE  \E r \in Rules : AskedFor(t, r)
<1> USE DEF Goto, Calling
<1>1. PICK r \in Rules : key' = [key EXCEPT ![t] = r]
  BY DEF RemoveBegin
<1>2. /\ list' = list /\ rule' = rule /\ nums' = nums /\ cur' = cur
      /\ pc[t] = "idle" /\ pc' = [pc EXCEPT ![t] = "rm_check"]
  BY DEF RemoveBegin, lists
<1>3. InForce' = InForce
  BY <1>2, InForceSame DEF Parts
<1>4. Asked[t] = {} /\ Asked' = [Asked EXCEPT ![t] = {r}]
  BY <1>1, <1>2 DEF Asked, Parts
<1> QED BY <1>2, <1>3, <1>4 DEF AskedFor

\* When a thread is elsewhere in a remove call, or in a clear, no entry is
\* under comparison.
LEMMA OnlyInLists ==
    ASSUME SingleRemover, Parts, NEW t \in Threads,
           pc[t] \in {"rm_check", "rm_pop", "rm_free", "clr"}
    PROVE  \A s \in Threads : pc[s] # "rm_put"
BY Alone DEF Parts, InRemove

LEMMA RemoveCheckStores ==
    ASSUME SingleRemover, Parts, Sorted, NEW t \in Threads, RemoveCheck(t)
    PROVE  Nothing \/ GivenUp(t, key[t])
<1> USE DEF Goto, Calling
<1>1. /\ list' = list /\ rule' = rule /\ nums' = nums /\ cur' = cur /\ key' = key
      /\ pc[t] = "rm_check"
      /\ pc' = [pc EXCEPT ![t] = IF list[TypeOf(key[t])] = <<>> THEN "rm_free" ELSE "rm_pop"]
  BY DEF RemoveCheck, lists, locals
<1>2. InForce' = InForce
  BY <1>1, InForceSame DEF Parts
<1>3. CASE list[TypeOf(key[t])] # <<>>
  <2>1. Asked' = Asked
    BY <1>1, <1>3, AskedSame DEF Parts
  <2> QED BY <1>1, <1>2, <2>1 DEF Nothing
<1>4. CASE list[TypeOf(key[t])] = <<>>
  <2>1. pc' = [pc EXCEPT ![t] = "rm_free"]
    BY <1>1, <1>4
  <2>2. Asked[t] = {key[t]} /\ Asked' = [Asked EXCEPT ![t] = {}]
    BY <1>1, <2>1 DEF Asked, Parts
  <2>3. ASSUME NEW e \in InForce PROVE TypeOf(rule[e]) # TypeOf(key[t])
    <3>1. PICK ty \in RuleTypes : e \in ToSet(list[ty])
      BY <1>1, OnlyInLists, InForceIs DEF InForceSays
    <3>2. ty # TypeOf(key[t])
      BY <1>4, <3>1, EmptyElems
    <3>3. TypeOf(rule[e]) = ty
      BY <3>1 DEF Sorted
    <3> QED BY <3>2, <3>3
  <2> QED BY <1>1, <1>2, <2>2, <2>3 DEF GivenUp
<1> QED BY <1>3, <1>4

\* An entry that goes from the list to the comparison, or back, stays in force.
LEMMA RemovePopStores ==
    ASSUME SingleRemover, Parts, NEW t \in Threads, RemovePop(t) PROVE Nothing
<1> USE DEF Goto, Calling
<1> DEFINE ty == TypeOf(key[t])
<1>1. ty \in RuleTypes /\ list[ty] # <<>>
  BY TypeOfType DEF RemovePop, Parts, CursorInv, CursorOk
<1>2. /\ cur' = [cur EXCEPT ![t] = Head(list[ty])]
      /\ list' = [list EXCEPT ![ty] = Tail(list[ty])]
      /\ rule' = rule /\ key' = key /\ nums' = nums
      /\ pc[t] = "rm_pop" /\ pc' = [pc EXCEPT ![t] = "rm_put"]
  BY <1>1 DEF RemovePop
<1>3. ToSet(list[ty]) = ToSet(list'[ty]) \cup {Head(list[ty])}
  <2>1. list'[ty] = Tail(list[ty]) /\ list[ty] \in Seq(Entries)
    BY <1>1, <1>2 DEF Parts
  <2> QED BY <1>1, <2>1, TailElems
<1>4. \A k \in RuleTypes \ {ty} : list'[k] = list[k]
  BY <1>2 DEF Parts
<1>5. /\ cur'[t] = Head(list[ty]) /\ pc'[t] = "rm_put"
      /\ \A s \in Threads : pc[s] # "rm_put"
      /\ \A s \in Threads \ {t} : pc'[s] # "rm_put"
  BY <1>2, OnlyInLists DEF Parts
<1>6. InForce' = InForce
  <2> HIDE DEF ty
  <2>1. \A x : (\E k \in RuleTypes : x \in ToSet(list[k]))
                 <=> (\E k \in RuleTypes : x \in ToSet(list'[k])) \/ x = cur'[t]
    BY <1>1, <1>3, <1>4, <1>5
  <2>2. \A x : (\E s \in Threads : pc'[s] = "rm_put" /\ cur'[s] = x) <=> x = cur'[t]
    BY <1>5
  <2>3. \A x : x \in InForce' <=> x \in InForce
    BY <2>1, <2>2, <1>5, InForceIs, InForceNext DEF InForceSays
  <2> QED BY <2>3
<1>7. Asked' = Asked
  BY <1>2, AskedSame DEF Parts
<1> QED BY <1>2, <1>6, <1>7 DEF Nothing

LEMMA RemovePutBackStores ==
    ASSUME SingleRemover, Parts, NEW t \in Threads, RemovePutBack(t) PROVE Nothing
<1> USE DEF Goto, Calling
<1> DEFINE ty == TypeOf(key[t])
<1>1. cur[t] \in Entries /\ ty \in RuleTypes
  BY TypeOfType DEF RemovePutBack, Parts, CursorInv, CursorOk
<1>2. /\ pc[t] = "rm_put" /\ pc' = [pc EXCEPT ![t] = "rm_check"]
      /\ cur' = cur /\ key' = key /\ rule' = rule /\ nums' = nums
      /\ list' = [list EXCEPT ![ty] = Append(list[ty], cur[t])]
  BY <1>1 DEF RemovePutBack, locals
<1>3. ToSet(list'[ty]) = ToSet(list[ty]) \cup {cur[t]}
  <2>1. list'[ty] = Append(list[ty], cur[t]) /\ list[ty] \in Seq(Entries)
    BY <1>1, <1>2 DEF Parts
  <2> QED BY <1>1, <2>1, AppendElems
<1>4. \A k \in RuleTypes \ {ty} : list'[k] = list[k]
  BY <1>2 DEF Parts
<1>5. /\ \A s \in Threads \ {t} : pc[s] # "rm_put"
      /\ \A s \in Threads : pc'[s] # "rm_put"
  BY <1>2, Alone DEF Parts, InRemove
<1>6. InForce' = InForce
  <2> HIDE DEF ty
  <2>1. \A x : (\E k \in RuleTypes : x \in ToSet(list'[k]))
                 <=> (\E k \in RuleTypes : x \in ToSet(list[k])) \/ x = cur[t]
    BY <1>1, <1>3, <1>4
  <2>2. \A x : (\E s \in Threads : pc[s] = "rm_put" /\ cur[s] = x) <=> x = cur[t]
    BY <1>2, <1>5
  <2>3. \A x : x \in InForce' <=> x \in InForce
    BY <2>1, <2>2, <1>5, InForceIs, InForceNext DEF InForceSays
  <2> QED BY <2>3
<1>7. Asked' = Asked
  BY <1>2, AskedSame DEF Parts
<1> QED BY <1>2, <1>6, <1>7 DEF Nothing

LEMMA RemoveMatchStores ==
    ASSUME SingleRemover, Parts, NEW t \in Threads, RemoveMatch(t)
    PROVE  cur[t] \in Entries /\ TakenOut(t, cur[t])
<1> USE DEF Goto, Calling
<1>1. /\ pc[t] = "rm_put" /\ pc' = [pc EXCEPT ![t] = "rm_free"]
      /\ cur[t] # Null /\ rule[cur[t]] = key[t]
      /\ list' = list /\ rule' = rule /\ cur' = cur /\ key' = key
      /\ nums' = Wrap(nums - 1)
  BY DEF RemoveMatch, Matches, locals
<1>2. cur[t] \in Entries /\ Hand(t) = cur[t]
  BY <1>1 DEF Parts, Hand
<1>3. /\ \A s \in Threads \ {t} : pc[s] # "rm_put"
      /\ \A s \in Threads : pc'[s] # "rm_put"
  BY <1>1, Alone DEF Parts, InRemove
<1>4. \A k \in RuleTypes : cur[t] \notin ToSet(list[k])
  BY <1>2 DEF Parts, EntriesOwned
<1>5. cur[t] \in InForce
  BY <1>1, InForceIs DEF InForceSays
<1>6. InForce' = InForce \ {cur[t]}
  <2>1. \A x : x \in InForce' <=> x \in InForce /\ x # cur[t]
    BY <1>1, <1>3, <1>4, InForceIs, InForceNext DEF InForceSays
  <2> QED BY <2>1
<1>7. Asked[t] = {rule[cur[t]]} /\ Asked' = [Asked EXCEPT ![t] = {}]
  BY <1>1 DEF Asked, Parts
<1> QED BY <1>1, <1>2, <1>5, <1>6, <1>7 DEF TakenOut

LEMMA ReleaseListStores ==
    ASSUME SingleRemover, Parts, Shape, Sorted, NEW t \in Threads, ReleaseList(t)
    PROVE  \E ty \in RuleTypes : pc[t] = "clr" /\ Cleared(ty)
<1> USE DEF Goto, Calling
<1> DEFINE ty == Head(todo[t])
<1>1. ty \in RuleTypes
  BY DEF Shape, TypeOK, ReleaseList
<1>2. /\ list' = [list EXCEPT ![ty] = <<>>]
      /\ rule' = rule /\ cur' = cur /\ key' = key /\ nums' = nums
      /\ pc[t] = "clr" /\ (pc' = pc \/ pc' = [pc EXCEPT ![t] = "idle"])
  BY DEF ReleaseList
<1>3. /\ ToSet(list'[ty]) = {}
      /\ \A k \in RuleTypes \ {ty} : list'[k] = list[k]
  BY <1>1, <1>2, EmptyElems DEF Parts
<1>4. \A s \in Threads : pc[s] # "rm_put" /\ pc'[s] # "rm_put"
  BY <1>2, OnlyInLists DEF Parts
<1>5. InForce' = {e \in InForce : TypeOf(rule[e]) # ty}
  <2> HIDE DEF ty
  <2>1. \A x : x \in InForce <=> \E k \in RuleTypes : x \in ToSet(list[k])
    BY <1>4, InForceIs DEF InForceSays
  <2>2. \A x : x \in InForce' <=> \E k \in RuleTypes : x \in ToSet(list'[k])
    BY <1>4, InForceNext DEF InForceSays
  <2>3. \A k \in RuleTypes : \A x \in ToSet(list[k]) : TypeOf(rule[x]) = k
    BY DEF Sorted
  <2>4. \A x : x \in InForce' <=> x \in InForce /\ TypeOf(rule[x]) # ty
    BY <1>3, <2>1, <2>2, <2>3
  <2> QED BY <2>4
<1>6. Asked' = Asked
  BY <1>2, AskedSame DEF Parts
<1> QED BY <1>1, <1>2, <1>5, <1>6 DEF Cleared

LEMMA OthersStore ==
    ASSUME Parts, NEW t \in Threads,
           \/ RemoveFree(t) \/ AllClear(t) \/ TypeClear(t)
           \/ SetLo(t) \/ SetHi(t) \/ GetLo(t) \/ GetHi(t) \/ InLo(t) \/ InHi(t)
    PROVE  Nothing
<1> USE DEF Goto, Calling
<1>1. /\ list' = list /\ rule' = rule /\ nums' = nums
      /\ pc[t] \notin {"rm_check", "rm_pop", "rm_put"}
      /\ pc'[t] \notin {"rm_check", "rm_pop", "rm_put"}
      /\ \A s \in Threads \ {t} : pc'[s] = pc[s] /\ cur'[s] = cur[s] /\ key'[s] = key[s]
  BY DEF Parts, RemoveFree, AllClear, TypeClear,
         BeginClear, SetLo, SetHi, GetLo, GetHi, InLo, InHi, lists, locals
<1>2. InForce' = InForce
  BY <1>1, InForceSame
<1>3. Asked' = Asked
  BY <1>1, AskedSame
<1> QED BY <1>1, <1>2, <1>3 DEF Nothing

LEMMA EveryStepStores ==
    ASSUME SingleRemover, Parts, Shape, Sorted, [Next]_vars
    PROVE  StoreStep
<1>a. \A t \in Threads : key[t] \in Rules
  BY DEF Parts
<1>1. ASSUME NEW t \in Threads, AddAlloc(t) PROVE StoreStep
  BY <1>1, AddAllocStores DEF StoreStep
<1>2. ASSUME NEW t \in Threads, AddInsert(t) PROVE StoreStep
  <2>1. PutIn(cur[t])
    BY <1>2, AddInsertStores
  <2>2. cur[t] \in Entries
    BY <2>1 DEF PutIn
  <2> QED BY <2>1, <2>2 DEF StoreStep
<1>3. ASSUME NEW t \in Threads, RemoveBegin(t) PROVE StoreStep
  BY <1>3, RemoveBeginStores DEF StoreStep
<1>4. ASSUME NEW t \in Threads, RemoveCheck(t) PROVE StoreStep
  BY <1>4, <1>a, RemoveCheckStores DEF StoreStep
<1>5. ASSUME NEW t \in Threads, RemovePop(t) \/ RemovePutBack(t) PROVE StoreStep
  BY <1>5, RemovePopStores, RemovePutBackStores DEF StoreStep
<1>6. ASSUME NEW t \in Threads, RemoveMatch(t) PROVE StoreStep
  BY <1>6, RemoveMatchStores DEF StoreStep
<1>7. ASSUME NEW t \in Threads, ReleaseList(t) PROVE StoreStep
  BY <1>7, ReleaseListStores DEF StoreStep
<1>8. ASSUME NEW t \in Threads,
             \/ RemoveFree(t) \/ AllClear(t) \/ TypeClear(t)
             \/ SetLo(t) \/ SetHi(t) \/ GetLo(t) \/ GetHi(t) \/ InLo(t) \/ InHi(t)
      PROVE  StoreStep
  BY <1>8, OthersStore DEF StoreStep
<1>9. CASE UNCHANGED vars
  <2>1. Nothing
    BY <1>9, InForceSame, AskedSame DEF vars, Nothing
  <2> QED BY <2>1 DEF StoreStep
<1> QED
  BY <1>1, <1>2, <1>3, <1>4, <1>5, <1>6, <1>7, <1>8, <1>9 DEF Next, Call, Proceed

-----------------------------------------------------------------------------
(* The refinement.                                                         *)
StoreInv == OwnInv /\ Sorted

LEMMA StoreInvCorrect == ASSUME SingleRemover PROVE Spec => []StoreInv
<1>1. Init => Sorted
  BY SortedInit
<1>2. OwnInv /\ Sorted /\ [Next]_vars => Sorted'
  BY SortedStep, PartsOf DEF OwnInv
<1>3. Spec => []OwnInv
  BY OwnCorrect
<1> QED BY <1>1, <1>2, <1>3, PTL DEF Spec, StoreInv

Stored == [e \in InForce |-> rule[e]]
Kinds  == [r \in Rules |-> TypeOf(r)]

\* The actions of the store, over Stored and Asked.
LEMMA StoreInit ==
    ASSUME Stored = [e \in {} |-> {}], Asked = [t \in Threads |-> {}]
    PROVE  Store!Init
BY DEF Store!Init, Stored, Asked, InForce

LEMMA StoreAdd ==
    ASSUME NEW e \in Entries, NEW r \in Rules, e \notin DOMAIN Stored,
           Stored' = [b \in DOMAIN Stored \cup {e} |-> IF b = e THEN r ELSE Stored[b]],
           Asked' = Asked
    PROVE  Store!Next
<1>1. Store!Add(e, r)
  BY DEF Store!Add, Stored, Asked, InForce
<1> QED BY <1>1 DEF Store!Next

LEMMA StoreAsk ==
    ASSUME NEW t \in Threads, NEW r \in Rules, Asked[t] = {},
           Asked' = [Asked EXCEPT ![t] = {r}], Stored' = Stored
    PROVE  Store!Next
<1>1. Store!Ask(t, r)
  BY DEF Store!Ask, Stored, Asked, InForce
<1> QED BY <1>1 DEF Store!Next

LEMMA StoreTake ==
    ASSUME NEW t \in Threads, NEW e \in DOMAIN Stored, Asked[t] = {Stored[e]},
           Stored' = [b \in DOMAIN Stored \ {e} |-> Stored[b]],
           Asked' = [Asked EXCEPT ![t] = {}]
    PROVE  Store!Next
<1>1. Store!Take(t, e)
  BY DEF Store!Take, Store!Restrict, Stored, Asked, InForce
<1> QED BY <1>1 DEF Store!Next, Stored, InForce

LEMMA StoreGiveUp ==
    ASSUME NEW t \in Threads, Asked[t] # {},
           \A r \in Asked[t], e \in DOMAIN Stored : Kinds[Stored[e]] # Kinds[r],
           Asked' = [Asked EXCEPT ![t] = {}], Stored' = Stored
    PROVE  Store!Next
<1>1. Store!GiveUp(t)
  BY DEF Store!GiveUp, Stored, Asked, InForce, Kinds
<1> QED BY <1>1 DEF Store!Next

LEMMA StoreClear ==
    ASSUME NEW kinds \in SUBSET {Kinds[r] : r \in Rules},
           Stored' = [b \in {e \in DOMAIN Stored : Kinds[Stored[e]] \notin kinds} |-> Stored[b]],
           Asked' = Asked
    PROVE  Store!Next
<1>1. Store!Clear(kinds)
  BY DEF Store!Clear, Store!Restrict, Stored, Asked, InForce, Kinds
<1> QED BY <1>1 DEF Store!Next, Kinds

LEMMA StoreStepMaps ==
    ASSUME Parts, StoreStep
    PROVE  Store!Next \/ (Stored' = Stored /\ Asked' = Asked)
<1>a. InForce \subseteq Entries /\ \A e \in InForce : rule[e] \in Rules
  BY InForceLive DEF Parts
<1>b. /\ DOMAIN Stored = InForce /\ \A e \in InForce : Stored[e] = rule[e]
      /\ Stored' = [e \in InForce' |-> rule'[e]]
  BY DEF Stored
<1>c. \A r \in Rules : Kinds[r] = TypeOf(r)
  BY DEF Kinds
<1>1. ASSUME Nothing PROVE Stored' = Stored /\ Asked' = Asked
  BY <1>1, <1>b DEF Nothing, Stored
<1>2. ASSUME NEW e \in Entries, PutIn(e) PROVE Store!Next
  <2>1. rule[e] \in Rules
    BY DEF Parts
  <2>2. e \notin DOMAIN Stored /\ Asked' = Asked
    BY <1>2, <1>b DEF PutIn
  <2>3. Stored' = [b \in DOMAIN Stored \cup {e} |-> IF b = e THEN rule[e] ELSE Stored[b]]
    BY <1>2, <1>b DEF PutIn
  <2> QED BY <2>1, <2>2, <2>3, StoreAdd
<1>3. ASSUME NEW t \in Threads, NEW r \in Rules, AskedFor(t, r) PROVE Store!Next
  <2>1. Stored' = Stored
    BY <1>3, <1>b DEF AskedFor, Stored
  <2>2. Asked[t] = {} /\ Asked' = [Asked EXCEPT ![t] = {r}]
    BY <1>3 DEF AskedFor
  <2> QED BY <2>1, <2>2, StoreAsk
<1>4. ASSUME NEW t \in Threads, NEW e \in Entries, TakenOut(t, e) PROVE Store!Next
  <2>1. e \in DOMAIN Stored /\ Asked[t] = {Stored[e]} /\ Asked' = [Asked EXCEPT ![t] = {}]
    BY <1>4, <1>b DEF TakenOut
  <2>2. Stored' = [b \in DOMAIN Stored \ {e} |-> Stored[b]]
    BY <1>4, <1>b DEF TakenOut
  <2> QED BY <2>1, <2>2, StoreTake
<1>5. ASSUME NEW t \in Threads, NEW r \in Rules, GivenUp(t, r) PROVE Store!Next
  <2>1. Stored' = Stored
    BY <1>5, <1>b DEF GivenUp, Stored
  <2>2. \A q \in Asked[t], e \in DOMAIN Stored : Kinds[Stored[e]] # Kinds[q]
    BY <1>5, <1>a, <1>b, <1>c DEF GivenUp
  <2>3. Asked[t] # {} /\ Asked' = [Asked EXCEPT ![t] = {}]
    BY <1>5 DEF GivenUp
  <2> QED BY <2>1, <2>2, <2>3, StoreGiveUp
<1>6. ASSUME NEW ty \in RuleTypes, Cleared(ty) PROVE Store!Next
  <2> DEFINE kinds == {ty} \cap {Kinds[r] : r \in Rules}
  <2>1. \A e \in InForce : Kinds[Stored[e]] \in kinds <=> TypeOf(rule[e]) = ty
    BY <1>a, <1>b, <1>c
  <2>2. Stored' = [b \in {e \in DOMAIN Stored : Kinds[Stored[e]] \notin kinds} |-> Stored[b]]
    <3>1. InForce' = {e \in DOMAIN Stored : Kinds[Stored[e]] \notin kinds}
      BY <1>6, <1>b, <2>1 DEF Cleared
    <3> QED BY <1>6, <1>b, <3>1 DEF Cleared
  <2>3. kinds \in SUBSET {Kinds[r] : r \in Rules} /\ Asked' = Asked
    BY <1>6 DEF Cleared
  <2> QED BY <2>2, <2>3, StoreClear
<1> QED BY <1>1, <1>2, <1>3, <1>4, <1>5, <1>6 DEF StoreStep

(* The lists, the rotation and the lock implement the store of rules for    *)
(* any threads, blocks and rules, as long as one caller at a time removes   *)
(* and clears (Rule.c:60-178, 297-354).                                     *)
THEOREM StoreImplemented == ASSUME SingleRemover PROVE Spec => StoreSpec
<1>1. Init => Store!Init
  <2> SUFFICES ASSUME Init PROVE Store!Init
    OBVIOUS
  <2>1. \A ty \in RuleTypes : ToSet(list[ty]) = {}
    BY EmptyElems DEF Init
  <2>2. InForce = {}
    BY <2>1, InForceIs DEF Init, InForceSays
  <2>3. Stored = [e \in {} |-> {}]
    BY <2>2 DEF Stored
  <2>4. Asked = [t \in Threads |-> {}]
    BY DEF Init, Asked
  <2> QED BY <2>3, <2>4, StoreInit
<1>2. StoreInv /\ [Next]_vars
      => [Store!Next]_<<[e \in Listed \cup {cur[t] : t \in {u \in Threads : pc[u] = "rm_put"}}
                            |-> rule[e]],
                        [t \in Threads |-> IF pc[t] \in {"rm_check", "rm_pop", "rm_put"}
                                           THEN {key[t]} ELSE {}]>>
  <2> SUFFICES ASSUME StoreInv, [Next]_vars
               PROVE  Store!Next \/ (Stored' = Stored /\ Asked' = Asked)
    BY DEF Stored, Asked, InForce
  <2>1. Parts /\ Shape /\ Sorted
    BY PartsOf DEF StoreInv, OwnInv
  <2>2. StoreStep
    BY <2>1, EveryStepStores
  <2> QED BY <2>1, <2>2, StoreStepMaps
<1>3. Spec => []StoreInv
  BY StoreInvCorrect
<1> QED
  BY <1>1, <1>2, <1>3, PTL DEF Spec, StoreSpec, Store!Spec

-----------------------------------------------------------------------------
(* The count of the rules, modulo its width.                               *)

\* The remainder is the only one.
LEMMA ModOf ==
    ASSUME NEW M \in Nat \ {0}, NEW n \in Int, NEW q \in Int, NEW r \in 0 .. (M - 1),
           n = q * M + r
    PROVE  n % M = r
OBVIOUS

LEMMA ModIs ==
    ASSUME NEW M \in Nat \ {0}, NEW n \in Int
    PROVE  \E q \in Int, r \in 0 .. (M - 1) : n = q * M + r
<1>1. n = (n \div M) * M + (n % M) /\ (n % M) \in 0 .. (M - 1) /\ n \div M \in Int
  OBVIOUS
<1> QED BY <1>1

\* A counter that is wrapped at every step is wrapped as if at the end.
LEMMA WrapOnce ==
    ASSUME NEW M \in Nat \ {0}, NEW n \in Int
    PROVE  ((n % M) + 1) % M = (n + 1) % M /\ ((n % M) - 1) % M = (n - 1) % M
<1>1. PICK q \in Int, r \in 0 .. (M - 1) : n = q * M + r
  BY ModIs
<1>2. n % M = r
  BY <1>1, ModOf
<1>3. (r + 1) % M = (n + 1) % M
  <2>1. CASE r + 1 < M
    <3>1. r + 1 \in 0 .. (M - 1) /\ n + 1 = q * M + (r + 1) /\ r + 1 = 0 * M + (r + 1)
      BY <1>1, <2>1
    <3>2. (n + 1) % M = r + 1
      BY <1>1, <3>1, ModOf
    <3>3. (r + 1) % M = r + 1
      BY <1>1, <3>1, ModOf
    <3> QED BY <3>2, <3>3
  <2>2. CASE ~(r + 1 < M)
    <3>1. r + 1 = 1 * M + 0 /\ n + 1 = (q + 1) * M + 0 /\ 0 \in 0 .. (M - 1)
      BY <1>1, <2>2
    <3>2. (n + 1) % M = 0
      BY <1>1, <3>1, ModOf
    <3>3. (r + 1) % M = 0
      BY <1>1, <3>1, ModOf
    <3> QED BY <3>2, <3>3
  <2> QED BY <2>1, <2>2
<1>4. (r - 1) % M = (n - 1) % M
  <2>1. CASE r # 0
    <3>1. r - 1 \in 0 .. (M - 1) /\ n - 1 = q * M + (r - 1) /\ r - 1 = 0 * M + (r - 1)
      BY <1>1, <2>1
    <3>2. (n - 1) % M = r - 1
      BY <1>1, <3>1, ModOf
    <3>3. (r - 1) % M = r - 1
      BY <1>1, <3>1, ModOf
    <3> QED BY <3>2, <3>3
  <2>2. CASE r = 0
    <3>1. M - 1 \in 0 .. (M - 1) /\ n - 1 = (q - 1) * M + (M - 1) /\ r - 1 = (0 - 1) * M + (M - 1)
      BY <1>1, <2>2
    <3>2. (n - 1) % M = M - 1
      BY <1>1, <3>1, ModOf
    <3>3. (r - 1) % M = M - 1
      BY <1>1, <3>1, ModOf
    <3> QED BY <3>2, <3>3
  <2> QED BY <2>1, <2>2
<1> QED BY <1>2, <1>3, <1>4

\* Clearing does not touch uiRuleNums, so that the count is right only where
\* nobody clears.
NoClears == \A t \in Threads : MayIssue[t] \cap {"clear", "typeclear"} = {}

Counted == IsFiniteSet(InForce) /\ nums = Cardinality(InForce) % NumsMod

LEMMA CountedInit == Init => Counted
<1> SUFFICES ASSUME Init PROVE Counted
  OBVIOUS
<1>1. \A ty \in RuleTypes : ToSet(list[ty]) = {}
  BY EmptyElems DEF Init
<1>2. InForce = {}
  BY <1>1, InForceIs DEF Init, InForceSays
<1>3. nums = 0 % NumsMod
  BY DEF Init
<1> QED BY <1>2, <1>3, FS_EmptySet DEF Counted

LEMMA CountedStep ==
    ASSUME NoClears, CallInv, Counted, StoreStep
    PROVE  Counted'
<1> DEFINE n == Cardinality(InForce)
<1>1. IsFiniteSet(InForce) /\ n \in Nat /\ nums = n % NumsMod
  BY FS_CardinalityType DEF Counted
<1>2. ASSUME InForce' = InForce, nums' = nums PROVE Counted'
  BY <1>2 DEF Counted
<1>3. ASSUME NEW e \in Entries, PutIn(e) PROVE Counted'
  <2>1. IsFiniteSet(InForce') /\ Cardinality(InForce') = n + 1
    BY <1>1, <1>3, FS_AddElement DEF PutIn
  <2>2. nums' = (nums + 1) % NumsMod
    BY <1>3 DEF PutIn, Wrap
  <2>3. nums' = (n + 1) % NumsMod
    BY <1>1, <2>2, WrapOnce
  <2> QED BY <2>1, <2>3 DEF Counted
<1>4. ASSUME NEW t \in Threads, NEW e \in Entries, TakenOut(t, e) PROVE Counted'
  <2>1. IsFiniteSet(InForce') /\ Cardinality(InForce') = n - 1
    BY <1>1, <1>4, FS_RemoveElement DEF TakenOut
  <2>2. nums' = (nums - 1) % NumsMod
    BY <1>4 DEF TakenOut, Wrap
  <2>3. nums' = (n - 1) % NumsMod
    BY <1>1, <2>2, WrapOnce
  <2> QED BY <2>1, <2>3 DEF Counted
<1>5. \A t \in Threads : pc[t] # "clr"
  BY DEF NoClears, CallInv
<1> QED
  BY <1>2, <1>3, <1>4, <1>5 DEF StoreStep, Nothing, AskedFor, GivenUp

(* uiRuleNums is the number of all rules, modulo its width, whenever nobody *)
(* holds the lock (Rule.h:36): for any threads and rules, as long as one    *)
(* caller at a time removes and none clears (Rule.c:60-178).                *)
THEOREM NumsCorrect == ASSUME SingleRemover, NoClears PROVE Spec => []NumsIsRuleCount
<1>1. Init => Counted
  BY CountedInit
<1>2. StoreInv /\ Counted /\ [Next]_vars => Counted'
  <2> SUFFICES ASSUME StoreInv, Counted, [Next]_vars PROVE Counted'
    OBVIOUS
  <2>1. Parts /\ Shape /\ Sorted /\ CallInv
    BY PartsOf DEF StoreInv, OwnInv
  <2>2. StoreStep
    BY <2>1, EveryStepStores
  <2> QED BY <2>1, <2>2, CountedStep
<1>3. StoreInv /\ Counted /\ LockInv => NumsIsRuleCount
  <2> SUFFICES ASSUME StoreInv, Counted, LockInv, owner["resource"] = Null
               PROVE  nums = Cardinality(Listed) % NumsMod
    BY DEF NumsIsRuleCount
  <2>1. \A t \in Threads : pc[t] = "rm_put" => "remove" \in MayIssue[t]
    BY DEF StoreInv, OwnInv, CallInv, InRemove
  <2>2. \A t \in Threads : pc[t] = "rm_put" => LockOf(t) = "resource"
    BY <2>1 DEF LockOf
  <2>3. \A t \in Threads : pc[t] # "rm_put"
    BY <2>2 DEF LockInv, Sections
  <2>4. InForce = Listed
    BY <2>3 DEF InForce
  <2> QED BY <2>4 DEF Counted
<1>4. Spec => []StoreInv
  BY StoreInvCorrect
<1> QED
  BY <1>1, <1>2, <1>3, <1>4, LockCorrect, PTL DEF Spec

=============================================================================
