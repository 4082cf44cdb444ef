------------------------------ MODULE RuleMgr ------------------------------
(***************************************************************************)
(* The rule manager of the kernel driver (OpenSSLProxyRule.c): three lists *)
(* of proxy rules, the count of the rules, the source-port whitelist, and  *)
(* the lock that guards them (OpenSSLProxyUtils.c).  The I/O-control       *)
(* threads and the WFP classify threads call it at the same time.          *)
(*                                                                         *)
(* Step granularity: a critical section is one step, except where a thread *)
(* that does not hold the same lock can look inside it.  That happens      *)
(* twice: RuleEntryRemove reads IsListEmpty without the lock, and a thread *)
(* above APC_LEVEL takes the spin lock, which excludes no owner of the     *)
(* resource.  A call that is refused (STATUS_INVALID_PARAMETER, or no      *)
(* memory for the entry) changes nothing and is a stuttering step.         *)
(*                                                                         *)
(* A definition Bug_X is X with a plausible mistake in it.  Nothing uses   *)
(* them; put in the place of X, each breaks the property that guards it.   *)
(***************************************************************************)
EXTENDS Integers, SequencesExt

CONSTANTS
    Threads,            \* the threads that call the rule manager
    DispatchThreads,    \* those that run above APC_LEVEL
    MayIssue,           \* the calls each thread makes
    Entries,            \* RULE_INFO_ENTRY blocks of the lookaside list
    Null,               \* the NULL pointer
    IPs, Ports,         \* uiRuleIP and usRulePort values callers pass
    SrcPorts,           \* local ports of classified connections
    PortRanges,         \* [lo, hi] pairs callers of SetSrcPortRange pass
    MaxPort,            \* OPENSSLPROXY_MAXPORT
    NumsMod             \* uiRuleNums is a UINT32: 2^32 in the code

Calls == {"add", "remove", "clear", "typeclear", "setrange", "getrange", "inrange"}

ASSUME ThreadsAssumption ==
    /\ Null \notin Threads \cup Entries
    /\ MayIssue \in [Threads -> SUBSET Calls]
    /\ DispatchThreads \subseteq Threads
    \* above APC_LEVEL only the classify callback runs
    /\ \A t \in DispatchThreads : MayIssue[t] \subseteq {"inrange"}

ASSUME DataAssumption ==
    /\ 0 \in IPs /\ IPs \subseteq Nat
    /\ 0 \in Ports /\ Ports \subseteq Nat
    /\ 0 \in SrcPorts /\ SrcPorts \subseteq Nat
    /\ PortRanges \subseteq [lo : Nat, hi : Nat]
    /\ MaxPort \in Nat \ {0}
    /\ NumsMod \in Nat \ {0}

RuleTypes == {"IPPORT", "PORT", "IPADDR"}
Rules     == [ip : IPs, port : Ports]
NoRule    == [ip |-> 0, port |-> 0]

\* The list a rule is kept in: the test on the address comes first.
TypeOf(r) == IF r.ip = 0 THEN "IPADDR" ELSE IF r.port = 0 THEN "PORT" ELSE "IPPORT"

\* The ranges SetSrcPortRange accepts, and the pairs the whitelist may hold.
ValidRanges  == {r \in PortRanges : r.lo < MaxPort /\ r.hi < MaxPort}
NoRange      == [lo |-> 0, hi |-> 0]
Whitelists   == ValidRanges \cup {NoRange}
Within(p, r) == r.lo < p /\ p < r.hi

\* The width of uiRuleNums.
Wrap(n) == n % NumsMod

VARIABLES
    list,       \* the three lists, head first
    rule,       \* the contents of each entry; they survive the free
    live,       \* entries allocated and not yet freed
    nums,       \* uiRuleNums
    range,      \* stSrcPortRange
    owner,      \* who owns the resource and who the spin lock
    pc,         \* where each thread is
    cur,        \* its pRuleEntry (and plistEntry)
    key,        \* the rule it was asked to remove
    todo,       \* the lists it still has to release
    pair,       \* a port range it is about to store, or has read
    port,       \* usSrcPort of IsPortInRange
    answer      \* what IsPortInRange returned to it last

vars == <<list, rule, live, nums, range, owner, pc, cur, key, todo, pair, port, answer>>

lists   == <<list, rule, live, nums>>
locals  == <<cur, key, todo, pair, port, answer>>

-----------------------------------------------------------------------------
\* OpenSSLProxy_ResourceLock / ResourceUnLock: which of the two locks a thread
\* takes depends only on its IRQL.
Bug_LockOf(t) == IF "inrange" \in MayIssue[t] THEN "spin" ELSE "resource"
LockOf(t)  == IF t \in DispatchThreads THEN "spin" ELSE "resource"
Bug_LockFree(t) == TRUE
LockFree(t) == owner[LockOf(t)] = Null
Acquire(t) == LockFree(t) /\ owner' = [owner EXCEPT ![LockOf(t)] = t]
Bug_Release(t) == UNCHANGED owner
Release(t) == owner' = [owner EXCEPT ![LockOf(t)] = Null]

Goto(t, l)    == pc' = [pc EXCEPT ![t] = l]
Calling(t, c) == pc[t] = "idle" /\ c \in MayIssue[t]

\* OpenSSLProxy_RuleInit
Init ==
    /\ list = [ty \in RuleTypes |-> <<>>]
    /\ rule = [e \in Entries |-> NoRule]
    /\ live = {}
    /\ nums = 0
    /\ range = NoRange
    /\ owner = [l \in {"resource", "spin"} |-> Null]
    /\ pc = [t \in Threads |-> "idle"]
    /\ cur = [t \in Threads |-> Null]
    /\ key = [t \in Threads |-> NoRule]
    /\ todo = [t \in Threads |-> <<>>]
    /\ pair = [t \in Threads |-> NoRange]
    /\ port = [t \in Threads |-> 0]
    /\ answer = [t \in Threads |-> FALSE]

-----------------------------------------------------------------------------
(* OpenSSLProxy_RuleEntryAdd: the entry is allocated and filled in before   *)
(* the lock is taken.                                                       *)

AddAlloc(t) ==
    /\ Calling(t, "add")
    /\ \E r \in Rules \ {NoRule}, e \in Entries \ live :
          /\ live' = live \cup {e}
          /\ rule' = [rule EXCEPT ![e] = r]
          /\ cur' = [cur EXCEPT ![t] = e]
    /\ Goto(t, "add_insert")
    /\ UNCHANGED <<list, nums, range, owner, key, todo, pair, port, answer>>

AddInsert(t) ==
    /\ pc[t] = "add_insert"
    /\ LockFree(t)
    /\ list' = [list EXCEPT ![TypeOf(rule[cur[t]])] = Append(@, cur[t])]
    /\ nums' = Wrap(nums + 1)
    /\ cur' = [cur EXCEPT ![t] = Null]
    /\ Goto(t, "idle")
    /\ UNCHANGED <<rule, live, range, owner, key, todo, pair, port, answer>>

-----------------------------------------------------------------------------
(* OpenSSLProxy_RuleEntryRemove: rotate the list, one lock round per entry, *)
(* until the head is the rule asked for or the list looks empty from        *)
(* outside the lock.  plistEntry is set to NULL only once, before the loop. *)

RemoveBegin(t) ==
    /\ Calling(t, "remove")
    /\ \E r \in Rules : key' = [key EXCEPT ![t] = r]
    /\ Goto(t, "rm_check")
    /\ UNCHANGED <<lists, range, owner, cur, todo, pair, port, answer>>

\* the loop given up after one round
Bug_RemoveCheck(t) ==
    /\ pc[t] = "rm_check"
    /\ Goto(t, IF list[TypeOf(key[t])] = <<>> \/ cur[t] # Null THEN "rm_free" ELSE "rm_pop")
    /\ UNCHANGED <<lists, range, owner, locals>>

RemoveCheck(t) ==
    /\ pc[t] = "rm_check"
    /\ Goto(t, IF list[TypeOf(key[t])] = <<>> THEN "rm_free" ELSE "rm_pop")
    /\ UNCHANGED <<lists, range, owner, locals>>

RemovePop(t) ==
    /\ pc[t] = "rm_pop"
    /\ Acquire(t)
    /\ LET ty == TypeOf(key[t])
       IN  IF list[ty] = <<>>
           THEN UNCHANGED <<list, cur>>
           ELSE /\ cur' = [cur EXCEPT ![t] = Head(list[ty])]
                /\ list' = [list EXCEPT ![ty] = Tail(@)]
    /\ Goto(t, "rm_put")
    /\ UNCHANGED <<rule, live, nums, range, key, todo, pair, port, answer>>

Bug_Matches(t) == cur[t] # Null /\ rule[cur[t]].ip = key[t].ip
Matches(t) == cur[t] # Null /\ rule[cur[t]] = key[t]

\* uiRuleNums-- forgotten
Bug_RemoveMatch(t) ==
    /\ pc[t] = "rm_put"
    /\ Matches(t)
    /\ Release(t)
    /\ Goto(t, "rm_free")
    /\ UNCHANGED <<lists, range, locals>>

\* The head is the rule asked for: it stays out of the list.
RemoveMatch(t) ==
    /\ pc[t] = "rm_put"
    /\ Matches(t)
    /\ nums' = Wrap(nums - 1)
    /\ Release(t)
    /\ Goto(t, "rm_free")
    /\ UNCHANGED <<list, rule, live, range, locals>>

\* InsertHeadList for InsertTailList
Bug_RemovePutBack(t) ==
    /\ pc[t] = "rm_put"
    /\ ~Matches(t)
    /\ list' = IF cur[t] = Null THEN list
               ELSE [list EXCEPT ![TypeOf(key[t])] = <<cur[t]>> \o @]
    /\ Release(t)
    /\ Goto(t, "rm_check")
    /\ UNCHANGED <<rule, live, nums, range, locals>>

\* It is another rule: it goes to the tail.
RemovePutBack(t) ==
    /\ pc[t] = "rm_put"
    /\ ~Matches(t)
    /\ list' = IF cur[t] = Null THEN list
               ELSE [list EXCEPT ![TypeOf(key[t])] = Append(@, cur[t])]
    /\ Release(t)
    /\ Goto(t, "rm_check")
    /\ UNCHANGED <<rule, live, nums, range, locals>>

\* Both exits of the loop end here; RuleEntryFree ignores NULL.
RemoveFree(t) ==
    /\ pc[t] = "rm_free"
    /\ live' = live \ {cur[t]}
    /\ cur' = [cur EXCEPT ![t] = Null]
    /\ key' = [key EXCEPT ![t] = NoRule]
    /\ Goto(t, "idle")
    /\ UNCHANGED <<list, rule, nums, range, owner, todo, pair, port, answer>>

-----------------------------------------------------------------------------
(* OpenSSLProxy_RuleAllClear, OpenSSLProxy_RuleTypeClear and               *)
(* OpenSSLPRoxy_RuleListRelease: every list named in todo is emptied and   *)
(* its entries freed, all under one lock round.  uiRuleNums is not touched.*)

BeginClear(t, tys) ==
    /\ Acquire(t)
    /\ todo' = [todo EXCEPT ![t] = tys]
    /\ Goto(t, "clr")
    /\ UNCHANGED <<lists, range, cur, key, pair, port, answer>>

AllClear(t)  == Calling(t, "clear") /\ BeginClear(t, <<"PORT", "IPADDR", "IPPORT">>)
TypeClear(t) == Calling(t, "typeclear") /\ \E ty \in RuleTypes : BeginClear(t, <<ty>>)

\* the entries of an address rule left linked
Bug_ReleaseList(t) ==
    /\ pc[t] = "clr"
    /\ list' = [list EXCEPT ![Head(todo[t])] = IF Head(todo[t]) = "IPADDR" THEN @ ELSE <<>>]
    /\ live' = live \ ToSet(list[Head(todo[t])])
    /\ todo' = [todo EXCEPT ![t] = Tail(@)]
    /\ IF Tail(todo[t]) = <<>>
       THEN Release(t) /\ Goto(t, "idle")
       ELSE UNCHANGED <<owner, pc>>
    /\ UNCHANGED <<rule, nums, range, cur, key, pair, port, answer>>

ReleaseList(t) ==
    /\ pc[t] = "clr"
    /\ list' = [list EXCEPT ![Head(todo[t])] = <<>>]
    /\ live' = live \ ToSet(list[Head(todo[t])])
    /\ todo' = [todo EXCEPT ![t] = Tail(@)]
    /\ IF Tail(todo[t]) = <<>>
       THEN Release(t) /\ Goto(t, "idle")
       ELSE UNCHANGED <<owner, pc>>
    /\ UNCHANGED <<rule, nums, range, cur, key, pair, port, answer>>

-----------------------------------------------------------------------------
(* The whitelist of source ports: the writer stores the start and then the *)
(* end, the readers load the start and then the end.                       *)

SetLo(t) ==
    /\ Calling(t, "setrange")
    /\ Acquire(t)
    /\ \E r \in ValidRanges :
          /\ pair' = [pair EXCEPT ![t] = r]
          /\ range' = [range EXCEPT !.lo = r.lo]
    /\ Goto(t, "set_hi")
    /\ UNCHANGED <<lists, cur, key, todo, port, answer>>

SetHi(t) ==
    /\ pc[t] = "set_hi"
    /\ range' = [range EXCEPT !.hi = pair[t].hi]
    /\ Release(t)
    /\ Goto(t, "idle")
    /\ UNCHANGED <<lists, locals>>

GetLo(t) ==
    /\ Calling(t, "getrange")
    /\ Acquire(t)
    /\ pair' = [pair EXCEPT ![t].lo = range.lo]
    /\ Goto(t, "get_hi")
    /\ UNCHANGED <<lists, range, cur, key, todo, port, answer>>

GetHi(t) ==
    /\ pc[t] = "get_hi"
    /\ pair' = [pair EXCEPT ![t].hi = range.hi]
    /\ Release(t)
    /\ Goto(t, "idle")
    /\ UNCHANGED <<lists, range, cur, key, todo, port, answer>>

\* IsPortInRange: the second comparison is made only when the first holds.
InLo(t) ==
    /\ Calling(t, "inrange")
    /\ LockFree(t)
    /\ \E p \in SrcPorts :
          /\ port' = [port EXCEPT ![t] = p]
          /\ IF p > range.lo
             THEN Acquire(t) /\ Goto(t, "in_hi") /\ UNCHANGED answer
             ELSE answer' = [answer EXCEPT ![t] = FALSE] /\ UNCHANGED <<owner, pc>>
    /\ UNCHANGED <<lists, range, cur, key, todo, pair>>

InHi(t) ==
    /\ pc[t] = "in_hi"
    /\ answer' = [answer EXCEPT ![t] = port[t] < range.hi]
    /\ Release(t)
    /\ Goto(t, "idle")
    /\ UNCHANGED <<lists, range, cur, key, todo, pair, port>>

-----------------------------------------------------------------------------
\* The steps of a call in progress, and the first steps of a call.
Proceed(t) ==
    \/ AddInsert(t)
    \/ RemoveCheck(t) \/ RemovePop(t) \/ RemoveMatch(t) \/ RemovePutBack(t) \/ RemoveFree(t)
    \/ ReleaseList(t)
    \/ SetHi(t) \/ GetHi(t) \/ InHi(t)

Call(t) ==
    \/ AddAlloc(t) \/ RemoveBegin(t) \/ AllClear(t) \/ TypeClear(t)
    \/ SetLo(t) \/ GetLo(t) \/ InLo(t)

Next == \E t \in Threads : Call(t) \/ Proceed(t)

Spec == Init /\ [][Next]_vars

(* A thread inside a call keeps running, and ERESOURCE grants exclusive    *)
(* waiters in arrival order, so a waiter is served although others come    *)
(* back for the lock; nothing obliges anybody to make another call.        *)
Fairness ==
    \A t \in Threads :
        /\ WF_vars(Proceed(t))
        /\ SF_vars(AddInsert(t))
        /\ SF_vars(RemovePop(t))

FairSpec == Spec /\ Fairness

-----------------------------------------------------------------------------
Labels == {"idle", "add_insert", "rm_check", "rm_pop", "rm_put", "rm_free",
           "clr", "set_hi", "get_hi", "in_hi"}

(* Every variable has its type. *)
TypeOK ==
    /\ list \in [RuleTypes -> Seq(Entries)]
    /\ rule \in [Entries -> Rules]
    /\ live \subseteq Entries
    /\ nums \in 0 .. (NumsMod - 1)
    /\ range \in [lo : Nat, hi : Nat]
    /\ owner \in [{"resource", "spin"} -> Threads \cup {Null}]
    /\ pc \in [Threads -> Labels]
    /\ cur \in [Threads -> Entries \cup {Null}]
    /\ key \in [Threads -> Rules]
    /\ todo \in [Threads -> Seq(RuleTypes)]
    /\ pair \in [Threads -> [lo : Nat, hi : Nat]]
    /\ port \in [Threads -> SrcPorts]
    /\ answer \in [Threads -> BOOLEAN]

\* Labels at which a thread owns its lock.
Sections == {"rm_put", "clr", "set_hi", "get_hi", "in_hi"}

(* The lock is taken and given back in pairs (Utils.c:46-68): a thread is  *)
(* inside a critical section exactly when it owns the lock of its IRQL.    *)
LockInv ==
    /\ \A t \in Threads : pc[t] \in Sections <=> owner[LockOf(t)] = t
    /\ \A t \in Threads, l \in DOMAIN owner : owner[l] = t => l = LockOf(t)

Listed  == UNION {ToSet(list[ty]) : ty \in RuleTypes}

\* The entry a thread holds that is in no list.
Hand(t) == IF pc[t] \in {"add_insert", "rm_put", "rm_free"} THEN cur[t] ELSE Null

(* An allocated entry is in exactly one place: once in one list, or in the *)
(* hands of one thread; and what is in those places is allocated.  Adding, *)
(* rotating, removing and clearing never leave a dangling link, link an    *)
(* entry twice, free it twice, or lose it (Rule.c:60-178, 297-354).        *)
EntriesOwned ==
    /\ \A ty \in RuleTypes : IsInjective(list[ty])
    /\ \A a, b \in RuleTypes : a # b => ToSet(list[a]) \cap ToSet(list[b]) = {}
    /\ \A t \in Threads, ty \in RuleTypes : Hand(t) \notin ToSet(list[ty])
    /\ \A s, t \in Threads : s # t => Hand(s) # Hand(t) \/ Hand(s) = Null
    /\ \A e \in Entries : e \in live <=> \/ \E ty \in RuleTypes : e \in ToSet(list[ty])
                                         \/ \E t \in Threads : Hand(t) = e

\* What one thread relies on inside RuleEntryRemove.
CursorOk(t) ==
    /\ pc[t] \in {"rm_check", "rm_pop"} =>
          cur[t] = Null \/ cur[t] \in ToSet(list[TypeOf(key[t])])
    /\ pc[t] = "rm_pop" => list[TypeOf(key[t])] # <<>>
    /\ pc[t] = "rm_put" => cur[t] # Null
    /\ pc[t] = "rm_free" => cur[t] = Null \/ rule[cur[t]] = key[t]

(* What RuleEntryRemove assumes between its lock rounds, where it holds    *)
(* nothing (Rule.c:147-177): the entry it put back is still in the list,   *)
(* the list it saw non-empty still is, the entry under comparison is a     *)
(* real one, and what it frees at the end is the rule it was asked for.    *)
CursorInv == \A t \in Threads : CursorOk(t)

(* Both need this discipline of the callers, which the driver itself does  *)
(* not impose: whoever removes rules is alone in removing and clearing.    *)
SingleRemover ==
    \A s, t \in Threads :
        s # t /\ "remove" \in MayIssue[s] =>
            MayIssue[t] \cap {"remove", "clear", "typeclear"} = {}

(* A rule is freed only by a clear, or by the remove that asked for this   *)
(* very rule: the rotation in RuleEntryRemove gives up no other rule       *)
(* (Rule.c:147-177).                                                       *)
FreesOnlyWhatItMatched ==
    [][\A e \in live \ live' :
          \E t \in Threads : \/ pc[t] = "clr"
                             \/ pc[t] = "rm_free" /\ rule[e] = key[t]]_vars

(* The three lists, the rotation and the lock implement a store of rules:  *)
(* an add puts in the rule it was given, a remove takes out one block with *)
(* the very rule it was asked for, or gives up when no rule of that kind   *)
(* is left, and nothing else ever changes what is stored (Rule.c:60-178,   *)
(* 297-354).  A rule that is being compared still counts as stored.        *)
Store == INSTANCE RuleStore WITH
             stored <- [e \in Listed \cup {cur[t] : t \in {u \in Threads : pc[u] = "rm_put"}}
                           |-> rule[e]],
             asked  <- [t \in Threads |-> IF pc[t] \in {"rm_check", "rm_pop", "rm_put"}
                                         THEN {key[t]} ELSE {}],
             Kind   <- [r \in Rules |-> TypeOf(r)]
StoreSpec == Store!Spec

(* A source port is found to be in the whitelist only if one configured    *)
(* whitelist contains it: no thread sees the start of one range with the   *)
(* end of another (Rule.c:219-273).                                        *)
WhitelistSound ==
    \A t \in Threads :
        pc[t] = "idle" /\ answer[t] => \E r \in Whitelists : Within(port[t], r)

(* What a reader of the range returns is right at the moment it returns,   *)
(* although it was loaded in two parts (Rule.c:230-233, 263-264).          *)
ReadsAreAtomic ==
    [][\A t \in Threads : pc'[t] = "idle" =>
          /\ pc[t] = "in_hi" => (answer'[t] <=> Within(port[t], range))
          /\ pc[t] = "get_hi" => pair'[t] = range]_vars

(* uiRuleNums is the number of the rules in the three lists, modulo its    *)
(* width, whenever nobody holds the lock: "uiRuleNums, the number of all   *)
(* rules" (Rule.h:36).                                                     *)
NumsIsRuleCount ==
    owner["resource"] = Null => nums = Cardinality(Listed) % NumsMod

(* Each rule is in the list whose comment describes it: the port list is   *)
(* for rules 0.0.0.0:port and the address list for ip:0 (Rule.h:33-34).    *)
ListsAsDocumented ==
    /\ \A e \in ToSet(list["PORT"])   : rule[e].ip = 0
    /\ \A e \in ToSet(list["IPADDR"]) : rule[e].port = 0

(* A remove call for a rule that is in its list comes back, however many   *)
(* rules other threads keep adding (Rule.c:147-175).                       *)
RemoveFinds ==
    \A t \in Threads :
        pc[t] = "rm_check" /\ (\E e \in Listed : rule[e] = key[t])
            ~> pc[t] = "idle"

\* The loop of RuleEntryRemove; where the rule that a remove is after is in its
\* list, and whether it is the one under comparison.
Round     == {"rm_check", "rm_pop", "rm_put"}
Sought(t) == LET q == list[TypeOf(key[t])] IN {i \in DOMAIN q : rule[q[i]] = key[t]}
Found(t)  == pc[t] = "rm_put" /\ Matches(t)

(* A remove comes nearer to its rule: every round of the lock brings every *)
(* copy of it one place forward, the one at the head is found, and nothing *)
(* that others do meanwhile moves it or ends the loop before.  So a remove *)
(* whose rule is there needs as many rounds as its place (Rule.c:147-177). *)
RemoveAdvances ==
    [][\A t \in Threads :
          /\ Found(t) => Found(t)' \/ (pc'[t] = "rm_free" /\ cur'[t] = cur[t])
          /\ pc[t] \in Round /\ ~Found(t) =>
                \A i \in Sought(t) :
                    IF pc[t] = "rm_pop" /\ pc'[t] = "rm_put"
                    THEN IF i = 1 THEN Found(t)' ELSE i - 1 \in Sought(t)'
                    ELSE i \in Sought(t)' /\ pc'[t] \in Round]_vars

\* A remove goes round and its rule is not there, but others of its kind are.
Absent(t) ==
    /\ pc[t] \in Round /\ Sought(t) = {} /\ ~Found(t)
    /\ pc[t] = "rm_put" \/ list[TypeOf(key[t])] # <<>>

(* What RemoveFinds and RemoveAdvances leave out: a remove whose rule is   *)
(* not there, but another of its kind, goes round until somebody adds the  *)
(* very rule.  There is no other way out of its loop, whatever the others  *)
(* do (Rule.c:147-175).                                                    *)
AbsentGoesRound ==
    [][\A t \in Threads : Absent(t) =>
          \/ Absent(t)'
          \/ \E s \in Threads : /\ pc[s] = "add_insert" /\ pc'[s] = "idle"
                                /\ rule[cur[s]] = key[t]]_vars

(* A thread that waits for the lock to add its rule gets it, even while a  *)
(* remove call rotates its list over and over (Rule.c:97-115).             *)
AddReturns ==
    \A t \in Threads : pc[t] = "add_insert" ~> pc[t] = "idle"

(* Every remove call comes back, whether or not the rule exists: the       *)
(* caller is told that it was deleted (DevControl.c:102).                  *)
RemoveReturns ==
    \A t \in Threads : pc[t] = "rm_check" ~> pc[t] = "idle"

=============================================================================
