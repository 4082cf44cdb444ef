--------------------------- MODULE ClassifyProofs ---------------------------
(***************************************************************************)
(* Proofs about Classify, for any limit.  The inductive invariant follows  *)
(* the three things a path through the callback can get wrong, from where  *)
(* they are settled to where they show: the right to write, what was       *)
(* acquired, and the count of the driver's own versions.                   *)
(***************************************************************************)
EXTENDS Classify, TLAPS

USE ClassifyAssumption

\* Behind the gate.
Inner == {"record", "handle", "data", "reauth", "count", "match"}

WriteInv ==
    /\ pc = "gate" => (write <=> found.write)
    /\ pc \in Inner => write /\ found.write
    /\ pc = "exit" /\ found.write => write
    /\ pc = "returned" /\ found.write => ~write

GotInv ==
    /\ handle => pc \in {"data", "reauth", "count", "match", "exit"}
    /\ data => pc \in {"reauth", "count", "match", "exit"}

CountInv ==
    /\ pc = "match" => own <= Limit
    /\ pc = "exit" /\ data /\ newest = "other" /\ own > Limit => ~status

LEMMA TypeStep == TypeOK /\ [Next]_vars => TypeOK'
<1> SUFFICES ASSUME TypeOK, [Next]_vars PROVE TypeOK'
  OBVIOUS
<1> USE DEF TypeOK, Goto, Places, request, out, got
<1>1. ASSUME NEW again \in BOOLEAN, Ask(again), UNCHANGED <<enabled, own>>,
             newest' \in {"nobody", "other", "self"}
      PROVE  TypeOK'
  <2>1. write' \in BOOLEAN /\ action' \in Actions /\ record' \in Records /\ pc' = "gate"
    BY <1>1 DEF Ask, Actions
  <2>2. found' \in [write : BOOLEAN, action : Actions]
    BY <1>1, <2>1 DEF Ask
  <2>3. status' \in BOOLEAN /\ handle' \in BOOLEAN /\ data' \in BOOLEAN
    BY <1>1 DEF Ask
  <2>4. reauth' \in BOOLEAN
    BY <1>1 DEF Ask
  <2> QED BY <1>1, <2>1, <2>2, <2>3, <2>4
<1>2. CASE Connect \/ OtherModifies \/ AskAgain
  BY <1>1, <1>2 DEF Connect, OtherModifies, AskAgain
<1>3. CASE Settle \/ Switch
  BY <1>3 DEF Settle, Switch
<1>4. CASE Gate
  BY <1>4 DEF Gate
<1>5. CASE RedirectState
  BY <1>5 DEF RedirectState, Actions
<1>6. CASE TakeHandle
  BY <1>6 DEF TakeHandle
<1>7. CASE TakeData
  BY <1>7 DEF TakeData
<1>8. CASE Reauthorize
  BY <1>8 DEF Reauthorize, Actions
<1>9. CASE Count
  BY <1>9 DEF Count
<1>10. CASE Match
  BY <1>10 DEF Match
<1>11. CASE Exit
  <2>1. write' \in BOOLEAN /\ action' \in Actions
    BY <1>11 DEF Exit, Actions
  <2>2. newest' \in {"nobody", "other", "self"} /\ own' \in 0 .. Cap
    BY <1>11 DEF Exit
  <2>3. handle' \in BOOLEAN /\ data' \in BOOLEAN /\ pc' = "returned"
    BY <1>11 DEF Exit
  <2> QED BY <1>11, <2>1, <2>2, <2>3 DEF Exit
<1>12. CASE UNCHANGED vars
  BY <1>12 DEF vars
<1> QED
  BY <1>2, <1>3, <1>4, <1>5, <1>6, <1>7, <1>8, <1>9, <1>10, <1>11, <1>12
     DEF Next, Callback, Platform

LEMMA WriteStep == TypeOK /\ WriteInv /\ [Next]_vars => WriteInv'
<1> SUFFICES ASSUME TypeOK, WriteInv, [Next]_vars PROVE WriteInv'
  OBVIOUS
<1> USE DEF WriteInv, Goto, Inner, request, out, got
<1>1. ASSUME NEW again \in BOOLEAN, Ask(again) PROVE WriteInv'
  BY <1>1 DEF Ask
<1>2. CASE Connect \/ OtherModifies \/ AskAgain
  BY <1>1, <1>2 DEF Connect, OtherModifies, AskAgain
<1>3. CASE Settle \/ Switch
  BY <1>3 DEF Settle, Switch
<1>4. CASE Gate
  BY <1>4 DEF Gate
<1>5. CASE RedirectState \/ TakeHandle \/ TakeData \/ Count \/ Match
  BY <1>5 DEF RedirectState, TakeHandle, TakeData, Count, Match
<1>6. CASE Reauthorize
  BY <1>6 DEF Reauthorize
<1>7. CASE Exit
  BY <1>7 DEF Exit
<1>8. CASE UNCHANGED vars
  BY <1>8 DEF vars
<1> QED
  BY <1>2, <1>3, <1>4, <1>5, <1>6, <1>7, <1>8 DEF Next, Callback, Platform

LEMMA GotStep == GotInv /\ [Next]_vars => GotInv'
<1> SUFFICES ASSUME GotInv, [Next]_vars PROVE GotInv'
  OBVIOUS
<1> USE DEF GotInv, Goto, request, out, got
<1>1. CASE Platform
  BY <1>1 DEF Platform, Connect, OtherModifies, AskAgain, Settle, Ask
<1>2. CASE Gate \/ RedirectState \/ Reauthorize \/ Count \/ Match \/ Switch
  BY <1>2 DEF Gate, RedirectState, Reauthorize, Count, Match, Switch
<1>3. CASE TakeHandle
  BY <1>3 DEF TakeHandle
<1>4. CASE TakeData
  BY <1>4 DEF TakeData
<1>5. CASE Exit
  BY <1>5 DEF Exit
<1>6. CASE UNCHANGED vars
  BY <1>6 DEF vars
<1> QED
  BY <1>1, <1>2, <1>3, <1>4, <1>5, <1>6 DEF Next, Callback

LEMMA CountStep == TypeOK /\ GotInv /\ CountInv /\ [Next]_vars => CountInv'
<1> SUFFICES ASSUME TypeOK, GotInv, CountInv, [Next]_vars PROVE CountInv'
  OBVIOUS
<1>a. own \in Nat
  BY DEF TypeOK
<1> USE <1>a DEF GotInv, CountInv, Goto, request, out, got
<1>1. CASE Platform
  BY <1>1 DEF Platform, Connect, OtherModifies, AskAgain, Settle, Ask
<1>2. CASE Gate \/ RedirectState \/ Match \/ Switch
  BY <1>2 DEF Gate, RedirectState, Match, Switch
<1>3. CASE TakeHandle \/ TakeData
  BY <1>3 DEF TakeHandle, TakeData
<1>4. CASE Reauthorize
  BY <1>4 DEF Reauthorize
<1>5. CASE Count
  <2>1. pc = "count" /\ (status' <=> status /\ own <= Limit) /\ own' = own
    BY <1>5 DEF Count, TypeOK
  <2>2. pc' = "match" => own' <= Limit
    BY <1>5, <2>1 DEF Count
  <2>3. own' > Limit => ~status'
    BY <2>1
  <2> QED BY <2>2, <2>3
<1>6. CASE Exit
  BY <1>6 DEF Exit
<1>7. CASE UNCHANGED vars
  BY <1>7 DEF vars
<1> QED
  BY <1>1, <1>2, <1>3, <1>4, <1>5, <1>6, <1>7 DEF Next, Callback

LEMMA ClassifyInit == Init => TypeOK /\ WriteInv /\ GotInv /\ CountInv
<1> SUFFICES ASSUME Init PROVE TypeOK /\ WriteInv /\ GotInv /\ CountInv
  OBVIOUS
<1>1. TypeOK
  <2>1. own \in 0 .. Cap
    BY DEF Init
  <2>2. found \in [write : BOOLEAN, action : Actions]
    BY DEF Init, Actions
  <2>3. /\ pc \in {"idle"}
        /\ record \in Records
        /\ newest \in {"nobody", "other", "self"}
        /\ action \in Actions
    BY DEF Init, Records, Actions
  <2>4. /\ enabled \in BOOLEAN
        /\ reauth \in BOOLEAN
        /\ write \in BOOLEAN
        /\ status \in BOOLEAN
        /\ handle \in BOOLEAN
        /\ data \in BOOLEAN
    BY Zenon DEF Init
  <2> QED BY <2>1, <2>2, <2>3, <2>4 DEF TypeOK
<1>2. WriteInv /\ GotInv /\ CountInv
  BY DEF Init, WriteInv, GotInv, CountInv, Inner
<1> QED BY <1>1, <1>2

LEMMA ClassifyCorrect == Spec => [](TypeOK /\ WriteInv /\ GotInv /\ CountInv)
<1> DEFINE I == TypeOK /\ WriteInv /\ GotInv /\ CountInv
<1>1. I /\ [Next]_vars => I'
  BY TypeStep, WriteStep, GotStep, CountStep
<1>2. Init => I
  BY ClassifyInit
<1> QED BY <1>1, <1>2, PTL DEF Spec

-----------------------------------------------------------------------------
(* On every path the driver gives up the right to write that it was        *)
(* passed (Callout.c:126-136, 204).                                        *)
THEOREM WriteIsGivenUp == Spec => []WriteGivenUp
<1>1. WriteInv => WriteGivenUp
  BY DEF WriteInv, WriteGivenUp
<1> QED BY <1>1, ClassifyCorrect, PTL

(* On every path it gives back what it acquired (Callout.c:106-124,        *)
(* 206-216).                                                               *)
THEOREM HandlesAreGivenBack == Spec => []HandlesGivenBack
<1>1. GotInv => HandlesGivenBack
  BY DEF GotInv, HandlesGivenBack
<1> QED BY <1>1, ClassifyCorrect, PTL

(* Whatever the limit, what another filter has modified is blocked once it *)
(* carries more than that many versions of the driver's (Callout.c:138-150,*)
(* 195-198).                                                               *)
THEOREM FightIsGivenUp == Spec => FightGivenUp
<1>1. CountInv /\ [Next]_vars
        => [pc = "exit" /\ pc' = "returned" /\ data /\ newest = "other" /\ own > Limit
              => action' = "block"]_vars
  <2> SUFFICES ASSUME CountInv, [Next]_vars,
                      pc = "exit", pc' = "returned", data, newest = "other", own > Limit
               PROVE  action' = "block"
    OBVIOUS
  <2>1. Exit
    BY DEF Next, Callback, Platform, Gate, RedirectState, TakeHandle, TakeData, Reauthorize,
           Count, Match, Connect, OtherModifies, Settle, AskAgain, Switch, Goto, vars
  <2> QED BY <2>1 DEF Exit, CountInv
<1> QED BY <1>1, ClassifyCorrect, PTL DEF Spec, FightGivenUp

(* Whatever the limit, every answer to another filter uses up one of the   *)
(* versions the driver puts up with or blocks (Callout.c:138-150, 195-216).*)
THEOREM FightIsFinite == Spec => FightAdvances
<1>1. TypeOK /\ CountInv /\ [Next]_vars
        => [newest = "other" /\ newest' = "self"
              => \/ own <= Limit /\ own' = own + 1
                 \/ action' = "block"]_vars
  <2> SUFFICES ASSUME TypeOK, CountInv, [Next]_vars,
                      newest = "other", newest' = "self",
                      ~(own <= Limit)
                      \/ own' # own + 1
               PROVE  action' = "block"
    OBVIOUS
  <2>1. Exit /\ pc = "exit" /\ data
    BY DEF Next, Callback, Platform, Gate, RedirectState, TakeHandle, TakeData, Reauthorize,
           Count, Match, Exit, Connect, OtherModifies, Settle, AskAgain, Switch, vars,
           request, got, out
  <2>2. own \in Nat /\ own' = IF own < Cap THEN own + 1 ELSE own
    BY <2>1 DEF Exit, TypeOK
  <2>3. own > Limit
    BY <2>2
  <2>4. ~status
    BY <2>1, <2>3 DEF CountInv
  <2> QED BY <2>1, <2>4 DEF Exit
<1> QED BY <1>1, ClassifyCorrect, PTL DEF Spec, FightAdvances

(* The type invariant, for any limit (Callout.c:32-220).                   *)
THEOREM TypeCorrect == Spec => []TypeOK
  BY ClassifyCorrect, PTL

=============================================================================
