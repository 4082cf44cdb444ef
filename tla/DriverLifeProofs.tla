-------------------------- MODULE DriverLifeProofs --------------------------
(***************************************************************************)
(* Proofs about DriverLife, for any number of connecting threads.          *)
(*                                                                         *)
(* The inductive invariant says, for every phase, exactly what is held:    *)
(* Held(i) before call i of DriverEntry, Left(i) before step i of          *)
(* DriverUnload.  It needs the commit not to fail; the run that lets it    *)
(* fail shows the callout that is then left behind.                        *)
(***************************************************************************)
EXTENDS DriverLife, TLAPS

USE LifeAssumption

LEMMA CallsAre ==
    /\ Calls[1] = "device" /\ Calls[2] = "link" /\ Calls[3] = "env" /\ Calls[4] = "rules"
    /\ Calls[5] = "engine" /\ Calls[6] = "txn" /\ Calls[7] = "sublayer"
    /\ Calls[8] = "redirect" /\ Calls[9] = "callout" /\ Calls[10] = "calloutobj"
    /\ Calls[11] = "filter" /\ Calls[12] = "commit"
    /\ DOMAIN Calls = 1 .. 12 /\ Len(Calls) = 12
BY DEF Calls

LEMMA IndexAre == 0 .. (Len(Calls) + 1) = 0 .. 13
BY CallsAre

LEMMA ReleasesAre ==
    /\ Releases[1] = "rules" /\ Releases[2] = "env" /\ Releases[3] = "redirect"
    /\ Releases[4] = "callout" /\ Releases[5] = "callbacks" /\ Releases[6] = "engine"
    /\ Releases[7] = "link" /\ Releases[8] = "device"
    /\ DOMAIN Releases = 1 .. 8 /\ Len(Releases) = 8
BY DEF Releases

LEMMA ResourcesAre ==
    Resources = {"device", "link", "env", "rules", "engine", "txn", "sublayer",
                 "redirect", "callout", "calloutobj", "filter"}
BY CallsAre DEF Resources

-----------------------------------------------------------------------------
\* What is held before call k of DriverEntry; before 13, all is done.
Held(k) ==
    {r \in Resources :
        \/ r = "device" /\ k > 1
        \/ r = "link" /\ k > 2
        \/ r = "env" /\ k > 3
        \/ r = "rules" /\ k > 4
        \/ r = "engine" /\ k > 5
        \/ r = "txn" /\ k \in 7 .. 12
        \/ r = "sublayer" /\ k > 7
        \/ r = "redirect" /\ k > 8
        \/ r = "callout" /\ k > 9
        \/ r = "calloutobj" /\ k > 10
        \/ r = "filter" /\ k > 11}

\* What is left before step k of DriverUnload; before 9, nothing.
Left(k) ==
    {r \in Resources \ {"txn"} :
        \/ r = "rules" /\ k < 2
        \/ r = "env" /\ k < 3
        \/ r = "redirect" /\ k < 4
        \/ r = "callout" /\ k < 5
        \/ r \in Session /\ k < 7
        \/ r = "link" /\ k < 8
        \/ r = "device" /\ k < 9}

HaveInv ==
    /\ phase = "absent" => i = 0 /\ have = {}
    /\ phase = "loading" => i \in 1 .. 13 /\ have = Held(i) /\ ~routines
    /\ phase = "running" => i = 0
    /\ phase = "running" /\ routines => have = Resources \ {"txn"}
    /\ phase = "running" /\ ~routines => have = {}
    /\ phase = "unloading" => i \in 1 .. 9 /\ have = Left(i) /\ routines

\* Where callbacks can be.
CallbackInv ==
    /\ phase = "absent" \/ (phase = "running" /\ ~routines) => at = Out
    /\ phase = "loading" /\ i < 13 => at = Out
    /\ phase = "unloading" /\ i > 5 => at = Out

LifeInv == TypeOK /\ HaveInv /\ CallbackInv

LEMMA LifeInit == Init => LifeInv
<1> SUFFICES ASSUME Init PROVE LifeInv
  OBVIOUS
<1>1. TypeOK
  <2>1. i \in 0 .. (Len(Calls) + 1)
    BY IndexAre DEF Init
  <2> QED BY <2>1 DEF Init, TypeOK, Out
<1>2. HaveInv
  BY DEF Init, HaveInv
<1>3. CallbackInv
  BY DEF Init, CallbackInv
<1> QED BY <1>1, <1>2, <1>3 DEF LifeInv

LEMMA SucceedStep ==
    ASSUME LifeInv, NEW c \in Resources \cup {"commit"}, Succeed(c)
    PROVE  LifeInv'
<1>1. /\ phase = "loading" /\ i \in 1 .. 12 /\ Calls[i] = c
      /\ i' = i + 1 /\ phase' = phase
      /\ UNCHANGED <<routines, enabled, opened, at>>
  BY CallsAre DEF Succeed, Calling
<1>2. have' = Held(i + 1)
  <2>1. have = Held(i)
    BY <1>1 DEF LifeInv, HaveInv
  <2> QED BY <1>1, <2>1, CallsAre, ResourcesAre DEF Succeed, Held
<1>3. TypeOK'
  BY <1>1, <1>2, CallsAre DEF LifeInv, TypeOK, Held
<1>4. HaveInv'
  BY <1>1, <1>2 DEF LifeInv, HaveInv
<1>5. CallbackInv'
  BY <1>1 DEF LifeInv, CallbackInv
<1> QED BY <1>3, <1>4, <1>5 DEF LifeInv

LEMMA FailStep ==
    ASSUME "commit" \notin MayFail,
           LifeInv, NEW c \in Resources \cup {"commit"}, Fail(c)
    PROVE  LifeInv'
<1>1. /\ phase = "loading" /\ i \in 1 .. 11 /\ Calls[i] = c /\ c # "commit"
      /\ i' = 0 /\ phase' = IF Reported(c) THEN "absent" ELSE "running"
      /\ UNCHANGED <<routines, enabled, opened, at>>
  BY CallsAre DEF Fail, Calling
<1>2. have' = {}
  <2>1. have = Held(i) /\ have' = have \ Undone(c)
    BY <1>1 DEF LifeInv, HaveInv, Fail
  <2> QED BY <1>1, <2>1, CallsAre, ResourcesAre DEF Held, Undone, RegisterExit, EntryExit, Session
<1>3. TypeOK'
  BY <1>1, <1>2, CallsAre DEF LifeInv, TypeOK
<1>4. HaveInv'
  BY <1>1, <1>2 DEF LifeInv, HaveInv
<1>5. CallbackInv'
  BY <1>1 DEF LifeInv, CallbackInv, Out
<1> QED BY <1>3, <1>4, <1>5 DEF LifeInv

LEMMA ReleaseStep ==
    ASSUME LifeInv, Release
    PROVE  LifeInv'
<1>1. /\ phase = "unloading" /\ i \in 1 .. 8
      /\ i' = i + 1 /\ phase' = phase
      /\ UNCHANGED <<routines, enabled, opened, at>>
      /\ i = 5 => at = Out
  BY ReleasesAre DEF Release
<1>2. have' = Left(i + 1)
  <2>1. have = Left(i)
    BY <1>1 DEF LifeInv, HaveInv
  <2> QED BY <1>1, <2>1, ReleasesAre, ResourcesAre DEF Release, Left, Session
<1>3. TypeOK'
  BY <1>1, <1>2, CallsAre DEF LifeInv, TypeOK, Left
<1>4. HaveInv'
  BY <1>1, <1>2 DEF LifeInv, HaveInv
<1>5. CallbackInv'
  BY <1>1 DEF LifeInv, CallbackInv, Out
<1> QED BY <1>3, <1>4, <1>5 DEF LifeInv

\* A callback can begin only with the callout registered and the filter in force.
LEMMA ClassifyStep ==
    ASSUME LifeInv, NEW t \in Threads, Classify(t)
    PROVE  LifeInv'
<1>1. /\ {"callout", "filter"} \subseteq have /\ "txn" \notin have
      /\ at' = [at EXCEPT ![t] = "entered"]
      /\ UNCHANGED <<phase, i, have, routines, enabled, opened>>
  BY DEF Classify
<1>2. \/ phase = "loading" /\ i = 13
      \/ phase = "running" /\ routines
      \/ phase = "unloading" /\ i < 5
  <2>1. CASE phase = "absent"
    BY <1>1, <2>1 DEF LifeInv, HaveInv
  <2>2. CASE phase = "loading"
    <3>1. i \in 1 .. 13 /\ have = Held(i)
      BY <2>2 DEF LifeInv, HaveInv
    <3>2. "callout" \in Held(i) /\ "filter" \in Held(i) /\ "txn" \notin Held(i)
      BY <1>1, <3>1
    <3>3. i > 11 /\ i \notin 7 .. 12
      BY <3>1, <3>2, ResourcesAre DEF Held
    <3> QED BY <2>2, <3>1, <3>3
  <2>3. CASE phase = "running"
    BY <1>1, <2>3 DEF LifeInv, HaveInv
  <2>4. CASE phase = "unloading"
    <3>1. i \in 1 .. 9 /\ have = Left(i)
      BY <2>4 DEF LifeInv, HaveInv
    <3> QED BY <1>1, <2>4, <3>1 DEF Left, Session
  <2> QED BY <2>1, <2>2, <2>3, <2>4 DEF LifeInv, TypeOK
<1> QED
  BY <1>1, <1>2 DEF LifeInv, TypeOK, HaveInv, CallbackInv

LEMMA InsideStep ==
    ASSUME LifeInv, NEW t \in Threads,
           ReadSwitch(t) \/ GiveUp(t) \/ Lookup(t) \/ Return(t)
    PROVE  LifeInv'
<1>1. /\ at[t] # "out" /\ at # Out
      /\ UNCHANGED <<phase, i, have, routines, enabled, opened>>
      /\ at' \in [Threads -> {"out", "entered", "chosen", "inside"}]
  BY DEF ReadSwitch, GiveUp, Lookup, Return, Out, LifeInv, TypeOK
<1> QED
  BY <1>1 DEF LifeInv, TypeOK, HaveInv, CallbackInv

LEMMA LifeStep ==
    ASSUME "commit" \notin MayFail
    PROVE  LifeInv /\ [Next]_vars => LifeInv'
<1> SUFFICES ASSUME LifeInv, [Next]_vars PROVE LifeInv'
  OBVIOUS
<1>1. CASE Load
  <2>1. TypeOK'
    <3>1. i' \in 0 .. (Len(Calls) + 1)
      BY <1>1, IndexAre DEF Load
    <3> QED BY <1>1, <3>1 DEF Load, LifeInv, TypeOK
  <2>2. HaveInv'
    BY <1>1 DEF Load, LifeInv, HaveInv, Held
  <2>3. CallbackInv'
    BY <1>1 DEF Load, CallbackInv
  <2> QED BY <2>1, <2>2, <2>3 DEF LifeInv
<1>2. CASE SetRoutines
  <2>1. have = Resources \ {"txn"}
    <3>1. have = Held(13)
      BY <1>2, CallsAre DEF SetRoutines, LifeInv, HaveInv
    <3> QED BY <3>1, ResourcesAre DEF Held
  <2>2. TypeOK'
    <3>1. i' \in 0 .. (Len(Calls) + 1)
      BY <1>2, IndexAre DEF SetRoutines
    <3> QED BY <1>2, <3>1 DEF SetRoutines, LifeInv, TypeOK
  <2>3. HaveInv'
    BY <1>2, <2>1 DEF SetRoutines, HaveInv
  <2>4. CallbackInv'
    BY <1>2 DEF SetRoutines, CallbackInv
  <2> QED BY <2>2, <2>3, <2>4 DEF LifeInv
<1>3. CASE Control
  <2>1. UNCHANGED <<phase, i, have, routines, at>>
    BY <1>3 DEF Control, Open, Switch, Close
  <2>2. enabled' \in BOOLEAN /\ opened' \in BOOLEAN
    BY <1>3 DEF Control, Open, Switch, Close, LifeInv, TypeOK
  <2>3. TypeOK'
    BY <2>1, <2>2 DEF LifeInv, TypeOK
  <2> QED BY <2>1, <2>3 DEF LifeInv, HaveInv, CallbackInv
<1>4. CASE Callback
  BY <1>4, ClassifyStep, InsideStep DEF Callback
<1>5. CASE Unload
  <2>1. Left(1) = Resources \ {"txn"}
    BY ResourcesAre DEF Left, Session
  <2>2. TypeOK'
    BY <1>5, CallsAre DEF Unload, LifeInv, TypeOK
  <2>3. HaveInv'
    BY <1>5, <2>1 DEF Unload, MayUnload, LifeInv, HaveInv
  <2>4. CallbackInv'
    BY <1>5 DEF Unload, CallbackInv
  <2> QED BY <2>2, <2>3, <2>4 DEF LifeInv
<1>6. CASE Unmap
  <2>1. i = 9 /\ have = {} /\ at = Out
    <3>1. i = 9 /\ have = Left(9) /\ at = Out
      BY <1>6, ReleasesAre DEF Unmap, LifeInv, HaveInv, CallbackInv
    <3> QED BY <3>1 DEF Left
  <2>2. TypeOK'
    BY <1>6, CallsAre DEF Unmap, LifeInv, TypeOK
  <2>3. HaveInv'
    BY <1>6, <2>1 DEF Unmap, HaveInv
  <2>4. CallbackInv'
    BY <1>6, <2>1 DEF Unmap, CallbackInv, Out
  <2> QED BY <2>2, <2>3, <2>4 DEF LifeInv
<1>7. CASE UNCHANGED vars
  BY <1>7 DEF vars, LifeInv, TypeOK, HaveInv, CallbackInv
<1> QED
  BY <1>1, <1>2, <1>3, <1>4, <1>5, <1>6, <1>7, SucceedStep, FailStep, ReleaseStep
     DEF Next, Entry, Leave

LEMMA LifeCorrect == ASSUME "commit" \notin MayFail PROVE Spec => []LifeInv
<1>1. LifeInv /\ [Next]_vars => LifeInv'
  BY LifeStep
<1> QED BY <1>1, LifeInit, PTL DEF Spec

-----------------------------------------------------------------------------
(* The type invariant, for any threads and whatever may fail, the commit   *)
(* included (Driver.c:76-129, Callout.c:299-452).                          *)
THEOREM TypeCorrect == Spec => []TypeOK
<1>1. Init => TypeOK
  BY LifeInit DEF LifeInv
<1>2. TypeOK /\ [Next]_vars => TypeOK'
  <2> SUFFICES ASSUME TypeOK, [Next]_vars PROVE TypeOK'
    OBVIOUS
  <2>1. i \in 0 .. 13 /\ 0 .. (Len(Calls) + 1) = 0 .. 13
    BY IndexAre DEF TypeOK
  <2>2. ASSUME NEW c \in Resources \cup {"commit"}, Succeed(c) \/ Fail(c) PROVE TypeOK'
    <3>1. i \in 1 .. 12 /\ (c = "commit" \/ c \in Resources)
      BY <2>2, CallsAre DEF Succeed, Fail, Calling
    <3>2. i' \in 0 .. 13 /\ have' \subseteq Resources /\ phase' \in {"absent", "loading", "running"}
      BY <2>2, <3>1 DEF Succeed, Fail, Calling, TypeOK
    <3> QED BY <2>1, <2>2, <3>2, IndexAre DEF Succeed, Fail, TypeOK
  <2>3. CASE Load \/ SetRoutines
    <3>1. i' \in 0 .. (Len(Calls) + 1)
      BY <2>3, IndexAre DEF Load, SetRoutines
    <3> QED BY <2>3, <3>1 DEF Load, SetRoutines, TypeOK
  <2>4. CASE Control
    BY <2>4 DEF Control, Open, Switch, Close, TypeOK
  <2>5. CASE Callback
    BY <2>5 DEF Callback, Classify, ReadSwitch, GiveUp, Lookup, Return, TypeOK
  <2>6. CASE Release
    <3>1. i' \in 0 .. 13
      BY <2>6, ReleasesAre DEF Release
    <3>2. have' \subseteq Resources
      BY <2>6 DEF Release, TypeOK
    <3> QED BY <2>1, <2>6, <3>1, <3>2 DEF Release, TypeOK
  <2>7. CASE Unload \/ Unmap
    <3>1. i' \in 0 .. (Len(Calls) + 1)
      BY <2>7, IndexAre DEF Unload, Unmap
    <3> QED BY <2>7, <3>1 DEF Unload, Unmap, TypeOK
  <2>8. CASE UNCHANGED vars
    BY <2>8 DEF vars, TypeOK
  <2> QED BY <2>2, <2>3, <2>4, <2>5, <2>6, <2>7, <2>8 DEF Next, Entry, Leave
<1> QED BY <1>1, <1>2, PTL DEF Spec

(* If the commit does not fail, a driver that gave up or is gone has given *)
(* everything back, whatever else failed (Driver.c:76-116, 29-52).         *)
THEOREM NothingIsLeaked == ASSUME "commit" \notin MayFail PROVE Spec => []NothingLeaks
<1>1. LifeInv => NothingLeaks
  BY DEF LifeInv, HaveInv, NothingLeaks
<1> QED BY <1>1, LifeCorrect, PTL

(* If the commit does not fail, no callout is registered and no callback   *)
(* runs without the image (Callout.c:299, 458-479).                        *)
THEOREM CodeStaysMapped == ASSUME "commit" \notin MayFail PROVE Spec => []CodeBehindCallout
<1>1. LifeInv => CodeBehindCallout
  BY DEF LifeInv, HaveInv, CallbackInv, CodeBehindCallout
<1> QED BY <1>1, LifeCorrect, PTL

(* If nothing fails but what DriverEntry reports, a driver taken for       *)
(* loaded is complete (Driver.c:98-129).                                   *)
THEOREM LoadedIsReady ==
    ASSUME MayFail \cap {"env", "rules", "commit"} = {}
    PROVE  Spec => []LoadedMeansReady
<1> DEFINE Told == phase = "running" => routines
<1>1. Init => Told
  BY DEF Init
<1>2. Told /\ [Next]_vars => Told'
  <2> SUFFICES ASSUME Told, [Next]_vars PROVE Told'
    OBVIOUS
  <2>1. ASSUME NEW c \in Resources \cup {"commit"}, Succeed(c) \/ Fail(c) PROVE Told'
    BY <2>1 DEF Succeed, Fail, Calling, Reported
  <2>2. CASE Callback
    BY <2>2 DEF Callback, Classify, ReadSwitch, GiveUp, Lookup, Return
  <2>3. CASE Load \/ SetRoutines \/ Control \/ Leave \/ UNCHANGED vars
    BY <2>3 DEF Load, SetRoutines, Control, Open, Switch, Close, Leave, Unload, Release, Unmap, vars
  <2> QED BY <2>1, <2>2, <2>3 DEF Next, Entry
<1>3. LifeInv /\ Told => LoadedMeansReady
  BY DEF LifeInv, HaveInv, LoadedMeansReady
<1>4. Spec => []LifeInv
  BY LifeCorrect
<1> QED BY <1>1, <1>2, <1>3, <1>4, PTL DEF Spec

-----------------------------------------------------------------------------
\* With a quiet unload, who has passed the switch is there only while the
\* driver runs, since it is off at the unload and nobody can turn it on again.
SwitchInv ==
    /\ opened => phase = "running" /\ routines
    /\ enabled /\ phase # "absent" => phase = "running" /\ routines
    /\ \A t \in Threads : at[t] \in {"chosen", "inside"} => phase = "running" /\ routines

LEMMA SwitchStep ==
    ASSUME Discipline = "quiet"
    PROVE  LifeInv /\ SwitchInv /\ [Next]_vars => SwitchInv'
<1> SUFFICES ASSUME LifeInv, SwitchInv, [Next]_vars PROVE SwitchInv'
  OBVIOUS
<1>1. ASSUME NEW c \in Resources \cup {"commit"}, Succeed(c) \/ Fail(c) PROVE SwitchInv'
  BY <1>1 DEF Succeed, Fail, Calling, SwitchInv
<1>2. CASE Load
  BY <1>2 DEF Load, SwitchInv, Out
<1>3. CASE SetRoutines
  BY <1>3 DEF SetRoutines, SwitchInv
<1>4. CASE Control
  BY <1>4 DEF Control, Open, Switch, Close, SwitchInv
<1>5. ASSUME NEW t \in Threads, Classify(t) PROVE SwitchInv'
  BY <1>5 DEF Classify, SwitchInv, LifeInv, TypeOK
<1>6. ASSUME NEW t \in Threads, ReadSwitch(t) PROVE SwitchInv'
  <2>1. at # Out
    BY <1>6 DEF ReadSwitch, Out
  <2>2. phase # "absent"
    BY <2>1 DEF LifeInv, CallbackInv
  <2> QED BY <1>6, <2>2 DEF ReadSwitch, SwitchInv, LifeInv, TypeOK
<1>7. ASSUME NEW t \in Threads, GiveUp(t) \/ Lookup(t) \/ Return(t) PROVE SwitchInv'
  BY <1>7 DEF GiveUp, Lookup, Return, SwitchInv, LifeInv, TypeOK
<1>8. CASE Unload
  BY <1>8 DEF Unload, MayUnload, SwitchInv, Out
<1>9. CASE Release \/ Unmap
  BY <1>9 DEF Release, Unmap, SwitchInv
<1>10. CASE UNCHANGED vars
  BY <1>10 DEF vars, SwitchInv
<1> QED
  BY <1>1, <1>2, <1>3, <1>4, <1>5, <1>6, <1>7, <1>8, <1>9, <1>10
     DEF Next, Entry, Callback, Leave

(* If the driver is unloaded only with redirection off and no connection   *)
(* being classified, no callback ever looks into rules that are not there  *)
(* (Driver.c:34-36, Callout.c:58, 159).                                    *)
THEOREM RulesAreThere ==
    ASSUME "commit" \notin MayFail, Discipline = "quiet"
    PROVE  Spec => []RulesOutliveReaders
<1>1. Init => SwitchInv
  BY DEF Init, SwitchInv, Out
<1>2. LifeInv /\ SwitchInv /\ [Next]_vars => SwitchInv'
  BY SwitchStep
<1>3. LifeInv /\ SwitchInv => RulesOutliveReaders
  BY ResourcesAre DEF LifeInv, HaveInv, SwitchInv, RulesOutliveReaders
<1>4. Spec => []LifeInv
  BY LifeCorrect
<1> QED BY <1>1, <1>2, <1>3, <1>4, PTL DEF Spec

=============================================================================
