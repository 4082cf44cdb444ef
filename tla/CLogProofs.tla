----------------------------- MODULE CLogProofs -----------------------------
(***************************************************************************)
(* Proofs about CLog, for any processes, threads and bounds: the lock      *)
(* excludes.  The invariant follows the mutex: who is in the section owns  *)
(* it, an owner is in the section and has taken it once, and who logs has  *)
(* a handle to it, which is what orderly programs see to.                  *)
(***************************************************************************)
EXTENDS CLog, TLAPS

USE LogAssumption

Section == {"enter", "opened", "unlock"}
Places  == {"idle", "check", "create", "created", "name", "mutex", "lock", "waiting"}
           \cup Section

LockTypes ==
    /\ handle \in [Procs -> BOOLEAN] /\ named \in [Procs -> BOOLEAN]
    /\ owner \in Threads \cup {NoOne} /\ depth \in Nat
    /\ at \in [Threads -> Places]
    /\ kind \in [Threads -> {"init", "line", "long"}]
    /\ \A t \in Threads : at[t] \in {"lock", "waiting"} \cup Section => kind[t] = "line"

MutexInv ==
    /\ \A t \in Threads : at[t] \in Section => owner = t
    /\ owner # NoOne => at[owner] \in Section /\ depth = 1
    /\ owner = NoOne => depth = 0
    /\ \A t \in Threads : at[t] # "idle" /\ kind[t] # "init" => handle[Home[t]]

LockInv == LockTypes /\ MutexInv

LEMMA LockInit == Init => LockInv
<1> SUFFICES ASSUME Init PROVE LockInv
  OBVIOUS
<1>1. owner = NoOne /\ \A t \in Threads : at[t] = "idle"
  BY DEF Init
<1>2. LockTypes
  BY DEF Init, LockTypes, Places, Section
<1> QED
  BY <1>1, <1>2 DEF Init, LockInv, MutexInv, Section

\* A thread goes from one place outside of the section to another.
LEMMA Outside ==
    ASSUME LockInv, NEW t \in Threads, NEW l \in Places \ Section, Go(t, l),
           at[t] \notin Section, UNCHANGED <<owner, depth, named, kind>>,
           handle' \in [Procs -> BOOLEAN], \A p \in Procs : handle[p] => handle'[p],
           at[t] # "idle",
           l \in {"lock", "waiting"} => kind[t] = "line"
    PROVE  LockInv'
<1> USE DEF Go
<1>1. LockTypes'
  BY DEF LockInv, LockTypes
<1>2. \A u \in Threads : at'[u] = IF u = t THEN l ELSE at[u]
  BY DEF LockInv, LockTypes
<1>3. MutexInv'
  BY <1>2 DEF LockInv, LockTypes, MutexInv
<1> QED BY <1>1, <1>3 DEF LockInv

\* A thread begins a call.
LEMMA Begins ==
    ASSUME LockInv, NEW t \in Threads, NEW what \in {"init", "line", "long"},
           NEW l \in {"idle", "check"}, Begin(t, what, l),
           l = "idle" \/ what = "init" \/ handle[Home[t]],
           UNCHANGED <<owner, depth, named, handle>>
    PROVE  LockInv'
<1>1. \A u \in Threads : /\ at'[u] = IF u = t THEN l ELSE at[u]
                         /\ kind'[u] = IF u = t THEN what ELSE kind[u]
  BY DEF LockInv, LockTypes, Begin, Go
<1>2. at' \in [Threads -> Places] /\ kind' \in [Threads -> {"init", "line", "long"}]
  BY DEF LockInv, LockTypes, Begin, Go, Places
<1>3. LockTypes'
  BY <1>1, <1>2 DEF LockInv, LockTypes, Section
<1>4. at[t] = "idle"
  BY DEF Begin
<1>5. MutexInv'
  BY <1>1, <1>4 DEF LockInv, LockTypes, MutexInv, Section
<1> QED BY <1>3, <1>5 DEF LockInv

\* A thread goes on inside the section.
LEMMA Inside ==
    ASSUME LockInv, NEW t \in Threads, NEW l \in Section, Go(t, l),
           at[t] \in Section, UNCHANGED <<owner, depth, named, handle, kind>>
    PROVE  LockInv'
<1>1. at' \in [Threads -> Places] /\ \A u \in Threads : at'[u] = IF u = t THEN l ELSE at[u]
  BY DEF LockInv, LockTypes, Go, Places
<1>2. LockTypes'
  BY <1>1 DEF LockInv, LockTypes, Section
<1>3. MutexInv'
  BY <1>1 DEF LockInv, LockTypes, MutexInv, Section
<1> QED BY <1>2, <1>3 DEF LockInv

\* The mutex changes hands: where has the places of the threads meanwhile.
LEMMA Passes ==
    ASSUME LockInv, NEW where \in [Threads -> Places], Pass(where),
           \A t \in Threads : where[t] \in {"idle", at[t]} /\ where[t] \notin Section,
           handle' \in [Procs -> BOOLEAN], named' \in [Procs -> BOOLEAN], UNCHANGED kind,
           \A t \in Threads : where[t] # "idle" => handle'[Home[t]] = handle[Home[t]]
    PROVE  LockInv'
<1>1. CASE owner' = NoOne /\ depth' = 0 /\ at' = where
  <2>1. LockTypes'
    BY <1>1 DEF LockInv, LockTypes
  <2>2. MutexInv'
    BY <1>1 DEF LockInv, LockTypes, MutexInv
  <2> QED BY <2>1, <2>2 DEF LockInv
<1>2. ASSUME NEW t \in Waiters(where), owner' = t, depth' = 1,
             at' = [where EXCEPT ![t] = "enter"]
      PROVE  LockInv'
  <2>1. t \in Threads /\ where[t] = "waiting" /\ at[t] = "waiting"
    BY <1>2 DEF Waiters
  <2>2. \A u \in Threads : at'[u] = IF u = t THEN "enter" ELSE where[u]
    BY <1>2, <2>1
  <2>3. at' \in [Threads -> Places]
    BY <1>2, <2>1 DEF Places, Section
  <2>4. kind[t] = "line"
    BY <2>1 DEF LockInv, LockTypes
  <2>5. \A u \in Threads : at'[u] \in {"lock", "waiting"} \cup Section => kind'[u] = "line"
    BY <2>2, <2>4 DEF LockInv, LockTypes
  <2>6. LockTypes'
    BY <1>2, <2>1, <2>3, <2>5 DEF LockInv, LockTypes
  <2>7. \A u \in Threads : at'[u] \in Section => owner' = u
    BY <1>2, <2>2
  <2>8. owner' # NoOne => at'[owner'] \in Section /\ depth' = 1
    BY <1>2, <2>1, <2>2 DEF Section
  <2>9. \A u \in Threads : at'[u] # "idle" /\ kind'[u] # "init" => handle'[Home[u]]
    BY <2>1, <2>2 DEF LockInv, MutexInv
  <2> QED BY <1>2, <2>1, <2>6, <2>7, <2>8, <2>9 DEF LockInv, MutexInv
<1> QED BY <1>1, <1>2 DEF Pass

LEMMA CallStep ==
    ASSUME Orderly, LockInv, NEW t \in Threads,
           evn_init(t) \/ writelog_quiet(t) \/ \E what \in {"line", "long"} : writelog(t, what)
    PROVE  LockInv'
<1> USE DEF mutex
<1>1. CASE evn_init(t)
  BY <1>1, Begins DEF evn_init
<1>2. CASE writelog_quiet(t)
  BY <1>2, Begins DEF writelog_quiet
<1>3. ASSUME NEW what \in {"line", "long"}, writelog(t, what) PROVE LockInv'
  <2>1. named[Home[t]] \in BOOLEAN /\ Home[t] \in Procs
    BY DEF LockInv, LockTypes
  <2>2. CASE named[Home[t]]
    BY <1>3, <2>2, Begins DEF writelog
  <2>3. CASE ~named[Home[t]]
    BY <1>3, <2>3, Begins DEF writelog
  <2> QED BY <2>1, <2>2, <2>3
<1> QED BY <1>1, <1>2, <1>3

LEMMA UninitStep ==
    ASSUME Orderly, LockInv, NEW t \in Threads, evn_uninit(t)
    PROVE  LockInv'
<1>1. /\ \A u \in Threads : Home[u] = Home[t] => at[u] = "idle"
      /\ handle' = [handle EXCEPT ![Home[t]] = FALSE]
      /\ UNCHANGED <<named, at, kind>> /\ Home[t] \in Procs
  BY DEF evn_uninit, Fellows
<1>2. /\ handle' \in [Procs -> BOOLEAN]
      /\ \A u \in Threads : at[u] # "idle" => handle'[Home[u]] = handle[Home[u]]
  BY <1>1 DEF LockInv, LockTypes
<1>3. CASE UNCHANGED <<owner, depth>>
  BY <1>1, <1>2, <1>3 DEF LockInv, LockTypes, MutexInv
<1>4. CASE owner' = NoOne /\ depth' = 0 /\ \A p \in Procs \ {Home[t]} : ~handle[p]
  <2>1. \A u \in Threads : at[u] \notin Section
    <3>1. SUFFICES ASSUME NEW u \in Threads, at[u] \in Section PROVE FALSE
      OBVIOUS
    <3>2. at[u] # "idle" /\ kind[u] = "line"
      BY <3>1 DEF LockInv, LockTypes, Section
    <3>3. handle[Home[u]]
      BY <3>2 DEF LockInv, MutexInv
    <3>4. Home[u] # Home[t] /\ Home[u] \in Procs
      BY <1>1, <3>2
    <3> QED BY <1>4, <3>3, <3>4
  <2>2. LockTypes'
    BY <1>1, <1>2, <1>4 DEF LockInv, LockTypes
  <2>3. MutexInv'
    BY <1>1, <1>2, <1>4, <2>1 DEF LockInv, MutexInv
  <2> QED BY <2>2, <2>3 DEF LockInv
<1> QED BY <1>3, <1>4 DEF evn_uninit, CloseHandle

LEMMA StepStep ==
    ASSUME LockInv, NEW t \in Threads, Step(t)
    PROVE  LockInv'
<1> USE DEF mutex
<1>0. handle \in [Procs -> BOOLEAN]
  BY DEF LockInv, LockTypes
<1>1. CASE FileIsExist(t) \/ FileIsCreate(t) \/ CloseCreated(t)
  <2>1. /\ at[t] \in {"check", "create", "created"}
        /\ UNCHANGED <<owner, depth, named, kind, handle>>
    BY <1>1 DEF FileIsExist, FileIsCreate, CloseCreated
  <2>2. kind[t] \in {"init", "line", "long"}
    BY DEF LockInv, LockTypes
  <2>3. \/ Go(t, "name") \/ Go(t, "idle") \/ Go(t, "create") \/ Go(t, "created")
        \/ Go(t, "lock") /\ kind[t] = "line"
    BY <1>1, <2>2 DEF FileIsExist, FileIsCreate, CloseCreated, Proceed, Return
  <2> QED
    BY <1>0, <2>1, <2>3, Outside DEF Places, Section
<1>2. CASE SetName(t)
  <2>1. at' = [at EXCEPT ![t] = "mutex"] /\ at[t] = "name"
    BY <1>2 DEF SetName, Go
  <2>2. at' \in [Threads -> Places] /\ \A u \in Threads : at'[u] = IF u = t THEN "mutex" ELSE at[u]
    BY <2>1 DEF LockInv, LockTypes, Places
  <2>3. named' \in [Procs -> BOOLEAN] /\ UNCHANGED <<owner, depth, handle, kind>>
    BY <1>2 DEF SetName, LockInv, LockTypes
  <2>4. LockTypes'
    BY <2>2, <2>3 DEF LockInv, LockTypes, Section
  <2>5. MutexInv'
    BY <2>1, <2>2, <2>3 DEF LockInv, LockTypes, MutexInv, Section
  <2> QED BY <2>4, <2>5 DEF LockInv
<1>3. CASE CreateMutex(t)
  <2>1. handle' \in [Procs -> BOOLEAN] /\ \A p \in Procs : handle[p] => handle'[p]
    BY <1>0, <1>3 DEF CreateMutex
  <2> QED
    BY <1>3, <2>1, Outside DEF CreateMutex, Return, Places, Section
<1>4. CASE FileLock(t)
  <2>1. at[t] = "lock" /\ kind[t] = "line" /\ handle[Home[t]] /\ owner # t
    BY <1>4 DEF FileLock, LockInv, LockTypes, MutexInv, Section
  <2>2. CASE Go(t, "waiting") /\ UNCHANGED <<owner, depth, named, handle, kind>>
    BY <1>0, <2>1, <2>2, Outside DEF Places, Section
  <2>3. CASE owner = NoOne /\ owner' = t /\ depth' = depth + 1 /\ Go(t, "enter")
             /\ UNCHANGED <<named, handle, kind>>
    <3>1. /\ at' \in [Threads -> Places]
          /\ \A u \in Threads : at'[u] = IF u = t THEN "enter" ELSE at[u]
      BY <2>3 DEF LockInv, LockTypes, Go, Places, Section
    <3>2. LockTypes'
      BY <2>1, <2>3, <3>1 DEF LockInv, LockTypes
    <3>3. \A u \in Threads : at[u] \notin Section
      BY <2>3 DEF LockInv, MutexInv
    <3>4. MutexInv'
      BY <2>1, <2>3, <3>1, <3>3 DEF LockInv, LockTypes, MutexInv, Section
    <3> QED BY <3>2, <3>4 DEF LockInv
  <2> QED BY <1>4, <2>1, <2>2, <2>3 DEF FileLock
<1>5. CASE Fopen(t) \/ Fclose(t)
  <2>1. /\ at[t] \in Section /\ \E l \in Section : Go(t, l)
        /\ UNCHANGED <<owner, depth, named, handle, kind>>
    BY <1>5 DEF Fopen, Fclose, Section
  <2> QED BY <2>1, Inside
<1>6. CASE FileUnLock(t)
  <2>1. /\ at[t] = "unlock" /\ owner = t /\ depth = 1 /\ handle[Home[t]]
        /\ UNCHANGED <<named, handle, kind>>
    BY <1>6 DEF FileUnLock, LockInv, LockTypes, MutexInv, Section
  <2> DEFINE where == [at EXCEPT ![t] = "idle"]
  <2>2. Pass(where)
    BY <1>6, <2>1 DEF FileUnLock
  <2>3. where \in [Threads -> Places]
    BY DEF LockInv, LockTypes, Places
  <2>4. \A u \in Threads : where[u] \in {"idle", at[u]} /\ where[u] \notin Section
    BY <2>1 DEF LockInv, LockTypes, MutexInv, Section
  <2>5. named \in [Procs -> BOOLEAN]
    BY DEF LockInv, LockTypes
  <2> HIDE DEF where
  <2> QED BY <1>0, <2>1, <2>2, <2>3, <2>4, <2>5, Passes
<1> QED BY <1>1, <1>2, <1>3, <1>4, <1>5, <1>6 DEF Step
\* A process is terminated: the mutex changes hands, or loses a handle.
LEMMA KillStep ==
    ASSUME LockInv, NEW p \in Procs, Kill(p)
    PROVE  LockInv'
<1> DEFINE victims == {t \in Threads : Home[t] = p}
           here    == [t \in Threads |-> IF t \in victims THEN "idle" ELSE at[t]]
<1>1. /\ handle' = [handle EXCEPT ![p] = FALSE] /\ named' = [named EXCEPT ![p] = FALSE]
      /\ UNCHANGED kind
  BY DEF Kill
<1>2. handle' \in [Procs -> BOOLEAN] /\ named' \in [Procs -> BOOLEAN]
  BY <1>1 DEF LockInv, LockTypes
<1>3. here \in [Threads -> Places]
  BY DEF LockInv, LockTypes, Places
<1>4. \A t \in Threads : here[t] = IF Home[t] = p THEN "idle" ELSE at[t]
  OBVIOUS
<1>5. \A t \in Threads : here[t] # "idle" =>
          /\ Home[t] # p /\ here[t] = at[t] /\ handle'[Home[t]] = handle[Home[t]]
  BY <1>1, <1>4 DEF LockInv, LockTypes
<1>6. IF owner \in victims THEN Pass(here) ELSE at' = here /\ CloseHandle(p, here)
  BY DEF Kill
<1> HIDE DEF here
<1>7. CASE owner \in victims
  <2>1. \A t \in Threads : here[t] \in {"idle", at[t]} /\ here[t] \notin Section
    BY <1>4, <1>7 DEF LockInv, MutexInv, Section
  <2> QED BY <1>1, <1>2, <1>3, <1>5, <1>6, <1>7, <2>1, Passes
<1>8. CASE owner \notin victims
  <2>1. at' = here /\ CloseHandle(p, here)
    BY <1>6, <1>8
  <2>2. owner' \in Threads \cup {NoOne} /\ depth' \in Nat
    BY <2>1 DEF CloseHandle, LockInv, LockTypes
  <2>3. \A t \in Threads : at'[t] \in {"lock", "waiting"} \cup Section => kind'[t] = "line"
    BY <1>1, <1>5, <2>1 DEF LockInv, LockTypes, Section
  <2>4. LockTypes'
    BY <1>1, <1>2, <1>3, <2>1, <2>2, <2>3 DEF LockInv, LockTypes
  <2>5. \A t \in Threads : at'[t] # "idle" /\ kind'[t] # "init" => handle'[Home[t]]
    BY <1>1, <1>5, <2>1 DEF LockInv, MutexInv
  <2>6. CASE UNCHANGED <<owner, depth>>
    <3>1. \A t \in Threads : at'[t] \in Section => owner' = t
      BY <1>5, <2>1, <2>6 DEF LockInv, MutexInv, Section
    <3>2. owner' # NoOne => at'[owner'] \in Section /\ depth' = 1
      BY <1>4, <1>8, <2>1, <2>6 DEF LockInv, LockTypes, MutexInv
    <3>3. owner' = NoOne => depth' = 0
      BY <2>6 DEF LockInv, MutexInv
    <3> QED BY <2>4, <2>5, <3>1, <3>2, <3>3 DEF LockInv, MutexInv
  <2>7. CASE owner' = NoOne /\ depth' = 0 /\ \A q \in Procs \ {p} : ~handle[q]
    <3>1. \A t \in Threads : at'[t] \notin Section
      <4>1. SUFFICES ASSUME NEW t \in Threads, at'[t] \in Section PROVE FALSE
        OBVIOUS
      <4>2. at[t] = here[t] /\ here[t] # "idle" /\ Home[t] # p
        BY <1>5, <2>1, <4>1 DEF Section
      <4>3. kind[t] = "line"
        BY <2>1, <4>1, <4>2 DEF LockInv, LockTypes
      <4>4. handle[Home[t]] /\ Home[t] \in Procs
        BY <4>2, <4>3 DEF LockInv, MutexInv
      <4> QED BY <2>7, <4>2, <4>4
    <3> QED BY <2>4, <2>5, <2>7, <3>1 DEF LockInv, MutexInv
  <2> QED BY <2>1, <2>6, <2>7 DEF CloseHandle
<1> QED BY <1>7, <1>8

LEMMA LockStep == ASSUME Orderly, LockInv, [Next]_vars PROVE LockInv'
<1>1. CASE UNCHANGED vars
  BY <1>1 DEF vars, mutex, LockInv, LockTypes, MutexInv
<1>2. ASSUME NEW t \in Threads, Step(t) PROVE LockInv'
  BY <1>2, StepStep
<1>3. ASSUME NEW t \in Threads,
             \/ evn_init(t) \/ writelog_quiet(t)
             \/ \E what \in {"line", "long"} : writelog(t, what)
      PROVE  LockInv'
  BY <1>3, CallStep
<1>4. ASSUME NEW t \in Threads, evn_uninit(t) PROVE LockInv'
  BY <1>4, UninitStep
<1>5. CASE Delete
  BY <1>5 DEF Delete, mutex, LockInv, LockTypes, MutexInv
<1>6. ASSUME NEW p \in Procs, Kill(p) PROVE LockInv'
  BY <1>6, KillStep
<1> QED BY <1>1, <1>2, <1>3, <1>4, <1>5, <1>6 DEF Next

\* Of orderly programs, one thread at most is between CLOG_FileLock and
\* CLOG_FileUnLock, whatever processes are terminated: it owns the mutex.
THEOREM LockExcludes == ASSUME Orderly PROVE Spec => []HolderAlone
<1>1. Init => LockInv
  BY LockInit
<1>2. LockInv /\ [Next]_vars => LockInv'
  BY LockStep
<1>3. LockInv => HolderAlone
  BY DEF LockInv, MutexInv, HolderAlone, InSection, Section
<1> QED
  BY <1>1, <1>2, <1>3, PTL DEF Spec

-----------------------------------------------------------------------------
\* The mutex is taken at least once by its owner, so that it can be counted down.
TypeInv == TypeOK /\ (owner # NoOne => depth > 0)

\* The types, with the places that only a line comes to by their name.
LEMMA TypesAre ==
    ASSUME TypeOK
    PROVE  /\ at \in [Threads -> Places] /\ kind \in [Threads -> {"init", "line", "long"}]
           /\ calls \in [Threads -> Nat] /\ Home \in [Threads -> Procs]
           /\ \A t \in Threads : at[t] \in {"lock", "waiting"} \cup Section => kind[t] = "line"
           /\ \A t \in Threads : Line(t) \in Threads \X Nat
BY DEF TypeOK, Places, Section, Line

LEMMA Appended ==
    ASSUME NEW S, NEW s \in Seq(S), NEW e \in S
    PROVE  Append(s, e) \in Seq(S) /\ Range(Append(s, e)) = Range(s) \cup {e}
<1>1. /\ Append(s, e) \in Seq(S)
      /\ DOMAIN s = 1 .. Len(s) /\ DOMAIN Append(s, e) = 1 .. Len(s) + 1 /\ Len(s) \in Nat
      /\ Append(s, e)[Len(s) + 1] = e
      /\ \A k \in 1 .. Len(s) : Append(s, e)[k] = s[k]
  OBVIOUS
<1>2. 1 .. Len(s) + 1 = (1 .. Len(s)) \cup {Len(s) + 1}
  BY <1>1
<1> QED BY <1>1, <1>2 DEF Range

LEMMA Emptied == <<>> \in Seq(Threads \X Nat)
OBVIOUS

LEMMA LineAppended ==
    ASSUME NEW l \in Threads \X Nat, NEW s \in Seq(Threads \X Nat)
    PROVE  Append(s, l) \in Seq(Threads \X Nat) /\ Range(Append(s, l)) = Range(s) \cup {l}
BY Appended

\* One thread moves: the types of the places and of the calls.
LEMMA Moves ==
    ASSUME TypeOK, NEW t \in Threads, NEW l \in Places, Go(t, l), UNCHANGED kind,
           l \in {"lock", "waiting"} \cup Section => kind[t] = "line"
    PROVE  /\ at' \in [Threads -> Places]
           /\ \A u \in Threads : at'[u] \in {"lock", "waiting"} \cup Section => kind'[u] = "line"
<1>1. at \in [Threads -> Places]
  BY TypesAre
<1>2. at' \in [Threads -> Places] /\ \A u \in Threads : at'[u] = IF u = t THEN l ELSE at[u]
  BY <1>1 DEF Go
<1> QED BY <1>2, TypesAre

\* The mutex changes hands: its types.
LEMMA PassTypes ==
    ASSUME TypeOK, NEW where \in [Threads -> Places], Pass(where), UNCHANGED kind,
           \A t \in Threads : where[t] \in {"idle", at[t]}
    PROVE  /\ owner' \in Threads \cup {NoOne} /\ depth' \in Nat
           /\ ahead' \subseteq Threads \X Threads
           /\ owner' # NoOne => depth' > 0
           /\ at' \in [Threads -> Places]
           /\ \A u \in Threads : at'[u] \in {"lock", "waiting"} \cup Section => kind'[u] = "line"
<1>1. \A u \in Threads : at[u] \in {"lock", "waiting"} \cup Section => kind[u] = "line"
  BY TypesAre
<1>2. ahead \subseteq Threads \X Threads
  BY DEF TypeOK
<1>3. CASE owner' = NoOne /\ depth' = 0 /\ ahead' = {} /\ at' = where
  BY <1>1, <1>3 DEF Section
<1>4. ASSUME NEW t \in Waiters(where), owner' = t, depth' = 1, ahead' \subseteq ahead,
             at' = [where EXCEPT ![t] = "enter"]
      PROVE  /\ owner' \in Threads \cup {NoOne} /\ depth' \in Nat
             /\ ahead' \subseteq Threads \X Threads
             /\ owner' # NoOne => depth' > 0
             /\ at' \in [Threads -> Places]
             /\ \A u \in Threads : at'[u] \in {"lock", "waiting"} \cup Section => kind'[u] = "line"
  <2>1. t \in Threads /\ where[t] = "waiting" /\ at[t] = "waiting"
    BY <1>4 DEF Waiters
  <2>2. at' \in [Threads -> Places] /\ \A u \in Threads : at'[u] = IF u = t THEN "enter" ELSE where[u]
    BY <1>4, <2>1 DEF Places, Section
  <2>3. \A u \in Threads : at'[u] \in {"lock", "waiting"} \cup Section => kind'[u] = "line"
    BY <1>1, <2>1, <2>2 DEF Section
  <2> QED BY <1>2, <1>4, <2>1, <2>2, <2>3
<1> QED
  <2>1. CASE Waiters(where) = {} /\ owner' = NoOne /\ depth' = 0 /\ ahead' = {} /\ at' = where
    BY <1>3, <2>1
  <2>2. ASSUME NEW t \in Waiters(where), owner' = t, depth' = 1,
               ahead' = {w \in ahead : w[1] # t /\ w[2] # t /\ w[1] \in Waiters(where)
                                      /\ w[2] \in Waiters(where)},
               at' = [where EXCEPT ![t] = "enter"]
        PROVE  ahead' \subseteq ahead
    BY <2>2
  <2> QED BY <1>4, <2>1, <2>2 DEF Pass

LEMMA BeginTypes ==
    ASSUME TypeInv, NEW t \in Threads, NEW what \in {"init", "line", "long"},
           NEW l \in {"idle", "check"}, Begin(t, what, l),
           UNCHANGED <<file, named, handle, mutex, said, deletes, kills>>
    PROVE  TypeInv'
<1>1. /\ at' \in [Threads -> Places] /\ kind' \in [Threads -> {"init", "line", "long"}]
      /\ \A u \in Threads : u # t => at'[u] = at[u] /\ kind'[u] = kind[u]
      /\ at'[t] \in {"idle", "check"}
  BY TypesAre DEF TypeInv, Begin, Go, Places
<1>2. calls' \in [Threads -> Nat]
  BY TypesAre DEF TypeInv, Begin
<1>3. \A u \in Threads : at'[u] \in {"lock", "waiting"} \cup Section => kind'[u] = "line"
  BY <1>1, TypesAre DEF TypeInv, Section
<1> QED BY <1>1, <1>2, <1>3 DEF TypeInv, TypeOK, Places, Section, file, mutex

\* What a step of a call does to the place and to what was said.
LEMMA PlaceTypes ==
    ASSUME TypeInv, NEW t \in Threads, NEW l \in Places, Go(t, l),
           l \in {"lock", "waiting"} \cup Section => kind[t] = "line",
           present' \in BOOLEAN, lines' \in Seq(Threads \X Nat),
           named' \in [Procs -> BOOLEAN], handle' \in [Procs -> BOOLEAN],
           owner' \in Threads \cup {NoOne}, depth' \in Nat, ahead' \subseteq Threads \X Threads,
           owner' # NoOne => depth' > 0,
           said' \in {said, said \cup {Line(t)}}, UNCHANGED <<kind, calls, deletes, kills>>
    PROVE  TypeInv'
<1>1. /\ at' \in [Threads -> Places]
      /\ \A u \in Threads : at'[u] \in {"lock", "waiting"} \cup Section => kind'[u] = "line"
  BY Moves DEF TypeInv
<1>2. said' \subseteq Threads \X Nat
  BY TypesAre DEF TypeInv, TypeOK
<1> QED BY <1>1, <1>2 DEF TypeInv, TypeOK, Places, Section

LEMMA StepTypes ==
    ASSUME TypeInv, NEW t \in Threads, Step(t)
    PROVE  TypeInv'
<1> USE DEF file, mutex
<1>0. /\ present \in BOOLEAN /\ lines \in Seq(Threads \X Nat)
      /\ named \in [Procs -> BOOLEAN] /\ handle \in [Procs -> BOOLEAN]
      /\ owner \in Threads \cup {NoOne} /\ depth \in Nat /\ ahead \subseteq Threads \X Threads
      /\ owner # NoOne => depth > 0
      /\ kind[t] \in {"init", "line", "long"} /\ Home[t] \in Procs
      /\ at[t] \in {"lock", "waiting"} \cup Section => kind[t] = "line"
      /\ Line(t) \in Threads \X Nat
  BY TypesAre DEF TypeInv, TypeOK
<1>1. CASE FileIsExist(t) \/ CloseCreated(t)
  <2>1. /\ said' \in {said, said \cup {Line(t)}}
        /\ \/ Go(t, "name") \/ Go(t, "idle") \/ Go(t, "create")
           \/ Go(t, "lock") /\ kind[t] = "line"
    BY <1>0, <1>1 DEF FileIsExist, CloseCreated, Proceed, Return
  <2>2. UNCHANGED <<present, lines, named, handle, owner, depth, ahead, kind, calls, deletes, kills>>
    BY <1>1 DEF FileIsExist, CloseCreated
  <2> QED BY <1>0, <2>1, <2>2, PlaceTypes DEF Places, Section
<1>2. CASE FileIsCreate(t)
  <2>1. /\ said' \in {said, said \cup {Line(t)}}
        /\ Go(t, "created") \/ Go(t, "idle")
        /\ present' \in BOOLEAN /\ lines' \in Seq(Threads \X Nat)
    BY <1>0, <1>2, Emptied DEF FileIsCreate, Return
  <2>2. UNCHANGED <<named, handle, owner, depth, ahead, kind, calls, deletes, kills>>
    BY <1>2 DEF FileIsCreate
  <2> QED BY <1>0, <2>1, <2>2, PlaceTypes DEF Places, Section
<1>3. CASE SetName(t) \/ CreateMutex(t)
  <2>1. /\ said' \in {said, said \cup {Line(t)}}
        /\ Go(t, "mutex") \/ Go(t, "idle")
        /\ named' \in [Procs -> BOOLEAN] /\ handle' \in [Procs -> BOOLEAN]
    BY <1>0, <1>3 DEF SetName, CreateMutex, Return
  <2>2. UNCHANGED <<present, lines, owner, depth, ahead, kind, calls, deletes, kills>>
    BY <1>3 DEF SetName, CreateMutex
  <2> QED BY <1>0, <2>1, <2>2, PlaceTypes DEF Places, Section
<1>4. CASE FileLock(t)
  <2>1. /\ kind[t] = "line" /\ t \in Threads
        /\ UNCHANGED <<present, lines, named, handle, kind, calls, said, deletes, kills>>
    BY <1>0, <1>4 DEF FileLock
  <2>2. Waiters(at) \X {t} \subseteq Threads \X Threads
    BY DEF Waiters
  <2>3. /\ Go(t, "enter") \/ Go(t, "waiting")
        /\ owner' \in Threads \cup {NoOne} /\ depth' \in Nat
        /\ ahead' \subseteq Threads \X Threads
        /\ owner' # NoOne => depth' > 0
    BY <1>0, <1>4, <2>2 DEF FileLock
  <2> QED BY <1>0, <2>1, <2>3, PlaceTypes DEF Places, Section
<1>5. CASE Fopen(t) \/ Fclose(t)
  <2>1. kind[t] = "line"
    BY <1>0, <1>5 DEF Fopen, Fclose, Section
  <2>2. /\ Go(t, "opened") \/ Go(t, "unlock")
        /\ present' \in BOOLEAN /\ lines' \in {lines, Append(lines, Line(t))}
        /\ UNCHANGED <<named, handle, owner, depth, ahead, kind, calls, said, deletes, kills>>
    BY <1>0, <1>5 DEF Fopen, Fclose
  <2>3. lines' \in Seq(Threads \X Nat)
    <3>1. Append(lines, Line(t)) \in Seq(Threads \X Nat)
      BY <1>0, LineAppended, Zenon
    <3> QED BY <1>0, <2>2, <3>1, Zenon
  <2> QED BY <1>0, <2>1, <2>2, <2>3, PlaceTypes DEF Places, Section
<1>6. CASE FileUnLock(t)
  <2>1. /\ said' = said \cup {Line(t)}
        /\ UNCHANGED <<present, lines, named, handle, kind, calls, deletes, kills>>
    BY <1>6 DEF FileUnLock
  <2>2. CASE Go(t, "idle") /\ UNCHANGED <<owner, depth, ahead>>
    BY <1>0, <2>1, <2>2, PlaceTypes DEF Places, Section
  <2>3. CASE owner = t /\ depth # 1 /\ depth' = depth - 1 /\ Go(t, "idle")
             /\ UNCHANGED <<owner, ahead>>
    <3>1. depth' \in Nat /\ depth' > 0
      BY <1>0, <2>3
    <3> QED BY <1>0, <2>1, <2>3, <3>1, PlaceTypes DEF Places, Section
  <2>4. CASE Pass([at EXCEPT ![t] = "idle"])
    <3> DEFINE where == [at EXCEPT ![t] = "idle"]
    <3>1. where \in [Threads -> Places] /\ \A u \in Threads : where[u] \in {"idle", at[u]}
      BY TypesAre DEF TypeInv, Places
    <3>2. Pass(where) /\ TypeOK
      BY <2>4 DEF TypeInv
    <3> HIDE DEF where
    <3>3. /\ owner' \in Threads \cup {NoOne} /\ depth' \in Nat
          /\ ahead' \subseteq Threads \X Threads
          /\ owner' # NoOne => depth' > 0
          /\ at' \in [Threads -> Places]
          /\ \A u \in Threads : at'[u] \in {"lock", "waiting"} \cup Section => kind'[u] = "line"
      BY <2>1, <3>1, <3>2, PassTypes
    <3>4. said' \subseteq Threads \X Nat
      BY <1>0, <2>1 DEF TypeInv, TypeOK
    <3> QED BY <1>0, <2>1, <3>3, <3>4 DEF TypeInv, TypeOK, Places, Section
  <2> QED BY <1>6, <2>2, <2>3, <2>4 DEF FileUnLock
<1> QED BY <1>1, <1>2, <1>3, <1>4, <1>5, <1>6 DEF Step

LEMMA KillTypes ==
    ASSUME TypeInv, NEW p \in Procs, Kill(p)
    PROVE  TypeInv'
<1> DEFINE victims == {t \in Threads : Home[t] = p}
           here    == [t \in Threads |-> IF t \in victims THEN "idle" ELSE at[t]]
<1>1. /\ named' \in [Procs -> BOOLEAN] /\ handle' \in [Procs -> BOOLEAN]
      /\ kills' \in Nat /\ UNCHANGED <<present, kind, calls, said, deletes>>
  BY DEF Kill, TypeInv, TypeOK
<1>2. lines' \in Seq(Threads \X Nat)
  <2>1. \A t \in Threads : Line(t) \in Threads \X Nat
    BY TypesAre DEF TypeInv
  <2>2. lines \in Seq(Threads \X Nat)
    BY DEF TypeInv, TypeOK
  <2>3. lines' = lines \/ \E t \in Threads : lines' = Append(lines, Line(t))
    BY DEF Kill
  <2> QED BY <2>1, <2>2, <2>3, LineAppended
<1>3. here \in [Threads -> Places] /\ \A t \in Threads : here[t] \in {"idle", at[t]}
  BY TypesAre DEF TypeInv, Places
<1>4. IF owner \in victims THEN Pass(here)
      ELSE /\ at' = here /\ CloseHandle(p, here)
           /\ ahead' = {w \in ahead : w[1] \notin victims /\ w[2] \notin victims}
  BY DEF Kill
<1> HIDE DEF here, victims
<1>5. /\ owner' \in Threads \cup {NoOne} /\ depth' \in Nat
      /\ ahead' \subseteq Threads \X Threads
      /\ owner' # NoOne => depth' > 0
      /\ at' \in [Threads -> Places]
      /\ \A u \in Threads : at'[u] \in {"lock", "waiting"} \cup Section => kind'[u] = "line"
  <2>1. CASE owner \in victims
    BY <1>1, <1>3, <1>4, <2>1, PassTypes DEF TypeInv
  <2>2. CASE owner \notin victims
    <3>1. at' = here /\ CloseHandle(p, here) /\ ahead' \subseteq ahead
      BY <1>4, <2>2
    <3>2. \A u \in Threads : at'[u] \in {"lock", "waiting"} \cup Section => kind'[u] = "line"
      BY <1>1, <1>3, <3>1, TypesAre DEF TypeInv, Section
    <3> QED BY <1>3, <3>1, <3>2 DEF CloseHandle, TypeInv, TypeOK
  <2> QED BY <2>1, <2>2
<1> QED BY <1>1, <1>2, <1>5 DEF TypeInv, TypeOK, Places, Section

LEMMA TypeCorrectStep == TypeInv /\ [Next]_vars => TypeInv'
<1> SUFFICES ASSUME TypeInv, [Next]_vars PROVE TypeInv'
  OBVIOUS
<1>1. ASSUME NEW t \in Threads, Step(t) PROVE TypeInv'
  BY <1>1, StepTypes
<1>2. ASSUME NEW t \in Threads, evn_init(t) \/ writelog_quiet(t) PROVE TypeInv'
  BY <1>2, BeginTypes DEF evn_init, writelog_quiet
<1>3. ASSUME NEW t \in Threads, NEW what \in {"line", "long"}, writelog(t, what) PROVE TypeInv'
  <2>1. CASE named[Home[t]]
    BY <1>3, <2>1, BeginTypes DEF writelog
  <2>2. CASE ~named[Home[t]]
    BY <1>3, <2>2, BeginTypes DEF writelog
  <2>3. named[Home[t]] \in BOOLEAN
    BY TypesAre DEF TypeInv, TypeOK
  <2> QED BY <2>1, <2>2, <2>3
<1>4. ASSUME NEW t \in Threads, evn_uninit(t) PROVE TypeInv'
  <2>1. handle' \in [Procs -> BOOLEAN] /\ UNCHANGED <<file, named, ahead, at, kind, calls, said, deletes, kills>>
    BY <1>4 DEF evn_uninit, TypeInv, TypeOK
  <2>2. owner' \in Threads \cup {NoOne} /\ depth' \in Nat /\ (owner' # NoOne => depth' > 0)
    BY <1>4 DEF evn_uninit, CloseHandle, TypeInv, TypeOK
  <2> QED BY <2>1, <2>2 DEF TypeInv, TypeOK, file
<1>5. CASE Delete
  <2>1. /\ lines' = <<>> /\ deletes' = deletes + 1 /\ present' = FALSE
        /\ UNCHANGED <<named, handle, owner, depth, ahead, at, kind, calls, said, kills>>
    BY <1>5 DEF Delete, mutex
  <2>2. deletes' \in Nat
    BY <2>1 DEF TypeInv, TypeOK
  <2> QED BY <2>1, <2>2, Emptied DEF TypeInv, TypeOK
<1>6. ASSUME NEW p \in Procs, Kill(p) PROVE TypeInv'
  BY <1>6, KillTypes
<1>7. CASE UNCHANGED vars
  BY <1>7 DEF vars, file, mutex, TypeInv, TypeOK
<1> QED BY <1>1, <1>2, <1>3, <1>4, <1>5, <1>6, <1>7 DEF Next

LEMMA TypesCorrect == Spec => []TypeInv
<1>1. Init => TypeInv
  BY DEF Init, TypeInv, TypeOK
<1> QED BY <1>1, TypeCorrectStep, PTL DEF Spec

(* The type invariant, for any processes and threads, orderly or not, and  *)
(* that only a line that fits comes to the lock (CLog.cpp:446-500).        *)
THEOREM TypeCorrect == Spec => []TypeOK
<1>1. TypeInv => TypeOK
  BY DEF TypeInv
<1> QED BY <1>1, TypesCorrect, PTL

-----------------------------------------------------------------------------
\* While nobody has deleted the file, it is there and nobody creates it; who
\* is about to unlock has written, since an owner finds nobody at the file.
LinesInv ==
    /\ \A t \in Threads : at[t] \in {"name", "mutex"} => kind[t] = "init"
    /\ deletes = 0 =>
          /\ present
          /\ \A t \in Threads : at[t] \notin {"create", "created"}
          /\ \A t \in Threads : at[t] = "unlock" => Line(t) \in Range(lines)
          /\ said \subseteq Range(lines)

\* One thread moves, and the file keeps what it holds.
LEMMA LinesMove ==
    ASSUME TypeInv, LinesInv, NEW t \in Threads, NEW l \in Places, Go(t, l),
           UNCHANGED <<kind, calls, deletes>>,
           l \in {"name", "mutex"} => kind[t] = "init",
           deletes = 0 =>
              /\ present' /\ l \notin {"create", "created"}
              /\ Range(lines) \subseteq Range(lines)' /\ said' \subseteq Range(lines)'
              /\ l = "unlock" => Line(t) \in Range(lines)'
    PROVE  LinesInv'
<1>1. \A u \in Threads : at'[u] = IF u = t THEN l ELSE at[u]
  BY TypesAre DEF TypeInv, Go
<1>2. \A u \in Threads : Line(u)' = Line(u)
  BY DEF Line
<1> QED BY <1>1, <1>2 DEF LinesInv

\* A thread begins a call, or has none to make.
LEMMA LinesBegin ==
    ASSUME TypeInv, LinesInv, NEW t \in Threads, NEW what \in {"init", "line", "long"},
           NEW l \in {"idle", "check"}, Begin(t, what, l),
           UNCHANGED <<file, said, deletes>>
    PROVE  LinesInv'
<1>1. \A u \in Threads : at'[u] = IF u = t THEN l ELSE at[u]
  BY TypesAre DEF TypeInv, Begin, Go
<1>2. \A u \in Threads : u # t => Line(u)' = Line(u) /\ kind'[u] = kind[u]
  BY TypesAre DEF TypeInv, Begin, Line
<1> QED BY <1>1, <1>2 DEF LinesInv, file

LEMMA LinesStep ==
    ASSUME TypeInv, LockInv, LinesInv, NEW t \in Threads, Step(t)
    PROVE  LinesInv'
<1> USE DEF file, mutex
<1>0. /\ kind[t] \in {"init", "line", "long"} /\ lines \in Seq(Threads \X Nat)
      /\ Line(t) \in Threads \X Nat
      /\ at[t] \in {"lock", "waiting"} \cup Section => kind[t] = "line"
  BY TypesAre DEF TypeInv, TypeOK
<1>1. CASE FileIsExist(t)
  <2>1. /\ UNCHANGED <<present, lines, kind, calls, deletes>>
        /\ deletes = 0 => present
    BY <1>1 DEF FileIsExist, LinesInv
  <2>2. /\ UNCHANGED said
        /\ \/ Go(t, "name") /\ kind[t] = "init"
           \/ Go(t, "idle") \/ Go(t, "lock")
           \/ Go(t, "create") /\ ~present
    BY <1>0, <1>1 DEF FileIsExist, Proceed, Return
  <2>3. deletes = 0 => said \subseteq Range(lines)
    BY DEF LinesInv
  <2> QED BY <2>1, <2>2, <2>3, LinesMove DEF Places, Section
<1>2. CASE FileIsCreate(t) \/ CloseCreated(t)
  <2>1. deletes # 0 /\ UNCHANGED <<kind, calls, deletes>>
    BY <1>2 DEF FileIsCreate, CloseCreated, LinesInv
  <2>2. \/ Go(t, "name") /\ kind[t] = "init"
        \/ Go(t, "idle") \/ Go(t, "lock") \/ Go(t, "created")
    BY <1>0, <1>2 DEF FileIsCreate, CloseCreated, Proceed, Return
  <2> QED BY <2>1, <2>2, LinesMove DEF Places, Section
<1>3. CASE SetName(t) \/ CreateMutex(t)
  <2>1. kind[t] = "init"
    BY <1>3 DEF SetName, CreateMutex, LinesInv
  <2>2. /\ UNCHANGED <<present, lines, said, kind, calls, deletes>>
        /\ Go(t, "mutex") \/ Go(t, "idle")
    BY <1>3, <2>1 DEF SetName, CreateMutex, Return
  <2>3. deletes = 0 => present /\ said \subseteq Range(lines)
    BY DEF LinesInv
  <2> QED BY <2>1, <2>2, <2>3, LinesMove DEF Places, Section
<1>4. CASE FileLock(t)
  <2>1. UNCHANGED <<present, lines, said, kind, calls, deletes>> /\ (Go(t, "enter") \/ Go(t, "waiting"))
    BY <1>4 DEF FileLock
  <2>2. deletes = 0 => present /\ said \subseteq Range(lines)
    BY DEF LinesInv
  <2> QED BY <2>1, <2>2, LinesMove DEF Places, Section
<1>5. CASE Fopen(t)
  <2>1. deletes = 0 => Writers \cup Creators = {}
    <3>1. at[t] = "enter" /\ owner = t
      BY <1>5 DEF Fopen, LockInv, MutexInv, Section
    <3>2. Writers = {}
      BY <3>1 DEF Writers, LockInv, MutexInv, Section
    <3>3. deletes = 0 => Creators = {}
      BY DEF Creators, LinesInv
    <3> QED BY <3>2, <3>3
  <2>2. UNCHANGED <<lines, said, kind, calls, deletes>>
    BY <1>5 DEF Fopen
  <2>3. /\ Go(t, "opened") \/ Go(t, "unlock")
        /\ deletes = 0 => present' /\ Go(t, "opened")
    BY <1>5, <2>1 DEF Fopen
  <2>4. deletes = 0 => said \subseteq Range(lines)
    BY DEF LinesInv
  <2>5. CASE Go(t, "opened") /\ (deletes = 0 => present')
    BY <2>2, <2>4, <2>5, LinesMove DEF Places, Section
  <2>6. CASE Go(t, "unlock") /\ deletes # 0
    BY <2>2, <2>6, LinesMove DEF Places, Section
  <2> QED BY <2>3, <2>5, <2>6
<1>6. CASE Fclose(t)
  <2>1. /\ lines' = Append(lines, Line(t)) /\ Go(t, "unlock")
        /\ UNCHANGED <<present, said, kind, calls, deletes>>
    BY <1>6 DEF Fclose
  <2>2. Range(lines)' = Range(lines) \cup {Line(t)}
    <3>1. Range(Append(lines, Line(t))) = Range(lines) \cup {Line(t)}
      BY <1>0, LineAppended, Zenon
    <3>2. Range(lines)' = Range(lines')
      OBVIOUS
    <3> QED BY <2>1, <3>1, <3>2
  <2>3. deletes = 0 => present /\ said \subseteq Range(lines)
    BY DEF LinesInv
  <2> QED BY <2>1, <2>2, <2>3, LinesMove DEF Places, Section
<1>7. CASE FileUnLock(t)
  <2>1. /\ at[t] = "unlock" /\ owner = t /\ depth = 1 /\ handle[Home[t]]
        /\ said' = said \cup {Line(t)} /\ UNCHANGED <<present, lines, kind, calls, deletes>>
    BY <1>7 DEF FileUnLock, LockInv, LockTypes, MutexInv, Section
  <2> DEFINE where == [at EXCEPT ![t] = "idle"]
  <2>2. Pass(where)
    BY <1>7, <2>1 DEF FileUnLock
  <2>3. \A u \in Threads : at'[u] \in {"idle", "enter", at[u]}
    <3>1. \A u \in Threads : where[u] \in {"idle", at[u]}
      BY TypesAre DEF TypeInv
    <3>2. DOMAIN where = Threads
      BY TypesAre DEF TypeInv
    <3> HIDE DEF where
    <3> QED BY <2>2, <3>1, <3>2 DEF Pass, Waiters
  <2>4. \A u \in Threads : Line(u)' = Line(u)
    BY <2>1 DEF Line
  <2> QED BY <2>1, <2>3, <2>4 DEF LinesInv
<1> QED BY <1>1, <1>2, <1>3, <1>4, <1>5, <1>6, <1>7 DEF Step

LEMMA LinesKill ==
    ASSUME TypeInv, LinesInv, NEW p \in Procs, Kill(p)
    PROVE  LinesInv'
<1> DEFINE victims == {t \in Threads : Home[t] = p}
           here    == [t \in Threads |-> IF t \in victims THEN "idle" ELSE at[t]]
<1>1. UNCHANGED <<present, kind, calls, said, deletes>>
  BY DEF Kill
<1>2. Pass(here) \/ at' = here
  BY DEF Kill
<1>3. \A t \in Threads : at'[t] \in {"idle", "enter", at[t]}
  <2>1. DOMAIN here = Threads /\ \A t \in Threads : here[t] \in {"idle", at[t]}
    OBVIOUS
  <2> HIDE DEF here
  <2> QED BY <1>2, <2>1 DEF Pass, Waiters
<1>4. \A t \in Threads : Line(t)' = Line(t)
  BY <1>1 DEF Line
<1>5. Range(lines) \subseteq Range(lines)'
  <2>1. CASE lines' = lines
    BY <2>1
  <2>2. ASSUME NEW t \in Threads, lines' = Append(lines, Line(t))
        PROVE  Range(lines) \subseteq Range(lines)'
    <3>1. Line(t) \in Threads \X Nat /\ lines \in Seq(Threads \X Nat)
      BY TypesAre DEF TypeInv, TypeOK
    <3>2. Range(Append(lines, Line(t))) = Range(lines) \cup {Line(t)}
      BY <3>1, LineAppended, Zenon
    <3>3. Range(lines)' = Range(lines')
      OBVIOUS
    <3> QED BY <2>2, <3>2, <3>3
  <2>3. lines' = lines \/ \E t \in Threads : lines' = Append(lines, Line(t))
    BY DEF Kill
  <2> QED BY <2>1, <2>2, <2>3
<1> QED BY <1>1, <1>3, <1>4, <1>5 DEF LinesInv

LEMMA LinesNext == ASSUME TypeInv, LockInv, LinesInv, [Next]_vars PROVE LinesInv'
<1>1. ASSUME NEW t \in Threads, Step(t) PROVE LinesInv'
  BY <1>1, LinesStep
<1>2. ASSUME NEW t \in Threads, evn_init(t) \/ writelog_quiet(t) PROVE LinesInv'
  BY <1>2, LinesBegin DEF evn_init, writelog_quiet
<1>3. ASSUME NEW t \in Threads, NEW what \in {"line", "long"}, writelog(t, what) PROVE LinesInv'
  <2>1. CASE named[Home[t]]
    BY <1>3, <2>1, LinesBegin DEF writelog
  <2>2. CASE ~named[Home[t]]
    BY <1>3, <2>2, LinesBegin DEF writelog
  <2>3. named[Home[t]] \in BOOLEAN
    BY TypesAre DEF TypeInv, TypeOK
  <2> QED BY <2>1, <2>2, <2>3
<1>4. ASSUME NEW t \in Threads, evn_uninit(t) PROVE LinesInv'
  BY <1>4 DEF evn_uninit, LinesInv, Line, file
<1>5. CASE Delete
  <2>1. deletes' = deletes + 1 /\ UNCHANGED <<at, kind>>
    BY <1>5 DEF Delete
  <2>2. deletes' # 0
    BY <2>1 DEF TypeInv, TypeOK
  <2> QED BY <2>1, <2>2 DEF LinesInv
<1>6. ASSUME NEW p \in Procs, Kill(p) PROVE LinesInv'
  BY <1>6, LinesKill
<1>7. CASE UNCHANGED vars
  BY <1>7 DEF vars, file, LinesInv, Line
<1> QED BY <1>1, <1>2, <1>3, <1>4, <1>5, <1>6, <1>7 DEF Next

\* Of orderly programs, every line whose call returned is in the file, as
\* long as nobody deletes it: nobody who has the lock finds it in use, and
\* nobody comes to create it (CLog.cpp:366-411, 446-513).
THEOREM LinesAreKept == ASSUME Orderly PROVE Spec => []LinesKept
<1>1. Init => LinesInv
  BY DEF Init, LinesInv
<1>2. TypeInv /\ LockInv /\ LinesInv /\ [Next]_vars => LinesInv'
  BY LinesNext
<1>3. LinesInv => LinesKept
  BY DEF LinesInv, LinesKept
<1>4. Init => LockInv
  BY LockInit
<1>5. LockInv /\ [Next]_vars => LockInv'
  BY LockStep
<1> QED
  BY <1>1, <1>2, <1>3, <1>4, <1>5, TypesCorrect, PTL DEF Spec

-----------------------------------------------------------------------------
(* The line of those that wait.                                            *)

InLine(q, a) ==
    /\ a \subseteq q \X q
    /\ \A t, u \in q : t # u => (<<t, u>> \in a <=> <<u, t>> \notin a)
    /\ \A t, u, v \in q : <<t, u>> \in a /\ <<u, v>> \in a => <<t, v>> \in a
    /\ \A t \in q : <<t, t>> \notin a

\* Some leave it, wherever they stand.
LEMMA LineShrinks ==
    ASSUME NEW q, NEW a, InLine(q, a), NEW r, r \subseteq q, NEW b, b \subseteq a,
           \A w \in a : w \in b <=> w[1] \in r /\ w[2] \in r
    PROVE  InLine(r, b)
<1>1. \A t, u \in q : <<t, u>> \in b <=> <<t, u>> \in a /\ t \in r /\ u \in r
  <2> SUFFICES ASSUME NEW t \in q, NEW u \in q
               PROVE  <<t, u>> \in b <=> <<t, u>> \in a /\ t \in r /\ u \in r
    OBVIOUS
  <2>1. <<t, u>>[1] = t /\ <<t, u>>[2] = u
    OBVIOUS
  <2> QED BY <2>1
<1>2. ASSUME NEW w \in b PROVE w \in r \X r
  <2>1. w \in q \X q /\ w[1] \in r /\ w[2] \in r
    BY DEF InLine
  <2> QED BY <2>1
<1> QED BY <1>1, <1>2 DEF InLine

\* One comes to its end.
LEMMA LineGrows ==
    ASSUME NEW q, NEW a, InLine(q, a), NEW t, t \notin q
    PROVE  InLine(q \cup {t}, a \cup (q \X {t}))
BY DEF InLine

LineInv == InLine(Waiters(at), ahead) /\ (owner = NoOne => Waiters(at) = {})

LEMMA LineThen ==
    ASSUME NEW q, NEW a, InLine(q, a), Waiters(at') = q, ahead' = a,
           owner' = NoOne => q = {}
    PROVE  LineInv'
BY DEF LineInv, Waiters

\* A thread moves that neither waits nor comes to wait.
LEMMA LineStays ==
    ASSUME TypeInv, LineInv, NEW t \in Threads, NEW l, l # "waiting", Go(t, l),
           at[t] # "waiting", UNCHANGED ahead, owner' = NoOne => owner = NoOne
    PROVE  LineInv'
<1>1. Waiters(at') = Waiters(at)
  BY TypesAre DEF TypeInv, Go, Waiters
<1> QED BY <1>1, LineThen DEF LineInv

\* The first of those that are left gets the mutex.
LEMMA LinePasses ==
    ASSUME LineInv, NEW where \in [Threads -> Places], Pass(where),
           Waiters(where) \subseteq Waiters(at)
    PROVE  LineInv'
<1>1. CASE Waiters(where) = {} /\ at' = where /\ ahead' = {}
  <2>1. InLine({}, {})
    BY DEF InLine
  <2> QED BY <1>1, <2>1, LineThen
<1>2. ASSUME NEW t \in Waiters(where), owner' = t, at' = [where EXCEPT ![t] = "enter"],
             ahead' = {w \in ahead : w[1] # t /\ w[2] # t /\ w[1] \in Waiters(where)
                                        /\ w[2] \in Waiters(where)}
      PROVE  LineInv'
  <2>1. Waiters(at') = Waiters(where) \ {t}
    BY <1>2 DEF Waiters
  <2>2. t # NoOne
    BY <1>2 DEF Waiters
  <2>3. InLine(Waiters(where) \ {t}, ahead')
    BY <1>2, LineShrinks DEF LineInv
  <2> QED BY <1>2, <2>1, <2>2, <2>3, LineThen
<1> QED BY <1>1, <1>2 DEF Pass

LEMMA LineStep ==
    ASSUME TypeInv, LineInv, NEW t \in Threads, Step(t)
    PROVE  LineInv'
<1> USE DEF mutex
<1>0. at \in [Threads -> Places]
  BY TypesAre DEF TypeInv
<1>1. CASE FileIsExist(t) \/ FileIsCreate(t) \/ CloseCreated(t) \/ SetName(t)
           \/ CreateMutex(t) \/ Fopen(t) \/ Fclose(t)
  <2>1. at[t] # "waiting" /\ UNCHANGED <<ahead, owner>>
    BY <1>1 DEF FileIsExist, FileIsCreate, CloseCreated, SetName, CreateMutex, Fopen, Fclose
  <2>2. kind[t] \in {"init", "line", "long"}
    BY TypesAre DEF TypeInv
  <2>3. \E l \in {"name", "idle", "create", "created", "lock", "mutex", "opened", "unlock"} :
            Go(t, l)
    BY <1>1, <2>2 DEF FileIsExist, FileIsCreate, CloseCreated, SetName, CreateMutex, Fopen,
                      Fclose, Proceed, Return
  <2> QED BY <2>1, <2>3, LineStays
<1>2. CASE FileLock(t)
  <2>1. CASE Go(t, "enter") /\ UNCHANGED ahead /\ owner' \in {owner, t}
    BY <1>2, <2>1, LineStays DEF FileLock
  <2>2. CASE Go(t, "waiting") /\ owner \notin {NoOne, t} /\ owner' = owner
             /\ ahead' = ahead \cup (Waiters(at) \X {t})
    <3>1. t \notin Waiters(at)
      BY <1>2 DEF FileLock, Waiters
    <3>2. Waiters(at') = Waiters(at) \cup {t}
      BY <1>0, <2>2 DEF Go, Waiters
    <3>3. InLine(Waiters(at) \cup {t}, ahead')
      BY <2>2, <3>1, LineGrows DEF LineInv
    <3> QED BY <2>2, <3>2, <3>3, LineThen
  <2> QED BY <1>2, <2>1, <2>2 DEF FileLock
<1>3. CASE FileUnLock(t)
  <2>1. at[t] = "unlock"
    BY <1>3 DEF FileUnLock
  <2>2. CASE Go(t, "idle") /\ UNCHANGED <<owner, ahead>>
    BY <2>1, <2>2, LineStays
  <2>3. CASE Pass([at EXCEPT ![t] = "idle"])
    <3> DEFINE where == [at EXCEPT ![t] = "idle"]
    <3>1. where \in [Threads -> Places] /\ Waiters(where) \subseteq Waiters(at)
      BY <1>0 DEF Waiters, Places
    <3>2. Pass(where)
      BY <2>3
    <3> HIDE DEF where
    <3> QED BY <3>1, <3>2, LinePasses
  <2> QED BY <1>3, <2>2, <2>3 DEF FileUnLock
<1> QED BY <1>1, <1>2, <1>3 DEF Step

LEMMA LineKill ==
    ASSUME TypeInv, LineInv, NEW p \in Procs, Kill(p)
    PROVE  LineInv'
<1> DEFINE victims == {t \in Threads : Home[t] = p}
           here    == [t \in Threads |-> IF t \in victims THEN "idle" ELSE at[t]]
<1>0. at \in [Threads -> Places]
  BY TypesAre DEF TypeInv
<1>1. here \in [Threads -> Places] /\ Waiters(here) = Waiters(at) \ victims
  BY <1>0 DEF Places, Waiters
<1>2. IF owner \in victims THEN Pass(here)
      ELSE /\ at' = here /\ CloseHandle(p, here)
           /\ ahead' = {w \in ahead : w[1] \notin victims /\ w[2] \notin victims}
  BY DEF Kill
<1> HIDE DEF here, victims
<1>3. CASE owner \in victims
  BY <1>1, <1>2, <1>3, LinePasses
<1>4. CASE owner \notin victims
  <2>1. \A w \in ahead : w[1] \in Waiters(at) /\ w[2] \in Waiters(at)
    BY DEF LineInv, InLine
  <2>2. \A w \in ahead : w \in ahead' <=> w[1] \in Waiters(here) /\ w[2] \in Waiters(here)
    BY <1>1, <1>2, <1>4, <2>1
  <2>3. InLine(Waiters(here), ahead')
    BY <1>1, <1>2, <1>4, <2>2, LineShrinks DEF LineInv
  <2>4. owner' = NoOne => Waiters(here) = {}
    BY <1>1, <1>2, <1>4 DEF CloseHandle, LineInv
  <2> QED BY <1>2, <1>4, <2>3, <2>4, LineThen
<1> QED BY <1>3, <1>4

LEMMA LineNext == ASSUME TypeInv, LineInv, [Next]_vars PROVE LineInv'
<1> USE DEF mutex
<1>1. ASSUME UNCHANGED <<at, ahead>>, owner' = NoOne => owner = NoOne \/ Waiters(at) = {}
      PROVE  LineInv'
  BY <1>1, LineThen DEF LineInv
<1>2. ASSUME NEW t \in Threads, Step(t) PROVE LineInv'
  BY <1>2, LineStep
<1>3. ASSUME NEW t \in Threads,
             \/ evn_init(t) \/ writelog_quiet(t)
             \/ \E what \in {"line", "long"} : writelog(t, what)
      PROVE  LineInv'
  <2>1. at[t] = "idle" /\ UNCHANGED <<ahead, owner>> /\ \E l \in {"idle", "check"} : Go(t, l)
    BY <1>3 DEF evn_init, writelog_quiet, writelog, Begin
  <2> QED BY <2>1, LineStays
<1>4. ASSUME NEW t \in Threads, evn_uninit(t) PROVE LineInv'
  BY <1>1, <1>4 DEF evn_uninit, CloseHandle
<1>5. CASE Delete \/ UNCHANGED vars
  BY <1>1, <1>5 DEF Delete, vars
<1>6. ASSUME NEW p \in Procs, Kill(p) PROVE LineInv'
  BY <1>6, LineKill
<1> QED BY <1>2, <1>3, <1>4, <1>5, <1>6 DEF Next

(* Of orderly programs nobody waits for the lock in vain, for any number   *)
(* of processes and threads and any terminations: the one it waits for is  *)
(* in the section with a handle to give the mutex back, once, and all who  *)
(* wait are in one line (CLog.cpp:305-335, 500-513).                       *)
THEOREM WaitsEnd == ASSUME Orderly PROVE Spec => []NobodyWaitsInVain
<1>1. Init => LineInv
  <2> SUFFICES ASSUME Init PROVE LineInv
    OBVIOUS
  <2>1. Waiters(at) = {} /\ ahead = {}
    BY DEF Init, Waiters
  <2> QED BY <2>1 DEF LineInv, InLine
<1>2. TypeInv /\ LineInv /\ [Next]_vars => LineInv'
  BY LineNext
<1>3. LockInv /\ LineInv => NobodyWaitsInVain
  <2> SUFFICES ASSUME LockInv, LineInv PROVE NobodyWaitsInVain
    OBVIOUS
  <2>1. ASSUME Waiters(at) # {} PROVE owner \in InSection /\ depth = 1 /\ handle[Home[owner]]
    <3>1. owner # NoOne
      BY <2>1 DEF LineInv
    <3>2. owner \in Threads /\ at[owner] \in Section /\ depth = 1 /\ kind[owner] = "line"
      BY <3>1 DEF LockInv, LockTypes, MutexInv
    <3> QED BY <3>2 DEF LockInv, MutexInv, Section, InSection
  <2> QED BY <2>1 DEF LineInv, InLine, NobodyWaitsInVain
<1>4. Init => LockInv
  BY LockInit
<1>5. LockInv /\ [Next]_vars => LockInv'
  BY LockStep
<1> QED BY <1>1, <1>2, <1>3, <1>4, <1>5, TypesCorrect, PTL DEF Spec

=============================================================================
