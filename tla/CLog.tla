------------------------------- MODULE CLog -------------------------------
(***************************************************************************)
(* The log file that the user programs share (common/CLog.cpp): threads of *)
(* several processes append lines to one file, one at a time by a named    *)
(* mutex, and each call first sees to it that the file is there.           *)
(*                                                                         *)
(* The system's part, as the calls use it: a file that is open for writing *)
(* is not shared (fopen_s), CREATE_ALWAYS empties a file that exists, a    *)
(* mutex whose owner dies is released, its owner may take it again,        *)
(* WaitForSingleObject and ReleaseMutex of a null handle fail at once.     *)
(* The wait's result is not looked at.                                     *)
(*                                                                         *)
(* Assumed, and documented nowhere: a released mutex goes to the one that  *)
(* waits longest.  WaitsEnd needs it; LogReturns does not as long as the   *)
(* calls are bounded.                                                      *)
(*                                                                         *)
(* A line is the thread and the number of its call.  Left out: the text,   *)
(* the directory, and the failures of CreateMutex and of the disk.         *)
(*                                                                         *)
(* A definition Bug_X is X with a plausible mistake in it.  Nothing uses   *)
(* them; put in the place of X, each breaks the property that guards it.   *)
(***************************************************************************)
EXTENDS Naturals, Sequences, Functions

CONSTANTS
    Procs,          \* processes
    Threads,        \* their threads
    Home,           \* the process of each thread
    NoOne,          \* the owner of a free mutex
    Orderly,        \* programs initialise before they log, and do not log
                    \* while or after they give up the log
    MaxCalls,       \* bound: calls of a thread
    MaxDeletes,     \* bound: deletions of the file from outside
    MaxKills        \* bound: terminations of a process

ASSUME LogAssumption ==
    /\ Home \in [Threads -> Procs]
    /\ NoOne \notin Threads
    /\ Orderly \in BOOLEAN
    /\ MaxCalls \in Nat /\ MaxDeletes \in Nat /\ MaxKills \in Nat

VARIABLES
    present,    \* the file exists
    lines,      \* what is in it
    named,      \* g_acCurLogFile is set, in each process
    handle,     \* g_pMutexhandle is not NULL, in each process
    owner,      \* of the mutex
    depth,      \* how often its owner has taken it
    ahead,      \* who waits for it longer than whom
    at,         \* where each thread is in its call
    kind,       \* the call: evn_init, a line, one that is too long to print
    calls,      \* how many calls each thread has begun
    said,       \* the lines whose calls have returned
    deletes,    \* how often the file was deleted
    kills       \* how many processes were terminated

file  == <<present, lines>>
mutex == <<owner, depth, ahead>>
vars  == <<file, named, handle, mutex, at, kind, calls, said, deletes, kills>>

Init ==
    /\ present \in BOOLEAN /\ lines = <<>>
    /\ named = [p \in Procs |-> FALSE]
    /\ handle = [p \in Procs |-> FALSE]
    /\ owner = NoOne /\ depth = 0 /\ ahead = {}
    /\ at = [t \in Threads |-> "idle"]
    /\ kind = [t \in Threads |-> "init"]
    /\ calls = [t \in Threads |-> 0]
    /\ said = {}
    /\ deletes = IF present THEN 0 ELSE 1
    /\ kills = 0

Fellows(t) == {u \in Threads : Home[u] = Home[t]}
Line(t)    == <<t, calls[t]>>

\* The threads that have the file open.
Writers  == {t \in Threads : at[t] = "opened"}
Creators == {t \in Threads : at[t] = "created"}

Waiters(where) == {t \in Threads : where[t] = "waiting"}

Go(t, where) == at' = [at EXCEPT ![t] = where]

Return(t) ==
    /\ Go(t, "idle")
    /\ said' = IF kind[t] = "line" THEN said \cup {Line(t)} ELSE said

Begin(t, what, where) ==
    /\ at[t] = "idle" /\ calls[t] < MaxCalls
    /\ kind' = [kind EXCEPT ![t] = what]
    /\ calls' = [calls EXCEPT ![t] = @ + 1]
    /\ Go(t, where)

-----------------------------------------------------------------------------
(* The calls.                                                              *)

evn_init(t) ==
    /\ Orderly => \A u \in Fellows(t) : at[u] = "idle"
    /\ Begin(t, "init", "check")
    /\ UNCHANGED <<file, named, handle, mutex, said, deletes, kills>>

\* CLOG_writelog, and CLOG_writelog_level with a level that is printed.
writelog(t, what) ==
    /\ Orderly => /\ named[Home[t]] => handle[Home[t]]
                  /\ \A u \in Fellows(t) : at[u] # "idle" => kind[u] # "init"
    /\ Begin(t, what, IF named[Home[t]] THEN "check" ELSE "idle")
    /\ UNCHANGED <<file, named, handle, mutex, said, deletes, kills>>

\* A level that is not printed.
writelog_quiet(t) ==
    /\ Begin(t, "long", "idle")
    /\ UNCHANGED <<file, named, handle, mutex, said, deletes, kills>>

\* The mutex goes with its last handle.
CloseHandle(p, where) ==
    IF Waiters(where) = {} /\ \A other \in Procs \ {p} : ~handle[other]
    THEN owner' = NoOne /\ depth' = 0
    ELSE UNCHANGED <<owner, depth>>

evn_uninit(t) ==
    /\ at[t] = "idle" /\ handle[Home[t]]
    /\ Orderly => \A u \in Fellows(t) : at[u] = "idle"
    /\ handle' = [handle EXCEPT ![Home[t]] = FALSE]
    /\ CloseHandle(Home[t], at)
    /\ UNCHANGED <<file, named, ahead, at, kind, calls, said, deletes, kills>>

-----------------------------------------------------------------------------
(* The steps of a call.                                                    *)

\* With the file in place: a text that is too long is not printed.
Proceed(t) ==
    CASE kind[t] = "init" -> Go(t, "name") /\ UNCHANGED said
      [] kind[t] = "long" -> Return(t)
      [] kind[t] = "line" -> Go(t, "lock") /\ UNCHANGED said

FileIsExist(t) ==
    /\ at[t] = "check"
    /\ IF present THEN Proceed(t) ELSE Go(t, "create") /\ UNCHANGED said
    /\ UNCHANGED <<file, named, handle, mutex, kind, calls, deletes, kills>>

\* A handle that could not be had is not NULL; the file's size gives it away.
FileIsCreate(t) ==
    /\ at[t] = "create"
    /\ IF Writers = {}
       THEN present' = TRUE /\ lines' = <<>> /\ Go(t, "created") /\ UNCHANGED said
       ELSE UNCHANGED file /\ Return(t)
    /\ UNCHANGED <<named, handle, mutex, kind, calls, deletes, kills>>

CloseCreated(t) ==
    /\ at[t] = "created"
    /\ Proceed(t)
    /\ UNCHANGED <<file, named, handle, mutex, kind, calls, deletes, kills>>

SetName(t) ==
    /\ at[t] = "name"
    /\ named' = [named EXCEPT ![Home[t]] = TRUE]
    /\ Go(t, "mutex")
    /\ UNCHANGED <<file, handle, mutex, kind, calls, said, deletes, kills>>

CreateMutex(t) ==
    /\ at[t] = "mutex"
    /\ handle' = [handle EXCEPT ![Home[t]] = TRUE]
    /\ Return(t)
    /\ UNCHANGED <<file, named, mutex, kind, calls, deletes, kills>>

\* nobody waited for
Bug_FileLock(t) ==
    /\ at[t] = "lock"
    /\ owner' = IF owner = NoOne THEN t ELSE owner
    /\ depth' = IF owner \in {NoOne, t} THEN depth + 1 ELSE depth
    /\ Go(t, "enter")
    /\ UNCHANGED <<file, named, handle, ahead, kind, calls, said, deletes, kills>>

FileLock(t) ==
    /\ at[t] = "lock"
    /\ \/ ~handle[Home[t]] /\ Go(t, "enter") /\ UNCHANGED mutex
       \/ /\ handle[Home[t]] /\ owner \in {NoOne, t}
          /\ owner' = t /\ depth' = depth + 1
          /\ Go(t, "enter") /\ UNCHANGED ahead
       \/ /\ handle[Home[t]] /\ owner \notin {NoOne, t}
          /\ ahead' = ahead \cup (Waiters(at) \X {t})
          /\ Go(t, "waiting") /\ UNCHANGED <<owner, depth>>
    /\ UNCHANGED <<file, named, handle, kind, calls, said, deletes, kills>>

\* the lock forgotten
Bug_Fopen(t) ==
    /\ at[t] = "enter"
    /\ IF Writers \cup Creators = {}
       THEN present' = TRUE /\ Go(t, "opened") /\ UNCHANGED <<lines, said>>
       ELSE Return(t) /\ UNCHANGED file
    /\ UNCHANGED <<named, handle, mutex, kind, calls, deletes, kills>>

Fopen(t) ==
    /\ at[t] = "enter"
    /\ IF Writers \cup Creators = {}
       THEN present' = TRUE /\ Go(t, "opened")
       ELSE Go(t, "unlock") /\ UNCHANGED present
    /\ UNCHANGED <<lines, named, handle, mutex, kind, calls, said, deletes, kills>>

Fclose(t) ==
    /\ at[t] = "opened"
    /\ lines' = Append(lines, Line(t))
    /\ Go(t, "unlock")
    /\ UNCHANGED <<present, named, handle, mutex, kind, calls, said, deletes, kills>>

\* The mutex is given to the one that waits longest, as assumed above; where
\* are the places of the threads otherwise.
Pass(where) ==
    \/ /\ Waiters(where) = {}
       /\ owner' = NoOne /\ depth' = 0 /\ ahead' = {} /\ at' = where
    \/ \E t \in Waiters(where) :
          /\ \A u \in Waiters(where) : <<u, t>> \notin ahead
          /\ owner' = t /\ depth' = 1
          /\ ahead' = {w \in ahead : w[1] # t /\ w[2] # t /\ w[1] \in Waiters(where)
                                      /\ w[2] \in Waiters(where)}
          /\ at' = [where EXCEPT ![t] = "enter"]

FileUnLock(t) ==
    /\ at[t] = "unlock"
    /\ said' = said \cup {Line(t)}
    /\ IF handle[Home[t]] /\ owner = t
       THEN IF depth = 1 THEN Pass([at EXCEPT ![t] = "idle"])
            ELSE depth' = depth - 1 /\ Go(t, "idle") /\ UNCHANGED <<owner, ahead>>
       ELSE Go(t, "idle") /\ UNCHANGED mutex
    /\ UNCHANGED <<file, named, handle, kind, calls, deletes, kills>>

-----------------------------------------------------------------------------
(* Others.                                                                 *)

Delete ==
    /\ present /\ Writers \cup Creators = {}
    /\ deletes < MaxDeletes
    /\ present' = FALSE /\ lines' = <<>>
    /\ deletes' = deletes + 1
    /\ UNCHANGED <<named, handle, mutex, at, kind, calls, said, kills>>

\* A process is terminated, and started again later.  What it was writing is
\* in the file or is not.
Kill(p) ==
    LET victims == {t \in Threads : Home[t] = p}
        here    == [t \in Threads |-> IF t \in victims THEN "idle" ELSE at[t]]
    IN  /\ kills < MaxKills
        /\ kills' = kills + 1
        /\ named' = [named EXCEPT ![p] = FALSE]
        /\ handle' = [handle EXCEPT ![p] = FALSE]
        /\ IF owner \in victims THEN Pass(here)
           ELSE /\ at' = here /\ CloseHandle(p, here)
                /\ ahead' = {w \in ahead : w[1] \notin victims /\ w[2] \notin victims}
        /\ \/ UNCHANGED lines
           \/ \E t \in victims \cap Writers : lines' = Append(lines, Line(t))
        /\ UNCHANGED <<present, kind, calls, said, deletes>>

-----------------------------------------------------------------------------
Step(t) ==
    \/ FileIsExist(t) \/ FileIsCreate(t) \/ CloseCreated(t)
    \/ SetName(t) \/ CreateMutex(t)
    \/ FileLock(t) \/ Fopen(t) \/ Fclose(t) \/ FileUnLock(t)

Next ==
    \/ \E t \in Threads :
          \/ Step(t) \/ evn_init(t) \/ evn_uninit(t) \/ writelog_quiet(t)
          \/ \E what \in {"line", "long"} : writelog(t, what)
    \/ Delete
    \/ \E p \in Procs : Kill(p)

Spec == Init /\ [][Next]_vars

(* A thread in a call runs on; whether it makes another is its affair.     *)
FairSpec == Spec /\ \A t \in Threads : WF_vars(Step(t))

-----------------------------------------------------------------------------
InSection == {t \in Threads : at[t] \in {"enter", "opened", "unlock"}}

(* Every variable has its type, and only a line that fits comes to the     *)
(* lock.                                                                   *)
TypeOK ==
    /\ present \in BOOLEAN
    /\ lines \in Seq(Threads \X Nat)
    /\ named \in [Procs -> BOOLEAN] /\ handle \in [Procs -> BOOLEAN]
    /\ owner \in Threads \cup {NoOne}
    /\ depth \in Nat /\ ahead \subseteq Threads \X Threads
    /\ at \in [Threads -> {"idle", "check", "create", "created", "name", "mutex", "lock",
                           "waiting", "enter", "opened", "unlock"}]
    /\ kind \in [Threads -> {"init", "line", "long"}]
    /\ \A t \in Threads : at[t] \in {"lock", "waiting", "enter", "opened", "unlock"} =>
                              kind[t] = "line"
    /\ calls \in [Threads -> Nat]
    /\ said \subseteq Threads \X Nat
    /\ deletes \in Nat /\ kills \in Nat

(* The lock is a lock: whoever is between CLOG_FileLock and                *)
(* CLOG_FileUnLock owns the mutex, in whatever process, and also when an   *)
(* owner was terminated (CLog.cpp:305-313, 388-399, 500-513).              *)
HolderAlone == \A t \in InSection : owner = t

(* As long as the file is there from the start and nobody deletes it, no   *)
(* line is lost: the line of every call that returned is in the file,      *)
(* whatever processes write and are terminated.  Without the lock a call   *)
(* finds the file in use and gives its line up (CLog.cpp:390-394).         *)
LinesKept == deletes = 0 => said \subseteq Range(lines)

(* Nobody waits for the lock in vain: its owner is in the section, has to  *)
(* give it back once and has the handle to do so, and those that wait      *)
(* stand in one line, so that everybody's turn comes, also when processes  *)
(* are terminated in the line or at its head (CLog.cpp:305-335, 500-513).  *)
NobodyWaitsInVain ==
    LET queue == Waiters(at)
    IN  /\ queue # {} => owner \in InSection /\ depth = 1 /\ handle[Home[owner]]
        /\ ahead \subseteq queue \X queue
        /\ \A t, u \in queue : t # u => (<<t, u>> \in ahead <=> <<u, t>> \notin ahead)
        /\ \A t, u, v \in queue : <<t, u>> \in ahead /\ <<u, v>> \in ahead => <<t, v>> \in ahead
        /\ \A t \in queue : <<t, t>> \notin ahead

(* Every call of a thread ends, although the file is deleted or a process  *)
(* is terminated in the middle of its own call (CLog.cpp:340-515).         *)
LogReturns == \A t \in Threads : at[t] # "idle" ~> at[t] = "idle"

(* A file that was deleted is created again, "被删除了，就再重新创建一个"   *)
(* (CLog.cpp:369, 450): only a file that is not there, that is, creation   *)
(* empties no file that holds lines.                                       *)
CreatesOnlyWhatIsMissing ==
    [][\A t \in Threads : FileIsCreate(t) => lines = <<>>]_vars

=============================================================================
