----------------------------- MODULE DriverLife -----------------------------
(***************************************************************************)
(* The life of the driver image: DriverEntry and DriverUnload              *)
(* (OpenSSLProxyDriver.c), the environment and the rule manager that they  *)
(* allocate and free (OpenSSLProxyEnvInit.c, OpenSSLProxyRule.c), what     *)
(* they register with the Windows Filtering Platform                       *)
(* (OpenSSLProxyCallout.c), and the classify callbacks that run meanwhile. *)
(*                                                                         *)
(* DriverEntry is a row of calls, each of which may fail.  What a call     *)
(* acquires goes into have; what the error path behind it gives back is    *)
(* Undone.  Nothing runs beside DriverEntry before the commit, after which *)
(* nothing fails, so an error path is one step.  DriverUnload is one step  *)
(* for each thing it gives back.                                           *)
(*                                                                         *)
(* Assumed of the system, which is not in the repository: a driver whose   *)
(* DriverEntry fails is removed from memory; one that was loaded is        *)
(* unloaded only if it has an unload routine and nobody has its device     *)
(* open; closing a dynamic session takes its objects and its transaction   *)
(* with it; FwpsCalloutUnregisterById starts no more callbacks and returns *)
(* when those in progress have ended.                                      *)
(*                                                                         *)
(* A definition Bug_X is X with a plausible mistake in it.  Nothing uses   *)
(* them; put in the place of X, each breaks the property that guards it.   *)
(***************************************************************************)
EXTENDS Integers, Sequences

CONSTANTS
    Threads,        \* threads that open connections and so run the callback
    MayFail,        \* the calls of DriverEntry that may fail
    Discipline      \* what whoever unloads the driver waits for: MayUnload

\* What DriverEntry calls, in order, down to the calls of RegisterCallouts.
Calls == <<"device", "link", "env", "rules", "engine", "txn", "sublayer",
           "redirect", "callout", "calloutobj", "filter", "commit">>

\* FwpsCalloutUnregisterById is not called
Bug_Releases == <<"rules", "env", "redirect", "engine", "link", "device">>

\* What DriverUnload gives back, in order; "callbacks" is the return of
\* FwpsCalloutUnregisterById.
Releases == <<"rules", "env", "redirect", "callout", "callbacks", "engine", "link", "device">>

\* A commit acquires nothing.
Resources == {Calls[k] : k \in DOMAIN Calls} \ {"commit"}

\* What lives as long as the session with the filter engine.
Session == {"engine", "txn", "sublayer", "calloutobj", "filter"}

ASSUME LifeAssumption ==
    /\ MayFail \subseteq Resources \cup {"commit"}
    /\ Discipline \in {"none", "disabled", "quiet"}

VARIABLES
    phase,      \* "absent", "loading", "running" or "unloading"
    i,          \* the call DriverEntry or DriverUnload makes next
    have,       \* what is acquired and not given back
    routines,   \* MajorFunction and DriverUnload are set
    enabled,    \* gConnectionRedirectEnable
    opened,     \* an application has the device open
    at          \* where each thread is in the callback

vars == <<phase, i, have, routines, enabled, opened, at>>

Out == [t \in Threads |-> "out"]

Init ==
    /\ phase = "absent" /\ i = 0 /\ have = {}
    /\ routines = FALSE /\ enabled = FALSE /\ opened = FALSE
    /\ at = Out

-----------------------------------------------------------------------------
(* DriverEntry.                                                            *)

\* The image is mapped, its globals have their initial values.
Load ==
    /\ phase = "absent" /\ at = Out
    /\ phase' = "loading" /\ i' = 1
    /\ routines' = FALSE /\ enabled' = FALSE
    /\ UNCHANGED <<have, opened, at>>

Calling(c) == phase = "loading" /\ i \in DOMAIN Calls /\ Calls[i] = c

Succeed(c) ==
    /\ Calling(c)
    /\ have' = IF c = "commit" THEN have \ {"txn"} ELSE have \cup {c}
    /\ i' = i + 1
    /\ UNCHANGED <<phase, routines, enabled, opened, at>>

\* DriverEntry's own error path behind RegisterCallouts, and what the exit of
\* RegisterCallouts and of ConnectionRedirectRegisterCallouts put before it.
EntryExit    == {"rules", "env", "link", "device"}
RegisterExit == {"redirect"} \cup Session \cup EntryExit

\* OpenSSLProxy_EnvUnInit forgotten
Bug_Undone(c) ==
    CASE c = "device" -> {}
      [] c = "link"   -> {"device"}
      [] c \in {"env", "rules"}         -> {"env", "link", "device"}
      [] c \in {"calloutobj", "filter"} -> {"callout"} \cup RegisterExit
      [] OTHER -> RegisterExit \ {"rules", "env"}

Undone(c) ==
    CASE c = "device" -> {}
      [] c = "link"   -> {"device"}
      [] c \in {"env", "rules"}         -> {"env", "link", "device"}
      [] c \in {"calloutobj", "filter"} -> {"callout"} \cup RegisterExit
      [] OTHER -> RegisterExit

\* What the system is told: the status of OpenSSLProxy_EnvInit is compared and
\* not kept, and the one returned is that of IoCreateSymbolicLink.
Bug_Reported(c) == c \notin {"env", "rules", "callout"}
Reported(c) == c \notin {"env", "rules"}

Fail(c) ==
    /\ Calling(c)
    /\ c \in MayFail
    /\ have' = have \ Undone(c)
    /\ phase' = IF Reported(c) THEN "absent" ELSE "running"
    /\ i' = 0
    /\ UNCHANGED <<routines, enabled, opened, at>>

SetRoutines ==
    /\ phase = "loading" /\ i = Len(Calls) + 1
    /\ routines' = TRUE
    /\ phase' = "running" /\ i' = 0
    /\ UNCHANGED <<have, enabled, opened, at>>

-----------------------------------------------------------------------------
(* The control application.                                                *)

Open ==
    /\ phase = "running" /\ routines /\ {"device", "link"} \subseteq have
    /\ opened' = TRUE
    /\ UNCHANGED <<phase, i, have, routines, enabled, at>>

\* DEVICE_IOCTL_MATCHENABLE and DEVICE_IOCTL_MATCHDISABLE
Switch ==
    /\ opened
    /\ enabled' \in BOOLEAN
    /\ UNCHANGED <<phase, i, have, routines, opened, at>>

Close ==
    /\ opened
    /\ opened' = FALSE
    /\ UNCHANGED <<phase, i, have, routines, enabled, at>>

-----------------------------------------------------------------------------
(* The classify callback.  OpenSSLProxy_RuleIsMatch is FALSE, so the       *)
(* callback touches nothing of the driver behind IsPortInRange.            *)

Classify(t) ==
    /\ at[t] = "out"
    /\ {"engine", "callout", "filter"} \subseteq have /\ "txn" \notin have
    /\ at' = [at EXCEPT ![t] = "entered"]
    /\ UNCHANGED <<phase, i, have, routines, enabled, opened>>

\* the switch not looked at
Bug_ReadSwitch(t) ==
    /\ at[t] = "entered"
    /\ at' = [at EXCEPT ![t] = "chosen"]
    /\ UNCHANGED <<phase, i, have, routines, enabled, opened>>

ReadSwitch(t) ==
    /\ at[t] = "entered"
    /\ at' = [at EXCEPT ![t] = IF enabled THEN "chosen" ELSE "out"]
    /\ UNCHANGED <<phase, i, have, routines, enabled, opened>>

\* No right to write, redirected before, no classify handle, no writable
\* data, reauthorized, or redirected too often.
GiveUp(t) ==
    /\ at[t] = "chosen"
    /\ at' = [at EXCEPT ![t] = "out"]
    /\ UNCHANGED <<phase, i, have, routines, enabled, opened>>

\* IsPortInRange: from &g_pstRuleMgrCtx->stResLock to the unlock.
Lookup(t) ==
    /\ at[t] = "chosen"
    /\ at' = [at EXCEPT ![t] = "inside"]
    /\ UNCHANGED <<phase, i, have, routines, enabled, opened>>

Return(t) ==
    /\ at[t] = "inside"
    /\ at' = [at EXCEPT ![t] = "out"]
    /\ UNCHANGED <<phase, i, have, routines, enabled, opened>>

-----------------------------------------------------------------------------
(* DriverUnload.                                                           *)

\* Nothing in the driver asks for more than "none".
MayUnload ==
    /\ routines /\ ~opened
    /\ Discipline \in {"disabled", "quiet"} => ~enabled
    /\ Discipline = "quiet" => at = Out

Unload ==
    /\ phase = "running"
    /\ MayUnload
    /\ phase' = "unloading" /\ i' = 1
    /\ UNCHANGED <<have, routines, enabled, opened, at>>

Release ==
    /\ phase = "unloading" /\ i \in DOMAIN Releases
    /\ Releases[i] = "callbacks" => at = Out
    /\ have' = have \ (IF Releases[i] = "engine" THEN Session ELSE {Releases[i]})
    /\ i' = i + 1
    /\ UNCHANGED <<phase, routines, enabled, opened, at>>

\* The unload routine returns and the image is unmapped.
Unmap ==
    /\ phase = "unloading" /\ i = Len(Releases) + 1
    /\ phase' = "absent" /\ i' = 0
    /\ UNCHANGED <<have, routines, enabled, opened, at>>

-----------------------------------------------------------------------------
Entry    == Load \/ SetRoutines \/ \E c \in Resources \cup {"commit"} : Succeed(c) \/ Fail(c)
Control  == Open \/ Switch \/ Close
Callback == \E t \in Threads : Classify(t) \/ ReadSwitch(t) \/ GiveUp(t) \/ Lookup(t) \/ Return(t)
Leave    == Unload \/ Release \/ Unmap

Next == Entry \/ Control \/ Callback \/ Leave

Spec == Init /\ [][Next]_vars

-----------------------------------------------------------------------------
(* Every variable has its type; what is acquired is one of the resources.  *)
TypeOK ==
    /\ phase \in {"absent", "loading", "running", "unloading"}
    /\ i \in 0 .. (Len(Calls) + 1)
    /\ have \subseteq Resources
    /\ routines \in BOOLEAN /\ enabled \in BOOLEAN /\ opened \in BOOLEAN
    /\ at \in [Threads -> {"out", "entered", "chosen", "inside"}]

(* A driver that is not in memory, or that gave up in DriverEntry, holds   *)
(* nothing: every error path gives back all that was acquired before it,   *)
(* and so does DriverUnload (Driver.c:76-116, Callout.c:341-452).          *)
NothingLeaks == phase = "absent" \/ (phase = "running" /\ ~routines) => have = {}

(* While a callout is registered or a callback runs, its code is in memory *)
(* (Callout.c:299, 343-351, 469-472).                                      *)
CodeBehindCallout == "callout" \in have \/ at # Out => phase # "absent"

(* A callback inside IsPortInRange has a rule manager under it: neither    *)
(* does the filter go active too early nor are the rules freed too soon    *)
(* (Driver.c:34-36, 98-107, Callout.c:159).                                *)
RulesOutliveReaders == (\E t \in Threads : at[t] = "inside") => "rules" \in have

(* A driver the system takes for loaded is complete: "DriverLoad           *)
(* successful" (Driver.c:127).                                             *)
LoadedMeansReady ==
    phase = "running" => routines /\ have = Resources \ {"txn"}

=============================================================================
