------------------------------ MODULE Classify ------------------------------
(***************************************************************************)
(* OpenSSLProxy_ConnectionRedirectClassify (OpenSSLProxyCallout.c): what   *)
(* the driver does with one connection, each time the filtering platform   *)
(* asks it: at the connect, and again, above all when another filter has   *)
(* modified what the driver let through.                                   *)
(*                                                                         *)
(* The chain of earlier versions of the request (previousVersion) is kept  *)
(* as the two things the code looks at: who made the newest of them, and   *)
(* how many are the driver's own, counted up to Cap.                       *)
(*                                                                         *)
(* Assumed of the platform: it hands a decision of another filter on, with *)
(* or without the right to change it; FwpsApplyModifiedLayerData adds a    *)
(* version; a blocked connection is not asked about again; it reauthorises *)
(* only what somebody has modified, so that there is a previousVersion,    *)
(* through which the code looks untested then (Callout.c:128-130).         *)
(*                                                                         *)
(* A definition Bug_X is X with a plausible mistake in it.  Nothing uses   *)
(* them; put in the place of X, each breaks the property that guards it.   *)
(***************************************************************************)
EXTENDS Integers

CONSTANTS
    Limit,      \* how many versions of its own the driver puts up with: 3
    Cap,        \* own versions are counted up to here
    Enabling    \* the values that programs give gConnectionRedirectEnable

ASSUME ClassifyAssumption ==
    /\ Limit \in Nat /\ Cap \in Nat /\ Cap > Limit + 2
    /\ Enabling \subseteq BOOLEAN /\ Enabling # {}

VARIABLES
    enabled,    \* gConnectionRedirectEnable
    pc,         \* "idle", a place in the callback, "returned" or "settled"
    record,     \* FwpsQueryConnectionRedirectState, or none if there is no record
    reauth,     \* FWP_CONDITION_FLAG_IS_REAUTHORIZE
    newest,     \* who made the newest earlier version
    own,        \* how many earlier versions are the driver's
    write,      \* classifyOut->rights has FWPS_RIGHT_ACTION_WRITE
    action,     \* classifyOut->actionType
    found,      \* the last two as the platform passed them
    status,     \* Status is STATUS_SUCCESS
    handle,     \* ClassifyHandle
    data        \* WriteableLayerData

vars == <<enabled, pc, record, reauth, newest, own, write, action, found, status, handle, data>>

request == <<record, reauth, newest, own, found>>
out     == <<write, action>>
got     == <<status, handle, data>>

Records == {"none", "not_redirected", "by_other", "by_self", "previously_by_self"}
Actions == {"none", "permit", "block"}

Init ==
    /\ enabled \in Enabling
    /\ pc = "idle"
    /\ record = "none" /\ reauth = FALSE
    /\ newest \in {"nobody", "other"} /\ own = 0
    /\ write = TRUE /\ action = "none" /\ found = [write |-> TRUE, action |-> "none"]
    /\ status = TRUE /\ handle = FALSE /\ data = FALSE

Goto(l) == pc' = l

-----------------------------------------------------------------------------
(* The platform, the other filters and the control application.            *)

Ask(again) ==
    /\ record' \in Records
    /\ reauth' = again
    /\ write' \in BOOLEAN
    /\ action' \in IF write' THEN {"none"} ELSE {"permit", "block"}
    /\ found' = [write |-> write', action |-> action']
    /\ status' = TRUE /\ handle' = FALSE /\ data' = FALSE
    /\ Goto("gate")

Connect == pc = "idle" /\ Ask(FALSE) /\ UNCHANGED <<enabled, newest, own>>

\* Another filter modifies what the driver let through: the driver asked for
\* this with FWPS_CLASSIFY_FLAG_REAUTHORIZE_IF_MODIFIED_BY_OTHERS.
OtherModifies ==
    /\ pc = "returned" /\ action # "block" /\ newest = "self"
    /\ newest' = "other"
    /\ Ask(TRUE)
    /\ UNCHANGED <<enabled, own>>

Settle ==
    /\ pc = "returned"
    /\ Goto("settled")
    /\ UNCHANGED <<enabled, request, out, got>>

\* The platform asks once more about a version of the driver's own.
AskAgain ==
    /\ pc = "settled" /\ action # "block" /\ newest = "self"
    /\ Ask(TRUE)
    /\ UNCHANGED <<enabled, newest, own>>

Switch == enabled' \in Enabling /\ UNCHANGED <<pc, request, out, got>>

-----------------------------------------------------------------------------
(* The callback.                                                           *)

Gate ==
    /\ pc = "gate"
    /\ Goto(IF ~enabled \/ ~write THEN "exit" ELSE "record")
    /\ UNCHANGED <<enabled, request, out, got>>

RedirectState ==
    /\ pc = "record"
    /\ action' = IF record = "by_self" THEN "permit" ELSE action
    /\ Goto(IF record \in {"by_self", "previously_by_self"} THEN "exit" ELSE "handle")
    /\ UNCHANGED <<enabled, request, write, got>>

TakeHandle ==
    /\ pc = "handle"
    /\ handle' \in BOOLEAN
    /\ status' = handle'
    /\ Goto(IF handle' THEN "data" ELSE "exit")
    /\ UNCHANGED <<enabled, request, out, data>>

\* return for goto Exit
Bug_TakeData ==
    /\ pc = "data"
    /\ data' \in BOOLEAN
    /\ status' = data'
    /\ Goto(IF data' THEN "reauth" ELSE "returned")
    /\ UNCHANGED <<enabled, request, out, handle>>

TakeData ==
    /\ pc = "data"
    /\ data' \in BOOLEAN
    /\ status' = data'
    /\ Goto(IF data' THEN "reauth" ELSE "exit")
    /\ UNCHANGED <<enabled, request, out, handle>>

\* ^= for |=
Bug_Reauthorize ==
    /\ pc = "reauth"
    /\ IF reauth /\ newest = "self"
       THEN action' = "permit" /\ write' = ~write /\ Goto("exit")
       ELSE UNCHANGED out /\ Goto("count")
    /\ UNCHANGED <<enabled, request, got>>

Reauthorize ==
    /\ pc = "reauth"
    /\ IF reauth /\ newest = "self"
       THEN action' = "permit" /\ write' = TRUE /\ Goto("exit")
       ELSE UNCHANGED out /\ Goto("count")
    /\ UNCHANGED <<enabled, request, got>>

\* only the newest version looked at
Bug_Count ==
    /\ pc = "count"
    /\ LET times == IF newest = "self" THEN 1 ELSE 0
       IN  status' = (status /\ times <= Limit)
    /\ Goto(IF status' THEN "match" ELSE "exit")
    /\ UNCHANGED <<enabled, request, out, handle, data>>

Count ==
    /\ pc = "count"
    /\ status' = (status /\ own <= Limit)
    /\ Goto(IF status' THEN "match" ELSE "exit")
    /\ UNCHANGED <<enabled, request, out, handle, data>>

\* In the whitelist or not, OpenSSLProxy_RuleIsMatch is FALSE: nothing is redirected.
Match ==
    /\ pc = "match"
    /\ Goto("exit")
    /\ UNCHANGED <<enabled, request, out, got>>

Exit ==
    /\ pc = "exit"
    /\ action' = IF status THEN "permit" ELSE "block"
    /\ write' = ~write
    /\ IF data
       THEN newest' = "self" /\ own' = IF own < Cap THEN own + 1 ELSE own
       ELSE UNCHANGED <<newest, own>>
    /\ data' = FALSE
    /\ handle' = FALSE
    /\ Goto("returned")
    /\ UNCHANGED <<enabled, record, reauth, found, status>>

-----------------------------------------------------------------------------
Callback == \/ Gate \/ RedirectState \/ TakeHandle \/ TakeData
            \/ Reauthorize \/ Count \/ Match \/ Exit
Platform == Connect \/ OtherModifies \/ Settle \/ AskAgain

Next == Callback \/ Platform \/ Switch

Spec == Init /\ [][Next]_vars

(* A callback runs to its end, and the platform settles a connection that  *)
(* nobody modifies any more; nobody has to modify, connect or switch.      *)
FairSpec == Spec /\ WF_vars(Callback) /\ WF_vars(Settle)

-----------------------------------------------------------------------------
Places == {"gate", "record", "handle", "data", "reauth", "count", "match", "exit"}

(* Every variable has its type. *)
TypeOK ==
    /\ enabled \in BOOLEAN
    /\ pc \in {"idle", "returned", "settled"} \cup Places
    /\ record \in Records /\ reauth \in BOOLEAN
    /\ newest \in {"nobody", "other", "self"} /\ own \in 0 .. Cap
    /\ write \in BOOLEAN /\ action \in Actions
    /\ found \in [write : BOOLEAN, action : Actions]
    /\ status \in BOOLEAN /\ handle \in BOOLEAN /\ data \in BOOLEAN

(* A decision the driver was allowed to take is final: on every path it    *)
(* gives up the right it was passed, although it does so by ^= and one     *)
(* path sets the right before (Callout.c:126-136, 204).                    *)
WriteGivenUp == pc = "returned" /\ found.write => ~write

(* Whatever was acquired is given back, on every path (Callout.c:106-124,  *)
(* 206-216).                                                               *)
HandlesGivenBack == pc \in {"idle", "returned", "settled"} => ~handle /\ ~data

(* A fight with another redirecting filter is given up: what another one   *)
(* has changed is blocked once it carries more than Limit versions of the  *)
(* driver's own, however it came to carry them (Callout.c:138-150, 197).   *)
FightGivenUp ==
    [][pc = "exit" /\ pc' = "returned" /\ data /\ newest = "other" /\ own > Limit
          => action' = "block"]_vars

(* A decision that the driver has no right to write stays as it was found: *)
(* "Action not write!" (Callout.c:63-66).                                  *)
DecisionKept == pc = "returned" /\ ~found.write => action = found.action

(* Every connection the platform asks about is settled, even if another    *)
(* filter answers every version of the driver's with one of its own        *)
(* (Callout.c:138-150).                                                    *)
Settles == pc = "gate" ~> pc = "settled"

(* A fight comes closer to its end with every round: whenever the driver   *)
(* answers another filter with a version of its own, either that is one    *)
(* more of the versions it puts up with, or it blocks (Callout.c:138-150,  *)
(* 195-216).                                                               *)
FightAdvances ==
    [][newest = "other" /\ newest' = "self"
          => \/ own <= Limit /\ own' = own + 1
             \/ action' = "block"]_vars

=============================================================================
