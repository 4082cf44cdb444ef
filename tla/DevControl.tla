----------------------------- MODULE DevControl -----------------------------
(***************************************************************************)
(* The way from a program to the driver and back: the driver control       *)
(* library of the local proxy (OpensslProxyDrvCtrl), the device, and the   *)
(* driver's dispatcher of I/O-control requests (OpenSSLProxyDevControl.c)  *)
(* over the rule manager, the source-port whitelist and the proxy's PID    *)
(* and port (OpenSSLProxyEnvInit.c).                                       *)
(*                                                                         *)
(* The rule manager is the one of RuleStore: an add, a clear and an access *)
(* to the whitelist are one step, a remove is begun in one step and over   *)
(* in another.  RuleMgr implements it as long as one program at most       *)
(* removes rules (SingleRemover there); with more of them its removes may  *)
(* do what no action of RuleStore allows, and so may the driver.           *)
(*                                                                         *)
(* The library sends two of the codes of DevControlDefine.h; the others    *)
(* are sent by whoever includes that file.                                 *)
(*                                                                         *)
(* Assumed of the system: every program may open the device, which is not  *)
(* exclusive; a driver is unloaded only when no handle to its device is    *)
(* open; a program that is killed goes away, with its handles, as soon as  *)
(* its request is completed, and not before.  Assumed of a program: it     *)
(* makes one call of the library at a time, which nothing in the library   *)
(* enforces (DeviceIoCtrl.cpp:19-49).                                      *)
(*                                                                         *)
(* A definition Bug_X is X with a plausible mistake in it.  Nothing uses   *)
(* them; put in the place of X, each breaks the property that guards it.   *)
(***************************************************************************)
EXTENDS Integers

CONSTANTS
    Procs,          \* the programs
    MayIssue,       \* the requests each program makes
    Careful,        \* programs remove only rules that are there
    Entries,        \* RULE_INFO_ENTRY blocks
    Addresses,      \* uiRuleIPAddr values
    Ports,          \* uiRulePort values, UINT32
    PortMod,        \* the range of a USHORT: 2^16
    Proxies,        \* [pid, port] pairs passed as the local proxy
    Ranges,         \* [lo, hi] pairs passed as a port range
    MaxPort         \* OPENSSLPROXY_MAXPORT

Codes == {"enable", "disable", "add", "remove", "setproxy", "clear", "typeclear",
          "setrange", "getrange", "unknown"}

ASSUME ControlAssumption ==
    /\ MayIssue \in [Procs -> SUBSET Codes]
    /\ Careful \in BOOLEAN
    /\ PortMod \in Nat \ {0} /\ Ports \subseteq Nat
    /\ Addresses \subseteq Nat
    /\ Proxies \subseteq [pid : Nat, port : Nat]
    /\ MaxPort \in Nat \ {0} /\ Ranges \subseteq [lo : Nat, hi : Nat]

\* (USHORT): what is left of a UINT32 port.
Short(p) == p % PortMod

Rules   == [ip : Addresses, port : {Short(p) : p \in Ports}]
AnyRule == [ip : Addresses, port : Ports] \cup Rules
NoRule  == [ip |-> 0, port |-> 0]
NoRange == [lo |-> 0, hi |-> 0]
NoProxy == [pid |-> 0, port |-> 0]

\* The kind decides the list a rule is kept in.
KindOf(r) == IF r.ip = 0 THEN "IPADDR" ELSE IF r.port = 0 THEN "PORT" ELSE "IPPORT"
Kinds     == {"IPPORT", "PORT", "IPADDR"}

\* A request: its code, whether it comes with the buffer that the code asks
\* for, and what the buffer holds.
RuleRequests  == [code : {"add", "remove"}, fits : {TRUE},
                  rule : [ip : Addresses, port : Ports]]
ProxyRequests == [code : {"setproxy"}, fits : {TRUE}, proxy : Proxies]
RangeRequests == [code : {"setrange"}, fits : {TRUE}, range : Ranges]
BareRequests  == [code : Codes \ {"add", "remove", "setproxy", "setrange"}, fits : {TRUE}]
Misfits       == [code : {"add", "remove", "setproxy", "setrange", "getrange"}, fits : {FALSE}]
Requests == RuleRequests \cup ProxyRequests \cup RangeRequests \cup BareRequests \cup Misfits

NoRequest == [code |-> "unknown", fits |-> TRUE]

Shortened(rule) == [rule EXCEPT !.port = Short(@)]

VARIABLES
    loaded,     \* the driver is loaded, its device exists
    enabled,    \* gConnectionRedirectEnable
    stored,     \* the rules, by the block that holds them
    asked,      \* the rule each program waits to be rid of
    range,      \* stSrcPortRange
    proxy,      \* ulLocalProxyPID and usLocalPort
    lib,        \* g_pstDevIoCtrl of each program, "closed" without a handle
    handles,    \* how many handles to the device each program has
    killed,     \* the programs that are being terminated
    at,         \* where the request of each program is
    req,        \* that request, NoRequest between requests
    status,     \* IoStatus->Status of its last one
    inner       \* Status: what the function called by the dispatcher returned

Store == INSTANCE RuleStore WITH
             Threads <- Procs, Kind <- [r \in AnyRule |-> KindOf(r)]

driver == <<enabled, stored, asked, range, proxy>>
client == <<lib, handles, killed>>
irp    == <<at, req, status, inner>>
vars   == <<loaded, driver, client, irp>>

Fresh ==
    /\ enabled = FALSE
    /\ Store!Init
    /\ range = NoRange
    /\ proxy = NoProxy

Init ==
    /\ loaded = FALSE
    /\ Fresh
    /\ lib = [p \in Procs |-> "null"]
    /\ handles = [p \in Procs |-> 0]
    /\ killed = {}
    /\ at = [p \in Procs |-> "idle"]
    /\ req = [p \in Procs |-> NoRequest]
    /\ status = [p \in Procs |-> "success"]
    /\ inner = [p \in Procs |-> "success"]

-----------------------------------------------------------------------------
(* The system loads and unloads the driver.                                *)

\* DriverEntry, succeeded.  One in which EnvInit failed deletes the device
\* again (Driver.c:98-104), so that no request meets a context that is NULL.
Load ==
    /\ ~loaded
    /\ loaded' = TRUE
    /\ UNCHANGED <<driver, client, irp>>

\* DriverUnload and the loss of the image's data.
Unload ==
    /\ loaded /\ \A p \in Procs : handles[p] = 0
    /\ loaded' = FALSE
    /\ enabled' = FALSE /\ range' = NoRange /\ proxy' = NoProxy
    /\ Store!Clear(Kinds)
    /\ UNCHANGED <<client, irp>>

-----------------------------------------------------------------------------
(* The library.                                                            *)

\* One call of a program at a time.
Free(p) == p \notin killed /\ at[p] = "idle"

\* the object not looked at
Bug_EnvLibInit(p) ==
    /\ Free(p) /\ handles[p] < 2
    /\ lib' = [lib EXCEPT ![p] = IF loaded THEN "open" ELSE "closed"]
    /\ handles' = [handles EXCEPT ![p] = IF loaded THEN @ + 1 ELSE @]
    /\ UNCHANGED <<loaded, driver, killed, irp>>

\* An object that could not open the device stays.
EnvLibInit(p) ==
    /\ Free(p) /\ lib[p] = "null"
    /\ lib' = [lib EXCEPT ![p] = IF loaded THEN "open" ELSE "closed"]
    /\ handles' = [handles EXCEPT ![p] = IF loaded THEN @ + 1 ELSE @]
    /\ UNCHANGED <<loaded, driver, killed, irp>>

EnvLibUnInit(p) ==
    /\ Free(p) /\ lib[p] # "null"
    /\ lib' = [lib EXCEPT ![p] = "null"]
    /\ handles' = [handles EXCEPT ![p] = IF lib[p] = "open" THEN @ - 1 ELSE @]
    /\ UNCHANGED <<loaded, driver, killed, irp>>

\* DeviceIoControl on the library's handle.
Send(p, r) ==
    /\ Free(p) /\ lib[p] = "open"
    /\ r.code \in MayIssue[p]
    /\ Careful /\ r.code = "remove" /\ r.fits =>
          \E e \in DOMAIN stored : stored[e] = Shortened(r.rule)
    /\ at' = [at EXCEPT ![p] = "dispatch"]
    /\ req' = [req EXCEPT ![p] = r]
    /\ UNCHANGED <<loaded, driver, client, status, inner>>

-----------------------------------------------------------------------------
(* DeviceIoControl in the driver: the outcome goes to the program from     *)
(* IoStatus->Status, which only the checks of the buffer change.           *)

Complete(p, told, was) ==
    /\ at' = [at EXCEPT ![p] = "idle"]
    /\ status' = [status EXCEPT ![p] = told]
    /\ inner' = [inner EXCEPT ![p] = was]
    /\ req' = [req EXCEPT ![p] = NoRequest]

Dispatching(p, code) == at[p] = "dispatch" /\ req[p].code = code /\ req[p].fits

Refuse(p) ==
    /\ at[p] = "dispatch" /\ (req[p].code = "unknown" \/ ~req[p].fits)
    /\ Complete(p, "invalid", "success")
    /\ UNCHANGED <<loaded, driver, client>>

MatchEnable(p) ==
    /\ Dispatching(p, "enable")
    /\ enabled' = TRUE
    /\ Complete(p, "success", "success")
    /\ UNCHANGED <<loaded, stored, asked, range, proxy, client>>

MatchDisable(p) ==
    /\ Dispatching(p, "disable")
    /\ enabled' = FALSE
    /\ Complete(p, "success", "success")
    /\ UNCHANGED <<loaded, stored, asked, range, proxy, client>>

SetRuleClear(p) ==
    /\ Dispatching(p, "clear")
    /\ Store!Clear(Kinds)
    /\ Complete(p, "success", "success")
    /\ UNCHANGED <<loaded, enabled, range, proxy, client>>

\* The type is not the caller's.
SetRuleTypeClear(p) ==
    /\ Dispatching(p, "typeclear")
    /\ Store!Clear({"IPPORT"})
    /\ Complete(p, "success", "success")
    /\ UNCHANGED <<loaded, enabled, range, proxy, client>>

\* OpenSSLProxy_RuleEntryAdd puts the rule in, or refuses the empty one, or
\* finds no memory.
SetRuleIPPort(p) ==
    /\ Dispatching(p, "add")
    /\ \/ /\ Shortened(req[p].rule) # NoRule
          /\ \E e \in Entries : Store!Add(e, Shortened(req[p].rule))
          /\ Complete(p, "success", "success")
       \/ UNCHANGED <<stored, asked>> /\ Complete(p, "success", "failed")
    /\ UNCHANGED <<loaded, enabled, range, proxy, client>>

\* the cast forgotten
Bug_DelRuleIPPort(p) ==
    /\ Dispatching(p, "remove")
    /\ Store!Ask(p, req[p].rule)
    /\ at' = [at EXCEPT ![p] = "removing"]
    /\ UNCHANGED <<loaded, enabled, range, proxy, client, req, status, inner>>

DelRuleIPPort(p) ==
    /\ Dispatching(p, "remove")
    /\ Store!Ask(p, Shortened(req[p].rule))
    /\ at' = [at EXCEPT ![p] = "removing"]
    /\ UNCHANGED <<loaded, enabled, range, proxy, client, req, status, inner>>

Removed(p) ==
    /\ at[p] = "removing"
    /\ (\E e \in DOMAIN stored : Store!Take(p, e)) \/ Store!GiveUp(p)
    /\ Complete(p, "success", "success")
    /\ UNCHANGED <<loaded, enabled, range, proxy, client>>

SetPortRange(p) ==
    /\ Dispatching(p, "setrange")
    /\ IF req[p].range.lo < MaxPort /\ req[p].range.hi < MaxPort
       THEN range' = req[p].range /\ Complete(p, "success", "success")
       ELSE UNCHANGED range /\ Complete(p, "success", "failed")
    /\ UNCHANGED <<loaded, enabled, stored, asked, proxy, client>>

\* What is read stays in the system's buffer: Information is 0.
GetPortRange(p) ==
    /\ Dispatching(p, "getrange")
    /\ Complete(p, "success", "success")
    /\ UNCHANGED <<loaded, driver, client>>

\* OpenSSLProxy_SetLocalProxyInfo, two stores without a lock.  The context is
\* there (EnvInit.c:98-101): see Load.
SetLocalPID(p) ==
    /\ Dispatching(p, "setproxy")
    /\ proxy' = [proxy EXCEPT !.pid = req[p].proxy.pid]
    /\ at' = [at EXCEPT ![p] = "half"]
    /\ UNCHANGED <<loaded, enabled, stored, asked, range, client, req, status, inner>>

\* the port kept that was set first
Bug_SetLocalPort_Once(p) ==
    /\ at[p] = "half"
    /\ proxy' = [proxy EXCEPT !.port = IF @ = 0 THEN Short(req[p].proxy.port) ELSE @]
    /\ Complete(p, "success", "success")
    /\ UNCHANGED <<loaded, enabled, stored, asked, range, client>>

SetLocalPort(p) ==
    /\ at[p] = "half"
    /\ proxy' = [proxy EXCEPT !.port = Short(req[p].proxy.port)]
    /\ Complete(p, "success", "success")
    /\ UNCHANGED <<loaded, enabled, stored, asked, range, client>>

-----------------------------------------------------------------------------
(* A program is terminated at any time.                                    *)

Kill(p) ==
    /\ p \notin killed
    /\ killed' = killed \cup {p}
    /\ UNCHANGED <<loaded, driver, lib, handles, irp>>

\* The next run of the program starts with a new library.
Reap(p) ==
    /\ p \in killed /\ at[p] = "idle"
    /\ killed' = killed \ {p}
    /\ lib' = [lib EXCEPT ![p] = "null"]
    /\ handles' = [handles EXCEPT ![p] = 0]
    /\ UNCHANGED <<loaded, driver, irp>>

-----------------------------------------------------------------------------
Handle(p) ==
    \/ Refuse(p) \/ MatchEnable(p) \/ MatchDisable(p)
    \/ SetRuleClear(p) \/ SetRuleTypeClear(p) \/ SetRuleIPPort(p)
    \/ DelRuleIPPort(p) \/ Removed(p)
    \/ SetPortRange(p) \/ GetPortRange(p) \/ SetLocalPID(p) \/ SetLocalPort(p)

Program(p) == \/ EnvLibInit(p) \/ EnvLibUnInit(p) \/ Kill(p)
              \/ \E r \in Requests : Send(p, r)

Next ==
    \/ Load \/ Unload
    \/ \E p \in Procs : Program(p) \/ Handle(p) \/ Reap(p)

Spec == Init /\ [][Next]_vars

(* The dispatcher runs in the thread of the program that asks, and a       *)
(* remove whose rule is there finds it (RemoveFinds of RuleMgr); what a    *)
(* program does next is its own affair.                                    *)
FairSpec == Spec /\ \A p \in Procs : WF_vars(Handle(p)) /\ WF_vars(Reap(p))

-----------------------------------------------------------------------------
(* Every variable has its type. *)
TypeOK ==
    /\ loaded \in BOOLEAN /\ enabled \in BOOLEAN
    /\ DOMAIN stored \subseteq Entries
    /\ \A e \in DOMAIN stored : stored[e] \in Rules \ {NoRule}
    /\ \A p \in Procs : asked[p] = IF at[p] = "removing" THEN {Shortened(req[p].rule)} ELSE {}
    /\ range \in Ranges \cup {NoRange}
    /\ proxy \in [pid : Nat, port : 0 .. (PortMod - 1)]
    /\ lib \in [Procs -> {"null", "closed", "open"}]
    /\ handles \in [Procs -> Nat]
    /\ killed \subseteq Procs
    /\ at \in [Procs -> {"idle", "dispatch", "removing", "half"}]
    /\ req \in [Procs -> Requests]
    /\ status \in [Procs -> {"success", "invalid"}]
    /\ inner \in [Procs -> {"success", "failed"}]

(* A program has one handle to the device as long as it has an open        *)
(* library and none otherwise, whatever the order in which it initialises  *)
(* and gives up the library, and a request in progress has a handle under  *)
(* it: the driver cannot be unloaded under a request, nor stay because of  *)
(* a lost handle (DrvCtrlApi.cpp:10-46, DeviceIoCtrl.cpp:19-49).           *)
HandlesOwned ==
    \A p \in Procs :
        /\ handles[p] = IF lib[p] = "open" THEN 1 ELSE 0
        /\ lib[p] = "open" => loaded
        /\ at[p] # "idle" => lib[p] = "open"

(* The proxy that connections would be redirected to is one that a program *)
(* has named, its port with its PID, whenever nobody is about to change it *)
(* (EnvInit.c:96-107).  This needs programs that do not set it both at     *)
(* once, which the driver does not see to.                                 *)
ProxyIsWhole ==
    (\A p \in Procs : at[p] # "half") =>
        proxy \in {NoProxy} \cup {[x EXCEPT !.port = Short(@)] : x \in Proxies}

(* A program is told that a request was carried out only if it was: a      *)
(* failure is logged as "Device add rule info error" or "Device set port   *)
(* range error" (DevControl.c:78, 120).                                    *)
StatusTold ==
    \A p \in Procs : at[p] = "idle" /\ inner[p] = "failed" => status[p] # "success"

(* A remove that is under way can end: its rule is there, or no rule of    *)
(* its kind is.  What the program saw when it asked is not out of date     *)
(* when the driver comes to look for it (DevControl.c:90-105, 190-229).    *)
(* This needs programs that are Careful, and OneRemover.                   *)
EveryRemoveCanEnd ==
    \A p \in Procs : at[p] = "removing" =>
        \/ \E e \in DOMAIN stored : asked[p] = {stored[e]}
        \/ \A e \in DOMAIN stored, r \in asked[p] : KindOf(stored[e]) # KindOf(r)

\* Whoever removes rules is alone in removing and clearing.
OneRemover ==
    \A p, q \in Procs :
        p # q /\ "remove" \in MayIssue[p] =>
            MayIssue[q] \cap {"remove", "clear", "typeclear"} = {}

(* Every request is completed, whatever the others ask for meanwhile       *)
(* (DevControl.c:190-229).  This needs programs that remove only rules     *)
(* that are there, one of them at a time: see RemoveReturns of RuleMgr.    *)
RequestsEnd == \A p \in Procs : at[p] = "dispatch" ~> at[p] = "idle"

(* A program that is terminated goes away, and its handle no longer keeps  *)
(* the driver in memory, even if it was waiting for a rule to be removed.  *)
KilledLeave == \A p \in Procs : p \in killed ~> p \notin killed

=============================================================================
