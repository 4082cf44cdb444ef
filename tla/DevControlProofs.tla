-------------------------- MODULE DevControlProofs --------------------------
(***************************************************************************)
(* Proofs about DevControl, for any programs and requests.  The first part *)
(* is about who has the device open; it looks at the clients and at the    *)
(* places of their requests only.  Then the types, the proxy that programs *)
(* name, and the removes.                                                  *)
(***************************************************************************)
EXTENDS DevControl, TLAPS

Places == {"idle", "dispatch", "removing", "half"}

ClientTypes ==
    /\ loaded \in BOOLEAN
    /\ lib \in [Procs -> {"null", "closed", "open"}]
    /\ handles \in [Procs -> Nat]
    /\ at \in [Procs -> Places]

ClientInv == ClientTypes /\ HandlesOwned

LEMMA ClientInit == Init => ClientInv
<1> SUFFICES ASSUME Init PROVE ClientInv
  OBVIOUS
<1>1. /\ loaded = FALSE
      /\ \A p \in Procs : lib[p] = "null" /\ handles[p] = 0 /\ at[p] = "idle"
  BY DEF Init
<1>2. ClientTypes
  BY DEF Init, ClientTypes, Places
<1> QED
  BY <1>1, <1>2 DEF ClientInv, HandlesOwned

\* A step of a request: it goes on only if it had begun.
LEMMA OnlyPlaces ==
    ASSUME ClientInv, NEW p \in Procs, NEW l \in Places,
           at' = [at EXCEPT ![p] = l], lib[p] = "open" \/ l = "idle",
           UNCHANGED <<loaded, lib, handles>>
    PROVE  ClientInv'
BY DEF ClientInv, ClientTypes, HandlesOwned, Places

LEMMA HandleStep ==
    ASSUME ClientInv, NEW p \in Procs, Handle(p)
    PROVE  ClientInv'
<1> USE DEF client, irp, Complete, Dispatching
<1>1. at[p] # "idle" => lib[p] = "open"
  BY DEF ClientInv, HandlesOwned
<1>2. CASE DelRuleIPPort(p) \/ SetLocalPID(p)
  <2>1. /\ \E l \in Places : at' = [at EXCEPT ![p] = l]
        /\ at[p] = "dispatch" /\ UNCHANGED <<loaded, lib, handles>>
    BY <1>2 DEF DelRuleIPPort, SetLocalPID, Places
  <2> QED BY <1>1, <2>1, OnlyPlaces
<1>3. CASE Refuse(p) \/ MatchEnable(p) \/ MatchDisable(p) \/ SetRuleClear(p)
           \/ SetRuleTypeClear(p) \/ SetRuleIPPort(p) \/ Removed(p) \/ SetPortRange(p)
           \/ GetPortRange(p) \/ SetLocalPort(p)
  <2>1. at' = [at EXCEPT ![p] = "idle"] /\ UNCHANGED <<loaded, lib, handles>>
    BY <1>3 DEF Refuse, MatchEnable, MatchDisable, SetRuleClear, SetRuleTypeClear,
                SetRuleIPPort, Removed, SetPortRange, GetPortRange, SetLocalPort
  <2> QED BY <2>1, OnlyPlaces DEF Places
<1> QED BY <1>2, <1>3 DEF Handle

LEMMA ProgramStep ==
    ASSUME ClientInv, NEW p \in Procs, Program(p) \/ Reap(p)
    PROVE  ClientInv'
<1> USE DEF ClientInv, ClientTypes, HandlesOwned, irp, Free
<1>1. CASE EnvLibInit(p)
  BY <1>1 DEF EnvLibInit
<1>2. CASE EnvLibUnInit(p)
  BY <1>2 DEF EnvLibUnInit
<1>3. CASE Kill(p)
  BY <1>3 DEF Kill
<1>4. ASSUME NEW r \in Requests, Send(p, r) PROVE ClientInv'
  <2>1. /\ at' = [at EXCEPT ![p] = "dispatch"] /\ lib[p] = "open"
        /\ UNCHANGED <<loaded, lib, handles>>
    BY <1>4 DEF Send, client
  <2> QED BY <2>1, OnlyPlaces DEF Places
<1>5. CASE Reap(p)
  BY <1>5 DEF Reap
<1> QED BY <1>1, <1>2, <1>3, <1>4, <1>5 DEF Program

LEMMA ClientStep == ClientInv /\ [Next]_vars => ClientInv'
<1> SUFFICES ASSUME ClientInv, [Next]_vars PROVE ClientInv'
  OBVIOUS
<1>1. CASE Load
  BY <1>1 DEF Load, client, irp, ClientInv, ClientTypes, HandlesOwned
<1>2. CASE Unload
  <2>1. \A p \in Procs : lib[p] # "open"
    BY <1>2 DEF Unload, ClientInv, HandlesOwned
  <2> QED
    BY <1>2, <2>1 DEF Unload, client, irp, ClientInv, ClientTypes, HandlesOwned
<1>3. ASSUME NEW p \in Procs, Program(p) \/ Handle(p) \/ Reap(p) PROVE ClientInv'
  BY <1>3, HandleStep, ProgramStep
<1>4. CASE UNCHANGED vars
  BY <1>4 DEF vars, client, irp, ClientInv, ClientTypes, HandlesOwned
<1> QED BY <1>1, <1>2, <1>3, <1>4 DEF Next

(* No program loses a handle to the device or keeps one, whatever the      *)
(* order of its calls of the library, and no request runs in a driver that *)
(* is not loaded (DrvCtrlApi.cpp:10-46, DeviceIoCtrl.cpp:19-49).           *)
THEOREM HandlesCorrect == Spec => []HandlesOwned
<1>1. ClientInv => HandlesOwned
  BY DEF ClientInv
<1> QED BY <1>1, ClientInit, ClientStep, PTL DEF Spec

-----------------------------------------------------------------------------
USE ControlAssumption

StoredTypes ==
    /\ DOMAIN stored \subseteq Entries
    /\ \A e \in DOMAIN stored : stored[e] \in Rules \ {NoRule}

DriverTypes ==
    /\ enabled \in BOOLEAN /\ range \in Ranges \cup {NoRange}
    /\ proxy \in [pid : Nat, port : 0 .. (PortMod - 1)]

\* A request that is half way through naming a proxy came with one.
IrpTypes ==
    /\ at \in [Procs -> Places] /\ req \in [Procs -> Requests]
    /\ status \in [Procs -> {"success", "invalid"}]
    /\ inner \in [Procs -> {"success", "failed"}]
    /\ asked \in [Procs -> SUBSET Rules]
    /\ \A p \in Procs : asked[p] = IF at[p] = "removing" THEN {Shortened(req[p].rule)} ELSE {}
    /\ \A p \in Procs : at[p] = "half" => req[p] \in ProxyRequests

TypeInv == ClientTypes /\ killed \subseteq Procs /\ StoredTypes /\ DriverTypes /\ IrpTypes

LEMMA Shorts == \A n \in Nat : Short(n) \in 0 .. (PortMod - 1)
BY DEF Short

LEMMA NoneNamed == NoProxy \in [pid : Nat, port : 0 .. (PortMod - 1)]
<1>1. 0 \in 0 .. (PortMod - 1)
  OBVIOUS
<1> QED BY <1>1 DEF NoProxy

LEMMA ShortRules ==
    ASSUME NEW r \in [ip : Addresses, port : Ports]
    PROVE  Shortened(r) \in Rules
BY DEF Shortened, Rules

\* What a request is that comes with the buffer its code asks for.
LEMMA Fitting ==
    ASSUME NEW r \in Requests, r.fits
    PROVE  /\ r.code \in {"add", "remove"} => r.rule \in [ip : Addresses, port : Ports]
           /\ r.code = "setproxy" => r \in ProxyRequests /\ r.proxy \in Proxies
           /\ r.code = "setrange" => r.range \in Ranges
BY DEF Requests, RuleRequests, ProxyRequests, RangeRequests, BareRequests, Misfits

LEMMA Bare == NoRequest \in Requests
BY DEF NoRequest, Requests, BareRequests, Codes

\* A request is completed.
LEMMA Completes ==
    ASSUME IrpTypes, NEW p \in Procs,
           NEW told \in {"success", "invalid"}, NEW was \in {"success", "failed"},
           Complete(p, told, was), asked' = [asked EXCEPT ![p] = {}]
    PROVE  IrpTypes'
<1>1. /\ at' \in [Procs -> Places] /\ req' \in [Procs -> Requests]
      /\ status' \in [Procs -> {"success", "invalid"}]
      /\ inner' \in [Procs -> {"success", "failed"}]
      /\ asked' \in [Procs -> SUBSET Rules]
  BY Bare DEF IrpTypes, Complete, Places
<1>2. \A q \in Procs :
        IF q = p THEN at'[q] = "idle" /\ asked'[q] = {}
        ELSE at'[q] = at[q] /\ req'[q] = req[q] /\ asked'[q] = asked[q]
  BY DEF IrpTypes, Complete
<1> QED BY <1>1, <1>2 DEF IrpTypes

\* A request goes on.
LEMMA Continues ==
    ASSUME IrpTypes, NEW p \in Procs, NEW l \in Places, NEW r \in Requests,
           at' = [at EXCEPT ![p] = l], req' = [req EXCEPT ![p] = r], UNCHANGED <<status, inner>>,
           asked' = [asked EXCEPT ![p] = IF l = "removing" THEN {Shortened(r.rule)} ELSE {}],
           l = "removing" => Shortened(r.rule) \in Rules,
           l = "half" => r \in ProxyRequests
    PROVE  IrpTypes'
<1>1. /\ at' \in [Procs -> Places] /\ req' \in [Procs -> Requests]
      /\ asked' \in [Procs -> SUBSET Rules]
  BY DEF IrpTypes
<1>2. \A q \in Procs :
        IF q = p THEN /\ at'[q] = l /\ req'[q] = r
                      /\ asked'[q] = IF l = "removing" THEN {Shortened(r.rule)} ELSE {}
        ELSE at'[q] = at[q] /\ req'[q] = req[q] /\ asked'[q] = asked[q]
  BY DEF IrpTypes
<1> QED BY <1>1, <1>2 DEF IrpTypes

LEMMA NobodyAsks ==
    ASSUME IrpTypes, NEW p \in Procs, at[p] # "removing"
    PROVE  asked = [asked EXCEPT ![p] = {}] /\ asked[p] = {}
BY DEF IrpTypes

\* Clearing and taking only remove.
LEMMA StoreShrinks ==
    ASSUME StoredTypes, NEW S, S \subseteq DOMAIN stored,
           stored' = Store!Restrict(stored, S)
    PROVE  StoredTypes'
BY DEF StoredTypes, Store!Restrict

LEMMA StoreClears ==
    ASSUME StoredTypes, NEW kinds, Store!Clear(kinds)
    PROVE  StoredTypes'
BY StoreShrinks DEF Store!Clear

LEMMA HandleTypes ==
    ASSUME TypeInv, NEW p \in Procs, Handle(p)
    PROVE  TypeInv'
<1> USE DEF client
<1>0. /\ IrpTypes /\ StoredTypes /\ DriverTypes /\ ClientTypes /\ killed \subseteq Procs
      /\ req[p] \in Requests
  BY DEF TypeInv, IrpTypes
<1>a. ASSUME IrpTypes', StoredTypes', DriverTypes', UNCHANGED <<loaded, lib, handles, killed>>
      PROVE  TypeInv'
  BY <1>0, <1>a DEF TypeInv, ClientTypes, IrpTypes
<1>1. CASE Refuse(p) \/ GetPortRange(p)
  <2>1. \E told \in {"success", "invalid"} : Complete(p, told, "success")
    BY <1>1 DEF Refuse, GetPortRange
  <2>2. /\ at[p] = "dispatch"
        /\ UNCHANGED <<loaded, enabled, stored, asked, range, proxy, lib, handles, killed>>
    BY <1>1 DEF Refuse, GetPortRange, Dispatching, driver
  <2>3. asked' = [asked EXCEPT ![p] = {}]
    BY <1>0, <2>2, NobodyAsks
  <2>4. IrpTypes'
    BY <1>0, <2>1, <2>3, Completes
  <2> QED BY <1>0, <1>a, <2>2, <2>4 DEF StoredTypes, DriverTypes
<1>2. CASE MatchEnable(p) \/ MatchDisable(p)
  <2>1. /\ Complete(p, "success", "success") /\ enabled' \in BOOLEAN /\ at[p] = "dispatch"
        /\ UNCHANGED <<loaded, stored, asked, range, proxy, lib, handles, killed>>
    BY <1>2 DEF MatchEnable, MatchDisable, Dispatching
  <2>2. asked' = [asked EXCEPT ![p] = {}]
    BY <1>0, <2>1, NobodyAsks
  <2>3. IrpTypes'
    BY <1>0, <2>1, <2>2, Completes
  <2> QED BY <1>0, <1>a, <2>1, <2>3 DEF StoredTypes, DriverTypes
<1>3. CASE SetRuleClear(p) \/ SetRuleTypeClear(p)
  <2>1. /\ Complete(p, "success", "success") /\ at[p] = "dispatch"
        /\ \E kinds \in {Kinds, {"IPPORT"}} : Store!Clear(kinds)
        /\ UNCHANGED <<loaded, enabled, range, proxy, lib, handles, killed>>
    BY <1>3 DEF SetRuleClear, SetRuleTypeClear, Dispatching
  <2>2. StoredTypes' /\ UNCHANGED asked
    BY <1>0, <2>1, StoreClears DEF Store!Clear
  <2>3. asked' = [asked EXCEPT ![p] = {}]
    BY <1>0, <2>1, <2>2, NobodyAsks
  <2>4. IrpTypes'
    BY <1>0, <2>1, <2>3, Completes
  <2> QED BY <1>0, <1>a, <2>1, <2>2, <2>4 DEF DriverTypes
<1>4. CASE SetRuleIPPort(p)
  <2>1. /\ at[p] = "dispatch" /\ req[p].code = "add" /\ req[p].fits
        /\ UNCHANGED <<loaded, enabled, range, proxy, lib, handles, killed>>
        /\ \E was \in {"success", "failed"} : Complete(p, "success", was)
    BY <1>4 DEF SetRuleIPPort, Dispatching
  <2>2. Shortened(req[p].rule) \in Rules
    BY <1>0, <2>1, Fitting, ShortRules
  <2>3. StoredTypes' /\ UNCHANGED asked
    <3>1. CASE UNCHANGED <<stored, asked>>
      BY <1>0, <3>1 DEF StoredTypes
    <3>2. ASSUME Shortened(req[p].rule) # NoRule,
                 NEW e \in Entries, Store!Add(e, Shortened(req[p].rule))
          PROVE  StoredTypes' /\ UNCHANGED asked
      BY <1>0, <2>2, <3>2 DEF Store!Add, StoredTypes
    <3> QED BY <1>4, <3>1, <3>2 DEF SetRuleIPPort
  <2>4. asked' = [asked EXCEPT ![p] = {}]
    BY <1>0, <2>1, <2>3, NobodyAsks
  <2>5. IrpTypes'
    BY <1>0, <2>1, <2>4, Completes
  <2> QED BY <1>0, <1>a, <2>1, <2>3, <2>5 DEF DriverTypes
<1>5. CASE DelRuleIPPort(p)
  <2>1. /\ at[p] = "dispatch" /\ req[p].code = "remove" /\ req[p].fits
        /\ at' = [at EXCEPT ![p] = "removing"]
        /\ Store!Ask(p, Shortened(req[p].rule))
        /\ UNCHANGED <<loaded, enabled, range, proxy, lib, handles, killed, req, status, inner>>
    BY <1>5 DEF DelRuleIPPort, Dispatching
  <2>2. Shortened(req[p].rule) \in Rules
    BY <1>0, <2>1, Fitting, ShortRules
  <2>3. /\ asked' = [asked EXCEPT ![p] = {Shortened(req[p].rule)}] /\ UNCHANGED stored
        /\ req' = [req EXCEPT ![p] = req[p]]
    BY <1>0, <2>1 DEF Store!Ask, IrpTypes
  <2>4. IrpTypes'
    BY <1>0, <2>1, <2>2, <2>3, Continues DEF Places
  <2> QED BY <1>0, <1>a, <2>1, <2>3, <2>4 DEF StoredTypes, DriverTypes
<1>6. CASE Removed(p)
  <2>1. /\ Complete(p, "success", "success")
        /\ UNCHANGED <<loaded, enabled, range, proxy, lib, handles, killed>>
    BY <1>6 DEF Removed
  <2>2. StoredTypes' /\ asked' = [asked EXCEPT ![p] = {}]
    <3>1. ASSUME NEW e \in DOMAIN stored, Store!Take(p, e)
          PROVE  StoredTypes' /\ asked' = [asked EXCEPT ![p] = {}]
      BY <1>0, <3>1, StoreShrinks DEF Store!Take
    <3>2. CASE Store!GiveUp(p)
      BY <1>0, <3>2 DEF Store!GiveUp, StoredTypes
    <3> QED BY <1>6, <3>1, <3>2 DEF Removed
  <2>3. IrpTypes'
    BY <1>0, <2>1, <2>2, Completes
  <2> QED BY <1>0, <1>a, <2>1, <2>2, <2>3 DEF DriverTypes
<1>7. CASE SetPortRange(p)
  <2>1. /\ at[p] = "dispatch" /\ req[p].code = "setrange" /\ req[p].fits
        /\ range' \in {range, req[p].range}
        /\ \E was \in {"success", "failed"} : Complete(p, "success", was)
        /\ UNCHANGED <<loaded, enabled, stored, asked, proxy, lib, handles, killed>>
    BY <1>7 DEF SetPortRange, Dispatching
  <2>2. range' \in Ranges \cup {NoRange}
    BY <1>0, <2>1, Fitting DEF DriverTypes
  <2>3. asked' = [asked EXCEPT ![p] = {}]
    BY <1>0, <2>1, NobodyAsks
  <2>4. IrpTypes'
    BY <1>0, <2>1, <2>3, Completes
  <2> QED BY <1>0, <1>a, <2>1, <2>2, <2>4 DEF StoredTypes, DriverTypes
<1>8. CASE SetLocalPID(p)
  <2>1. /\ at[p] = "dispatch" /\ req[p].code = "setproxy" /\ req[p].fits
        /\ proxy' = [proxy EXCEPT !.pid = req[p].proxy.pid]
        /\ at' = [at EXCEPT ![p] = "half"]
        /\ UNCHANGED <<loaded, enabled, stored, asked, range, lib, handles, killed,
                       req, status, inner>>
    BY <1>8 DEF SetLocalPID, Dispatching
  <2>2. req[p] \in ProxyRequests /\ req[p].proxy.pid \in Nat
    BY <1>0, <2>1, Fitting
  <2>3. proxy' \in [pid : Nat, port : 0 .. (PortMod - 1)]
    BY <1>0, <2>1, <2>2 DEF DriverTypes
  <2>4. asked' = [asked EXCEPT ![p] = {}] /\ req' = [req EXCEPT ![p] = req[p]]
    BY <1>0, <2>1, NobodyAsks DEF IrpTypes
  <2>5. IrpTypes'
    BY <1>0, <2>1, <2>2, <2>4, Continues DEF Places
  <2> QED BY <1>0, <1>a, <2>1, <2>3, <2>5 DEF StoredTypes, DriverTypes
<1>9. CASE SetLocalPort(p)
  <2>1. /\ at[p] = "half" /\ Complete(p, "success", "success")
        /\ proxy' = [proxy EXCEPT !.port = Short(req[p].proxy.port)]
        /\ UNCHANGED <<loaded, enabled, stored, asked, range, lib, handles, killed>>
    BY <1>9 DEF SetLocalPort
  <2>2. Short(req[p].proxy.port) \in 0 .. (PortMod - 1)
    <3>1. req[p] \in ProxyRequests
      BY <1>0, <2>1 DEF IrpTypes
    <3>2. req[p].proxy.port \in Nat
      BY <3>1 DEF ProxyRequests
    <3> QED BY <3>2, Shorts
  <2>3. proxy' \in [pid : Nat, port : 0 .. (PortMod - 1)]
    BY <1>0, <2>1, <2>2 DEF DriverTypes
  <2>4. asked' = [asked EXCEPT ![p] = {}]
    BY <1>0, <2>1, NobodyAsks
  <2>5. IrpTypes'
    BY <1>0, <2>1, <2>4, Completes
  <2> QED BY <1>0, <1>a, <2>1, <2>3, <2>5 DEF StoredTypes, DriverTypes
<1> QED BY <1>1, <1>2, <1>3, <1>4, <1>5, <1>6, <1>7, <1>8, <1>9 DEF Handle

LEMMA ProgramTypes ==
    ASSUME TypeInv, ClientInv, NEW p \in Procs, Program(p) \/ Reap(p)
    PROVE  TypeInv'
<1> USE DEF driver, client, irp
<1>1. ClientTypes'
  <2>1. ClientInv'
    BY ProgramStep
  <2> QED BY <2>1 DEF ClientInv
<1>2. ASSUME UNCHANGED <<enabled, stored, range, proxy>>
      PROVE  StoredTypes' /\ DriverTypes'
  BY <1>2 DEF TypeInv, StoredTypes, DriverTypes
<1>3. ASSUME UNCHANGED <<asked, at, req, status, inner>>
      PROVE  IrpTypes'
  BY <1>3 DEF TypeInv, IrpTypes
<1>4. CASE EnvLibInit(p) \/ EnvLibUnInit(p)
  BY <1>1, <1>2, <1>3, <1>4 DEF EnvLibInit, EnvLibUnInit, TypeInv
<1>5. CASE Kill(p) \/ Reap(p)
  <2>1. killed' \subseteq Procs
    BY <1>5 DEF Kill, Reap, TypeInv
  <2> QED BY <1>1, <1>2, <1>3, <1>5, <2>1 DEF Kill, Reap, TypeInv
<1>6. ASSUME NEW r \in Requests, Send(p, r) PROVE TypeInv'
  <2>1. /\ at[p] = "idle" /\ at' = [at EXCEPT ![p] = "dispatch"] /\ req' = [req EXCEPT ![p] = r]
        /\ UNCHANGED <<enabled, stored, asked, range, proxy, killed, status, inner>>
    BY <1>6 DEF Send, Free
  <2>2. asked' = [asked EXCEPT ![p] = {}]
    BY <2>1, NobodyAsks DEF TypeInv
  <2>3. IrpTypes'
    BY <2>1, <2>2, Continues DEF TypeInv, Places
  <2> QED BY <1>1, <1>2, <2>1, <2>3 DEF TypeInv
<1> QED BY <1>4, <1>5, <1>6 DEF Program

LEMMA TypesStep == TypeInv /\ ClientInv /\ [Next]_vars => TypeInv'
<1> SUFFICES ASSUME TypeInv, ClientInv, [Next]_vars PROVE TypeInv'
  OBVIOUS
<1>1. CASE Load
  BY <1>1 DEF Load, driver, client, irp, TypeInv, ClientTypes, StoredTypes, DriverTypes, IrpTypes
<1>2. CASE Unload
  <2>1. /\ loaded' = FALSE /\ enabled' = FALSE /\ range' = NoRange /\ proxy' = NoProxy
        /\ UNCHANGED <<lib, handles, killed, at, req, status, inner, asked>>
    BY <1>2 DEF Unload, client, irp, Store!Clear
  <2>2. StoredTypes'
    BY <1>2, StoreClears DEF Unload, TypeInv
  <2>3. DriverTypes'
    BY <2>1, NoneNamed DEF DriverTypes
  <2>4. ClientTypes' /\ IrpTypes' /\ killed' \subseteq Procs
    BY <2>1 DEF TypeInv, ClientTypes, IrpTypes
  <2> QED BY <2>2, <2>3, <2>4 DEF TypeInv
<1>3. ASSUME NEW p \in Procs, Program(p) \/ Handle(p) \/ Reap(p) PROVE TypeInv'
  BY <1>3, HandleTypes, ProgramTypes
<1>4. CASE UNCHANGED vars
  BY <1>4 DEF vars, driver, client, irp, TypeInv, ClientTypes, StoredTypes, DriverTypes, IrpTypes
<1> QED BY <1>1, <1>2, <1>3, <1>4 DEF Next

LEMMA TypesInit == Init => TypeInv
<1> SUFFICES ASSUME Init PROVE TypeInv
  OBVIOUS
<1>1. stored = [e \in {} |-> {}] /\ asked = [p \in Procs |-> {}]
  BY DEF Init, Fresh, Store!Init
<1>2. StoredTypes
  BY <1>1 DEF StoredTypes
<1>3. DriverTypes
  BY NoneNamed DEF Init, Fresh, DriverTypes
<1>4. IrpTypes
  BY <1>1, Bare DEF Init, IrpTypes, Places
<1>5. ClientTypes /\ killed \subseteq Procs
  BY ClientInit DEF Init, ClientInv
<1> QED BY <1>2, <1>3, <1>4, <1>5 DEF TypeInv

LEMMA TypesCorrect == Spec => [](TypeInv /\ ClientInv)
BY ClientInit, ClientStep, TypesInit, TypesStep, PTL DEF Spec

(* The type invariant, for any programs and requests: what is kept of a    *)
(* port fits in a USHORT, and exactly the rule a program waits to be rid   *)
(* of is asked of the store (DevControl.c:36-182).                         *)
THEOREM TypeCorrect == Spec => []TypeOK
<1>1. TypeInv => TypeOK
  BY DEF TypeInv, ClientTypes, StoredTypes, DriverTypes, IrpTypes, TypeOK, Places
<1> QED BY <1>1, TypesCorrect, PTL

-----------------------------------------------------------------------------
\* Nobody else names a proxy: the driver does not see to it.
OneProgramNames ==
    \A p, q \in Procs : "setproxy" \in MayIssue[p] \cap MayIssue[q] => p = q

Named == {NoProxy} \cup {[x EXCEPT !.port = Short(@)] : x \in Proxies}

\* Half way, the PID is the one of the request, and only who may send such a
\* request can be half way.
ProxyInv ==
    /\ \A p \in Procs : at[p] \in {"dispatch", "half"} => req[p].code \in MayIssue[p]
    /\ \A p \in Procs : at[p] = "half" => proxy.pid = req[p].proxy.pid
    /\ ProxyIsWhole

LEMMA ProxyStep ==
    ASSUME OneProgramNames, TypeInv, ClientInv, ProxyInv, [Next]_vars
    PROVE  ProxyInv'
<1> USE DEF driver, client, irp
<1>0. /\ at \in [Procs -> Places] /\ req \in [Procs -> Requests]
      /\ proxy \in [pid : Nat, port : 0 .. (PortMod - 1)]
  BY DEF TypeInv, IrpTypes, DriverTypes
\* a step that leaves the proxy alone, and takes no program half way
<1>a. ASSUME UNCHANGED proxy, NEW p \in Procs,
             \A q \in Procs : q # p => at'[q] = at[q] /\ req'[q] = req[q],
             at[p] # "half", at'[p] # "half",
             at'[p] = "dispatch" => req'[p].code \in MayIssue[p]
      PROVE  ProxyInv'
  <2>1. (\A q \in Procs : at'[q] # "half") => \A q \in Procs : at[q] # "half"
    BY <1>a
  <2> QED BY <1>a, <2>1 DEF ProxyInv, ProxyIsWhole
<1>b. ASSUME UNCHANGED <<proxy, at, req>> PROVE ProxyInv'
  BY <1>b DEF ProxyInv, ProxyIsWhole
<1>1. CASE Load
  BY <1>b, <1>1 DEF Load
<1>2. CASE Unload
  <2>1. \A p \in Procs : at[p] = "idle"
    BY <1>2 DEF Unload, ClientInv, HandlesOwned
  <2>2. proxy' = NoProxy /\ UNCHANGED at
    BY <1>2 DEF Unload
  <2> QED BY <2>1, <2>2 DEF ProxyInv, ProxyIsWhole
<1>3. ASSUME NEW p \in Procs, EnvLibInit(p) \/ EnvLibUnInit(p) \/ Kill(p) \/ Reap(p)
      PROVE  ProxyInv'
  BY <1>b, <1>3 DEF EnvLibInit, EnvLibUnInit, Kill, Reap
<1>4. ASSUME NEW p \in Procs, NEW r \in Requests, Send(p, r) PROVE ProxyInv'
  <2>1. /\ at[p] = "idle" /\ r.code \in MayIssue[p] /\ UNCHANGED proxy
        /\ at' = [at EXCEPT ![p] = "dispatch"] /\ req' = [req EXCEPT ![p] = r]
    BY <1>4 DEF Send, Free
  <2> QED BY <1>0, <1>a, <2>1
<1>5. ASSUME NEW p \in Procs,
             \/ Refuse(p) \/ MatchEnable(p) \/ MatchDisable(p) \/ SetRuleClear(p)
             \/ SetRuleTypeClear(p) \/ SetRuleIPPort(p) \/ Removed(p)
             \/ SetPortRange(p) \/ GetPortRange(p)
      PROVE  ProxyInv'
  <2>1. at[p] # "half" /\ UNCHANGED proxy
    BY <1>5 DEF Refuse, MatchEnable, MatchDisable, SetRuleClear, SetRuleTypeClear,
                SetRuleIPPort, Removed, SetPortRange, GetPortRange, Dispatching
  <2>2. at' = [at EXCEPT ![p] = "idle"] /\ req' = [req EXCEPT ![p] = NoRequest]
    BY <1>5 DEF Refuse, MatchEnable, MatchDisable, SetRuleClear, SetRuleTypeClear,
                SetRuleIPPort, Removed, SetPortRange, GetPortRange, Complete
  <2> QED BY <1>0, <1>a, <2>1, <2>2
<1>6. ASSUME NEW p \in Procs, DelRuleIPPort(p) PROVE ProxyInv'
  <2>1. at[p] = "dispatch" /\ at' = [at EXCEPT ![p] = "removing"] /\ UNCHANGED <<proxy, req>>
    BY <1>6 DEF DelRuleIPPort, Dispatching
  <2> QED BY <1>0, <1>a, <2>1
<1>7. ASSUME NEW p \in Procs, SetLocalPID(p) PROVE ProxyInv'
  <2>1. /\ at[p] = "dispatch" /\ req[p].code = "setproxy" /\ UNCHANGED req
        /\ proxy' = [proxy EXCEPT !.pid = req[p].proxy.pid]
        /\ at' = [at EXCEPT ![p] = "half"]
    BY <1>7 DEF SetLocalPID, Dispatching
  <2>2. \A q \in Procs \ {p} : at[q] # "half"
    <3> SUFFICES ASSUME NEW q \in Procs \ {p}, at[q] = "half" PROVE FALSE
      OBVIOUS
    <3>1. req[q].code = "setproxy"
      BY DEF TypeInv, IrpTypes, ProxyRequests
    <3> QED BY <2>1, <3>1 DEF ProxyInv, OneProgramNames
  <2>3. proxy'.pid = req[p].proxy.pid
    BY <1>0, <2>1
  <2> QED BY <1>0, <2>1, <2>2, <2>3 DEF ProxyInv, ProxyIsWhole
<1>8. ASSUME NEW p \in Procs, SetLocalPort(p) PROVE ProxyInv'
  <2>1. /\ at[p] = "half" /\ at' = [at EXCEPT ![p] = "idle"]
        /\ req' = [req EXCEPT ![p] = NoRequest]
        /\ proxy' = [proxy EXCEPT !.port = Short(req[p].proxy.port)]
    BY <1>8 DEF SetLocalPort, Complete
  <2>2. req[p].proxy \in Proxies /\ req[p].proxy \in [pid : Nat, port : Nat]
    BY <2>1 DEF TypeInv, IrpTypes, ProxyRequests
  <2>3. proxy.pid = req[p].proxy.pid
    BY <2>1 DEF ProxyInv
  <2>4. proxy' = [req[p].proxy EXCEPT !.port = Short(@)]
    BY <1>0, <2>1, <2>2, <2>3
  <2>5. proxy' \in Named
    BY <2>2, <2>4 DEF Named
  <2>6. proxy'.pid = proxy.pid
    BY <1>0, <2>1
  <2> QED BY <1>0, <2>1, <2>5, <2>6 DEF ProxyInv, ProxyIsWhole, Named
<1>9. CASE UNCHANGED vars
  BY <1>b, <1>9 DEF vars
<1> QED BY <1>1, <1>2, <1>3, <1>4, <1>5, <1>6, <1>7, <1>8, <1>9 DEF Next, Program, Handle

(* If one program at most names proxies, the proxy that connections would  *)
(* be redirected to is never the PID of one with the port of another, also *)
(* when the program is terminated or the driver loaded again               *)
(* (EnvInit.c:96-107).                                                     *)
THEOREM ProxyStaysWhole == ASSUME OneProgramNames PROVE Spec => []ProxyIsWhole
<1>1. Init => ProxyInv
  BY DEF Init, Fresh, ProxyInv, ProxyIsWhole
<1>2. TypeInv /\ ClientInv /\ ProxyInv /\ [Next]_vars => ProxyInv'
  BY ProxyStep
<1>3. ProxyInv => ProxyIsWhole
  BY DEF ProxyInv
<1> QED BY <1>1, <1>2, <1>3, TypesCorrect, PTL DEF Spec

-----------------------------------------------------------------------------
(* Removes.                                                                *)

\* p has yet to be rid of a rule, and that rule is there.
Due(p)   == at[p] # "idle" /\ req[p].code = "remove" /\ req[p].fits
There(p) == \E e \in DOMAIN stored : stored[e] = Shortened(req[p].rule)

RemoveInv ==
    \A p \in Procs :
        /\ at[p] # "idle" => req[p].code \in MayIssue[p]
        /\ at[p] = "removing" => Due(p)
        /\ Due(p) => There(p)

\* Rules go away only when nobody else has one to be rid of.
LEMMA KeepsRemoves ==
    ASSUME TypeInv, RemoveInv, NEW p \in Procs,
           \A q \in Procs \ {p} : at'[q] = at[q] /\ req'[q] = req[q],
           at'[p] # "idle" => req'[p].code \in MayIssue[p],
           at'[p] = "removing" => Due(p)',
           Due(p)' => There(p)',
           \A q \in Procs \ {p} : Due(q) /\ There(q) => There(q)'
    PROVE  RemoveInv'
BY DEF RemoveInv, Due

\* A store that grows.
LEMMA StillThere ==
    ASSUME NEW q \in Procs, There(q), req'[q] = req[q],
           \A e \in DOMAIN stored : e \in DOMAIN stored' /\ stored'[e] = stored[e]
    PROVE  There(q)'
BY DEF There

LEMMA HandleRemoves ==
    ASSUME Careful, OneRemover, TypeInv, RemoveInv, NEW p \in Procs, Handle(p)
    PROVE  RemoveInv'
<1>0. at \in [Procs -> Places] /\ req \in [Procs -> Requests]
  BY DEF TypeInv, IrpTypes
<1>1. CASE SetRuleClear(p) \/ SetRuleTypeClear(p) \/ Removed(p)
  <2>1. /\ at' = [at EXCEPT ![p] = "idle"] /\ req' = [req EXCEPT ![p] = NoRequest]
        /\ at[p] # "idle" /\ req[p].code \in {"remove", "clear", "typeclear"}
    BY <1>1 DEF SetRuleClear, SetRuleTypeClear, Removed, Complete, Dispatching,
                RemoveInv, Due
  <2>2. \A q \in Procs \ {p} : ~Due(q)
    BY <2>1 DEF RemoveInv, Due, OneRemover
  <2> QED BY <1>0, <2>1, <2>2, KeepsRemoves DEF Due
<1>2. CASE Refuse(p) \/ MatchEnable(p) \/ MatchDisable(p) \/ SetRuleIPPort(p)
           \/ SetPortRange(p) \/ GetPortRange(p) \/ SetLocalPort(p)
  <2>1. at' = [at EXCEPT ![p] = "idle"] /\ req' = [req EXCEPT ![p] = NoRequest]
    BY <1>2 DEF Refuse, MatchEnable, MatchDisable, SetRuleIPPort, SetPortRange,
                GetPortRange, SetLocalPort, Complete
  <2>2. \A e \in DOMAIN stored : e \in DOMAIN stored' /\ stored'[e] = stored[e]
    <3>1. CASE SetRuleIPPort(p)
      BY <3>1 DEF SetRuleIPPort, Store!Add
    <3>2. CASE ~SetRuleIPPort(p)
      BY <1>2, <3>2 DEF Refuse, MatchEnable, MatchDisable, SetPortRange, GetPortRange,
                        SetLocalPort, driver
    <3> QED BY <3>1, <3>2
  <2> QED BY <1>0, <2>1, <2>2, StillThere, KeepsRemoves DEF Due
<1>3. CASE DelRuleIPPort(p) \/ SetLocalPID(p)
  <2>1. /\ \E l \in {"removing", "half"} :
              at' = [at EXCEPT ![p] = l] /\ (l = "removing" => req[p].code = "remove" /\ req[p].fits)
        /\ at[p] = "dispatch" /\ UNCHANGED <<stored, req>>
    BY <1>3 DEF DelRuleIPPort, SetLocalPID, Dispatching, Store!Ask
  <2>2. at'[p] # "idle" /\ \A q \in Procs \ {p} : at'[q] = at[q]
    BY <1>0, <2>1
  <2>3. Due(p)' => Due(p)
    BY <2>1 DEF Due
  <2>4. \A q \in Procs : There(q)' <=> There(q)
    BY <2>1 DEF There
  <2>5. at'[p] = "removing" => Due(p)'
    BY <1>0, <2>1 DEF Due
  <2>6. req'[p].code \in MayIssue[p]
    BY <2>1 DEF RemoveInv
  <2>7. Due(p)' => There(p)'
    BY <2>3, <2>4 DEF RemoveInv
  <2> QED BY <2>1, <2>2, <2>4, <2>5, <2>6, <2>7, KeepsRemoves
<1> QED BY <1>1, <1>2, <1>3 DEF Handle

LEMMA RemoveStep ==
    ASSUME Careful, OneRemover, TypeInv, ClientInv, RemoveInv, [Next]_vars
    PROVE  RemoveInv'
<1>0. at \in [Procs -> Places] /\ req \in [Procs -> Requests]
  BY DEF TypeInv, IrpTypes
<1>a. ASSUME UNCHANGED <<stored, at, req>> PROVE RemoveInv'
  BY <1>a DEF RemoveInv, Due, There
<1>1. CASE Unload
  <2>1. UNCHANGED <<at, req>> /\ \A p \in Procs : at[p] = "idle"
    BY <1>1 DEF Unload, irp, ClientInv, HandlesOwned
  <2> QED BY <2>1 DEF RemoveInv, Due
<1>2. ASSUME NEW p \in Procs, EnvLibInit(p) \/ EnvLibUnInit(p) \/ Kill(p) \/ Reap(p)
      PROVE  RemoveInv'
  BY <1>a, <1>2 DEF EnvLibInit, EnvLibUnInit, Kill, Reap, driver, irp
<1>3. ASSUME NEW p \in Procs, NEW r \in Requests, Send(p, r) PROVE RemoveInv'
  <2>1. /\ r.code \in MayIssue[p] /\ UNCHANGED stored
        /\ at' = [at EXCEPT ![p] = "dispatch"] /\ req' = [req EXCEPT ![p] = r]
        /\ r.code = "remove" /\ r.fits => \E e \in DOMAIN stored : stored[e] = Shortened(r.rule)
    BY <1>3 DEF Send, driver
  <2>2. /\ at'[p] = "dispatch" /\ req'[p] = r
        /\ \A q \in Procs \ {p} : at'[q] = at[q] /\ req'[q] = req[q]
    BY <1>0, <2>1
  <2>3. Due(p)' => There(p)'
    BY <2>1, <2>2 DEF Due, There
  <2> QED BY <2>1, <2>2, <2>3, StillThere, KeepsRemoves
<1>4. ASSUME NEW p \in Procs, Handle(p) PROVE RemoveInv'
  BY <1>4, HandleRemoves
<1>5. CASE Load \/ UNCHANGED vars
  BY <1>a, <1>5 DEF Load, vars, driver, irp
<1> QED BY <1>1, <1>2, <1>3, <1>4, <1>5 DEF Next, Program

(* If the program that removes rules is alone in removing and clearing,    *)
(* and removes only what is there, then what it saw when it asked is not   *)
(* out of date when the driver comes to look for the rule: no remove is    *)
(* ever left without an end, for any number of programs that add, name     *)
(* proxies, or come and go meanwhile (DevControl.c:90-105, 190-229).       *)
THEOREM RemovesCanEnd ==
    ASSUME Careful, OneRemover PROVE Spec => []EveryRemoveCanEnd
<1>1. Init => RemoveInv
  BY DEF Init, RemoveInv, Due
<1>2. TypeInv /\ ClientInv /\ RemoveInv /\ [Next]_vars => RemoveInv'
  BY RemoveStep
<1>3. TypeInv /\ RemoveInv => EveryRemoveCanEnd
  <2> SUFFICES ASSUME TypeInv, RemoveInv, NEW p \in Procs, at[p] = "removing"
               PROVE  \E e \in DOMAIN stored : asked[p] = {stored[e]}
    BY DEF EveryRemoveCanEnd
  <2>1. asked[p] = {Shortened(req[p].rule)}
    BY DEF TypeInv, IrpTypes
  <2> QED BY <2>1 DEF RemoveInv, Due, There
<1> QED BY <1>1, <1>2, <1>3, TypesCorrect, PTL DEF Spec

=============================================================================
