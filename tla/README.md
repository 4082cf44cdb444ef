# OpensslProxy in TLA+

OpensslProxy diverts outgoing TCP connections of a Windows machine to a proxy
on the same machine. A kernel driver watches connections through the Windows
Filtering Platform (WFP), a library opens the driver's device and sends it
requests, a local program is to be the proxy, and two small programs serve as
TLS server and client for trying it out. The code is unfinished: the driver's
`OpenSSLProxy_RuleIsMatch` is a stub, the local proxy's worker and dispatcher
are empty files, and nothing calls the packet queue yet. What is there, above
all shared state under home-made locks, error paths and protocols with the
system, is modelled here as it stands.

Below, `Sys/` is `src/OpensslProxy/OpensslProxySystem/OpensslProxySystem/`,
`Ctl/` is `src/OpensslProxy/OpensslProxyDrvCtrl/` and `common/` is
`src/OpensslProxy/common/`.

## 1. Inventory

| Part | State | Operations | Talks to |
|---|---|---|---|
| **Rule manager**, `Sys/OpenSSLProxyRule.c`, `Utils.c` | three lists of rules, their count, source-port whitelist, one lock that is an `ERESOURCE` up to `APC_LEVEL` and a spin lock above | add, remove, clear all, clear a type, set/get/test the whitelist | called by the dispatcher (I/O-control threads) and by the classify callback |
| **Device control**, `Ctl/*`, `Sys/OpenSSLProxyDevControl.c`, `EnvInit.c` | library's object and handle per program; redirection switch; PID and port of the proxy | open, close, one request per code of `DevControlDefine.h` | requests from programs to the driver; calls the rule manager |
| **Life of the driver**, `Sys/OpenSSLProxyDriver.c`, registration in `Callout.c`, `EnvInit.c` | what is acquired: device, link, environment, rule manager, WFP session, transaction, sublayer, callout, filter | `DriverEntry`, `DriverUnload`, their error paths | the system, the filter engine; callbacks run while it starts and stops |
| **Classify callback**, `Sys/OpenSSLProxyCallout.c` | nothing of its own between calls; the request, its earlier versions, the rights | one decision per call | WFP, other filters, the switch, the rule manager |
| **Packet queue pool**, `common/Queue.cpp`, `Sem.cpp` | free ring and used ring over one set of nodes, two counters, a semaphore | create, free, pop/push of each ring, wait, signal | producers and consumers that are still to be written |
| **Log**, `common/CLog.cpp` | one file and one named mutex for all programs; name and handle per process | init, uninit, two log calls | every user program; other processes through the file |
| Local proxy, `OpensslProxyLocal/` | manager context | start, stop | calls the library; worker and dispatcher are empty |
| Demo server and client, `OpensslProxyServer/`, `OpensslProxyClient/` | listening socket with its queue, one client's socket and SSL, a counter; one connection per client | accept loop that serves one client at a time, loop of questions | each other over TLS |
| Packet buffers, crash dump, shared definitions, vendored OpenSSL | none of interest | | |

### What is hard here

* *Interleavings.* `RuleEntryRemove` looks at the list outside its lock and
  gives the lock up between the rounds of one remove. The lock taken depends on
  the caller's IRQL, and the two do not exclude each other. The queue signals
  after its critical section. The log asks whether its file exists outside its
  lock. The proxy's PID and port are two stores without a lock.
* *Order at start and stop.* Eleven acquisitions in three functions with three
  error exits; an unload that frees the rules before it unregisters the callout
  whose callbacks use them.
* *Things that must end.* A remove ends only at a match; it runs in the thread
  of the program that asked, which cannot be terminated meanwhile. Two
  redirecting filters could answer each other for ever. A waiting consumer has
  no timeout. The demo server keeps everybody waiting while one client stays.
* *Failure.* A terminated process may own the log's mutex; a request may fail
  in the function behind the dispatcher; the log's file may be deleted. A queue
  whose creation fails half way must give back what it has; a client of the
  demo server may end, or its connection break, at any point.
* *Edges.* A 32-bit counter kept beside the lists; ports that arrive in 32 bits
  and are kept in 16; an empty pool; a full semaphore.

### What makes each part correct

| Part | Must hold |
|---|---|
| Rule manager | a block is in one list or in one hand; only the rule asked for is freed; the count counts; nobody acts on half a whitelist; nobody sets a remove back; adds and removes end |
| Device control | one handle per open library; a program is told what happened; the proxy's PID and port belong together; requests end, terminated programs go away |
| Life of the driver | every exit gives back what was acquired; no callback without its code or its rules; "loaded" means complete |
| Classify callback | the right to write is given up, handles are given back, a fight is given up, every connection is settled |
| Packet queue | nodes are conserved, rings closed, first in first out, no packet without a wake-up, every packet popped; no list leads to freed memory, what was acquired is given back |
| Log | the lock excludes, lines are not lost, every call returns |
| Demo programs | nobody who is there is turned away from, the two sides never wait for each other, whoever waits is answered or told |

## 2. Modules

| Module | Models | Composes |
|---|---|---|
| `RuleMgr` | the rule manager with its locks, one step per critical section, more where others can look inside | `INSTANCE RuleStore` |
| `RuleStore` | *abstract*: a store in which a remove is asked for and then done in one step | |
| `RuleMgrProofs`, `RuleMgrStoreProofs` | theorems about `RuleMgr`: its entries, cursor and whitelist; that it implements `RuleStore`, and its count | |
| `DevControl`, `DevControlProofs` | the library, the device, the dispatcher, over the abstract rule store | `INSTANCE RuleStore` |
| `DriverLife`, `DriverLifeProofs` | `DriverEntry`, `DriverUnload`, the callbacks that run meanwhile | |
| `Classify`, `ClassifyProofs` | one connection and all the calls of the callback about it | |
| `SysQueue`, `SysQueueProofs` | the queue on its real `next`/`prev` links; theorems about it (counters, links, the refinement) and about `QueueLife` | `INSTANCE PacketPool` |
| `QueueLife` | the queue's memory from `SYS_Queue_Create` to `SYS_Queue_Free`, around the callers of `SysQueue` | `EXTENDS SysQueue` |
| `PacketPool` | *abstract*: two FIFO sequences and the callers' hands | |
| `CLog`, `CLogProofs` | the log file, its mutex, threads of several processes | |
| `SslDemo`, `SslDemoProofs` | the demo server and any number of runs of the demo client | |
| `MC*` | instances for TLC | the module in their name |

`DevControl` is built on the actions of `RuleStore`, and `RuleMgr` is shown to
implement `RuleStore` (`StoreSpec`, theorem `StoreImplemented`) as long as one
caller at a time removes rules (`SingleRemover`). That is where the composition
ends: with several programs that remove, which the driver admits, the rule manager
does what no action of `RuleStore` allows (`rule_two_removers`), and nothing that is
shown of `DevControl` is shown of such programs. `RuleMgr`'s blocks are `Entries`,
its `stored` is the set of linked blocks together with the one that a remove has
under comparison, its `asked` the rule of a remove that has not decided yet.

### How state and steps correspond to the code

* **RuleMgr.** `list`, `nums`, `range` are `stRule*List`, `uiRuleNums`,
  `stSrcPortRange`; `owner` is the two locks; `cur`, `key` are the locals
  `pRuleEntry`/`plistEntry` and the arguments of `RuleEntryRemove`. Its loop is
  `RemoveCheck` (the `IsListEmpty` without the lock), `RemovePop` (lock, take
  the head), `RemoveMatch`/`RemovePutBack` (compare, unlock), `RemoveFree`. A
  block keeps its contents when it is freed, because the code compares blocks it
  may no longer own. Range calls are two steps, so that a reader with the other
  lock can come between.
* **DevControl.** A request is `Send` (`DeviceIoControl` in the program), the
  action of its code, and `Complete`. `status` is `IoStatus->Status`, `inner`
  the local `Status` next to it. A program makes one call of the library at a time
  (`Free`): that is assumed of programs, `DeviceIoCtrl` does not see to it. `Load`
  stands for a `DriverEntry` that succeeds; one in which `EnvInit` failed deletes
  the device, so no request meets the missing context of `EnvInit.c:98-101`. A remove stays in `removing` until the store
  takes the rule out; `SetLocalPID`/`SetLocalPort` are the two stores.
  Only two codes are sent by the library; the others are sent by programs that
  include `DevControlDefine.h`.
* **DriverLife.** `Calls` is what `DriverEntry` calls, `have` what is acquired,
  `Undone(c)` what the exits behind a failing call give back, `Releases` the
  order of `DriverUnload`. That `FwpsCalloutUnregisterById` returns when no callback
  runs any more (the step `"callbacks"`) is the system's part.
* **Classify.** One action per block of the callback up to `Exit`. The chain of
  earlier versions is reduced to who made the newest and how many are ours. That a
  reauthorised request has an earlier version, which the code takes for granted
  (`Callout.c:128-130`), is assumed of the platform. `Enabling` are the values that
  programs give the switch meanwhile.
* **SysQueue.** `next`, `prev` are `NODE_HEAD_S`; `LinkLast` and `Unlink` are
  the pointer assignments; `Produce`/`Consume` is the protocol that the comments
  of `Queue.h` ask of callers (external). A consumer that waits is in the call
  (`Waitfor`, then `"waiting"`) until the semaphore lets it go (`Wake`).
* **QueueLife.** `made` is the set of allocated nodes, `parts` what else is
  acquired (the queue's memory, its semaphore, its critical section), `life` how far
  the owner is, `given` what `SYS_Queue_Create` returned. A node is allocated and pushed
  (`CreateNode`) or not allocated (`CreateNodeFails`, on to the release);
  `FreeUsedNode` and `FreeFreeNode` are the two loops of `SYS_Queue_Free`, which
  keeps the critical section, so callers are not at the lists meanwhile. Callers
  take the actions of `SysQueue`; without a semaphore they neither wait nor wake.
* **SslDemo.** `server` and `at[c]` are the places in the two `main`s, `fd` is
  `new_fd` with `pstSSL`, `backlog` the queue of `listen`. One action per
  blocking call and outcome. `asks` and `replies` are the messages under way,
  a reply reduced to the count in its text; `held` are the sockets the server
  never closes. That `SSL_write` and `SSL_accept` may return 0, and what each
  program takes for a failure, is as in the code.
* **CLog.** One action per block of a log call; `Writers` and `Creators` are the
  threads that have the file open, which decides whether `fopen_s`,
  `CreateFileA` and a deletion succeed. The mutex is handed over in order of
  arrival (`Pass`). That is an assumption, Windows documents no order; `WaitsEnd`
  rests on it, `LogReturns` does not while calls are bounded. `said` records the lines whose calls have returned.

Each module also holds definitions `Bug_X`: `X` with a plausible slip (a guard
dropped, a wrong end of a list, an unlock forgotten). They are used by nothing;
put in the place of `X` each makes TLC refute the property it is listed with in
`PROJECT.json`, so no property holds for want of content.

## 3. What is model-checked

| Run | Instance | Checks |
|---|---|---|
| `rule_lists` | an adder/remover and an adder, 3 blocks, addresses {0,1}, ports {0,1,2}, counter modulo 3 | `EntriesOwned`, `CursorInv`, `NumsIsRuleCount`, `FreesOnlyWhatItMatched`, `RemoveAdvances`; `StoreSpec` (refinement); `RemoveFinds`, `AddReturns` (liveness) |
| `rule_range` | one thread with every call but the reads, a second that adds and sets and gets ranges, a classifier at passive level; 2 blocks | `EntriesOwned` with the clears, `WhitelistSound`, `ReadsAreAtomic` |
| `queue_pool` | 2 producers, 2 consumers of which one drains, 3 nodes, semaphore limit 3 | `RingsClosed`, `NodesConserved`, `NoLostWakeup`, `PoolSpec` (refinement), `PacketsPopped`, `NodesRecycled` |
| `life_quiet` | 3 connecting threads; every call may fail whose failure is reported, but the commit; unload only when redirection is off and no callback runs | `NothingLeaks`, `CodeBehindCallout`, `LoadedMeansReady`, `RulesOutliveReaders` |
| `classify` | limit 3 as in the code, own versions counted to 6 | `WriteGivenUp`, `HandlesGivenBack`, `FightGivenUp`, `Settles` |
| `queue_life` | the same callers and nodes; every allocation and the semaphore may fail | `LinkedIsAllocated`, `OnlySectionLeft`, `CreatedIsPool` |
| `control` | one program with all codes, one that disables, adds and reads; terminations and reloads without bound; 1 block, 2 addresses, ports modulo 2 | `HandlesOwned`, `ProxyIsWhole`, `RequestsEnd`, `KilledLeave` |
| `clog` | two threads in one process, one in another, 2 calls each, 1 deletion, 1 termination | `HolderAlone`, `LinesKept`, `LogReturns` |
| `ssl` | 3 clients, 1 place in the server's queue, counter modulo 3, 1 broken connection | `NoneAbandoned`, `OneUnderWay`, `NoStandoff`, `CountsFollow`, `ServedOrTold` |

The type invariant (`TypeOK`) is proved for every module that states one.

Four more configurations pass and are kept for the theorems of section 5 that
state what no run above does:

| Configuration | Instance | Checks |
|---|---|---|
| `MCRuleMgr_rounds` | that of `rule_lists` | `AbsentGoesRound`: what becomes of a remove whose rule is not there |
| `MCDevControl_removes` | that of `control` with 2 blocks | `EveryRemoveCanEnd` |
| `MCCLog_line` | two threads in each of two processes, so that three can wait | `NobodyWaitsInVain` |
| `MCClassify_rounds` | that of `classify` | `FightAdvances`: what every answer to another filter costs |

`queue_life` joins the two parts of the queue: `CreatedIsPool` says that what a
successful creation hands out satisfies `SysQueue`'s `Init`, so that all that is
shown of `SysQueue`, by run or by proof, is about a queue the code can create.

*Bounds.* Three blocks give a remove a rule to pass over, one to find and one
that another thread holds; a counter modulo 3 wraps. Two blocks are enough for
the range run, whose question is who sees which half of the range. Three nodes
let one be free, one used and one held, and let both rings be empty. A limit of
3 in `Classify` is the code's. In `DevControl` a port is a number modulo 2 with
3 passed in, so that the cast matters; one block lets the allocation fail; the
lists behind it are checked in `rule_lists`. Two calls in `CLog` are an
initialisation and a line, or two lines of a thread whose fellow initialises.
Three clients let one be served, one wait in the queue and one find the queue
full; a counter modulo 3 tells the next count from the same and from the one
after it.
Block names are symmetric in `rule_range`, a run without liveness.

*Fairness.* A thread inside a call runs on (weak fairness of its steps): the
code waits for nothing but its locks. `RuleMgr` assumes strong fairness of
getting the `ERESOURCE`, which serves exclusive waiters in order of arrival; the
mutex of `CLog` is handed over explicitly, in the order assumed in section 2, and
needs none. `SysQueue` assumes
weak fairness of a wait whose semaphore stays above zero. `SslDemo` assumes that
the two programs run on where no call blocks, and that the user of a client that
has had an answer ends it sooner or later: the server comes to the next client
in no other way. No run assumes that
anybody starts another call, sends a packet, connects, or unloads.

*Disciplines of the callers.* The driver does not impose them, the properties
need them, and the runs that leave them out fail (section 4): whoever removes
rules is alone in removing and clearing (`SingleRemover`; `OneRemover` of the
programs); nobody tests a port
above `APC_LEVEL` (`DispatchThreads = {}`); programs remove only rules that are
there (`Careful`); one program names the proxy (`OneProgramNames`); a queue is
freed when no caller is in a call, a blocked wait included, or holds a node
(`Quiet`); nobody clears rules where they are
counted (`NoClears`); programs do not log
around `CLOG_evn_uninit` (`Orderly`); a driver is unloaded when quiet
(`Discipline`). They are constants of the modules and hypotheses of the
theorems.

## 4. Where the code does not do what it says

Three disagreements are runs of their own; the counterexample is what the code does.

| Run | Violated | What happens |
|---|---|---|
| `rule_two_removers` | `EntriesOwned` | two removes at once: the first has put back an entry of another rule and still points at it; the second takes that entry out, under the lock, to compare it; the first, in the unlocked `IsListEmpty` of `OpenSSLProxyRule.c:147`, sees an empty list, ends its loop and passes the entry, now in the other's hands, to `RuleEntryFree` (`:177`) |
| `life_unload` | `RulesOutliveReaders` | a callback that read the switch before it was turned off enters the rule manager after `DriverUnload` freed it |
| `classify_rights` | `DecisionKept` | redirection is on and another filter's block comes without the right to change it: the callback finds so (`OpenSSLProxyCallout.c:63-66`), goes to `Exit` and turns the block into a permit (`:201`); `rights ^=` (`:204`) also turns the missing right on. With redirection off (`:58-61`) the way to `Exit`, and the permit, are the same |

Further instances are kept beside them for whoever works on these parts; each
fails, for the reason given:

| Configuration | Violated | Why |
|---|---|---|
| `MCRuleMgr_absent` | `RemoveReturns` | a remove of a rule that is not there, with another rule in the list, never returns (`AbsentNeverReturns` proves it of every number of rules) |
| `MCRuleMgr_clearcount` | `NumsIsRuleCount` | the clears leave `uiRuleNums` alone |
| `MCRuleMgr_swapped` | `ListsAsDocumented` | address 0 is typed `IPADDR` and port 0 `PORT`, the reverse of the comments at `OpenSSLProxyRule.h:33-34` |
| `MCRuleMgr_torn` | `WhitelistSound` | above `APC_LEVEL` the reader takes the other lock and combines two ranges |
| `MCSysQueue_woken` | `WokenForAPacket` | the semaphore is created with count 1 (`Queue.cpp:176`) |
| `MCQueueLife_busy` | `FreedIsUnused` | `SYS_Queue_Free` does not ask whether a caller waits in the queue or holds a node of it |
| `MCQueueLife_dangling` | `ReturnedIsQueue` | when a node cannot be allocated the queue is freed and its pointer returned (`Queue.cpp:199`) |
| `MCQueueLife_section` | `NothingLeft` | the critical section that `Queue.cpp:192` initialises is never deleted, by `SYS_Queue_Free` or a failed creation |
| `MCDriverLife_commit` | `NothingLeaks` | a failed commit leaves the callout registered |
| `MCDriverLife_envinit` | `LoadedMeansReady` | a failed `EnvInit` returns the success of the call before it (`OpenSSLProxyDriver.c:98`) |
| `MCDevControl_told` | `StatusTold` | a rule that was not added is reported as added: `Status` never gets into `IoStatus->Status` (`OpenSSLProxyDevControl.c:75`) |
| `MCDevControl_whole` | `ProxyIsWhole` | two programs that name a proxy at once leave the PID of one with the port of the other |
| `MCCLog_recreated` | `CreatesOnlyWhatIsMissing` | two calls find the file missing; the second empties what the first has written |
| `MCCLog_uninit` | `LogReturns` | the handle is closed under an owner, who can no longer release the mutex |
| `MCSslDemo_ends` | `ServerStays` | one failed handshake ends the server |
| `MCSslDemo_sockets` | `SocketsGivenBack` | `SSL_free` leaves the socket of the last client open |

## 5. What is proved

The theorems hold for any threads, blocks, nodes, rules and limits that meet the
named assumptions on the constants.

* **`RuleMgrProofs`.** `TypeCorrect` and the lock pairing `LockInv` (a thread is
  in a section exactly when it owns the lock of its IRQL) come first, without a
  discipline. `OwnershipCorrect`, `CursorCorrect` and `FreesCorrect` assume
  `SingleRemover`. Neither ownership nor the cursor is inductive alone: that a
  block put back is in one place needs that the cursor is not in the list while
  it is in hand, and that the cursor stays in the list between the rounds needs
  that no other thread takes blocks out; the invariant (`OwnInv`) is
  their conjunction with the types and with what a thread at each place may
  have called.
  *The rotation:* a remove ends because every round brings its rule nearer, while
  others append and the lock is given up in between. `RotationAdvances` says so
  step by step, for any number of adding threads: a place at which the rule stands
  in the list moves up by one with each round and never back, until the rule is
  in hand. `AbsentNeverReturns` is the other side: with no such rule, but others
  of its kind, no step of anybody ends the loop, except that the very rule is
  added. Both follow the positions (`Wanted`) through the one list that changes,
  from `OwnInv`.
  `WhitelistCorrect` and `ReadsCorrect` assume that no thread runs above
  `APC_LEVEL`, and rest on an invariant about what each thread has stored or
  loaded of the range at its place in the section.
* **`RuleMgrStoreProofs`.** `StoreImplemented`: `RuleMgr` implements `RuleStore`,
  under `SingleRemover`. To `OwnInv` it adds `Sorted` (a rule is in the list of
  its type, also while it is compared), without which an empty list would not
  mean that no rule of the kind is left. Each action is classified by what it
  does to the entries in force (`StoreStep`): nothing, one put in, one taken out,
  a kind cleared, a request made or given up. The rotation is the point: an entry
  that is popped, compared and put back never leaves the set. `NumsCorrect`
  follows the same steps with cardinalities and wraps at any width; it assumes
  `NoClears` as well, as the clears do not touch the count.
* **`SysQueueProofs`.** `NoWakeupIsLost` bounds packets by wake-ups under way.
  The limit of the semaphore is the difficulty: a signal that fails at `SemMax`
  loses nothing only because there are never more packets than nodes, so the
  invariant carries the conservation of the nodes by number, and cardinalities
  of the sets of woken consumers and signalling producers.
  `WakeupsBounded` (at most one wake-up more than packets) assumes that every
  consumer waits before it pops.
  *The links:* `RingsStayClosed`, `NoNodeIsLost` and
  `PoolImplemented` (`SysQueue` implements `PacketPool`), with the types, without
  any discipline. The invariant says that there are two sequences of nodes whose
  neighbours are what `next` and `prev` say (`Ring`), apart from each other, and
  that every node in neither is in one hand; a push appends to a sequence, a pop
  takes its tail, whatever the assignments do in between. What the properties
  speak of is a walk along `next` (`Chain`). That the walk finds the sequence
  would be an induction; it is proved from a counterexample of least length
  instead.
  *The life:* `NoListDangles` and `CreatedWell` without a discipline,
  `OnlySectionIsLeft` for an owner that waits for its callers (`Quiet`): a node in
  a caller's hands is lost otherwise. It speaks of nodes, memory and semaphore, as
  the critical section does stay. The invariant (`Built`) has the same two sequences, and the allocated nodes are
  those in them and in hands. While the queue is up this is what the links'
  invariant says with all nodes allocated, so the callers' steps are taken from
  there.
* **`DriverLifeProofs`.** `NothingIsLeaked` and `CodeStaysMapped` assume that the
  commit does not fail, `LoadedIsReady` also that `EnvInit` does not,
  `RulesAreThere` the quiet unload; `TypeCorrect` nothing. The invariant says, for every phase and
  index, exactly what is held: the prefix of `Calls` on the way in, the rest of
  `Releases` on the way out.
* **`ClassifyProofs`.** `TypeCorrect`, `WriteIsGivenUp`, `HandlesAreGivenBack`,
  `FightIsGivenUp` and `FightIsFinite`, for every limit. The invariants say at each
  place of the callback what `write`, `status`, `handle` and `data` can be, and
  that a count above the limit has turned `status` false before the exit.
* **`DevControlProofs`.** `TypeCorrect`; `HandlesCorrect`, in which the rule
  store plays no part: no code of the dispatcher touches a handle; and
  `ProxyStaysWhole`, which assumes `OneProgramNames`. Half way between the two
  stores the PID is that of the request under way, which needs that no other
  program can be half way too. `RemovesCanEnd` assumes `Careful` and `OneRemover`: between the
  look of a program at the rules and that of the driver others run, and the
  invariant (`RemoveInv`) says that meanwhile nobody with a request of his own
  takes the rule away, whoever is terminated.
* **`CLogProofs`.** `HolderAlone`, for programs that are `Orderly`. It is not
  inductive: that the mutex is not freed under its owner when its last handle
  goes needs that whoever logs has a handle, and that an owner gives it up in
  one release needs that it has taken it once. `LockInv` adds both. Without
  `Orderly` the first is false, as `MCCLog_uninit` shows. `LinesAreKept` adds
  that whoever opens the file under the lock finds nobody in it: creation opens
  it too, but only where the file is missing, and then no line is due.
  `WaitsEnd` is what makes the lock fair, given the assumed order: who waits stands in one line, in order
  of arrival (`InLine`), which terminations at its head or within leave a line,
  and as long as there is one somebody is in the section, with one release to make
  and the handle to make it. The line itself needs no discipline, the release does.
  `TypeCorrect` needs no discipline.
* **`SslDemoProofs`.** `TypeCorrect`, `NobodyIsAbandoned`, `MessagesAlternate`,
  `CountsAreConsecutive` and `NobodyStandsOff`, for any clients, queue and width of `iCount`. A
  connection is waiting or open, never both, and has nothing under way before its
  handshake (`QueueInv`, `Fresh`); what either side can know to be over stays
  over (`OverForGood`), so a client that stands after a step stood before it. Turn
  taking then gives that there is at most one answer under way, and the last
  invariant (`Numbered`) says which count it carries: `iCount` is that of the
  client in hand, because nobody else is answered meanwhile. `NobodyStandsOff`
  goes through every blocking call of both programs: turn taking covers the reads,
  and `Told` the handshakes (a socket that the server has open belongs to a client
  past its handshake, in it, or gone). A server that left a failed handshake
  without closing the socket would break it (`Bug_SslAcceptFails`).

### Only model-checked

All liveness (`~>`): the prover handles neither fairness nor `ENABLED`. What is
proved for each of these properties is its safety core, that nothing is waited
for that cannot come or is set back:

| Only model-checked | Proved beside it |
|---|---|
| `RemoveFinds` | `RotationAdvances` |
| `AddReturns` | `LockCorrect`: who owns the lock is in a section, and has a step |
| `PacketsPopped` | `NoWakeupIsLost` |
| `NodesRecycled` | `NoNodeIsLost` |
| `RequestsEnd`, `KilledLeave` | `RemovesCanEnd`, the one code whose request can stay |
| `LogReturns` | `WaitsEnd` |
| `ServedOrTold` | `NobodyStandsOff` |
| `Settles` | `FightIsFinite`, `FightIsGivenUp` |

Every invariant and action property of a passing run, and the refinements, are
theorems. The existence of a first one in a line or a ring of any size is an
induction over data and is not proved either: `WaitsEnd` gives the order, in which
finitely many have a first.

## 6. Not modelled

* Vendored OpenSSL: the headers under `3thrd/`, which are nearly all of the lines
  in the repository, are third-party declarations. The programs' own code is
  what the modules map; of OpenSSL, `SslDemo` has what the programs' calls do.
* The addresses parsed in `EnvInit` and the contents of WFP objects: nothing
  reads or decides by them while `OpenSSLProxy_RuleIsMatch` is a stub.
* What `GETPORTRANGE` leaves in the system's buffer (it is never copied back,
  `Information` is 0).
* The local proxy: its calls of the library are `EnvLibInit`, which `DevControl`
  has, and `OpenSSLProxy_DrvCtrl_SetLocalProxyInfo`, a stub that returns `FALSE`.
  The program compares it with `SYS_ERR` and therefore reports success although
  the driver learns nothing; then it waits for a key. Its release is never
  called, its worker and dispatcher are empty files.
* Packet buffers, crash dump, string helpers: no state, or pure I/O.
* How the demo programs come to their sockets: straight lines without a partner,
  whose end, or failure, is the initial state of the server.

## 7. Order of work, and what is left

The shared state of the driver came first: `RuleMgr` with `RuleStore` and its
proofs, `SysQueue` with `PacketPool` and proofs, `DriverLife` and proofs,
`Classify` and proofs, `DevControl` over `RuleStore`, `CLog`; then `QueueLife`
around `SysQueue`, `SslDemo`, and the proofs of the refinements and of these two.

What the code has today is modelled. Worth doing as it grows: the matching of
rules once `OpenSSLProxy_RuleIsMatch` is written (a read of the three lists under
the lock of the callback's IRQL, which `RuleMgr` is ready for), the local proxy's
start and stop once it tells the driver about itself, and the real callers of the
queue in the place of `Produce` and `Consume`.

## 8. Running

`tlc -config MCRuleMgr_lists.cfg MCRuleMgr`, and likewise the other
configurations, whose names begin with their module's; `tlapm RuleMgrProofs.tla`
and likewise the other `*Proofs`. `PROJECT.json` maps every definition to its
lines and lists runs, mutants, hazards and theorems.
