------------------------------ MODULE SslDemo ------------------------------
(***************************************************************************)
(* The two demo programs: a TLS server that serves one client at a time    *)
(* (OpensslProxyServer.cpp), and runs of the client that asks it again and *)
(* again over one connection (OpensslProxyClient.cpp).                     *)
(*                                                                         *)
(* The library's and the network's part, as the calls use it: a connection *)
(* that is not accepted yet waits in the listener's queue; a blocking call *)
(* returns when there is something to read or the connection is broken; a  *)
(* program that ends closes its sockets, which the other side learns; what *)
(* was sent before is read or lost.  SSL_free leaves the socket open.      *)
(*                                                                         *)
(* Left out: how the server comes to listen, the certificates, the text of *)
(* the messages.  A client that cannot allocate closes its socket and ends *)
(* like one that is terminated.                                            *)
(*                                                                         *)
(* A definition Bug_X is X with a plausible mistake in it.  Nothing uses   *)
(* them; put in the place of X, each breaks the property that guards it.   *)
(***************************************************************************)
EXTENDS Naturals, Sequences, Functions

CONSTANTS
    Clients,        \* runs of the client program
    NoOne,          \* no client is served
    LISTNNUM,       \* how many connections wait to be accepted
    CountMod,       \* the width of iCount: 2^32 in the code
    MaxCuts         \* bound: connections that the network breaks

ASSUME DemoAssumption ==
    /\ NoOne \notin Clients
    /\ LISTNNUM \in Nat /\ CountMod \in Nat \ {0} /\ MaxCuts \in Nat

VARIABLES
    server,     \* where the server's main is
    fd,         \* the client that new_fd and pstSSL belong to
    iCount,     \* of the server: the messages it answered
    backlog,    \* the connections that wait in listen
    held,       \* the clients' sockets that the server has open
    at,         \* where the main of each client is
    secure,     \* the handshake of each connection is done
    asks,       \* messages on their way to the server
    replies,    \* counts on their way to the client
    heard,      \* the count each client read last, CountMod if it read none
    cut, cuts   \* the connections that the network broke, and how many

conns  == <<secure, asks, replies>>
faults == <<cut, cuts>>
vars   == <<server, fd, iCount, backlog, held, at, conns, heard, faults>>

Wrap(n) == n % CountMod

Init ==
    /\ server \in {"accept", "ended"}
    /\ fd = NoOne /\ iCount = 0
    /\ backlog = <<>> /\ held = {}
    /\ at = [c \in Clients |-> "start"]
    /\ secure = [c \in Clients |-> FALSE]
    /\ asks = [c \in Clients |-> 0]
    /\ replies = [c \in Clients |-> <<>>]
    /\ heard = [c \in Clients |-> CountMod]
    /\ cut = {} /\ cuts = 0

\* What each side can know of a connection: whether the other closed it.
ClientGone(c) == at[c] = "ended" \/ c \in cut
ServerGone(c) == c \in cut \/ c \notin held \cup Range(backlog)

\* Both programs run and the network carries what they send.
Stands(c) == ~ClientGone(c) /\ ~ServerGone(c)

-----------------------------------------------------------------------------
(* The server.                                                             *)

\* ErrorExit, and the end of the process.
End ==
    /\ server' = "ended" /\ fd' = NoOne
    /\ held' = {} /\ backlog' = <<>>

\* On to the next client: the SSL is freed, the socket stays open.
Leave == server' = "accept" /\ fd' = NoOne

Accept ==
    /\ server = "accept" /\ backlog # <<>>
    /\ fd' = Head(backlog) /\ held' = held \cup {Head(backlog)}
    /\ backlog' = Tail(backlog)
    /\ server' = "handshake"
    /\ UNCHANGED <<iCount, at, conns, heard, faults>>

\* accept fails when the client has gone meanwhile; SSL_new for want of memory.
AcceptFails ==
    /\ server = "accept" /\ backlog # <<>>
    /\ End
    /\ UNCHANGED <<iCount, at, conns, heard, faults>>

SslAccept ==
    /\ server = "handshake"
    /\ ~ClientGone(fd)
    /\ secure' = [secure EXCEPT ![fd] = TRUE]
    /\ server' = "read"
    /\ UNCHANGED <<fd, iCount, backlog, held, at, asks, replies, heard, faults>>

\* the server goes on without the client, whose socket stays open
Bug_SslAcceptFails ==
    /\ server = "handshake"
    /\ \/ Leave /\ UNCHANGED <<held, backlog>>
       \/ ClientGone(fd) /\ server' = "read" /\ UNCHANGED <<fd, held, backlog>>
    /\ UNCHANGED <<iCount, at, conns, heard, faults>>

\* -1 ends the server; 0, of a client that shut the handshake down, does not.
SslAcceptFails ==
    /\ server = "handshake"
    /\ \/ End
       \/ ClientGone(fd) /\ server' = "read" /\ UNCHANGED <<fd, held, backlog>>
    /\ UNCHANGED <<iCount, at, conns, heard, faults>>

\* counted here and again where it is answered
Bug_SslRead ==
    /\ server = "read" /\ asks[fd] > 0
    /\ asks' = [asks EXCEPT ![fd] = @ - 1]
    /\ iCount' = Wrap(iCount + 1)
    /\ server' = "write"
    /\ UNCHANGED <<fd, backlog, held, at, secure, replies, heard, faults>>

SslRead ==
    /\ server = "read" /\ asks[fd] > 0
    /\ asks' = [asks EXCEPT ![fd] = @ - 1]
    /\ server' = "write"
    /\ UNCHANGED <<fd, iCount, backlog, held, at, secure, replies, heard, faults>>

\* a result of 0 not taken for the end
Bug_SslReadFails ==
    /\ server = "read" /\ ClientGone(fd)
    /\ UNCHANGED vars

SslReadFails ==
    /\ server = "read" /\ ClientGone(fd)
    /\ Leave
    /\ UNCHANGED <<iCount, backlog, held, at, conns, heard, faults>>

\* one answer for each client
Bug_SslWrite ==
    /\ server = "write"
    /\ iCount' = Wrap(iCount + 1)
    /\ replies' = IF ClientGone(fd) THEN replies
                  ELSE [replies EXCEPT ![fd] = Append(@, Wrap(iCount + 1))]
    /\ Leave
    /\ UNCHANGED <<backlog, held, at, secure, asks, heard, faults>>

\* the message answered twice
Bug_SslWrite_Again ==
    /\ server = "write"
    /\ iCount' = Wrap(iCount + 1)
    /\ replies' = IF ClientGone(fd) THEN replies
                  ELSE [replies EXCEPT ![fd] = Append(@, Wrap(iCount + 1))]
    /\ server' \in {"read", "write"}
    /\ UNCHANGED <<fd, backlog, held, at, secure, asks, heard, faults>>

\* Into a connection that is broken it may seem to go well.
SslWrite ==
    /\ server = "write"
    /\ iCount' = Wrap(iCount + 1)
    /\ replies' = IF ClientGone(fd) THEN replies
                  ELSE [replies EXCEPT ![fd] = Append(@, Wrap(iCount + 1))]
    /\ server' = "read"
    /\ UNCHANGED <<fd, backlog, held, at, secure, asks, heard, faults>>

SslWriteFails ==
    /\ server = "write" /\ ClientGone(fd)
    /\ iCount' = Wrap(iCount + 1)
    /\ Leave
    /\ UNCHANGED <<backlog, held, at, conns, heard, faults>>

-----------------------------------------------------------------------------
(* A client.                                                               *)

Go(c, where) == at' = [at EXCEPT ![c] = where]

Connect(c) ==
    /\ at[c] = "start"
    /\ IF server # "ended" /\ Len(backlog) < LISTNNUM
       THEN Go(c, "handshake") /\ backlog' = Append(backlog, c)
       ELSE Go(c, "ended") /\ UNCHANGED backlog
    /\ UNCHANGED <<server, fd, iCount, held, conns, heard, faults>>

\* Whatever SSL_connect returns, a message is written next.
SslConnect(c) ==
    /\ at[c] = "handshake"
    /\ secure[c] \/ ServerGone(c)
    /\ Go(c, "write")
    /\ UNCHANGED <<server, fd, iCount, backlog, held, conns, heard, faults>>

Ask(c) ==
    /\ at[c] = "write" /\ secure[c]
    /\ asks' = IF ServerGone(c) THEN asks ELSE [asks EXCEPT ![c] = @ + 1]
    /\ Go(c, "read")
    /\ UNCHANGED <<server, fd, iCount, backlog, held, secure, replies, heard, faults>>

\* 0 is not taken for a failure; the first message's failure ends the program.
AskFails(c) ==
    /\ at[c] = "write" /\ ServerGone(c)
    /\ \/ Go(c, "read")
       \/ Go(c, IF heard[c] = CountMod THEN "ended" ELSE "pause")
    /\ UNCHANGED <<server, fd, iCount, backlog, held, conns, heard, faults>>

Hear(c) ==
    /\ at[c] = "read" /\ replies[c] # <<>>
    /\ heard' = [heard EXCEPT ![c] = Head(replies[c])]
    /\ replies' = [replies EXCEPT ![c] = Tail(@)]
    /\ Go(c, "write")
    /\ UNCHANGED <<server, fd, iCount, backlog, held, secure, asks, faults>>

HearFails(c) ==
    /\ at[c] = "read" /\ ServerGone(c)
    /\ Go(c, "pause")
    /\ UNCHANGED <<server, fd, iCount, backlog, held, conns, heard, faults>>

\* Its user presses a key at the end, or terminates it.
Stop(c) ==
    /\ at[c] \notin {"start", "ended"}
    /\ Go(c, "ended")
    /\ UNCHANGED <<server, fd, iCount, backlog, held, conns, heard, faults>>

\* The network breaks a connection, and both sides learn of it.
Cut(c) ==
    /\ at[c] \notin {"start", "ended"} /\ c \notin cut
    /\ cuts < MaxCuts
    /\ cut' = cut \cup {c} /\ cuts' = cuts + 1
    /\ UNCHANGED <<server, fd, iCount, backlog, held, at, conns, heard>>

-----------------------------------------------------------------------------
Serve ==
    \/ Accept \/ AcceptFails \/ SslAccept \/ SslAcceptFails
    \/ SslRead \/ SslReadFails \/ SslWrite \/ SslWriteFails

Run(c) == SslConnect(c) \/ Ask(c) \/ AskFails(c) \/ Hear(c) \/ HearFails(c)

Next == Serve \/ \E c \in Clients : Connect(c) \/ Run(c) \/ Stop(c) \/ Cut(c)

Spec == Init /\ [][Next]_vars

(* The programs run on where no call blocks, and the user of a client that *)
(* has had an answer ends it sooner or later: the server knows no other    *)
(* way to come to the next one.                                            *)
FairSpec ==
    /\ Spec /\ WF_vars(Serve)
    /\ \A c \in Clients : WF_vars(Run(c)) /\ WF_vars(heard[c] # CountMod /\ Stop(c))

-----------------------------------------------------------------------------
(* Every variable has its type, and the server has a client in hand        *)
(* exactly while it is in the client's part of the loop.                   *)
TypeOK ==
    /\ server \in {"accept", "handshake", "read", "write", "ended"}
    /\ fd \in Clients \cup {NoOne}
    /\ fd = NoOne <=> server \in {"accept", "ended"}
    /\ iCount \in 0 .. CountMod - 1
    /\ backlog \in Seq(Clients) /\ held \subseteq Clients
    /\ at \in [Clients -> {"start", "handshake", "write", "read", "pause", "ended"}]
    /\ secure \in [Clients -> BOOLEAN] /\ asks \in [Clients -> Nat]
    /\ replies \in [Clients -> Seq(0 .. CountMod - 1)]
    /\ heard \in [Clients -> 0 .. CountMod]
    /\ cut \subseteq Clients /\ cuts \in 0 .. MaxCuts

(* The server never turns away from a client that is there: it leaves the  *)
(* sockets of earlier clients open, so one that was still waiting for an   *)
(* answer would not be told (Server.cpp:170-202).                          *)
NoneAbandoned == \A c \in Clients : secure[c] /\ Stands(c) => fd = c

(* The two programs never wait for each other: while the connection        *)
(* stands, there is exactly one message under way, or in the server's      *)
(* hands, when the client reads, and none otherwise (Server.cpp:170-196,   *)
(* Client.cpp:148-187).                                                    *)
OneUnderWay ==
    \A c \in Clients :
        secure[c] /\ Stands(c) =>
            asks[c] + Len(replies[c]) + (IF fd = c /\ server = "write" THEN 1 ELSE 0)
                = IF at[c] = "read" THEN 1 ELSE 0

(* No call waits for what cannot come: a client in a blocking call has its *)
(* answer or its error, is in the queue of the listener, or is the one     *)
(* that the server works for; and a server that waits for a message waits  *)
(* for a client that has a step to make (Server.cpp:138-202,               *)
(* Client.cpp:139-187).                                                    *)
NoStandoff ==
    /\ \A c \in Clients : ~ServerGone(c) =>
          /\ at[c] = "handshake" =>
                secure[c] \/ c \in Range(backlog) \/ (fd = c /\ server = "handshake")
          /\ at[c] = "write" => secure[c]
          /\ at[c] = "read" =>
                replies[c] # <<>> \/ (fd = c /\ (server = "write" \/ asks[c] > 0))
    /\ server = "read" /\ ~ClientGone(fd) =>
          \/ asks[fd] > 0
          \/ secure[fd] /\ at[fd] \in {"handshake", "write"}
          \/ at[fd] = "read" /\ replies[fd] # <<>>

(* One client at a time, "单次仅处理一个客户端的报文" (Server.cpp:169): between   *)
(* two answers to a client nobody else is answered, and none is lost, so   *)
(* the counts that it reads follow one another.                            *)
CountsFollow ==
    [][\A c \in Clients :
          at[c] = "read" /\ at'[c] = "write" /\ heard[c] # CountMod
              => heard'[c] = Wrap(heard[c] + 1)]_vars

(* Whoever waits for the server is answered or told: a client that has     *)
(* connected gets an answer, or an error that ends it, and every call that *)
(* waits for an answer returns (Server.cpp:138-227, Client.cpp:139-187).   *)
ServedOrTold ==
    \A c \in Clients :
        /\ at[c] = "handshake" ~> heard[c] # CountMod \/ at[c] \in {"pause", "ended"}
        /\ at[c] = "read" ~> at[c] # "read"

(* A client that ends does not end the server: it frees what belongs to    *)
(* that client and goes on to the next (Server.cpp:169, 197).              *)
ServerStays == [][server = "handshake" => server' # "ended"]_vars

(* What the server acquired for a client is given back before the next     *)
(* one, "先释放上一次的SSL" (Server.cpp:197): the socket too.                    *)
SocketsGivenBack == server = "accept" => held = {}

=============================================================================
