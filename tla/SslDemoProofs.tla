--------------------------- MODULE SslDemoProofs ---------------------------
(***************************************************************************)
(* Proofs about SslDemo, for any number of clients, any queue and any      *)
(* width of the count.                                                     *)
(*                                                                         *)
(*   QueueInv    whose sockets are where, and what the server has in hand  *)
(*   Fresh       what is true of a client before its handshake             *)
(*   InTurn      nobody who is there is abandoned, and the two programs    *)
(*               take turns                                                *)
(*   Numbered    the count in the one answer that can be under way         *)
(*   Told        who waits for the server is in its hands, or was told     *)
(***************************************************************************)
EXTENDS SslDemo, SequenceTheorems, TLAPS

USE DemoAssumption

LEMMA RangeAppend ==
    ASSUME NEW S, NEW s \in Seq(S), NEW e \in S
    PROVE  /\ Range(Append(s, e)) = Range(s) \cup {e}
           /\ IsInjective(s) /\ e \notin Range(s) => IsInjective(Append(s, e))
<1>1. /\ Len(s) \in Nat /\ DOMAIN s = 1 .. Len(s)
      /\ DOMAIN Append(s, e) = 1 .. Len(s) + 1
      /\ \A i \in 1 .. Len(s) : Append(s, e)[i] = s[i]
      /\ Append(s, e)[Len(s) + 1] = e
  BY AppendProperties
<1>2. \A i \in 1 .. Len(s) + 1 : i \in 1 .. Len(s) \/ i = Len(s) + 1
  BY <1>1
<1>3. Len(s) + 1 \in 1 .. Len(s) + 1 /\ 1 .. Len(s) \subseteq 1 .. Len(s) + 1
  BY <1>1
<1>4. ASSUME NEW x PROVE x \in Range(Append(s, e)) <=> x \in Range(s) \/ x = e
  <2>1. x \in Range(Append(s, e)) <=> \E i \in 1 .. Len(s) + 1 : Append(s, e)[i] = x
    BY <1>1 DEF Range
  <2>2. x \in Range(s) <=> \E i \in 1 .. Len(s) : s[i] = x
    BY <1>1 DEF Range
  <2> QED BY <1>1, <1>2, <1>3, <2>1, <2>2
<1>5. ASSUME IsInjective(s), e \notin Range(s) PROVE IsInjective(Append(s, e))
  <2>1. \A i \in 1 .. Len(s) : s[i] # e
    BY <1>5, <1>1 DEF Range
  <2> QED BY <2>1, <1>5, <1>1, <1>2 DEF IsInjective
<1> QED BY <1>4, <1>5

LEMMA RangeTail ==
    ASSUME NEW S, NEW s \in Seq(S), s # <<>>
    PROVE  /\ Head(s) \in S /\ Tail(s) \in Seq(S)
           /\ Range(s) = Range(Tail(s)) \cup {Head(s)}
           /\ IsInjective(s) => IsInjective(Tail(s)) /\ Head(s) \notin Range(Tail(s))
<1>1. /\ Len(s) \in Nat \ {0} /\ Head(s) = s[1] /\ s[1] \in S
      /\ Tail(s) \in Seq(S) /\ Len(Tail(s)) = Len(s) - 1
      /\ \A i \in 1 .. Len(s) - 1 : Tail(s)[i] = s[i + 1]
  BY HeadTailProperties
<1>2. DOMAIN s = 1 .. Len(s) /\ DOMAIN Tail(s) = 1 .. Len(s) - 1
  BY <1>1
<1>3. ASSUME NEW x PROVE x \in Range(s) <=> x \in Range(Tail(s)) \/ x = Head(s)
  <2>1. x \in Range(s) <=> \E i \in 1 .. Len(s) : s[i] = x
    BY <1>2 DEF Range
  <2>2. x \in Range(Tail(s)) <=> \E i \in 1 .. Len(s) - 1 : s[i + 1] = x
    BY <1>1, <1>2 DEF Range
  <2>3. \A i \in 1 .. Len(s) : i = 1 \/ (i - 1 \in 1 .. Len(s) - 1 /\ (i - 1) + 1 = i)
    BY <1>1
  <2>4. 1 \in 1 .. Len(s) /\ \A i \in 1 .. Len(s) - 1 : i + 1 \in 1 .. Len(s)
    BY <1>1
  <2> QED BY <1>1, <2>1, <2>2, <2>3, <2>4
<1>4. ASSUME IsInjective(s)
      PROVE  IsInjective(Tail(s)) /\ Head(s) \notin Range(Tail(s))
  <2>1. \A i, j \in 1 .. Len(s) : s[i] = s[j] => i = j
    BY <1>4, <1>2 DEF IsInjective
  <2>2. IsInjective(Tail(s))
    BY <2>1, <1>1, <1>2 DEF IsInjective
  <2>3. \A i \in 1 .. Len(s) - 1 : Tail(s)[i] # Head(s)
    BY <2>1, <1>1
  <2> QED BY <2>2, <2>3, <1>2 DEF Range
<1> QED BY <1>1, <1>3, <1>4

LEMMA RangeEmpty == Range(<<>>) = {} /\ IsInjective(<<>>)
BY DEF Range, IsInjective

-----------------------------------------------------------------------------
(* Types.                                                                  *)

LEMMA WrapRange == \A n \in Nat : Wrap(n) \in 0 .. CountMod - 1
BY DEF Wrap

LEMMA TypeInit == Init => TypeOK
BY DEF Init, TypeOK

LEMMA TypeStep == TypeOK /\ [Next]_vars => TypeOK'
<1> SUFFICES ASSUME TypeOK, [Next]_vars PROVE TypeOK'
  OBVIOUS
<1> USE DEF TypeOK
<1>1. CASE Accept
  <2>1. Head(backlog) \in Clients /\ Tail(backlog) \in Seq(Clients)
    BY <1>1, RangeTail DEF Accept
  <2> QED BY <1>1, <2>1 DEF Accept, conns, faults
<1>2. CASE AcceptFails \/ SslAcceptFails
  <2>1. <<>> \in Seq(Clients)
    OBVIOUS
  <2> QED BY <1>2, <2>1 DEF AcceptFails, SslAcceptFails, End, conns, faults
<1>3. CASE SslAccept
  BY <1>3 DEF SslAccept, faults
<1>4. CASE SslRead
  BY <1>4 DEF SslRead, faults
<1>5. CASE SslReadFails
  BY <1>5 DEF SslReadFails, Leave, conns, faults
<1>6. CASE SslWrite \/ SslWriteFails
  <2>1. iCount + 1 \in Nat /\ iCount' = Wrap(iCount + 1)
    BY <1>6 DEF SslWrite, SslWriteFails
  <2>2. iCount' \in 0 .. CountMod - 1
    <3> HIDE DEF TypeOK
    <3> QED BY <2>1, WrapRange
  <2>3. replies' \in [Clients -> Seq(0 .. CountMod - 1)]
    <3>1. CASE replies' = replies
      BY <3>1
    <3>2. CASE replies' = [replies EXCEPT ![fd] = Append(replies[fd], iCount')]
      <4>1. fd \in Clients => Append(replies[fd], iCount') \in Seq(0 .. CountMod - 1)
        BY <2>2, AppendProperties
      <4> QED BY <3>2, <4>1
    <3> QED BY <1>6, <2>1, <3>1, <3>2 DEF SslWrite, SslWriteFails, conns
  <2> QED BY <1>6, <2>2, <2>3 DEF SslWrite, SslWriteFails, Leave, conns, faults
<1>7. ASSUME NEW c \in Clients, Connect(c) PROVE TypeOK'
  <2>1. Append(backlog, c) \in Seq(Clients)
    BY AppendProperties
  <2> QED BY <1>7, <2>1 DEF Connect, Go, conns, faults
<1>8. ASSUME NEW c \in Clients, SslConnect(c) \/ AskFails(c) \/ HearFails(c) \/ Stop(c)
      PROVE  TypeOK'
  BY <1>8 DEF SslConnect, AskFails, HearFails, Stop, Go, conns, faults
<1>9. ASSUME NEW c \in Clients, Ask(c) PROVE TypeOK'
  BY <1>9 DEF Ask, Go, conns, faults
<1>10. ASSUME NEW c \in Clients, Hear(c) PROVE TypeOK'
  <2>1. Head(replies[c]) \in 0 .. CountMod - 1 /\ Tail(replies[c]) \in Seq(0 .. CountMod - 1)
    BY <1>10, RangeTail DEF Hear
  <2> QED BY <1>10, <2>1 DEF Hear, Go, faults
<1>11. ASSUME NEW c \in Clients, Cut(c) PROVE TypeOK'
  BY <1>11 DEF Cut, conns
<1>12. CASE UNCHANGED vars
  BY <1>12 DEF vars, conns, faults
<1> QED
  BY <1>1, <1>2, <1>3, <1>4, <1>5, <1>6, <1>7, <1>8, <1>9, <1>10, <1>11, <1>12
     DEF Next, Serve, Run

(* Every variable has its type, and the server has a client in hand        *)
(* exactly inside its loop over one client, for any clients and any width  *)
(* of the count (Server.cpp:138-202).                                      *)
THEOREM TypeCorrect == Spec => []TypeOK
BY TypeInit, TypeStep, PTL DEF Spec

-----------------------------------------------------------------------------
(* The invariant.                                                          *)

QueueInv ==
    /\ IsInjective(backlog)
    /\ \A c \in Clients : c \in Range(backlog) => c \notin held
    /\ fd # NoOne => fd \in held
    /\ \A c \in Clients : at[c] = "start" => c \notin held /\ c \notin Range(backlog)

Fresh ==
    /\ server = "handshake" => ~secure[fd]
    /\ server = "write" => secure[fd]
    /\ \A c \in Clients : secure[c] => c \notin Range(backlog) /\ at[c] # "start"
    /\ \A c \in Clients :
          ~secure[c] => /\ asks[c] = 0 /\ replies[c] = <<>> /\ heard[c] = CountMod
                        /\ ServerGone(c) \/ at[c] \in {"start", "handshake", "ended"}

InTurn == NoneAbandoned /\ OneUnderWay

\* What an answer to a client that has read one before has to be.
Due(c, n) == heard[c] # CountMod => n = Wrap(heard[c] + 1)

Numbered ==
    \A c \in Clients :
        /\ replies[c] # <<>> => Len(replies[c]) = 1 /\ Due(c, Head(replies[c]))
        /\ fd = c /\ ~ClientGone(c) =>
              IF replies[c] # <<>> THEN iCount = Head(replies[c])
              ELSE heard[c] # CountMod => iCount = heard[c]

-----------------------------------------------------------------------------
LEMMA QueueStep ==
    ASSUME TypeOK, QueueInv, [Next]_vars
    PROVE  QueueInv'
<1> USE DEF TypeOK, QueueInv
<1>1. CASE Accept
  <2>1. /\ Head(backlog) \in Clients
        /\ Range(backlog) = Range(Tail(backlog)) \cup {Head(backlog)}
        /\ IsInjective(Tail(backlog)) /\ Head(backlog) \notin Range(Tail(backlog))
    BY <1>1, RangeTail DEF Accept
  <2>2. IsInjective(backlog')
    BY <1>1, <2>1 DEF Accept
  <2>3. \A c \in Clients : c \in Range(backlog') => c \in Range(backlog) /\ c # Head(backlog)
    BY <1>1, <2>1 DEF Accept
  <2> QED BY <1>1, <2>1, <2>2, <2>3 DEF Accept
<1>2. CASE AcceptFails \/ SslAcceptFails
  <2>1. CASE End /\ UNCHANGED at
    <3>1. backlog' = <<>> /\ held' = {} /\ fd' = NoOne
      BY <2>1 DEF End
    <3> QED BY <2>1, <3>1, RangeEmpty
  <2>2. CASE UNCHANGED <<fd, held, backlog, at>>
    BY <2>2
  <2> QED BY <1>2, <2>1, <2>2 DEF AcceptFails, SslAcceptFails
<1>3. CASE SslAccept \/ SslRead \/ SslReadFails \/ SslWrite \/ SslWriteFails
  <2>1. UNCHANGED <<held, backlog, at>> /\ fd' \in {fd, NoOne}
    BY <1>3 DEF SslAccept, SslRead, SslReadFails, SslWrite, SslWriteFails, Leave
  <2> QED BY <2>1
<1>4. ASSUME NEW c \in Clients, Connect(c) PROVE QueueInv'
  <2>1. CASE backlog' = Append(backlog, c) /\ at' = [at EXCEPT ![c] = "handshake"]
    <3>1. c \notin held /\ c \notin Range(backlog)
      BY <1>4 DEF Connect
    <3>2. Range(backlog') = Range(backlog) \cup {c} /\ IsInjective(backlog')
      BY <2>1, <3>1, RangeAppend
    <3> QED BY <1>4, <2>1, <3>1, <3>2 DEF Connect
  <2>2. CASE UNCHANGED backlog /\ at' = [at EXCEPT ![c] = "ended"]
    BY <1>4, <2>2 DEF Connect
  <2> QED BY <1>4, <2>1, <2>2 DEF Connect, Go
<1>5. ASSUME NEW c \in Clients, Run(c) \/ Stop(c) \/ Cut(c) PROVE QueueInv'
  <2>1. UNCHANGED <<fd, held, backlog>> /\ \A d \in Clients : at'[d] = "start" => at[d] = "start"
    BY <1>5 DEF Run, SslConnect, Ask, AskFails, Hear, HearFails, Stop, Cut, Go
  <2> QED BY <2>1
<1>6. CASE UNCHANGED vars
  BY <1>6 DEF vars
<1> QED
  BY <1>1, <1>2, <1>3, <1>4, <1>5, <1>6 DEF Next, Serve

\* Once one side of a connection can know that it is over, it can know it for good.
LEMMA OverForGood ==
    ASSUME TypeOK, QueueInv, [Next]_vars, NEW c \in Clients
    PROVE  /\ ClientGone(c) => ClientGone(c)'
           /\ at[c] # "start" /\ ServerGone(c) => ServerGone(c)'
<1> USE DEF TypeOK, ClientGone, ServerGone
<1>1. CASE Accept
  <2>1. /\ Head(backlog) \in Clients
        /\ Range(backlog) = Range(Tail(backlog)) \cup {Head(backlog)}
    BY <1>1, RangeTail DEF Accept
  <2> QED BY <1>1, <2>1 DEF Accept, faults
<1>2. CASE AcceptFails \/ SslAcceptFails
  <2>1. CASE End /\ UNCHANGED <<at, faults>>
    BY <2>1, RangeEmpty DEF End, faults
  <2>2. CASE UNCHANGED <<held, backlog, at, faults>>
    BY <2>2 DEF faults
  <2> QED BY <1>2, <2>1, <2>2 DEF AcceptFails, SslAcceptFails
<1>3. CASE SslAccept \/ SslRead \/ SslReadFails \/ SslWrite \/ SslWriteFails
  <2>1. UNCHANGED <<held, backlog, at, faults>>
    BY <1>3 DEF SslAccept, SslRead, SslReadFails, SslWrite, SslWriteFails
  <2> QED BY <2>1 DEF faults
<1>4. ASSUME NEW d \in Clients, Connect(d)
      PROVE  /\ ClientGone(c) => ClientGone(c)'
             /\ at[c] # "start" /\ ServerGone(c) => ServerGone(c)'
  <2>1. backlog' = backlog \/ Range(backlog') = Range(backlog) \cup {d}
    BY <1>4, RangeAppend DEF Connect
  <2>2. at[d] = "start" /\ UNCHANGED <<held, faults>> /\ \A e \in Clients : e # d => at'[e] = at[e]
    BY <1>4 DEF Connect, Go
  <2> QED BY <1>4, <2>1, <2>2 DEF Connect, Go, faults
<1>5. ASSUME NEW d \in Clients, Run(d) \/ Stop(d) \/ Cut(d)
      PROVE  /\ ClientGone(c) => ClientGone(c)'
             /\ at[c] # "start" /\ ServerGone(c) => ServerGone(c)'
  <2>1. UNCHANGED <<held, backlog>> /\ cut \subseteq cut'
    BY <1>5 DEF Run, SslConnect, Ask, AskFails, Hear, HearFails, Stop, Cut, faults
  <2>2. at[c] = "ended" => at'[c] = "ended"
    BY <1>5 DEF Run, SslConnect, Ask, AskFails, Hear, HearFails, Stop, Cut, Go
  <2> QED BY <2>1, <2>2
<1>6. CASE UNCHANGED vars
  BY <1>6 DEF vars, faults
<1> QED
  BY <1>1, <1>2, <1>3, <1>4, <1>5, <1>6 DEF Next, Serve

LEMMA BacklogFrom ==
    ASSUME TypeOK, [Next]_vars, NEW c \in Clients, c \in Range(backlog)'
    PROVE  c \in Range(backlog) \/ Connect(c)
<1> USE DEF TypeOK
<1>1. CASE Accept
  BY <1>1, RangeTail DEF Accept
<1>2. CASE End
  BY <1>2, RangeEmpty DEF End
<1>3. CASE UNCHANGED backlog
  BY <1>3
<1>4. ASSUME NEW d \in Clients, Connect(d) PROVE c \in Range(backlog) \/ Connect(c)
  <2>1. Range(backlog)' = Range(backlog) \/ Range(backlog)' = Range(backlog) \cup {d}
    BY <1>4, RangeAppend DEF Connect
  <2>2. CASE c = d
    BY <1>4, <2>2
  <2> QED BY <2>1, <2>2
<1>5. Accept \/ End \/ UNCHANGED backlog \/ \E d \in Clients : Connect(d)
  BY DEF Next, Serve, Run, AcceptFails, SslAccept, SslAcceptFails, SslRead, SslReadFails,
         SslWrite, SslWriteFails, SslConnect, Ask, AskFails, Hear, HearFails, Stop, Cut, vars
<1> QED BY <1>1, <1>2, <1>3, <1>4, <1>5

LEMMA FreshStep ==
    ASSUME TypeOK, QueueInv, Fresh, [Next]_vars
    PROVE  Fresh'
<1> USE DEF TypeOK
<1> DEFINE Unread(c) == asks[c] = 0 /\ replies[c] = <<>> /\ heard[c] = CountMod
           Early(c) == at[c] \in {"start", "handshake", "ended"}
<1>1. /\ server' = "handshake" => ~secure'[fd']
      /\ server' = "write" => secure'[fd']
  <2>1. CASE Accept
    BY <2>1, RangeTail DEF Accept, Fresh, conns
  <2>2. CASE SslRead
    BY <2>2 DEF SslRead, Fresh
  <2>3. CASE server' \notin {"handshake", "write"}
    BY <2>3
  <2>4. CASE UNCHANGED <<server, fd, secure>>
    BY <2>4 DEF Fresh
  <2> QED
    BY <2>1, <2>2, <2>3, <2>4
       DEF Next, Serve, Run, AcceptFails, SslAccept, SslAcceptFails, SslReadFails, SslWrite,
           SslWriteFails, Connect, SslConnect, Ask, AskFails, Hear, HearFails, Stop, Cut,
           End, Leave, vars, conns
<1>2. ASSUME NEW c \in Clients
      PROVE  /\ secure[c] => secure'[c]
             /\ secure'[c] => secure[c] \/ (c = fd /\ SslAccept)
  BY DEF Next, Serve, Run, Accept, AcceptFails, SslAccept, SslAcceptFails, SslRead,
         SslReadFails, SslWrite, SslWriteFails, Connect, SslConnect, Ask, AskFails, Hear,
         HearFails, Stop, Cut, vars, conns
<1>3. ASSUME NEW c \in Clients, at[c] # "start" PROVE at'[c] # "start"
  BY <1>3
     DEF Next, Serve, Run, Accept, AcceptFails, SslAccept, SslAcceptFails, SslRead,
         SslReadFails, SslWrite, SslWriteFails, Connect, SslConnect, Ask, AskFails, Hear,
         HearFails, Stop, Cut, Go, vars
<1>4. ASSUME NEW c \in Clients, secure'[c]
      PROVE  c \notin Range(backlog)' /\ at'[c] # "start"
  <2>1. c \notin Range(backlog) /\ at[c] # "start"
    <3>1. CASE secure[c]
      BY <3>1 DEF Fresh
    <3>2. CASE c = fd /\ SslAccept
      BY <3>2 DEF SslAccept, QueueInv
    <3> QED BY <1>2, <1>4, <3>1, <3>2
  <2> QED BY <2>1, <1>3, BacklogFrom DEF Connect
<1>5. ASSUME NEW c \in Clients, ~secure'[c] PROVE Unread(c)'
  <2>1. ~secure[c] /\ Unread(c)
    BY <1>2, <1>5 DEF Fresh
  <2> QED
    BY <1>1, <2>1
       DEF Fresh, Next, Serve, Run, Accept, AcceptFails, SslAccept, SslAcceptFails, SslRead,
           SslReadFails, SslWrite, SslWriteFails, Connect, SslConnect, Ask, AskFails, Hear,
           HearFails, Stop, Cut, vars, conns
<1>6. ASSUME NEW c \in Clients, ~secure'[c] PROVE ServerGone(c)' \/ Early(c)'
  <2>1. ~secure[c] /\ (ServerGone(c) \/ Early(c))
    BY <1>2, <1>6 DEF Fresh
  <2>2. CASE ServerGone(c) /\ at[c] # "start"
    BY <2>2, OverForGood
  <2>3. CASE Early(c)
    <3>1. ASSUME UNCHANGED at PROVE Early(c)'
      BY <2>3, <3>1
    <3>2. ASSUME NEW d \in Clients, Connect(d) \/ Run(d) \/ Stop(d) \/ Cut(d)
          PROVE  Early(c)' \/ (ServerGone(c) /\ at[c] # "start")
      <4>1. CASE c = d
        BY <2>1, <2>3, <3>2, <4>1
           DEF Run, Connect, SslConnect, Ask, AskFails, Hear, HearFails, Stop, Cut, Go
      <4>2. CASE c # d
        BY <2>3, <3>2, <4>2
           DEF Run, Connect, SslConnect, Ask, AskFails, Hear, HearFails, Stop, Cut, Go
      <4> QED BY <4>1, <4>2
    <3>3. UNCHANGED at \/ \E d \in Clients : Connect(d) \/ Run(d) \/ Stop(d) \/ Cut(d)
      BY DEF Next, Serve, Accept, AcceptFails, SslAccept, SslAcceptFails, SslRead,
             SslReadFails, SslWrite, SslWriteFails, vars
    <3>4. Early(c)' \/ (ServerGone(c) /\ at[c] # "start")
      BY <3>1, <3>2, <3>3
    <3> QED BY <3>4, OverForGood
  <2> QED BY <2>1, <2>2, <2>3
<1> QED BY <1>1, <1>4, <1>5, <1>6 DEF Fresh

-----------------------------------------------------------------------------
(* Nobody is abandoned, and the two programs take turns.                   *)

\* A client that stands after a step stood before it.
LEMMA StoodBefore ==
    ASSUME TypeOK, QueueInv, Fresh, [Next]_vars, NEW c \in Clients, secure[c], Stands(c)'
    PROVE  Stands(c)
BY OverForGood DEF Fresh, Stands

LEMMA SecureFrom ==
    ASSUME TypeOK, [Next]_vars, NEW c \in Clients, secure'[c]
    PROVE  secure[c] \/ (c = fd /\ SslAccept)
BY DEF TypeOK, Next, Serve, Run, Accept, AcceptFails, SslAccept, SslAcceptFails, SslRead,
       SslReadFails, SslWrite, SslWriteFails, Connect, SslConnect, Ask, AskFails, Hear,
       HearFails, Stop, Cut, vars, conns

LEMMA AbandonStep ==
    ASSUME TypeOK, QueueInv, Fresh, NoneAbandoned, [Next]_vars
    PROVE  NoneAbandoned'
<1> SUFFICES ASSUME NEW c \in Clients, secure'[c], Stands(c)' PROVE fd' = c
  BY DEF NoneAbandoned
<1>1. CASE c = fd /\ SslAccept
  BY <1>1 DEF SslAccept
<1>2. CASE secure[c]
  <2>1. Stands(c) /\ fd = c /\ ~ClientGone(fd)
    BY <1>2, StoodBefore DEF NoneAbandoned, Stands
  <2>2. ~End
    BY RangeEmpty DEF End, Stands, ServerGone
  <2>3. server \in {"handshake", "read", "write"}
    BY <2>1, DemoAssumption DEF TypeOK
  <2> QED
    BY <2>1, <2>2, <2>3
       DEF Next, Serve, Run, Accept, AcceptFails, SslAccept, SslAcceptFails, SslRead,
           SslReadFails, SslWrite, SslWriteFails, Connect, SslConnect, Ask, AskFails, Hear,
           HearFails, Stop, Cut, vars, faults
<1> QED BY <1>1, <1>2, SecureFrom

LEMMA Lengths ==
    ASSUME NEW S, NEW s \in Seq(S), NEW e \in S
    PROVE  /\ Len(s) \in Nat /\ (s = <<>> <=> Len(s) = 0)
           /\ Append(s, e) \in Seq(S) /\ Len(Append(s, e)) = Len(s) + 1
           /\ s = <<>> => Head(Append(s, e)) = e
           /\ s # <<>> => /\ Head(s) \in S /\ Tail(s) \in Seq(S) /\ Len(Tail(s)) = Len(s) - 1
                          /\ Len(s) = 1 => Tail(s) = <<>>
<1>1. Len(s) \in Nat /\ (s = <<>> <=> Len(s) = 0)
  BY EmptySeq
<1>2. Append(s, e) \in Seq(S) /\ Len(Append(s, e)) = Len(s) + 1
  BY AppendProperties
<1>3. ASSUME s = <<>> PROVE Head(Append(s, e)) = e
  <2>1. Append(s, e)[1] = e /\ Append(s, e) # <<>>
    BY <1>1, <1>3, AppendProperties
  <2> QED BY <1>2, <2>1, HeadTailProperties
<1>4. ASSUME s # <<>>
      PROVE  /\ Head(s) \in S /\ Tail(s) \in Seq(S) /\ Len(Tail(s)) = Len(s) - 1
             /\ Len(s) = 1 => Tail(s) = <<>>
  <2>1. Head(s) \in S /\ Tail(s) \in Seq(S) /\ Len(Tail(s)) = Len(s) - 1
    BY <1>4, HeadTailProperties
  <2> QED BY <1>1, <2>1, EmptySeq
<1> QED BY <1>1, <1>2, <1>3, <1>4

\* What is under way between the server and a client.
UnderWay(c) ==
    asks[c] + Len(replies[c]) + (IF fd = c /\ server = "write" THEN 1 ELSE 0)

LEMMA TurnStep ==
    ASSUME TypeOK, QueueInv, Fresh, InTurn, [Next]_vars
    PROVE  OneUnderWay'
<1> USE DEF TypeOK, InTurn
<1> SUFFICES ASSUME NEW c \in Clients, secure'[c], Stands(c)'
             PROVE  UnderWay(c)' = IF at'[c] = "read" THEN 1 ELSE 0
  BY DEF OneUnderWay, UnderWay
<1>1. CASE c = fd /\ SslAccept
  <2>1. asks[c] = 0 /\ replies[c] = <<>> /\ at[c] \in {"start", "handshake", "ended"}
    BY <1>1 DEF SslAccept, Fresh, Stands, ServerGone, faults
  <2> QED BY <1>1, <2>1 DEF SslAccept, UnderWay
<1>2. CASE secure[c]
  <2>1. /\ fd = c /\ ~ClientGone(c) /\ ~ServerGone(c)
        /\ UnderWay(c) = IF at[c] = "read" THEN 1 ELSE 0
    BY <1>2, StoodBefore DEF NoneAbandoned, OneUnderWay, UnderWay, Stands
  <2>2. server \in {"read", "write"}
    BY <1>2, <2>1, DemoAssumption DEF Fresh
  <2>3. /\ asks[c] \in Nat /\ Len(replies[c]) \in Nat
        /\ replies[c] # <<>> => Len(Tail(replies[c])) = Len(replies[c]) - 1
    BY Lengths, 0 \in 0 .. CountMod - 1
  <2>4. CASE SslRead
    BY <2>1, <2>3, <2>4 DEF SslRead, UnderWay
  <2>5. CASE SslWrite
    <3>1. iCount' \in 0 .. CountMod - 1
      BY TypeStep
    <3>2. /\ replies'[c] = Append(replies[c], iCount') /\ server' = "read"
          /\ UNCHANGED <<asks, at, fd>>
      BY <2>1, <2>5 DEF SslWrite
    <3>3. Len(replies'[c]) = Len(replies[c]) + 1
      BY <3>1, <3>2, Lengths
    <3> QED BY <2>1, <2>3, <2>5, <3>2, <3>3 DEF SslWrite, UnderWay
  <2>6. ASSUME NEW d \in Clients, d # c, Connect(d) \/ Run(d) \/ Stop(d) \/ Cut(d)
        PROVE  UnderWay(c)' = IF at'[c] = "read" THEN 1 ELSE 0
    <3>1. /\ asks'[c] = asks[c] /\ replies'[c] = replies[c] /\ at'[c] = at[c]
          /\ fd' = fd /\ server' = server
      BY <2>6 DEF Run, Connect, SslConnect, Ask, AskFails, Hear, HearFails, Stop, Cut, Go, conns
    <3> QED BY <2>1, <3>1 DEF UnderWay
  <2>7. CASE Connect(c) \/ SslConnect(c) \/ Stop(c) \/ Cut(c)
    <3>1. UNCHANGED <<asks, replies, fd, server>> /\ (at'[c] = "read" <=> at[c] = "read")
      BY <1>2, <2>1, <2>7
         DEF Connect, SslConnect, Stop, Cut, Go, conns, Fresh, Stands, ClientGone
    <3> QED BY <2>1, <3>1 DEF UnderWay
  <2>8. CASE Ask(c)
    BY <2>1, <2>3, <2>8 DEF Ask, Go, UnderWay
  <2>9. CASE Hear(c)
    BY <2>1, <2>3, <2>9 DEF Hear, Go, UnderWay
  <2>10. CASE UNCHANGED vars
    BY <2>1, <2>10 DEF vars, conns, UnderWay
  <2>11. ~AskFails(c) /\ ~HearFails(c)
    BY <2>1 DEF AskFails, HearFails
  <2>12. /\ ~Accept /\ ~AcceptFails /\ ~SslAccept /\ ~SslAcceptFails
         /\ ~SslReadFails /\ ~SslWriteFails
    BY <2>1, <2>2 DEF Accept, AcceptFails, SslAccept, SslAcceptFails, SslReadFails, SslWriteFails
  <2> QED
    BY <2>4, <2>5, <2>6, <2>7, <2>8, <2>9, <2>10, <2>11, <2>12 DEF Next, Serve, Run
<1> QED BY <1>1, <1>2, SecureFrom

-----------------------------------------------------------------------------
(* The counts.                                                             *)

\* What Numbered says of one client.
Count(c) ==
    /\ replies[c] # <<>> => Len(replies[c]) = 1 /\ Due(c, Head(replies[c]))
    /\ fd = c /\ ~ClientGone(c) =>
          IF replies[c] # <<>> THEN iCount = Head(replies[c])
          ELSE heard[c] # CountMod => iCount = heard[c]

LEMMA NumberStep ==
    ASSUME TypeOK, QueueInv, Fresh, InTurn, Numbered, [Next]_vars
    PROVE  Numbered'
<1> USE DEF TypeOK
<1> SUFFICES ASSUME NEW c \in Clients PROVE Count(c)'
  BY DEF Numbered, Count
<1>0. Count(c) /\ (ClientGone(c) => ClientGone(c)')
  BY OverForGood DEF Numbered, Count
<1>1. CASE Accept
  <2>1. CASE fd' = c
    <3>1. c \in Range(backlog) /\ replies[c] = <<>> /\ heard[c] = CountMod
      BY <1>1, <2>1, RangeTail DEF Accept, Fresh
    <3> QED BY <1>1, <3>1 DEF Accept, conns, Count
  <2>2. CASE fd' # c
    BY <1>0, <1>1, <2>2 DEF Accept, conns, Count, Due
  <2> QED BY <2>1, <2>2
<1>2. CASE SslWrite /\ fd = c /\ ~ClientGone(c)
  <2>1. Stands(c) /\ secure[c] /\ fd # NoOne
    BY <1>2, DemoAssumption DEF SslWrite, QueueInv, Fresh, Stands, ServerGone, ClientGone
  <2>2. replies[c] = <<>>
    <3>1. Len(replies[c]) \in Nat /\ asks[c] \in Nat /\ (replies[c] = <<>> <=> Len(replies[c]) = 0)
      BY Lengths, 0 \in 0 .. CountMod - 1
    <3>2. asks[c] + Len(replies[c]) + 1 = IF at[c] = "read" THEN 1 ELSE 0
      BY <1>2, <2>1 DEF InTurn, OneUnderWay, SslWrite
    <3> QED BY <3>1, <3>2
  <2>3. iCount' = Wrap(iCount + 1) /\ iCount' \in 0 .. CountMod - 1
    BY <1>2, TypeStep DEF SslWrite
  <2>4. replies'[c] = Append(replies[c], iCount') /\ heard' = heard
    BY <1>2, <2>3 DEF SslWrite
  <2>5. replies'[c] # <<>> /\ Len(replies'[c]) = 1 /\ Head(replies'[c]) = iCount'
    <3>1. Len(replies'[c]) = 1 /\ Head(replies'[c]) = iCount'
      BY <2>2, <2>3, <2>4, Lengths
    <3> QED BY <3>1
  <2>6. heard[c] # CountMod => iCount = heard[c]
    BY <1>0, <1>2, <2>2 DEF Count
  <2> QED BY <2>3, <2>4, <2>5, <2>6 DEF Count, Due
<1>3. CASE SslWrite /\ (fd # c \/ ClientGone(c))
  <2>1. UNCHANGED heard /\ replies'[c] = replies[c] /\ fd' = fd
    BY <1>3 DEF SslWrite
  <2> QED BY <1>0, <1>3, <2>1 DEF Count, Due
<1>4. CASE SslWriteFails
  <2>1. fd' = NoOne /\ UNCHANGED <<heard, replies>>
    BY <1>4 DEF SslWriteFails, Leave, conns
  <2> QED BY <1>0, <2>1, DemoAssumption DEF Count, Due
<1>5. CASE Hear(c)
  <2>1. /\ replies[c] # <<>> /\ replies'[c] = Tail(replies[c])
        /\ heard'[c] = Head(replies[c]) /\ UNCHANGED <<fd, iCount>>
    BY <1>5 DEF Hear
  <2>2. replies'[c] = <<>>
    BY <1>0, <2>1, Lengths, 0 \in 0 .. CountMod - 1 DEF Count
  <2> QED BY <1>0, <2>1, <2>2 DEF Count
<1>6. CASE UNCHANGED iCount /\ fd' \in {fd, NoOne}
           /\ replies'[c] = replies[c] /\ heard'[c] = heard[c]
  BY <1>0, <1>6, DemoAssumption DEF Count, Due
<1>7. ASSUME NEW d \in Clients, d # c, Hear(d)
      PROVE  UNCHANGED iCount /\ fd' \in {fd, NoOne}
             /\ replies'[c] = replies[c] /\ heard'[c] = heard[c]
  BY <1>7 DEF Hear
<1>8. ASSUME NEW d \in Clients,
             \/ Connect(d) \/ SslConnect(d) \/ Ask(d)
             \/ AskFails(d) \/ HearFails(d) \/ Stop(d) \/ Cut(d)
      PROVE  UNCHANGED iCount /\ fd' \in {fd, NoOne}
             /\ replies'[c] = replies[c] /\ heard'[c] = heard[c]
  BY <1>8 DEF Connect, SslConnect, Ask, AskFails, HearFails, Stop, Cut, conns
<1>9. ASSUME AcceptFails \/ SslAccept \/ SslAcceptFails \/ SslRead \/ SslReadFails \/ UNCHANGED vars
      PROVE  UNCHANGED iCount /\ fd' \in {fd, NoOne}
             /\ replies'[c] = replies[c] /\ heard'[c] = heard[c]
  BY <1>9 DEF AcceptFails, SslAccept, SslAcceptFails, SslRead, SslReadFails, End, Leave, vars, conns
<1> QED
  BY <1>1, <1>2, <1>3, <1>4, <1>5, <1>6, <1>7, <1>8, <1>9 DEF Next, Serve, Run

-----------------------------------------------------------------------------
LEMMA DemoInit == Init => QueueInv /\ Fresh /\ InTurn /\ Numbered
<1> SUFFICES ASSUME Init PROVE QueueInv /\ Fresh /\ InTurn /\ Numbered
  OBVIOUS
<1>1. /\ server \in {"accept", "ended"} /\ fd = NoOne /\ backlog = <<>> /\ held = {}
      /\ \A c \in Clients : /\ at[c] = "start" /\ secure[c] = FALSE /\ asks[c] = 0
                            /\ replies[c] = <<>> /\ heard[c] = CountMod
  BY DEF Init
<1>2. QueueInv /\ Fresh
  BY <1>1, RangeEmpty DEF QueueInv, Fresh
<1>3. InTurn
  BY <1>1 DEF InTurn, NoneAbandoned, OneUnderWay
<1>4. Numbered
  BY <1>1, DemoAssumption DEF Numbered
<1> QED BY <1>2, <1>3, <1>4

LEMMA DemoCorrect == Spec => [](TypeOK /\ QueueInv /\ Fresh /\ InTurn /\ Numbered)
<1>1. TypeOK /\ QueueInv /\ Fresh /\ InTurn /\ Numbered /\ [Next]_vars
         => (TypeOK /\ QueueInv /\ Fresh /\ InTurn /\ Numbered)'
  <2> SUFFICES ASSUME TypeOK, QueueInv, Fresh, InTurn, Numbered, [Next]_vars
               PROVE  (TypeOK /\ QueueInv /\ Fresh /\ InTurn /\ Numbered)'
    OBVIOUS
  <2>1. NoneAbandoned'
    BY AbandonStep DEF InTurn
  <2>2. InTurn'
    BY <2>1, TurnStep DEF InTurn
  <2> QED BY <2>2, TypeStep, QueueStep, FreshStep, NumberStep
<1> QED BY <1>1, TypeInit, DemoInit, PTL DEF Spec

(* The server never turns away from a client that is there, for any        *)
(* clients and any queue, although it keeps the sockets of earlier ones    *)
(* open (Server.cpp:170-202).                                              *)
THEOREM NobodyIsAbandoned == Spec => []NoneAbandoned
BY DemoCorrect, PTL DEF InTurn

(* The two programs never both wait for the other: while a connection      *)
(* stands there is one message under way when the client reads, and none   *)
(* otherwise (Server.cpp:170-196, Client.cpp:148-187).                     *)
THEOREM MessagesAlternate == Spec => []OneUnderWay
BY DemoCorrect, PTL DEF InTurn

(* The counts that a client reads follow one another, at any width of      *)
(* iCount: whoever is answered twice is served without a break             *)
(* (Server.cpp:169-196).                                                   *)
THEOREM CountsAreConsecutive == Spec => CountsFollow
<1> DEFINE Follows == \A c \in Clients :
          at[c] = "read" /\ at'[c] = "write" /\ heard[c] # CountMod
              => heard'[c] = Wrap(heard[c] + 1)
<1>1. TypeOK /\ Numbered /\ [Next]_vars => [Follows]_vars
  <2> SUFFICES ASSUME TypeOK, Numbered, Next,
                      NEW c \in Clients,
                      at[c] = "read", at'[c] = "write", heard[c] # CountMod
               PROVE  heard'[c] = Wrap(heard[c] + 1)
    OBVIOUS
  <2>1. Hear(c)
    BY DEF TypeOK, Next, Serve, Run, Accept, AcceptFails, SslAccept, SslAcceptFails, SslRead,
           SslReadFails, SslWrite, SslWriteFails, Connect, SslConnect, Ask, AskFails, HearFails,
           Hear, Stop, Cut, Go
  <2> QED BY <2>1 DEF TypeOK, Hear, Numbered, Due
<1> HIDE DEF Follows
<1>2. Spec => [][Follows]_vars
  BY <1>1, DemoCorrect, PTL DEF Spec
<1> QED BY <1>2 DEF CountsFollow, Follows

-----------------------------------------------------------------------------
(* Nobody waits for what cannot come.                                      *)

\* A client whose socket the server has open is past its handshake, in it,
\* or gone; and one that has given up was told to.
Told ==
    /\ \A c \in Clients :
          c \in held /\ ~secure[c] /\ ~ClientGone(c) => fd = c /\ server = "handshake"
    /\ \A c \in Clients : at[c] = "pause" => ServerGone(c)

LEMMA ToldStep ==
    ASSUME TypeOK, QueueInv, Told, [Next]_vars
    PROVE  Told'
<1> USE DEF TypeOK
<1>1. ASSUME NEW c \in Clients, c \in held', ~secure'[c], ~ClientGone(c)'
      PROVE  fd' = c /\ server' = "handshake"
  <2>1. ~secure[c] /\ ~ClientGone(c)
    <3>1. secure[c] => secure'[c]
      BY DEF Next, Serve, Run, Accept, AcceptFails, SslAccept, SslAcceptFails, SslRead,
             SslReadFails, SslWrite, SslWriteFails, Connect, SslConnect, Ask, AskFails, Hear,
             HearFails, Stop, Cut, vars, conns
    <3> QED BY <1>1, <3>1, OverForGood
  <2>2. CASE Accept
    BY <1>1, <2>1, <2>2 DEF Accept, Told
  <2>3. CASE ~Accept
    <3>1. c \in held
      BY <1>1, <2>3
         DEF Next, Serve, Run, AcceptFails, SslAccept, SslAcceptFails, SslRead, SslReadFails,
             SslWrite, SslWriteFails, Connect, SslConnect, Ask, AskFails, Hear, HearFails,
             Stop, Cut, End, vars
    <3>2. fd = c /\ server = "handshake"
      BY <2>1, <3>1 DEF Told
    <3>3. ~SslAccept /\ ~SslAcceptFails
      BY <1>1, <2>1, <3>2 DEF SslAccept, SslAcceptFails, End
    <3> QED
      BY <2>3, <3>2, <3>3
         DEF Next, Serve, Run, AcceptFails, SslRead, SslReadFails, SslWrite, SslWriteFails,
             Connect, SslConnect, Ask, AskFails, Hear, HearFails, Stop, Cut, vars
  <2> QED BY <2>2, <2>3
<1>2. ASSUME NEW c \in Clients, at'[c] = "pause" PROVE ServerGone(c)'
  <2>1. at[c] # "start" /\ (at[c] = "pause" \/ AskFails(c) \/ HearFails(c))
    BY <1>2
       DEF Next, Serve, Run, Accept, AcceptFails, SslAccept, SslAcceptFails, SslRead,
           SslReadFails, SslWrite, SslWriteFails, Connect, SslConnect, Ask, AskFails, Hear,
           HearFails, Stop, Cut, Go, vars
  <2>2. ServerGone(c)
    BY <2>1 DEF AskFails, HearFails, Told
  <2> QED BY <2>1, <2>2, OverForGood
<1> QED BY <1>1, <1>2 DEF Told

(* No call of the two programs ever waits for what cannot come, for any    *)
(* clients, any queue, any cuts and ends of either side: what is left of   *)
(* ServedOrTold is that the one it waits for runs (Server.cpp:138-202,     *)
(* Client.cpp:139-187).                                                    *)
THEOREM NobodyStandsOff == Spec => []NoStandoff
<1>1. Init => Told
  BY DEF Init, Told
<1>2. TypeOK /\ QueueInv /\ Told /\ [Next]_vars => Told'
  BY ToldStep
<1>3. TypeOK /\ QueueInv /\ Fresh /\ InTurn /\ Told => NoStandoff
  <2> SUFFICES ASSUME TypeOK, QueueInv, Fresh, InTurn, Told PROVE NoStandoff
    OBVIOUS
  <2>1. ASSUME NEW c \in Clients
        PROVE  /\ asks[c] \in Nat /\ Len(replies[c]) \in Nat
               /\ replies[c] = <<>> <=> Len(replies[c]) = 0
    BY Lengths, 0 \in 0 .. CountMod - 1 DEF TypeOK
  \* the client's side
  <2>2. ASSUME NEW c \in Clients, ~ServerGone(c)
        PROVE  /\ at[c] = "handshake" =>
                     secure[c] \/ c \in Range(backlog) \/ (fd = c /\ server = "handshake")
               /\ at[c] = "write" => secure[c]
               /\ at[c] = "read" =>
                     replies[c] # <<>> \/ (fd = c /\ (server = "write" \/ asks[c] > 0))
    <3>1. CASE at[c] = "handshake"
      BY <2>2, <3>1 DEF Told, ServerGone, ClientGone
    <3>2. CASE at[c] = "write"
      BY <2>2, <3>2 DEF Fresh
    <3>3. CASE at[c] = "read"
      <4>1. secure[c] /\ Stands(c)
        BY <2>2, <3>3 DEF Fresh, Stands, ServerGone, ClientGone
      <4>2. fd = c
        BY <4>1 DEF InTurn, NoneAbandoned
      <4>3. asks[c] + Len(replies[c]) + (IF server = "write" THEN 1 ELSE 0) = 1
        BY <3>3, <4>1, <4>2 DEF InTurn, OneUnderWay
      <4> QED BY <2>1, <3>3, <4>2, <4>3
    <3> QED BY <3>1, <3>2, <3>3
  \* the server's side
  <2>3. ASSUME server = "read", ~ClientGone(fd)
        PROVE  \/ asks[fd] > 0
               \/ secure[fd] /\ at[fd] \in {"handshake", "write"}
               \/ at[fd] = "read" /\ replies[fd] # <<>>
    <3>1. fd \in Clients /\ fd \in held
      BY <2>3 DEF TypeOK, QueueInv
    <3>2. secure[fd] /\ Stands(fd)
      BY <2>3, <3>1 DEF Told, Stands, ServerGone, ClientGone, TypeOK
    <3>3. at[fd] \notin {"start", "pause", "ended"}
      BY <2>3, <3>1, <3>2 DEF QueueInv, Told, Stands, ClientGone
    <3>4. asks[fd] + Len(replies[fd]) = IF at[fd] = "read" THEN 1 ELSE 0
      BY <2>1, <2>3, <3>1, <3>2 DEF InTurn, OneUnderWay
    <3> QED BY <2>1, <3>1, <3>2, <3>3, <3>4 DEF TypeOK
  <2> QED BY <2>2, <2>3 DEF NoStandoff
<1> QED BY <1>1, <1>2, <1>3, DemoCorrect, PTL DEF Spec

=============================================================================
