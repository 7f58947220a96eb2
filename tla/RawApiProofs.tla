---------------------------- MODULE RawApiProofs ----------------------------
(***************************************************************************)
(* Proofs about RawApi for any queries, alarms and streams and any number  *)
(* of sessions.                                                            *)
(***************************************************************************)
EXTENDS RawApi, TLAPS

\* A call waits exactly while its connection holds its request.
InStep ==
  \A c \in Call :
    /\ stage[c] = "unused" <=> outcome[c] = "none"
    /\ stage[c] \in {"queued", "handed"} <=> outcome[c] = "waiting"

\* An alarm's request that waits was never sent, the sent flag is the truth,
\* and so is the delivery state notSent.
DeliveryTrue ==
  \A c \in Alarm :
    /\ transmissions[c] <= 1
    /\ stage[c] \in {"unused", "queued"} \/ outcome[c] = "notSent" => transmissions[c] = 0
    /\ transmissions[c] > 0 => c \in sent

\* Of the calls for one alarm all but one may be repeated.
OneUnspent ==
  \A c, d \in Alarm :
    c # d /\ AlarmOf[c] = AlarmOf[d] =>
      \E e \in {c, d} : outcome[e] \in {"none", "notSent", "refused"}

\* Every way of losing a socket ends the alarms sent over it.
HandedIsConnected ==
  \A c \in Alarm : stage[c] = "handed" => socket[ConnOf(c)].state = "connected"

ConnectionInv == ConnectionTypeOK /\ ConnectionsOwned /\ SocketsUseSession
RequestInv == RequestTypeOK /\ InStep /\ DeliveryTrue /\ OneUnspent

IInv == ConnectionInv /\ RequestInv /\ HandedIsConnected

-----------------------------------------------------------------------------
(***************************************************************************)
(* The connections.                                                        *)
(***************************************************************************)
State == {"none", "connecting", "connected"}

LEMMA Sockets ==
  /\ MaxSession \in Nat /\ 0 \in 0..MaxSession
  /\ NoSocket \in [state : State, session : 0..MaxSession] /\ NoSocket.state = "none"
  /\ \A s \in 0..MaxSession :
       /\ OpenedFor(s) \in [state : State, session : 0..MaxSession]
       /\ OpenedFor(s).state = "connecting" /\ OpenedFor(s).session = s
<1>1. MaxSession \in Nat /\ 0 \in 0..MaxSession
  BY SessionAssumption DEF SessionAssumption
<1> QED BY <1>1 DEF NoSocket, OpenedFor, State

LEMMA Owners ==
  ASSUME ConnectionTypeOK
  PROVE  /\ Own \subseteq Conn /\ (Call \subseteq Conn) /\ Shared \in Conn
         /\ \A c \in Call : ConnOf(c) \in Conn /\ (mode = "shared" => ConnOf(c) \in Own)
BY DEF ConnectionTypeOK, Own, Conn, ConnOf

\* What a step may do to the connection n, seen from the connections.
ConnectionMoves(n) ==
  \/ socket'[n] = socket[n] /\ outage'[n] = outage[n] /\ (n \in Own => n \in Own')
  \/ socket'[n].state = "none" /\ ~outage'[n]
  \/ n \in Own' /\ (socket'[n].state # "none" => socket'[n].session = session')

LEMMA ConnectionStep ==
  ASSUME ConnectionInv, ConnectionTypeOK', session' = session,
         \A n \in Conn : ConnectionMoves(n)
  PROVE  ConnectionInv'
<1>1. ConnectionsOwned'
  BY DEF ConnectionInv, ConnectionsOwned, ConnectionMoves
<1>2. SocketsUseSession'
  BY DEF ConnectionInv, SocketsUseSession, ConnectionMoves
<1> QED BY <1>1, <1>2 DEF ConnectionInv

LEMMA SameConnections ==
  ASSUME ConnectionInv, UNCHANGED <<mode, connections, session>>
  PROVE  ConnectionInv'
BY DEF connections, ConnectionInv, ConnectionTypeOK, ConnectionsOwned, SocketsUseSession, Own

LEMMA ClosesConnections ==
  ASSUME ConnectionInv, NEW c \in Call, NEW result, Closes(c, result)
  PROVE  ConnectionInv'
<1> DEFINE n == ConnOf(c)
<1>1. n \in Conn
  BY Owners DEF ConnectionInv
<1>2. CASE Held(n) = {c} /\ ~outage[n]
  <2>1. /\ UNCHANGED <<mode, outage, session>> /\ isolatedConnections' = isolatedConnections \ {n}
        /\ socket' = [m \in Conn |-> IF m \in {n} THEN NoSocket ELSE socket[m]]
    BY <1>2 DEF Closes, Idle
  <2>2. ConnectionTypeOK'
    BY <2>1, Sockets DEF ConnectionInv, ConnectionTypeOK, State
  <2>3. \A m \in Conn : ConnectionMoves(m)
    BY <2>1, <1>2, Sockets DEF ConnectionMoves, Own, ConnectionInv, ConnectionTypeOK
  <2> QED BY <2>1, <2>2, <2>3, ConnectionStep
<1>3. CASE ~(Held(n) = {c} /\ ~outage[n])
  BY <1>3, SameConnections DEF Closes, connections
<1> QED BY <1>2, <1>3

LEMMA DisconnectsConnections ==
  ASSUME ConnectionInv, NEW n \in Conn, socket[n].state # "none",
         socket' = [socket EXCEPT ![n] = NoSocket], outage' = [outage EXCEPT ![n] = TRUE],
         UNCHANGED <<mode, isolatedConnections, session>>
  PROVE  ConnectionInv'
<1>1. ConnectionTypeOK'
  <2>1. outage' \in [Conn -> BOOLEAN]
    BY Zenon DEF ConnectionInv, ConnectionTypeOK
  <2> QED BY <2>1, Sockets DEF ConnectionInv, ConnectionTypeOK, State
<1>2. n \in Own /\ Own' = Own
  BY DEF ConnectionInv, ConnectionsOwned, Own
<1>3. \A m \in Conn : ConnectionMoves(m)
  BY <1>2, Sockets DEF ConnectionMoves, ConnectionInv, ConnectionTypeOK
<1> QED BY <1>1, <1>3, ConnectionStep

LEMMA OpensConnections ==
  ASSUME ConnectionInv, NEW n \in Conn, Opens(n), n \in Own', Own \subseteq Own',
         isolatedConnections' \subseteq Call, UNCHANGED <<mode, outage, session>>
  PROVE  ConnectionInv'
<1>1. ConnectionTypeOK'
  BY Sockets DEF ConnectionInv, ConnectionTypeOK, Opens, State
<1>2. \A m \in Conn : ConnectionMoves(m)
  BY Sockets DEF ConnectionMoves, ConnectionInv, ConnectionTypeOK, Opens
<1> QED BY <1>1, <1>2, ConnectionStep

LEMMA AskConnections ==
  ASSUME ConnectionInv, NEW c \in Call, Ask(c)
  PROVE  ConnectionInv'
<1> DEFINE n == ConnOf(c)
<1>1. CASE UNCHANGED connections
  BY <1>1, SameConnections DEF Ask
<1>2. CASE Opens(n) /\ isolatedConnections' = Registered(c) /\ UNCHANGED outage
  <2>1. n \in Conn /\ UNCHANGED <<mode, outage, session>>
    BY <1>2, Owners DEF Ask, ConnectionInv
  <2>2. isolatedConnections' \subseteq Call /\ Own \subseteq Own' /\ n \in Own'
    BY <1>2, <2>1 DEF Registered, ConnectionInv, ConnectionTypeOK, Own, ConnOf
  <2> QED BY <1>2, <2>1, <2>2, OpensConnections
<1> QED BY <1>1, <1>2 DEF Ask

LEMMA HandshakeConnections ==
  ASSUME ConnectionInv, NEW n \in Conn, HandshakeCompletes(n)
  PROVE  ConnectionInv'
<1>1. outage' \in [Conn -> BOOLEAN] /\ outage'[n] = FALSE /\ \A m \in Conn \ {n} : outage'[m] = outage[m]
  <2>1. outage' = [outage EXCEPT ![n] = FALSE] /\ outage \in [Conn -> BOOLEAN]
    BY DEF HandshakeCompletes, ConnectionInv, ConnectionTypeOK
  <2> QED BY <2>1, Zenon
<1>2. n \in Own /\ UNCHANGED <<mode, session>>
  BY DEF HandshakeCompletes, ConnectionInv, ConnectionsOwned
<1>3. CASE outage[n] /\ Held(n) = {}
  <2>1. isolatedConnections' = isolatedConnections \ {n}
        /\ socket' = [m \in Conn |-> IF m \in {n} THEN NoSocket ELSE socket[m]]
    BY <1>3 DEF HandshakeCompletes, Idle
  <2>2. ConnectionTypeOK'
    BY <1>1, <1>2, <2>1, Sockets DEF ConnectionInv, ConnectionTypeOK, State
  <2>3. \A m \in Conn : ConnectionMoves(m)
    BY <1>1, <1>2, <2>1, Sockets DEF ConnectionMoves, Own, ConnectionInv, ConnectionTypeOK
  <2> QED BY <1>2, <2>2, <2>3, ConnectionStep
<1>4. CASE ~(outage[n] /\ Held(n) = {})
  <2>1. socket' = [socket EXCEPT ![n].state = "connected"] /\ UNCHANGED isolatedConnections
    BY <1>4 DEF HandshakeCompletes
  <2>2. ConnectionTypeOK'
    BY <1>1, <1>2, <2>1 DEF ConnectionInv, ConnectionTypeOK
  <2>3. \A m \in Conn : ConnectionMoves(m)
    <3>1. socket[n].session = session
      BY DEF HandshakeCompletes, ConnectionInv, SocketsUseSession
    <3> QED BY <1>1, <1>2, <2>1, <3>1 DEF ConnectionMoves, Own, ConnectionInv, ConnectionTypeOK
  <2> QED BY <1>2, <2>2, <2>3, ConnectionStep
<1> QED BY <1>3, <1>4

LEMMA SocketEndsConnections ==
  ASSUME ConnectionInv, NEW n \in Conn, SocketEnds(n)
  PROVE  ConnectionInv'
<1>1. CASE socket[n].state = "connected" /\ Disconnects(n, {})
           /\ UNCHANGED <<mode, isolatedConnections, session>>
  BY <1>1, DisconnectsConnections DEF Disconnects
<1>2. CASE /\ socket[n].state = "connecting" /\ outage[n]
           /\ socket' = [socket EXCEPT ![n] = NoSocket]
           /\ UNCHANGED <<mode, isolatedConnections, outage, session>>
  <2>1. ConnectionTypeOK'
    BY <1>2, Sockets DEF ConnectionInv, ConnectionTypeOK, State
  <2>2. Own' = Own /\ n \in Own
    BY <1>2 DEF Own, ConnectionInv, ConnectionsOwned
  <2>3. \A m \in Conn : ConnectionMoves(m)
    BY <1>2, <2>2, Sockets DEF ConnectionMoves, ConnectionInv, ConnectionTypeOK
  <2> QED BY <1>2, <2>1, <2>3, ConnectionStep
<1>3. CASE /\ socket[n].state = "connecting" /\ ~outage[n] /\ Idle({n})
           /\ UNCHANGED <<mode, outage, session>>
  <2>1. ConnectionTypeOK'
    BY <1>3, Sockets DEF ConnectionInv, ConnectionTypeOK, State, Idle
  <2>2. \A m \in Conn : ConnectionMoves(m)
    BY <1>3, Sockets DEF ConnectionMoves, Own, Idle, ConnectionInv, ConnectionTypeOK
  <2> QED BY <1>3, <2>1, <2>2, ConnectionStep
<1> QED BY <1>1, <1>2, <1>3 DEF SocketEnds

LEMMA ReconnectConnections ==
  ASSUME ConnectionInv, NEW n \in Conn, ReconnectTimerFires(n)
  PROVE  ConnectionInv'
<1>1. Own' = Own /\ n \in Own /\ isolatedConnections' \subseteq Call
  BY DEF ReconnectTimerFires, Own, ConnectionInv, ConnectionsOwned, ConnectionTypeOK
<1> QED BY <1>1, OpensConnections DEF ReconnectTimerFires

LEMMA CloseConnections ==
  ASSUME ConnectionInv, Close
  PROVE  ConnectionInv'
<1>1. /\ outage' = [n \in Conn |-> IF n \in Own THEN FALSE ELSE outage[n]]
      /\ socket' = [n \in Conn |-> IF n \in Own THEN NoSocket ELSE socket[n]]
      /\ isolatedConnections' = isolatedConnections \ Own
      /\ UNCHANGED <<mode, session>>
  BY DEF Close, Idle
<1>2. ConnectionTypeOK'
  <2>1. outage' \in [Conn -> BOOLEAN]
    BY <1>1, Zenon DEF ConnectionInv, ConnectionTypeOK
  <2> QED BY <1>1, <2>1, Sockets DEF ConnectionInv, ConnectionTypeOK, State
<1>3. \A n \in Conn : ConnectionMoves(n)
  <2>1. TAKE n \in Conn
  <2>2. CASE n \in Own
    BY <1>1, <2>2, Sockets DEF ConnectionMoves
  <2>3. CASE n \notin Own
    BY <1>1, <2>3 DEF ConnectionMoves
  <2> QED BY <2>2, <2>3
<1> QED BY <1>1, <1>2, <1>3, ConnectionStep

\* The connections a change of the session finds with a socket, and what it needs one for.
Ended == UNION {SentMutations(n) : n \in Own}
Kept(n) == Held(n) \ Ended
Needed == {n \in Own : socket[n].state # "none" /\ (Kept(n) # {} \/ outage[n])}
Unneeded == {n \in Own \ Needed : socket[n].state # "none"}
Emptied(broken) == Unneeded \cup {n \in broken : ~outage[n]}
Lost(broken) == UNION {Kept(n) : n \in {k \in broken : ~outage[k]}}

RefreshWith(broken) ==
  /\ session < MaxSession /\ session' = session + 1
  /\ Settle(Ended \cup Lost(broken), [c \in Call |-> IF c \in Ended THEN "sent" ELSE "notSent"])
  /\ socket' = [n \in Conn |->
       IF n \in Needed \ broken THEN OpenedFor(session')
       ELSE IF n \in broken \cup Emptied(broken) THEN NoSocket ELSE socket[n]]
  /\ isolatedConnections' = isolatedConnections \ Emptied(broken)
  /\ UNCHANGED <<mode, outage, sent, transmissions>>

LEMMA RefreshShape ==
  ASSUME RefreshSession
  PROVE  \E broken \in SUBSET Needed : RefreshWith(broken)
BY DEF RefreshSession, RefreshWith, Ended, Kept, Needed, Unneeded, Emptied, Lost

LEMMA RefreshConnections ==
  ASSUME ConnectionInv, RefreshSession
  PROVE  ConnectionInv'
<1>1. PICK broken \in SUBSET Needed : RefreshWith(broken)
  BY RefreshShape
<1>2. /\ session' = session + 1 /\ session' \in 0..MaxSession
      /\ UNCHANGED <<mode, outage>>
      /\ isolatedConnections' = isolatedConnections \ Emptied(broken)
  BY <1>1, Sockets DEF RefreshWith, ConnectionInv, ConnectionTypeOK
<1>3. \A n \in Conn :
        socket'[n] = IF n \in Needed \ broken THEN OpenedFor(session')
                     ELSE IF n \in broken \cup Emptied(broken) THEN NoSocket ELSE socket[n]
  BY <1>1 DEF RefreshWith
<1>4. ConnectionTypeOK'
  BY <1>1, <1>2, <1>3, Sockets DEF RefreshWith, ConnectionInv, ConnectionTypeOK, State
<1>5. ASSUME NEW n \in Conn, socket'[n].state # "none"
      PROVE  n \in Needed \ broken
  <2>1. CASE n \in Own
    BY <1>3, <1>5, <2>1, Sockets DEF Unneeded, Emptied, Needed
  <2>2. CASE n \notin Own
    BY <1>3, <1>5, <2>2, Sockets DEF ConnectionInv, ConnectionsOwned, Needed, Emptied, Unneeded
  <2> QED BY <2>1, <2>2
<1>6. \A n \in Conn : outage[n] => n \notin Emptied(broken)
  BY DEF Emptied, Unneeded, Needed
<1>7. ConnectionsOwned'
  <2>1. ASSUME NEW n \in Conn, socket'[n].state # "none" \/ outage'[n]
        PROVE  n \in Own'
    <3>1. n \notin Emptied(broken) /\ n \in Own
      <4>1. CASE socket'[n].state # "none"
        BY <4>1, <1>5 DEF Emptied, Unneeded, Needed
      <4>2. CASE outage'[n]
        BY <4>2, <1>2, <1>6 DEF ConnectionInv, ConnectionsOwned
      <4> QED BY <2>1, <4>1, <4>2
    <3> QED BY <1>2, <3>1 DEF Own
  <2> QED BY <2>1 DEF ConnectionsOwned
<1>8. SocketsUseSession'
  BY <1>2, <1>3, <1>5, Sockets DEF SocketsUseSession
<1> QED BY <1>4, <1>7, <1>8 DEF ConnectionInv

LEMMA ConnectionInductive == ConnectionInv /\ [Next]_vars => ConnectionInv'
<1> SUFFICES ASSUME ConnectionInv, [Next]_vars PROVE ConnectionInv'
  OBVIOUS
<1>1. ASSUME NEW c \in Call,
             Ask(c) \/ AskDisconnects(c) \/ CloseStream(c) \/ TimerFires(c)
               \/ Answered(c) \/ PayloadFails(c) \/ EndedByPeer(c)
      PROVE  ConnectionInv'
  <2>1. CASE Ask(c)
    BY <2>1, AskConnections
  <2>2. CASE AskDisconnects(c)
    <3>1. ConnOf(c) \in Conn
      BY Owners DEF ConnectionInv
    <3> QED BY <2>2, <3>1, DisconnectsConnections DEF AskDisconnects
  <2>3. CASE CloseStream(c)
    BY <2>3, ClosesConnections DEF CloseStream
  <2>4. CASE TimerFires(c)
    BY <2>4, ClosesConnections DEF TimerFires
  <2>5. CASE Answered(c)
    BY <2>5, ClosesConnections DEF Answered
  <2>6. CASE PayloadFails(c)
    BY <2>6, ClosesConnections DEF PayloadFails
  <2>7. CASE EndedByPeer(c)
    BY <2>7, SameConnections DEF EndedByPeer
  <2> QED BY <1>1, <2>1, <2>2, <2>3, <2>4, <2>5, <2>6, <2>7
<1>2. ASSUME NEW n \in Conn,
             HandshakeCompletes(n) \/ HandshakeSendFails(n) \/ SocketEnds(n)
               \/ ReconnectTimerFires(n)
      PROVE  ConnectionInv'
  <2>1. CASE HandshakeSendFails(n)
    BY <2>1, DisconnectsConnections DEF HandshakeSendFails, Disconnects
  <2> QED
    BY <1>2, <2>1, HandshakeConnections, SocketEndsConnections, ReconnectConnections
<1>3. CASE UNCHANGED vars
  BY <1>3, SameConnections DEF vars
<1> QED BY <1>1, <1>2, <1>3, RefreshConnections, CloseConnections DEF Next

-----------------------------------------------------------------------------
(***************************************************************************)
(* The requests.  What a step may do to the call c: nothing, to begin it,  *)
(* to hand its request over, or to end it.                                 *)
(***************************************************************************)
Untold(c) == c \in Alarm => transmissions'[c] = transmissions[c]
Told(c) == c \in sent' /\ (c \in Alarm => transmissions'[c] = transmissions[c] + 1)

Rests(c) == stage'[c] = stage[c] /\ outcome'[c] = outcome[c] /\ Untold(c)

Begins(c) ==
  /\ stage[c] = "unused" /\ MayAsk(c)
  /\ \/ stage'[c] = "queued" /\ outcome'[c] = "waiting" /\ Untold(c)
     \/ stage'[c] = "handed" /\ outcome'[c] = "waiting" /\ Told(c)
     \/ stage'[c] = "ended" /\ outcome'[c] = "notSent" /\ Untold(c)

IsHanded(c) ==
  stage[c] = "queued" /\ stage'[c] = "handed" /\ outcome'[c] = outcome[c] /\ Told(c)

Ends(c) ==
  /\ stage[c] \in {"queued", "handed"} /\ stage'[c] = "ended" /\ outcome'[c] \in Settled
  /\ \/ Untold(c) /\ (c \in Alarm /\ outcome'[c] = "notSent" => transmissions[c] = 0)
     \/ Told(c) /\ stage[c] = "queued" /\ outcome'[c] # "notSent"

RequestMoves(c) == Rests(c) \/ Begins(c) \/ IsHanded(c) \/ Ends(c)

LEMMA StepKeeps ==
  ASSUME RequestInv, RequestTypeOK', sent \subseteq sent',
         \A c \in Call : RequestMoves(c),
         \A c, d \in Call : Begins(c) /\ Begins(d) => c = d
  PROVE  RequestInv'
<1>1. ASSUME NEW c \in Call
      PROVE  /\ stage'[c] = "unused" <=> outcome'[c] = "none"
             /\ stage'[c] \in {"queued", "handed"} <=> outcome'[c] = "waiting"
  BY <1>1 DEF RequestInv, RequestTypeOK, InStep, RequestMoves, Rests, Begins, IsHanded, Ends, Settled
<1>2. ASSUME NEW c \in Alarm
      PROVE  /\ transmissions'[c] <= 1
             /\ stage'[c] \in {"unused", "queued"} \/ outcome'[c] = "notSent" => transmissions'[c] = 0
             /\ transmissions'[c] > 0 => c \in sent'
  <2>1. c \in Call /\ transmissions[c] \in 0..2
    BY DEF Call, RequestInv, RequestTypeOK
  <2> QED
    BY <2>1 DEF RequestInv, RequestTypeOK, InStep, DeliveryTrue, RequestMoves, Rests, Begins,
      IsHanded, Ends, Told, Untold, Settled
<1>3. ASSUME NEW c \in Alarm, NEW d \in Alarm, c # d, AlarmOf[c] = AlarmOf[d]
      PROVE  \E e \in {c, d} : outcome'[e] \in {"none", "notSent", "refused"}
  <2>1. c \in Call /\ d \in Call
    BY DEF Call
  <2>2. ASSUME NEW e \in Call, ~Begins(e), outcome[e] \in {"none", "notSent", "refused"}
        PROVE  outcome'[e] = outcome[e]
    BY <2>2 DEF RequestInv, RequestTypeOK, InStep, RequestMoves, Rests, IsHanded, Ends
  <2>3. CASE Begins(c)
    <3>1. outcome[d] \in {"none", "notSent", "refused"}
      BY <1>3, <2>3 DEF Begins, MayAsk
    <3>2. ~Begins(d)
      BY <1>3, <2>1, <2>3
    <3> QED BY <2>1, <2>2, <3>1, <3>2
  <2>4. CASE Begins(d)
    <3>1. outcome[c] \in {"none", "notSent", "refused"}
      BY <1>3, <2>4 DEF Begins, MayAsk
    <3>2. ~Begins(c)
      BY <1>3, <2>1, <2>4
    <3> QED BY <2>1, <2>2, <3>1, <3>2
  <2>5. CASE ~Begins(c) /\ ~Begins(d)
    <3>1. \E e \in {c, d} : outcome[e] \in {"none", "notSent", "refused"}
      BY <1>3 DEF RequestInv, OneUnspent
    <3> QED BY <2>1, <2>2, <2>5, <3>1
  <2> QED BY <2>3, <2>4, <2>5
<1> QED BY <1>1, <1>2, <1>3 DEF RequestInv, InStep, DeliveryTrue, OneUnspent

LEMMA SameRequests ==
  ASSUME RequestInv, UNCHANGED requests
  PROVE  RequestInv'
BY DEF requests, RequestInv, RequestTypeOK, InStep, DeliveryTrue, OneUnspent

\* The calls of S end, as their promises settle.
LEMMA SettleKeeps ==
  ASSUME RequestInv, NEW S \in SUBSET Call, NEW result, Settle(S, result),
         UNCHANGED <<sent, transmissions>>,
         \A c \in S : /\ stage[c] \in {"queued", "handed"} /\ result[c] \in Settled
                      /\ c \in Alarm /\ result[c] = "notSent" => transmissions[c] = 0
  PROVE  RequestInv'
<1>1. RequestTypeOK'
  BY DEF RequestInv, RequestTypeOK, Settle
<1>2. \A c \in Call : RequestMoves(c) /\ ~Begins(c)
  <2> TAKE c \in Call
  <2>1. CASE c \in S
    BY <2>1 DEF Settle, RequestMoves, Ends, Untold, Begins
  <2>2. CASE c \notin S
    BY <2>2 DEF Settle, RequestMoves, Rests, Untold, Begins, RequestInv, RequestTypeOK
  <2> QED BY <2>1, <2>2
<1> QED BY <1>1, <1>2, StepKeeps

LEMMA TransmitTells ==
  ASSUME RequestTypeOK, NEW S \in SUBSET Call, Transmit(S),
         \A c \in S \cap Alarm : transmissions[c] = 0
  PROVE  /\ sent \subseteq sent' /\ sent' \subseteq Call /\ transmissions' \in [Alarm -> 0..2]
         /\ \A c \in Call : IF c \in S THEN Told(c) ELSE Untold(c)
BY DEF RequestTypeOK, Transmit, Told, Untold, Call

\* An alarm's request is handed over once, a read's again after each reconnect.
LEMMA SentOnce ==
  ASSUME RequestInv, NEW n, NEW c \in ToSend(n)
  PROVE  /\ c \in Call /\ ConnOf(c) = n /\ stage[c] \in {"queued", "handed"}
         /\ c \in Alarm => stage[c] = "queued" /\ transmissions[c] = 0
BY DEF ToSend, Held, IsMutation, RequestInv, DeliveryTrue

LEMMA SameCalls ==
  ASSUME UNCHANGED mode
  PROVE  \A c \in Call : ConnOf(c)' = ConnOf(c)
BY DEF ConnOf

LEMMA DisconnectsRequests ==
  ASSUME IInv, NEW n \in Conn, NEW S \in SUBSET ToSend(n), Disconnects(n, S), UNCHANGED mode
  PROVE  RequestInv' /\ HandedIsConnected'
<1> DEFINE ended == SentMutations(n) \cup {c \in S : IsMutation(c)}
<1>1. /\ stage' = [c \in Call |-> IF c \in ended THEN "ended"
                                  ELSE IF c \in S THEN "handed" ELSE stage[c]]
      /\ outcome' = [c \in Call |-> IF c \in ended THEN "sent" ELSE outcome[c]]
      /\ Transmit(S) /\ socket' = [socket EXCEPT ![n] = NoSocket]
  BY DEF Disconnects
<1>2. S \in SUBSET Call /\ \A c \in S : /\ stage[c] \in {"queued", "handed"}
                                        /\ c \in Alarm => stage[c] = "queued" /\ transmissions[c] = 0
  BY SentOnce DEF IInv
<1>3. /\ sent \subseteq sent' /\ sent' \subseteq Call /\ transmissions' \in [Alarm -> 0..2]
      /\ \A c \in Call : IF c \in S THEN Told(c) ELSE Untold(c)
  <2>1. \A c \in S \cap Alarm : transmissions[c] = 0
    BY <1>2
  <2> QED BY <1>1, <1>2, <2>1, TransmitTells DEF IInv, RequestInv
<1>4. RequestTypeOK'
  BY <1>1, <1>3 DEF RequestTypeOK, IInv, RequestInv, Settled
<1>5. \A c \in Call : RequestMoves(c) /\ ~Begins(c)
  <2> TAKE c \in Call
  <2>1. CASE c \in SentMutations(n)
    <3>1. c \notin S /\ stage[c] = "handed"
      BY <1>2, <2>1 DEF SentMutations, IsMutation
    <3> QED BY <1>1, <1>3, <2>1, <3>1 DEF RequestMoves, Ends, Begins, Settled
  <2>2. CASE c \in S /\ c \in Alarm
    BY <1>1, <1>2, <1>3, <2>2 DEF RequestMoves, Ends, Begins, Settled, IsMutation
  <2>3. CASE c \in S /\ c \notin Alarm
    <3>1. c \notin ended /\ stage'[c] = "handed" /\ outcome'[c] = outcome[c] /\ Untold(c) /\ Told(c)
      BY <1>1, <1>3, <2>3 DEF SentMutations, IsMutation, Untold
    <3> QED BY <1>2, <2>3, <3>1 DEF RequestMoves, Rests, IsHanded, Begins
  <2>4. CASE c \notin S /\ c \notin SentMutations(n)
    BY <1>1, <1>3, <2>4 DEF RequestMoves, Rests, Begins, IInv, RequestInv, RequestTypeOK
  <2> QED BY <2>1, <2>2, <2>3, <2>4
<1>6. RequestInv'
  BY <1>3, <1>4, <1>5, StepKeeps DEF IInv
<1>7. ASSUME NEW c \in Alarm, stage'[c] = "handed"
      PROVE  socket'[ConnOf(c)'].state = "connected"
  <2>1. c \in Call /\ c \notin ended /\ c \notin S /\ stage[c] = "handed"
    BY <1>1, <1>7 DEF Call, IsMutation
  <2>2. ConnOf(c) # n
    BY <2>1 DEF SentMutations, Held, IsMutation
  <2>3. ConnOf(c)' = ConnOf(c) /\ ConnOf(c) \in Conn
    BY <2>1, SameCalls, Owners DEF IInv, ConnectionInv
  <2> QED BY <1>1, <2>1, <2>2, <2>3 DEF IInv, HandedIsConnected, ConnectionInv, ConnectionTypeOK
<1> QED BY <1>6, <1>7 DEF HandedIsConnected

LEMMA HandedStep ==
  ASSUME UNCHANGED mode,
         \A c \in Alarm : stage'[c] = "handed" => socket'[ConnOf(c)].state = "connected"
  PROVE  HandedIsConnected'
BY SameCalls DEF HandedIsConnected, Call

\* A call that ends while its connection holds its request.
LEMMA ClosesRequests ==
  ASSUME IInv, NEW c \in Call, NEW result, Closes(c, result), outcome[c] = "waiting",
         result \in Settled, c \in Alarm /\ result = "notSent" => transmissions[c] = 0
  PROVE  RequestInv' /\ HandedIsConnected'
<1> DEFINE n == ConnOf(c)
<1>1. /\ Settle({c}, Failing(result)) /\ UNCHANGED <<mode, sent, transmissions>>
      /\ Failing(result)[c] = result
  BY DEF Closes, Failing
<1>2. stage[c] \in {"queued", "handed"} /\ n \in Conn
  BY Owners DEF IInv, RequestInv, InStep, ConnectionInv
<1>3. RequestInv'
  BY <1>1, <1>2, SettleKeeps DEF IInv
<1>4. ASSUME NEW d \in Alarm, stage'[d] = "handed"
      PROVE  socket'[ConnOf(d)].state = "connected"
  <2>1. d \in Call /\ d # c /\ stage[d] = "handed" /\ ConnOf(d) \in Conn
    BY <1>1, <1>4, Owners DEF Call, Settle, IInv, ConnectionInv
  <2>2. CASE Held(n) = {c} /\ ~outage[n]
    <3>1. ConnOf(d) # n
      BY <2>1, <2>2 DEF Held
    <3> QED BY <2>1, <2>2, <3>1 DEF Closes, Idle, IInv, HandedIsConnected
  <2>3. CASE ~(Held(n) = {c} /\ ~outage[n])
    BY <2>1, <2>3 DEF Closes, IInv, HandedIsConnected
  <2> QED BY <2>2, <2>3
<1> QED BY <1>1, <1>3, <1>4, HandedStep

LEMMA AskRequests ==
  ASSUME IInv, NEW c \in Call, Ask(c)
  PROVE  RequestInv' /\ HandedIsConnected'
<1> DEFINE n == ConnOf(c)
<1>1. /\ outcome[c] = "none" /\ MayAsk(c) /\ UNCHANGED mode
      /\ stage[c] = "unused" /\ n \in Conn /\ (c \in Alarm => transmissions[c] = 0)
  BY Owners DEF Ask, IInv, RequestInv, InStep, DeliveryTrue, ConnectionInv
<1>2. ASSUME NEW newStage \in {"queued", "handed", "ended"}, NEW newOutcome \in {"waiting", "notSent"},
             stage' = [stage EXCEPT ![c] = newStage] \/ stage' = [d \in Call |-> IF d = c THEN newStage ELSE stage[d]],
             outcome' = [outcome EXCEPT ![c] = newOutcome] \/ outcome' = [d \in Call |-> IF d = c THEN newOutcome ELSE outcome[d]],
             sent \subseteq sent', sent' \subseteq Call, transmissions' \in [Alarm -> 0..2],
             \A d \in Call \ {c} : Untold(d),
             \/ newStage = "queued" /\ newOutcome = "waiting" /\ Untold(c)
             \/ newStage = "handed" /\ newOutcome = "waiting" /\ Told(c)
             \/ newStage = "ended" /\ newOutcome = "notSent" /\ Untold(c)
      PROVE  RequestInv'
  <2>1. RequestTypeOK'
    BY <1>2 DEF RequestTypeOK, IInv, RequestInv, Settled
  <2>2. Begins(c)
    BY <1>1, <1>2 DEF Begins, IInv, RequestInv, RequestTypeOK
  <2>3. \A d \in Call \ {c} : Rests(d) /\ ~Begins(d)
    BY <1>2 DEF Rests, Begins, IInv, RequestInv, RequestTypeOK
  <2>4. \A d \in Call : RequestMoves(d)
    BY <2>2, <2>3 DEF RequestMoves
  <2> QED BY <1>2, <2>1, <2>3, <2>4, StepKeeps DEF IInv
<1>3. UNCHANGED transmissions =>
        transmissions' \in [Alarm -> 0..2] /\ \A d \in Call : Untold(d)
  BY DEF Untold, IInv, RequestInv, RequestTypeOK
<1>4. \A d \in Alarm \ {c} : d \in Call /\ ConnOf(d) \in Conn
  BY Owners DEF Call, IInv, ConnectionInv
<1>5. CASE socket[n].state = "connected" /\ Asks(c, "handed") /\ Transmit({c}) /\ UNCHANGED connections
  <2>1. /\ sent \subseteq sent' /\ sent' \subseteq Call /\ transmissions' \in [Alarm -> 0..2]
        /\ Told(c) /\ \A d \in Call \ {c} : Untold(d)
    BY <1>1, <1>5, TransmitTells DEF IInv, RequestInv
  <2>2. RequestInv'
    BY <1>2, <1>5, <2>1 DEF Asks
  <2>3. \A d \in Alarm : stage'[d] = "handed" => socket'[ConnOf(d)].state = "connected"
    BY <1>4, <1>5 DEF Asks, connections, IInv, HandedIsConnected, RequestInv, RequestTypeOK
  <2> QED BY <1>1, <2>2, <2>3, HandedStep
<1>6. CASE Asks(c, "queued") /\ UNCHANGED <<sent, transmissions>> /\
           (UNCHANGED connections \/ (socket[n].state = "none" /\ Opens(n)))
  <2>1. RequestInv'
    BY <1>2, <1>3, <1>6 DEF Asks, IInv, RequestInv, RequestTypeOK
  <2>2. ASSUME NEW d \in Alarm, stage'[d] = "handed"
        PROVE  socket'[ConnOf(d)].state = "connected"
    <3>1. d # c /\ stage[d] = "handed" /\ socket[ConnOf(d)].state = "connected"
      BY <1>4, <1>6, <2>2 DEF Asks, IInv, HandedIsConnected, RequestInv, RequestTypeOK, Call
    <3> QED BY <1>1, <1>4, <1>6, <3>1 DEF connections, Opens, IInv, ConnectionInv, ConnectionTypeOK
  <2> QED BY <1>1, <2>1, <2>2, HandedStep
<1>7. CASE Settle({c}, Failing("notSent")) /\ UNCHANGED <<connections, sent, transmissions>>
  <2>1. /\ stage' = [d \in Call |-> IF d = c THEN "ended" ELSE stage[d]]
        /\ outcome' = [d \in Call |-> IF d = c THEN "notSent" ELSE outcome[d]]
    BY <1>7 DEF Settle, Failing
  <2>2. RequestInv'
    BY <1>2, <1>3, <1>7, <2>1 DEF IInv, RequestInv, RequestTypeOK
  <2>3. \A d \in Alarm : stage'[d] = "handed" => socket'[ConnOf(d)].state = "connected"
    BY <1>4, <1>7, <2>1 DEF connections, IInv, HandedIsConnected, Call
  <2> QED BY <1>1, <2>2, <2>3, HandedStep
<1> QED BY <1>5, <1>6, <1>7 DEF Ask

LEMMA AskDisconnectsRequests ==
  ASSUME IInv, NEW c \in Call, AskDisconnects(c)
  PROVE  RequestInv' /\ HandedIsConnected'
<1> DEFINE n == ConnOf(c)
<1>1. /\ outcome[c] = "none" /\ MayAsk(c) /\ UNCHANGED <<mode, sent, transmissions>>
      /\ stage[c] = "unused" /\ n \in Conn
      /\ socket' = [socket EXCEPT ![n] = NoSocket]
      /\ stage' = [d \in Call |-> IF d = c THEN "queued"
                                  ELSE IF d \in SentMutations(n) THEN "ended" ELSE stage[d]]
      /\ outcome' = [d \in Call |-> IF d = c THEN "waiting"
                                    ELSE IF d \in SentMutations(n) THEN "sent" ELSE outcome[d]]
  BY Owners DEF AskDisconnects, IInv, RequestInv, InStep, ConnectionInv
<1>2. RequestTypeOK'
  BY <1>1 DEF RequestTypeOK, IInv, RequestInv, Settled
<1>3. Begins(c) /\ RequestMoves(c)
  BY <1>1 DEF Begins, RequestMoves, Untold
<1>4. \A d \in Call \ {c} : RequestMoves(d) /\ ~Begins(d)
  <2> TAKE d \in Call \ {c}
  <2>1. CASE d \in SentMutations(n)
    BY <1>1, <2>1 DEF SentMutations, RequestMoves, Ends, Begins, Untold, Settled
  <2>2. CASE d \notin SentMutations(n)
    BY <1>1, <2>2 DEF RequestMoves, Rests, Begins, Untold, IInv, RequestInv, RequestTypeOK
  <2> QED BY <2>1, <2>2
<1>5. RequestInv'
  BY <1>1, <1>2, <1>3, <1>4, StepKeeps DEF IInv
<1>6. ASSUME NEW d \in Alarm, stage'[d] = "handed"
      PROVE  socket'[ConnOf(d)].state = "connected"
  <2>1. d \in Call /\ d # c /\ d \notin SentMutations(n) /\ stage[d] = "handed" /\ ConnOf(d) \in Conn
    BY <1>1, <1>6, Owners DEF Call, IInv, ConnectionInv
  <2>2. ConnOf(d) # n
    BY <2>1, <1>6 DEF SentMutations, Held, IsMutation
  <2> QED BY <1>1, <1>6, <2>1, <2>2 DEF IInv, HandedIsConnected, ConnectionInv, ConnectionTypeOK
<1> QED BY <1>1, <1>5, <1>6, HandedStep

LEMMA EndedByPeerRequests ==
  ASSUME IInv, NEW c \in Call, EndedByPeer(c)
  PROVE  RequestInv' /\ HandedIsConnected'
<1>1. PICK result \in {"ended", "sent"} : Settle({c}, Failing(result))
  BY DEF EndedByPeer
<1>2. stage[c] = "handed" /\ UNCHANGED <<mode, connections, sent, transmissions>>
  BY DEF EndedByPeer, Receiving
<1>3. RequestInv'
  BY <1>1, <1>2, SettleKeeps DEF IInv, Failing, Settled
<1>4. \A d \in Alarm : stage'[d] = "handed" => socket'[ConnOf(d)].state = "connected"
  BY <1>1, <1>2 DEF Settle, Call, connections, IInv, HandedIsConnected
<1> QED BY <1>2, <1>3, <1>4, HandedStep

LEMMA HandshakeRequests ==
  ASSUME IInv, NEW n \in Conn, HandshakeCompletes(n)
  PROVE  RequestInv' /\ HandedIsConnected'
<1>1. /\ ToSend(n) \in SUBSET Call /\ \A c \in ToSend(n) \cap Alarm : transmissions[c] = 0
      /\ \A c \in ToSend(n) : stage[c] \in {"queued", "handed"} /\ (c \in Alarm => stage[c] = "queued")
  BY SentOnce DEF IInv
<1>2. /\ stage' = [c \in Call |-> IF c \in ToSend(n) THEN "handed" ELSE stage[c]]
      /\ Transmit(ToSend(n)) /\ UNCHANGED <<mode, outcome>>
  BY DEF HandshakeCompletes
<1>3. /\ sent \subseteq sent' /\ sent' \subseteq Call /\ transmissions' \in [Alarm -> 0..2]
      /\ \A c \in Call : IF c \in ToSend(n) THEN Told(c) ELSE Untold(c)
  BY <1>1, <1>2, TransmitTells DEF IInv, RequestInv
<1>4. RequestTypeOK'
  BY <1>2, <1>3 DEF RequestTypeOK, IInv, RequestInv
<1>5. \A c \in Call : RequestMoves(c) /\ ~Begins(c)
  <2> TAKE c \in Call
  <2>1. CASE c \in ToSend(n) /\ stage[c] = "queued"
    BY <1>2, <1>3, <2>1 DEF RequestMoves, IsHanded, Begins
  <2>2. CASE c \in ToSend(n) /\ stage[c] = "handed"
    BY <1>1, <1>2, <2>2 DEF RequestMoves, Rests, Untold, Begins
  <2>3. CASE c \notin ToSend(n)
    BY <1>2, <1>3, <2>3 DEF RequestMoves, Rests, Begins, IInv, RequestInv, RequestTypeOK
  <2> QED BY <1>1, <2>1, <2>2, <2>3
<1>6. RequestInv'
  BY <1>3, <1>4, <1>5, StepKeeps DEF IInv
<1>7. ASSUME NEW c \in Alarm, stage'[c] = "handed"
      PROVE  socket'[ConnOf(c)].state = "connected"
  <2>1. c \in Call /\ ConnOf(c) \in Conn
    BY Owners DEF Call, IInv, ConnectionInv
  <2>2. CASE ConnOf(c) = n
    <3>1. c \in Held(n)
      BY <1>2, <1>7, <2>1, <2>2, SentOnce DEF Held, IInv
    <3> QED BY <2>1, <2>2, <3>1 DEF HandshakeCompletes, IInv, ConnectionInv, ConnectionTypeOK
  <2>3. CASE ConnOf(c) # n
    <3>1. stage[c] = "handed"
      BY <1>2, <1>7, <2>1, <2>3, SentOnce DEF IInv
    <3> QED BY <2>1, <2>3, <3>1 DEF HandshakeCompletes, Idle, IInv, HandedIsConnected, ConnectionInv, ConnectionTypeOK
  <2> QED BY <2>2, <2>3
<1> QED BY <1>2, <1>6, <1>7, HandedStep

LEMMA SocketEndsRequests ==
  ASSUME IInv, NEW n \in Conn, SocketEnds(n)
  PROVE  RequestInv' /\ HandedIsConnected'
<1>1. CASE Disconnects(n, {}) /\ UNCHANGED mode
  <2>1. {} \in SUBSET ToSend(n)
    OBVIOUS
  <2> QED BY <1>1, <2>1, DisconnectsRequests
<1>2. CASE /\ socket[n].state = "connecting" /\ socket' = [socket EXCEPT ![n] = NoSocket]
           /\ UNCHANGED <<mode, requests>>
  <2>1. RequestInv'
    BY <1>2, SameRequests DEF IInv
  <2>2. \A c \in Alarm : stage'[c] = "handed" => socket'[ConnOf(c)].state = "connected"
    <3>1. \A c \in Alarm : c \in Call /\ ConnOf(c) \in Conn
      BY Owners DEF Call, IInv, ConnectionInv
    <3> QED BY <1>2, <3>1 DEF requests, IInv, HandedIsConnected, ConnectionInv, ConnectionTypeOK
  <2> QED BY <1>2, <2>1, <2>2, HandedStep
<1>3. CASE /\ socket[n].state = "connecting" /\ Settle(Held(n), Failing("notSent")) /\ Idle({n})
           /\ UNCHANGED <<mode, sent, transmissions>>
  <2>1. Held(n) \in SUBSET Call /\ \A c \in Held(n) :
          /\ stage[c] \in {"queued", "handed"} /\ Failing("notSent")[c] \in Settled
          /\ c \in Alarm => transmissions[c] = 0
    BY <1>3 DEF Held, Failing, Settled, IInv, HandedIsConnected, RequestInv, DeliveryTrue
  <2>2. RequestInv'
    BY <1>3, <2>1, SettleKeeps DEF IInv
  <2>3. ASSUME NEW c \in Alarm, stage'[c] = "handed"
        PROVE  socket'[ConnOf(c)].state = "connected"
    <3>1. c \in Call /\ c \notin Held(n) /\ stage[c] = "handed" /\ ConnOf(c) \in Conn
      BY <1>3, <2>3, Owners DEF Settle, Call, IInv, ConnectionInv
    <3> QED BY <1>3, <3>1 DEF Held, Idle, IInv, HandedIsConnected
  <2> QED BY <1>3, <2>2, <2>3, HandedStep
<1> QED BY <1>1, <1>2, <1>3 DEF SocketEnds

LEMMA ReconnectRequests ==
  ASSUME IInv, NEW n \in Conn, ReconnectTimerFires(n)
  PROVE  RequestInv' /\ HandedIsConnected'
<1>1. RequestInv'
  BY SameRequests DEF ReconnectTimerFires, IInv
<1>2. \A c \in Alarm : stage'[c] = "handed" => socket'[ConnOf(c)].state = "connected"
  <2>1. \A c \in Alarm : c \in Call /\ ConnOf(c) \in Conn
    BY Owners DEF Call, IInv, ConnectionInv
  <2> QED BY <2>1 DEF ReconnectTimerFires, Opens, requests, IInv, HandedIsConnected, ConnectionInv, ConnectionTypeOK
<1> QED BY <1>1, <1>2, HandedStep DEF ReconnectTimerFires

\* An alarm's request that was handed over is on a connection of the client.
LEMMA HandedIsOwned ==
  ASSUME IInv, NEW c \in Alarm, stage[c] = "handed"
  PROVE  c \in Call /\ ConnOf(c) \in Own /\ c \in Held(ConnOf(c)) /\ c \in SentMutations(ConnOf(c))
<1>1. c \in Call /\ ConnOf(c) \in Conn
  BY Owners DEF Call, IInv, ConnectionInv
<1>2. ConnOf(c) \in Own
  BY <1>1 DEF IInv, HandedIsConnected, ConnectionInv, ConnectionsOwned
<1> QED BY <1>1, <1>2 DEF Held, SentMutations, IsMutation

LEMMA RefreshRequests ==
  ASSUME IInv, RefreshSession
  PROVE  RequestInv' /\ HandedIsConnected'
<1>1. PICK broken \in SUBSET Needed : RefreshWith(broken)
  BY RefreshShape
<1> DEFINE S == Ended \cup Lost(broken)
           result == [c \in Call |-> IF c \in Ended THEN "sent" ELSE "notSent"]
<1>2. Settle(S, result) /\ UNCHANGED <<mode, sent, transmissions>>
  BY <1>1 DEF RefreshWith
<1>3. Ended \in SUBSET Call /\ \A c \in Ended : stage[c] \in {"queued", "handed"}
  BY DEF Ended, SentMutations, Held
<1>4. Lost(broken) \in SUBSET Call /\ \A c \in Lost(broken) : stage[c] \in {"queued", "handed"}
  BY DEF Lost, Kept, Held
<1>5. \A c \in Alarm : stage[c] = "handed" => c \in Ended
  BY HandedIsOwned DEF Ended
<1>6. \A c \in S : c \in Alarm /\ result[c] = "notSent" => transmissions[c] = 0
  BY <1>3, <1>4, <1>5 DEF IInv, RequestInv, DeliveryTrue
<1>7. S \in SUBSET Call /\ \A c \in S : stage[c] \in {"queued", "handed"} /\ result[c] \in Settled
  BY <1>3, <1>4 DEF Settled
<1>8. RequestInv'
  <2> HIDE DEF S, result
  <2> QED BY <1>2, <1>6, <1>7, SettleKeeps DEF IInv
<1>9. \A c \in Alarm : stage'[c] # "handed"
  BY <1>2, <1>5 DEF Settle, Call
<1> QED BY <1>2, <1>8, <1>9, HandedStep

LEMMA CloseRequests ==
  ASSUME IInv, Close
  PROVE  RequestInv' /\ HandedIsConnected'
<1> DEFINE held == UNION {Held(n) : n \in Own}
           result == [c \in Call |-> IF c \in sent THEN "sent" ELSE "notSent"]
<1>1. Settle(held, result) /\ UNCHANGED <<mode, sent, transmissions>>
  BY DEF Close
<1>2. held \in SUBSET Call /\ \A c \in held : stage[c] \in {"queued", "handed"} /\ result[c] \in Settled
  BY DEF Held, Settled
<1>3. \A c \in held : c \in Alarm /\ result[c] = "notSent" => transmissions[c] = 0
  BY <1>2 DEF IInv, RequestInv, RequestTypeOK, DeliveryTrue
<1>4. RequestInv'
  <2> HIDE DEF held, result
  <2> QED BY <1>1, <1>2, <1>3, SettleKeeps DEF IInv
<1>5. \A c \in Alarm : stage'[c] # "handed"
  BY <1>1, HandedIsOwned DEF Settle, Call
<1> QED BY <1>1, <1>4, <1>5, HandedStep

-----------------------------------------------------------------------------
(***************************************************************************)
(* The invariant and its theorems.                                         *)
(***************************************************************************)
LEMMA Initial == Init => IInv
<1> SUFFICES ASSUME Init PROVE IInv
  OBVIOUS
<1>1. ConnectionInv
  BY Sockets DEF Init, ConnectionInv, ConnectionTypeOK, ConnectionsOwned, SocketsUseSession, Conn, State
<1>2. RequestInv
  BY DEF Init, RequestInv, RequestTypeOK, InStep, DeliveryTrue, OneUnspent, Call
<1>3. HandedIsConnected
  BY DEF Init, HandedIsConnected, Call
<1> QED BY <1>1, <1>2, <1>3 DEF IInv

LEMMA RequestInductive == IInv /\ [Next]_vars => RequestInv' /\ HandedIsConnected'
<1> SUFFICES ASSUME IInv, [Next]_vars PROVE RequestInv' /\ HandedIsConnected'
  OBVIOUS
<1>1. ASSUME NEW c \in Call,
             Ask(c) \/ AskDisconnects(c) \/ CloseStream(c) \/ TimerFires(c)
               \/ Answered(c) \/ PayloadFails(c) \/ EndedByPeer(c)
      PROVE  RequestInv' /\ HandedIsConnected'
  <2>1. CASE CloseStream(c)
    BY <2>1, ClosesRequests, KindAssumption DEF CloseStream, Settled, KindAssumption
  <2>2. CASE TimerFires(c)
    <3>1. c \in Alarm /\ c \notin sent => transmissions[c] = 0
      BY DEF IInv, RequestInv, RequestTypeOK, DeliveryTrue
    <3> QED BY <2>2, <3>1, ClosesRequests DEF TimerFires, Settled
  <2>3. CASE Answered(c)
    <3>1. outcome[c] = "waiting"
      BY <2>3 DEF Answered, Receiving, IInv, RequestInv, InStep
    <3> QED BY <2>3, <3>1, ClosesRequests DEF Answered, Settled
  <2>4. CASE PayloadFails(c)
    <3>1. outcome[c] = "waiting"
      BY <2>4 DEF PayloadFails, Receiving, IInv, RequestInv, InStep
    <3> QED BY <2>4, <3>1, ClosesRequests DEF PayloadFails, Settled
  <2> QED
    BY <1>1, <2>1, <2>2, <2>3, <2>4, AskRequests, AskDisconnectsRequests, EndedByPeerRequests
<1>2. ASSUME NEW n \in Conn,
             HandshakeCompletes(n) \/ HandshakeSendFails(n) \/ SocketEnds(n)
               \/ ReconnectTimerFires(n)
      PROVE  RequestInv' /\ HandedIsConnected'
  <2>1. CASE HandshakeSendFails(n)
    BY <2>1, DisconnectsRequests DEF HandshakeSendFails
  <2> QED BY <1>2, <2>1, HandshakeRequests, SocketEndsRequests, ReconnectRequests
<1>3. CASE UNCHANGED vars
  <2>1. RequestInv'
    BY <1>3, SameRequests DEF vars, IInv
  <2>2. HandedIsConnected'
    BY <1>3, HandedStep DEF vars, requests, connections, IInv, HandedIsConnected
  <2> QED BY <2>1, <2>2
<1> QED BY <1>1, <1>2, <1>3, RefreshRequests, CloseRequests DEF Next

LEMMA Invariant == Spec => []IInv
<1>1. IInv /\ [Next]_vars => IInv'
  BY ConnectionInductive, RequestInductive DEF IInv
<1> QED BY <1>1, Initial, PTL DEF Spec

\* The connections and the calls keep their types, for any queries, alarms,
\* streams and sessions (the fields of RawApi and of the client).
THEOREM RawTypeCorrect == Spec => []TypeOK
<1>1. IInv => TypeOK
  BY DEF IInv, TypeOK, ConnectionInv, RequestInv
<1> QED BY <1>1, Invariant, PTL

\* Every connection with a socket or in an outage can be reached by
\* refreshSession() and close() (isolatedConnections).
THEOREM ConnectionsOwnedAlways == Spec => []ConnectionsOwned
<1>1. IInv => ConnectionsOwned
  BY DEF IInv, ConnectionInv
<1> QED BY <1>1, Invariant, PTL

\* No socket stays on the headers of an earlier session (refreshSession()).
THEOREM SocketsUseSessionAlways == Spec => []SocketsUseSession
<1>1. IInv => SocketsUseSession
  BY DEF IInv, ConnectionInv
<1> QED BY <1>1, Invariant, PTL

\* An alarm is asked for once, whatever is lost, refreshed and repeated
\* (classifyMapperOperation() and the delivery state of query()).
THEOREM AlarmAskedOnceAlways == Spec => []AlarmAskedOnce
<1>1. IInv => AlarmAskedOnce
  <2> SUFFICES ASSUME IInv PROVE AlarmAskedOnce
    OBVIOUS
  <2>1. ASSUME NEW c \in Alarm, NEW d \in Alarm, c # d, AlarmOf[c] = AlarmOf[d],
               transmissions[c] > 0, transmissions[d] > 0
        PROVE  outcome[c] = "refused" \/ outcome[d] = "refused"
    <3>1. \A e \in {c, d} : e \in Call /\ outcome[e] \notin {"none", "notSent"}
      BY <2>1 DEF Call, IInv, RequestInv, InStep, DeliveryTrue
    <3> QED BY <2>1, <3>1 DEF IInv, RequestInv, OneUnspent
  <2> QED BY <2>1 DEF AlarmAskedOnce, IInv, RequestInv, DeliveryTrue
<1> QED BY <1>1, Invariant, PTL
=============================================================================
