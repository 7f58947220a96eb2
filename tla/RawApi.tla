------------------------------- MODULE RawApi -------------------------------
(***************************************************************************)
(* RawApi (src/src/raw.ts) and the calls the domain APIs make through it:  *)
(* queries with their timer, price alarms and streams, over one shared     *)
(* mapper connection or an isolated one per call, while sessions change    *)
(* and the client is closed.                                               *)
(*                                                                         *)
(* A connection is what MapperConnection (see there) looks like from       *)
(* outside: its socket, whether it is in an outage, and which requests it  *)
(* still holds.  A socket is known by the session whose headers opened it. *)
(***************************************************************************)
EXTENDS Naturals, FiniteSets

CONSTANTS
  Query, Alarm, Stream,  \* the calls an application may make: queries that read, queries
                         \* that create a price alarm, and subscriptions, which have no timer
  AlarmOf,     \* the price alarm each call of Alarm is to create
  Shared,      \* the connection of the shared mode
  MaxSession   \* bound on the sessions set

\* The methods of TimelineApi, PriceAlarmsApi, InstrumentsApi and their like are
\* each one such call, validated and reshaped.
Call == Query \cup Alarm \cup Stream

ASSUME KindAssumption ==
  Query \cap Alarm = {} /\ Query \cap Stream = {} /\ Alarm \cap Stream = {}
ASSUME SharedAssumption == Shared \notin Call
ASSUME SessionAssumption == MaxSession \in Nat

VARIABLES
  mode,                 \* websocketMode; fixed
  isolatedConnections,  \* the set of the class; a call names the connection made for it
  socket, outage,       \* of each connection
  session,              \* number of the client's session
  stage,                \* of each call's request in its connection
  sent,                 \* requests whose deliveryState is sent
  transmissions,        \* history: how often an alarm's request was handed to a socket, 2 for more
  outcome               \* of each call: "none" before it, "waiting" in it

connections == <<isolatedConnections, socket, outage>>
requests == <<stage, sent, transmissions, outcome>>
vars == <<mode, connections, session, requests>>

Conn == Call \cup {Shared}
ConnOf(c) == IF mode = "shared" THEN Shared ELSE c

\* A socket's state and the session whose headers opened it.
NoSocket == [state |-> "none", session |-> 0]
OpenedFor(s) == [state |-> "connecting", session |-> s]

\* What a settled call returned or threw: an answer, valid or not; the broker's
\* refusal; a MapperRequestError by its delivery state, a timeout's included;
\* "ended" by the peer, or a stream's by the application.
Settled == {"answered", "refused", "sent", "notSent", "ended"}

Init ==
  /\ mode \in {"shared", "isolated"}
  /\ isolatedConnections = {} /\ session = 0
  /\ socket = [n \in Conn |-> NoSocket] /\ outage = [n \in Conn |-> FALSE]
  /\ stage = [c \in Call |-> "unused"] /\ sent = {}
  /\ transmissions = [c \in Alarm |-> 0]
  /\ outcome = [c \in Call |-> "none"]

(***************************************************************************)
(* Which requests a reconnect sends again.                                 *)
(***************************************************************************)
MutantIsMutation(c) == FALSE

\* classifyMapperOperation: createPriceAlarm and cancelPriceAlarm are listed.
IsMutation(c) == c \in Alarm

Held(n) == {c \in Call : ConnOf(c) = n /\ stage[c] \in {"queued", "handed"}}
SentMutations(n) == {c \in Held(n) : IsMutation(c) /\ stage[c] = "handed"}
ToSend(n) == {c \in Held(n) : stage[c] = "queued" \/ ~IsMutation(c)}

(***************************************************************************)
(* Steps the events are built from.                                        *)
(***************************************************************************)

\* The calls in S are answered, fail or are closed: their promises settle, and
\* the finally block of a query closes what is left of its subscription.
Settle(S, result) ==
  /\ stage' = [c \in Call |-> IF c \in S THEN "ended" ELSE stage[c]]
  /\ outcome' = [c \in Call |-> IF c \in S THEN result[c] ELSE outcome[c]]

Failing(delivery) == [c \in Call |-> delivery]

\* closeIdleSocket() of the connections N, whose onIdle deregisters them.
Idle(N) ==
  /\ socket' = [n \in Conn |-> IF n \in N THEN NoSocket ELSE socket[n]]
  /\ isolatedConnections' = isolatedConnections \ N

Opens(n) == socket' = [socket EXCEPT ![n] = OpenedFor(session)]

Transmit(S) ==
  /\ sent' = sent \cup S
  /\ transmissions' = [c \in Alarm |-> IF c \in S /\ transmissions[c] < 2
                                       THEN transmissions[c] + 1 ELSE transmissions[c]]

\* subscription.close() of c, called by the application, by a finally block or
\* by return(): the last request of a connection takes an idle socket along.
Closes(c, result) ==
  LET n == ConnOf(c)
  IN /\ Settle({c}, Failing(result))
     /\ IF Held(n) = {c} /\ ~outage[n]
        THEN Idle({n}) ELSE UNCHANGED <<socket, isolatedConnections>>
     /\ UNCHANGED <<mode, outage, session, sent, transmissions>>

\* handleSocketEnd() on a connected socket: an outage begins or goes on, and of
\* the requests sent, those in S just now included, the mutations end.
Disconnects(n, S) ==
  /\ socket' = [socket EXCEPT ![n] = NoSocket] /\ outage' = [outage EXCEPT ![n] = TRUE]
  /\ Transmit(S)
  /\ LET ended == SentMutations(n) \cup {c \in S : IsMutation(c)}
     IN /\ stage' = [c \in Call |-> IF c \in ended THEN "ended"
                                    ELSE IF c \in S THEN "handed" ELSE stage[c]]
        /\ outcome' = [c \in Call |-> IF c \in ended THEN "sent" ELSE outcome[c]]

(***************************************************************************)
(* Calls.                                                                  *)
(***************************************************************************)

\* The application creates an alarm again only when it was told that the alarm
\* was never asked for, or refused.
MayAsk(c) ==
  \A d \in Alarm \ {c} :
    c \in Alarm /\ AlarmOf[d] = AlarmOf[c] => outcome[d] \in {"none", "notSent", "refused"}

Registered(c) == IF mode = "isolated" THEN isolatedConnections \cup {c} ELSE isolatedConnections

Asks(c, newStage) ==
  /\ stage' = [stage EXCEPT ![c] = newStage]
  /\ outcome' = [outcome EXCEPT ![c] = "waiting"]

\* openSubscription() and the subscribe() of the connection it takes.
Ask(c) ==
  LET n == ConnOf(c)
  IN /\ outcome[c] = "none" /\ MayAsk(c)
     /\ \/ /\ socket[n].state = "connected"                     \* sent at once
           /\ Asks(c, "handed") /\ Transmit({c})
           /\ UNCHANGED connections
        \/ /\ socket[n].state = "connecting" \/ outage[n]       \* it waits
           /\ socket[n].state # "connected"
           /\ Asks(c, "queued")
           /\ UNCHANGED <<connections, sent, transmissions>>
        \/ /\ socket[n].state = "none" /\ ~outage[n]            \* it opens a socket
           /\ Opens(n) /\ isolatedConnections' = Registered(c)
           /\ Asks(c, "queued")
           /\ UNCHANGED <<outage, sent, transmissions>>
        \/ /\ socket[n].state = "none" /\ ~outage[n]            \* the factory throws
           /\ Settle({c}, Failing("notSent"))
           /\ UNCHANGED <<connections, sent, transmissions>>
     /\ UNCHANGED <<mode, session>>

\* The send of a new request throws: it stays queued in the outage that begins.
AskDisconnects(c) ==
  LET n == ConnOf(c)
  IN /\ outcome[c] = "none" /\ MayAsk(c) /\ socket[n].state = "connected"
     /\ socket' = [socket EXCEPT ![n] = NoSocket] /\ outage' = [outage EXCEPT ![n] = TRUE]
     /\ stage' = [d \in Call |-> IF d = c THEN "queued"
                                 ELSE IF d \in SentMutations(n) THEN "ended" ELSE stage[d]]
     /\ outcome' = [d \in Call |-> IF d = c THEN "waiting"
                                   ELSE IF d \in SentMutations(n) THEN "sent" ELSE outcome[d]]
     /\ UNCHANGED <<mode, isolatedConnections, session, sent, transmissions>>

\* The application's close() of a stream; a snapshot of an order book is a
\* stream its method closes after the first payload.
CloseStream(c) == c \in Stream /\ outcome[c] = "waiting" /\ Closes(c, "ended")

\* The timer of a query.
MutantTimerFires(c) ==
  /\ c \in Query \cup Alarm /\ outcome[c] = "waiting" /\ stage[c] = "handed"
  /\ Closes(c, "sent")

TimerFires(c) ==
  /\ c \in Query \cup Alarm /\ outcome[c] = "waiting"
  /\ Closes(c, IF c \in sent THEN "sent" ELSE "notSent")

Receiving(c) == stage[c] = "handed" /\ socket[ConnOf(c)].state = "connected"

\* The first payload ends a query, with errors in it or without.
Answered(c) ==
  /\ c \in Query \cup Alarm /\ Receiving(c)
  /\ \E result \in {"answered", "refused"} : Closes(c, result)

\* A stream goes on until a payload fails its schema or its mapping: the
\* exception leaves the loop of mapAsync(), whose iterator is returned.
PayloadFails(c) == c \in Stream /\ Receiving(c) /\ Closes(c, "ended")

\* The peer ends the subscription with an error or without, which a query takes
\* for a timeout.  The connection has dropped it by then: no socket is closed.
EndedByPeer(c) ==
  /\ Receiving(c)
  /\ \E result \in {"ended"} \cup (IF c \in Stream THEN {} ELSE {"sent"}) :
       Settle({c}, Failing(result))
  /\ UNCHANGED <<mode, connections, session, sent, transmissions>>

(***************************************************************************)
(* What happens to a connection.                                           *)
(***************************************************************************)
HandshakeCompletes(n) ==
  /\ socket[n].state # "none"
  /\ Transmit(ToSend(n))
  /\ stage' = [c \in Call |-> IF c \in ToSend(n) THEN "handed" ELSE stage[c]]
  /\ outage' = [outage EXCEPT ![n] = FALSE]
  /\ IF outage[n] /\ Held(n) = {}
     THEN Idle({n})
     ELSE socket' = [socket EXCEPT ![n].state = "connected"] /\ UNCHANGED isolatedConnections
  /\ UNCHANGED <<mode, session, outcome>>

\* A send throws after some of the requests; which come first is MapperConnection's.
HandshakeSendFails(n) ==
  /\ socket[n].state # "none"
  /\ \E S \in SUBSET ToSend(n) : S # ToSend(n) /\ Disconnects(n, S)
  /\ UNCHANGED <<mode, isolatedConnections, session>>

SocketEnds(n) ==
  \/ /\ socket[n].state = "connected" /\ Disconnects(n, {})
     /\ UNCHANGED <<mode, isolatedConnections, session>>
  \/ /\ socket[n].state = "connecting" /\ outage[n]
     /\ socket' = [socket EXCEPT ![n] = NoSocket]
     /\ UNCHANGED <<mode, isolatedConnections, outage, session, requests>>
  \/ /\ socket[n].state = "connecting" /\ ~outage[n]            \* nothing was ever sent
     /\ Settle(Held(n), Failing("notSent")) /\ Idle({n})
     /\ UNCHANGED <<mode, outage, session, sent, transmissions>>

ReconnectTimerFires(n) ==
  /\ outage[n] /\ socket[n].state = "none"
  /\ Opens(n)
  /\ UNCHANGED <<mode, isolatedConnections, outage, session, requests>>

(***************************************************************************)
(* The client.                                                             *)
(***************************************************************************)
MutantOwn == isolatedConnections

\* The connections refreshSession() and close() go through.
Own == IF mode = "shared" THEN {Shared} ELSE isolatedConnections

\* setSession(): refreshHeaders() on every connection with a socket.  The
\* factory throws for those in broken.
RefreshSession ==
  /\ session < MaxSession /\ session' = session + 1
  /\ LET ended    == UNION {SentMutations(n) : n \in Own}
         Kept(n)  == Held(n) \ ended
         Needed   == {n \in Own : socket[n].state # "none" /\ (Kept(n) # {} \/ outage[n])}
         unneeded == {n \in Own \ Needed : socket[n].state # "none"}
     IN \E broken \in SUBSET Needed :
          LET idle == unneeded \cup {n \in broken : ~outage[n]}
              lost == UNION {Kept(n) : n \in {k \in broken : ~outage[k]}}
          IN /\ Settle(ended \cup lost, [c \in Call |-> IF c \in ended THEN "sent" ELSE "notSent"])
             /\ socket' = [n \in Conn |->
                  IF n \in Needed \ broken THEN OpenedFor(session')
                  ELSE IF n \in broken \cup idle THEN NoSocket ELSE socket[n]]
             /\ isolatedConnections' = isolatedConnections \ idle
  /\ UNCHANGED <<mode, outage, sent, transmissions>>

Close ==
  /\ LET held == UNION {Held(n) : n \in Own}
     IN Settle(held, [c \in Call |-> IF c \in sent THEN "sent" ELSE "notSent"])
  /\ outage' = [n \in Conn |-> IF n \in Own THEN FALSE ELSE outage[n]]
  /\ Idle(Own)
  /\ UNCHANGED <<mode, session, sent, transmissions>>

Next ==
  \/ \E c \in Call :
       \/ Ask(c) \/ AskDisconnects(c) \/ CloseStream(c) \/ TimerFires(c)
       \/ Answered(c) \/ PayloadFails(c) \/ EndedByPeer(c)
  \/ \E n \in Conn :
       \/ HandshakeCompletes(n) \/ HandshakeSendFails(n) \/ SocketEnds(n)
       \/ ReconnectTimerFires(n)
  \/ RefreshSession \/ Close

Spec == Init /\ [][Next]_vars

\* Only the timers of the queries are relied on.
FairSpec == Spec /\ \A c \in Call : WF_vars(TimerFires(c))

(***************************************************************************)
(* Properties.                                                             *)
(***************************************************************************)
ConnectionTypeOK ==
  /\ mode \in {"shared", "isolated"} /\ isolatedConnections \subseteq Call
  /\ session \in 0..MaxSession
  /\ socket \in [Conn -> [state : {"none", "connecting", "connected"}, session : 0..MaxSession]]
  /\ outage \in [Conn -> BOOLEAN]

RequestTypeOK ==
  /\ stage \in [Call -> {"unused", "queued", "handed", "ended"}]
  /\ outcome \in [Call -> Settled \cup {"none", "waiting"}]
  /\ sent \subseteq Call /\ transmissions \in [Alarm -> 0..2]

\* Every field keeps its type.
TypeOK == ConnectionTypeOK /\ RequestTypeOK

\* README.md:1519-1522 for price alarms: whatever reconnects and refreshes do, a
\* request for an alarm is sent once, and an application that repeats it after
\* an error with deliveryState notSent or a refusal never has two on the way.
AlarmAskedOnce ==
  /\ \A c \in Alarm : transmissions[c] <= 1
  /\ \A c, d \in Alarm :
       /\ c # d /\ AlarmOf[c] = AlarmOf[d]
       /\ transmissions[c] > 0 /\ transmissions[d] > 0
       => outcome[c] = "refused" \/ outcome[d] = "refused"

\* Whatever has a socket, or will open one, can be reached by refreshSession()
\* and close(): an isolated connection stays in the set through an outage even
\* when the request it was made for is over.
ConnectionsOwned ==
  \A n \in Conn : socket[n].state # "none" \/ outage[n] => n \in Own

\* No socket stays on the headers of an earlier session.
SocketsUseSession ==
  \A n \in Conn : socket[n].state # "none" => socket[n].session = session

\* A query ends by its timeout, with the broker silent, the connection lost or
\* the session changing again and again.
QueriesEnd == \A c \in Query \cup Alarm : outcome[c] = "waiting" ~> outcome[c] # "waiting"
=============================================================================
