-------------------------- MODULE MapperConnection --------------------------
(***************************************************************************)
(* One MapperConnection (src/src/mapper-connection.ts): a single websocket *)
(* multiplexing resource subscriptions, its handshake and reconnect        *)
(* timers, and the delivery state it reports for every request.            *)
(*                                                                         *)
(* The program is single threaded: a public method, a socket event or a    *)
(* timer callback runs to completion, so each is one action.  The peer,    *)
(* the network, the application and the clock only choose which runs next. *)
(***************************************************************************)
EXTENDS Naturals, FiniteSets

CONSTANTS
  Sub,         \* subscription objects an application may create, each once
  Mutation,    \* those created with replayOnReconnect: false
  Socket,      \* websocket objects; one may be reused once it is closed
  None,        \* the JavaScript undefined
  MaxBacklog,  \* bound on payloads buffered per subscription
  MaxWaiting   \* bound on next() promises pending per subscription

ASSUME SubAssumption == IsFiniteSet(Sub) /\ Mutation \subseteq Sub
ASSUME NoneAssumption == None \notin Socket
ASSUME BoundAssumption == MaxBacklog \in Nat /\ MaxWaiting \in Nat

VARIABLES
  \* The fields of the class.
  socket, connected, nextSubscriptionId, subscriptions,
  reconnectTimer, handshakeTimer, outage, reconnectAttempts,
  \* The fields of each SubscriptionState; backlog and waiting are the
  \* lengths of messages and waiters.
  id, sent, failure, backlog, waiting,
  \* History and environment: the subscription objects created so far; the
  \* sockets neither side has closed; the <<id, subscription>> pairs the peer
  \* holds on the current socket; how often each request was handed to a
  \* socket (0, 1, or 2 for more); how many onDisconnect callbacks no
  \* onReconnect has answered since close(); whether onIdle ran last.
  issued, live, wire, transmissions, announced, idle

connVars == <<socket, connected, handshakeTimer, live>>
outageVars == <<outage, reconnectAttempts, announced>>
queueVars == <<backlog, waiting>>
sendVars == <<sent, transmissions, wire>>
vars == <<socket, connected, nextSubscriptionId, subscriptions,
          reconnectTimer, handshakeTimer, outage, reconnectAttempts,
          id, sent, failure, backlog, waiting,
          issued, live, wire, transmissions, announced, idle>>

LocalReasons == {"clientClosed", "connectFailure", "disconnect",
                 "handshakeTimeout", "sendFailure", "sessionRefresh"}
NoFailure == [reason |-> "none", delivery |-> "none"]
MapperFailure(reason, delivery) == [reason |-> reason, delivery |-> delivery]
ProtocolFailure == [reason |-> "protocol", delivery |-> "none"]
Failures == {NoFailure, ProtocolFailure}
              \cup [reason : LocalReasons, delivery : {"sent", "notSent"}]

Saturate(n) == IF n < 2 THEN n + 1 ELSE 2

Init ==
  /\ socket = None /\ connected = FALSE /\ nextSubscriptionId = 1
  /\ subscriptions = {} /\ reconnectTimer = FALSE /\ handshakeTimer = None
  /\ outage = FALSE /\ reconnectAttempts = 0
  /\ id = [s \in Sub |-> 0] /\ sent = {}
  /\ failure = [s \in Sub |-> NoFailure]
  /\ backlog = [s \in Sub |-> 0] /\ waiting = [s \in Sub |-> 0]
  /\ issued = {} /\ live = {} /\ wire = {}
  /\ transmissions = [s \in Sub |-> 0] /\ announced = 0
  /\ idle = FALSE

(***************************************************************************)
(* Steps the handlers are built from.  Where a handler has already changed *)
(* the map of subscriptions, the sent flags or the next number, the values *)
(* it has reached are the parameters open, done and next.                  *)
(***************************************************************************)

\* fail() on every member of F: it leaves the map and its waiters are rejected.
MutantFail(open, F, error) ==
  /\ subscriptions' = open \ F
  /\ failure' = [s \in Sub |-> IF s \in F THEN error[s] ELSE failure[s]]
  /\ waiting' = waiting

Fail(open, F, error) ==
  /\ subscriptions' = open \ F
  /\ failure' = [s \in Sub |-> IF s \in F THEN error[s] ELSE failure[s]]
  /\ waiting' = [s \in Sub |-> IF s \in F THEN 0 ELSE waiting[s]]

\* The current socket is forgotten and is closed, by this side or by the peer.
DropSocket ==
  /\ socket' = None /\ connected' = FALSE /\ handshakeTimer' = None
  /\ live' = live \ {socket} /\ wire' = {}

CloseIdleSocket ==
  /\ DropSocket
  /\ reconnectTimer' = FALSE /\ nextSubscriptionId' = 1 /\ idle' = TRUE

\* failInitialSubscriptions: whatever is in the map fails as never sent, and
\* the then idle socket is closed.
FailInitial(open, reason) ==
  /\ Fail(open, open, [s \in Sub |-> MapperFailure(reason, "notSent")])
  /\ CloseIdleSocket

MutantScheduleReconnect == reconnectTimer' = ~outage

ScheduleReconnect == reconnectTimer' = TRUE

\* An outage begins, unless one lasts already, and is announced.
MutantBeginOutage ==
  /\ outage' = TRUE
  /\ reconnectAttempts' = IF outage THEN reconnectAttempts ELSE 0
  /\ announced' = Saturate(announced)

BeginOutage ==
  /\ outage' = TRUE
  /\ reconnectAttempts' = IF outage THEN reconnectAttempts ELSE 0
  /\ announced' = IF outage THEN announced ELSE Saturate(announced)

\* The requests failSentNonReplayableSubscriptions ends.
MutantSentMutationsReads(open, done) == open \cap done

SentMutations(open, done) == open \cap done \cap Mutation

\* handleSocketEnd on the current socket.
HandleSocketEnd(wasConnected, reason, open, done, next) ==
  IF wasConnected \/ outage
  THEN /\ DropSocket /\ BeginOutage /\ ScheduleReconnect
       /\ Fail(open,
               IF reason \in {"disconnect", "sendFailure"}
               THEN SentMutations(open, done) ELSE {},
               [s \in Sub |-> MapperFailure(reason, "sent")])
       /\ nextSubscriptionId' = next /\ idle' = FALSE
  ELSE /\ FailInitial(open, IF reason = "disconnect" THEN "connectFailure" ELSE reason)
       /\ UNCHANGED outageVars

\* The factory returns a socket and its listeners attach.
MutantOpenSocket(k) ==
  /\ k \in Socket \ live
  /\ socket' = k /\ handshakeTimer' = None /\ connected' = FALSE
  /\ live' = (live \ {socket}) \cup {k} /\ wire' = {}

OpenSocket(k) ==
  /\ k \in Socket \ live
  /\ socket' = k /\ handshakeTimer' = k /\ connected' = FALSE
  /\ live' = (live \ {socket}) \cup {k} /\ wire' = {}

\* The factory throws; attaching a listener to the new socket throwing, which
\* closes it again, has the same effect.  The old socket is gone already.
OpenFails(open, next) ==
  IF outage
  THEN /\ DropSocket /\ ScheduleReconnect
       /\ subscriptions' = open /\ UNCHANGED <<failure, waiting>>
       /\ nextSubscriptionId' = next /\ idle' = FALSE
  ELSE FailInitial(open, "connectFailure")

\* sendSubscription succeeding for every member of S.
MutantTransmit(S) ==
  /\ sent' = sent
  /\ transmissions' =
       [s \in Sub |-> IF s \in S THEN Saturate(transmissions[s]) ELSE transmissions[s]]

Transmit(S) ==
  /\ sent' = sent \cup S
  /\ transmissions' =
       [s \in Sub |-> IF s \in S THEN Saturate(transmissions[s]) ELSE transmissions[s]]

Register(S) == wire' = wire \cup {<<id'[s], s>> : s \in S}

(***************************************************************************)
(* Public methods.                                                         *)
(***************************************************************************)
NewSubscription(s) ==
  /\ s \in Sub \ issued
  /\ issued' = issued \cup {s}
  /\ id' = [id EXCEPT ![s] = nextSubscriptionId]
  /\ UNCHANGED backlog

NeedsSocket == socket = None /\ ~reconnectTimer

\* subscribe() on a connected socket: the request goes out at once.
SubscribeConnected(s) ==
  /\ connected
  /\ NewSubscription(s)
  /\ \/ /\ Transmit({s}) /\ Register({s})
        /\ subscriptions' = subscriptions \cup {s}
        /\ nextSubscriptionId' = nextSubscriptionId + 1 /\ idle' = FALSE
        /\ UNCHANGED <<connVars, outageVars, reconnectTimer, failure, waiting>>
     \/ /\ HandleSocketEnd(TRUE, "sendFailure", subscriptions \cup {s}, sent,
                           nextSubscriptionId + 1)
        /\ UNCHANGED <<sent, transmissions>>

\* subscribe() with a handshake or a reconnect timer pending: it waits.
SubscribePending(s) ==
  /\ ~connected /\ ~NeedsSocket
  /\ NewSubscription(s)
  /\ subscriptions' = subscriptions \cup {s}
  /\ nextSubscriptionId' = nextSubscriptionId + 1 /\ idle' = FALSE
  /\ UNCHANGED <<connVars, outageVars, sendVars, reconnectTimer, failure, waiting>>

\* subscribe() with neither: it opens a socket, or fails there and then.
SubscribeOpening(s) ==
  /\ NeedsSocket
  /\ NewSubscription(s)
  /\ \/ /\ \E k \in Socket : OpenSocket(k)
        /\ subscriptions' = subscriptions \cup {s}
        /\ nextSubscriptionId' = nextSubscriptionId + 1 /\ idle' = FALSE
        /\ UNCHANGED <<outageVars, reconnectTimer, failure, waiting>>
     \/ /\ OpenFails(subscriptions \cup {s}, nextSubscriptionId + 1)
        /\ UNCHANGED outageVars
  /\ UNCHANGED <<sent, transmissions>>

Subscribe(s) == SubscribeConnected(s) \/ SubscribePending(s) \/ SubscribeOpening(s)

\* close() or return() of a subscription that is still in the map.
CloseSubscription(s) ==
  /\ s \in subscriptions
  /\ subscriptions' = subscriptions \ {s}
  /\ waiting' = [waiting EXCEPT ![s] = 0]
  /\ IF subscriptions = {s} /\ ~outage
     THEN CloseIdleSocket
     ELSE UNCHANGED <<connVars, wire, reconnectTimer, nextSubscriptionId, idle>>
  /\ UNCHANGED <<outageVars, id, sent, failure, backlog, issued, transmissions>>

\* refreshHeaders(): sent mutations end first, then the socket is replaced.
RefreshHeaders ==
  LET ended == SentMutations(subscriptions, sent)
      open  == subscriptions \ ended
      error == [s \in Sub |-> IF s \in ended THEN MapperFailure("sessionRefresh", "sent")
                                             ELSE MapperFailure("connectFailure", "notSent")]
  IN /\ \/ /\ socket = None
           /\ Fail(subscriptions, ended, error)
           /\ UNCHANGED <<connVars, wire, reconnectTimer, nextSubscriptionId, idle>>
        \/ /\ socket # None /\ (open # {} \/ outage)
           /\ \E k \in Socket : OpenSocket(k)
           /\ Fail(subscriptions, ended, error)
           /\ UNCHANGED <<reconnectTimer, nextSubscriptionId, idle>>
        \/ /\ socket # None /\ outage                    \* the factory throws
           /\ DropSocket /\ ScheduleReconnect
           /\ Fail(subscriptions, ended, error)
           /\ UNCHANGED <<nextSubscriptionId, idle>>
        \/ /\ socket # None /\ ~outage   \* it throws, or nothing is left to serve
           /\ CloseIdleSocket
           /\ Fail(subscriptions, subscriptions, error)
     /\ UNCHANGED <<outageVars, id, sent, backlog, issued, transmissions>>

\* close(): everything ends, silently for the outage callbacks.
ForgetOutage ==
  /\ outage' = FALSE /\ reconnectAttempts' = 0 /\ announced' = 0
  /\ reconnectTimer' = FALSE

Close ==
  /\ Fail(subscriptions, subscriptions,
          [s \in Sub |-> MapperFailure("clientClosed", IF s \in sent THEN "sent" ELSE "notSent")])
  /\ DropSocket /\ ForgetOutage
  /\ idle' = TRUE
  /\ UNCHANGED <<nextSubscriptionId, id, sent, backlog, issued, transmissions>>

\* The iterator's next() when no error or end is already due.
NextTakes(s) ==
  /\ backlog[s] > 0
  /\ backlog' = [backlog EXCEPT ![s] = @ - 1]
  /\ UNCHANGED waiting

NextWaits(s) ==
  /\ backlog[s] = 0 /\ s \in subscriptions /\ waiting[s] < MaxWaiting
  /\ waiting' = [waiting EXCEPT ![s] = @ + 1]
  /\ UNCHANGED backlog

NextValue(s) ==
  /\ NextTakes(s) \/ NextWaits(s)
  /\ UNCHANGED <<connVars, outageVars, sendVars, nextSubscriptionId, subscriptions,
                 reconnectTimer, id, failure, issued, idle>>

(***************************************************************************)
(* Socket events and timers.  Every handler first compares its own socket  *)
(* with the current one; k ranges over all sockets because a replaced one  *)
(* keeps emitting.                                                         *)
(***************************************************************************)
IsCurrent(k) == socket = k

SocketEnds(k, reason) ==
  /\ IsCurrent(k)
  /\ HandleSocketEnd(connected, reason, subscriptions, sent, nextSubscriptionId)
  /\ UNCHANGED <<id, sent, backlog, issued, transmissions>>

\* 'close' and 'error'.
SocketCloses(k) == SocketEnds(k, IF connected THEN "disconnect" ELSE "connectFailure")

\* 'open', with the connect message refused; sent, it changes nothing here.
ConnectMessageFails(k) == ~connected /\ SocketEnds(k, "sendFailure")

HandshakeTimesOut(k) == handshakeTimer = k /\ SocketEnds(k, "handshakeTimeout")

\* 'connected' sends what is unsent or replayable, in the order of the map,
\* which is the order of ids.
MutantToSendAll == subscriptions

ToSend == {s \in subscriptions : s \notin sent \/ s \notin Mutation}

\* Every send succeeds: the outage, if there is one, is over.
HandshakeCompletes(k) ==
  /\ IsCurrent(k)
  /\ Transmit(ToSend)
  /\ outage' = FALSE /\ reconnectAttempts' = 0
  /\ announced' = IF outage THEN announced - 1 ELSE announced
  /\ IF outage /\ subscriptions = {}
     THEN CloseIdleSocket
     ELSE /\ connected' = TRUE /\ handshakeTimer' = None
          /\ wire' = wire \cup {<<id[s], s>> : s \in ToSend}
          /\ UNCHANGED <<socket, live, reconnectTimer, nextSubscriptionId, idle>>
  /\ UNCHANGED <<subscriptions, id, failure, queueVars, issued>>

\* The send for f throws, after those for the smaller ids.
HandshakeSendFails(k, f) ==
  LET before == {s \in ToSend : id[s] < id[f]}
  IN /\ IsCurrent(k) /\ f \in ToSend
     /\ Transmit(before)
     /\ HandleSocketEnd(TRUE, "sendFailure", subscriptions, sent \cup before,
                        nextSubscriptionId)
     /\ UNCHANGED <<id, backlog, issued>>

NeedsReconnect == socket = None /\ (subscriptions # {} \/ outage)

\* The timer's own field is cleared first, so a factory that throws in an
\* outage sets it again.  ensureSocket's early return is out of reach here: the
\* timer runs only in an outage and without a socket (NeverStranded).
ReconnectTimerFires ==
  /\ reconnectTimer /\ NeedsReconnect
  /\ reconnectAttempts' = IF outage THEN Saturate(reconnectAttempts) ELSE reconnectAttempts
  /\ \/ /\ \E k \in Socket : OpenSocket(k)
        /\ reconnectTimer' = FALSE
        /\ UNCHANGED <<subscriptions, failure, waiting, nextSubscriptionId, idle>>
     \/ OpenFails(subscriptions, nextSubscriptionId)
  /\ UNCHANGED <<outage, announced, id, sent, backlog, issued, transmissions>>

\* The peer answers a request it holds, or held, on the current socket; the
\* frame carries the request's number n and nothing else identifies it.
MutantAddressee(n) == {t \in issued : id[t] = n}

Addressee(n) == {t \in subscriptions : id[t] = n}

FrameFor(k, n) == IsCurrent(k) /\ \E s \in Sub : <<n, s>> \in wire

\* push(): a JSON frame, or a protobuf payload that decodes.
FramePushes(k, n) ==
  /\ FrameFor(k, n)
  /\ \E t \in Addressee(n) :
       \/ /\ waiting[t] > 0
          /\ waiting' = [waiting EXCEPT ![t] = @ - 1]
          /\ UNCHANGED backlog
       \/ /\ waiting[t] = 0 /\ backlog[t] < MaxBacklog
          /\ backlog' = [backlog EXCEPT ![t] = @ + 1]
          /\ UNCHANGED waiting
  /\ UNCHANGED <<connVars, outageVars, sendVars, nextSubscriptionId, subscriptions,
                 reconnectTimer, id, failure, issued, idle>>

\* A protobuf status, a protobuf frame for a JSON request, an undecodable
\* payload; or, with no error, a protobuf frame without a payload.  Neither
\* closes the socket.
FrameEnds(k, n) ==
  /\ FrameFor(k, n)
  /\ \E t \in Addressee(n), error \in {ProtocolFailure, NoFailure} :
       Fail(subscriptions, {t}, [s \in Sub |-> error])
  /\ UNCHANGED <<connVars, outageVars, sendVars, nextSubscriptionId, reconnectTimer,
                 id, backlog, issued, idle>>

Ids == 1 .. Cardinality(Sub)

Next ==
  \/ \E s \in Sub : Subscribe(s) \/ CloseSubscription(s) \/ NextValue(s)
  \/ RefreshHeaders
  \/ Close
  \/ ReconnectTimerFires
  \/ \E k \in Socket :
       \/ SocketCloses(k) \/ ConnectMessageFails(k) \/ HandshakeTimesOut(k)
       \/ HandshakeCompletes(k)
       \/ \E s \in Sub : HandshakeSendFails(k, s)
       \/ \E n \in Ids : FramePushes(k, n) \/ FrameEnds(k, n)

Spec == Init /\ [][Next]_vars

(***************************************************************************)
(* Fairness.  Timers fire: each socket has its own handshake timer, so a   *)
(* refresh that replaces the socket starts the ten seconds anew.  The peer *)
(* is not fair unless a property says so.                                  *)
(***************************************************************************)
TimerFairness ==
  /\ WF_vars(ReconnectTimerFires)
  /\ \A k \in Socket : WF_vars(HandshakeTimesOut(k))

FairSpec == Spec /\ TimerFairness

\* The broker becomes reachable: the factory's sockets open, and a handshake
\* that can complete again and again does.
Reachable ==
  /\ SF_vars(ReconnectTimerFires /\ socket' # None)
  /\ SF_vars(\E k \in Socket : HandshakeCompletes(k))

(***************************************************************************)
(* Properties.                                                             *)
(***************************************************************************)

ConnTypeOK ==
  /\ socket \in Socket \cup {None} /\ handshakeTimer \in Socket \cup {None}
  /\ connected \in BOOLEAN /\ live \subseteq Socket /\ wire \subseteq Nat \X Sub

OutageTypeOK ==
  outage \in BOOLEAN /\ reconnectAttempts \in 0..2 /\ announced \in 0..1

MapTypeOK ==
  /\ issued \subseteq Sub /\ subscriptions \subseteq issued
  /\ nextSubscriptionId \in Nat \ {0}
  /\ reconnectTimer \in BOOLEAN /\ idle \in BOOLEAN

RequestTypeOK ==
  /\ id \in [Sub -> Nat] /\ sent \subseteq issued /\ transmissions \in [Sub -> 0..2]
  /\ failure \in [Sub -> Failures]
  /\ backlog \in [Sub -> Nat] /\ waiting \in [Sub -> Nat]

\* Every field keeps its type; only what subscribe() created is in the map or
\* sent, and the next number is never 0.
TypeOK == ConnTypeOK /\ OutageTypeOK /\ MapTypeOK /\ RequestTypeOK

\* A mutation's bytes are handed to a socket at most once, whatever
\* reconnects, session refreshes, send failures and repeated handshakes do.
MutationSentAtMostOnce == \A m \in Mutation : transmissions[m] <= 1

\* The delivery state of a mutation's MapperRequestError is the truth: sent
\* says its bytes reached a socket, notSent that they never did and, the
\* request being over, never will.
MutationOutcomeTruthful ==
  \A m \in Mutation :
    /\ failure[m].delivery = "sent" => transmissions[m] > 0
    /\ failure[m].delivery = "notSent" => transmissions[m] = 0

\* No request waits for nothing: while the map holds one, or an outage lasts,
\* a socket exists or the timer that will open one is running; the timer runs
\* in outages only and never beside a socket.
NeverStranded ==
  /\ subscriptions # {} \/ outage => socket # None \/ reconnectTimer
  /\ reconnectTimer => outage /\ socket = None

\* The handshake timer guards exactly the current socket until it connects.
HandshakeGuarded ==
  handshakeTimer = IF socket # None /\ ~connected THEN socket ELSE None

\* A frame can only reach the subscription that sent its number on this
\* socket, though numbers start again at 1 after every idle close.
FrameReachesSender ==
  /\ \A p \in wire : \A t \in Addressee(p[1]) : t = p[2]
  /\ \A s, t \in subscriptions : id[s] = id[t] => s = t

\* No socket is left open behind the current one.
NoSocketLeaked == live = {socket} \ {None}

\* No consumer waits on an ended subscription, nor on one with a payload
\* ready for it.
NoConsumerHangs ==
  \A s \in Sub : waiting[s] > 0 => s \in subscriptions /\ backlog[s] = 0

\* After onIdle, by which an isolated connection is deregistered, it holds no
\* socket, timer, outage or subscription that nobody would ever close.
IdleHoldsNothing ==
  idle => socket = None /\ ~reconnectTimer /\ ~outage /\ subscriptions = {}

\* onDisconnect announces the beginning of each outage and onReconnect its
\* end, once each and in turn; a close() by the application announces nothing.
OutageAnnounced ==
  /\ announced = IF outage THEN 1 ELSE 0
  /\ outage /\ socket # None => reconnectAttempts > 0

\* A request that failed or ended stays as it is: no later event revives it,
\* and no later event changes what its consumer was told.
EndedStaysEnded ==
  [][\A s \in issued \ subscriptions :
       s \notin subscriptions' /\ failure'[s] = failure[s]]_vars

\* During an outage no read is failed: reads wait for the reconnect.
ReadsSurviveOutage ==
  [][\A s \in subscriptions \ Mutation :
       outage /\ outage' => failure'[s] \in {NoFailure, ProtocolFailure}]_vars

(***************************************************************************)
(* Liveness.                                                               *)
(***************************************************************************)

\* A request never waits for a first handshake for ever: unless sessions are
\* refreshed for ever, it is sent, it ends, or an outage is announced.
RequestSettles ==
  <>[][~RefreshHeaders]_vars =>
    \A s \in Sub :
      (s \in subscriptions \ sent /\ ~outage)
        ~> (s \in sent \/ s \notin subscriptions \/ outage)

\* With a broker that becomes reachable every outage ends, however the
\* reconnects before went and even with no subscription left.
OutageEnds == Reachable => (outage ~> ~outage)

(***************************************************************************)
(* The transport's promise about mutations: see MutationDelivery.          *)
(***************************************************************************)
StageOf(m) ==
  CASE m \notin issued -> "unused"
    [] m \in subscriptions /\ transmissions[m] = 0 -> "queued"
    [] m \in subscriptions /\ transmissions[m] = 1 -> "handed"
    [] m \in issued \ subscriptions /\ failure[m].delivery = "none" -> "over"
    [] m \in issued \ subscriptions /\ failure[m].delivery = "notSent"
         /\ transmissions[m] = 0 -> "refused"
    [] m \in issued \ subscriptions /\ failure[m].delivery = "sent"
         /\ transmissions[m] = 1 -> "unknown"
    [] OTHER -> "broken promise"

Delivery == INSTANCE MutationDelivery WITH stage <- [m \in Mutation |-> StageOf(m)]

\* Every behaviour of the connection is one the promise allows: a mutation
\* handed over stays handed over, and the error it ends with is the truth.
ImplementsDelivery == Delivery!Spec

(***************************************************************************)
(* A statement of the documentation that the code does not keep for        *)
(* replayable requests.                                                    *)
(***************************************************************************)

\* README.md:1520-1522: a MapperRequestError with deliveryState notSent proves
\* that the mapper did not accept the request bytes.
NotSentProvesNothingAccepted ==
  \A s \in Sub : failure[s].delivery = "notSent" => transmissions[s] = 0
=============================================================================
