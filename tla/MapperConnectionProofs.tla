----------------------- MODULE MapperConnectionProofs -----------------------
(***************************************************************************)
(* Proofs about MapperConnection for any number of subscriptions and       *)
(* sockets.                                                                *)
(***************************************************************************)
EXTENDS MapperConnection, TLAPS

\* The socket, its timers and the outage.
ConnInv ==
  /\ NeverStranded /\ HandshakeGuarded /\ NoSocketLeaked
  /\ OutageAnnounced /\ IdleHoldsNothing
  /\ connected => socket # None

\* Delivery: the sent flag is the truth, and a sent mutation is in the map
\* only while connected, every way of disconnecting having failed it.
DeliveryInv ==
  /\ MutationSentAtMostOnce /\ MutationOutcomeTruthful
  /\ \A s \in Sub : s \in sent <=> transmissions[s] > 0
  /\ \A m \in subscriptions \cap Mutation : m \in sent => connected
  /\ \A s \in Sub : s \in subscriptions \/ s \notin issued => failure[s] = NoFailure

LEMMA FailureTypes ==
  /\ NoFailure \in Failures /\ ProtocolFailure \in Failures
  /\ \A reason \in LocalReasons : /\ MapperFailure(reason, "sent") \in Failures
                                  /\ MapperFailure(reason, "notSent") \in Failures
BY DEF NoFailure, ProtocolFailure, MapperFailure, Failures, LocalReasons

LEMMA SaturateType == \A n \in 0..2 : Saturate(n) \in 1..2
BY DEF Saturate

(***************************************************************************)
(* What the building blocks of the handlers establish.                     *)
(***************************************************************************)

LEMMA FailTypes ==
  ASSUME RequestTypeOK, NEW open, NEW F, NEW error \in [Sub -> Failures],
         Fail(open, F, error)
  PROVE  /\ failure' \in [Sub -> Failures] /\ waiting' \in [Sub -> Nat]
         /\ subscriptions' = open \ F
BY DEF RequestTypeOK, Fail

LEMMA DropSocketConn ==
  ASSUME ConnTypeOK, NoSocketLeaked, DropSocket
  PROVE  /\ ConnTypeOK'
         /\ socket' = None /\ ~connected' /\ handshakeTimer' = None /\ live' = {}
BY DEF ConnTypeOK, NoSocketLeaked, DropSocket

LEMMA OpenSocketConn ==
  ASSUME ConnTypeOK, NoSocketLeaked, NEW k \in Socket, OpenSocket(k)
  PROVE  /\ ConnTypeOK' /\ HandshakeGuarded' /\ NoSocketLeaked'
         /\ socket' # None /\ ~connected'
BY NoneAssumption DEF ConnTypeOK, NoSocketLeaked, HandshakeGuarded, OpenSocket

\* The connection after a handler: what every action must restore.
ConnOK == ConnTypeOK /\ OutageTypeOK /\ MapTypeOK /\ ConnInv

EndReasons == {"connectFailure", "disconnect", "handshakeTimeout", "sendFailure"}

LEMMA FailInitialConn ==
  ASSUME ConnTypeOK, OutageTypeOK, RequestTypeOK, ConnInv, ~outage,
         NEW open, NEW reason \in EndReasons,
         issued' \subseteq Sub,
         FailInitial(open, reason), UNCHANGED <<outage, announced>>, OutageTypeOK'
  PROVE  ConnOK' /\ failure' \in [Sub -> Failures] /\ waiting' \in [Sub -> Nat]
<1> DEFINE error == [s \in Sub |-> MapperFailure(reason, "notSent")]
<1>1. error \in [Sub -> Failures] /\ Fail(open, open, error) /\ CloseIdleSocket
  BY FailureTypes DEF FailInitial, EndReasons, LocalReasons
<1> HIDE DEF error
<1>2. /\ failure' \in [Sub -> Failures] /\ waiting' \in [Sub -> Nat]
      /\ subscriptions' = {}
  BY <1>1, FailTypes
<1>3. /\ ConnTypeOK'
      /\ socket' = None /\ ~connected' /\ handshakeTimer' = None /\ live' = {}
  BY <1>1, DropSocketConn DEF CloseIdleSocket, ConnInv
<1>4. reconnectTimer' = FALSE /\ nextSubscriptionId' = 1 /\ idle' = TRUE
  BY <1>1 DEF CloseIdleSocket
<1>5. outage' = outage /\ announced' = announced
  OBVIOUS
<1>6. MapTypeOK'
  <2>1. reconnectTimer' \in BOOLEAN /\ idle' \in BOOLEAN
    BY <1>4, Zenon
  <2>2. nextSubscriptionId' \in Nat \ {0}
    BY <1>4
  <2> QED BY <1>2, <2>1, <2>2 DEF MapTypeOK
<1>7. ConnInv'
  BY <1>2, <1>3, <1>4, <1>5 DEF ConnInv, NeverStranded, HandshakeGuarded,
     NoSocketLeaked, OutageAnnounced, IdleHoldsNothing
<1> QED BY <1>2, <1>3, <1>5, <1>6, <1>7 DEF ConnOK

LEMMA HandleSocketEndConn ==
  ASSUME ConnTypeOK, OutageTypeOK, RequestTypeOK, ConnInv,
         NEW wasConnected, NEW reason \in EndReasons,
         NEW open, NEW done, NEW next \in Nat \ {0},
         open \subseteq issued', issued' \subseteq Sub,
         HandleSocketEnd(wasConnected, reason, open, done, next)
  PROVE  ConnOK' /\ failure' \in [Sub -> Failures] /\ waiting' \in [Sub -> Nat]
<1>1. CASE ~(wasConnected \/ outage)
  <2>1. UNCHANGED outageVars /\ OutageTypeOK'
    BY <1>1 DEF HandleSocketEnd, OutageTypeOK, outageVars
  <2>2. UNCHANGED <<outage, announced>>
    BY <2>1 DEF outageVars
  <2>3. CASE reason = "disconnect"
    <3>1. FailInitial(open, "connectFailure")
      BY <1>1, <2>3 DEF HandleSocketEnd, FailInitial
    <3> QED BY <1>1, <2>1, <2>2, <3>1, FailInitialConn DEF EndReasons
  <2>4. CASE reason # "disconnect"
    <3>1. FailInitial(open, reason)
      BY <1>1, <2>4 DEF HandleSocketEnd, FailInitial
    <3> QED BY <1>1, <2>1, <2>2, <3>1, FailInitialConn
  <2> QED BY <2>3, <2>4
<1>2. CASE wasConnected \/ outage
  <2> DEFINE error == [s \in Sub |-> MapperFailure(reason, "sent")]
             F == IF reason \in {"disconnect", "sendFailure"}
                  THEN SentMutations(open, done) ELSE {}
  <2>1. /\ error \in [Sub -> Failures] /\ Fail(open, F, error)
        /\ DropSocket /\ BeginOutage /\ ScheduleReconnect
        /\ nextSubscriptionId' = next /\ idle' = FALSE
    BY <1>2, FailureTypes DEF HandleSocketEnd, EndReasons, LocalReasons
  <2> HIDE DEF error, F
  <2>2. /\ failure' \in [Sub -> Failures] /\ waiting' \in [Sub -> Nat]
        /\ subscriptions' \subseteq open
    BY <2>1, FailTypes
  <2>3. /\ ConnTypeOK'
        /\ socket' = None /\ ~connected' /\ handshakeTimer' = None /\ live' = {}
    BY <2>1, DropSocketConn DEF ConnInv
  <2>4. OutageTypeOK' /\ outage' /\ announced' = 1
    BY <2>1 DEF OutageTypeOK, BeginOutage, Saturate, ConnInv, OutageAnnounced
  <2>5. reconnectTimer' = TRUE
    BY <2>1 DEF ScheduleReconnect
  <2>6. MapTypeOK'
    BY <2>1, <2>2, <2>5 DEF MapTypeOK
  <2>7. ConnInv'
    BY <2>1, <2>2, <2>3, <2>4, <2>5 DEF ConnInv, NeverStranded, HandshakeGuarded,
       NoSocketLeaked, OutageAnnounced, IdleHoldsNothing
  <2> QED BY <2>2, <2>3, <2>4, <2>6, <2>7 DEF ConnOK
<1> QED BY <1>1, <1>2

LEMMA OpenFailsConn ==
  ASSUME ConnTypeOK, OutageTypeOK, RequestTypeOK, ConnInv,
         NEW open, NEW next \in Nat \ {0},
         open \subseteq issued', issued' \subseteq Sub,
         OpenFails(open, next), UNCHANGED <<outage, announced>>, OutageTypeOK'
  PROVE  ConnOK' /\ failure' \in [Sub -> Failures] /\ waiting' \in [Sub -> Nat]
<1>1. CASE ~outage
  BY <1>1, FailInitialConn DEF OpenFails, EndReasons
<1>2. CASE outage
  <2>1. /\ DropSocket /\ reconnectTimer' = TRUE /\ subscriptions' = open
        /\ failure' = failure /\ waiting' = waiting
        /\ nextSubscriptionId' = next /\ idle' = FALSE
    BY <1>2 DEF OpenFails, ScheduleReconnect
  <2>2. /\ ConnTypeOK'
        /\ socket' = None /\ ~connected' /\ handshakeTimer' = None /\ live' = {}
    BY <2>1, DropSocketConn DEF ConnInv
  <2>3. MapTypeOK'
    BY <2>1 DEF MapTypeOK
  <2>4. failure' \in [Sub -> Failures] /\ waiting' \in [Sub -> Nat]
    BY <2>1 DEF RequestTypeOK
  <2>5. ConnInv'
    BY <1>2, <2>1, <2>2 DEF ConnInv, NeverStranded, HandshakeGuarded,
       NoSocketLeaked, OutageAnnounced, IdleHoldsNothing
  <2> QED BY <2>2, <2>3, <2>4, <2>5 DEF ConnOK
<1> QED BY <1>1, <1>2

(***************************************************************************)
(* Every action restores the types and the connection's invariant.         *)
(***************************************************************************)

\* The whole state's types, and the connection's invariant.
StateOK == TypeOK /\ ConnInv

LEMMA TransmitType ==
  ASSUME RequestTypeOK, NEW S \in SUBSET issued', issued \subseteq issued', Transmit(S)
  PROVE  sent' \subseteq issued' /\ transmissions' \in [Sub -> 0..2]
BY SaturateType DEF RequestTypeOK, Transmit

LEMMA NewSubscriptionType ==
  ASSUME TypeOK, NEW s \in Sub, NewSubscription(s)
  PROVE  /\ issued' = issued \cup {s} /\ issued' \subseteq Sub
         /\ id' \in [Sub -> Nat] /\ backlog' \in [Sub -> Nat]
         /\ subscriptions \cup {s} \subseteq issued'
BY DEF TypeOK, MapTypeOK, RequestTypeOK, NewSubscription

LEMMA SubscribeConnectedOK ==
  ASSUME StateOK, NEW s \in Sub, SubscribeConnected(s) PROVE StateOK'
<1> USE DEF StateOK, TypeOK
<1>1. /\ connected /\ NewSubscription(s)
      /\ issued' = issued \cup {s} /\ issued' \subseteq Sub
      /\ id' \in [Sub -> Nat] /\ backlog' \in [Sub -> Nat]
      /\ subscriptions \cup {s} \subseteq issued'
  BY NewSubscriptionType DEF SubscribeConnected
<1>2. nextSubscriptionId + 1 \in Nat \ {0}
  BY DEF MapTypeOK
<1>3. CASE /\ Transmit({s}) /\ Register({s})
           /\ subscriptions' = subscriptions \cup {s}
           /\ nextSubscriptionId' = nextSubscriptionId + 1 /\ idle' = FALSE
           /\ UNCHANGED <<connVars, outageVars, reconnectTimer, failure, waiting>>
  <2>1. sent' \subseteq issued' /\ transmissions' \in [Sub -> 0..2]
    BY <1>1, <1>3, TransmitType
  <2>2. wire' \subseteq Nat \X Sub
    BY <1>1, <1>3 DEF Register, ConnTypeOK
  <2>3. ConnTypeOK' /\ OutageTypeOK'
    BY <1>3, <2>2 DEF ConnTypeOK, OutageTypeOK, connVars, outageVars
  <2>4. MapTypeOK' /\ RequestTypeOK'
    BY <1>1, <1>2, <1>3, <2>1 DEF MapTypeOK, RequestTypeOK
  <2>5. ConnInv'
    BY <1>1, <1>3 DEF ConnInv, NeverStranded, HandshakeGuarded, NoSocketLeaked,
       OutageAnnounced, IdleHoldsNothing, connVars, outageVars
  <2> QED BY <2>3, <2>4, <2>5
<1>4. CASE /\ HandleSocketEnd(TRUE, "sendFailure", subscriptions \cup {s}, sent,
                              nextSubscriptionId + 1)
           /\ UNCHANGED <<sent, transmissions>>
  <2>1. ConnOK' /\ failure' \in [Sub -> Failures] /\ waiting' \in [Sub -> Nat]
    BY <1>1, <1>2, <1>4, HandleSocketEndConn DEF EndReasons
  <2>2. RequestTypeOK'
    BY <1>1, <1>4, <2>1 DEF RequestTypeOK
  <2> QED BY <2>1, <2>2 DEF ConnOK
<1> QED BY <1>3, <1>4 DEF SubscribeConnected

LEMMA SubscribePendingOK ==
  ASSUME StateOK, NEW s \in Sub, SubscribePending(s) PROVE StateOK'
<1> USE DEF StateOK, TypeOK
<1>1. /\ ~connected /\ ~NeedsSocket /\ NewSubscription(s)
      /\ issued' = issued \cup {s} /\ issued' \subseteq Sub
      /\ id' \in [Sub -> Nat] /\ backlog' \in [Sub -> Nat]
      /\ subscriptions \cup {s} \subseteq issued'
  BY NewSubscriptionType DEF SubscribePending
<1>2. /\ subscriptions' = subscriptions \cup {s}
      /\ nextSubscriptionId' = nextSubscriptionId + 1 /\ idle' = FALSE
      /\ UNCHANGED <<connVars, outageVars, sendVars, reconnectTimer, failure, waiting>>
  BY DEF SubscribePending
<1>3. ConnTypeOK' /\ OutageTypeOK'
  BY <1>2 DEF ConnTypeOK, OutageTypeOK, connVars, outageVars, sendVars
<1>4. MapTypeOK' /\ RequestTypeOK'
  <2>1. nextSubscriptionId' \in Nat \ {0}
    BY <1>2 DEF MapTypeOK
  <2>2. MapTypeOK'
    BY <1>1, <1>2, <2>1 DEF MapTypeOK
  <2>3. RequestTypeOK'
    BY <1>1, <1>2 DEF RequestTypeOK, sendVars
  <2> QED BY <2>2, <2>3
<1>5. ConnInv'
  BY <1>1, <1>2 DEF ConnInv, NeverStranded, HandshakeGuarded, NoSocketLeaked,
     OutageAnnounced, IdleHoldsNothing, connVars, outageVars, NeedsSocket
<1> QED BY <1>3, <1>4, <1>5

LEMMA SubscribeOpeningOK ==
  ASSUME StateOK, NEW s \in Sub, SubscribeOpening(s) PROVE StateOK'
<1> USE DEF StateOK, TypeOK
<1>1. /\ NeedsSocket /\ NewSubscription(s) /\ UNCHANGED <<sent, transmissions>>
      /\ issued' = issued \cup {s} /\ issued' \subseteq Sub
      /\ id' \in [Sub -> Nat] /\ backlog' \in [Sub -> Nat]
      /\ subscriptions \cup {s} \subseteq issued'
  BY NewSubscriptionType DEF SubscribeOpening
<1>2. nextSubscriptionId + 1 \in Nat \ {0}
  BY DEF MapTypeOK
<1>3. CASE /\ \E k \in Socket : OpenSocket(k)
           /\ subscriptions' = subscriptions \cup {s}
           /\ nextSubscriptionId' = nextSubscriptionId + 1 /\ idle' = FALSE
           /\ UNCHANGED <<outageVars, reconnectTimer, failure, waiting>>
  <2>1. /\ ConnTypeOK' /\ HandshakeGuarded' /\ NoSocketLeaked'
        /\ socket' # None /\ ~connected'
    BY <1>3, OpenSocketConn DEF ConnInv
  <2>2. OutageTypeOK' /\ MapTypeOK' /\ RequestTypeOK'
    BY <1>1, <1>2, <1>3 DEF OutageTypeOK, MapTypeOK, RequestTypeOK, outageVars
  <2>3. ~outage /\ ~outage' /\ ~reconnectTimer' /\ announced' = 0 /\ idle' = FALSE
    BY <1>1, <1>3 DEF ConnInv, NeverStranded, OutageAnnounced, outageVars, NeedsSocket
  <2>4. ConnInv'
    BY <2>1, <2>3 DEF ConnInv, NeverStranded, OutageAnnounced, IdleHoldsNothing
  <2> QED BY <2>1, <2>2, <2>4
<1>4. CASE /\ OpenFails(subscriptions \cup {s}, nextSubscriptionId + 1)
           /\ UNCHANGED outageVars
  <2>1. OutageTypeOK' /\ UNCHANGED <<outage, announced>>
    BY <1>4 DEF OutageTypeOK, outageVars
  <2>2. ConnOK' /\ failure' \in [Sub -> Failures] /\ waiting' \in [Sub -> Nat]
    BY <1>1, <1>2, <1>4, <2>1, OpenFailsConn
  <2>3. RequestTypeOK'
    BY <1>1, <2>2 DEF RequestTypeOK
  <2> QED BY <2>2, <2>3 DEF ConnOK
<1> QED BY <1>3, <1>4 DEF SubscribeOpening

LEMMA CloseIdleSocketConn ==
  ASSUME ConnTypeOK, NoSocketLeaked, CloseIdleSocket
  PROVE  /\ ConnTypeOK' /\ socket' = None /\ ~connected' /\ handshakeTimer' = None
         /\ live' = {} /\ reconnectTimer' = FALSE /\ nextSubscriptionId' = 1
         /\ idle' = TRUE
BY DropSocketConn DEF CloseIdleSocket

LEMMA CloseSubscriptionOK ==
  ASSUME StateOK, NEW s \in Sub, CloseSubscription(s) PROVE StateOK'
<1> USE DEF StateOK, TypeOK
<1>1. /\ subscriptions' = subscriptions \ {s} /\ s \in subscriptions
      /\ waiting' = [waiting EXCEPT ![s] = 0]
      /\ UNCHANGED <<outageVars, id, sent, failure, backlog, issued, transmissions>>
  BY DEF CloseSubscription
<1>2. OutageTypeOK' /\ RequestTypeOK'
  BY <1>1 DEF OutageTypeOK, RequestTypeOK, outageVars
<1>3. CASE subscriptions = {s} /\ ~outage
  <2>1. /\ ConnTypeOK' /\ socket' = None /\ ~connected' /\ handshakeTimer' = None
        /\ live' = {} /\ reconnectTimer' = FALSE /\ nextSubscriptionId' = 1
        /\ idle' = TRUE
    BY <1>3, CloseIdleSocketConn DEF CloseSubscription, ConnInv
  <2>2. MapTypeOK'
    <3>1. reconnectTimer' \in BOOLEAN /\ idle' \in BOOLEAN
      BY <2>1, Zenon
    <3>2. nextSubscriptionId' \in Nat \ {0}
      BY <2>1
    <3> QED BY <1>1, <3>1, <3>2 DEF MapTypeOK
  <2>3. ConnInv'
    BY <1>1, <1>3, <2>1 DEF ConnInv, NeverStranded, HandshakeGuarded, NoSocketLeaked,
       OutageAnnounced, IdleHoldsNothing, outageVars
  <2> QED BY <1>2, <2>1, <2>2, <2>3
<1>4. CASE ~(subscriptions = {s} /\ ~outage)
  <2>1. UNCHANGED <<connVars, wire, reconnectTimer, nextSubscriptionId, idle>>
    BY <1>4 DEF CloseSubscription
  <2>2. ConnTypeOK' /\ MapTypeOK'
    BY <1>1, <2>1 DEF ConnTypeOK, MapTypeOK, connVars
  <2>3. IdleHoldsNothing' /\ NeverStranded'
    BY <1>1, <2>1 DEF ConnInv, NeverStranded, IdleHoldsNothing, connVars, outageVars
  <2>4. HandshakeGuarded' /\ NoSocketLeaked' /\ OutageAnnounced' /\ (connected' => socket' # None)
    BY <1>1, <2>1 DEF ConnInv, HandshakeGuarded, NoSocketLeaked, OutageAnnounced,
       connVars, outageVars
  <2> QED BY <1>2, <2>2, <2>3, <2>4 DEF ConnInv
<1> QED BY <1>3, <1>4

LEMMA SentMutationsSubset ==
  ASSUME NEW open, NEW done PROVE SentMutations(open, done) \subseteq open
BY DEF SentMutations

LEMMA RefreshHeadersOK ==
  ASSUME StateOK, RefreshHeaders PROVE StateOK'
<1> USE DEF StateOK, TypeOK
<1> DEFINE ended == SentMutations(subscriptions, sent)
           error == [s \in Sub |-> IF s \in ended THEN MapperFailure("sessionRefresh", "sent")
                                   ELSE MapperFailure("connectFailure", "notSent")]
<1>1. error \in [Sub -> Failures]
  BY FailureTypes DEF LocalReasons
<1>2. UNCHANGED <<outageVars, id, sent, backlog, issued, transmissions>>
  BY DEF RefreshHeaders
<1>3. OutageTypeOK' /\ ended \subseteq subscriptions
  BY <1>2, SentMutationsSubset DEF OutageTypeOK, outageVars
<1>4. ASSUME NEW F, Fail(subscriptions, F, error)
      PROVE  RequestTypeOK' /\ subscriptions' = subscriptions \ F
  BY <1>1, <1>2, <1>4, FailTypes DEF RequestTypeOK
<1>5. CASE /\ socket = None
           /\ Fail(subscriptions, ended, error)
           /\ UNCHANGED <<connVars, wire, reconnectTimer, nextSubscriptionId, idle>>
  <2>1. ConnTypeOK' /\ RequestTypeOK' /\ subscriptions' \subseteq subscriptions
    BY <1>4, <1>5 DEF ConnTypeOK, connVars
  <2>2. MapTypeOK'
    BY <1>2, <1>5, <2>1 DEF MapTypeOK
  <2>3. ConnInv'
    BY <1>2, <1>5, <2>1 DEF ConnInv, NeverStranded, HandshakeGuarded, NoSocketLeaked,
       OutageAnnounced, IdleHoldsNothing, connVars, outageVars
  <2> QED BY <1>3, <2>1, <2>2, <2>3
<1>6. CASE /\ socket # None /\ (subscriptions \ ended # {} \/ outage)
           /\ \E k \in Socket : OpenSocket(k)
           /\ Fail(subscriptions, ended, error)
           /\ UNCHANGED <<reconnectTimer, nextSubscriptionId, idle>>
  <2>1. /\ ConnTypeOK' /\ HandshakeGuarded' /\ NoSocketLeaked'
        /\ socket' # None /\ ~connected'
    BY <1>6, OpenSocketConn DEF ConnInv
  <2>2. RequestTypeOK' /\ subscriptions' \subseteq subscriptions
    BY <1>4, <1>6
  <2>3. MapTypeOK'
    BY <1>2, <1>6, <2>2 DEF MapTypeOK
  <2>4. ConnInv'
    BY <1>2, <1>6, <2>1, <2>2 DEF ConnInv, NeverStranded, OutageAnnounced,
       IdleHoldsNothing, outageVars
  <2> QED BY <1>3, <2>1, <2>2, <2>3, <2>4
<1>7. CASE /\ socket # None /\ outage
           /\ DropSocket /\ ScheduleReconnect
           /\ Fail(subscriptions, ended, error)
           /\ UNCHANGED <<nextSubscriptionId, idle>>
  <2>1. /\ ConnTypeOK' /\ reconnectTimer' = TRUE
        /\ socket' = None /\ ~connected' /\ handshakeTimer' = None /\ live' = {}
    BY <1>7, DropSocketConn DEF ConnInv, ScheduleReconnect
  <2>2. RequestTypeOK' /\ subscriptions' \subseteq subscriptions
    BY <1>4, <1>7
  <2>3. MapTypeOK'
    BY <1>2, <1>7, <2>1, <2>2 DEF MapTypeOK
  <2>4. ConnInv'
    BY <1>2, <1>7, <2>1, <2>2 DEF ConnInv, NeverStranded, HandshakeGuarded,
       NoSocketLeaked, OutageAnnounced, IdleHoldsNothing, outageVars
  <2> QED BY <1>3, <2>1, <2>2, <2>3, <2>4
<1>8. CASE /\ socket # None /\ ~outage
           /\ CloseIdleSocket
           /\ Fail(subscriptions, subscriptions, error)
  <2>1. /\ ConnTypeOK' /\ socket' = None /\ ~connected' /\ handshakeTimer' = None
        /\ live' = {} /\ reconnectTimer' = FALSE /\ nextSubscriptionId' = 1
        /\ idle' = TRUE
    BY <1>8, CloseIdleSocketConn DEF ConnInv
  <2>2. RequestTypeOK' /\ subscriptions' = {}
    BY <1>4, <1>8
  <2>3. MapTypeOK'
    <3>1. reconnectTimer' \in BOOLEAN /\ idle' \in BOOLEAN
      BY <2>1, Zenon
    <3>2. nextSubscriptionId' \in Nat \ {0}
      BY <2>1
    <3> QED BY <1>2, <2>2, <3>1, <3>2 DEF MapTypeOK
  <2>4. ConnInv'
    BY <1>2, <1>8, <2>1, <2>2 DEF ConnInv, NeverStranded, HandshakeGuarded,
       NoSocketLeaked, OutageAnnounced, IdleHoldsNothing, outageVars
  <2> QED BY <1>3, <2>1, <2>2, <2>3, <2>4
<1> HIDE DEF error
<1> QED BY <1>5, <1>6, <1>7, <1>8 DEF RefreshHeaders, error

LEMMA CloseOK == ASSUME StateOK, Close PROVE StateOK'
<1> USE DEF StateOK, TypeOK
<1> DEFINE error == [s \in Sub |-> MapperFailure("clientClosed",
                                     IF s \in sent THEN "sent" ELSE "notSent")]
<1>1. error \in [Sub -> Failures] /\ Fail(subscriptions, subscriptions, error)
  BY FailureTypes DEF LocalReasons, Close
<1> HIDE DEF error
<1>2. /\ DropSocket /\ ForgetOutage /\ idle' = TRUE
      /\ UNCHANGED <<nextSubscriptionId, id, sent, backlog, issued, transmissions>>
  BY DEF Close
<1>3. RequestTypeOK' /\ subscriptions' = {}
  BY <1>1, <1>2, FailTypes DEF RequestTypeOK
<1>4. /\ ConnTypeOK'
      /\ socket' = None /\ ~connected' /\ handshakeTimer' = None /\ live' = {}
  BY <1>2, DropSocketConn DEF ConnInv
<1>5. /\ outage' = FALSE /\ reconnectAttempts' = 0 /\ announced' = 0
      /\ reconnectTimer' = FALSE
  BY <1>2 DEF ForgetOutage
<1>6. OutageTypeOK'
  <2>1. outage' \in BOOLEAN BY <1>5, Zenon
  <2>2. reconnectAttempts' \in 0..2 /\ announced' \in 0..1 BY <1>5
  <2> QED BY <2>1, <2>2 DEF OutageTypeOK
<1>7. MapTypeOK'
  <2>1. reconnectTimer' \in BOOLEAN /\ idle' \in BOOLEAN BY <1>2, <1>5, Zenon
  <2> QED BY <1>2, <1>3, <2>1 DEF MapTypeOK
<1>8. ConnInv'
  BY <1>2, <1>3, <1>4, <1>5 DEF ConnInv, NeverStranded, HandshakeGuarded,
     NoSocketLeaked, OutageAnnounced, IdleHoldsNothing
<1> QED BY <1>3, <1>4, <1>6, <1>7, <1>8

\* Steps that touch neither the map, the socket, the timers nor the outage.
LEMMA QueueStepOK ==
  ASSUME StateOK, backlog' \in [Sub -> Nat], waiting' \in [Sub -> Nat],
         UNCHANGED <<connVars, outageVars, sendVars, nextSubscriptionId, subscriptions,
                     reconnectTimer, id, failure, issued, idle>>
  PROVE  StateOK'
<1> USE DEF StateOK, TypeOK
<1>1. ConnTypeOK' /\ OutageTypeOK' /\ MapTypeOK' /\ RequestTypeOK'
  BY DEF ConnTypeOK, OutageTypeOK, MapTypeOK, RequestTypeOK, connVars, outageVars, sendVars
<1>2. ConnInv'
  BY DEF ConnInv, NeverStranded, HandshakeGuarded, NoSocketLeaked, OutageAnnounced,
     IdleHoldsNothing, connVars, outageVars
<1> QED BY <1>1, <1>2

LEMMA NextValueOK == ASSUME StateOK, NEW s \in Sub, NextValue(s) PROVE StateOK'
<1>1. backlog' \in [Sub -> Nat] /\ waiting' \in [Sub -> Nat]
  BY DEF StateOK, TypeOK, RequestTypeOK, NextValue, NextTakes, NextWaits
<1> QED BY <1>1, QueueStepOK DEF NextValue

LEMMA FramePushesOK ==
  ASSUME StateOK, NEW k \in Socket, NEW n \in Ids, FramePushes(k, n) PROVE StateOK'
<1>1. backlog' \in [Sub -> Nat] /\ waiting' \in [Sub -> Nat]
  BY DEF StateOK, TypeOK, RequestTypeOK, FramePushes
<1> QED BY <1>1, QueueStepOK DEF FramePushes

LEMMA SocketEndsOK ==
  ASSUME StateOK, NEW k, NEW reason \in EndReasons, SocketEnds(k, reason)
  PROVE  StateOK'
<1> USE DEF StateOK, TypeOK
<1>1. /\ HandleSocketEnd(connected, reason, subscriptions, sent, nextSubscriptionId)
      /\ UNCHANGED <<id, sent, backlog, issued, transmissions>>
  BY DEF SocketEnds
<1>2. /\ subscriptions \subseteq issued' /\ issued' \subseteq Sub
      /\ nextSubscriptionId \in Nat \ {0}
  BY <1>1 DEF MapTypeOK
<1>3. ConnOK' /\ failure' \in [Sub -> Failures] /\ waiting' \in [Sub -> Nat]
  BY <1>1, <1>2, HandleSocketEndConn
<1>4. RequestTypeOK'
  BY <1>1, <1>3 DEF RequestTypeOK
<1> QED BY <1>3, <1>4 DEF ConnOK

LEMMA HandshakeCompletesOK ==
  ASSUME StateOK, NEW k \in Socket, HandshakeCompletes(k) PROVE StateOK'
<1> USE DEF StateOK, TypeOK
<1>1. /\ socket = k /\ socket # None
      /\ Transmit(ToSend)
      /\ outage' = FALSE /\ reconnectAttempts' = 0
      /\ announced' = IF outage THEN announced - 1 ELSE announced
      /\ UNCHANGED <<subscriptions, id, failure, queueVars, issued>>
  BY NoneAssumption DEF HandshakeCompletes, IsCurrent
<1>2. ~reconnectTimer
  BY <1>1 DEF ConnInv, NeverStranded
<1>3. announced' = 0
  BY <1>1 DEF ConnInv, OutageAnnounced
<1>4. OutageTypeOK'
  <2>1. outage' \in BOOLEAN BY <1>1, Zenon
  <2>2. reconnectAttempts' \in 0..2 /\ announced' \in 0..1 BY <1>1, <1>3
  <2> QED BY <2>1, <2>2 DEF OutageTypeOK
<1>5. ToSend \subseteq issued'
  BY <1>1 DEF ToSend, MapTypeOK
<1>6. RequestTypeOK'
  BY <1>1, <1>5, TransmitType DEF RequestTypeOK, queueVars
<1>7. CASE outage /\ subscriptions = {}
  <2>1. /\ ConnTypeOK' /\ socket' = None /\ ~connected' /\ handshakeTimer' = None
        /\ live' = {} /\ reconnectTimer' = FALSE /\ nextSubscriptionId' = 1
        /\ idle' = TRUE
    BY <1>7, CloseIdleSocketConn DEF ConnInv, HandshakeCompletes
  <2>2. MapTypeOK'
    <3>1. reconnectTimer' \in BOOLEAN /\ idle' \in BOOLEAN
      BY <2>1, Zenon
    <3>2. nextSubscriptionId' \in Nat \ {0}
      BY <2>1
    <3> QED BY <1>1, <3>1, <3>2 DEF MapTypeOK
  <2>3. ConnInv'
    BY <1>1, <1>3, <1>7, <2>1 DEF ConnInv, NeverStranded, HandshakeGuarded,
       NoSocketLeaked, OutageAnnounced, IdleHoldsNothing
  <2> QED BY <1>4, <1>6, <2>1, <2>2, <2>3
<1>8. CASE ~(outage /\ subscriptions = {})
  <2>1. /\ connected' = TRUE /\ handshakeTimer' = None
        /\ wire' = wire \cup {<<id[s], s>> : s \in ToSend}
        /\ UNCHANGED <<socket, live, reconnectTimer, nextSubscriptionId, idle>>
    BY <1>8 DEF HandshakeCompletes
  <2>2. wire' \subseteq Nat \X Sub
    BY <2>1 DEF ToSend, ConnTypeOK, MapTypeOK, RequestTypeOK
  <2>3. ConnTypeOK' /\ MapTypeOK'
    <3>1. connected' \in BOOLEAN BY <2>1, Zenon
    <3> QED BY <1>1, <2>1, <2>2, <3>1 DEF ConnTypeOK, MapTypeOK
  <2>4. ConnInv'
    BY <1>1, <1>2, <1>3, <2>1 DEF ConnInv, NeverStranded, HandshakeGuarded,
       NoSocketLeaked, OutageAnnounced, IdleHoldsNothing
  <2> QED BY <1>4, <1>6, <2>3, <2>4
<1> QED BY <1>7, <1>8

LEMMA HandshakeSendFailsOK ==
  ASSUME StateOK, NEW k \in Socket, NEW f \in Sub, HandshakeSendFails(k, f)
  PROVE  StateOK'
<1> USE DEF StateOK, TypeOK
<1> DEFINE before == {s \in ToSend : id[s] < id[f]}
<1>1. /\ Transmit(before)
      /\ HandleSocketEnd(TRUE, "sendFailure", subscriptions, sent \cup before,
                         nextSubscriptionId)
      /\ UNCHANGED <<id, backlog, issued>>
  BY DEF HandshakeSendFails
<1>2. /\ subscriptions \subseteq issued' /\ issued' \subseteq Sub
      /\ nextSubscriptionId \in Nat \ {0} /\ before \subseteq issued'
  BY <1>1 DEF MapTypeOK, ToSend
<1> HIDE DEF before
<1>3. ConnOK' /\ failure' \in [Sub -> Failures] /\ waiting' \in [Sub -> Nat]
  BY <1>1, <1>2, HandleSocketEndConn DEF EndReasons
<1>4. sent' \subseteq issued' /\ transmissions' \in [Sub -> 0..2]
  BY <1>1, <1>2, TransmitType
<1>5. RequestTypeOK'
  BY <1>1, <1>3, <1>4 DEF RequestTypeOK
<1> QED BY <1>3, <1>5 DEF ConnOK

LEMMA ReconnectTimerFiresOK ==
  ASSUME StateOK, ReconnectTimerFires PROVE StateOK'
<1> USE DEF StateOK, TypeOK
<1>1. /\ reconnectTimer /\ socket = None /\ outage
      /\ reconnectAttempts' = Saturate(reconnectAttempts)
      /\ UNCHANGED <<outage, announced, id, sent, backlog, issued, transmissions>>
  BY DEF ReconnectTimerFires, ConnInv, NeverStranded
<1>2. OutageTypeOK' /\ reconnectAttempts' > 0
  BY <1>1, SaturateType DEF OutageTypeOK
<1>3. CASE /\ \E k \in Socket : OpenSocket(k)
           /\ reconnectTimer' = FALSE
           /\ UNCHANGED <<subscriptions, failure, waiting, nextSubscriptionId, idle>>
  <2>1. /\ ConnTypeOK' /\ HandshakeGuarded' /\ NoSocketLeaked'
        /\ socket' # None /\ ~connected'
    BY <1>3, OpenSocketConn DEF ConnInv
  <2>2. MapTypeOK' /\ RequestTypeOK'
    <3>1. reconnectTimer' \in BOOLEAN BY <1>3, Zenon
    <3> QED BY <1>1, <1>3, <3>1 DEF MapTypeOK, RequestTypeOK
  <2>3. ConnInv'
    BY <1>1, <1>2, <1>3, <2>1 DEF ConnInv, NeverStranded, OutageAnnounced, IdleHoldsNothing
  <2> QED BY <1>2, <2>1, <2>2, <2>3
<1>4. CASE OpenFails(subscriptions, nextSubscriptionId)
  <2>1. /\ subscriptions \subseteq issued' /\ issued' \subseteq Sub
        /\ nextSubscriptionId \in Nat \ {0}
    BY <1>1 DEF MapTypeOK
  <2>2. ConnOK' /\ failure' \in [Sub -> Failures] /\ waiting' \in [Sub -> Nat]
    BY <1>1, <1>2, <1>4, <2>1, OpenFailsConn
  <2>3. RequestTypeOK'
    BY <1>1, <2>2 DEF RequestTypeOK
  <2> QED BY <2>2, <2>3 DEF ConnOK
<1> QED BY <1>3, <1>4 DEF ReconnectTimerFires

LEMMA FrameEndsOK ==
  ASSUME StateOK, NEW k \in Socket, NEW n \in Ids, FrameEnds(k, n) PROVE StateOK'
<1> USE DEF StateOK, TypeOK
<1>1. PICK t \in Addressee(n), error \in {ProtocolFailure, NoFailure} :
        Fail(subscriptions, {t}, [s \in Sub |-> error])
  BY DEF FrameEnds
<1>2. /\ socket = k
      /\ UNCHANGED <<connVars, outageVars, sendVars, nextSubscriptionId, reconnectTimer,
                     id, backlog, issued, idle>>
  BY DEF FrameEnds, FrameFor, IsCurrent
<1>3. [s \in Sub |-> error] \in [Sub -> Failures]
  BY FailureTypes
<1>4. /\ failure' \in [Sub -> Failures] /\ waiting' \in [Sub -> Nat]
      /\ subscriptions' = subscriptions \ {t}
  BY <1>1, <1>3, FailTypes
<1>5. ConnTypeOK' /\ OutageTypeOK' /\ MapTypeOK' /\ RequestTypeOK'
  BY <1>2, <1>4 DEF ConnTypeOK, OutageTypeOK, MapTypeOK, RequestTypeOK,
     connVars, outageVars, sendVars
<1>6. ConnInv'
  BY <1>2, <1>4, NoneAssumption DEF ConnInv, NeverStranded, HandshakeGuarded, NoSocketLeaked,
     OutageAnnounced, IdleHoldsNothing, connVars, outageVars
<1> QED BY <1>5, <1>6

(***************************************************************************)
(* The invariant of the connection, for every behaviour.                   *)
(***************************************************************************)

LEMMA InitOK == Init => StateOK
<1> SUFFICES ASSUME Init PROVE StateOK OBVIOUS
<1>1. TypeOK
  <2>1. socket \in Socket \cup {None} /\ handshakeTimer \in Socket \cup {None}
    BY DEF Init
  <2>2. failure \in [Sub -> Failures]
    BY FailureTypes DEF Init
  <2>3. reconnectAttempts \in 0..2 /\ announced \in 0..1 /\ transmissions \in [Sub -> 0..2]
    BY DEF Init
  <2>4. nextSubscriptionId \in Nat \ {0} /\ wire \subseteq Nat \X Sub
    BY DEF Init
  <2>5. id \in [Sub -> Nat] /\ backlog \in [Sub -> Nat] /\ waiting \in [Sub -> Nat]
    BY DEF Init
  <2> QED BY <2>1, <2>2, <2>3, <2>4, <2>5
      DEF Init, TypeOK, ConnTypeOK, OutageTypeOK, MapTypeOK, RequestTypeOK
<1>2. NeverStranded /\ HandshakeGuarded /\ NoSocketLeaked /\ OutageAnnounced
      /\ IdleHoldsNothing /\ (connected => socket # None)
  BY DEF Init, NeverStranded, HandshakeGuarded, NoSocketLeaked, OutageAnnounced,
     IdleHoldsNothing
<1> QED BY <1>1, <1>2 DEF StateOK, ConnInv

LEMMA SocketEventsOK ==
  ASSUME StateOK, NEW k \in Socket,
         SocketCloses(k) \/ ConnectMessageFails(k) \/ HandshakeTimesOut(k)
  PROVE  \E reason \in EndReasons :
           /\ SocketEnds(k, reason)
           /\ reason \notin {"disconnect", "sendFailure"} => ~connected
<1>1. CASE SocketCloses(k) /\ connected
  BY <1>1 DEF SocketCloses, EndReasons, SocketEnds
<1>2. CASE SocketCloses(k) /\ ~connected
  BY <1>2 DEF SocketCloses, EndReasons, SocketEnds
<1>3. CASE ConnectMessageFails(k)
  BY <1>3 DEF ConnectMessageFails, EndReasons
<1>4. CASE HandshakeTimesOut(k)
  <2>1. ~connected
    BY <1>4, NoneAssumption DEF HandshakeTimesOut, StateOK, ConnInv, HandshakeGuarded
  <2> QED BY <1>4, <2>1 DEF HandshakeTimesOut, EndReasons
<1> QED BY <1>1, <1>2, <1>3, <1>4

LEMMA NextOK == StateOK /\ [Next]_vars => StateOK'
<1> SUFFICES ASSUME StateOK, [Next]_vars PROVE StateOK' OBVIOUS
<1>1. CASE UNCHANGED vars
  BY <1>1, QueueStepOK DEF vars, connVars, outageVars, sendVars, StateOK, TypeOK, RequestTypeOK
<1>2. ASSUME NEW s \in Sub, Subscribe(s) \/ CloseSubscription(s) \/ NextValue(s)
      PROVE  StateOK'
  BY <1>2, SubscribeConnectedOK, SubscribePendingOK, SubscribeOpeningOK,
     CloseSubscriptionOK, NextValueOK DEF Subscribe
<1>3. CASE RefreshHeaders
  BY <1>3, RefreshHeadersOK
<1>4. CASE Close
  BY <1>4, CloseOK
<1>5. CASE ReconnectTimerFires
  BY <1>5, ReconnectTimerFiresOK
<1>6. ASSUME NEW k \in Socket,
             SocketCloses(k) \/ ConnectMessageFails(k) \/ HandshakeTimesOut(k)
      PROVE  StateOK'
  BY <1>6, SocketEventsOK, SocketEndsOK
<1>7. ASSUME NEW k \in Socket, HandshakeCompletes(k) PROVE StateOK'
  BY <1>7, HandshakeCompletesOK
<1>8. ASSUME NEW k \in Socket, NEW s \in Sub, HandshakeSendFails(k, s) PROVE StateOK'
  BY <1>8, HandshakeSendFailsOK
<1>9. ASSUME NEW k \in Socket, NEW n \in Ids, FramePushes(k, n) \/ FrameEnds(k, n)
      PROVE  StateOK'
  BY <1>9, FramePushesOK, FrameEndsOK
<1> QED BY <1>1, <1>2, <1>3, <1>4, <1>5, <1>6, <1>7, <1>8, <1>9 DEF Next

\* The fields of a connection always have their types.
THEOREM TypeCorrect == Spec => []TypeOK
<1>1. StateOK => TypeOK
  BY DEF StateOK
<1> QED BY <1>1, InitOK, NextOK, PTL DEF Spec

\* No request or outage is ever left without a socket or a reconnect timer.
THEOREM NeverStrandedAlways == Spec => []NeverStranded
<1>1. StateOK => NeverStranded
  BY DEF StateOK, ConnInv
<1> QED BY <1>1, InitOK, NextOK, PTL DEF Spec

\* No socket but the current one is ever open.
THEOREM NoSocketLeakedAlways == Spec => []NoSocketLeaked
<1>1. StateOK => NoSocketLeaked
  BY DEF StateOK, ConnInv
<1> QED BY <1>1, InitOK, NextOK, PTL DEF Spec

\* Outage callbacks alternate, and a reconnect follows at least one attempt.
THEOREM OutageAnnouncedAlways == Spec => []OutageAnnounced
<1>1. StateOK => OutageAnnounced
  BY DEF StateOK, ConnInv
<1> QED BY <1>1, InitOK, NextOK, PTL DEF Spec

\* A deregistered connection holds nothing.
THEOREM IdleHoldsNothingAlways == Spec => []IdleHoldsNothing
<1>1. StateOK => IdleHoldsNothing
  BY DEF StateOK, ConnInv
<1> QED BY <1>1, InitOK, NextOK, PTL DEF Spec

(***************************************************************************)
(* Delivery.                                                               *)
(***************************************************************************)

\* How a step that has the requests of open in the map before it fails some
\* may have sent: nothing outside open, no mutation twice.
SendsFrom(open) ==
  /\ subscriptions \subseteq open /\ open \cap issued \subseteq subscriptions
  /\ issued \subseteq issued' /\ open \subseteq issued' /\ sent' \subseteq issued'
  /\ \A s \in Sub : s \in sent' <=> transmissions'[s] > 0
  /\ \A m \in Mutation : transmissions'[m] <= 1
  /\ \A s \in issued \ subscriptions : transmissions'[s] = transmissions[s]
  /\ \A s \in Sub : transmissions[s] > 0 => transmissions'[s] > 0

\* What a step may do to requests that were over before it.
Steady ==
  /\ issued \subseteq issued'
  /\ \A s \in issued \ subscriptions :
       /\ s \notin subscriptions' /\ failure'[s] = failure[s]
       /\ transmissions'[s] = transmissions[s]
  /\ \A s \in Sub : transmissions[s] > 0 => transmissions'[s] > 0

LEMMA UnsentSends ==
  ASSUME TypeOK, DeliveryInv, NEW open,
         subscriptions \subseteq open, open \cap issued \subseteq subscriptions,
         issued \subseteq issued', open \subseteq issued',
         sent' = sent, transmissions' = transmissions
  PROVE  SendsFrom(open)
BY SubAssumption DEF SendsFrom, TypeOK, MapTypeOK, RequestTypeOK, DeliveryInv, MutationSentAtMostOnce

LEMMA TransmitSends ==
  ASSUME TypeOK, DeliveryInv, NEW open, NEW S \in SUBSET open,
         subscriptions \subseteq open, open \cap issued \subseteq subscriptions,
         issued \subseteq issued', open \subseteq issued', issued' \subseteq Sub,
         S \cap sent \cap Mutation = {}, Transmit(S)
  PROVE  SendsFrom(open)
<1> USE DEF TypeOK, MapTypeOK, RequestTypeOK, DeliveryInv, Transmit
<1>1. /\ sent' = sent \cup S
      /\ \A s \in Sub : transmissions'[s] = IF s \in S THEN Saturate(transmissions[s])
                                            ELSE transmissions[s]
  OBVIOUS
<1>2. \A s \in Sub : s \in sent' <=> transmissions'[s] > 0
  BY <1>1, SaturateType
<1>3. \A m \in Mutation : transmissions'[m] <= 1
  <2> TAKE m \in Mutation
  <2>1. m \in Sub /\ transmissions[m] \in 0..2 /\ transmissions[m] <= 1
    BY SubAssumption DEF MutationSentAtMostOnce
  <2>2. CASE m \in S
    <3>1. m \notin sent BY <2>2
    <3>2. transmissions[m] = 0 BY <2>1, <3>1
    <3> QED BY <1>1, <2>1, <2>2, <3>2 DEF Saturate
  <2>3. CASE m \notin S
    BY <1>1, <2>1, <2>3
  <2> QED BY <2>2, <2>3
<1>4. \A s \in issued \ subscriptions : transmissions'[s] = transmissions[s]
  BY <1>1
<1>5. \A s \in Sub : transmissions[s] > 0 => transmissions'[s] > 0
  BY <1>1, SaturateType
<1> QED BY <1>1, <1>2, <1>3, <1>4, <1>5 DEF SendsFrom

LEMMA FailDelivery ==
  ASSUME TypeOK, TypeOK', DeliveryInv, NEW open, NEW F \in SUBSET open,
         NEW error \in [Sub -> Failures], SendsFrom(open),
         subscriptions' = open \ F,
         \A s \in Sub : failure'[s] = IF s \in F THEN error[s] ELSE failure[s],
         \A m \in F \cap Mutation : /\ error[m].delivery = "sent" => m \in sent'
                                    /\ error[m].delivery = "notSent" => m \notin sent',
         \A m \in (open \ F) \cap Mutation : m \in sent' => connected'
  PROVE  DeliveryInv' /\ Steady
<1> USE SubAssumption DEF TypeOK, MapTypeOK, RequestTypeOK
<1>1. Steady
  BY DEF SendsFrom, Steady
<1>2. MutationSentAtMostOnce'
  BY DEF SendsFrom, MutationSentAtMostOnce
<1>3. \A s \in Sub : s \in subscriptions' \/ s \notin issued' => failure'[s] = NoFailure
  BY DEF SendsFrom, DeliveryInv
<1>4. MutationOutcomeTruthful'
  <2> SUFFICES ASSUME NEW m \in Mutation
               PROVE  /\ failure'[m].delivery = "sent" => transmissions'[m] > 0
                      /\ failure'[m].delivery = "notSent" => transmissions'[m] = 0
    BY DEF MutationOutcomeTruthful
  <2>1. m \in Sub /\ (m \in sent' <=> transmissions'[m] > 0) /\ transmissions'[m] \in 0..2
    BY DEF SendsFrom
  <2>2. CASE m \in F
    BY <2>1, <2>2
  <2>3. CASE m \notin F /\ m \in issued \ subscriptions
    BY <2>1, <2>3 DEF SendsFrom, DeliveryInv, MutationOutcomeTruthful
  <2>4. CASE m \notin F /\ m \notin issued \ subscriptions
    BY <2>1, <2>4 DEF DeliveryInv, NoFailure
  <2> QED BY <2>2, <2>3, <2>4
<1>5. \A m \in subscriptions' \cap Mutation : m \in sent' => connected'
  OBVIOUS
<1> QED BY <1>1, <1>2, <1>3, <1>4, <1>5 DEF DeliveryInv, SendsFrom

LEMMA HandleSocketEndDelivery ==
  ASSUME TypeOK, TypeOK', DeliveryInv, NEW wasConnected, NEW reason \in EndReasons,
         NEW open \in SUBSET Sub, NEW next, SendsFrom(open),
         HandleSocketEnd(wasConnected, reason, open, sent', next),
         ~wasConnected \/ reason \notin {"disconnect", "sendFailure"}
           => \A m \in open \cap Mutation : m \notin sent'
  PROVE  DeliveryInv' /\ Steady
<1>1. CASE wasConnected \/ outage
  <2> DEFINE error == [s \in Sub |-> MapperFailure(reason, "sent")]
             F == IF reason \in {"disconnect", "sendFailure"}
                  THEN SentMutations(open, sent') ELSE {}
  <2>1. Fail(open, F, error) /\ error \in [Sub -> Failures]
    BY <1>1, FailureTypes DEF HandleSocketEnd, EndReasons, LocalReasons
  <2>2. /\ F \in SUBSET open /\ \A m \in F : m \in sent'
        /\ \A m \in F : error[m].delivery = "sent"
    BY DEF SentMutations, MapperFailure
  <2>3. \A m \in (open \ F) \cap Mutation : m \notin sent'
    BY DEF SentMutations
  <2> HIDE DEF error, F
  <2>4. /\ subscriptions' = open \ F
        /\ \A s \in Sub : failure'[s] = IF s \in F THEN error[s] ELSE failure[s]
    BY <2>1 DEF Fail
  <2> QED BY <2>1, <2>2, <2>3, <2>4, FailDelivery
<1>2. CASE ~(wasConnected \/ outage)
  <2> DEFINE r == IF reason = "disconnect" THEN "connectFailure" ELSE reason
             error == [s \in Sub |-> MapperFailure(r, "notSent")]
  <2>1. Fail(open, open, error) /\ error \in [Sub -> Failures]
    BY <1>2, FailureTypes DEF HandleSocketEnd, FailInitial, EndReasons, LocalReasons
  <2>2. \A m \in open : error[m].delivery = "notSent"
    BY DEF MapperFailure
  <2>3. \A m \in open \cap Mutation : m \notin sent'
    BY <1>2
  <2> HIDE DEF error
  <2>4. /\ subscriptions' = open \ open
        /\ \A s \in Sub : failure'[s] = IF s \in open THEN error[s] ELSE failure[s]
    BY <2>1 DEF Fail
  <2> QED BY <2>1, <2>2, <2>3, <2>4, FailDelivery
<1> QED BY <1>1, <1>2

LEMMA OpenFailsDelivery ==
  ASSUME TypeOK, TypeOK', ConnInv', DeliveryInv, NEW open \in SUBSET Sub, NEW next,
         SendsFrom(open), OpenFails(open, next),
         \A m \in open \cap Mutation : m \notin sent'
  PROVE  DeliveryInv' /\ Steady
<1>1. CASE outage
  <2> DEFINE F == {}
  <2>1. /\ F \in SUBSET open /\ \A m \in F : FALSE
        /\ subscriptions' = open \ F
        /\ \A s \in Sub : failure'[s] = IF s \in F THEN failure[s] ELSE failure[s]
    BY <1>1 DEF OpenFails
  <2>2. failure \in [Sub -> Failures]
    BY DEF TypeOK, RequestTypeOK
  <2> HIDE DEF F
  <2> QED BY <2>1, <2>2, FailDelivery
<1>2. CASE ~outage
  <2> DEFINE error == [s \in Sub |-> MapperFailure("connectFailure", "notSent")]
  <2>1. Fail(open, open, error) /\ error \in [Sub -> Failures]
    BY <1>2, FailureTypes DEF OpenFails, FailInitial, LocalReasons
  <2>2. \A m \in open : error[m].delivery = "notSent"
    BY DEF MapperFailure
  <2> HIDE DEF error
  <2>3. /\ subscriptions' = open \ open
        /\ \A s \in Sub : failure'[s] = IF s \in open THEN error[s] ELSE failure[s]
    BY <2>1 DEF Fail
  <2> QED BY <2>1, <2>2, <2>3, FailDelivery
<1> QED BY <1>1, <1>2

\* A step that fails nothing.
LEMMA KeepDelivery ==
  ASSUME TypeOK, TypeOK', DeliveryInv, SendsFrom(subscriptions'),
         failure' = failure,
         \A m \in subscriptions' \cap Mutation : m \in sent' => connected'
  PROVE  DeliveryInv' /\ Steady
<1> DEFINE F == {}
<1>1. /\ F \in SUBSET subscriptions' /\ \A m \in F : FALSE
      /\ subscriptions' = subscriptions' \ F
      /\ \A s \in Sub : failure'[s] = IF s \in F THEN failure[s] ELSE failure[s]
  OBVIOUS
<1>2. failure \in [Sub -> Failures]
  BY DEF TypeOK, RequestTypeOK
<1> HIDE DEF F
<1> QED BY <1>1, <1>2, FailDelivery

LEMMA SubscribeDelivery ==
  ASSUME StateOK, StateOK', DeliveryInv, NEW s \in Sub, Subscribe(s)
  PROVE  DeliveryInv' /\ Steady
<1> USE DEF StateOK
<1> DEFINE open == subscriptions \cup {s}
<1>1. /\ NewSubscription(s)
      /\ s \notin issued /\ s \notin sent /\ s \notin subscriptions
      /\ issued \subseteq issued' /\ issued' \subseteq Sub
      /\ open \in SUBSET issued' /\ open \in SUBSET Sub
      /\ subscriptions \subseteq open /\ open \cap issued \subseteq subscriptions
  BY DEF Subscribe, SubscribeConnected, SubscribePending, SubscribeOpening,
     NewSubscription, TypeOK, MapTypeOK, RequestTypeOK
<1>2. ASSUME UNCHANGED <<sent, transmissions>> PROVE SendsFrom(open)
  BY <1>1, <1>2, UnsentSends
<1>3. ~connected => \A m \in open \cap Mutation : m \notin sent
  BY <1>1 DEF DeliveryInv
<1> HIDE DEF open
<1>4. CASE SubscribeConnected(s)
  <2>1. CASE /\ Transmit({s}) /\ subscriptions' = open
             /\ UNCHANGED connVars /\ failure' = failure
    <3>1. SendsFrom(open)
      <4>1. {s} \in SUBSET open /\ {s} \cap sent \cap Mutation = {}
        BY <1>1 DEF open
      <4>2. open \subseteq issued' BY <1>1
      <4> QED BY <1>1, <2>1, <4>1, <4>2, TransmitSends
    <3>2. connected' = connected /\ connected
      BY <1>4, <2>1 DEF SubscribeConnected, connVars
    <3> QED BY <2>1, <3>1, <3>2, KeepDelivery
  <2>2. CASE /\ HandleSocketEnd(TRUE, "sendFailure", open, sent, nextSubscriptionId + 1)
             /\ UNCHANGED <<sent, transmissions>>
    <3>1. HandleSocketEnd(TRUE, "sendFailure", open, sent', nextSubscriptionId + 1)
      BY <2>2
    <3>2. "sendFailure" \in EndReasons
      BY DEF EndReasons
    <3> QED BY <1>1, <1>2, <2>2, <3>1, <3>2, HandleSocketEndDelivery
  <2> QED BY <1>4, <2>1, <2>2 DEF SubscribeConnected, open
<1>5. CASE SubscribePending(s)
  <2>1. /\ UNCHANGED <<sent, transmissions>> /\ subscriptions' = open
        /\ failure' = failure /\ ~connected
    BY <1>5 DEF SubscribePending, sendVars, open
  <2> QED BY <1>2, <1>3, <2>1, KeepDelivery
<1>6. CASE SubscribeOpening(s)
  <2>1. UNCHANGED <<sent, transmissions>> /\ socket = None /\ ~connected
    BY <1>6 DEF SubscribeOpening, NeedsSocket, ConnInv
  <2>2. CASE subscriptions' = open /\ failure' = failure
    BY <1>2, <1>3, <2>1, <2>2, KeepDelivery
  <2>3. CASE OpenFails(open, nextSubscriptionId + 1)
    BY <1>1, <1>2, <1>3, <2>1, <2>3, OpenFailsDelivery
  <2> QED BY <1>6, <2>2, <2>3 DEF SubscribeOpening, open
<1> QED BY <1>4, <1>5, <1>6 DEF Subscribe

\* A step that sends nothing and creates nothing.
LEMMA QuietSends ==
  ASSUME StateOK, DeliveryInv, UNCHANGED <<issued, sent, transmissions>>
  PROVE  SendsFrom(subscriptions)
BY UnsentSends DEF StateOK, TypeOK, MapTypeOK

LEMMA CloseSubscriptionDelivery ==
  ASSUME StateOK, StateOK', DeliveryInv, NEW s \in Sub, CloseSubscription(s)
  PROVE  DeliveryInv' /\ Steady
<1>1. /\ UNCHANGED <<issued, sent, transmissions>> /\ failure' = failure
      /\ subscriptions' = subscriptions \ {s} /\ {s} \in SUBSET subscriptions
  BY DEF CloseSubscription
<1>2. \A t \in Sub : failure'[t] = IF t \in {s} THEN failure[t] ELSE failure[t]
  BY <1>1
<1>3. \A m \in {s} \cap Mutation : failure[m].delivery = "none"
  BY <1>1 DEF DeliveryInv, NoFailure
<1>4. connected' = connected \/ subscriptions \ {s} = {}
  BY DEF CloseSubscription, connVars
<1>5. \A m \in (subscriptions \ {s}) \cap Mutation : m \in sent' => connected'
  BY <1>1, <1>4 DEF DeliveryInv
<1>6. SendsFrom(subscriptions)
  BY <1>1, QuietSends
<1>7. failure \in [Sub -> Failures]
  BY DEF StateOK, TypeOK, RequestTypeOK
<1> QED BY <1>1, <1>2, <1>3, <1>5, <1>6, <1>7, FailDelivery DEF StateOK

LEMMA RefreshHeadersDelivery ==
  ASSUME StateOK, StateOK', DeliveryInv, RefreshHeaders
  PROVE  DeliveryInv' /\ Steady
<1> DEFINE ended == SentMutations(subscriptions, sent)
           error == [s \in Sub |-> IF s \in ended THEN MapperFailure("sessionRefresh", "sent")
                                   ELSE MapperFailure("connectFailure", "notSent")]
<1>1. error \in [Sub -> Failures]
  BY FailureTypes DEF LocalReasons
<1>2. UNCHANGED <<issued, sent, transmissions>>
  BY DEF RefreshHeaders
<1>3. PICK F \in {ended, subscriptions} : Fail(subscriptions, F, error)
  BY DEF RefreshHeaders
<1>4. /\ F \in SUBSET subscriptions
      /\ \A m \in (subscriptions \ F) \cap Mutation : m \notin sent
      /\ \A m \in F \cap Mutation : /\ error[m].delivery = "sent" => m \in sent
                                    /\ error[m].delivery = "notSent" => m \notin sent
  BY <1>3, SubAssumption DEF SentMutations, MapperFailure
<1> HIDE DEF error, ended
<1>5. /\ subscriptions' = subscriptions \ F
      /\ \A s \in Sub : failure'[s] = IF s \in F THEN error[s] ELSE failure[s]
  BY <1>3 DEF Fail
<1> QED BY <1>1, <1>2, <1>4, <1>5, QuietSends, FailDelivery DEF StateOK

LEMMA CloseDelivery ==
  ASSUME StateOK, StateOK', DeliveryInv, Close PROVE DeliveryInv' /\ Steady
<1> DEFINE error == [s \in Sub |-> MapperFailure("clientClosed",
                                     IF s \in sent THEN "sent" ELSE "notSent")]
<1>1. /\ Fail(subscriptions, subscriptions, error)
      /\ UNCHANGED <<issued, sent, transmissions>>
  BY DEF Close
<1>2. error \in [Sub -> Failures]
  BY FailureTypes DEF LocalReasons
<1>3. \A m \in subscriptions \cap Mutation : /\ error[m].delivery = "sent" => m \in sent
                                             /\ error[m].delivery = "notSent" => m \notin sent
  BY SubAssumption DEF MapperFailure
<1> HIDE DEF error
<1>4. /\ subscriptions' = subscriptions \ subscriptions
      /\ \A s \in Sub : failure'[s] = IF s \in subscriptions THEN error[s] ELSE failure[s]
  BY <1>1 DEF Fail
<1> QED BY <1>1, <1>2, <1>3, <1>4, QuietSends, FailDelivery DEF StateOK

\* Steps of the queues, and stuttering.
LEMMA QuietDelivery ==
  ASSUME StateOK, StateOK', DeliveryInv,
         UNCHANGED <<connected, subscriptions, issued, sent, transmissions, failure>>
  PROVE  DeliveryInv' /\ Steady
<1>1. SendsFrom(subscriptions')
  BY QuietSends
<1>2. \A m \in subscriptions' \cap Mutation : m \in sent' => connected'
  BY DEF DeliveryInv
<1> QED BY <1>1, <1>2, KeepDelivery DEF StateOK

LEMMA SocketEndsDelivery ==
  ASSUME StateOK, StateOK', DeliveryInv, NEW k, NEW reason \in EndReasons,
         SocketEnds(k, reason), reason \notin {"disconnect", "sendFailure"} => ~connected
  PROVE  DeliveryInv' /\ Steady
<1>1. /\ HandleSocketEnd(connected, reason, subscriptions, sent', nextSubscriptionId)
      /\ UNCHANGED <<issued, sent, transmissions>>
  BY DEF SocketEnds
<1>2. ~connected => \A m \in subscriptions \cap Mutation : m \notin sent'
  BY <1>1 DEF DeliveryInv
<1>3. SendsFrom(subscriptions) /\ subscriptions \in SUBSET Sub
  BY <1>1, QuietSends DEF StateOK, TypeOK, MapTypeOK
<1> QED BY <1>1, <1>2, <1>3, HandleSocketEndDelivery DEF StateOK

LEMMA HandshakeCompletesDelivery ==
  ASSUME StateOK, StateOK', DeliveryInv, NEW k \in Socket, HandshakeCompletes(k)
  PROVE  DeliveryInv' /\ Steady
<1>1. /\ Transmit(ToSend) /\ UNCHANGED <<subscriptions, failure, issued>>
      /\ connected' = TRUE \/ subscriptions = {}
  BY DEF HandshakeCompletes
<1>2. /\ ToSend \in SUBSET subscriptions /\ ToSend \cap sent \cap Mutation = {}
      /\ subscriptions \subseteq issued' /\ issued \subseteq issued' /\ issued' \subseteq Sub
  BY <1>1 DEF ToSend, StateOK, TypeOK, MapTypeOK
<1>3. SendsFrom(subscriptions)
  BY <1>1, <1>2, TransmitSends DEF StateOK
<1> QED BY <1>1, <1>3, KeepDelivery DEF StateOK

LEMMA HandshakeSendFailsDelivery ==
  ASSUME StateOK, StateOK', DeliveryInv, NEW k \in Socket, NEW f \in Sub,
         HandshakeSendFails(k, f)
  PROVE  DeliveryInv' /\ Steady
<1> DEFINE before == {s \in ToSend : id[s] < id[f]}
<1>1. /\ Transmit(before) /\ UNCHANGED issued
      /\ HandleSocketEnd(TRUE, "sendFailure", subscriptions, sent \cup before,
                         nextSubscriptionId)
  BY DEF HandshakeSendFails
<1>2. /\ before \in SUBSET subscriptions /\ before \cap sent \cap Mutation = {}
      /\ subscriptions \in SUBSET Sub
      /\ subscriptions \subseteq issued' /\ issued \subseteq issued' /\ issued' \subseteq Sub
  BY <1>1 DEF ToSend, StateOK, TypeOK, MapTypeOK
<1> HIDE DEF before
<1>3. sent' = sent \cup before
  BY <1>1 DEF Transmit
<1>4. SendsFrom(subscriptions)
  BY <1>1, <1>2, TransmitSends DEF StateOK
<1>5. "sendFailure" \in EndReasons
  BY DEF EndReasons
<1> QED BY <1>1, <1>2, <1>3, <1>4, <1>5, HandleSocketEndDelivery DEF StateOK

LEMMA ReconnectTimerFiresDelivery ==
  ASSUME StateOK, StateOK', DeliveryInv, ReconnectTimerFires
  PROVE  DeliveryInv' /\ Steady
<1>1. UNCHANGED <<issued, sent, transmissions>> /\ ~connected
  BY DEF ReconnectTimerFires, NeedsReconnect, StateOK, ConnInv
<1>2. SendsFrom(subscriptions) /\ subscriptions \in SUBSET Sub
  BY <1>1, QuietSends DEF StateOK, TypeOK, MapTypeOK
<1>3. \A m \in subscriptions \cap Mutation : m \notin sent'
  BY <1>1 DEF DeliveryInv
<1>4. CASE UNCHANGED <<subscriptions, failure>>
  BY <1>2, <1>3, <1>4, KeepDelivery DEF StateOK
<1>5. CASE OpenFails(subscriptions, nextSubscriptionId)
  BY <1>2, <1>3, <1>5, OpenFailsDelivery DEF StateOK
<1> QED BY <1>4, <1>5 DEF ReconnectTimerFires

LEMMA FrameEndsDelivery ==
  ASSUME StateOK, StateOK', DeliveryInv, NEW k \in Socket, NEW n \in Ids, FrameEnds(k, n)
  PROVE  DeliveryInv' /\ Steady
<1>1. PICK t \in Addressee(n), error \in {ProtocolFailure, NoFailure} :
        Fail(subscriptions, {t}, [s \in Sub |-> error])
  BY DEF FrameEnds
<1> DEFINE errors == [s \in Sub |-> error]
<1>2. UNCHANGED <<connected, issued, sent, transmissions>>
  BY DEF FrameEnds, sendVars, connVars
<1>3. /\ errors \in [Sub -> Failures]
      /\ \A s \in Sub : errors[s].delivery = "none"
  BY FailureTypes DEF ProtocolFailure, NoFailure
<1>4. {t} \in SUBSET subscriptions
  BY DEF Addressee
<1> HIDE DEF errors
<1>5. /\ subscriptions' = subscriptions \ {t}
      /\ \A s \in Sub : failure'[s] = IF s \in {t} THEN errors[s] ELSE failure[s]
  BY <1>1 DEF Fail, errors
<1>6. \A m \in (subscriptions \ {t}) \cap Mutation : m \in sent' => connected'
  BY <1>2 DEF DeliveryInv
<1>7. \A m \in {t} \cap Mutation : errors[m].delivery = "none"
  BY <1>3, SubAssumption
<1> QED BY <1>2, <1>3, <1>4, <1>5, <1>6, <1>7, QuietSends, FailDelivery DEF StateOK

LEMMA DeliveryStep ==
  ASSUME StateOK, StateOK', DeliveryInv, [Next]_vars PROVE DeliveryInv' /\ Steady
<1>1. CASE UNCHANGED vars
  BY <1>1, QuietDelivery DEF vars
<1>2. ASSUME NEW s \in Sub, Subscribe(s) \/ CloseSubscription(s)
      PROVE  DeliveryInv' /\ Steady
  BY <1>2, SubscribeDelivery, CloseSubscriptionDelivery
<1>3. ASSUME NEW s \in Sub, NextValue(s) PROVE DeliveryInv' /\ Steady
  BY <1>3, QuietDelivery DEF NextValue, connVars, sendVars
<1>4. CASE RefreshHeaders
  BY <1>4, RefreshHeadersDelivery
<1>5. CASE Close
  BY <1>5, CloseDelivery
<1>6. CASE ReconnectTimerFires
  BY <1>6, ReconnectTimerFiresDelivery
<1>7. ASSUME NEW k \in Socket,
             SocketCloses(k) \/ ConnectMessageFails(k) \/ HandshakeTimesOut(k)
      PROVE  DeliveryInv' /\ Steady
  BY <1>7, SocketEventsOK, SocketEndsDelivery
<1>8. ASSUME NEW k \in Socket, HandshakeCompletes(k) PROVE DeliveryInv' /\ Steady
  BY <1>8, HandshakeCompletesDelivery
<1>9. ASSUME NEW k \in Socket, NEW s \in Sub, HandshakeSendFails(k, s)
      PROVE  DeliveryInv' /\ Steady
  BY <1>9, HandshakeSendFailsDelivery
<1>10. ASSUME NEW k \in Socket, NEW n \in Ids, FramePushes(k, n)
       PROVE  DeliveryInv' /\ Steady
  BY <1>10, QuietDelivery DEF FramePushes, connVars, sendVars
<1>11. ASSUME NEW k \in Socket, NEW n \in Ids, FrameEnds(k, n)
       PROVE  DeliveryInv' /\ Steady
  BY <1>11, FrameEndsDelivery
<1> QED BY <1>1, <1>2, <1>3, <1>4, <1>5, <1>6, <1>7, <1>8, <1>9, <1>10, <1>11 DEF Next

LEMMA DeliveryInit == Init => DeliveryInv
BY SubAssumption DEF Init, DeliveryInv, MutationSentAtMostOnce, MutationOutcomeTruthful, NoFailure

LEMMA DeliveryAlways == Spec => [](StateOK /\ DeliveryInv)
<1>1. Init => StateOK /\ DeliveryInv
  BY InitOK, DeliveryInit
<1>2. StateOK /\ DeliveryInv /\ [Next]_vars => (StateOK /\ DeliveryInv)'
  BY NextOK, DeliveryStep
<1> QED BY <1>1, <1>2, PTL DEF Spec

\* No mutation's bytes are handed to a socket twice.
THEOREM MutationSentAtMostOnceAlways == Spec => []MutationSentAtMostOnce
<1>1. DeliveryInv => MutationSentAtMostOnce
  BY DEF DeliveryInv
<1> QED BY <1>1, DeliveryAlways, PTL

\* The delivery state of a mutation's error is the truth.
THEOREM MutationOutcomeTruthfulAlways == Spec => []MutationOutcomeTruthful
<1>1. DeliveryInv => MutationOutcomeTruthful
  BY DEF DeliveryInv
<1> QED BY <1>1, DeliveryAlways, PTL

\* The handshake timer is that of the current socket, while it is connecting.
THEOREM HandshakeGuardedAlways == Spec => []HandshakeGuarded
<1>1. StateOK => HandshakeGuarded
  BY DEF StateOK, ConnInv
<1> QED BY <1>1, InitOK, NextOK, PTL DEF Spec

\* No step revives an ended request or changes what it ended with.
THEOREM EndedStaysEndedAlways == Spec => EndedStaysEnded
<1>1. Steady => \A s \in issued \ subscriptions :
                  s \notin subscriptions' /\ failure'[s] = failure[s]
  BY DEF Steady
<1>2. StateOK /\ StateOK' /\ DeliveryInv /\ [Next]_vars
        => [\A s \in issued \ subscriptions :
              s \notin subscriptions' /\ failure'[s] = failure[s]]_vars
  BY <1>1, DeliveryStep
<1> QED BY <1>2, DeliveryAlways, PTL DEF Spec, EndedStaysEnded

(***************************************************************************)
(* The connection implements the promise of MutationDelivery.              *)
(***************************************************************************)

\* A mutation that was ever created has one of the stages after "unused", and
\* which one says what is known of its bytes.
LEMMA StageFacts ==
  ASSUME StateOK, DeliveryInv, NEW m \in Mutation
  PROVE  /\ StageOf(m) \in Delivery!Stage
         /\ m \notin issued <=> StageOf(m) = "unused"
         /\ StageOf(m) \in {"queued", "refused"} => transmissions[m] = 0
         /\ StageOf(m) \in {"handed", "unknown"} => transmissions[m] = 1
         /\ StageOf(m) \in {"queued", "handed"} <=> m \in subscriptions
<1>1. /\ m \in Sub /\ transmissions[m] \in {0, 1}
      /\ subscriptions \subseteq issued
      /\ failure[m].delivery = "sent" => transmissions[m] = 1
      /\ failure[m].delivery = "notSent" => transmissions[m] = 0
  BY SubAssumption DEF StateOK, TypeOK, MapTypeOK, RequestTypeOK, DeliveryInv,
     MutationSentAtMostOnce, MutationOutcomeTruthful
<1>2. failure[m].delivery \in {"none", "sent", "notSent"}
  <2>1. failure[m] \in Failures
    BY <1>1 DEF StateOK, TypeOK, RequestTypeOK
  <2> QED BY <2>1 DEF Failures, NoFailure, ProtocolFailure
<1>3. CASE m \notin issued
  BY <1>1, <1>3 DEF StageOf, Delivery!Stage
<1>4. CASE m \in subscriptions
  BY <1>1, <1>4 DEF StageOf, Delivery!Stage
<1>5. CASE m \in issued \ subscriptions
  BY <1>1, <1>2, <1>5 DEF StageOf, Delivery!Stage
<1> QED BY <1>3, <1>4, <1>5

\* The same after a step.
LEMMA StageFactsNext ==
  (\A m \in Mutation : StateOK /\ DeliveryInv =>
     /\ StageOf(m) \in Delivery!Stage
     /\ m \notin issued <=> StageOf(m) = "unused"
     /\ StageOf(m) \in {"queued", "refused"} => transmissions[m] = 0)'
<1>1. \A m \in Mutation : StateOK /\ DeliveryInv =>
        /\ StageOf(m) \in Delivery!Stage
        /\ m \notin issued <=> StageOf(m) = "unused"
        /\ StageOf(m) \in {"queued", "refused"} => transmissions[m] = 0
  BY StageFacts
<1> QED BY <1>1, PTL

LEMMA StageStep ==
  ASSUME StateOK, StateOK', DeliveryInv, DeliveryInv', Steady, NEW m \in Mutation
  PROVE  /\ StageOf(m)' \in Delivery!Successors(StageOf(m))
         /\ StageOf(m)' \in Delivery!Stage
<1>1. /\ StageOf(m) \in Delivery!Stage
      /\ m \notin issued <=> StageOf(m) = "unused"
      /\ StageOf(m) \in {"handed", "unknown"} => transmissions[m] = 1
      /\ StageOf(m) \in {"queued", "handed"} <=> m \in subscriptions
  BY StageFacts
<1>2. /\ StageOf(m)' \in Delivery!Stage
      /\ m \notin issued' <=> StageOf(m)' = "unused"
      /\ StageOf(m)' \in {"queued", "refused"} => transmissions'[m] = 0
  BY StageFactsNext
<1>3. m \in Sub
  BY SubAssumption
<1>4. CASE m \notin issued
  BY <1>1, <1>2, <1>4 DEF Delivery!Successors
<1>5. CASE m \in subscriptions
  <2>1. StageOf(m)' # "unused"
    BY <1>2, <1>5 DEF Steady, StateOK, TypeOK, MapTypeOK
  <2>2. CASE StageOf(m) = "queued"
    BY <1>2, <2>1, <2>2 DEF Delivery!Successors
  <2>3. CASE StageOf(m) = "handed"
    <3>1. StageOf(m)' \notin {"queued", "refused"}
      BY <1>1, <1>2, <1>3, <2>3 DEF Steady
    <3> QED BY <1>2, <2>1, <2>3, <3>1 DEF Delivery!Successors, Delivery!Stage
  <2> QED BY <1>1, <1>5, <2>2, <2>3
<1>6. CASE m \in issued \ subscriptions
  <2>1. StageOf(m)' = StageOf(m)
    BY <1>3, <1>6 DEF Steady, StageOf
  <2> QED BY <1>1, <1>6, <2>1 DEF Delivery!Successors, Delivery!Stage
<1> QED BY <1>2, <1>4, <1>5, <1>6

\* Whatever sockets, timers and sessions do, mutations only move as the
\* promise allows.
THEOREM ConnectionImplementsDelivery == Spec => ImplementsDelivery
<1> DEFINE stage == [m \in Mutation |-> StageOf(m)]
<1>1. Init => Delivery!Init
  BY DEF Init, Delivery!Init, StageOf
<1>2. StateOK /\ StateOK' /\ DeliveryInv /\ [Next]_vars => [Delivery!Next]_stage
  <2> SUFFICES ASSUME StateOK, StateOK', DeliveryInv, [Next]_vars PROVE Delivery!Next
    OBVIOUS
  <2>1. DeliveryInv' /\ Steady
    BY DeliveryStep
  <2>2. \A m \in Mutation : /\ StageOf(m)' \in Delivery!Successors(StageOf(m))
                            /\ StageOf(m)' \in Delivery!Stage
    BY <2>1, StageStep
  <2> QED BY <2>2 DEF Delivery!Next
<1> QED BY <1>1, <1>2, DeliveryAlways, PTL DEF Spec, ImplementsDelivery, Delivery!Spec

(***************************************************************************)
(* Frames and consumers.                                                   *)
(***************************************************************************)

\* The numbers of this socket are below the next one, so that a new request
\* gets a number nothing in the map or on the wire has.
NumbersBelow ==
  /\ \A s \in subscriptions : id[s] < nextSubscriptionId
  /\ \A p \in wire : p[1] < nextSubscriptionId

ReachInv == FrameReachesSender /\ NoConsumerHangs /\ NumbersBelow

\* What a handler leaves of the requests in open: those that leave the map
\* have nobody waiting.
Released(open) ==
  /\ subscriptions' \subseteq open
  /\ \A s \in Sub : \/ waiting'[s] = 0
                    \/ waiting'[s] = waiting[s] /\ (s \in open => s \in subscriptions')

\* A socket that is gone has taken the wire with it, and the numbers start
\* again only when no request is left.
SocketGone(open, next) ==
  /\ wire' = {} /\ Released(open)
  /\ subscriptions' = {} \/ nextSubscriptionId' = next

LEMMA FailReleases ==
  ASSUME NEW open, NEW F, NEW error, Fail(open, F, error) PROVE Released(open)
BY DEF Fail, Released

LEMMA HandleSocketEndGone ==
  ASSUME NEW wasConnected, NEW reason, NEW open, NEW done, NEW next,
         HandleSocketEnd(wasConnected, reason, open, done, next)
  PROVE  SocketGone(open, next)
<1>1. CASE wasConnected \/ outage
  BY <1>1, FailReleases DEF HandleSocketEnd, SocketGone, DropSocket
<1>2. CASE ~(wasConnected \/ outage)
  <2>1. PICK cause : FailInitial(open, cause)
    BY <1>2 DEF HandleSocketEnd
  <2> QED BY <2>1, FailReleases DEF FailInitial, Fail, SocketGone, CloseIdleSocket, DropSocket
<1> QED BY <1>1, <1>2

LEMMA OpenFailsGone ==
  ASSUME NEW open, NEW next, OpenFails(open, next) PROVE SocketGone(open, next)
<1>1. CASE outage
  BY <1>1 DEF OpenFails, SocketGone, Released, DropSocket
<1>2. CASE ~outage
  BY <1>2, FailReleases DEF OpenFails, FailInitial, Fail, SocketGone, CloseIdleSocket, DropSocket
<1> QED BY <1>1, <1>2

\* A step that makes no request: what it puts on the wire is in the map.
Quiet ==
  /\ id' = id /\ backlog' = backlog
  /\ \/ SocketGone(subscriptions, nextSubscriptionId)
     \/ /\ wire' \subseteq wire \cup {<<id[s], s>> : s \in subscriptions}
        /\ nextSubscriptionId' = nextSubscriptionId /\ Released(subscriptions)

LEMMA QuietReach ==
  ASSUME StateOK, ReachInv, Quiet PROVE ReachInv'
<1> USE DEF StateOK, TypeOK, ConnTypeOK, MapTypeOK, RequestTypeOK, ReachInv
<1>1. Released(subscriptions)
  BY DEF Quiet, SocketGone
<1>2. NoConsumerHangs'
  BY <1>1 DEF NoConsumerHangs, Released, Quiet
<1>3. NumbersBelow' /\ FrameReachesSender'
  <2>1. CASE SocketGone(subscriptions, nextSubscriptionId)
    BY <2>1 DEF SocketGone, Released, Quiet, NumbersBelow, FrameReachesSender, Addressee
  <2>2. CASE /\ wire' \subseteq wire \cup {<<id[s], s>> : s \in subscriptions}
             /\ nextSubscriptionId' = nextSubscriptionId
    BY <1>1, <2>2 DEF Released, Quiet, NumbersBelow, FrameReachesSender, Addressee
  <2> QED BY <2>1, <2>2 DEF Quiet
<1> QED BY <1>2, <1>3

LEMMA SubscribeReach ==
  ASSUME StateOK, ReachInv, NEW s \in Sub, Subscribe(s) PROVE ReachInv'
<1> USE DEF StateOK, TypeOK, ConnTypeOK, MapTypeOK, RequestTypeOK, ReachInv
<1> DEFINE open == subscriptions \cup {s}
           next == nextSubscriptionId + 1
<1>1. NewSubscription(s)
  BY DEF Subscribe, SubscribeConnected, SubscribePending, SubscribeOpening
<1>2. \/ SocketGone(open, next)
      \/ /\ wire' \subseteq wire \cup {<<id'[s], s>>}
         /\ subscriptions' = open /\ nextSubscriptionId' = next /\ waiting' = waiting
  <2>1. CASE SubscribeConnected(s)
    <3>1. CASE HandleSocketEnd(TRUE, "sendFailure", open, sent, next)
      BY <3>1, HandleSocketEndGone
    <3>2. CASE /\ Register({s}) /\ subscriptions' = open
               /\ nextSubscriptionId' = next /\ waiting' = waiting
      BY <3>2 DEF Register
    <3> QED BY <2>1, <3>1, <3>2 DEF SubscribeConnected
  <2>2. CASE SubscribePending(s)
    BY <2>2 DEF SubscribePending, sendVars
  <2>3. CASE SubscribeOpening(s)
    BY <2>3, OpenFailsGone DEF SubscribeOpening, OpenSocket
  <2> QED BY <2>1, <2>2, <2>3 DEF Subscribe
<1>3. /\ s \notin subscriptions /\ id' = [id EXCEPT ![s] = nextSubscriptionId]
      /\ backlog' = backlog /\ id'[s] = nextSubscriptionId
      /\ \A t \in subscriptions : id'[t] = id[t] /\ id'[t] < next
  BY <1>1 DEF NewSubscription, NumbersBelow
<1>4. Released(open)
  BY <1>2 DEF SocketGone, Released
<1>5. NoConsumerHangs'
  BY <1>3, <1>4 DEF NoConsumerHangs, Released
<1>6. NumbersBelow' /\ FrameReachesSender'
  <2>1. CASE SocketGone(open, next)
    BY <1>3, <2>1 DEF SocketGone, Released, NumbersBelow, FrameReachesSender, Addressee
  <2>2. CASE /\ wire' \subseteq wire \cup {<<id'[s], s>>}
             /\ subscriptions' = open /\ nextSubscriptionId' = next
    <3>1. NumbersBelow'
      BY <1>3, <2>2 DEF NumbersBelow
    <3>2. \A t, u \in subscriptions' : id'[t] = id'[u] => t = u
      BY <1>3, <2>2 DEF NumbersBelow, FrameReachesSender
    <3>3. \A p \in wire' : \A t \in subscriptions' : id'[t] = p[1] => t = p[2]
      BY <1>3, <2>2, <3>2 DEF NumbersBelow, FrameReachesSender, Addressee
    <3> QED BY <3>1, <3>2, <3>3 DEF FrameReachesSender, Addressee
  <2> QED BY <1>2, <2>1, <2>2
<1> QED BY <1>5, <1>6

LEMMA CloseSubscriptionQuiet ==
  ASSUME StateOK, NEW s \in Sub, CloseSubscription(s) PROVE Quiet
<1>1. Released(subscriptions) /\ id' = id /\ backlog' = backlog
  BY DEF CloseSubscription, Released, StateOK, TypeOK, RequestTypeOK
<1>2. CASE subscriptions = {s} /\ ~outage
  BY <1>1, <1>2 DEF CloseSubscription, CloseIdleSocket, DropSocket, Quiet, SocketGone
<1>3. CASE ~(subscriptions = {s} /\ ~outage)
  BY <1>1, <1>3 DEF CloseSubscription, Quiet
<1> QED BY <1>2, <1>3

LEMMA RefreshHeadersQuiet ==
  ASSUME RefreshHeaders PROVE Quiet
<1>1. Released(subscriptions) /\ id' = id /\ backlog' = backlog
  BY FailReleases DEF RefreshHeaders
<1>2. \/ UNCHANGED <<wire, nextSubscriptionId>>
      \/ wire' = {} /\ nextSubscriptionId' = nextSubscriptionId
      \/ wire' = {} /\ subscriptions' = {}
  BY DEF RefreshHeaders, OpenSocket, DropSocket, CloseIdleSocket, Fail
<1> QED BY <1>1, <1>2 DEF Quiet, SocketGone

LEMMA CloseQuiet == ASSUME Close PROVE Quiet
BY FailReleases DEF Close, DropSocket, Quiet, SocketGone

LEMMA SocketEndsQuiet ==
  ASSUME NEW k, NEW reason, SocketEnds(k, reason) PROVE Quiet
BY HandleSocketEndGone DEF SocketEnds, Quiet

LEMMA HandshakeCompletesQuiet ==
  ASSUME StateOK, NEW k \in Socket, HandshakeCompletes(k) PROVE Quiet
<1>1. Released(subscriptions) /\ id' = id /\ backlog' = backlog
  BY DEF HandshakeCompletes, queueVars, Released, StateOK, TypeOK, RequestTypeOK
<1>2. \/ wire' = {} /\ subscriptions' = {}
      \/ /\ wire' = wire \cup {<<id[s], s>> : s \in ToSend}
         /\ nextSubscriptionId' = nextSubscriptionId
  BY DEF HandshakeCompletes, CloseIdleSocket, DropSocket
<1> QED BY <1>1, <1>2 DEF Quiet, SocketGone, ToSend

LEMMA ReconnectTimerFiresQuiet ==
  ASSUME StateOK, ReconnectTimerFires PROVE Quiet
<1>1. CASE OpenFails(subscriptions, nextSubscriptionId)
  BY <1>1, OpenFailsGone DEF ReconnectTimerFires, Quiet
<1>2. CASE \E k \in Socket : OpenSocket(k) /\ UNCHANGED <<subscriptions, waiting, nextSubscriptionId>>
  BY <1>2 DEF ReconnectTimerFires, OpenSocket, Quiet, SocketGone, Released
<1> QED BY <1>1, <1>2 DEF ReconnectTimerFires

LEMMA FrameEndsQuiet ==
  ASSUME NEW k, NEW n, FrameEnds(k, n) PROVE Quiet
BY FailReleases DEF FrameEnds, connVars, sendVars, Quiet

\* next() and a frame with a payload: one queue changes, and nothing else.
LEMMA QueueReach ==
  ASSUME StateOK, ReachInv, UNCHANGED <<id, wire, subscriptions, nextSubscriptionId>>,
         NoConsumerHangs'
  PROVE  ReachInv'
BY DEF ReachInv, FrameReachesSender, Addressee, NumbersBelow

LEMMA NextValueReach ==
  ASSUME StateOK, ReachInv, NEW s \in Sub, NextValue(s) PROVE ReachInv'
<1>1. UNCHANGED <<id, wire, subscriptions, nextSubscriptionId>>
  BY DEF NextValue, sendVars
<1>2. NoConsumerHangs'
  BY <1>1 DEF NextValue, NextTakes, NextWaits, NoConsumerHangs, ReachInv,
     StateOK, TypeOK, RequestTypeOK
<1> QED BY <1>1, <1>2, QueueReach

LEMMA FramePushesReach ==
  ASSUME StateOK, ReachInv, NEW k, NEW n, FramePushes(k, n) PROVE ReachInv'
<1>1. UNCHANGED <<id, wire, subscriptions, nextSubscriptionId>>
  BY DEF FramePushes, sendVars
<1>2. PICK t \in Addressee(n) :
        \/ waiting[t] > 0 /\ waiting' = [waiting EXCEPT ![t] = @ - 1] /\ backlog' = backlog
        \/ waiting[t] = 0 /\ backlog' = [backlog EXCEPT ![t] = @ + 1] /\ waiting' = waiting
  BY DEF FramePushes
<1>3. t \in Sub
  BY <1>2 DEF Addressee, StateOK, TypeOK, MapTypeOK
<1>4. NoConsumerHangs'
  BY <1>1, <1>2, <1>3 DEF NoConsumerHangs, ReachInv, StateOK, TypeOK, RequestTypeOK
<1> QED BY <1>1, <1>4, QueueReach

LEMMA ReachStep ==
  ASSUME StateOK, ReachInv, [Next]_vars PROVE ReachInv'
<1>1. CASE UNCHANGED vars
  BY <1>1 DEF vars, ReachInv, FrameReachesSender, Addressee, NoConsumerHangs, NumbersBelow
<1>2. ASSUME NEW s \in Sub, Subscribe(s) \/ CloseSubscription(s) \/ NextValue(s)
      PROVE  ReachInv'
  BY <1>2, SubscribeReach, CloseSubscriptionQuiet, QuietReach, NextValueReach
<1>3. CASE RefreshHeaders \/ Close \/ ReconnectTimerFires
  BY <1>3, RefreshHeadersQuiet, CloseQuiet, ReconnectTimerFiresQuiet, QuietReach
<1>4. ASSUME NEW k \in Socket,
             SocketCloses(k) \/ ConnectMessageFails(k) \/ HandshakeTimesOut(k)
      PROVE  ReachInv'
  BY <1>4, SocketEventsOK, SocketEndsQuiet, QuietReach
<1>5. ASSUME NEW k \in Socket, HandshakeCompletes(k) PROVE ReachInv'
  BY <1>5, HandshakeCompletesQuiet, QuietReach
<1>6. ASSUME NEW k \in Socket, NEW s \in Sub, HandshakeSendFails(k, s) PROVE ReachInv'
  BY <1>6, HandleSocketEndGone, QuietReach DEF HandshakeSendFails, Quiet
<1>7. ASSUME NEW k \in Socket, NEW n \in Ids, FramePushes(k, n) \/ FrameEnds(k, n)
      PROVE  ReachInv'
  BY <1>7, FramePushesReach, FrameEndsQuiet, QuietReach
<1> QED BY <1>1, <1>2, <1>3, <1>4, <1>5, <1>6, <1>7 DEF Next

LEMMA ReachAlways == Spec => [](StateOK /\ ReachInv)
<1>1. Init => StateOK /\ ReachInv
  BY InitOK DEF Init, ReachInv, FrameReachesSender, Addressee, NoConsumerHangs, NumbersBelow
<1>2. StateOK /\ ReachInv /\ [Next]_vars => (StateOK /\ ReachInv)'
  BY NextOK, ReachStep
<1> QED BY <1>1, <1>2, PTL DEF Spec

\* A frame reaches the request it answers or none: numbers that start again
\* do so on a new socket only.
THEOREM FrameReachesSenderAlways == Spec => []FrameReachesSender
<1>1. ReachInv => FrameReachesSender
  BY DEF ReachInv
<1> QED BY <1>1, ReachAlways, PTL

\* Nobody waits in next() for a request that is over, or beside a payload.
THEOREM NoConsumerHangsAlways == Spec => []NoConsumerHangs
<1>1. ReachInv => NoConsumerHangs
  BY DEF ReachInv
<1> QED BY <1>1, ReachAlways, PTL

(***************************************************************************)
(* Reads in an outage.                                                     *)
(***************************************************************************)

\* No read of the map gets an error of the connection's own.
ReadsSpared ==
  \A s \in subscriptions \ Mutation : failure'[s] \in {NoFailure, ProtocolFailure}

LEMMA MutationsFailSpares ==
  ASSUME StateOK, DeliveryInv, NEW open, NEW done, NEW F, F \subseteq SentMutations(open, done),
         NEW error, Fail(open, F, error)
  PROVE  ReadsSpared
BY DEF ReadsSpared, Fail, SentMutations, DeliveryInv, StateOK, TypeOK, MapTypeOK

LEMMA SameFailuresSpare ==
  ASSUME StateOK, DeliveryInv, failure' = failure PROVE ReadsSpared
BY DEF ReadsSpared, DeliveryInv, StateOK, TypeOK, MapTypeOK

LEMMA HandleSocketEndSpares ==
  ASSUME StateOK, DeliveryInv, outage, NEW wasConnected, NEW reason, NEW open, NEW done, NEW next,
         HandleSocketEnd(wasConnected, reason, open, done, next)
  PROVE  ReadsSpared
<1>1. PICK F \in SUBSET SentMutations(open, done) :
        Fail(open, F, [s \in Sub |-> MapperFailure(reason, "sent")])
  BY DEF HandleSocketEnd
<1> QED BY <1>1, MutationsFailSpares

LEMMA ReadsStep ==
  ASSUME StateOK, DeliveryInv, [Next]_vars, outage, outage' PROVE ReadsSpared
<1>1. CASE UNCHANGED vars
  BY <1>1, SameFailuresSpare DEF vars
<1>2. ASSUME NEW s \in Sub, Subscribe(s) PROVE ReadsSpared
  <2>1. CASE SubscribeConnected(s)
    BY <2>1, HandleSocketEndSpares, SameFailuresSpare DEF SubscribeConnected
  <2>2. CASE SubscribePending(s) \/ SubscribeOpening(s)
    BY <2>2, SameFailuresSpare DEF SubscribePending, SubscribeOpening, OpenFails
  <2> QED BY <1>2, <2>1, <2>2 DEF Subscribe
<1>3. ASSUME NEW s \in Sub, CloseSubscription(s) \/ NextValue(s) PROVE ReadsSpared
  BY <1>3, SameFailuresSpare DEF CloseSubscription, NextValue
<1>4. CASE RefreshHeaders
  <2>1. PICK error : Fail(subscriptions, SentMutations(subscriptions, sent), error)
    BY <1>4 DEF RefreshHeaders
  <2> QED BY <2>1, MutationsFailSpares
<1>5. CASE Close
  BY <1>5 DEF Close, ForgetOutage
<1>6. CASE ReconnectTimerFires
  BY <1>6, SameFailuresSpare DEF ReconnectTimerFires, OpenFails
<1>7. ASSUME NEW k \in Socket,
             SocketCloses(k) \/ ConnectMessageFails(k) \/ HandshakeTimesOut(k)
      PROVE  ReadsSpared
  BY <1>7, SocketEventsOK, HandleSocketEndSpares DEF SocketEnds
<1>8. ASSUME NEW k \in Socket, HandshakeCompletes(k) PROVE ReadsSpared
  BY <1>8, SameFailuresSpare DEF HandshakeCompletes
<1>9. ASSUME NEW k \in Socket, NEW s \in Sub, HandshakeSendFails(k, s) PROVE ReadsSpared
  BY <1>9, HandleSocketEndSpares DEF HandshakeSendFails
<1>10. ASSUME NEW k \in Socket, NEW n \in Ids, FramePushes(k, n) PROVE ReadsSpared
  BY <1>10, SameFailuresSpare DEF FramePushes
<1>11. ASSUME NEW k \in Socket, NEW n \in Ids, FrameEnds(k, n) PROVE ReadsSpared
  BY <1>11 DEF FrameEnds, Fail, ReadsSpared, DeliveryInv, StateOK, TypeOK, MapTypeOK
<1> QED BY <1>1, <1>2, <1>3, <1>4, <1>5, <1>6, <1>7, <1>8, <1>9, <1>10, <1>11 DEF Next

\* While an outage lasts no read fails, whatever reconnects, refreshes and
\* calls there are.
THEOREM ReadsSurviveOutageAlways == Spec => ReadsSurviveOutage
<1>1. StateOK /\ DeliveryInv /\ [Next]_vars =>
        [\A s \in subscriptions \ Mutation :
           outage /\ outage' => failure'[s] \in {NoFailure, ProtocolFailure}]_vars
  BY ReadsStep DEF ReadsSpared
<1> QED BY <1>1, DeliveryAlways, PTL DEF Spec, ReadsSurviveOutage
=============================================================================
