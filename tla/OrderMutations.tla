--------------------------- MODULE OrderMutations ---------------------------
(***************************************************************************)
(* OrdersApi.submit(), cancel() and replace() of traderepublic-client.ts   *)
(* over a transport that keeps the promise of MutationDelivery, a broker   *)
(* that decides in its own time, and an application that repeats an order  *)
(* only when the previous call said that is safe.                          *)
(***************************************************************************)
EXTENDS Naturals, Sequences, FiniteSets

CONSTANTS
  Submit, Cancel, Replace,  \* the calls an application may make, by method
  IntentOf,                 \* the order a submit or replace call is meant to create
  MaxInbox                  \* bound on updates buffered per mutation

Call == Submit \cup Cancel \cup Replace

ASSUME CallAssumption ==
  /\ Submit \cap Cancel = {} /\ Submit \cap Replace = {} /\ Cancel \cap Replace = {}
ASSUME InboxAssumption == MaxInbox \in Nat \ {0}

\* A call sends one mutation, a replace call a cancel and then a create.
Request == ((Cancel \cup Replace) \X {"cancel"}) \cup ((Submit \cup Replace) \X {"create"})

VARIABLES
  pc,       \* of each call: "idle", the mutation it awaits, or "ended"
  outcome,  \* what each ended call returned or threw
  stage,    \* of each mutation: see MutationDelivery
  sent,     \* mutations whose deliveryState is sent
  inbox,    \* updates waiting in each mutation's subscription
  wire,     \* mutations whose bytes travel to the broker
  broker    \* what the broker made of each mutation

vars == <<pc, outcome, stage, sent, inbox, wire, broker>>

Delivery == INSTANCE MutationDelivery WITH Mutation <- Request

\* "invalid" is an update with errors, without a known status or failing its
\* schema; "end" is the stream ending without an error.
Update == {"progress", "succeeded", "failed", "invalid", "end"}
Outcome == {"succeeded", "failed", "outcomeUnknown", "notSent", "thrown",
            "cancelFailed", "cancelOutcomeUnknown", "replacementNotSent"}

Init ==
  /\ pc = [c \in Call |-> "idle"] /\ outcome = [c \in Call |-> "none"]
  /\ stage = [r \in Request |-> "unused"] /\ sent = {}
  /\ inbox = [r \in Request |-> <<>>]
  /\ wire = {} /\ broker = [r \in Request |-> "ignorant"]

(***************************************************************************)
(* How a mutation's result ends or continues its call.  The finally block  *)
(* closes the subscription either way.                                     *)
(***************************************************************************)
MutantClosed(x) == x

Closed(x) == IF x \in {"queued", "handed"} THEN "over" ELSE x

\* What replace() makes of the result of its two mutations.
CallOutcome(c, leg, result) ==
  CASE c \in Replace /\ leg = "cancel" /\ result = "failed"         -> "cancelFailed"
    [] c \in Replace /\ leg = "cancel" /\ result = "outcomeUnknown" -> "cancelOutcomeUnknown"
    [] c \in Replace /\ leg = "create" /\ result = "notSent"        -> "replacementNotSent"
    [] OTHER -> result

MutantGoesOn(c, leg, result) ==
  c \in Replace /\ leg = "cancel" /\ result \in {"succeeded", "outcomeUnknown"}

MutantRetries(c, leg, result) ==
  /\ c \in Replace
  /\ \/ leg = "cancel" /\ result = "succeeded"
     \/ leg = "create" /\ result = "notSent"

GoesOn(c, leg, result) == c \in Replace /\ leg = "cancel" /\ result = "succeeded"

Conclude(c, leg, result) ==
  IF GoesOn(c, leg, result)
  THEN /\ pc' = [pc EXCEPT ![c] = "create"]
       /\ stage' = [stage EXCEPT ![<<c, leg>>] = Closed(@), ![<<c, "create">>] = "queued"]
       /\ UNCHANGED outcome
  ELSE /\ pc' = [pc EXCEPT ![c] = "ended"]
       /\ stage' = [stage EXCEPT ![<<c, leg>>] = Closed(@)]
       /\ outcome' = [outcome EXCEPT ![c] = CallOutcome(c, leg, result)]

\* A MapperRequestError, a timeout's included: it is returned when the bytes
\* may have reached the broker, and thrown when they did not.
MutantTransportResult(r) == IF stage[r] = "unknown" THEN "outcomeUnknown" ELSE "notSent"

TransportResult(r) == IF r \in sent THEN "outcomeUnknown" ELSE "notSent"

(***************************************************************************)
(* The client.                                                             *)
(***************************************************************************)

\* The application repeats an order only after calls that said no order of
\* theirs exists or can still come to exist.
Repeatable == {"failed", "notSent", "cancelFailed", "cancelOutcomeUnknown", "replacementNotSent"}

MayCreate(c) ==
  \A d \in (Submit \cup Replace) \ {c} :
    IntentOf[d] = IntentOf[c] => pc[d] = "idle" \/ outcome[d] \in Repeatable

Starts(c, leg) ==
  /\ pc[c] = "idle"
  /\ pc' = [pc EXCEPT ![c] = leg]
  /\ stage' = [stage EXCEPT ![<<c, leg>>] = "queued"]
  /\ UNCHANGED <<outcome, sent, inbox, wire, broker>>

StartSubmit(c) == c \in Submit /\ MayCreate(c) /\ Starts(c, "create")
StartCancel(c) == c \in Cancel /\ Starts(c, "cancel")

\* replace() prepares the new order before it cancels the old one.
StartReplace(c) == c \in Replace /\ MayCreate(c) /\ Starts(c, "cancel")

\* An order id is missing, or prepare() throws: invalid options, no account
\* number, no size step.
PrepareFails(c) ==
  /\ pc[c] = "idle" /\ (c \notin Cancel => MayCreate(c))
  /\ pc' = [pc EXCEPT ![c] = "ended"] /\ outcome' = [outcome EXCEPT ![c] = "thrown"]
  /\ UNCHANGED <<stage, sent, inbox, wire, broker>>

\* One turn of the loop that awaits a final status.
TakeUpdate(c, leg) ==
  LET r == <<c, leg>>
      u == Head(inbox[r])
  IN /\ pc[c] = leg /\ inbox[r] # <<>>
     /\ inbox' = [inbox EXCEPT ![r] = Tail(@)]
     /\ CASE u = "progress" -> UNCHANGED <<pc, outcome, stage>>
          [] u = "invalid"  -> Conclude(c, leg, "thrown")
          [] u = "end"      -> Conclude(c, leg, TransportResult(r))
          [] OTHER          -> Conclude(c, leg, u)
     /\ UNCHANGED <<sent, wire, broker>>

\* next() rejects with the transport's error once the updates are read.
StreamFails(c, leg) ==
  LET r == <<c, leg>>
  IN /\ pc[c] = leg /\ inbox[r] = <<>> /\ stage[r] \in {"refused", "unknown"}
     /\ Conclude(c, leg, TransportResult(r))
     /\ UNCHANGED <<sent, inbox, wire, broker>>

MutantTimesOut(c, leg) ==
  /\ pc[c] = leg /\ inbox[<<c, leg>>] = <<>>
  /\ Conclude(c, leg, TransportResult(<<c, leg>>))
  /\ UNCHANGED <<sent, inbox, wire, broker>>

\* The deadline passes: in next(), or before the loop looks at what is buffered.
TimesOut(c, leg) ==
  /\ pc[c] = leg
  /\ Conclude(c, leg, TransportResult(<<c, leg>>))
  /\ UNCHANGED <<sent, inbox, wire, broker>>

(***************************************************************************)
(* The transport, as MapperConnection implements it.                       *)
(***************************************************************************)
Hands(r) ==
  /\ stage[r] = "queued"
  /\ stage' = [stage EXCEPT ![r] = "handed"]
  /\ sent' = sent \cup {r} /\ wire' = wire \cup {r}
  /\ UNCHANGED <<pc, outcome, inbox, broker>>

\* A failure before the bytes were handed over.
Refuses(r) ==
  /\ stage[r] = "queued"
  /\ stage' = [stage EXCEPT ![r] = "refused"]
  /\ UNCHANGED <<pc, outcome, sent, inbox, wire, broker>>

\* Disconnect, send failure of another request, session refresh, close().
Loses(r) ==
  /\ stage[r] = "handed"
  /\ stage' = [stage EXCEPT ![r] = "unknown"]
  /\ UNCHANGED <<pc, outcome, sent, inbox, wire, broker>>

CanPush(r) == stage[r] = "handed" /\ Len(inbox[r]) < MaxInbox
Push(r, u) == inbox' = [inbox EXCEPT ![r] = Append(@, u)]

\* The peer ends the subscription, with an error of the protocol or without.
PeerEnds(r) ==
  /\ CanPush(r)
  /\ stage' = [stage EXCEPT ![r] = "over"]
  /\ \E u \in {"invalid", "end"} : Push(r, u)
  /\ UNCHANGED <<pc, outcome, sent, wire, broker>>

(***************************************************************************)
(* The broker.  Bytes handed over may arrive late, even after the          *)
(* connection was lost, or never.                                          *)
(***************************************************************************)
BrokerReceives(r) ==
  /\ r \in wire
  /\ wire' = wire \ {r} /\ broker' = [broker EXCEPT ![r] = "deciding"]
  /\ UNCHANGED <<pc, outcome, stage, sent, inbox>>

BrokerReports(r) ==
  /\ broker[r] # "ignorant" /\ CanPush(r)
  /\ \E u \in {"progress", "invalid"} : Push(r, u)
  /\ UNCHANGED <<pc, outcome, stage, sent, wire, broker>>

\* The decision is reported if the subscription still exists.
BrokerDecides(r) ==
  /\ broker[r] = "deciding"
  /\ \E decision \in {"succeeded", "failed"} :
       /\ broker' = [broker EXCEPT ![r] = decision]
       /\ \/ CanPush(r) /\ Push(r, decision)
          \/ stage[r] # "handed" /\ UNCHANGED inbox
  /\ UNCHANGED <<pc, outcome, stage, sent, wire>>

Next ==
  \/ \E c \in Call :
       \/ StartSubmit(c) \/ StartCancel(c) \/ StartReplace(c) \/ PrepareFails(c)
       \/ \E leg \in {"cancel", "create"} :
            TakeUpdate(c, leg) \/ StreamFails(c, leg) \/ TimesOut(c, leg)
  \/ \E r \in Request :
       \/ Hands(r) \/ Refuses(r) \/ Loses(r) \/ PeerEnds(r)
       \/ BrokerReceives(r) \/ BrokerReports(r) \/ BrokerDecides(r)

Spec == Init /\ [][Next]_vars

\* Only the deadline's timer is relied on: the transport may keep a mutation
\* queued and the broker may keep silent for ever.
FairSpec ==
  /\ Spec
  /\ \A c \in Call, leg \in {"cancel", "create"} : WF_vars(TimesOut(c, leg))

(***************************************************************************)
(* Properties.                                                             *)
(***************************************************************************)
TypeOK ==
  /\ pc \in [Call -> {"idle", "cancel", "create", "ended"}]
  /\ outcome \in [Call -> Outcome \cup {"none"}]
  /\ \A c \in Call : pc[c] = "ended" <=> outcome[c] # "none"
  /\ stage \in [Request -> Delivery!Stage]
  /\ sent \subseteq Request /\ wire \subseteq sent
  /\ inbox \in [Request -> Seq(Update)]
  /\ broker \in [Request -> {"ignorant", "deciding", "succeeded", "failed"}]

\* The mutations of a call the broker may have seen or may still see.
Reaches(c, leg) == <<c, leg>> \in wire \/ broker[<<c, leg>>] # "ignorant"

\* What a call reports is what the broker did, and stays so: definite results
\* are the broker's, and a call that says nothing was sent sent nothing that
\* arrives later, whatever the connection does after the call.
OutcomeTruthful ==
  /\ \A c \in Submit \cup Cancel :
       LET leg == IF c \in Submit THEN "create" ELSE "cancel"
       IN /\ outcome[c] \in {"succeeded", "failed"} => broker[<<c, leg>>] = outcome[c]
          /\ outcome[c] = "notSent" => ~Reaches(c, leg)
  /\ \A c \in Replace :
       /\ outcome[c] \in {"succeeded", "failed"} => broker[<<c, "create">>] = outcome[c]
       /\ outcome[c] = "cancelFailed" => broker[<<c, "cancel">>] = "failed"
       /\ outcome[c] = "notSent" => ~Reaches(c, "cancel")
       /\ outcome[c] \in {"notSent", "cancelFailed", "cancelOutcomeUnknown", "replacementNotSent"}
            => ~Reaches(c, "create")

\* A replacement order goes out only after the broker has cancelled the old one.
ReplacesCancelledOnly ==
  \A c \in Replace : <<c, "create">> \in sent => broker[<<c, "cancel">>] = "succeeded"

\* However often the application repeats an order that may be repeated, the
\* broker never creates two.
AtMostOneOrder ==
  \A c, d \in Submit \cup Replace :
    /\ c # d /\ IntentOf[c] = IntentOf[d]
    /\ broker[<<c, "create">>] = "succeeded"
    => broker[<<d, "create">>] # "succeeded"

\* No call leaves a mutation behind that the connection would send later.
EndedCallsSendNothing ==
  \A r \in Request : pc[r[1]] = "ended" => stage[r] \notin {"queued", "handed"}

\* The deliveries assumed of the transport are those MapperConnection keeps.
DeliveryKept == Delivery!Spec

\* Every call returns or throws by its deadline.
CallReturns == \A c \in Call : pc[c] # "idle" ~> pc[c] = "ended"

\* docs/adr/0001-optional-order-journal-durability.md:81-83: exceptions other
\* than outcomeUnknown are for failures before the submission is possibly sent.
ThrowsOnlyBeforeSending ==
  \A c \in Call : outcome[c] = "thrown" => \A r \in sent : r[1] # c
=============================================================================
