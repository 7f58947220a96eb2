------------------------ MODULE OrderMutationsProofs ------------------------
(***************************************************************************)
(* Safety of the order workflow for any set of calls, any intents and any  *)
(* bound on buffered updates: results are true and no order is created     *)
(* twice, on nothing but the delivery promise of the transport.            *)
(***************************************************************************)
EXTENDS OrderMutations, SequenceTheorems, TLAPS

Leg == {"cancel", "create"}
Result == {"succeeded", "failed", "outcomeUnknown", "notSent", "thrown"}

-----------------------------------------------------------------------------
(***************************************************************************)
(* The inductive invariant, in named parts.                                *)
(***************************************************************************)

\* A stage tells whether the bytes were handed over.
StageTellsSent ==
  \A r \in Request :
    /\ stage[r] \in {"unused", "queued", "refused"} => r \notin sent
    /\ stage[r] \in {"handed", "unknown"} => r \in sent

\* The broker knows what was sent to it, and gets each mutation once.
BrokerHearsOnce ==
  \A r \in Request :
    /\ broker[r] # "ignorant" => r \in sent
    /\ r \in wire => broker[r] = "ignorant"

\* A final update in an inbox is the broker's decision.
UpdatesTrue ==
  \A r \in Request : \A i \in 1 .. Len(inbox[r]) :
    inbox[r][i] \in {"succeeded", "failed"} => broker[r] = inbox[r][i]

\* Which calls have which mutations, and that only the awaited one is active.
CallsInOrder ==
  /\ \A c \in Call :
       /\ pc[c] = "cancel" => c \in Cancel \cup Replace
       /\ pc[c] = "create" => c \in Submit \cup Replace
       /\ pc[c] = "create" /\ c \in Replace => broker[<<c, "cancel">>] = "succeeded"
  /\ \A r \in Request :
       /\ pc[r[1]] = "idle" => stage[r] = "unused"
       /\ pc[r[1]] = "cancel" /\ r[2] = "create" => stage[r] = "unused"
       /\ stage[r] \in {"queued", "handed"} => pc[r[1]] = r[2]

\* An outcome without a broker's decision rests on bytes that were never sent.
OutcomesHold ==
  \A c \in Call :
    /\ c \notin Replace =>
         /\ outcome[c] \notin {"cancelFailed", "cancelOutcomeUnknown", "replacementNotSent"}
         /\ \A leg \in Leg : <<c, leg>> \in Request =>
              /\ outcome[c] \in {"succeeded", "failed"} => broker[<<c, leg>>] = outcome[c]
              /\ outcome[c] = "notSent" => <<c, leg>> \notin sent
    /\ c \in Replace =>
         /\ outcome[c] \in {"succeeded", "failed"} => broker[<<c, "create">>] = outcome[c]
         /\ outcome[c] = "cancelFailed" => broker[<<c, "cancel">>] = "failed"
         /\ outcome[c] = "notSent" => <<c, "cancel">> \notin sent
         /\ outcome[c] \in {"notSent", "cancelFailed", "cancelOutcomeUnknown", "replacementNotSent"}
              => <<c, "create">> \notin sent

\* A call whose order does not exist and can no longer come to exist.
Spent(c) == pc[c] = "idle" \/ outcome[c] \in Repeatable

\* Of two calls for one order, one is spent.
OneUnspent ==
  \A c, d \in Submit \cup Replace :
    c # d /\ IntentOf[c] = IntentOf[d] => Spent(c) \/ Spent(d)

IInv ==
  /\ TypeOK /\ StageTellsSent /\ BrokerHearsOnce /\ UpdatesTrue
  /\ CallsInOrder /\ OutcomesHold /\ ReplacesCancelledOnly /\ OneUnspent

-----------------------------------------------------------------------------
LEMMA RequestPairs ==
  /\ \A r \in Request : r[1] \in Call /\ r[2] \in Leg /\ r = <<r[1], r[2]>>
  /\ \A c \in Call, leg \in Leg :
       <<c, leg>> \in Request <=> \/ leg = "cancel" /\ c \in Cancel \cup Replace
                                  \/ leg = "create" /\ c \in Submit \cup Replace
  /\ \A c \in Call : c \in Submit => c \notin Cancel /\ c \notin Replace
  /\ \A c \in Call : c \in Cancel => c \notin Replace
  BY CallAssumption DEF Request, Call, Leg

\* The outcome of a call that a result ends.
LEMMA CallOutcomes ==
  ASSUME NEW c \in Call, NEW leg \in Leg, NEW result \in Result
  PROVE  /\ CallOutcome(c, leg, result) \in Outcome
         /\ CallOutcome(c, leg, result) # "none"
         /\ c \notin Replace => CallOutcome(c, leg, result) = result
         /\ c \in Replace /\ leg = "create" /\ result # "notSent"
              => CallOutcome(c, leg, result) = result
         /\ c \in Replace /\ leg = "create" /\ result = "notSent"
              => CallOutcome(c, leg, result) = "replacementNotSent"
         /\ c \in Replace /\ leg = "cancel" /\ result \in {"notSent", "thrown", "succeeded"}
              => CallOutcome(c, leg, result) = result
         /\ c \in Replace /\ leg = "cancel" /\ result = "failed"
              => CallOutcome(c, leg, result) = "cancelFailed"
         /\ c \in Replace /\ leg = "cancel" /\ result = "outcomeUnknown"
              => CallOutcome(c, leg, result) = "cancelOutcomeUnknown"
  BY DEF CallOutcome, Outcome, Leg, Result

LEMMA InitInv == Init => IInv
<1>1. Init => TypeOK
  BY DEF Init, TypeOK, Delivery!Stage
<1>2. Init => StageTellsSent /\ BrokerHearsOnce /\ UpdatesTrue
  BY DEF Init, StageTellsSent, BrokerHearsOnce, UpdatesTrue
<1>3. Init => CallsInOrder
  BY RequestPairs DEF Init, CallsInOrder
<1>4. Init => OutcomesHold
  BY RequestPairs DEF Init, OutcomesHold
<1>5. Init => ReplacesCancelledOnly /\ OneUnspent
  BY DEF Init, ReplacesCancelledOnly, OneUnspent, Spent, Call
<1> QED BY <1>1, <1>2, <1>3, <1>4, <1>5 DEF IInv

-----------------------------------------------------------------------------
(***************************************************************************)
(* What concluding a mutation keeps, for every result that is true.        *)
(***************************************************************************)
LEMMA ConcludeSteps ==
  ASSUME TypeOK, CallsInOrder, NEW c \in Call, NEW leg \in Leg, NEW result \in Result,
         pc[c] = leg, Conclude(c, leg, result)
  PROVE  /\ <<c, leg>> \in Request
         /\ \A d \in Call :
              /\ pc'[d] = IF d # c THEN pc[d] ELSE IF GoesOn(c, leg, result) THEN "create" ELSE "ended"
              /\ outcome'[d] = IF d = c /\ ~GoesOn(c, leg, result)
                              THEN CallOutcome(c, leg, result) ELSE outcome[d]
         /\ \A r \in Request :
              stage'[r] = IF GoesOn(c, leg, result) /\ r = <<c, "create">> THEN "queued"
                          ELSE IF r = <<c, leg>> THEN Closed(stage[r]) ELSE stage[r]
         /\ pc' \in [Call -> {"idle", "cancel", "create", "ended"}]
         /\ outcome' \in [Call -> Outcome \cup {"none"}]
         /\ stage' \in [Request -> Delivery!Stage]
         /\ \A d \in Call : pc'[d] = "ended" <=> outcome'[d] # "none"
         /\ \A r \in Request : stage'[r] \in Delivery!Successors(stage[r])
<1>1. <<c, leg>> \in Request
  <2>1. CASE leg = "cancel"
    BY <2>1, RequestPairs DEF CallsInOrder
  <2>2. CASE leg = "create"
    BY <2>2, RequestPairs DEF CallsInOrder
  <2> QED BY <2>1, <2>2 DEF Leg
<1>2. \A x \in Delivery!Stage : Closed(x) \in Delivery!Stage
  BY DEF Closed, Delivery!Stage
<1>3. PICK q \in Request : q = <<c, leg>>
  BY <1>1
<1> DEFINE Moves == \A r \in Request : stage'[r] \in Delivery!Successors(stage[r])
<1>4. /\ \A x \in Delivery!Stage : x \in Delivery!Successors(x) /\ Closed(x) \in Delivery!Successors(x)
      /\ "queued" \in Delivery!Successors("unused")
      /\ \A r \in Request : stage[r] \in Delivery!Stage
  BY DEF Closed, Delivery!Stage, Delivery!Successors, TypeOK
<1>5. CASE GoesOn(c, leg, result)
  <2>1. PICK q2 \in Request : q2 = <<c, "create">>
    BY <1>5, RequestPairs DEF GoesOn, Leg
  <2>2. pc' = [pc EXCEPT ![c] = "create"] /\ outcome' = outcome
    BY <1>5 DEF Conclude
  <2>3. stage' = [stage EXCEPT ![q] = Closed(@), ![q2] = "queued"]
    BY <1>3, <1>5, <2>1 DEF Conclude
  <2>4. \A r \in Request : stage'[r] = IF r = q2 THEN "queued" ELSE IF r = q THEN Closed(stage[r]) ELSE stage[r]
    BY <2>3 DEF TypeOK
  <2>5. stage' \in [Request -> Delivery!Stage]
    BY <1>2, <2>3 DEF TypeOK, Delivery!Stage
  <2>6. /\ \A d \in Call : pc'[d] = IF d = c THEN "create" ELSE pc[d]
        /\ pc' \in [Call -> {"idle", "cancel", "create", "ended"}]
    BY <2>2 DEF TypeOK
  <2>7. \A d \in Call : pc'[d] = "ended" <=> outcome'[d] # "none"
    BY <2>2, <2>6 DEF TypeOK, Leg
  <2>8. stage[q2] = "unused"
    BY <1>5, <2>1, RequestPairs DEF GoesOn, CallsInOrder
  <2>9. Moves
    BY <1>4, <2>4, <2>8
  <2> HIDE DEF Moves
  <2>10. /\ \A d \in Call :
              /\ pc'[d] = IF d # c THEN pc[d] ELSE IF GoesOn(c, leg, result) THEN "create" ELSE "ended"
              /\ outcome'[d] = IF d = c /\ ~GoesOn(c, leg, result)
                              THEN CallOutcome(c, leg, result) ELSE outcome[d]
         /\ \A r \in Request :
              stage'[r] = IF GoesOn(c, leg, result) /\ r = <<c, "create">> THEN "queued"
                          ELSE IF r = <<c, leg>> THEN Closed(stage[r]) ELSE stage[r]
    BY <1>3, <1>5, <2>1, <2>2, <2>4, <2>6
  <2> QED BY <1>1, <2>2, <2>5, <2>6, <2>7, <2>9, <2>10 DEF TypeOK, Moves
<1>6. CASE ~GoesOn(c, leg, result)
  <2>1. CallOutcome(c, leg, result) \in Outcome /\ CallOutcome(c, leg, result) # "none"
    BY CallOutcomes
  <2>2. pc' = [pc EXCEPT ![c] = "ended"] /\ outcome' = [outcome EXCEPT ![c] = CallOutcome(c, leg, result)]
    BY <1>6 DEF Conclude
  <2>3. stage' = [stage EXCEPT ![q] = Closed(@)]
    BY <1>3, <1>6 DEF Conclude
  <2>4. \A r \in Request : stage'[r] = IF r = q THEN Closed(stage[r]) ELSE stage[r]
    BY <2>3 DEF TypeOK
  <2>5. stage' \in [Request -> Delivery!Stage]
    BY <1>2, <2>3 DEF TypeOK
  <2>6. /\ \A d \in Call : /\ pc'[d] = IF d = c THEN "ended" ELSE pc[d]
                           /\ outcome'[d] = IF d = c THEN CallOutcome(c, leg, result) ELSE outcome[d]
        /\ pc' \in [Call -> {"idle", "cancel", "create", "ended"}]
        /\ outcome' \in [Call -> Outcome \cup {"none"}]
    BY <2>1, <2>2 DEF TypeOK
  <2>7. \A d \in Call : pc'[d] = "ended" <=> outcome'[d] # "none"
    BY <2>1, <2>6 DEF TypeOK
  <2>8. Moves
    BY <1>4, <2>4
  <2> HIDE DEF Moves
  <2>9. /\ \A d \in Call :
             /\ pc'[d] = IF d # c THEN pc[d] ELSE IF GoesOn(c, leg, result) THEN "create" ELSE "ended"
             /\ outcome'[d] = IF d = c /\ ~GoesOn(c, leg, result)
                             THEN CallOutcome(c, leg, result) ELSE outcome[d]
        /\ \A r \in Request :
             stage'[r] = IF GoesOn(c, leg, result) /\ r = <<c, "create">> THEN "queued"
                         ELSE IF r = <<c, leg>> THEN Closed(stage[r]) ELSE stage[r]
    BY <1>3, <1>6, <2>4, <2>6
  <2> QED BY <1>1, <2>5, <2>6, <2>7, <2>8, <2>9 DEF Moves
<1> QED BY <1>5, <1>6

LEMMA ConcludeTypes ==
  ASSUME TypeOK, CallsInOrder, NEW c \in Call, NEW leg \in Leg, NEW result \in Result,
         pc[c] = leg, Conclude(c, leg, result), UNCHANGED <<sent, wire, broker>>,
         inbox' \in [Request -> Seq(Update)]
  PROVE  TypeOK'
<1>1. \A d \in Call : pc'[d] = "ended" <=> outcome'[d] # "none"
  BY ConcludeSteps, Zenon
<1>2. /\ pc' \in [Call -> {"idle", "cancel", "create", "ended"}]
      /\ outcome' \in [Call -> Outcome \cup {"none"}]
      /\ stage' \in [Request -> Delivery!Stage]
  BY ConcludeSteps, Zenon
<1> QED BY <1>1, <1>2 DEF TypeOK

LEMMA ConcludeStages ==
  ASSUME TypeOK, StageTellsSent, CallsInOrder, ReplacesCancelledOnly,
         NEW c \in Call, NEW leg \in Leg, NEW result \in Result,
         pc[c] = leg, Conclude(c, leg, result), UNCHANGED <<sent, wire, broker>>,
         result \in {"succeeded", "failed"} => broker[<<c, leg>>] = result
  PROVE  StageTellsSent' /\ CallsInOrder' /\ ReplacesCancelledOnly'
<1>1. ReplacesCancelledOnly'
  BY DEF ReplacesCancelledOnly
<1>2. GoesOn(c, leg, result) =>
        /\ c \in Replace /\ leg = "cancel" /\ broker[<<c, "cancel">>] = "succeeded"
        /\ <<c, "create">> \in Request => stage[<<c, "create">>] = "unused"
  BY RequestPairs DEF GoesOn, CallsInOrder
<1>3. StageTellsSent'
  BY <1>2, ConcludeSteps DEF StageTellsSent, Closed
<1>4. ASSUME NEW d \in Call
      PROVE  (/\ pc[d] = "cancel" => d \in Cancel \cup Replace
              /\ pc[d] = "create" => d \in Submit \cup Replace
              /\ pc[d] = "create" /\ d \in Replace => broker[<<d, "cancel">>] = "succeeded")'
  <2>1. pc'[d] = IF d # c THEN pc[d] ELSE IF GoesOn(c, leg, result) THEN "create" ELSE "ended"
    BY ConcludeSteps
  <2>2. CASE d # c
    BY <2>1, <2>2 DEF CallsInOrder
  <2>3. CASE d = c
    BY <1>2, <2>1, <2>3
  <2> QED BY <2>2, <2>3
<1>5. ASSUME NEW r \in Request
      PROVE  /\ pc'[r[1]] = "idle" => stage'[r] = "unused"
             /\ pc'[r[1]] = "cancel" /\ r[2] = "create" => stage'[r] = "unused"
             /\ stage'[r] \in {"queued", "handed"} => pc'[r[1]] = r[2]
  <2>1. r[1] \in Call /\ r[2] \in Leg /\ r = <<r[1], r[2]>>
    BY RequestPairs
  <2>2. CASE r[1] # c
    BY <2>1, <2>2, ConcludeSteps DEF CallsInOrder
  <2>3. CASE r[1] = c /\ r[2] = leg
    BY <2>1, <2>3, <1>2, ConcludeSteps DEF Closed
  <2>4. CASE r[1] = c /\ r[2] # leg
    <3>1. stage[r] \notin {"queued", "handed"}
      BY <2>4 DEF CallsInOrder
    <3> QED BY <2>1, <2>4, <3>1, <1>2, ConcludeSteps
  <2> QED BY <2>2, <2>3, <2>4
<1>6. CallsInOrder'
  BY <1>4, <1>5 DEF CallsInOrder
<1> QED BY <1>1, <1>3, <1>6

LEMMA ConcludeOutcomes ==
  ASSUME TypeOK, CallsInOrder, OutcomesHold, ReplacesCancelledOnly, OneUnspent, StageTellsSent,
         NEW c \in Call, NEW leg \in Leg, NEW result \in Result,
         pc[c] = leg, Conclude(c, leg, result), UNCHANGED <<sent, wire, broker>>,
         result \in {"succeeded", "failed"} => broker[<<c, leg>>] = result,
         result = "notSent" => <<c, leg>> \notin sent
  PROVE  OutcomesHold' /\ OneUnspent'
<1> USE RequestPairs
<1>0. <<c, leg>> \in Request
  BY DEF CallsInOrder, Leg
<1>1. \A d \in Call : pc[d] = "idle" => pc'[d] = "idle"
  BY DEF Conclude, TypeOK, Leg
<1>2. outcome[c] = "none" /\ \A d \in Call : d # c => outcome'[d] = outcome[d]
  BY DEF Conclude, TypeOK, Leg
<1>3. \A d \in Call : Spent(d) => Spent(d)'
  BY <1>1, <1>2 DEF Spent, Repeatable, Leg
<1>4. OneUnspent'
  BY <1>3 DEF OneUnspent, Call
<1>5. CASE GoesOn(c, leg, result)
  BY <1>4, <1>5 DEF Conclude, OutcomesHold
<1>6. CASE ~GoesOn(c, leg, result)
  <2>1. outcome'[c] = CallOutcome(c, leg, result)
    BY <1>6 DEF Conclude, TypeOK
  <2>2. CASE c \notin Replace
    <3>1. outcome'[c] = result
      BY <2>1, <2>2, CallOutcomes
    <3>2. \A l \in Leg : <<c, l>> \in Request => l = leg
      BY <1>0, <2>2 DEF Leg
    <3> QED BY <1>2, <1>4, <2>2, <3>1, <3>2 DEF OutcomesHold, Result
  <2>3. CASE c \in Replace /\ leg = "create"
    <3>1. outcome'[c] = IF result = "notSent" THEN "replacementNotSent" ELSE result
      BY <2>1, <2>3, CallOutcomes
    <3> QED BY <1>2, <1>4, <2>3, <3>1 DEF OutcomesHold, Result
  <2>4. CASE c \in Replace /\ leg = "cancel"
    <3>1. stage[<<c, "create">>] = "unused" /\ <<c, "create">> \in Request
      BY <2>4 DEF CallsInOrder, Leg
    <3>2. <<c, "create">> \notin sent
      BY <3>1 DEF StageTellsSent
    <3>3. result # "succeeded"
      BY <1>6, <2>4 DEF GoesOn
    <3>4. outcome'[c] = IF result = "failed" THEN "cancelFailed"
                        ELSE IF result = "outcomeUnknown" THEN "cancelOutcomeUnknown" ELSE result
      BY <2>1, <2>4, <3>3, CallOutcomes DEF Result
    <3> QED BY <1>2, <1>4, <2>4, <3>2, <3>3, <3>4 DEF OutcomesHold, Result
  <2> QED BY <2>2, <2>3, <2>4 DEF Leg
<1> QED BY <1>5, <1>6

LEMMA ConcludeInv ==
  ASSUME IInv, NEW c \in Call, NEW leg \in Leg, NEW result \in Result,
         pc[c] = leg, Conclude(c, leg, result), UNCHANGED <<sent, wire, broker>>,
         inbox' \in [Request -> Seq(Update)], UpdatesTrue',
         result \in {"succeeded", "failed"} => broker[<<c, leg>>] = result,
         result = "notSent" => <<c, leg>> \notin sent
  PROVE  IInv'
<1>1. TypeOK'
  BY ConcludeTypes DEF IInv
<1>2. StageTellsSent' /\ CallsInOrder' /\ ReplacesCancelledOnly'
  BY ConcludeStages DEF IInv
<1>3. OutcomesHold' /\ OneUnspent'
  BY ConcludeOutcomes DEF IInv
<1>4. BrokerHearsOnce'
  BY DEF IInv, BrokerHearsOnce
<1> QED BY <1>1, <1>2, <1>3, <1>4 DEF IInv

-----------------------------------------------------------------------------
(***************************************************************************)
(* One lemma per action.                                                   *)
(***************************************************************************)

\* A buffer from which the first update is taken.
LEMMA TakenInbox ==
  ASSUME TypeOK, UpdatesTrue, NEW q \in Request, inbox[q] # <<>>,
         inbox' = [inbox EXCEPT ![q] = Tail(@)], broker' = broker
  PROVE  inbox' \in [Request -> Seq(Update)] /\ UpdatesTrue'
<1>1. inbox[q] \in Seq(Update)
  BY DEF TypeOK
<1>2. /\ Tail(inbox[q]) \in Seq(Update)
      /\ Len(Tail(inbox[q])) = Len(inbox[q]) - 1 /\ Len(inbox[q]) \in Nat
      /\ \A i \in 1 .. Len(Tail(inbox[q])) : Tail(inbox[q])[i] = inbox[q][i + 1]
  BY <1>1, HeadTailProperties, LenProperties
<1>3. inbox' \in [Request -> Seq(Update)]
  BY <1>2 DEF TypeOK
<1>4. \A r \in Request : inbox'[r] = IF r = q THEN Tail(inbox[q]) ELSE inbox[r]
  BY DEF TypeOK
<1>5. ASSUME NEW r \in Request, NEW i \in 1 .. Len(inbox'[r])
      PROVE  inbox'[r][i] \in {"succeeded", "failed"} => broker[r] = inbox'[r][i]
  <2>1. CASE r = q
    <3>1. inbox'[r] = Tail(inbox[q])
      BY <1>4, <2>1
    <3>2. i \in 1 .. Len(Tail(inbox[q]))
      BY <3>1
    <3>3. inbox'[r][i] = inbox[q][i + 1]
      BY <1>2, <3>1, <3>2
    <3>4. i + 1 \in 1 .. Len(inbox[q])
      BY <1>2, <3>2
    <3> QED BY <3>3, <3>4, <2>1 DEF UpdatesTrue
  <2>2. CASE r # q
    BY <1>4, <1>5, <2>2 DEF UpdatesTrue
  <2> QED BY <2>1, <2>2
<1> QED BY <1>3, <1>5 DEF UpdatesTrue

\* A buffer to which a true update is added.
LEMMA PushedInbox ==
  ASSUME TypeOK, UpdatesTrue, NEW q \in Request, NEW u \in Update, Push(q, u),
         \A r \in Request : broker[r] \in {"succeeded", "failed"} => broker'[r] = broker[r],
         u \in {"succeeded", "failed"} => broker'[q] = u
  PROVE  inbox' \in [Request -> Seq(Update)] /\ UpdatesTrue'
<1>1. inbox[q] \in Seq(Update)
  BY DEF TypeOK
<1>2. /\ Append(inbox[q], u) \in Seq(Update)
      /\ Len(Append(inbox[q], u)) = Len(inbox[q]) + 1 /\ Len(inbox[q]) \in Nat
      /\ \A i \in 1 .. Len(inbox[q]) : Append(inbox[q], u)[i] = inbox[q][i]
      /\ Append(inbox[q], u)[Len(inbox[q]) + 1] = u
  BY <1>1, AppendProperties, LenProperties
<1>3. inbox' \in [Request -> Seq(Update)]
  BY <1>2 DEF TypeOK, Push
<1>4. \A r \in Request : inbox'[r] = IF r = q THEN Append(inbox[q], u) ELSE inbox[r]
  BY DEF TypeOK, Push
<1>5. ASSUME NEW r \in Request, NEW i \in 1 .. Len(inbox'[r])
      PROVE  inbox'[r][i] \in {"succeeded", "failed"} => broker'[r] = inbox'[r][i]
  <2>1. CASE r = q /\ i = Len(inbox[q]) + 1
    BY <1>2, <1>4, <2>1
  <2>2. CASE r = q /\ i # Len(inbox[q]) + 1
    <3>1. inbox'[r] = Append(inbox[q], u)
      BY <1>4, <2>2
    <3>2. i \in 1 .. Len(Append(inbox[q], u))
      BY <3>1
    <3>3. i \in 1 .. Len(inbox[q])
      BY <1>2, <2>2, <3>2
    <3>4. inbox'[r][i] = inbox[q][i]
      BY <1>2, <3>1, <3>3
    <3> QED BY <3>3, <3>4, <2>2 DEF UpdatesTrue
  <2>3. CASE r # q
    BY <1>4, <1>5, <2>3 DEF UpdatesTrue
  <2> QED BY <2>1, <2>2, <2>3
<1> QED BY <1>3, <1>5 DEF UpdatesTrue

LEMMA TakeUpdateInv ==
  ASSUME IInv, NEW c \in Call, NEW leg \in Leg, TakeUpdate(c, leg)
  PROVE  IInv'
<1> DEFINE q == <<c, leg>>
<1>1. q \in Request
  <2>1. CASE leg = "cancel"
    BY <2>1, RequestPairs DEF IInv, CallsInOrder, TakeUpdate
  <2>2. CASE leg = "create"
    BY <2>2, RequestPairs DEF IInv, CallsInOrder, TakeUpdate
  <2> QED BY <2>1, <2>2 DEF Leg
<1>2. /\ pc[c] = leg /\ inbox[q] # <<>> /\ inbox' = [inbox EXCEPT ![q] = Tail(@)]
      /\ UNCHANGED <<sent, wire, broker>>
  BY DEF TakeUpdate
<1> HIDE DEF q
<1>3. inbox' \in [Request -> Seq(Update)] /\ UpdatesTrue'
  BY <1>1, <1>2, TakenInbox DEF IInv
<1>4. inbox[q] \in Seq(Update)
  BY <1>1 DEF IInv, TypeOK
<1>5. /\ Head(inbox[q]) \in Update /\ 1 \in 1 .. Len(inbox[q])
      /\ Head(inbox[q]) = inbox[q][1]
  BY <1>2, <1>4, HeadTailProperties, EmptySeq, LenProperties
<1>6. Head(inbox[q]) \in {"succeeded", "failed"} => broker[q] = Head(inbox[q])
  BY <1>1, <1>5 DEF IInv, UpdatesTrue
<1>7. CASE Head(inbox[q]) = "progress"
  <2>1. UNCHANGED <<pc, outcome, stage>>
    BY <1>7 DEF TakeUpdate, q
  <2> QED BY <1>2, <1>3, <2>1 DEF IInv, TypeOK, StageTellsSent, BrokerHearsOnce, CallsInOrder,
            OutcomesHold, ReplacesCancelledOnly, OneUnspent, Spent
<1>8. CASE Head(inbox[q]) = "invalid"
  <2>1. Conclude(c, leg, "thrown")
    BY <1>8 DEF TakeUpdate, q
  <2> QED BY <1>2, <1>3, <2>1, ConcludeInv DEF Result
<1>9. CASE Head(inbox[q]) = "end"
  <2>1. Conclude(c, leg, TransportResult(q))
    BY <1>9 DEF TakeUpdate, q
  <2>2. TransportResult(q) \in {"outcomeUnknown", "notSent"} /\ (TransportResult(q) = "notSent" => q \notin sent)
    BY DEF TransportResult
  <2> QED BY <1>2, <1>3, <2>1, <2>2, ConcludeInv DEF Result, q
<1>10. CASE Head(inbox[q]) \in {"succeeded", "failed"}
  <2>1. Conclude(c, leg, Head(inbox[q]))
    BY <1>10 DEF TakeUpdate, q
  <2> QED BY <1>2, <1>3, <1>6, <1>10, <2>1, ConcludeInv DEF Result, q
<1> QED BY <1>5, <1>7, <1>8, <1>9, <1>10 DEF Update

LEMMA StreamEndsInv ==
  ASSUME IInv, NEW c \in Call, NEW leg \in Leg, StreamFails(c, leg) \/ TimesOut(c, leg)
  PROVE  IInv'
<1>1. /\ pc[c] = leg /\ Conclude(c, leg, TransportResult(<<c, leg>>))
      /\ UNCHANGED <<sent, inbox, wire, broker>>
  BY DEF StreamFails, TimesOut
<1>2. /\ TransportResult(<<c, leg>>) \in {"outcomeUnknown", "notSent"}
      /\ TransportResult(<<c, leg>>) = "notSent" => <<c, leg>> \notin sent
  BY DEF TransportResult
<1>3. inbox' \in [Request -> Seq(Update)] /\ UpdatesTrue'
  BY <1>1 DEF IInv, TypeOK, UpdatesTrue
<1> QED BY <1>1, <1>2, <1>3, ConcludeInv DEF Result

LEMMA StartInv ==
  ASSUME IInv, NEW c \in Call, NEW leg \in Leg, Starts(c, leg), <<c, leg>> \in Request,
         c \in Replace => leg = "cancel",
         c \in Submit \cup Replace => MayCreate(c)
  PROVE  IInv'
<1>1. PICK q \in Request : q = <<c, leg>>
  OBVIOUS
<1>2. /\ pc[c] = "idle" /\ pc' = [pc EXCEPT ![c] = leg] /\ stage' = [stage EXCEPT ![q] = "queued"]
      /\ UNCHANGED <<outcome, sent, inbox, wire, broker>>
  BY <1>1 DEF Starts
<1>3. /\ \A d \in Call : pc'[d] = IF d = c THEN leg ELSE pc[d]
      /\ \A r \in Request : stage'[r] = IF r = q THEN "queued" ELSE stage[r]
  BY <1>2 DEF IInv, TypeOK
<1>4. stage[q] = "unused" /\ q[1] = c /\ q[2] = leg
  BY <1>1, <1>2 DEF IInv, CallsInOrder
<1>5. TypeOK'
  <2>1. /\ pc' \in [Call -> {"idle", "cancel", "create", "ended"}]
        /\ stage' \in [Request -> Delivery!Stage]
    BY <1>2 DEF IInv, TypeOK, Leg, Delivery!Stage
  <2>2. \A d \in Call : pc'[d] = "ended" <=> outcome'[d] # "none"
    BY <1>2, <1>3 DEF IInv, TypeOK, Leg
  <2> QED BY <1>2, <2>1, <2>2 DEF IInv, TypeOK
<1>6. StageTellsSent' /\ BrokerHearsOnce' /\ UpdatesTrue' /\ ReplacesCancelledOnly' /\ OutcomesHold'
  BY <1>2, <1>3, <1>4 DEF IInv, StageTellsSent, BrokerHearsOnce, UpdatesTrue, ReplacesCancelledOnly, OutcomesHold
<1>7. CallsInOrder'
  <2>1. ASSUME NEW d \in Call
        PROVE  (/\ pc[d] = "cancel" => d \in Cancel \cup Replace
                /\ pc[d] = "create" => d \in Submit \cup Replace
                /\ pc[d] = "create" /\ d \in Replace => broker[<<d, "cancel">>] = "succeeded")'
    <3>1. CASE d = c
      BY <1>3, <3>1, RequestPairs
    <3>2. CASE d # c
      BY <1>2, <1>3, <3>2 DEF IInv, CallsInOrder
    <3> QED BY <3>1, <3>2
  <2>2. ASSUME NEW r \in Request
        PROVE  (/\ pc[r[1]] = "idle" => stage[r] = "unused"
                /\ pc[r[1]] = "cancel" /\ r[2] = "create" => stage[r] = "unused"
                /\ stage[r] \in {"queued", "handed"} => pc[r[1]] = r[2])'
    <3>1. r[1] \in Call /\ r[2] \in Leg /\ r = <<r[1], r[2]>>
      BY RequestPairs
    <3>2. CASE r = q
      BY <1>3, <1>4, <3>2 DEF Leg
    <3>3. CASE r # q /\ r[1] = c
      <4>1. stage'[r] = "unused"
        BY <1>2, <1>3, <3>3 DEF IInv, CallsInOrder
      <4> QED BY <1>3, <3>1, <3>3, <4>1 DEF Leg
    <3>4. CASE r[1] # c
      BY <1>3, <1>4, <3>1, <3>4 DEF IInv, CallsInOrder
    <3> QED BY <3>2, <3>3, <3>4
  <2> QED BY <2>1, <2>2 DEF CallsInOrder
<1>8. OneUnspent'
  <2>1. \A d \in Call : d # c /\ Spent(d) => Spent(d)'
    BY <1>2, <1>3 DEF Spent
  <2>2. \A d \in Submit \cup Replace :
          d # c /\ c \in Submit \cup Replace /\ IntentOf[d] = IntentOf[c] => Spent(d)
    BY DEF MayCreate, Spent
  <2> QED BY <2>1, <2>2 DEF IInv, OneUnspent, Call
<1> QED BY <1>5, <1>6, <1>7, <1>8 DEF IInv

LEMMA PrepareFailsInv ==
  ASSUME IInv, NEW c \in Call, PrepareFails(c)
  PROVE  IInv'
<1>1. /\ pc[c] = "idle" /\ pc' = [pc EXCEPT ![c] = "ended"] /\ outcome' = [outcome EXCEPT ![c] = "thrown"]
      /\ UNCHANGED <<stage, sent, inbox, wire, broker>>
  BY DEF PrepareFails
<1>2. \A d \in Call : /\ pc'[d] = IF d = c THEN "ended" ELSE pc[d]
                     /\ outcome'[d] = IF d = c THEN "thrown" ELSE outcome[d]
  BY <1>1 DEF IInv, TypeOK
<1>3. TypeOK'
  <2>1. /\ pc' \in [Call -> {"idle", "cancel", "create", "ended"}]
        /\ outcome' \in [Call -> Outcome \cup {"none"}]
    BY <1>1 DEF IInv, TypeOK, Outcome
  <2>2. \A d \in Call : pc'[d] = "ended" <=> outcome'[d] # "none"
    BY <1>2 DEF IInv, TypeOK
  <2> QED BY <1>1, <2>1, <2>2 DEF IInv, TypeOK
<1>4. StageTellsSent' /\ BrokerHearsOnce' /\ UpdatesTrue' /\ ReplacesCancelledOnly'
  BY <1>1 DEF IInv, StageTellsSent, BrokerHearsOnce, UpdatesTrue, ReplacesCancelledOnly
<1>5. OutcomesHold'
  <2>1. outcome'[c] = "thrown" /\ \A d \in Call : d # c => outcome'[d] = outcome[d]
    BY <1>2
  <2> QED BY <1>1, <2>1 DEF IInv, OutcomesHold
<1>6. CallsInOrder'
  <2>1. \A r \in Request : r[1] \in Call
    BY RequestPairs
  <2> QED BY <1>1, <1>2, <2>1 DEF IInv, CallsInOrder
<1>7. OneUnspent'
  <2>1. \A d \in Call : d # c /\ Spent(d) => Spent(d)'
    BY <1>2 DEF Spent
  <2>2. \A d \in Submit \cup Replace :
          d # c /\ c \in Submit \cup Replace /\ IntentOf[d] = IntentOf[c] => Spent(d)
    BY RequestPairs DEF PrepareFails, MayCreate, Spent
  <2> QED BY <2>1, <2>2 DEF IInv, OneUnspent, Call
<1> QED BY <1>3, <1>4, <1>5, <1>6, <1>7 DEF IInv

\* What rests on the broker's decisions survives what keeps them.
LEMMA DecisionsKept ==
  ASSUME CallsInOrder, ReplacesCancelledOnly, OutcomesHold, TypeOK,
         UNCHANGED <<pc, outcome, stage, sent>>,
         \A r \in Request : broker[r] \in {"succeeded", "failed"} => broker'[r] = broker[r]
  PROVE  CallsInOrder' /\ ReplacesCancelledOnly' /\ OutcomesHold'
<1>1. \A c \in Replace : <<c, "cancel">> \in Request /\ <<c, "create">> \in Request /\ c \in Call
  BY RequestPairs DEF Leg, Call
<1>2. CallsInOrder'
  BY <1>1 DEF CallsInOrder
<1>3. ReplacesCancelledOnly'
  BY <1>1 DEF ReplacesCancelledOnly
<1>4. OutcomesHold'
  BY <1>1 DEF OutcomesHold
<1> QED BY <1>2, <1>3, <1>4

LEMMA HandsInv ==
  ASSUME IInv, NEW q \in Request, Hands(q)
  PROVE  IInv'
<1>1. /\ stage[q] = "queued" /\ stage' = [stage EXCEPT ![q] = "handed"]
      /\ sent' = sent \cup {q} /\ wire' = wire \cup {q}
      /\ UNCHANGED <<pc, outcome, inbox, broker>>
  BY DEF Hands
<1>2. /\ q[1] \in Call /\ q[2] \in Leg /\ q = <<q[1], q[2]>> /\ pc[q[1]] = q[2]
      /\ q \notin sent /\ outcome[q[1]] = "none"
  BY <1>1, RequestPairs DEF IInv, CallsInOrder, StageTellsSent, TypeOK, Leg
<1>3. \A r \in Request : stage'[r] = IF r = q THEN "handed" ELSE stage[r]
  BY <1>1 DEF IInv, TypeOK
<1>4. TypeOK'
  BY <1>1 DEF IInv, TypeOK, Delivery!Stage
<1>5. StageTellsSent' /\ BrokerHearsOnce' /\ UpdatesTrue' /\ OneUnspent'
  BY <1>1, <1>2, <1>3 DEF IInv, StageTellsSent, BrokerHearsOnce, UpdatesTrue, OneUnspent, Spent
<1>6. CallsInOrder'
  BY <1>1, <1>2, <1>3 DEF IInv, CallsInOrder
<1>7. OutcomesHold'
  <2>1. \A d \in Call : outcome[d] # "none" => \A leg \in Leg : <<d, leg>> \in sent' => <<d, leg>> \in sent
    BY <1>1, <1>2
  <2> QED BY <1>1, <2>1 DEF IInv, OutcomesHold, Leg
<1>8. ReplacesCancelledOnly'
  BY <1>1, <1>2 DEF IInv, ReplacesCancelledOnly, CallsInOrder
<1> QED BY <1>4, <1>5, <1>6, <1>7, <1>8 DEF IInv

\* The transport ends a mutation, without or with an update.
LEMMA EndsInv ==
  ASSUME IInv, NEW q \in Request, Refuses(q) \/ Loses(q) \/ PeerEnds(q)
  PROVE  IInv'
<1>1. UNCHANGED <<pc, outcome, sent, wire, broker>>
  BY DEF Refuses, Loses, PeerEnds
<1>2. PICK x \in {"refused", "unknown", "over"} :
        /\ stage' = [stage EXCEPT ![q] = x]
        /\ x = "refused" => stage[q] = "queued"
        /\ x # "refused" => stage[q] = "handed"
  BY DEF Refuses, Loses, PeerEnds, CanPush
<1>3. inbox' \in [Request -> Seq(Update)] /\ UpdatesTrue'
  <2>1. CASE Refuses(q) \/ Loses(q)
    BY <1>1, <2>1 DEF IInv, TypeOK, UpdatesTrue, Refuses, Loses
  <2>2. CASE PeerEnds(q)
    <3>1. PICK u \in {"invalid", "end"} : Push(q, u)
      BY <2>2 DEF PeerEnds
    <3>2. u \in Update /\ u \notin {"succeeded", "failed"}
      BY DEF Update
    <3> QED BY <1>1, <3>1, <3>2, PushedInbox DEF IInv
  <2> QED BY <2>1, <2>2
<1>4. \A r \in Request : stage'[r] = IF r = q THEN x ELSE stage[r]
  BY <1>2 DEF IInv, TypeOK
<1>5. TypeOK'
  BY <1>1, <1>2, <1>3 DEF IInv, TypeOK, Delivery!Stage
<1>6. StageTellsSent' /\ CallsInOrder'
  <2>1. stage[q] # "unused" /\ x \notin {"unused", "queued", "handed"}
    BY <1>2
  <2>2. StageTellsSent'
    BY <1>1, <1>2, <1>4 DEF IInv, StageTellsSent
  <2>3. CallsInOrder'
    BY <1>1, <1>4, <2>1 DEF IInv, CallsInOrder
  <2> QED BY <2>2, <2>3
<1>7. BrokerHearsOnce' /\ OutcomesHold' /\ ReplacesCancelledOnly' /\ OneUnspent'
  BY <1>1 DEF IInv, BrokerHearsOnce, OutcomesHold, ReplacesCancelledOnly, OneUnspent, Spent
<1> QED BY <1>3, <1>5, <1>6, <1>7 DEF IInv

LEMMA BrokerReceivesInv ==
  ASSUME IInv, NEW q \in Request, BrokerReceives(q)
  PROVE  IInv'
<1>1. /\ q \in wire /\ wire' = wire \ {q} /\ broker' = [broker EXCEPT ![q] = "deciding"]
      /\ UNCHANGED <<pc, outcome, stage, sent, inbox>>
  BY DEF BrokerReceives
<1>2. broker[q] = "ignorant" /\ q \in sent
  BY <1>1 DEF IInv, BrokerHearsOnce, TypeOK
<1>3. \A r \in Request : broker'[r] = IF r = q THEN "deciding" ELSE broker[r]
  BY <1>1 DEF IInv, TypeOK
<1>4. TypeOK'
  BY <1>1 DEF IInv, TypeOK
<1>5. StageTellsSent' /\ BrokerHearsOnce' /\ UpdatesTrue' /\ OneUnspent'
  BY <1>1, <1>2, <1>3 DEF IInv, StageTellsSent, BrokerHearsOnce, UpdatesTrue, OneUnspent, Spent
<1>6. \A r \in Request : broker[r] \in {"succeeded", "failed"} => broker'[r] = broker[r]
  BY <1>2, <1>3
<1>7. CallsInOrder' /\ ReplacesCancelledOnly' /\ OutcomesHold'
  BY <1>1, <1>6, DecisionsKept DEF IInv
<1> QED BY <1>4, <1>5, <1>7 DEF IInv

LEMMA BrokerReportsInv ==
  ASSUME IInv, NEW q \in Request, BrokerReports(q)
  PROVE  IInv'
<1>1. UNCHANGED <<pc, outcome, stage, sent, wire, broker>>
  BY DEF BrokerReports
<1>2. PICK u \in {"progress", "invalid"} : Push(q, u)
  BY DEF BrokerReports
<1>3. u \in Update /\ u \notin {"succeeded", "failed"}
  BY DEF Update
<1>4. inbox' \in [Request -> Seq(Update)] /\ UpdatesTrue'
  BY <1>1, <1>2, <1>3, PushedInbox DEF IInv
<1> QED BY <1>1, <1>4 DEF IInv, TypeOK, StageTellsSent, BrokerHearsOnce, CallsInOrder, OutcomesHold,
       ReplacesCancelledOnly, OneUnspent, Spent

LEMMA BrokerDecidesInv ==
  ASSUME IInv, NEW q \in Request, BrokerDecides(q)
  PROVE  IInv'
<1>1. PICK decision \in {"succeeded", "failed"} :
        /\ broker' = [broker EXCEPT ![q] = decision]
        /\ \/ CanPush(q) /\ Push(q, decision)
           \/ stage[q] # "handed" /\ UNCHANGED inbox
  BY DEF BrokerDecides
<1>2. broker[q] = "deciding" /\ UNCHANGED <<pc, outcome, stage, sent, wire>>
  BY DEF BrokerDecides
<1>3. \A r \in Request : broker'[r] = IF r = q THEN decision ELSE broker[r]
  BY <1>1 DEF IInv, TypeOK
<1>4. \A r \in Request : broker[r] \in {"succeeded", "failed"} => broker'[r] = broker[r]
  BY <1>2, <1>3
<1>5. inbox' \in [Request -> Seq(Update)] /\ UpdatesTrue'
  <2>1. CASE Push(q, decision)
    BY <1>1, <1>3, <1>4, <2>1, PushedInbox DEF IInv, Update
  <2>2. CASE UNCHANGED inbox
    BY <1>4, <2>2 DEF IInv, TypeOK, UpdatesTrue
  <2> QED BY <1>1, <2>1, <2>2
<1>6. TypeOK'
  BY <1>1, <1>2, <1>5 DEF IInv, TypeOK
<1>7. StageTellsSent' /\ BrokerHearsOnce' /\ OneUnspent'
  BY <1>2, <1>3 DEF IInv, StageTellsSent, BrokerHearsOnce, OneUnspent, Spent
<1>8. CallsInOrder' /\ ReplacesCancelledOnly' /\ OutcomesHold'
  BY <1>2, <1>4, DecisionsKept DEF IInv
<1> QED BY <1>5, <1>6, <1>7, <1>8 DEF IInv

LEMMA NextInv == IInv /\ [Next]_vars => IInv'
<1> SUFFICES ASSUME IInv, [Next]_vars PROVE IInv'
  OBVIOUS
<1>1. ASSUME NEW c \in Call, StartSubmit(c) PROVE IInv'
  BY <1>1, StartInv, RequestPairs DEF StartSubmit, Leg
<1>2. ASSUME NEW c \in Call, StartCancel(c) PROVE IInv'
  <2>1. c \in Cancel /\ Starts(c, "cancel") /\ c \notin Submit \cup Replace
    BY <1>2, RequestPairs DEF StartCancel
  <2> QED BY <2>1, StartInv, RequestPairs DEF Leg
<1>3. ASSUME NEW c \in Call, StartReplace(c) PROVE IInv'
  BY <1>3, StartInv, RequestPairs DEF StartReplace, Leg
<1>4. ASSUME NEW c \in Call, PrepareFails(c) PROVE IInv'
  BY <1>4, PrepareFailsInv
<1>5. ASSUME NEW c \in Call, NEW leg \in Leg, TakeUpdate(c, leg) PROVE IInv'
  BY <1>5, TakeUpdateInv
<1>6. ASSUME NEW c \in Call, NEW leg \in Leg, StreamFails(c, leg) \/ TimesOut(c, leg) PROVE IInv'
  BY <1>6, StreamEndsInv
<1>7. ASSUME NEW q \in Request, Hands(q) PROVE IInv'
  BY <1>7, HandsInv
<1>8. ASSUME NEW q \in Request, Refuses(q) \/ Loses(q) \/ PeerEnds(q) PROVE IInv'
  BY <1>8, EndsInv
<1>9. ASSUME NEW q \in Request, BrokerReceives(q) PROVE IInv'
  BY <1>9, BrokerReceivesInv
<1>10. ASSUME NEW q \in Request, BrokerReports(q) PROVE IInv'
  BY <1>10, BrokerReportsInv
<1>11. ASSUME NEW q \in Request, BrokerDecides(q) PROVE IInv'
  BY <1>11, BrokerDecidesInv
<1>12. CASE UNCHANGED vars
  BY <1>12 DEF vars, IInv, TypeOK, StageTellsSent, BrokerHearsOnce, UpdatesTrue, CallsInOrder,
       OutcomesHold, ReplacesCancelledOnly, OneUnspent, Spent
<1> QED
  BY <1>1, <1>2, <1>3, <1>4, <1>5, <1>6, <1>7, <1>8, <1>9, <1>10, <1>11, <1>12 DEF Next, Leg

LEMMA Inductive == Spec => []IInv
BY InitInv, NextInv, PTL DEF Spec

-----------------------------------------------------------------------------
(***************************************************************************)
(* The theorems.                                                           *)
(***************************************************************************)

\* The state keeps its types, and exactly the calls that ended have an outcome
\* (submit(), cancel() and replace() return or throw once).
THEOREM OrdersTypeCorrect == Spec => []TypeOK
<1>1. IInv => TypeOK
  BY DEF IInv
<1> QED BY <1>1, Inductive, PTL

\* What submit(), cancel() and replace() report is what the broker did and
\* stays so, for any number of calls and whatever the connection does.
THEOREM OutcomeTruthfulAlways == Spec => []OutcomeTruthful
<1>1. IInv => OutcomeTruthful
  <2> SUFFICES ASSUME IInv PROVE OutcomeTruthful
    OBVIOUS
  <2>1. \A r \in Request : r \notin sent => r \notin wire /\ broker[r] = "ignorant"
    BY DEF IInv, TypeOK, BrokerHearsOnce
  <2>2. ASSUME NEW c \in Submit
        PROVE  /\ outcome[c] \in {"succeeded", "failed"} => broker[<<c, "create">>] = outcome[c]
               /\ outcome[c] = "notSent" => ~Reaches(c, "create")
    <3>1. c \in Call /\ c \notin Replace /\ <<c, "create">> \in Request
      BY RequestPairs DEF Call, Leg
    <3> QED BY <2>1, <3>1 DEF IInv, OutcomesHold, Reaches, Leg
  <2>3. ASSUME NEW c \in Cancel
        PROVE  /\ outcome[c] \in {"succeeded", "failed"} => broker[<<c, "cancel">>] = outcome[c]
               /\ outcome[c] = "notSent" => ~Reaches(c, "cancel")
    <3>1. c \in Call /\ c \notin Replace /\ <<c, "cancel">> \in Request
      BY RequestPairs DEF Call, Leg
    <3> QED BY <2>1, <3>1 DEF IInv, OutcomesHold, Reaches, Leg
  <2>4. ASSUME NEW c \in Replace
        PROVE  /\ outcome[c] \in {"succeeded", "failed"} => broker[<<c, "create">>] = outcome[c]
               /\ outcome[c] = "cancelFailed" => broker[<<c, "cancel">>] = "failed"
               /\ outcome[c] = "notSent" => ~Reaches(c, "cancel")
               /\ outcome[c] \in {"notSent", "cancelFailed", "cancelOutcomeUnknown", "replacementNotSent"}
                    => ~Reaches(c, "create")
    <3>1. c \in Call /\ <<c, "cancel">> \in Request /\ <<c, "create">> \in Request
      BY RequestPairs DEF Call, Leg
    <3> QED BY <2>1, <3>1 DEF IInv, OutcomesHold, Reaches
  <2>5. \A c \in Submit : c \notin Cancel
    BY RequestPairs DEF Call
  <2> QED BY <2>2, <2>3, <2>4, <2>5 DEF OutcomeTruthful
<1> QED BY <1>1, Inductive, PTL

\* replace() sends the new order only after the broker cancelled the old one.
THEOREM ReplacesCancelledOnlyAlways == Spec => []ReplacesCancelledOnly
<1>1. IInv => ReplacesCancelledOnly
  BY DEF IInv
<1> QED BY <1>1, Inductive, PTL

\* An application that repeats an order only after a result that allows it
\* never has it created twice, however many calls it makes.
THEOREM AtMostOneOrderAlways == Spec => []AtMostOneOrder
<1>1. IInv => AtMostOneOrder
  <2> SUFFICES ASSUME IInv PROVE AtMostOneOrder
    OBVIOUS
  <2>1. ASSUME NEW c \in Submit \cup Replace, Spent(c)
        PROVE  broker[<<c, "create">>] # "succeeded"
    <3>1. c \in Call /\ <<c, "create">> \in Request
      BY RequestPairs DEF Call, Leg
    <3>2. PICK q \in Request : q = <<c, "create">> /\ q[1] = c
      BY <3>1
    <3>3. CASE pc[c] = "idle"
      <4>1. stage[q] = "unused"
        BY <3>2, <3>3 DEF IInv, CallsInOrder
      <4>2. broker[q] = "ignorant"
        BY <4>1 DEF IInv, StageTellsSent, BrokerHearsOnce
      <4> QED BY <3>2, <4>2
    <3>4. CASE outcome[c] = "failed"
      BY <3>1, <3>4 DEF IInv, OutcomesHold, Leg
    <3>5. CASE outcome[c] \in {"notSent", "cancelFailed", "cancelOutcomeUnknown", "replacementNotSent"}
      <4>1. <<c, "create">> \notin sent
        BY <3>1, <3>5 DEF IInv, OutcomesHold, Leg
      <4> QED BY <3>1, <4>1 DEF IInv, BrokerHearsOnce
    <3> QED BY <2>1, <3>3, <3>4, <3>5 DEF Spent, Repeatable
  <2> QED BY <2>1 DEF IInv, OneUnspent, AtMostOneOrder
<1> QED BY <1>1, Inductive, PTL

\* The finally blocks leave no mutation in the connection's queue or awaited.
THEOREM EndedCallsSendNothingAlways == Spec => []EndedCallsSendNothing
<1>1. IInv => EndedCallsSendNothing
  BY RequestPairs DEF IInv, CallsInOrder, EndedCallsSendNothing, Leg
<1> QED BY <1>1, Inductive, PTL

-----------------------------------------------------------------------------
\* The stages of a mutation change only as the transport's promise allows: the
\* workflow asks nothing of MapperConnection that MutationDelivery does not say.
THEOREM OrdersKeepDelivery == Spec => DeliveryKept
<1>1. Init => Delivery!Init
  BY DEF Init, Delivery!Init
<1>2. IInv /\ [Next]_vars => [Delivery!Next]_stage
  <2> SUFFICES ASSUME IInv, [Next]_vars, stage' # stage PROVE Delivery!Next
    OBVIOUS
  <2>1. stage' \in [Request -> Delivery!Stage]
    BY NextInv DEF IInv, TypeOK
  <2>2. \A x \in Delivery!Stage : x \in Delivery!Successors(x)
    BY DEF Delivery!Stage, Delivery!Successors
  <2>3. ASSUME NEW c \in Call, NEW leg \in Leg, Starts(c, leg), <<c, leg>> \in Request
        PROVE  \A r \in Request : stage'[r] \in Delivery!Successors(stage[r])
    <3>1. PICK q \in Request : q = <<c, leg>> /\ q[1] = c
      BY <2>3
    <3>2. pc[c] = "idle" /\ stage' = [stage EXCEPT ![q] = "queued"]
      BY <2>3, <3>1 DEF Starts
    <3>3. stage[q] = "unused"
      BY <3>1, <3>2 DEF IInv, CallsInOrder
    <3>4. "queued" \in Delivery!Successors("unused")
      BY DEF Delivery!Stage, Delivery!Successors
    <3> QED BY <2>2, <3>2, <3>3, <3>4 DEF IInv, TypeOK
  <2>4. ASSUME NEW c \in Call, NEW leg \in Leg, NEW result \in Result, pc[c] = leg, Conclude(c, leg, result)
        PROVE  \A r \in Request : stage'[r] \in Delivery!Successors(stage[r])
    <3>1. TypeOK /\ CallsInOrder
      BY DEF IInv
    <3> QED BY <2>4, <3>1, ConcludeSteps, Zenon
  <2>5. ASSUME NEW q \in Request, NEW x,
               \/ stage[q] = "queued" /\ x \in {"handed", "refused"}
               \/ stage[q] = "handed" /\ x \in {"unknown", "over"},
               stage' = [stage EXCEPT ![q] = x]
        PROVE  \A r \in Request : stage'[r] \in Delivery!Successors(stage[r])
    <3>1. x \in Delivery!Successors(stage[q])
      BY <2>5 DEF Delivery!Stage, Delivery!Successors
    <3> QED BY <2>2, <2>5, <3>1 DEF IInv, TypeOK
  <2>6. ASSUME NEW c \in Call, StartSubmit(c) \/ StartCancel(c) \/ StartReplace(c)
        PROVE  Delivery!Next
    BY <2>1, <2>3, <2>6, RequestPairs DEF StartSubmit, StartCancel, StartReplace, Delivery!Next, Leg
  <2>7. ASSUME NEW c \in Call, NEW leg \in Leg, TakeUpdate(c, leg)
        PROVE  Delivery!Next
    <3> DEFINE q == <<c, leg>>
               u == Head(inbox[q])
    <3>1. pc[c] = leg /\ inbox[q] # <<>>
      BY <2>7 DEF TakeUpdate
    <3>2. q \in Request
      <4>1. CASE leg = "cancel"
        BY <3>1, <4>1, RequestPairs DEF IInv, CallsInOrder
      <4>2. CASE leg = "create"
        BY <3>1, <4>2, RequestPairs DEF IInv, CallsInOrder
      <4> QED BY <4>1, <4>2 DEF Leg
    <3>3. u \in Update
      BY <3>1, <3>2, HeadTailProperties DEF IInv, TypeOK
    <3>4. CASE u = "progress"
      BY <2>7, <3>4 DEF TakeUpdate
    <3>5. CASE u # "progress"
      <4>1. PICK result \in Result : Conclude(c, leg, result)
        BY <2>7, <3>3, <3>5 DEF TakeUpdate, Update, Result, TransportResult
      <4> QED BY <2>1, <2>4, <3>1, <4>1 DEF Delivery!Next
    <3> QED BY <3>4, <3>5
  <2>8. ASSUME NEW c \in Call, NEW leg \in Leg, StreamFails(c, leg) \/ TimesOut(c, leg)
        PROVE  Delivery!Next
    <3>1. pc[c] = leg /\ Conclude(c, leg, TransportResult(<<c, leg>>)) /\ TransportResult(<<c, leg>>) \in Result
      BY <2>8 DEF StreamFails, TimesOut, TransportResult, Result
    <3> QED BY <2>1, <2>4, <3>1 DEF Delivery!Next
  <2>9. ASSUME NEW q \in Request, Hands(q) \/ Refuses(q) \/ Loses(q) \/ PeerEnds(q)
        PROVE  Delivery!Next
    BY <2>1, <2>5, <2>9 DEF Hands, Refuses, Loses, PeerEnds, CanPush, Delivery!Next
  <2>10. ASSUME NEW c \in Call, PrepareFails(c) PROVE Delivery!Next
    BY <2>10 DEF PrepareFails
  <2>11. ASSUME NEW q \in Request, BrokerReceives(q) \/ BrokerReports(q) \/ BrokerDecides(q)
         PROVE  Delivery!Next
    BY <2>11 DEF BrokerReceives, BrokerReports, BrokerDecides
  <2>12. CASE UNCHANGED vars
    BY <2>12 DEF vars
  <2> QED BY <2>6, <2>7, <2>8, <2>9, <2>10, <2>11, <2>12 DEF Next, Leg
<1> QED BY <1>1, <1>2, Inductive, PTL DEF Spec, DeliveryKept, Delivery!Spec
-----------------------------------------------------------------------------
\* How many results a call can still wait for.
ResultsAhead == [idle |-> 3, cancel |-> 2, create |-> 1, ended |-> 0]

\* No call of submit(), cancel() or replace() goes back to a mutation it has the
\* result of, and the deadline of each brings its end nearer: two of them at
\* most, however the transport and the broker behave.
THEOREM CallsGoForward ==
  Spec => [][\A c \in Call :
               /\ ResultsAhead[pc'[c]] <= ResultsAhead[pc[c]]
               /\ \A leg \in {"cancel", "create"} :
                    TimesOut(c, leg) => ResultsAhead[pc'[c]] < ResultsAhead[pc[c]]]_vars
<1> DEFINE Nearer(c) == ResultsAhead[pc'[c]] < ResultsAhead[pc[c]]
           Forward(c) == /\ ResultsAhead[pc'[c]] <= ResultsAhead[pc[c]]
                         /\ \A leg \in {"cancel", "create"} : TimesOut(c, leg) => Nearer(c)
<1>1. ASSUME IInv, NEW c \in Call, NEW leg \in {"cancel", "create"}, NEW result,
             pc[c] = leg, Conclude(c, leg, result)
      PROVE  Nearer(c) /\ \A d \in Call \ {c} : pc'[d] = pc[d]
  <2>1. pc \in [Call -> {"idle", "cancel", "create", "ended"}]
    BY <1>1 DEF IInv, TypeOK
  <2>2. CASE GoesOn(c, leg, result)
    BY <1>1, <2>1, <2>2 DEF Conclude, GoesOn, ResultsAhead
  <2>3. CASE ~GoesOn(c, leg, result)
    BY <1>1, <2>1, <2>3 DEF Conclude, ResultsAhead
  <2> QED BY <2>2, <2>3
<1>2. IInv /\ [Next]_vars => [\A c \in Call : Forward(c)]_vars
  <2> SUFFICES ASSUME IInv, Next, NEW c \in Call PROVE Forward(c)
    BY DEF vars
  <2>1. pc \in [Call -> {"idle", "cancel", "create", "ended"}]
    BY DEF IInv, TypeOK
  <2>2. ASSUME NEW leg \in {"cancel", "create"}, TimesOut(c, leg) PROVE Nearer(c)
    BY <1>1, <2>2 DEF TimesOut
  <2>3. pc'[c] = pc[c] => ResultsAhead[pc'[c]] <= ResultsAhead[pc[c]]
    BY <2>1 DEF ResultsAhead
  <2>4. Nearer(c) => ResultsAhead[pc'[c]] <= ResultsAhead[pc[c]]
    <3>1. CASE pc'[c] \in {"idle", "cancel", "create", "ended"}
      BY <2>1, <3>1 DEF ResultsAhead
    <3>2. pc'[c] \in {"idle", "cancel", "create", "ended"}
      BY NextInv DEF IInv, TypeOK
    <3> QED BY <3>1, <3>2
  <2>5. pc'[c] = pc[c] \/ Nearer(c)
    <3>1. ASSUME NEW d \in Call, NEW leg \in {"cancel", "create"}, NEW result,
                 pc[d] = leg, Conclude(d, leg, result)
          PROVE  pc'[c] = pc[c] \/ Nearer(c)
      BY <1>1, <3>1
    <3>2. ASSUME NEW d \in Call, StartSubmit(d) \/ StartCancel(d) \/ StartReplace(d) \/ PrepareFails(d)
          PROVE  pc'[c] = pc[c] \/ Nearer(c)
      <4>1. PICK at \in {"cancel", "create", "ended"} : pc[d] = "idle" /\ pc' = [pc EXCEPT ![d] = at]
        BY <3>2 DEF StartSubmit, StartCancel, StartReplace, Starts, PrepareFails
      <4> QED BY <2>1, <4>1 DEF ResultsAhead
    <3>3. ASSUME NEW d \in Call, NEW leg \in {"cancel", "create"},
                 TakeUpdate(d, leg) \/ StreamFails(d, leg) \/ TimesOut(d, leg)
          PROVE  pc'[c] = pc[c] \/ Nearer(c)
      <4>1. pc[d] = leg /\ (UNCHANGED pc \/ \E result : Conclude(d, leg, result))
        BY <3>3 DEF TakeUpdate, StreamFails, TimesOut
      <4> QED BY <3>1, <4>1
    <3>4. CASE UNCHANGED pc
      BY <3>4
    <3> QED BY <3>2, <3>3, <3>4 DEF Next, Hands, Refuses, Loses, PeerEnds, BrokerReceives, BrokerReports, BrokerDecides
  <2> QED BY <2>2, <2>3, <2>4, <2>5
<1> QED BY <1>2, Inductive, PTL DEF Spec
=============================================================================
