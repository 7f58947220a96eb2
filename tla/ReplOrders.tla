----------------------------- MODULE ReplOrders -----------------------------
(***************************************************************************)
(* The order helpers of the REPL (demo/repl.mjs): buy() and sell() preview *)
(* an order, cancelOrder() a cancellation, and what was previewed is sent  *)
(* only by the helper that is given the code of the preview.  Lines are    *)
(* evaluated one after the other, but the helpers a statement starts run   *)
(* on while the next lines are evaluated, and a line whose helper fails    *)
(* with a SyntaxError is evaluated again.                                  *)
(***************************************************************************)
EXTENDS Naturals

CONSTANTS
  Calls,     \* helper calls that may be under way at the same time
  Orders,    \* what buy() and sell() are asked for
  MaxCodes,  \* bound on the confirmation codes that are made
  MaxSends   \* bound on the times one code is sent, for the history

ASSUME ReplOrdersAssumption ==
  /\ MaxCodes \in Nat /\ MaxSends \in Nat
  /\ \A order \in Orders : order.venue \in BOOLEAN /\ order.price \in BOOLEAN

VARIABLES
  calls,         \* the helper calls under way
  evaluating,    \* the call the line under evaluation awaits, if there is one
  codes,         \* codes made so far; the random code is its number
  orderPending,  \* pendingOrderConfirmation
  cancelPending, \* pendingCancelConfirmation
  offer,         \* history: the code shown last, while it may be confirmed
  agreed,        \* history: codes the user entered while they were the offer
  sent           \* history: how often what has a code was sent

replOrdersVars == <<calls, evaluating, codes, orderPending, cancelPending, offer, agreed, sent>>
history == <<offer, agreed, sent>>
confirmations == <<codes, orderPending, cancelPending>>

Codes == 1..MaxCodes
NoPending == [code |-> 0, expired |-> FALSE]
NoCall == [pc |-> "none", helper |-> "none", order |-> "none", code |-> 0, again |-> FALSE]
Stage(order) == [NoCall EXCEPT !.pc = "session", !.helper = "stage", !.order = order]

(***************************************************************************)
(* Lines.  A line is evaluated when no line before it is; if the helper is *)
(* its expression it awaits the helper, and if it is a statement it does   *)
(* not (evaluateCommand).                                                  *)
(***************************************************************************)
Starts(c, call, awaiting) ==
  /\ calls' = [calls EXCEPT ![c] = call]
  /\ evaluating' = awaiting
Goes(c, pc) == Starts(c, [calls[c] EXCEPT !.pc = pc], evaluating)
Ends(c) == Starts(c, NoCall, evaluating \ {c})

LineMay(c) == evaluating = {} /\ calls[c].pc = "none"

LineStages(c, order) ==
  /\ LineMay(c) /\ \E awaiting \in {{c}, {}} : Starts(c, Stage(order), awaiting)
  /\ UNCHANGED <<confirmations, history>>

\* An awaited expression that throws a SyntaxError is run a second time, as a
\* script, whose promise is awaited outside the try.
RunsAgain(c) == c \in evaluating /\ ~calls[c].again

\* The user leaves, which waits for the line under evaluation, or a promise
\* of a statement is rejected and nothing in a later line handles it.  The
\* next process starts with nothing pending.
ProcessEnds ==
  /\ evaluating = {} \/ \E c \in Calls \ evaluating : calls[c].pc # "none"
  /\ calls' = [c \in Calls |-> NoCall] /\ evaluating' = {}
  /\ orderPending' = NoPending /\ cancelPending' = NoPending /\ offer' = 0
  /\ UNCHANGED <<codes, agreed, sent>>

(***************************************************************************)
(* stageOrder.                                                             *)
(***************************************************************************)
\* What is awaited after pc; the venue and the price are looked up only if
\* the options lack them.
NextStep(pc, order) ==
  CASE pc = "session" /\ ~order.venue -> "destinations"
    [] pc \in {"session", "destinations"} /\ ~order.price -> "quote"
    [] OTHER -> "preview"

StageAdvances(c) ==
  /\ calls[c].helper = "stage" /\ calls[c].pc \in {"session", "destinations", "quote"}
  /\ Goes(c, NextStep(calls[c].pc, calls[c].order))
  /\ UNCHANGED <<confirmations, history>>

\* A restore, a lookup or the preview fails, or there is no destination for
\* the order or no price.
StageThrows(c) ==
  /\ calls[c].helper = "stage"
  /\ \/ Ends(c)
     \/ RunsAgain(c) /\ Starts(c, [Stage(calls[c].order) EXCEPT !.again = TRUE], evaluating)
  /\ UNCHANGED <<confirmations, history>>

Staged(c) ==
  /\ calls[c].helper = "stage" /\ calls[c].pc = "preview" /\ codes < MaxCodes
  /\ codes' = codes + 1
  /\ orderPending' = [code |-> codes', expired |-> FALSE]
  /\ cancelPending' = NoPending
  /\ offer' = codes' /\ Ends(c)
  /\ UNCHANGED <<agreed, sent>>

(***************************************************************************)
(* cancelOrder, discardOrder and pendingOrder await nothing.               *)
(***************************************************************************)
CancelOrder ==
  /\ evaluating = {} /\ codes < MaxCodes
  /\ codes' = codes + 1
  /\ cancelPending' = [code |-> codes', expired |-> FALSE]
  /\ orderPending' = NoPending
  /\ offer' = codes'
  /\ UNCHANGED <<calls, evaluating, agreed, sent>>

DropsOrder ==
  /\ orderPending' = NoPending
  /\ offer' = IF offer = orderPending.code THEN 0 ELSE offer
  /\ UNCHANGED <<calls, evaluating, codes, cancelPending, agreed, sent>>

DiscardOrder == evaluating = {} /\ orderPending # NoPending /\ DropsOrder
PendingOrder == evaluating = {} /\ orderPending.expired /\ DropsOrder

\* confirmationLifetimeMs passes.
CodeExpires ==
  /\ \/ orderPending # NoPending /\ orderPending' = [orderPending EXCEPT !.expired = TRUE]
        /\ offer' = (IF offer = orderPending.code THEN 0 ELSE offer)
        /\ UNCHANGED cancelPending
     \/ cancelPending # NoPending /\ cancelPending' = [cancelPending EXCEPT !.expired = TRUE]
        /\ offer' = (IF offer = cancelPending.code THEN 0 ELSE offer)
        /\ UNCHANGED orderPending
  /\ UNCHANGED <<calls, evaluating, codes, agreed, sent>>

(***************************************************************************)
(* confirmOrder and confirmCancel.  consumeConfirmation takes the pending  *)
(* confirmation before anything is awaited; it throws if there is none, if *)
(* it expired, which drops it, or if the code is another one.              *)
(***************************************************************************)
Pending(helper) == IF helper = "confirmOrder" THEN orderPending ELSE cancelPending

MutantTakes(helper) == UNCHANGED <<orderPending, cancelPending>>

Takes(helper) ==
  IF helper = "confirmOrder"
  THEN orderPending' = NoPending /\ UNCHANGED cancelPending
  ELSE cancelPending' = NoPending /\ UNCHANGED orderPending

Confirms(c, call, awaiting) ==
  LET pending == Pending(call.helper)
      accepted == ~pending.expired /\ pending.code = call.code
  IN  /\ IF accepted \/ pending.expired THEN Takes(call.helper)
         ELSE UNCHANGED <<orderPending, cancelPending>>
      /\ Starts(c, [call EXCEPT !.pc = IF accepted THEN "sending" ELSE "refused"], awaiting)

\* The user may enter any code that was shown.
LineConfirms(c, helper, code) ==
  /\ LineMay(c)
  /\ \E awaiting \in {{c}, {}} :
       Confirms(c, [NoCall EXCEPT !.helper = helper, !.code = code], awaiting)
  /\ agreed' = IF offer = code THEN agreed \union {code} ELSE agreed
  /\ UNCHANGED <<codes, offer, sent>>

Refused(c) ==
  /\ calls[c].pc = "refused" /\ Ends(c)
  /\ UNCHANGED <<confirmations, history>>

\* orders.submit and orders.cancel, which may throw before they have sent
\* anything and after.
Sends(c) ==
  /\ calls[c].pc = "sending" /\ sent[calls[c].code] < MaxSends
  /\ sent' = [sent EXCEPT ![calls[c].code] = @ + 1]
  /\ Goes(c, "sent")
  /\ UNCHANGED <<confirmations, offer, agreed>>

ConfirmReturns(c) ==
  /\ calls[c].pc = "sent" /\ Ends(c)
  /\ UNCHANGED <<confirmations, history>>

ConfirmThrows(c) ==
  /\ calls[c].pc \in {"sending", "sent"}
  /\ \/ Ends(c) /\ UNCHANGED <<orderPending, cancelPending>>
     \/ RunsAgain(c) /\ Confirms(c, [calls[c] EXCEPT !.again = TRUE], evaluating)
  /\ UNCHANGED <<codes, history>>

(***************************************************************************)
(* The specification.                                                      *)
(***************************************************************************)
ReplOrdersInit ==
  /\ calls = [c \in Calls |-> NoCall] /\ evaluating = {} /\ codes = 0
  /\ orderPending = NoPending /\ cancelPending = NoPending
  /\ offer = 0 /\ agreed = {} /\ sent = [code \in Codes |-> 0]

Helper(c) ==
  \/ \E order \in Orders : LineStages(c, order)
  \/ \E helper \in {"confirmOrder", "confirmCancel"}, code \in 1..codes : LineConfirms(c, helper, code)
  \/ StageAdvances(c) \/ StageThrows(c) \/ Staged(c)
  \/ Refused(c) \/ Sends(c) \/ ConfirmReturns(c) \/ ConfirmThrows(c)

ReplOrdersNext ==
  \/ \E c \in Calls : Helper(c)
  \/ CancelOrder \/ DiscardOrder \/ PendingOrder \/ CodeExpires \/ ProcessEnds

ReplOrdersSpec == ReplOrdersInit /\ [][ReplOrdersNext]_replOrdersVars

(***************************************************************************)
(* Properties.                                                             *)
(***************************************************************************)
\* An order or a cancellation is sent once at most, and only if the user
\* entered its code while it was what the REPL had offered last, whatever
\* runs at the same time and however often a line is evaluated ("Nothing was
\* sent", "Create a fresh preview": consumeConfirmation).
SentAsConfirmed ==
  \A code \in Codes : sent[code] > 0 => code \in agreed /\ sent[code] = 1
=============================================================================
