------------------------------ MODULE TuiOrder ------------------------------
(***************************************************************************)
(* The order dialogs of the terminal UI (openOrderFlow in demo/tui.mjs):   *)
(* side, venue, type, quantity, price, a preview, a confirmation, and the  *)
(* submission.  Meanwhile the portfolio that a sell order is compared with *)
(* is loaded again, fails to load, or is dropped by relogin().             *)
(***************************************************************************)
EXTENDS Naturals

CONSTANTS
  Quantities,  \* quantities that are entered, and that positions hold
  MaxOrders    \* bound on the orders the broker accepts

ASSUME TuiOrderAssumption == Quantities \subseteq Nat \ {0} /\ MaxOrders \in Nat

VARIABLES
  dashboard,   \* state.phase: whether it is "dashboard"
  flow,        \* the dialog or the request that is awaited, and what was chosen
  submitting,  \* state.order.submitting
  portfolio,   \* dashboard.portfolio: the position in the instrument, and portfolioError
  told,        \* what the user was told of the order, last
  accepted,    \* history: orders the broker has accepted
  before       \* history: accepted, when the flow began

tuiOrderVars == <<dashboard, flow, submitting, portfolio, told, accepted, before>>
account == <<accepted, before>>

NoFlow == [pc |-> "closed", side |-> "none", mode |-> "none", size |-> 0]
NoHoldings == [loaded |-> FALSE, failed |-> FALSE, size |-> 0]
Dialogs == {"side", "destination", "mode", "size", "price"}
Lookups == {"destinations", "quote", "preview"}

Awaits(next) == flow' = next /\ UNCHANGED <<dashboard, submitting, portfolio, told, account>>
Opens(pc) == [flow EXCEPT !.pc = pc]

(***************************************************************************)
(* The dialogs, in their order, and what is looked up between them.  The   *)
(* key opens no second flow while one is open.                             *)
(***************************************************************************)
FlowBegins ==
  /\ dashboard /\ flow = NoFlow
  /\ flow' = Opens("side") /\ submitting' = FALSE
  /\ told' = "none" /\ before' = accepted
  /\ UNCHANGED <<dashboard, portfolio, accepted>>

SideChosen(side) ==
  flow.pc = "side" /\ Awaits([flow EXCEPT !.pc = "destinations", !.side = side])

\* The only destination is not asked for.
DestinationsArrive ==
  flow.pc = "destinations" /\ \E pc \in {"destination", "mode"} : Awaits(Opens(pc))

DestinationChosen == flow.pc = "destination" /\ Awaits(Opens("mode"))

ModeChosen(mode) ==
  flow.pc = "mode" /\ Awaits([flow EXCEPT !.pc = "size", !.mode = mode])

SizeEntered(size) ==
  /\ flow.pc = "size"
  /\ Awaits([flow EXCEPT !.size = size,
                         !.pc = IF flow.mode = "market" THEN "quote" ELSE "price"])

PriceEntered == flow.pc = "price" /\ Awaits(Opens("preview"))
PriceQuoted == flow.pc = "quote" /\ Awaits(Opens("preview"))

\* Escape, or a prompt without an answer, ends the flow without a word.
Escapes == flow.pc \in Dialogs /\ Awaits(NoFlow)

(***************************************************************************)
(* The catch of openOrderFlow: what it says depends on submitting alone.   *)
(***************************************************************************)
Recovery == IF submitting THEN "check open orders" ELSE "nothing sent"

Stops ==
  /\ flow' = Opens("message") /\ told' = Recovery
  /\ UNCHANGED <<dashboard, submitting, portfolio, account>>

\* A lookup fails or finds no destination, order type or price, or what was
\* entered is no number above zero.
FlowFails == flow.pc \in Lookups \union {"destination", "size", "price"} /\ Stops

(***************************************************************************)
(* validateOrderAgainstDashboard, with the portfolio of the moment.        *)
(***************************************************************************)
Validated ==
  flow.side = "sell" => portfolio.loaded /\ ~portfolio.failed /\ portfolio.size >= flow.size

PreviewArrives ==
  /\ flow.pc = "preview"
  /\ \/ Validated /\ Awaits(Opens("confirm"))
     \/ ~Validated /\ Stops

Declines ==
  /\ flow.pc = "confirm" /\ flow' = NoFlow
  /\ told' = "nothing sent"
  /\ UNCHANGED <<dashboard, submitting, portfolio, account>>

MutantSubmits == UNCHANGED submitting

\* submitting is set before the order is handed to the client.
Submits == submitting' = TRUE

Confirmed ==
  /\ flow.pc = "confirm" /\ flow' = Opens("submitting")
  /\ Submits
  /\ UNCHANGED <<dashboard, portfolio, told, account>>

(***************************************************************************)
(* orders.submit: the broker accepts the order or does not, and the client *)
(* says so, does not know, or throws before or after it was sent.          *)
(***************************************************************************)
BrokerAccepts ==
  /\ flow.pc = "submitting" /\ accepted = before /\ accepted < MaxOrders
  /\ accepted' = accepted + 1
  /\ UNCHANGED <<dashboard, flow, submitting, portfolio, told, before>>

Statuses == {"outcomeUnknown", IF accepted > before THEN "succeeded" ELSE "failed"}

\* The user is told of success, or that the order was not accepted.
SubmitAnswers(status) ==
  /\ flow.pc = "submitting" /\ flow' = Opens("result")
  /\ told' = IF status = "succeeded" THEN "submitted" ELSE "not accepted"
  /\ UNCHANGED <<dashboard, submitting, portfolio, account>>

SubmitThrows == flow.pc = "submitting" /\ Stops

\* The account and the trades are loaded again before the flow is over.
ResultDismissed == flow.pc = "result" /\ Awaits(Opens("reloading"))

\* The finally.
FlowEnds ==
  /\ flow.pc \in {"message", "reloading"} /\ flow' = NoFlow /\ submitting' = FALSE
  /\ UNCHANGED <<dashboard, portfolio, told, account>>

(***************************************************************************)
(* refreshAccount, whose answer is shown even if relogin() has reset the   *)
(* dashboard meanwhile, and relogin() after a request that was answered    *)
(* with 401, which closes no dialog.                                       *)
(***************************************************************************)
PortfolioArrives(size) ==
  /\ portfolio' = [loaded |-> TRUE, failed |-> FALSE, size |-> size]
  /\ UNCHANGED <<dashboard, flow, submitting, told, account>>

PortfolioFails ==
  /\ portfolio' = [portfolio EXCEPT !.failed = TRUE]
  /\ UNCHANGED <<dashboard, flow, submitting, told, account>>

DashboardReset ==
  /\ dashboard /\ dashboard' = FALSE /\ portfolio' = NoHoldings
  /\ UNCHANGED <<flow, submitting, told, account>>

DashboardEntered ==
  /\ ~dashboard /\ dashboard' = TRUE
  /\ UNCHANGED <<flow, submitting, portfolio, told, account>>

(***************************************************************************)
(* The specification.                                                      *)
(***************************************************************************)
TuiOrderInit ==
  /\ dashboard = TRUE /\ flow = NoFlow /\ submitting = FALSE /\ portfolio = NoHoldings
  /\ told = "none" /\ accepted = 0 /\ before = 0

Dialog ==
  \/ FlowBegins \/ DestinationsArrive \/ DestinationChosen \/ PriceEntered \/ Escapes
  \/ \E side \in {"buy", "sell"} : SideChosen(side)
  \/ \E mode \in {"market", "limit", "stopMarket"} : ModeChosen(mode)
  \/ \E size \in Quantities : SizeEntered(size)
  \/ PriceQuoted \/ FlowFails \/ PreviewArrives \/ Declines \/ Confirmed
  \/ ResultDismissed \/ FlowEnds

TuiOrderNext ==
  \/ Dialog
  \/ BrokerAccepts \/ SubmitThrows
  \/ \E status \in Statuses : SubmitAnswers(status)
  \/ \E size \in Quantities \union {0} : PortfolioArrives(size)
  \/ PortfolioFails \/ DashboardReset \/ DashboardEntered

TuiOrderSpec == TuiOrderInit /\ [][TuiOrderNext]_tuiOrderVars

(***************************************************************************)
(* Properties.                                                             *)
(***************************************************************************)
\* A user who is told that nothing was sent may start again without sending
\* an order twice: the broker has accepted none in this flow, whichever step
\* of it failed, and whenever ("Nothing was sent.", openOrderFlow).
NothingSentTrue ==
  told = "nothing sent" => accepted = before

\* The same of "Trade Republic did not accept the order.", the title of every
\* result that is not a success.  The client reports outcomeUnknown when the
\* broker may have accepted the order (README.md:1028).
NotAcceptedTrue == told = "not accepted" => accepted = before
=============================================================================
