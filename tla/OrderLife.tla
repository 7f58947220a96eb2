------------------------------ MODULE OrderLife -----------------------------
(***************************************************************************)
(* One order from the request it is prepared from to its end: prepared or  *)
(* refused by the client (OrderSizing), then filled in parts, cancelled,   *)
(* expired or rejected by the broker, whose record of it the client reads  *)
(* at any time (OrderRecords).                                             *)
(***************************************************************************)
EXTENDS OrderSizing, OrderRecords

CONSTANTS
  Requests,    \* what an application may ask for
  FillPrice,  \* cents a share may be traded at; 0 is a trade without a price
  CostPrice,  \* cents a share was bought at, for the profit of a trade
  MaxTrades   \* bound on the trades that fill an order

ASSUME RequestsAssumption == \A o \in Requests : IsRequest(o)
ASSUME TradesAssumption == MaxTrades \in Nat \ {0}
ASSUME PriceAssumption == FillPrice \subseteq Nat /\ CostPrice \in Nat

VARIABLES
  phase,    \* "none", "refused", "live", or how the order ended
  asked,  \* what was asked for
  order,    \* the prepared order
  record,   \* the broker's JSON record of it
  notice,   \* the decimals of the latest trade in the order updates: what they are worth, and the wire
  paid      \* cents times shares exchanged for the order so far

lifeVars == <<phase, asked, order, record, notice, paid>>

Fresh(status) ==
  [status |-> status, trades |-> <<>>, executedAt |-> FALSE, cancelledAt |-> FALSE,
   expiredAt |-> FALSE, rejectedAt |-> FALSE]

(***************************************************************************)
(* The broker's way to write a number: the shortest two's complement.      *)
(***************************************************************************)
ByteCount(n) == DigitCount(256, 128, IF n < 0 THEN -n - 1 ELSE n)

Written(n, scale) ==
  [n |-> n, wire |-> [unscaled |-> Digits(256, n, ByteCount(n)), scale |-> scale]]

Profit(size, k, price) ==
  LET gain == (price - CostPrice) * size
  IN  IF k > 2 THEN gain \div Power(10, k - 2) ELSE gain * Power(10, 2 - k)

LifeInit ==
  /\ phase = "none" /\ asked \in Requests
  /\ order = {} /\ record = Fresh("") /\ notice = {} /\ paid = 0

Prepare ==
  /\ phase = "none"
  /\ order' \in Normalized(asked)
  /\ \/ order' = {} /\ phase' = "refused" /\ record' = record
     \/ /\ order' # {} /\ phase' = "live"
        /\ \E status \in {"", "OPEN"} : record' = Fresh(status)
  /\ UNCHANGED <<asked, notice, paid>>

Size == Value(order).size
Unfilled == Size.n - SumOf(record.trades, DOMAIN record.trades, LAMBDA t : t.size)

\* The broker's record of a whole fill has its time, and a status when it has one.
Fill ==
  /\ phase = "live" /\ Len(record.trades) < MaxTrades
  /\ \E part \in {1, Unfilled \div 2, Unfilled} \ {0}, price \in FillPrice :
       LET whole == part = Unfilled
       IN  /\ phase' = IF whole THEN "executed" ELSE "live"
           /\ record' = [record EXCEPT
                !.trades = Append(@, [size |-> part, price |-> price]),
                !.executedAt = whole,
                !.status = IF @ = "" THEN "" ELSE IF whole THEN "EXECUTED" ELSE "PARTIALLY_FILLED"]
           /\ paid' = paid + price * part
           /\ notice' = {Written(part, Size.k), Written(Profit(part, Size.k, price), 4)}
  /\ UNCHANGED <<asked, order>>

End ==
  /\ phase = "live"
  /\ \E how \in {"CANCELED", "EXPIRED", "REJECTED"} :
       /\ how = "REJECTED" => record.trades = <<>>
       /\ phase' = how
       /\ record' = [record EXCEPT
            !.cancelledAt = how = "CANCELED", !.expiredAt = how = "EXPIRED",
            !.rejectedAt = how = "REJECTED", !.status = IF @ = "" THEN "" ELSE how]
  /\ UNCHANGED <<asked, order, notice, paid>>

LifeNext == Prepare \/ Fill \/ End

LifeSpec == LifeInit /\ [][LifeNext]_lifeVars

-----------------------------------------------------------------------------
\* The venues' steps: none has more decimals than a size is written with, and
\* decimalPlaces() counts the decimals of each.
StepsWritten ==
  \A o \in Requests : \A step \in SizeStep(o) : step.k <= 12 /\ DecimalPlaces(step) = step.k

\* The budgets: no quotient is so large that its error and the epsilon together
\* reach the next one, as from about 15 million euros at a step of a millionth.
StepsSeparate ==
  \A o \in Requests : \A amount \in RoundedAmounts(o) :
    Given(o.amount) /\ Accepted(o, amount) =>
      LET price == Value(UnitPrice(o))
          step  == Value(SizeStep(o))
      IN  (Noise(StepsPaid(Value(amount), price, step)) + Epsilon) * (price * step.n) < Grain

\* traderepublic-client.ts:1044-1048: the size ordered for an amount is a number
\* of whole steps and costs no more than the amount the order carries, whatever
\* the errors of the doubles; one step more would cost more than the amount, or,
\* where a quotient is so large that its error exceeds the 1e-10, two.
SizeRoundedDown ==
  \A o \in order : Given(asked.amount) =>
    LET step   == Value(SizeStep(asked))
        price  == Value(UnitPrice(asked))
        cents  == Value(o.amount)
        budget == cents * Power(10, step.k)
    IN  /\ o.size.k = step.k /\ o.size.n % step.n = 0
        /\ o.size.n * price <= budget
        /\ (o.size.n + (1 + StepsLost(cents, price, step)) * step.n) * price > budget

\* README.md:921-922: "The SDK converts that budget into a size, rounded down to
\* the venue's `sizeStep`": the amount does not pay for a step more.
AmountBuysNoMore ==
  \A o \in order : Given(asked.amount) =>
    LET step == Value(SizeStep(asked))
    IN  (o.size.n + step.n) * Value(UnitPrice(asked)) > Value(o.amount) * Power(10, step.k)

\* The cost preview() shows is the one of the order it returns: what the size
\* costs at the price the order will carry, exactly for an order by size, and
\* for an order by amount within the steps and the half cent that rounding takes.
PreviewTellsOrder ==
  \A o \in order : \A gross \in EstimatedGross(asked, o) :
    LET price == Value(IF asked.mode = "limit" THEN o.limit
                       ELSE IF asked.mode = "stopMarket" THEN o.stop ELSE asked.last)
        cost  == 10 * o.size.n * price
    IN  IF Given(asked.size) THEN gross = cost
        ELSE LET step == Value(SizeStep(asked))
                 lost == StepsLost(Value(o.amount), price, step)
             IN  /\ cost - gross <= 5 * Power(10, o.size.k)
                 /\ gross - cost <= 10 * ((1 + lost) * step.n * price) + 5 * Power(10, o.size.k)

-----------------------------------------------------------------------------
Placed == phase \notin {"none", "refused"}

\* open() lists an order exactly while the broker may still fill it, with a
\* status from the broker or one inferred from the record, and it has a
\* closedAt exactly from then on: one cancelled after a partial fill is closed
\* (inferOrderStatus(), isOpenOrder(), normalizeOrder()).
OpenWhileLive ==
  Placed => (IsOpen(record) <=> phase = "live") /\ (HasClosedAt(record) <=> phase # "live")

\* executed() lists an order exactly when something was traded for it, also
\* when it was cancelled or expired afterwards (isExecutedOrder()).
ExecutedWhenTraded == Placed => (IsExecuted(record) <=> record.trades # <<>>)

\* The execution price lies between the lowest and the highest price traded at,
\* and times the executed quantity it is what was exchanged, once every trade
\* has a price (weightedExecutionPrice()).
PriceIsWhatWasPaid ==
  \A q \in ExecutionPrice(record) :
    LET prices == {record.trades[i].price : i \in DOMAIN record.trades} \ {0}
    IN  /\ q.size * Min(prices) <= q.paid /\ q.paid <= q.size * Max(prices)
        /\ q.paid = paid
        /\ (\A i \in DOMAIN record.trades : record.trades[i].price > 0) =>
             ExecutedQuantity(record) = {q.size}

Number(digits) == Horner(10, digits)

\* A size or profit in the order updates reads as the number the broker wrote,
\* at every length of its bytes and with either sign, with a digit before the
\* point (decimal()).
DecimalsRead ==
  \A d \in notice :
    LET text == DecimalText(d.wire)
    IN  /\ text.whole # <<>> /\ Len(text.fraction) = d.wire.scale
        /\ Number(text.whole \o text.fraction) = IF d.n < 0 THEN -d.n ELSE d.n
        /\ text.negative = (d.n < 0)

\* What is read of an order while it is filled and however it ends: the list
\* it is in, the price of its executions, and the decimals of its updates.
RecordsTellOrder ==
  OpenWhileLive /\ ExecutedWhenTraded /\ PriceIsWhatWasPaid /\ DecimalsRead
=============================================================================
