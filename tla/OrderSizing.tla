----------------------------- MODULE OrderSizing ----------------------------
(***************************************************************************)
(* The arithmetic of OrdersApi.prepare() and preview() in                  *)
(* traderepublic-client.ts: how a budget becomes a number of shares, which *)
(* options are refused, and the estimate shown for them.                   *)
(*                                                                         *)
(* Prices are whole cents, a budget is in tenths of a cent, a size or step *)
(* [n, k] is n * 10^-k shares.  Options that may be missing are sets of at *)
(* most one value.  The double of an amount may lie below it; the double   *)
(* of a quotient has an error that grows with the quotient, while the      *)
(* 1e-10 of floorToStep(), two Grain-ths of a step, is the same for all.   *)
(***************************************************************************)
EXTENDS Numerals

CONSTANTS
  Grain,   \* errors are counted in Grain-ths of a step; 2 * 10^10 in the code
  Exact    \* every so many steps add one of them to the error of a quotient

ASSUME DoublesAssumption == Grain \in Nat \ {0} /\ Exact \in Nat \ {0}

Epsilon == 2

Given(option) == option # {}
Value(option) == CHOOSE v \in option : TRUE
Positive(option) == \A v \in option : v > 0

\* The options the arithmetic reads, of CreateOrderOptions.
Optional(option, values) == option \subseteq values /\ \A v, w \in option : v = w
Decimal == [n : Int, k : Nat]
IsRequest(o) ==
  /\ o.mode \in {"market", "limit", "stopMarket"}
  /\ Optional(o.limit, Int) /\ Optional(o.stop, Int) /\ Optional(o.last, Int)
  /\ Optional(o.amount, Int) /\ Optional(o.size, Decimal) /\ Optional(o.step, Decimal)
  /\ Optional(o.instrument.stepSize, Decimal)

\* A number that is not positive is thrown, by positiveNumber().
Usable(o) ==
  /\ Positive(o.limit) /\ Positive(o.stop) /\ Positive(o.last) /\ Positive(o.amount)
  /\ \A s \in o.size : s.n > 0
  /\ Given(o.amount) => \A s \in o.step : s.n > 0

(***************************************************************************)
(* Amounts and sizes.                                                      *)
(***************************************************************************)
\* roundCurrency(): to the cent, where a tie goes down when the double is
\* below it.
RoundCurrency(mills, below) == (mills + 5 - below) \div 10

RoundedAmounts(o) == {{RoundCurrency(a, below) : a \in o.amount} : below \in {0, 1}}

\* A step below 1e-6 is written with an exponent, of which only the digits
\* after "e-" count.
DecimalPlaces(step) ==
  IF step.k > 6 /\ step.n < Power(10, step.k - 6) THEN step.k - (DigitCount(10, 10, step.n) - 1) ELSE step.k

\* toFixed() of n * 10^-k.
ToFixed(n, k, decimals) ==
  IF decimals >= k THEN [n |-> n, k |-> k]
  ELSE [n |-> (2 * n + Power(10, k - decimals)) \div (2 * Power(10, k - decimals)), k |-> decimals]

\* How many whole steps cents pay for, and the error of the double for it.
StepsPaid(cents, price, step) == (cents * Power(10, step.k)) \div (price * step.n)
Noise(steps) == 1 + steps \div Exact

Errors(cents, price, step) ==
  LET noise == Noise(StepsPaid(cents, price, step)) IN -noise .. noise

MutantWholeSteps(cents, price, step, error) ==
  LET cost == price * step.n
      rest == (cents * Power(10, step.k)) % cost
  IN  StepsPaid(cents, price, step) + (rest * Grain + error * cost) \div (cost * Grain)

\* Math.floor() of the quotient, its error and the epsilon.
WholeSteps(cents, price, step, error) ==
  LET cost == price * step.n
      rest == (cents * Power(10, step.k)) % cost
  IN  StepsPaid(cents, price, step) + (rest * Grain + (error + Epsilon) * cost) \div (cost * Grain)

\* Steps are lost only where the error is larger than the epsilon, and then one.
StepsLost(cents, price, step) ==
  IF Noise(StepsPaid(cents, price, step)) > Epsilon THEN 1 ELSE 0

FloorToStep(cents, price, step, error) ==
  LET places == DecimalPlaces(step)
  IN  ToFixed(WholeSteps(cents, price, step, error) * step.n, step.k, IF places < 12 THEN places ELSE 12)

(***************************************************************************)
(* resolveAmountSizeStep(): what the venue says, else a millionth for      *)
(* cryptocurrencies and funds; nothing for anything else.                  *)
(***************************************************************************)
ResolvedStep(instrument) ==
  IF \E s \in instrument.stepSize : s.n > 0 THEN instrument.stepSize
  ELSE IF instrument.type \in {"crypto", "fund"} THEN {[n |-> 1, k |-> 6]} ELSE {}

SizeStep(o) == IF Given(o.amount) /\ ~Given(o.step) THEN ResolvedStep(o.instrument) ELSE o.step

\* The price that converts a budget into shares, and that a preview shows.
UnitPrice(o) ==
  CASE o.mode = "limit"      -> o.limit
    [] o.mode = "stopMarket" -> o.stop
    [] o.mode = "market"     -> o.last

MutantPreviewPrice(o) == o.last
PreviewPrice(o) == UnitPrice(o)

\* What normalizeCreateOrderOptions() lets through, but for a size of nothing.
Accepted(o, amount) ==
  /\ Usable(o) /\ Positive(amount)
  /\ Given(o.size) # Given(o.amount)
  /\ Given(o.amount) => Given(UnitPrice(o)) /\ Given(SizeStep(o))
  /\ o.mode = "limit" => Given(o.limit)
  /\ o.mode = "stopMarket" => Given(o.stop)
  /\ o.mode = "market" => ~Given(o.limit) /\ ~Given(o.stop)

Sizes(o, amount) ==
  IF Given(o.size) THEN o.size
  ELSE LET cents == Value(amount)
           price == Value(UnitPrice(o))
           step  == Value(SizeStep(o))
       IN  {FloorToStep(cents, price, step, error) : error \in Errors(cents, price, step)}

\* The prepared order and the amount it carries, in cents.
Parameters(o, amount, size) == [size |-> size, amount |-> amount, limit |-> o.limit, stop |-> o.stop]

\* What may come of the options: an order, or none where they are refused.
Normalized(o) ==
  UNION {IF Accepted(o, amount)
         THEN {IF size.n > 0 THEN {Parameters(o, amount, size)} ELSE {} : size \in Sizes(o, amount)}
         ELSE {{}} : amount \in RoundedAmounts(o)}

(***************************************************************************)
(* preview(): what the order would cost before fees, when it can be told,  *)
(* in tenths of a cent times 10^-k for a size [n, k].                      *)
(***************************************************************************)
EstimatedGross(o, order) ==
  IF Given(o.amount) THEN {a * Power(10, order.size.k) : a \in o.amount}
  ELSE {10 * p * order.size.n : p \in PreviewPrice(o)}
=============================================================================
