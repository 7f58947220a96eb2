---------------------------- MODULE OrderRecords ----------------------------
(***************************************************************************)
(* What the client makes of the records of an order: normalizeOrder() of   *)
(* normalizers.ts and the lists of OrdersApi for the JSON ones, decimal()  *)
(* of mapper-protobuf.ts for those of the order updates.                   *)
(*                                                                         *)
(* A JSON record has a status or not, the times the order ended at, and    *)
(* its trades; every size in it is in one unit.  The several names a field *)
(* may go by are one field here.                                           *)
(***************************************************************************)
EXTENDS Numerals, FiniteSetsExt

(***************************************************************************)
(* normalizeOrder().                                                       *)
(***************************************************************************)
Executions(record) == {i \in DOMAIN record.trades : record.trades[i].size > 0}

\* The sum of what f says of these of the trades.
SumOf(trades, chosen, f(_)) ==
  Sum([i \in DOMAIN trades |-> IF i \in chosen THEN f(trades[i]) ELSE 0])

ExecutedQuantity(record) ==
  IF Executions(record) = {} THEN {}
  ELSE {SumOf(record.trades, Executions(record), LAMBDA t : t.size)}

\* weightedExecutionPrice(): of the executions that have a price, as the two
\* terms of a quotient.
ExecutionPrice(record) ==
  LET priced == {i \in Executions(record) : record.trades[i].price > 0}
  IN  IF priced = {} THEN {}
      ELSE {[paid |-> SumOf(record.trades, priced, LAMBDA t : t.price * t.size),
             size |-> SumOf(record.trades, priced, LAMBDA t : t.size)]}

\* The first time the order ended at, of these.
Ending(record) ==
  IF record.executedAt THEN "executed"
  ELSE IF record.cancelledAt THEN "canceled"
  ELSE IF record.expiredAt THEN "expired"
  ELSE IF record.rejectedAt THEN "rejected"
  ELSE ""

\* sumExecutionSize() is positive.
HasFills(record) == SumOf(record.trades, DOMAIN record.trades, LAMBDA t : t.size) > 0

MutantInferredStatus(record) ==
  IF HasFills(record) THEN "partiallyFilled"
  ELSE IF Ending(record) # "" THEN Ending(record) ELSE "open"

InferredStatus(record) ==
  IF Ending(record) # "" THEN Ending(record)
  ELSE IF HasFills(record) THEN "partiallyFilled" ELSE "open"

Status(record) == IF record.status = "" THEN InferredStatus(record) ELSE record.status

HasClosedAt(record) ==
  record.executedAt \/ record.cancelledAt \/ record.expiredAt \/ record.rejectedAt

\* Without an executedAt the time of the latest execution is taken.
HasExecutedAt(record) == record.executedAt \/ Executions(record) # {}

(***************************************************************************)
(* The lists of OrdersApi; closed() has what open() has not.               *)
(***************************************************************************)
IsOpen(record) ==
  Status(record) \in {"OPEN", "open", "RECEIVED", "PARTIALLY_FILLED", "partiallyFilled"}

IsExecuted(record) ==
  \/ HasExecutedAt(record)
  \/ \E quantity \in ExecutedQuantity(record) : quantity > 0
  \/ Status(record) \in {"EXECUTED", "executed", "PARTIALLY_FILLED", "partiallyFilled"}

(***************************************************************************)
(* decimal(): bytes of a two's complement integer, most significant first, *)
(* and a scale become a sign and the digits before and behind the point.   *)
(***************************************************************************)
Unsigned(bytes) == Horner(256, bytes)

Unscaled(bytes) ==
  IF bytes[1] >= 128 THEN Unsigned(bytes) - Power(256, Len(bytes)) ELSE Unsigned(bytes)

\* padStart() to one digit more than the scale.
DecimalText(decimal) ==
  LET unscaled == Unscaled(decimal.unscaled)
      absolute == IF unscaled < 0 THEN -unscaled ELSE unscaled
      count    == Max({DigitCount(10, 10, absolute), decimal.scale + 1})
      digits   == Digits(10, absolute, count)
  IN  [negative |-> unscaled < 0,
       whole    |-> SubSeq(digits, 1, count - decimal.scale),
       fraction |-> SubSeq(digits, count - decimal.scale + 1, count)]
=============================================================================
