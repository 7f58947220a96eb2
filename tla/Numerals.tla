------------------------------ MODULE Numerals ------------------------------
(***************************************************************************)
(* Sums, powers and digits, as recursive functions of an index: what a     *)
(* reduce() over numbers computes, and how a number is written.            *)
(***************************************************************************)
EXTENDS Integers, Sequences

\* First to last: base times what there is, plus the next.
Horner(base, numbers) ==
  LET value[i \in 0 .. Len(numbers)] == IF i = 0 THEN 0 ELSE base * value[i - 1] + numbers[i]
  IN  value[Len(numbers)]

Sum(numbers) == Horner(1, numbers)

Power(base, k) ==
  LET power[i \in 0 .. k] == IF i = 0 THEN 1 ELSE base * power[i - 1]
  IN  power[k]

\* The digits of a number, most significant first: those of a negative one are
\* of its complement.
Digits(base, n, count) == [i \in 1 .. count |-> (n \div Power(base, count - i)) % base]

\* How many digits it takes, the first below a limit.
DigitCount(base, limit, n) ==
  LET count[m \in 0 .. n] == IF m < limit THEN 1 ELSE 1 + count[m \div base]
  IN  count[n]
=============================================================================
