------------------------------ MODULE Decimals ------------------------------
(***************************************************************************)
(* Amounts: packages/domain/src/money/decimal.ts against the               *)
(* NUMERIC(MaxPrecision, MaxScale) columns of migration 0001.              *)
(*                                                                         *)
(* A text is its sign and its digits, a value what it has at each decimal  *)
(* place: 0 is the units, -1 the tenths.  Equality of values is then       *)
(* equality, with no arithmetic, and nothing depends on the radix.         *)
(***************************************************************************)
EXTENDS Integers, Sequences

CONSTANTS Digits,
          Places,         \* the decimal places that amounts have digits at
          MaxPrecision,
          MaxScale,
          Malformed,      \* any text PLAIN_DECIMAL refuses: a word, 1e-9, "1."
          Empty           \* a cell that is absent or blank

MaxIntegerDigits == MaxPrecision - MaxScale

Text == [minus : BOOLEAN, whole : Seq(Digits) \ {<<>>}, fraction : Seq(Digits)]

ASSUME DecimalAssumption ==
  /\ 0 \in Digits
  /\ MaxScale \in Nat /\ MaxPrecision \in Nat /\ MaxScale < MaxPrecision
  /\ Places \subseteq Int
  /\ (-MaxScale) .. (MaxIntegerDigits - 1) \subseteq Places
  /\ Malformed \notin Text /\ Empty \notin Text

-----------------------------------------------------------------------------

DigitAt(t, p) ==
  CASE p >= 0 /\ p < Len(t.whole)      -> t.whole[Len(t.whole) - p]
    [] p < 0 /\ -p <= Len(t.fraction) -> t.fraction[-p]
    [] OTHER                          -> 0

(* decimal.js knows a negative zero, and equals does not tell it apart.    *)
Signed(minus, digit) ==
  [negative |-> minus /\ \E p \in Places : digit[p] # 0, digit |-> digit]

ValueOf(t) == Signed(t.minus, [p \in Places |-> DigitAt(t, p)])

IsPositive(v) == ~v.negative /\ \E p \in Places : v.digit[p] # 0

(* countIntegerDigits(whole) > n: leading zeros do not count, and a number *)
(* that is all zeros still has one digit.                                  *)
HasMoreIntegerDigits(t, n) ==
  \/ n < 1
  \/ \E i \in 1 .. Len(t.whole) : t.whole[i] # 0 /\ Len(t.whole) + 1 - i > n

FromAnyScale(t) ==
  IF t \notin Text THEN "invalidValue"
  ELSE IF HasMoreIntegerDigits(t, MaxIntegerDigits) THEN "amountOutOfRange"
  ELSE "none"

(* Decimal.from: the error it throws, or "none" and then the value is      *)
(* ValueOf(t).  Decimal places are counted as they are written.            *)
From(t) ==
  IF t \notin Text THEN "invalidValue"
  ELSE IF Len(t.fraction) > MaxScale \/ HasMoreIntegerDigits(t, MaxIntegerDigits)
    THEN "amountOutOfRange"
  ELSE "none"

-----------------------------------------------------------------------------

(* PostgreSQL refuses a value with too many digits before the point and    *)
(* rounds one with too many after it.  In which direction does not matter  *)
(* here: digits are lost.                                                  *)
Overflows(v) == \E p \in Places : p >= MaxIntegerDigits /\ v.digit[p] # 0

Column(v) ==
  Signed(v.negative, [p \in Places |-> IF p < -MaxScale THEN 0 ELSE v.digit[p]])

(* What the driver hands back: every decimal place of the column.  The     *)
(* leading zeros PostgreSQL would leave out count for nothing.             *)
ColumnText(v) ==
  [minus    |-> v.negative,
   whole    |-> [i \in 1 .. MaxIntegerDigits |-> v.digit[MaxIntegerDigits - i]],
   fraction |-> [i \in 1 .. MaxScale |-> v.digit[-i]]]

(* An amount that Decimal accepts goes into the column whole, comes back   *)
(* as it went in, and is accepted again by the mapper that reads it        *)
(* (FR-8, ADR-0004).                                                       *)
Survives(t) ==
  LET v == ValueOf(t) IN
    /\ ~Overflows(v)
    /\ Column(v) = v
    /\ From(ColumnText(v)) = "none"
    /\ ValueOf(ColumnText(v)) = v

=============================================================================
