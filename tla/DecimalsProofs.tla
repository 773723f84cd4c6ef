--------------------------- MODULE DecimalsProofs ---------------------------
(***************************************************************************)
(* Decimal.from and the NUMERIC column agree, for every precision, scale   *)
(* and radix.                                                              *)
(***************************************************************************)
EXTENDS Decimals, TLAPS

LEMMA DigitsInRange ==
  ASSUME NEW t \in Text, NEW p \in Int
  PROVE  DigitAt(t, p) \in Digits
BY DecimalAssumption DEF DigitAt, Text

(* What From has checked when it throws nothing.                           *)
LEMMA AcceptedText ==
  ASSUME NEW t, From(t) = "none"
  PROVE  /\ t \in Text
         /\ Len(t.fraction) <= MaxScale
         /\ ~HasMoreIntegerDigits(t, MaxIntegerDigits)
<1>1. /\ t \in Text
      /\ ~(Len(t.fraction) > MaxScale)
      /\ ~HasMoreIntegerDigits(t, MaxIntegerDigits)
  BY DEF From
<1>2. Len(t.fraction) \in Nat /\ MaxScale \in Nat
  BY <1>1, DecimalAssumption DEF Text
<1>3. QED
  BY <1>1, <1>2

LEMMA IntegerDigitsSuffice == MaxIntegerDigits \in Nat /\ MaxIntegerDigits >= 1
BY DecimalAssumption DEF MaxIntegerDigits

(* Outside the column an accepted text has no digits.                      *)
LEMMA NothingOutside ==
  ASSUME NEW t, From(t) = "none", NEW p \in Int,
         p >= MaxIntegerDigits \/ p < -MaxScale
  PROVE  DigitAt(t, p) = 0
<1>1. /\ t \in Text /\ Len(t.fraction) <= MaxScale
      /\ ~HasMoreIntegerDigits(t, MaxIntegerDigits)
  BY AcceptedText
<1>2. Len(t.whole) \in Nat /\ Len(t.fraction) \in Nat /\ MaxScale \in Nat
  BY <1>1, DecimalAssumption DEF Text
<1>3. CASE p >= MaxIntegerDigits
  <2>1. p >= 0
    BY <1>3, IntegerDigitsSuffice
  <2>2. CASE p < Len(t.whole)
    <3> DEFINE i == Len(t.whole) - p
    <3>1. i \in 1 .. Len(t.whole)
      BY <1>2, <2>1, <2>2
    <3>2. Len(t.whole) + 1 - i > MaxIntegerDigits
      BY <1>2, <1>3, IntegerDigitsSuffice
    <3>3. t.whole[i] = 0
      BY <1>1, <3>1, <3>2 DEF HasMoreIntegerDigits
    <3>4. QED
      BY <2>1, <2>2, <3>3 DEF DigitAt
  <2>3. CASE ~(p < Len(t.whole))
    BY <2>1, <2>3 DEF DigitAt
  <2>4. QED
    BY <2>2, <2>3
<1>4. CASE p < -MaxScale
  <2>1. ~(p >= 0) /\ ~(-p <= Len(t.fraction))
    BY <1>1, <1>2, <1>4
  <2>2. QED
    BY <2>1 DEF DigitAt
<1>5. QED
  BY <1>3, <1>4

(* What goes into the column is what was read from the text.               *)
LEMMA ColumnKeepsValue ==
  ASSUME NEW t, From(t) = "none"
  PROVE  ~Overflows(ValueOf(t)) /\ Column(ValueOf(t)) = ValueOf(t)
<1> DEFINE digit == [p \in Places |-> DigitAt(t, p)]
           v == ValueOf(t)
<1>1. v.digit = digit /\ v.negative = (t.minus /\ \E p \in Places : digit[p] # 0)
  BY DEF ValueOf, Signed
<1>2. ~Overflows(v)
  BY <1>1, NothingOutside, DecimalAssumption DEF Overflows
<1>3. [p \in Places |-> IF p < -MaxScale THEN 0 ELSE v.digit[p]] = digit
  BY <1>1, NothingOutside, DecimalAssumption
<1>4. (v.negative /\ \E p \in Places : digit[p] # 0) = v.negative
  BY <1>1
<1>5. v = [negative |-> v.negative, digit |-> digit]
  BY <1>1 DEF ValueOf, Signed
<1>6. QED
  BY <1>2, <1>3, <1>4, <1>5 DEF Column, Signed

(* What comes out of it is a text that has the same value.                 *)
LEMMA ColumnTextKeepsValue ==
  ASSUME NEW t, From(t) = "none"
  PROVE  /\ From(ColumnText(ValueOf(t))) = "none"
         /\ ValueOf(ColumnText(ValueOf(t))) = ValueOf(t)
<1> DEFINE digit == [p \in Places |-> DigitAt(t, p)]
           v == ValueOf(t)
           c == ColumnText(v)
<1>1. v.digit = digit /\ v.negative = (t.minus /\ \E p \in Places : digit[p] # 0)
  BY DEF ValueOf, Signed
<1>2. v.negative \in BOOLEAN
  BY <1>1
<1>3. \A p \in (-MaxScale) .. (MaxIntegerDigits - 1) : p \in Places /\ digit[p] \in Digits
  BY AcceptedText, DigitsInRange, DecimalAssumption
<1>4. MaxScale \in Nat /\ MaxIntegerDigits \in Nat /\ MaxIntegerDigits >= 1
  BY IntegerDigitsSuffice, DecimalAssumption
<1>5. \A i \in 1 .. MaxIntegerDigits : v.digit[MaxIntegerDigits - i] \in Digits
  BY <1>1, <1>3, <1>4
<1>6. \A i \in 1 .. MaxScale : v.digit[-i] \in Digits
  BY <1>1, <1>3, <1>4
<1>7. /\ c.whole \in Seq(Digits) /\ Len(c.whole) = MaxIntegerDigits
      /\ c.fraction \in Seq(Digits) /\ Len(c.fraction) = MaxScale
      /\ c.minus = v.negative
  BY <1>4, <1>5, <1>6 DEF ColumnText
<1>8. c \in Text
  BY <1>2, <1>4, <1>7 DEF Text, ColumnText
<1>9. ~HasMoreIntegerDigits(c, MaxIntegerDigits)
  BY <1>4, <1>7 DEF HasMoreIntegerDigits
<1>10. From(c) = "none"
  BY <1>4, <1>7, <1>8, <1>9 DEF From
<1>11. ASSUME NEW p \in Places
       PROVE  DigitAt(c, p) = digit[p]
  <2>1. p \in Int
    BY DecimalAssumption
  <2>2. CASE p >= 0 /\ p < MaxIntegerDigits
    <3>1. MaxIntegerDigits - p \in 1 .. MaxIntegerDigits
      BY <1>4, <2>1, <2>2
    <3>2. c.whole[MaxIntegerDigits - p] = v.digit[MaxIntegerDigits - (MaxIntegerDigits - p)]
      BY <3>1 DEF ColumnText
    <3>3. MaxIntegerDigits - (MaxIntegerDigits - p) = p
      BY <1>4, <2>1
    <3>4. QED
      BY <1>1, <1>7, <2>1, <2>2, <3>2, <3>3, SMTT(20) DEF DigitAt
  <2>3. CASE p < 0 /\ -p <= MaxScale
    <3>1. -p \in 1 .. MaxScale /\ -(-p) = p
      BY <1>4, <2>1, <2>3
    <3>2. c.fraction[-p] = v.digit[p]
      BY <3>1 DEF ColumnText
    <3>3. ~(p >= 0)
      BY <2>1, <2>3
    <3>4. QED
      BY <1>1, <1>7, <2>3, <3>2, <3>3 DEF DigitAt
  <2>4. CASE ~(p >= 0 /\ p < MaxIntegerDigits) /\ ~(p < 0 /\ -p <= MaxScale)
    <3>1. p >= MaxIntegerDigits \/ p < -MaxScale
      BY <1>4, <2>1, <2>4
    <3>2. digit[p] = 0
      BY <2>1, <3>1, NothingOutside
    <3>3. DigitAt(c, p) = 0
      BY <1>7, <2>4 DEF DigitAt
    <3>4. QED
      BY <3>2, <3>3
  <2>5. QED
    BY <2>2, <2>3, <2>4
<1>12. [p \in Places |-> DigitAt(c, p)] = digit
  BY <1>11
<1>13. (v.negative /\ \E p \in Places : digit[p] # 0) = v.negative
  BY <1>1
<1>14. ValueOf(c) = v
  BY <1>1, <1>7, <1>12, <1>13 DEF ValueOf, Signed
<1>15. QED
  BY <1>10, <1>14

(* Whatever Decimal.from accepts is stored and read back unchanged: the    *)
(* column never overflows, never rounds, and gives back a text that is     *)
(* accepted again and has the same value.                                  *)
THEOREM AcceptedAmountsSurvive ==
  ASSUME NEW t, From(t) = "none"
  PROVE  Survives(t)
BY ColumnKeepsValue, ColumnTextKeepsValue DEF Survives

(* What Decimal.from refuses of a number the column could not have kept,   *)
(* unless all it has too much is zeros at the end: decimal places are      *)
(* counted as they are written, integer digits without leading zeros.      *)
THEOREM RefusedAmountsWouldNotSurvive ==
  ASSUME NEW t \in Text, From(t) # "none",
         (-Len(t.fraction)) .. (Len(t.whole) - 1) \subseteq Places
  PROVE  \/ ~Survives(t)
         \/ /\ Len(t.fraction) > MaxScale
            /\ \A i \in (MaxScale + 1) .. Len(t.fraction) : t.fraction[i] = 0
<1> DEFINE digit == [p \in Places |-> DigitAt(t, p)]
           v == ValueOf(t)
<1>1. /\ Len(t.whole) \in Nat /\ Len(t.fraction) \in Nat /\ MaxScale \in Nat
      /\ MaxIntegerDigits \in Nat /\ MaxIntegerDigits >= 1
  BY IntegerDigitsSuffice, DecimalAssumption DEF Text
<1>2. v.digit = digit
  BY DEF ValueOf, Signed
<1>3. ASSUME HasMoreIntegerDigits(t, MaxIntegerDigits)
      PROVE  ~Survives(t)
  <2>1. PICK i \in 1 .. Len(t.whole) :
          t.whole[i] # 0 /\ Len(t.whole) + 1 - i > MaxIntegerDigits
    BY <1>1, <1>3 DEF HasMoreIntegerDigits
  <2> DEFINE p == Len(t.whole) - i
  <2>2. /\ p \in (-Len(t.fraction)) .. (Len(t.whole) - 1)
        /\ p >= 0 /\ p < Len(t.whole) /\ p >= MaxIntegerDigits
        /\ Len(t.whole) - p = i
    BY <1>1, <2>1
  <2>3. DigitAt(t, p) = t.whole[i]
    BY <2>2 DEF DigitAt
  <2> HIDE DEF p
  <2>4. p \in Places /\ v.digit[p] # 0
    BY <1>2, <2>1, <2>2, <2>3
  <2>5. QED
    BY <2>2, <2>4 DEF Survives, Overflows
<1>4. ASSUME NEW i \in (MaxScale + 1) .. Len(t.fraction), t.fraction[i] # 0
      PROVE  ~Survives(t)
  <2> DEFINE p == -i
  <2>1. /\ p \in (-Len(t.fraction)) .. (Len(t.whole) - 1)
        /\ ~(p >= 0) /\ p < 0 /\ -p <= Len(t.fraction) /\ p < -MaxScale
        /\ -p = i
    BY <1>1, <1>4
  <2>2. DigitAt(t, p) = t.fraction[i]
    BY <2>1 DEF DigitAt
  <2> HIDE DEF p
  <2>3. p \in Places /\ v.digit[p] # 0
    BY <1>2, <1>4, <2>1, <2>2
  <2>4. Column(v).digit[p] = 0
    BY <2>1, <2>3 DEF Column, Signed
  <2>5. QED
    BY <2>3, <2>4 DEF Survives
<1>5. Len(t.fraction) > MaxScale \/ HasMoreIntegerDigits(t, MaxIntegerDigits)
  BY DEF From
<1>6. QED
  BY <1>3, <1>4, <1>5

=============================================================================
