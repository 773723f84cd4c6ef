------------------------ MODULE PayloadReadingProofs ------------------------
(***************************************************************************)
(* What holds of every reading: types, amounts that survive the column,    *)
(* and the refinement of ReadContract.                                     *)
(***************************************************************************)
EXTENDS PayloadReading, DecimalsProofs

-----------------------------------------------------------------------------
(* The errors of a row.                                                    *)

LEMMA FromErrors ==
  ASSUME NEW cell
  PROVE  From(cell) \in {"none", "invalidValue", "amountOutOfRange"}
BY DEF From

LEMMA RowErrors ==
  ASSUME NEW p, NEW i
  PROVE  RowError(p, i) \in {"none", "validation", "invalidValue", "amountOutOfRange"}
<1>1. \A s, c : AssetRefError(s, c) \in {"none", "invalidValue"}
  BY DEF AssetRefError
<1>2. \A row, c : FeeError(row, c) \in {"none", "invalidValue", "amountOutOfRange"}
  BY <1>1, FromErrors DEF FeeError
<1>3. \A row : CsvError(row) \in {"none", "validation", "invalidValue", "amountOutOfRange"}
  BY <1>1, <1>2, FromErrors DEF CsvError, ??, ValidationUnless, SymbolError, AmountError
<1>4. \A row, c : TransferError(row, c) \in {"none", "invalidValue", "amountOutOfRange"}
  BY <1>1, <1>2, FromErrors DEF TransferError, ??
<1>5. QED
  BY <1>3, <1>4 DEF RowError

LEMMA NormalizeErrors ==
  ASSUME NEW draft
  PROVE  Normalize(draft) \in {"none", "unknownAsset", "invariantViolation"}
BY DEF Normalize

(* The checks a row has passed when its adapter throws nothing.            *)
LEMMA PassedCsv ==
  ASSUME NEW row, CsvError(row) = "none"
  PROVE  /\ row.side \in {"buy", "sell"}
         /\ From(row.baseAmount) = "none" /\ From(row.quoteAmount) = "none"
         /\ FeeError(row, NoChain) = "none"
         /\ row.instant = "valid"
BY DEF CsvError, ??, ValidationUnless, SymbolError, AmountError

LEMMA PassedTransfer ==
  ASSUME NEW row, NEW chain, TransferError(row, chain) = "none"
  PROVE  /\ From(row.baseAmount) = "none"
         /\ FeeError(row, chain) = "none"
BY DEF TransferError, ??

(* A fee is stored, or there is none, or it is not positive.               *)
LEMMA PassedFee ==
  ASSUME NEW row, NEW chain, FeeError(row, chain) = "none"
  PROVE  \/ ~StatesFee(row) /\ FeeLegs(row, chain) = <<>>
         \/ /\ StatesFee(row) /\ From(row.feeAmount) = "none"
            /\ IsPositive(ValueOf(row.feeAmount))
            /\ FeeLegs(row, chain) = <<Leg("fee", row.feeAsset, chain, row.feeAmount)>>
         \/ /\ StatesFee(row) /\ From(row.feeAmount) = "none"
            /\ ~IsPositive(ValueOf(row.feeAmount))
            /\ FeeLegs(row, chain) = <<>>
BY DEF FeeError, FeeLegs, ChargesFee

-----------------------------------------------------------------------------
(* A row is well-formed exactly if it passes the adapter and normalize.    *)

LEMMA CsvRowsAreWellFormed ==
  ASSUME NEW i \in DOMAIN Rows, payload.format = "csv", Rows[i].shape = "record",
         CsvError(Rows[i]) = "none", Normalize(CsvDraft(Rows[i])) = "none"
  PROVE  WellFormed(Rows[i])
<1> DEFINE row == Rows[i]
           draft == CsvDraft(row)
<1>1. /\ row.side \in {"buy", "sell"}
      /\ From(row.baseAmount) = "none" /\ From(row.quoteAmount) = "none"
      /\ FeeError(row, NoChain) = "none"
      /\ row.instant = "valid"
  BY PassedCsv
<1>2. /\ \A n \in DOMAIN draft.legs : draft.legs[n].asset \in Registry
      /\ \A n \in DOMAIN draft.legs : IsPositive(draft.legs[n].quantity)
  BY DEF Normalize, BreaksRule
<1>3. PICK fee \in {<<>>, <<Leg("fee", row.feeAsset, NoChain, row.feeAmount)>>} :
        FeeLegs(row, NoChain) = fee
  BY DEF FeeLegs
<1>4. /\ Len(draft.legs) = 2 + Len(fee)
      /\ DOMAIN draft.legs = 1 .. Len(draft.legs)
      /\ draft.legs[1].asset = [symbol |-> row.base, chain |-> NoChain]
      /\ draft.legs[1].quantity = ValueOf(row.baseAmount)
      /\ draft.legs[2].asset = [symbol |-> row.quote, chain |-> NoChain]
      /\ draft.legs[2].quantity = ValueOf(row.quoteAmount)
      /\ fee # <<>> => /\ draft.legs[3].asset = [symbol |-> row.feeAsset, chain |-> NoChain]
                       /\ draft.legs[3].quantity = ValueOf(row.feeAmount)
  BY <1>3 DEF CsvDraft, Leg
<1>5. /\ Known(row.base) /\ IsPositive(ValueOf(row.baseAmount))
      /\ Known(row.quote) /\ IsPositive(ValueOf(row.quoteAmount))
      /\ fee # <<>> => Known(row.feeAsset)
  <2>1. 1 \in DOMAIN draft.legs /\ 2 \in DOMAIN draft.legs
        /\ (fee # <<>> => 3 \in DOMAIN draft.legs)
    BY <1>3, <1>4
  <2>2. QED
    BY <1>2, <1>4, <2>1 DEF Known
<1>6. SoundFee(row)
  <2>1. CASE ~StatesFee(row)
    BY <2>1 DEF SoundFee, StatesFee
  <2>2. CASE /\ From(row.feeAmount) = "none" /\ IsPositive(ValueOf(row.feeAmount))
             /\ FeeLegs(row, NoChain) = <<Leg("fee", row.feeAsset, NoChain, row.feeAmount)>>
    <3>1. fee # <<>>
      BY <1>3, <2>2
    <3>2. QED
      BY <1>5, <2>2, <3>1, AcceptedText DEF SoundFee, IsQuantity, IsAmount
  <2>3. CASE From(row.feeAmount) = "none" /\ ~IsPositive(ValueOf(row.feeAmount))
    BY <2>3, AcceptedText DEF SoundFee, IsAmount
  <2>4. QED
    BY <1>1, <2>1, <2>2, <2>3, PassedFee
<1>7. QED
  BY <1>1, <1>5, <1>6, AcceptedText DEF WellFormed, IsQuantity, IsAmount

LEMMA TransfersAreWellFormed ==
  ASSUME NEW i \in DOMAIN Rows, payload.format = "json", FitsSchema(Rows[i]),
         TransferError(Rows[i], payload.chain) = "none",
         Normalize(TransferDraft(Rows[i], payload.chain)) = "none"
  PROVE  WellFormed(Rows[i])
<1> DEFINE row == Rows[i]
           draft == TransferDraft(row, payload.chain)
<1>1. /\ From(row.baseAmount) = "none"
      /\ FeeError(row, payload.chain) = "none"
  BY PassedTransfer
<1>2. /\ \A n \in DOMAIN draft.legs : draft.legs[n].asset \in Registry
      /\ \A n \in DOMAIN draft.legs : IsPositive(draft.legs[n].quantity)
  BY DEF Normalize, BreaksRule
<1>3. PICK fee \in {<<>>, <<Leg("fee", row.feeAsset, payload.chain, row.feeAmount)>>} :
        FeeLegs(row, payload.chain) = fee
  BY DEF FeeLegs
<1>4. /\ Len(draft.legs) = 1 + Len(fee)
      /\ DOMAIN draft.legs = 1 .. Len(draft.legs)
      /\ draft.legs[1].asset = [symbol |-> row.base, chain |-> payload.chain]
      /\ draft.legs[1].quantity = ValueOf(row.baseAmount)
      /\ fee # <<>> => /\ draft.legs[2].asset = [symbol |-> row.feeAsset, chain |-> payload.chain]
                       /\ draft.legs[2].quantity = ValueOf(row.feeAmount)
  BY <1>3 DEF TransferDraft, Leg
<1>5. /\ Known(row.base) /\ IsPositive(ValueOf(row.baseAmount))
      /\ fee # <<>> => Known(row.feeAsset)
  <2>1. 1 \in DOMAIN draft.legs /\ (fee # <<>> => 2 \in DOMAIN draft.legs)
    BY <1>3, <1>4
  <2>2. QED
    BY <1>2, <1>4, <2>1 DEF Known
<1>6. SoundFee(row)
  <2>1. CASE ~StatesFee(row)
    BY <2>1 DEF SoundFee, StatesFee
  <2>2. CASE /\ From(row.feeAmount) = "none" /\ IsPositive(ValueOf(row.feeAmount))
             /\ FeeLegs(row, payload.chain)
                  = <<Leg("fee", row.feeAsset, payload.chain, row.feeAmount)>>
    <3>1. fee # <<>>
      BY <1>3, <2>2
    <3>2. QED
      BY <1>5, <2>2, <3>1, AcceptedText DEF SoundFee, IsQuantity, IsAmount
  <2>3. CASE From(row.feeAmount) = "none" /\ ~IsPositive(ValueOf(row.feeAmount))
    BY <2>3, AcceptedText DEF SoundFee, IsAmount
  <2>4. QED
    BY <1>1, <2>1, <2>2, <2>3, PassedFee
<1>7. QED
  BY <1>1, <1>5, <1>6, AcceptedText DEF WellFormed, FitsSchema, IsQuantity, IsAmount

(* Nothing that is sound is refused.                                       *)
LEMMA RegisteredNames ==
  ASSUME NEW symbol, NEW chain, [symbol |-> symbol, chain |-> chain] \in Registry
  PROVE  symbol # Empty /\ AssetRefError(symbol, chain) = "none"
<1>1. [symbol |-> symbol, chain |-> chain] \in [symbol : Tickers, chain : Slugs \cup {NoChain}]
  BY SourcesAssumption
<1>2. symbol \in Tickers /\ chain \in Slugs \cup {NoChain}
  BY <1>1
<1>3. QED
  BY <1>2, SourcesAssumption DEF AssetRefError

(* The legs of a draft of a sound row: one or two for the amounts, one for *)
(* a fee that is charged.                                                  *)
LEMMA SoundFees ==
  ASSUME NEW row, NEW chain, SoundFee(row),
         \A symbol : Known(symbol) <=> [symbol |-> symbol, chain |-> chain] \in Registry
  PROVE  /\ FeeError(row, chain) = "none"
         /\ \/ FeeLegs(row, chain) = <<>>
            \/ /\ FeeLegs(row, chain) = <<Leg("fee", row.feeAsset, chain, row.feeAmount)>>
               /\ Known(row.feeAsset) /\ IsPositive(ValueOf(row.feeAmount))
<1>1. CASE row.feeAmount = Empty \/ row.feeAsset = Empty
  BY <1>1 DEF FeeError, FeeLegs, StatesFee
<1>2. CASE StatesFee(row) /\ IsQuantity(row.feeAmount) /\ Known(row.feeAsset)
  <2>1. ChargesFee(row) /\ AssetRefError(row.feeAsset, chain) = "none"
    BY <1>2, RegisteredNames DEF IsQuantity, IsAmount, ChargesFee
  <2>2. QED
    BY <1>2, <2>1 DEF FeeError, FeeLegs, ChargesFee
<1>3. CASE StatesFee(row) /\ IsAmount(row.feeAmount) /\ ~IsPositive(ValueOf(row.feeAmount))
  BY <1>3 DEF FeeError, FeeLegs, IsAmount, ChargesFee
<1>4. QED
  BY <1>1, <1>2, <1>3 DEF SoundFee, StatesFee

LEMMA SoundRowsPass ==
  ASSUME NEW i \in DOMAIN Rows, payload.format \in {"csv", "json"}, Sound(Rows[i])
  PROVE  /\ RowError(payload, i) = "none"
         /\ Normalize(Draft(payload, i)) = "none"
<1> DEFINE row == Rows[i]
<1>1. /\ Known(row.base) /\ IsQuantity(row.baseAmount)
      /\ SoundFee(row) /\ row.instant = "valid"
  BY DEF Sound, WellFormed
<1>2. From(row.baseAmount) = "none" /\ row.baseAmount # Empty
  BY <1>1, DecimalAssumption DEF IsQuantity, IsAmount
<1>3. CASE payload.format = "csv"
  <2> DEFINE draft == CsvDraft(row)
  <2>1. row.side \in {"buy", "sell"} /\ Known(row.quote) /\ IsQuantity(row.quoteAmount)
    BY <1>3 DEF Sound, WellFormed
  <2>2. \A symbol : Known(symbol) <=> [symbol |-> symbol, chain |-> NoChain] \in Registry
    BY <1>3 DEF Known
  <2>3. From(row.quoteAmount) = "none" /\ row.quoteAmount # Empty
    BY <2>1, DecimalAssumption DEF IsQuantity, IsAmount
  <2>4. SymbolError(row.base) = "none" /\ SymbolError(row.quote) = "none"
    BY <1>1, <2>1, <2>2, RegisteredNames DEF SymbolError
  <2>5. FeeError(row, NoChain) = "none"
    BY <1>1, <2>2, SoundFees
  <2>6. CsvError(row) = "none"
    BY <1>1, <1>2, <2>1, <2>3, <2>4, <2>5
       DEF CsvError, ??, ValidationUnless, AmountError
  <2>7. PICK fee \in {<<>>, <<Leg("fee", row.feeAsset, NoChain, row.feeAmount)>>} :
          /\ FeeLegs(row, NoChain) = fee
          /\ fee # <<>> => Known(row.feeAsset) /\ IsPositive(ValueOf(row.feeAmount))
    BY <1>1, <2>2, SoundFees
  <2>8. /\ draft.kind = "trade" /\ draft.instant = "valid"
        /\ DOMAIN draft.legs = 1 .. (2 + Len(fee)) /\ draft.legs # <<>>
        /\ draft.legs[1].asset = [symbol |-> row.base, chain |-> NoChain]
        /\ draft.legs[1].quantity = ValueOf(row.baseAmount)
        /\ draft.legs[2].asset = [symbol |-> row.quote, chain |-> NoChain]
        /\ draft.legs[2].quantity = ValueOf(row.quoteAmount)
        /\ {draft.legs[1].direction, draft.legs[2].direction} = {"in", "out"}
        /\ fee # <<>> => /\ draft.legs[3].asset = [symbol |-> row.feeAsset, chain |-> NoChain]
                         /\ draft.legs[3].quantity = ValueOf(row.feeAmount)
    BY <1>1, <2>7 DEF CsvDraft, Leg
  <2>9. (fee = <<>> /\ Len(fee) = 0) \/ (fee # <<>> /\ Len(fee) = 1)
    <3>1. fee = <<>> \/ fee = <<Leg("fee", row.feeAsset, NoChain, row.feeAmount)>>
      OBVIOUS
    <3>2. QED
      BY <3>1
  <2> HIDE DEF draft
  <2>10. \A n \in DOMAIN draft.legs : n = 1 \/ n = 2 \/ (n = 3 /\ fee # <<>>)
    <3>1. DOMAIN draft.legs = 1 .. (2 + Len(fee))
      BY <2>8
    <3>2. CASE fee = <<>> /\ Len(fee) = 0
      BY <3>1, <3>2
    <3>3. CASE fee # <<>> /\ Len(fee) = 1
      BY <3>1, <3>3
    <3>4. QED
      BY <2>9, <3>2, <3>3
  <2>11. \A n \in DOMAIN draft.legs :
           draft.legs[n].asset \in Registry /\ IsPositive(draft.legs[n].quantity)
    BY <1>1, <2>1, <2>2, <2>7, <2>8, <2>10 DEF IsQuantity
  <2>12. HasOneOfEach(draft)
    <3>1. 1 \in DOMAIN draft.legs /\ 2 \in DOMAIN draft.legs
      BY <2>8, <2>9
    <3>2. \/ draft.legs[1].direction = "in" /\ draft.legs[2].direction = "out"
          \/ draft.legs[1].direction = "out" /\ draft.legs[2].direction = "in"
      BY <2>8
    <3>3. QED
      BY <3>1, <3>2 DEF HasOneOfEach, Legs
  <2>13. Normalize(draft) = "none"
    BY <2>8, <2>11, <2>12 DEF Normalize, BreaksRule, BreaksAnotherRule
  <2>14. QED
    BY <1>3, <2>6, <2>13 DEF RowError, Draft, draft, Rows
<1>4. CASE payload.format = "json"
  <2> DEFINE draft == TransferDraft(row, payload.chain)
  <2>1. row.side \in {"in", "out"}
    BY <1>4 DEF Sound, WellFormed
  <2>2. \A symbol : Known(symbol) <=> [symbol |-> symbol, chain |-> payload.chain] \in Registry
    BY <1>4 DEF Known
  <2>3. AssetRefError(row.base, payload.chain) = "none"
    BY <1>1, <2>2, RegisteredNames
  <2>4. FeeError(row, payload.chain) = "none"
    BY <1>1, <2>2, SoundFees
  <2>5. TransferError(row, payload.chain) = "none"
    BY <1>2, <2>3, <2>4 DEF TransferError, ??
  <2>6. PICK fee \in {<<>>, <<Leg("fee", row.feeAsset, payload.chain, row.feeAmount)>>} :
          /\ FeeLegs(row, payload.chain) = fee
          /\ fee # <<>> => Known(row.feeAsset) /\ IsPositive(ValueOf(row.feeAmount))
    BY <1>1, <2>2, SoundFees
  <2>7. /\ draft.kind = (IF row.side = "in" THEN "deposit" ELSE "withdrawal")
        /\ draft.instant = "valid"
        /\ DOMAIN draft.legs = 1 .. (1 + Len(fee)) /\ draft.legs # <<>>
        /\ draft.legs[1].asset = [symbol |-> row.base, chain |-> payload.chain]
        /\ draft.legs[1].quantity = ValueOf(row.baseAmount)
        /\ draft.legs[1].direction = row.side
        /\ fee # <<>> => /\ draft.legs[2].asset = [symbol |-> row.feeAsset, chain |-> payload.chain]
                         /\ draft.legs[2].quantity = ValueOf(row.feeAmount)
                         /\ draft.legs[2].direction = "fee"
    BY <1>1, <2>6 DEF TransferDraft, Leg
  <2>8. (fee = <<>> /\ Len(fee) = 0) \/ (fee # <<>> /\ Len(fee) = 1)
    <3>1. fee = <<>> \/ fee = <<Leg("fee", row.feeAsset, payload.chain, row.feeAmount)>>
      OBVIOUS
    <3>2. QED
      BY <3>1
  <2> HIDE DEF draft
  <2>9. \A n \in DOMAIN draft.legs : n = 1 \/ (n = 2 /\ fee # <<>>)
    <3>1. DOMAIN draft.legs = 1 .. (1 + Len(fee))
      BY <2>7
    <3>2. CASE fee = <<>> /\ Len(fee) = 0
      BY <3>1, <3>2
    <3>3. CASE fee # <<>> /\ Len(fee) = 1
      BY <3>1, <3>3
    <3>4. QED
      BY <2>8, <3>2, <3>3
  <2>10. \A n \in DOMAIN draft.legs :
           draft.legs[n].asset \in Registry /\ IsPositive(draft.legs[n].quantity)
    BY <1>1, <2>2, <2>6, <2>7, <2>9 DEF IsQuantity
  <2>11. 1 \in Legs(draft, row.side)
    BY <2>7, <2>8 DEF Legs
  <2>12. row.side = "in" => Legs(draft, "out") = {}
    BY <2>7, <2>9 DEF Legs
  <2>13. ~BreaksAnotherRule(draft)
    BY <2>1, <2>7, <2>11, <2>12 DEF BreaksAnotherRule
  <2>14. Normalize(draft) = "none"
    BY <2>7, <2>10, <2>13 DEF Normalize, BreaksRule
  <2>15. QED
    BY <1>4, <2>5, <2>14 DEF RowError, Draft, draft, Rows
<1>5. QED
  BY <1>3, <1>4

-----------------------------------------------------------------------------
(* The inductive invariant.                                                *)

(* The reference itself is what is wrong.                                  *)
NamedByReference(c) == c = payload.ref /\ payload.ref \in {"missing", "unreadable"}

(* What is in the streams has been read from a payload that can be read,   *)
(* and a stream that was destroyed says why.                               *)
StreamsAreHonest ==
  /\ payload.format = "json" => file = "none"
  /\ file \in {"open", "ended"} => payload.ref = "present"
  /\ fed > 0 \/ parser = "ended" => Readable
  /\ parser = "ended" => fed = Len(Rows)
  /\ \A i \in 1 .. fed : /\ Rows[i].shape = "record"
                         /\ payload.format = "json" => FitsSchema(Rows[i])
  /\ parser = "destroyed" /\ pc # "done" =>
       /\ payload.format = "csv"
       /\ NamedByReference(cause) \/ cause \in {"storage", "ragged"}

(* A chunk is full, or it is the last one.                                 *)
ChunkIsDue ==
  /\ saved < taken
  /\ taken - saved <= BatchSize
  /\ taken - saved = BatchSize \/ taken = Len(Rows)

(* Rows that were taken have passed the adapter, rows that are about to be *)
(* saved have passed normalize, and saved ones the table too.              *)
RowsAreChecked ==
  /\ \A i \in 1 .. taken : RowError(payload, i) = "none"
  /\ \A i \in 1 .. saved : Sound(Rows[i])
  /\ pc = "save" => \A i \in 1 .. taken : WellFormed(Rows[i])
  /\ pc \in {"open", "row"} => taken - saved < BatchSize
  /\ pc \in {"resolve", "save"} => ChunkIsDue
  /\ pc # "done" => thrown = "none"

ReadingInv == TypeOK /\ StreamsAreHonest /\ RowsAreChecked

LEMMA RowsAreASequence ==
  ASSUME TypeOK
  PROVE  /\ Rows \in Seq(Row) /\ DOMAIN Rows = 1 .. Len(Rows) /\ Len(Rows) \in Nat
         /\ payload.format \in {"csv", "json"}
         /\ payload.ref \in {"present", "missing", "escaping", "unreadable"}
         /\ fed \in Nat /\ taken \in Nat /\ saved \in Nat
         /\ saved <= taken /\ taken <= fed /\ fed <= Len(Rows)
BY DEF TypeOK, Rows, Payload

(* What is thrown out of the adapter is one of the errors.                 *)
LEMMA CaughtErrors ==
  ASSUME NEW e \in Errors
  PROVE  Caught(e) \in Errors
BY DEF Caught, CatchOfCsv, ToPayloadError, Errors

LEMMA ReadingInit ==
  ASSUME Init
  PROVE  ReadingInv
<1>1. payload \in Payload /\ BatchSize \in Nat \ {0}
  BY ReadingAssumption DEF Init
<1>2. Len(Rows) \in Nat
  BY <1>1 DEF Rows, Payload
<1>3. TypeOK
  BY <1>1, <1>2 DEF Init, TypeOK, Errors
<1>4. StreamsAreHonest
  BY <1>2 DEF Init, StreamsAreHonest
<1>5. RowsAreChecked
  BY <1>1 DEF Init, RowsAreChecked
<1>6. QED
  BY <1>3, <1>4, <1>5 DEF ReadingInv

(* Readable and Sound speak of the payload alone.                          *)
LEMMA PayloadDecides ==
  ASSUME payload' = payload
  PROVE  /\ Rows' = Rows /\ Readable' = Readable
         /\ \A row : Sound(row)' = Sound(row) /\ WellFormed(row)' = WellFormed(row)
BY DEF Rows, Readable, Sound, WellFormed, SoundFee, Known, IsQuantity, IsAmount

(* A chunk that is due and that the columns take is sound.                 *)
LEMMA SavedRowsAreSound ==
  ASSUME TypeOK, RowsAreChecked, pc = "save", ChunkIsStorable
  PROVE  \A i \in 1 .. taken : Sound(Rows[i])
<1>1. SUFFICES ASSUME NEW i \in 1 .. taken PROVE Sound(Rows[i])
  OBVIOUS
<1>2. i \in 1 .. saved \/ i \in saved + 1 .. taken
  BY RowsAreASequence
<1>3. CASE i \in 1 .. saved
  BY <1>3 DEF RowsAreChecked
<1>4. CASE i \in saved + 1 .. taken
  BY <1>4 DEF RowsAreChecked, ChunkIsStorable, Sound
<1>5. QED
  BY <1>2, <1>3, <1>4

LEMMA ThrowKeepsInv ==
  ASSUME ReadingInv, NEW e \in Errors, NEW how \in Errors, Throw(e, how),
         \/ saved' = saved
         \/ pc = "save" /\ saved' = taken /\ ChunkIsStorable
  PROVE  ReadingInv'
<1>1. TypeOK /\ StreamsAreHonest /\ RowsAreChecked
  BY DEF ReadingInv
<1>2. /\ pc' = "done" /\ thrown' = how /\ parser' = "destroyed"
      /\ payload' = payload /\ file' = file /\ fed' = fed /\ taken' = taken
      /\ cause' = IF cause = "none" THEN e ELSE cause
  BY DEF Throw
<1>3. /\ Rows' = Rows /\ Readable' = Readable
      /\ \A row : Sound(row)' = Sound(row) /\ WellFormed(row)' = WellFormed(row)
  BY <1>2, PayloadDecides
<1>4. TypeOK'
  BY <1>1, <1>2, <1>3, RowsAreASequence DEF TypeOK
<1>5. StreamsAreHonest'
  BY <1>1, <1>2, <1>3 DEF StreamsAreHonest
<1>6. \A i \in 1 .. saved' : Sound(Rows[i])
  BY <1>1, SavedRowsAreSound DEF RowsAreChecked
<1>7. RowsAreChecked'
  BY <1>1, <1>2, <1>3, <1>6 DEF RowsAreChecked
<1>8. QED
  BY <1>4, <1>5, <1>7 DEF ReadingInv

LEMMA StreamKeepsInv ==
  ASSUME ReadingInv, Stream
  PROVE  ReadingInv'
<1>1. TypeOK /\ StreamsAreHonest /\ RowsAreChecked
  BY DEF ReadingInv
<1>2. /\ payload' = payload /\ pc' = pc /\ thrown' = thrown
      /\ taken' = taken /\ saved' = saved
  BY DEF Stream, OpenFile, FeedRow, EndFile, LoseFile
<1>3. /\ Rows' = Rows /\ Readable' = Readable
      /\ \A row : Sound(row)' = Sound(row) /\ WellFormed(row)' = WellFormed(row)
  BY <1>2, PayloadDecides
<1>4. RowsAreChecked'
  BY <1>1, <1>2, <1>3 DEF RowsAreChecked, ChunkIsDue
<1>5. payload.format = "csv" /\ file # "none"
  BY <1>1, RowsAreASequence
     DEF Stream, OpenFile, FeedRow, EndFile, LoseFile, StreamsAreHonest
<1>6. TypeOK' /\ StreamsAreHonest'
  <2>1. CASE OpenFile
    <3>1. fed' = fed
      BY <2>1 DEF OpenFile
    <3>2. \/ file' = "open" /\ payload.ref = "present" /\ parser' = parser /\ cause' = cause
          \/ /\ file' = "failed" /\ parser' = "destroyed"
             /\ NamedByReference(cause') \/ cause' = "storage"
      BY <2>1 DEF OpenFile, FailFile, NamedByReference
    <3>3. TypeOK'
      BY <1>1, <1>2, <1>3, <3>1, <3>2 DEF TypeOK, Errors, NamedByReference
    <3>4. QED
      BY <1>1, <1>2, <1>3, <1>5, <3>1, <3>2, <3>3 DEF StreamsAreHonest, NamedByReference
  <2>2. CASE FeedRow
    <3>1. /\ file = "open" /\ file' = file /\ fed < Len(Rows)
          /\ \/ /\ Rows[fed + 1].shape = "record" /\ fed' = fed + 1
                /\ parser = "open" /\ parser' = parser /\ cause' = cause
             \/ parser' = "destroyed" /\ cause' = "ragged" /\ fed' = fed
      BY <2>2 DEF FeedRow
    <3>2. TypeOK'
      BY <1>1, <1>2, <1>3, <3>1, RowsAreASequence DEF TypeOK, Errors
    <3>3. Readable
      BY <1>1, <1>5, <3>1 DEF Readable, StreamsAreHonest
    <3>4. \A i \in 1 .. fed' : i \in 1 .. fed \/ (i = fed + 1 /\ fed' = fed + 1)
      BY <1>1, <3>1, RowsAreASequence
    <3>5. \A i \in 1 .. fed' : Rows[i].shape = "record"
      BY <1>1, <3>1, <3>4 DEF StreamsAreHonest
    <3>6. QED
      BY <1>1, <1>2, <1>3, <1>5, <3>1, <3>2, <3>3, <3>5 DEF StreamsAreHonest
  <2>3. CASE EndFile
    <3>1. /\ file = "open" /\ file' = "ended" /\ parser' = "ended" /\ cause' = cause
          /\ fed' = fed /\ fed = Len(Rows)
      BY <2>3 DEF EndFile
    <3>2. Readable
      BY <1>1, <1>5, <3>1 DEF Readable, StreamsAreHonest
    <3>3. TypeOK'
      BY <1>1, <1>2, <1>3, <3>1 DEF TypeOK
    <3>4. QED
      BY <1>1, <1>2, <1>3, <1>5, <3>1, <3>2, <3>3 DEF StreamsAreHonest
  <2>4. CASE LoseFile
    <3>1. file' = "failed" /\ parser' = "destroyed" /\ cause' = "storage" /\ fed' = fed
      BY <2>4 DEF LoseFile, FailFile
    <3>2. TypeOK'
      BY <1>1, <1>2, <1>3, <3>1 DEF TypeOK, Errors
    <3>3. QED
      BY <1>1, <1>2, <1>3, <1>5, <3>1, <3>2 DEF StreamsAreHonest
  <2>5. QED
    BY <2>1, <2>2, <2>3, <2>4 DEF Stream
<1>7. QED
  BY <1>4, <1>6 DEF ReadingInv

(* A row in the parser that its adapter and normalize let pass is as they  *)
(* demand.                                                                 *)
LEMMA RowIsWellFormed ==
  ASSUME TypeOK, StreamsAreHonest, NEW i \in 1 .. fed,
         RowError(payload, i) = "none", Normalize(Draft(payload, i)) = "none"
  PROVE  WellFormed(Rows[i])
<1>1. i \in DOMAIN Rows /\ payload.format \in {"csv", "json"} /\ Rows[i].shape = "record"
  BY RowsAreASequence DEF StreamsAreHonest
<1>2. CASE payload.format = "csv"
  BY <1>1, <1>2, CsvRowsAreWellFormed DEF RowError, Draft, Rows
<1>3. CASE payload.format = "json"
  <2>1. payload.format # "csv" /\ FitsSchema(Rows[i])
    BY <1>3 DEF StreamsAreHonest
  <2>2. QED
    BY <1>1, <1>3, <2>1, TransfersAreWellFormed DEF RowError, Draft, Rows
<1>4. QED
  BY <1>1, <1>2, <1>3

LEMMA TakeKeepsInv ==
  ASSUME ReadingInv, TakeRow
  PROVE  ReadingInv'
<1>1. TypeOK /\ StreamsAreHonest /\ RowsAreChecked
  BY DEF ReadingInv
<1> DEFINE e == RowError(payload, taken + 1)
<1>2. saved' = saved /\ pc = "row" /\ taken < fed
  BY DEF TakeRow
<1>3. \/ /\ e = "none" /\ taken' = taken + 1
         /\ pc' = IF taken' - saved >= BatchSize THEN "resolve" ELSE "row"
         /\ UNCHANGED <<fileVars, cause, thrown>>
      \/ e # "none" /\ Throw(e, Caught(e))
  BY DEF TakeRow
<1>4. Rows \in Seq(Row) /\ DOMAIN Rows = 1 .. Len(Rows) /\ taken + 1 \in DOMAIN Rows
  BY <1>1, <1>2, RowsAreASequence
<1>5. payload \in Payload
  BY <1>1 DEF TypeOK
<1>6. e \in Errors
  BY <1>4, <1>5, RowErrors DEF Errors, Rows
<1>7. CASE e # "none" /\ Throw(e, Caught(e))
  <2>1. Caught(e) \in Errors
    BY <1>6, CaughtErrors
  <2>2. QED
    BY <1>2, <1>6, <1>7, <2>1, ThrowKeepsInv
<1>8. CASE /\ e = "none" /\ taken' = taken + 1
           /\ pc' = IF taken' - saved >= BatchSize THEN "resolve" ELSE "row"
           /\ UNCHANGED <<fileVars, cause, thrown>>
  <2>1. /\ payload' = payload /\ file' = file /\ parser' = parser /\ fed' = fed
        /\ cause' = cause /\ thrown' = thrown
        /\ pc' \in {"resolve", "row"}
    BY <1>8 DEF fileVars
  <2>2. /\ Rows' = Rows /\ Readable' = Readable
        /\ \A row : Sound(row)' = Sound(row) /\ WellFormed(row)' = WellFormed(row)
    BY <2>1, PayloadDecides
  <2>3. /\ BatchSize \in Nat \ {0} /\ taken \in Nat /\ saved \in Nat /\ fed \in Nat
        /\ saved <= taken /\ taken - saved < BatchSize
    BY <1>1, <1>2, ReadingAssumption, RowsAreASequence DEF RowsAreChecked
  <2>4. TypeOK'
    BY <1>1, <1>2, <1>8, <2>1, <2>2, <2>3 DEF TypeOK
  <2>5. StreamsAreHonest'
    BY <1>1, <1>2, <2>1, <2>2 DEF StreamsAreHonest, NamedByReference
  <2>6. \A i \in 1 .. taken' : i \in 1 .. taken \/ i = taken + 1
    BY <1>8, <2>3
  <2>7. \A i \in 1 .. taken' : RowError(payload, i) = "none"
    BY <1>1, <1>8, <2>6 DEF RowsAreChecked
  <2>8. pc' = "row" => taken' - saved' < BatchSize
    BY <1>2, <1>8, <2>3
  <2>9. pc' = "resolve" => ChunkIsDue'
    BY <1>2, <1>8, <2>3 DEF ChunkIsDue
  <2>10. RowsAreChecked'
    BY <1>1, <1>2, <2>1, <2>2, <2>7, <2>8, <2>9 DEF RowsAreChecked
  <2>11. QED
    BY <2>4, <2>5, <2>10 DEF ReadingInv
<1>9. QED
  BY <1>3, <1>7, <1>8

LEMMA ResolveKeepsInv ==
  ASSUME ReadingInv, ResolveChunk
  PROVE  ReadingInv'
<1>1. TypeOK /\ StreamsAreHonest /\ RowsAreChecked
  BY DEF ReadingInv
<1>2. saved' = saved /\ pc = "resolve"
  BY DEF ResolveChunk
<1>3. payload \in Payload
  BY <1>1 DEF TypeOK
<1>4. CASE \E e \in ChunkErrors : Throw(e, e)
  <2>1. PICK e \in ChunkErrors : Throw(e, e)
    BY <1>4
  <2>2. PICK i \in saved + 1 .. taken : e = Normalize(Draft(payload, i))
    BY <2>1 DEF ChunkErrors
  <2>3. e \in Errors
    BY <2>2, NormalizeErrors DEF Errors
  <2>4. QED
    BY <1>2, <2>1, <2>3, ThrowKeepsInv
<1>5. CASE Throw("statement", "statement")
  BY <1>2, <1>5, ThrowKeepsInv DEF Errors
<1>6. CASE ChunkErrors = {} /\ pc' = "save" /\ UNCHANGED <<fileVars, taken, cause, thrown>>
  <2>1. /\ payload' = payload /\ file' = file /\ parser' = parser /\ fed' = fed
        /\ cause' = cause /\ thrown' = thrown /\ taken' = taken
    BY <1>6 DEF fileVars
  <2>2. /\ Rows' = Rows /\ Readable' = Readable
        /\ \A row : Sound(row)' = Sound(row) /\ WellFormed(row)' = WellFormed(row)
    BY <2>1, PayloadDecides
  <2>3. TypeOK'
    BY <1>1, <1>2, <1>6, <2>1, <2>2 DEF TypeOK
  <2>4. StreamsAreHonest'
    BY <1>1, <1>2, <1>6, <2>1, <2>2 DEF StreamsAreHonest, NamedByReference
  <2>5. \A i \in saved + 1 .. taken : Normalize(Draft(payload, i)) = "none"
    BY <1>6 DEF ChunkErrors
  <2>6. ASSUME NEW i \in 1 .. taken PROVE WellFormed(Rows[i])
    <3>1. i \in 1 .. saved \/ i \in saved + 1 .. taken
      BY <1>1, RowsAreASequence
    <3>2. CASE i \in 1 .. saved
      BY <1>1, <3>2 DEF RowsAreChecked, Sound
    <3>3. CASE i \in saved + 1 .. taken
      <4>1. i \in 1 .. fed
        BY <1>1, RowsAreASequence
      <4>2. RowError(payload, i) = "none" /\ Normalize(Draft(payload, i)) = "none"
        BY <1>1, <2>5, <3>3 DEF RowsAreChecked
      <4>3. QED
        BY <1>1, <4>1, <4>2, RowIsWellFormed
    <3>4. QED
      BY <3>1, <3>2, <3>3
  <2>7. RowsAreChecked'
    BY <1>1, <1>2, <1>6, <2>1, <2>2, <2>6 DEF RowsAreChecked, ChunkIsDue
  <2>8. QED
    BY <2>3, <2>4, <2>7 DEF ReadingInv
<1>7. QED
  BY <1>4, <1>5, <1>6 DEF ResolveChunk

LEMMA LoopKeepsInv ==
  ASSUME ReadingInv, Loop
  PROVE  ReadingInv'
<1>1. TypeOK /\ StreamsAreHonest /\ RowsAreChecked
  BY DEF ReadingInv
<1>2. /\ BatchSize \in Nat \ {0} /\ taken \in Nat /\ saved \in Nat /\ fed \in Nat
      /\ saved <= taken /\ taken <= fed /\ fed <= Len(Rows) /\ Len(Rows) \in Nat
  BY <1>1, ReadingAssumption, RowsAreASequence
<1>3. CASE OpenCsv
  <2>1. CASE Throw("validation", "validation")
    BY <1>3, <2>1, ThrowKeepsInv DEF OpenCsv, Errors
  <2>2. CASE /\ payload.ref # "escaping" /\ file' = "opening" /\ pc' = "row"
             /\ UNCHANGED <<payload, parser, fed, taken, cause, thrown>>
    <3>1. saved' = saved /\ pc = "open" /\ payload.format = "csv"
      BY <1>3 DEF OpenCsv
    <3>2. /\ Rows' = Rows /\ Readable' = Readable
          /\ \A row : Sound(row)' = Sound(row) /\ WellFormed(row)' = WellFormed(row)
      BY <2>2, PayloadDecides
    <3>3. TypeOK'
      BY <1>1, <2>2, <3>1, <3>2 DEF TypeOK
    <3>4. StreamsAreHonest'
      BY <1>1, <2>2, <3>1, <3>2 DEF StreamsAreHonest, NamedByReference
    <3>5. RowsAreChecked'
      BY <1>1, <2>2, <3>1, <3>2 DEF RowsAreChecked
    <3>6. QED
      BY <3>3, <3>4, <3>5 DEF ReadingInv
  <2>3. QED
    BY <1>3, <2>1, <2>2 DEF OpenCsv
<1>4. CASE OpenJson
  <2>1. CASE \/ Throw("validation", ToPayloadError("validation"))
             \/ Throw("missing", ToPayloadError("missing"))
             \/ Throw("unreadable", ToPayloadError("unreadable"))
             \/ Throw("storage", ToPayloadError("storage"))
             \/ Throw("validation", "validation")
    <3>1. \A e \in Errors : ToPayloadError(e) \in Errors
      BY DEF ToPayloadError, Errors
    <3>2. {"validation", "missing", "unreadable", "storage"} \subseteq Errors
      BY DEF Errors
    <3>3. saved' = saved
      BY <1>4 DEF OpenJson
    <3>4. QED
      BY <2>1, <3>1, <3>2, <3>3, ThrowKeepsInv
  <2>2. CASE /\ payload.ref = "present" /\ DocumentError(payload) = "none"
             /\ fed' = Len(Rows) /\ parser' = "ended" /\ pc' = "row"
             /\ UNCHANGED <<payload, file, taken, cause, thrown>>
    <3>1. saved' = saved /\ pc = "open" /\ payload.format = "json"
      BY <1>4 DEF OpenJson
    <3>2. /\ Rows' = Rows /\ Readable' = Readable
          /\ \A row : Sound(row)' = Sound(row) /\ WellFormed(row)' = WellFormed(row)
      BY <2>2, PayloadDecides
    <3>3. TypeOK'
      BY <1>1, <1>2, <2>2, <3>1, <3>2 DEF TypeOK
    <3>4. Readable
      BY <2>2 DEF Readable
    <3>5. \A i \in DOMAIN payload.rows : FitsSchema(payload.rows[i])
      BY <2>2 DEF DocumentError, ValidationUnless
    <3>6. \A i \in 1 .. Len(Rows) : Rows[i].shape = "record" /\ FitsSchema(Rows[i])
      BY <1>1, <3>5, RowsAreASequence DEF FitsSchema, Rows
    <3>7. StreamsAreHonest'
      BY <1>1, <2>2, <3>1, <3>2, <3>4, <3>6 DEF StreamsAreHonest
    <3>8. RowsAreChecked'
      BY <1>1, <2>2, <3>1, <3>2 DEF RowsAreChecked
    <3>9. QED
      BY <3>3, <3>7, <3>8 DEF ReadingInv
  <2>3. QED
    BY <1>4, <2>1, <2>2 DEF OpenJson
<1>5. CASE TakeRow
  BY <1>5, TakeKeepsInv
<1>6. CASE BreakOff
  <2>1. cause \in Errors
    BY <1>1 DEF TypeOK
  <2>2. QED
    BY <1>6, <2>1, CaughtErrors, ThrowKeepsInv DEF BreakOff
<1>7. CASE EndRows
  <2>1. /\ pc = "row" /\ parser = "ended" /\ taken = fed
        /\ pc' = IF taken > saved THEN "resolve" ELSE "done"
        /\ payload' = payload /\ file' = file /\ parser' = parser /\ fed' = fed
        /\ cause' = cause /\ thrown' = thrown /\ taken' = taken /\ saved' = saved
    BY <1>7 DEF EndRows, fileVars
  <2>2. /\ Rows' = Rows /\ Readable' = Readable
        /\ \A row : Sound(row)' = Sound(row) /\ WellFormed(row)' = WellFormed(row)
    BY <2>1, PayloadDecides
  <2>3. TypeOK'
    BY <1>1, <2>1, <2>2 DEF TypeOK
  <2>4. StreamsAreHonest'
    BY <1>1, <2>1, <2>2 DEF StreamsAreHonest
  <2>5. pc' = "resolve" => ChunkIsDue'
    <3>1. taken = Len(Rows)
      BY <1>1, <2>1 DEF StreamsAreHonest
    <3>2. taken - saved < BatchSize
      BY <1>1, <2>1 DEF RowsAreChecked
    <3>3. QED
      BY <1>2, <2>1, <2>2, <3>1, <3>2 DEF ChunkIsDue
  <2>6. RowsAreChecked'
    BY <1>1, <2>1, <2>2, <2>5 DEF RowsAreChecked
  <2>7. QED
    BY <2>3, <2>4, <2>6 DEF ReadingInv
<1>8. CASE ResolveChunk
  BY <1>8, ResolveKeepsInv
<1>9. CASE SaveChunk
  <2>1. pc = "save"
    BY <1>9 DEF SaveChunk
  <2>2. CASE /\ (ChunkIsStorable /\ saved' = taken) \/ UNCHANGED saved
             /\ \/ Throw("statement", "statement")
                \/ Throw("unstorable", "unstorable")
    <3>1. \/ saved' = saved
          \/ pc = "save" /\ saved' = taken /\ ChunkIsStorable
      BY <2>1, <2>2
    <3>2. QED
      BY <2>2, <3>1, ThrowKeepsInv DEF Errors
  <2>3. CASE /\ ChunkIsStorable /\ saved' = taken /\ pc' = "row"
             /\ UNCHANGED <<fileVars, taken, cause, thrown>>
    <3>1. /\ payload' = payload /\ file' = file /\ parser' = parser /\ fed' = fed
          /\ cause' = cause /\ thrown' = thrown /\ taken' = taken
      BY <2>3 DEF fileVars
    <3>2. /\ Rows' = Rows /\ Readable' = Readable
          /\ \A row : Sound(row)' = Sound(row) /\ WellFormed(row)' = WellFormed(row)
      BY <3>1, PayloadDecides
    <3>3. TypeOK'
      BY <1>1, <1>2, <2>3, <3>1, <3>2 DEF TypeOK
    <3>4. StreamsAreHonest'
      BY <1>1, <2>1, <2>3, <3>1, <3>2 DEF StreamsAreHonest, NamedByReference
    <3>5. \A i \in 1 .. taken : Sound(Rows[i])
      BY <1>1, <2>1, <2>3, SavedRowsAreSound
    <3>6. RowsAreChecked'
      BY <1>1, <1>2, <2>1, <2>3, <3>1, <3>2, <3>5 DEF RowsAreChecked
    <3>7. QED
      BY <3>3, <3>4, <3>6 DEF ReadingInv
  <2>4. \/ /\ (ChunkIsStorable /\ saved' = taken) \/ UNCHANGED saved
           /\ Throw("statement", "statement") \/ Throw("unstorable", "unstorable")
        \/ /\ ChunkIsStorable /\ saved' = taken /\ pc' = "row"
           /\ UNCHANGED <<fileVars, taken, cause, thrown>>
    BY <1>9 DEF SaveChunk
  <2>5. QED
    BY <2>2, <2>3, <2>4
<1>10. QED
  BY <1>3, <1>4, <1>5, <1>6, <1>7, <1>8, <1>9 DEF Loop

LEMMA ReadingIsInductive ==
  ASSUME ReadingInv, [Next]_vars
  PROVE  ReadingInv'
<1>1. CASE UNCHANGED vars
  BY <1>1 DEF vars, ReadingInv, TypeOK, StreamsAreHonest, RowsAreChecked, ChunkIsDue,
              Rows, Readable, NamedByReference, Sound, WellFormed, SoundFee, Known,
              IsQuantity, IsAmount
<1>2. QED
  BY <1>1, StreamKeepsInv, LoopKeepsInv DEF Next

LEMMA ReadingInvariant == Spec => []ReadingInv
<1>1. QED
  BY ReadingInit, ReadingIsInductive, PTL DEF Spec

-----------------------------------------------------------------------------

(* Every reading keeps to its types: the loop never takes more rows than   *)
(* the parser was fed, nor saves more than it took (runAttempt, chunked).  *)
THEOREM ReadingTypeCorrect == Spec => []TypeOK
BY ReadingInvariant, PTL DEF ReadingInv

(* The rows that are saved are sound, and amounts of sound rows come back  *)
(* out of the NUMERIC columns as they were stated (decimal.ts, schema.ts). *)
THEOREM AmountsAlwaysSurvive == Spec => []AmountsSurvive
<1>1. ReadingInv => AmountsSurvive
  <2> SUFFICES ASSUME ReadingInv, NEW i \in 1 .. saved
               PROVE  /\ Survives(Rows[i].baseAmount)
                      /\ payload.format = "csv" => Survives(Rows[i].quoteAmount)
                      /\ Len(Draft(payload, i).legs) = (IF payload.format = "csv" THEN 3 ELSE 2)
                           => Survives(Rows[i].feeAmount)
    BY DEF AmountsSurvive
  <2>1. TypeOK /\ RowsAreChecked
    BY DEF ReadingInv
  <2>2. Sound(Rows[i]) /\ RowError(payload, i) = "none"
    BY <2>1, RowsAreASequence DEF RowsAreChecked
  <2>3. \A cell : IsAmount(cell) => Survives(cell)
    BY AcceptedAmountsSurvive DEF IsAmount
  <2>4. Survives(Rows[i].baseAmount) /\ (payload.format = "csv" => Survives(Rows[i].quoteAmount))
    BY <2>2, <2>3 DEF Sound, WellFormed, IsQuantity
  <2>5. ASSUME Len(Draft(payload, i).legs) = (IF payload.format = "csv" THEN 3 ELSE 2)
        PROVE  Survives(Rows[i].feeAmount)
    <3>1. StatesFee(Rows[i]) /\ From(Rows[i].feeAmount) = "none"
      <4>1. ASSUME NEW chain, FeeLegs(Rows[i], chain) # <<>>
            PROVE  StatesFee(Rows[i]) /\ From(Rows[i].feeAmount) = "none"
        BY <4>1 DEF FeeLegs, ChargesFee
      <4>2. CASE payload.format = "csv"
        <5>1. FeeLegs(Rows[i], NoChain) = <<>> => Len(CsvDraft(Rows[i]).legs) = 2
          BY DEF CsvDraft
        <5>2. FeeLegs(Rows[i], NoChain) # <<>>
          BY <2>5, <4>2, <5>1 DEF Draft, Rows
        <5>3. QED
          BY <4>1, <5>2
      <4>3. CASE payload.format # "csv"
        <5>1. FeeLegs(Rows[i], payload.chain) = <<>>
                => Len(TransferDraft(Rows[i], payload.chain).legs) = 1
          BY DEF TransferDraft
        <5>2. Draft(payload, i) = TransferDraft(Rows[i], payload.chain)
          BY <4>3 DEF Draft, Rows
        <5>3. FeeLegs(Rows[i], payload.chain) # <<>>
          BY <2>5, <4>3, <5>1, <5>2
        <5>4. QED
          BY <4>1, <5>3
      <4>4. QED
        BY <4>2, <4>3
    <3>2. QED
      BY <3>1, AcceptedAmountsSurvive
  <2>6. QED
    BY <2>4, <2>5
<1>2. QED
  BY <1>1, ReadingInvariant, PTL

-----------------------------------------------------------------------------
(* The refinement.                                                         *)

SoundRows == [i \in DOMAIN Rows |-> Sound(Rows[i])]

LEMMA SoundRowsSequence ==
  ASSUME TypeOK
  PROVE  /\ SoundRows \in Seq(BOOLEAN)
         /\ Len(SoundRows) = Len(Rows) /\ DOMAIN SoundRows = DOMAIN Rows
<1>1. DOMAIN Rows = 1 .. Len(Rows) /\ Len(Rows) \in Nat
  BY RowsAreASequence
<1>2. \A row : Sound(row) \in BOOLEAN
  BY DEF Sound
<1>3. SoundRows \in [1 .. Len(Rows) -> BOOLEAN]
  BY <1>1, <1>2 DEF SoundRows
<1>4. QED
  BY <1>1, <1>3

LEMMA PayloadFixesView ==
  ASSUME payload' = payload
  PROVE  Readable' = Readable /\ SoundRows' = SoundRows
<1>1. Rows' = Rows /\ Readable' = Readable /\ \A row : Sound(row)' = Sound(row)
  BY PayloadDecides
<1>2. QED
  BY <1>1 DEF SoundRows

(* What is thrown is retried, or something is wrong with the payload.      *)
Justified(how) ==
  \/ how \in {"dependency", "statement", "unstorable"}
  \/ /\ how \in {"validation", "invalidValue", "amountOutOfRange",
                 "invariantViolation", "unknownAsset"}
     /\ ~Readable \/ \E i \in DOMAIN Rows : ~Sound(Rows[i])

LEMMA ThrowImplements ==
  ASSUME ReadingInv, pc # "done", NEW e, NEW how, Justified(how), Throw(e, how),
         saved' = saved
  PROVE  Contract!Next
<1>1. payload' = payload /\ pc' = "done" /\ thrown' = how
  BY DEF Throw
<1>2. Readable' = Readable /\ SoundRows' = SoundRows /\ DOMAIN SoundRows = DOMAIN Rows
  BY <1>1, PayloadFixesView, SoundRowsSequence DEF ReadingInv
<1>3. Verdict = "open"
  BY DEF Verdict
<1>4. CASE how \in {"dependency", "statement", "unstorable"}
  <2>1. Verdict' = "retry"
    BY <1>1, <1>4 DEF Verdict, ClassOf, IsRetryable, Retryable
  <2>2. QED
    BY <1>2, <1>3, <2>1 DEF Contract!Next, Contract!Interrupt, SoundRows
<1>5. CASE /\ how \in {"validation", "invalidValue", "amountOutOfRange",
                       "invariantViolation", "unknownAsset"}
           /\ ~Readable \/ \E i \in DOMAIN Rows : ~Sound(Rows[i])
  <2>1. Verdict' = "failed"
    BY <1>1, <1>5 DEF Verdict, ClassOf, IsRetryable, Retryable
  <2>2. ~Readable \/ \E i \in DOMAIN SoundRows : ~SoundRows[i]
    BY <1>2, <1>5 DEF SoundRows
  <2>3. QED
    BY <1>2, <1>3, <2>1, <2>2 DEF Contract!Next, Contract!Refuse, SoundRows
<1>6. QED
  BY <1>4, <1>5 DEF Justified

(* A step that moves neither the saved rows nor the verdict.               *)
LEMMA QuietSteps ==
  ASSUME payload' = payload, saved' = saved, thrown' = thrown,
         pc' = pc \/ (pc # "done" /\ pc' # "done")
  PROVE  UNCHANGED Contract!vars
<1>1. Readable' = Readable /\ SoundRows' = SoundRows
  BY PayloadFixesView
<1>2. Verdict' = Verdict
  BY DEF Verdict
<1>3. QED
  BY <1>1, <1>2 DEF Contract!vars, SoundRows

LEMMA LoopImplements ==
  ASSUME ReadingInv, Loop
  PROVE  [Contract!Next]_Contract!vars
<1>1. TypeOK /\ StreamsAreHonest /\ RowsAreChecked
  BY DEF ReadingInv
<1>2. CASE OpenCsv
  <2>1. pc = "open" /\ saved' = saved
    BY <1>2 DEF OpenCsv
  <2>2. CASE payload.ref = "escaping" /\ Throw("validation", "validation")
    BY <2>1, <2>2, ThrowImplements DEF Justified, Readable
  <2>3. CASE pc' = "row" /\ UNCHANGED <<payload, parser, fed, taken, cause, thrown>>
    BY <2>1, <2>3, QuietSteps
  <2>4. QED
    BY <1>2, <2>2, <2>3 DEF OpenCsv
<1>3. CASE OpenJson
  <2>1. pc = "open" /\ payload.format = "json" /\ saved' = saved
    BY <1>3 DEF OpenJson
  <2>2. CASE Throw("validation", ToPayloadError("validation"))
    BY <2>1, <2>2, ThrowImplements DEF Justified, ToPayloadError
  <2>3. CASE /\ payload.ref \in {"missing", "unreadable"}
             /\ Throw(payload.ref, ToPayloadError(payload.ref))
    <3>1. Justified(ToPayloadError(payload.ref))
      BY <2>3 DEF Justified, ToPayloadError, Readable
    <3>2. QED
      BY <2>1, <2>3, <3>1, ThrowImplements
  <2>4. CASE Throw("storage", ToPayloadError("storage"))
    BY <2>1, <2>4, ThrowImplements DEF Justified, ToPayloadError
  <2>5. CASE DocumentError(payload) # "none" /\ Throw("validation", "validation")
    BY <2>1, <2>5, ThrowImplements DEF Justified, Readable
  <2>6. CASE pc' = "row" /\ UNCHANGED <<payload, file, taken, cause, thrown>>
    BY <2>1, <2>6, QuietSteps
  <2>7. QED
    BY <1>3, <2>2, <2>3, <2>4, <2>5, <2>6 DEF OpenJson
<1>4. CASE TakeRow
  <2> DEFINE e == RowError(payload, taken + 1)
  <2>1. pc = "row" /\ saved' = saved /\ taken + 1 \in DOMAIN Rows
    BY <1>1, <1>4, RowsAreASequence DEF TakeRow
  <2>2. CASE /\ pc' = IF taken' - saved >= BatchSize THEN "resolve" ELSE "row"
             /\ UNCHANGED <<fileVars, cause, thrown>>
    <3>1. payload' = payload /\ thrown' = thrown /\ pc' # "done"
      BY <2>2 DEF fileVars
    <3>2. QED
      BY <2>1, <3>1, QuietSteps
  <2>3. CASE e # "none" /\ Throw(e, Caught(e))
    <3>1. ~Sound(Rows[taken + 1])
      BY <1>1, <2>1, <2>3, RowsAreASequence, SoundRowsPass
    <3>2. e \in {"validation", "invalidValue", "amountOutOfRange"}
      BY <2>3, RowErrors
    <3>3. Caught(e) = "dependency" \/ Caught(e) = e
      BY <3>2 DEF Caught, CatchOfCsv, ToPayloadError
    <3> HIDE DEF e
    <3>4. Justified(Caught(e))
      BY <2>1, <3>1, <3>2, <3>3 DEF Justified
    <3>5. QED
      BY <2>1, <2>3, <3>4, ThrowImplements
  <2>4. QED
    BY <1>4, <2>2, <2>3 DEF TakeRow
<1>5. CASE BreakOff
  <2>1. pc = "row" /\ parser = "destroyed" /\ saved' = saved /\ Throw(cause, Caught(cause))
    BY <1>5 DEF BreakOff
  <2>2. /\ payload.format = "csv"
        /\ NamedByReference(cause) \/ cause \in {"storage", "ragged"}
    BY <1>1, <2>1 DEF StreamsAreHonest
  <2>3. Justified(Caught(cause))
    BY <2>2 DEF Justified, Caught, CatchOfCsv, ToPayloadError, Readable, NamedByReference
  <2>4. QED
    BY <2>1, <2>3, ThrowImplements
<1>6. CASE EndRows
  <2>1. /\ pc = "row" /\ parser = "ended" /\ taken = fed
        /\ pc' = IF taken > saved THEN "resolve" ELSE "done"
        /\ payload' = payload /\ thrown' = thrown /\ saved' = saved
    BY <1>6 DEF EndRows, fileVars
  <2>2. CASE pc' = "resolve"
    BY <2>1, <2>2, QuietSteps
  <2>3. CASE pc' = "done" /\ ~(taken > saved)
    <3>1. Readable /\ saved = Len(Rows)
      BY <1>1, <2>1, <2>3, RowsAreASequence DEF StreamsAreHonest
    <3>2. Verdict = "open" /\ Verdict' = "completed"
      BY <1>1, <2>1, <2>3 DEF Verdict, RowsAreChecked
    <3>3. Readable' = Readable /\ SoundRows' = SoundRows /\ Len(SoundRows) = Len(Rows)
      BY <1>1, <2>1, PayloadFixesView, SoundRowsSequence
    <3>4. QED
      BY <2>1, <3>1, <3>2, <3>3 DEF Contract!Next, Contract!Complete, SoundRows
  <2>4. QED
    BY <2>1, <2>2, <2>3
<1>7. CASE ResolveChunk
  <2>1. pc = "resolve" /\ saved' = saved
    BY <1>7 DEF ResolveChunk
  <2>2. CASE pc' = "save" /\ UNCHANGED <<fileVars, taken, cause, thrown>>
    <3>1. payload' = payload /\ thrown' = thrown
      BY <2>2 DEF fileVars
    <3>2. QED
      BY <2>1, <2>2, <3>1, QuietSteps
  <2>3. CASE \E e \in ChunkErrors : Throw(e, e)
    <3>1. PICK e \in ChunkErrors : Throw(e, e)
      BY <2>3
    <3>2. PICK i \in saved + 1 .. taken : e = Normalize(Draft(payload, i)) /\ e # "none"
      BY <3>1 DEF ChunkErrors
    <3>3. i \in DOMAIN Rows
      BY <1>1, RowsAreASequence
    <3>4. ~Sound(Rows[i])
      BY <1>1, <3>2, <3>3, RowsAreASequence, SoundRowsPass
    <3>5. e \in {"invariantViolation", "unknownAsset"}
      BY <3>2, NormalizeErrors
    <3>6. Justified(e)
      BY <3>3, <3>4, <3>5 DEF Justified
    <3>7. QED
      BY <2>1, <3>1, <3>6, ThrowImplements
  <2>4. CASE Throw("statement", "statement")
    BY <2>1, <2>4, ThrowImplements DEF Justified
  <2>5. QED
    BY <1>7, <2>2, <2>3, <2>4 DEF ResolveChunk
<1>8. CASE SaveChunk
  <2>1. pc = "save"
    BY <1>8 DEF SaveChunk
  <2>2. CASE /\ saved' = saved
             /\ Throw("statement", "statement") \/ Throw("unstorable", "unstorable")
    BY <2>1, <2>2, ThrowImplements DEF Justified
  <2>3. CASE /\ ChunkIsStorable /\ saved' = taken
             /\ \/ pc' = "row" /\ UNCHANGED <<fileVars, taken, cause, thrown>>
                \/ Throw("statement", "statement")
    <3>1. payload' = payload
      BY <2>3 DEF Throw, fileVars
    <3>2. /\ Readable' = Readable /\ SoundRows' = SoundRows
          /\ Len(SoundRows) = Len(Rows) /\ DOMAIN SoundRows = DOMAIN Rows
      BY <1>1, <3>1, PayloadFixesView, SoundRowsSequence
    <3>3. ChunkIsDue /\ \A i \in 1 .. taken : Sound(Rows[i])
      BY <1>1, <2>1, <2>3, SavedRowsAreSound DEF RowsAreChecked
    <3>4. /\ BatchSize \in Nat \ {0} /\ taken \in Nat /\ saved \in Nat /\ fed \in Nat
          /\ taken <= fed /\ fed <= Len(Rows) /\ Len(Rows) \in Nat
      BY <1>1, ReadingAssumption, RowsAreASequence
    <3>5. saved < taken /\ fed > 0
      BY <3>3, <3>4 DEF ChunkIsDue
    <3>6. Readable
      BY <1>1, <3>5 DEF StreamsAreHonest
    <3>7. saved < Len(Rows)
          /\ taken = IF saved + BatchSize < Len(Rows) THEN saved + BatchSize ELSE Len(Rows)
      BY <3>3, <3>4 DEF ChunkIsDue
    <3>8. \A i \in 1 .. taken : SoundRows[i]
      <4>1. \A i \in 1 .. taken : i \in DOMAIN Rows
        BY <1>1, <3>4, RowsAreASequence
      <4>2. QED
        BY <3>3, <4>1 DEF SoundRows
    <3>9. Contract!SaveChunk
      <4>1. /\ saved' = taken /\ saved < Len(SoundRows)
            /\ taken = IF saved + BatchSize < Len(SoundRows)
                         THEN saved + BatchSize ELSE Len(SoundRows)
        BY <2>3, <3>2, <3>7
      <4>2. QED
        BY <3>6, <3>8, <4>1 DEF Contract!SaveChunk, SoundRows
    <3>10. Verdict = "open" /\ Verdict' \in {"open", "retry"}
      <4>1. Verdict = "open"
        BY <2>1 DEF Verdict
      <4>2. CASE pc' = "row"
        BY <4>1, <4>2 DEF Verdict
      <4>3. CASE Throw("statement", "statement")
        BY <4>1, <4>3 DEF Verdict, Throw, ClassOf, IsRetryable, Retryable
      <4>4. QED
        BY <2>3, <4>1, <4>2, <4>3
    <3>11. QED
      BY <3>2, <3>9, <3>10
         DEF Contract!Next, Contract!Progress, Contract!Interrupt, SoundRows
  <2>4. QED
    BY <1>8, <2>2, <2>3 DEF SaveChunk
<1>9. QED
  BY <1>2, <1>3, <1>4, <1>5, <1>6, <1>7, <1>8 DEF Loop

(* Every reading is one the contract allows: only sound rows are stored,   *)
(* in whole chunks; `completed` is said of all rows only; and a payload is *)
(* refused for good only if something is wrong with it.                    *)
THEOREM ReadingImplementsContract == Spec => KeepsContract
<1>1. Init => Contract!Init
  <2> SUFFICES ASSUME Init PROVE Contract!Init
    OBVIOUS
  <2>1. TypeOK
    BY ReadingInit DEF ReadingInv
  <2>2. Readable \in BOOLEAN
    BY DEF Readable
  <2>3. saved = 0 /\ Verdict = "open"
    BY DEF Init, Verdict
  <2>4. QED
    BY <2>1, <2>2, <2>3, SoundRowsSequence DEF Contract!Init, SoundRows
<1>2. ReadingInv /\ [Next]_vars => [Contract!Next]_Contract!vars
  <2> SUFFICES ASSUME ReadingInv, [Next]_vars PROVE [Contract!Next]_Contract!vars
    OBVIOUS
  <2>1. CASE Stream
    <3>1. payload' = payload /\ pc' = pc /\ thrown' = thrown /\ saved' = saved
      BY <2>1 DEF Stream, OpenFile, FeedRow, EndFile, LoseFile
    <3>2. QED
      BY <3>1, QuietSteps
  <2>2. CASE Loop
    BY <2>2, LoopImplements
  <2>3. CASE UNCHANGED vars
    <3>1. payload' = payload /\ pc' = pc /\ thrown' = thrown /\ saved' = saved
      BY <2>3 DEF vars
    <3>2. QED
      BY <3>1, QuietSteps
  <2>4. QED
    BY <2>1, <2>2, <2>3 DEF Next
<1>3. QED
  BY <1>1, <1>2, ReadingInvariant, PTL DEF Spec, KeepsContract, Contract!Spec

-----------------------------------------------------------------------------
(* Which defects are retried.                                              *)

(* The defects that are retried.  The domain errors and the parser's own   *)
(* lose their kind in the CSV adapter's catch, as the ValidationError of   *)
(* resolveRef does in readText's; toPayloadError takes a reference that is *)
(* not readable for trouble of the store; and what a column refuses is an  *)
(* error of the driver's, which has no kind.                               *)
RetriedDefect(e) ==
  \/ payload.format = "csv" /\ e \in {"ragged", "invalidValue", "amountOutOfRange"}
  \/ payload.format = "json" /\ payload.ref = "escaping" /\ e = "validation"
  \/ e \in {"unreadable", "unstorable"}

(* An error that came of c may be thrown as how.                           *)
KeepsKind(c, how) ==
  c \in {"none", "storage", "statement"} \/ RetriedDefect(c) \/ ~IsRetryable(ClassOf(how))

(* Once the loop is left, the file and the parser name no other cause.     *)
KindsAreKept ==
  /\ pc = "open" => file = "none" /\ parser = "open" /\ fed = 0
  /\ file = "opening" => parser = "open" /\ fed = 0
  /\ pc = "done" => parser # "open"
  /\ pc # "done" /\ cause # "none" =>
       /\ payload.format = "csv"
       /\ NamedByReference(cause) \/ cause \in {"storage", "ragged"}
  /\ pc = "done" => KeepsKind(cause, thrown)

LEMMA PermanentKinds ==
  ASSUME NEW how \in {"validation", "invalidValue", "amountOutOfRange",
                      "invariantViolation", "unknownAsset"}
  PROVE  ~IsRetryable(ClassOf(how))
BY DEF ClassOf, IsRetryable, Retryable

LEMMA ThrowKeepsKinds ==
  ASSUME KindsAreKept, NEW e, NEW how, Throw(e, how),
         KeepsKind(IF cause = "none" THEN e ELSE cause, how),
         file # "opening"
  PROVE  KindsAreKept'
BY DEF KindsAreKept, Throw, KeepsKind, RetriedDefect, NamedByReference

(* Where rows have been fed, the payload was there.                        *)
LEMMA LateCauses ==
  ASSUME ReadingInv, KindsAreKept, pc # "done", fed > 0
  PROVE  /\ cause \in {"none", "storage"} \/ RetriedDefect(cause)
         /\ file # "opening"
BY RowsAreASequence DEF ReadingInv, StreamsAreHonest, KindsAreKept, NamedByReference,
                         RetriedDefect, Readable

LEMMA StreamKeepsKinds ==
  ASSUME ReadingInv, KindsAreKept, Stream
  PROVE  KindsAreKept'
<1>1. payload' = payload /\ pc' = pc /\ thrown' = thrown
  BY DEF Stream, OpenFile, FeedRow, EndFile, LoseFile
<1>2. payload.format = "csv"
  BY RowsAreASequence
     DEF ReadingInv, StreamsAreHonest, Stream, OpenFile, FeedRow, EndFile, LoseFile
<1>3. pc \notin {"open", "done"} /\ parser = "open"
  BY DEF KindsAreKept, Stream, OpenFile, FeedRow, EndFile, LoseFile
<1>4. /\ file' # "opening"
      /\ \/ cause' = cause
         \/ NamedByReference(cause')
         \/ cause' \in {"storage", "ragged"}
  BY DEF Stream, OpenFile, FeedRow, EndFile, LoseFile, FailFile, NamedByReference
<1>5. QED
  BY <1>1, <1>2, <1>3, <1>4 DEF KindsAreKept, NamedByReference

(* What the loop throws keeps its kind, unless it is one of those.         *)
LEMMA LoopKeepsKinds ==
  ASSUME ReadingInv, KindsAreKept, Loop
  PROVE  KindsAreKept'
<1>1. TypeOK /\ StreamsAreHonest /\ RowsAreChecked
  BY DEF ReadingInv
<1>2. CASE OpenCsv
  <2>1. CASE Throw("validation", "validation")
    BY <1>2, <2>1, PermanentKinds, ThrowKeepsKinds DEF OpenCsv, KindsAreKept, KeepsKind
  <2>2. CASE /\ file' = "opening" /\ pc' = "row"
             /\ UNCHANGED <<payload, parser, fed, taken, cause, thrown>>
    BY <1>2, <2>2 DEF OpenCsv, KindsAreKept, NamedByReference
  <2>3. QED
    BY <1>2, <2>1, <2>2 DEF OpenCsv
<1>3. CASE OpenJson
  <2>1. /\ pc = "open" /\ payload.format = "json" /\ file = "none" /\ cause = "none"
    BY <1>3 DEF OpenJson, KindsAreKept
  <2>2. CASE payload.ref = "escaping" /\ Throw("validation", ToPayloadError("validation"))
    BY <2>1, <2>2, ThrowKeepsKinds DEF KeepsKind, RetriedDefect
  <2>3. CASE /\ payload.ref \in {"missing", "unreadable"}
             /\ Throw(payload.ref, ToPayloadError(payload.ref))
    <3>1. KeepsKind(payload.ref, ToPayloadError(payload.ref))
      BY <2>3, PermanentKinds DEF KeepsKind, RetriedDefect, ToPayloadError
    <3>2. QED
      BY <2>1, <2>3, <3>1, ThrowKeepsKinds
  <2>4. CASE Throw("storage", ToPayloadError("storage"))
    BY <2>1, <2>4, ThrowKeepsKinds DEF KeepsKind
  <2>5. CASE Throw("validation", "validation")
    BY <2>1, <2>5, PermanentKinds, ThrowKeepsKinds DEF KeepsKind
  <2>6. CASE parser' = "ended" /\ pc' = "row" /\ UNCHANGED <<payload, file, taken, cause, thrown>>
    BY <2>1, <2>6 DEF KindsAreKept
  <2>7. QED
    BY <1>3, <2>2, <2>3, <2>4, <2>5, <2>6 DEF OpenJson
<1>4. CASE TakeRow
  <2> DEFINE e == RowError(payload, taken + 1)
  <2>1. pc = "row" /\ fed > 0
    <3>1. pc = "row" /\ taken < fed
      BY <1>4 DEF TakeRow
    <3>2. QED
      BY <1>1, <3>1, RowsAreASequence
  <2>2. CASE /\ pc' = IF taken' - saved >= BatchSize THEN "resolve" ELSE "row"
             /\ UNCHANGED <<fileVars, cause, thrown>>
    BY <2>1, <2>2 DEF KindsAreKept, fileVars, NamedByReference
  <2>3. CASE e # "none" /\ Throw(e, Caught(e))
    <3>1. e \in {"validation", "invalidValue", "amountOutOfRange"}
      BY <2>3, RowErrors
    <3> HIDE DEF e
    <3>2. KeepsKind(e, Caught(e))
      <4>1. payload.format = "csv" \/ payload.format # "csv"
        OBVIOUS
      <4>2. QED
        BY <3>1, <4>1, PermanentKinds DEF KeepsKind, RetriedDefect, Caught, CatchOfCsv
    <3>3. KeepsKind(IF cause = "none" THEN e ELSE cause, Caught(e))
      BY <2>1, <3>2, LateCauses DEF KeepsKind
    <3>4. QED
      BY <2>1, <2>3, <3>3, LateCauses, ThrowKeepsKinds
  <2>4. QED
    BY <1>4, <2>2, <2>3 DEF TakeRow
<1>5. CASE BreakOff
  <2>1. pc = "row" /\ parser = "destroyed" /\ Throw(cause, Caught(cause))
    BY <1>5 DEF BreakOff
  <2>2. /\ payload.format = "csv" /\ file # "opening"
        /\ NamedByReference(cause) \/ cause \in {"storage", "ragged"}
    BY <1>1, <2>1 DEF StreamsAreHonest, KindsAreKept
  <2>3. cause = "missing" => Caught(cause) = "validation"
    BY <2>2 DEF Caught, CatchOfCsv, ToPayloadError
  <2>4. KeepsKind(IF cause = "none" THEN cause ELSE cause, Caught(cause))
    BY <2>2, <2>3, PermanentKinds DEF KeepsKind, RetriedDefect, NamedByReference
  <2>5. QED
    BY <2>1, <2>2, <2>4, ThrowKeepsKinds
<1>6. CASE EndRows
  <2>1. /\ pc = "row" /\ parser = "ended" /\ pc' # "open"
        /\ UNCHANGED <<fileVars, cause, thrown>>
    BY <1>6 DEF EndRows
  <2>2. cause \in {"none", "storage"} \/ RetriedDefect(cause)
    BY <1>1, <2>1 DEF KindsAreKept, StreamsAreHonest, Readable, RetriedDefect, NamedByReference
  <2>3. QED
    BY <2>1, <2>2 DEF KindsAreKept, KeepsKind, fileVars, RetriedDefect, NamedByReference
<1>7. CASE ResolveChunk \/ SaveChunk
  <2>1. pc \in {"resolve", "save"} /\ fed > 0
    <3>1. pc \in {"resolve", "save"}
      BY <1>7 DEF ResolveChunk, SaveChunk
    <3>2. QED
      BY <1>1, <3>1, RowsAreASequence DEF RowsAreChecked, ChunkIsDue
  <2>2. ASSUME NEW e, KeepsKind(e, e), Throw(e, e)
        PROVE  KindsAreKept'
    <3>1. KeepsKind(IF cause = "none" THEN e ELSE cause, e)
      BY <2>1, <2>2, LateCauses DEF KeepsKind
    <3>2. QED
      BY <2>1, <2>2, <3>1, LateCauses, ThrowKeepsKinds
  <2>3. KeepsKind("statement", "statement") /\ KeepsKind("unstorable", "unstorable")
    BY DEF KeepsKind, RetriedDefect
  <2>4. \A e \in ChunkErrors : KeepsKind(e, e)
    BY NormalizeErrors, PermanentKinds DEF ChunkErrors, KeepsKind
  <2>5. CASE UNCHANGED <<fileVars, taken, cause, thrown>> /\ pc' \in {"row", "save"}
    BY <2>1, <2>5 DEF KindsAreKept, fileVars, NamedByReference
  <2>6. CASE ResolveChunk
    BY <2>2, <2>3, <2>4, <2>5, <2>6 DEF ResolveChunk
  <2>7. CASE SaveChunk
    BY <2>2, <2>3, <2>5, <2>7 DEF SaveChunk
  <2>8. QED
    BY <1>7, <2>6, <2>7
<1>8. QED
  BY <1>2, <1>3, <1>4, <1>5, <1>6, <1>7 DEF Loop

(* Malformed payloads, unknown sources and unknown assets fail without     *)
(* consuming retries (FR-12), but for RetriedDefect: whatever else is      *)
(* wrong with a payload, and however the file, the parser and the database *)
(* fail around it, its error is permanent when runAttempt catches it.      *)
THEOREM OnlyTheseDefectsAreRetried ==
  Spec => [](~RetriedDefect(cause) => DefectsAreNotRetried)
<1>1. Init => ReadingInv /\ KindsAreKept
  BY ReadingInit DEF Init, KindsAreKept
<1>2. ReadingInv /\ KindsAreKept /\ [Next]_vars => (ReadingInv /\ KindsAreKept)'
  <2>1. ASSUME ReadingInv, KindsAreKept, UNCHANGED vars
        PROVE  KindsAreKept'
    BY <2>1 DEF KindsAreKept, vars, KeepsKind, RetriedDefect, NamedByReference
  <2>2. QED
    BY <2>1, ReadingIsInductive, StreamKeepsKinds, LoopKeepsKinds DEF Next
<1>3. KindsAreKept => (~RetriedDefect(cause) => DefectsAreNotRetried)
  BY DEF KindsAreKept, KeepsKind, DefectsAreNotRetried
<1>4. QED
  BY <1>1, <1>2, <1>3, PTL DEF Spec

=============================================================================
