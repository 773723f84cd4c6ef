------------------------------- MODULE Sources -------------------------------
(***************************************************************************)
(* What the two adapters make of a payload, row by row:                    *)
(* acme-exchange-csv.adapter.ts, fake-chain-json.adapter.ts and            *)
(* payload-store.ts of packages/infrastructure/src/sources, with AssetRef  *)
(* of packages/domain/src/asset/asset.ts.                                  *)
(*                                                                         *)
(* A row is the cells both formats have a use for; the JSON feed moves     *)
(* base only.  An operator named ...Error gives the error that is thrown,  *)
(* or "none".                                                              *)
(***************************************************************************)
EXTENDS TransactionRules

CONSTANTS Tickers,        \* symbols of the pattern AssetRef asks for
          Slugs,          \* chains of its pattern
          NoChain         \* a reference that names no chain

(* Assets are registered under the names AssetRef gives them.              *)
ASSUME SourcesAssumption ==
  /\ Registry \subseteq [symbol : Tickers, chain : Slugs \cup {NoChain}]
  /\ Empty \notin Tickers

Cell(S) == S \cup {Malformed, Empty}

(* Neither an adapter nor a rule looks into a source id, and an instant is *)
(* any a Date can hold.  A row that is not storable has one the columns do *)
(* not take: an id with a NUL in it or too long for its index, an instant  *)
(* before timestamptz begins.                                              *)
Row == [shape       : {"record", "ragged"},
        side        : {"buy", "sell", "in", "out"} \cup {Malformed, Empty},
        base        : Cell(Tickers),
        quote       : Cell(Tickers),
        baseAmount  : Cell(Text),
        quoteAmount : Cell(Text),
        feeAmount   : Cell(Text),
        feeAsset    : Cell(Tickers),
        instant     : Cell({"valid"}),
        storable    : BOOLEAN]

(* A reference that is not readable, and never will be, is one to a        *)
(* directory, of a name too long, or, as the JSON adapter reads its file   *)
(* whole, to a file too large for a string.                                *)
Payload == [format : {"csv", "json"},
            ref    : {"present", "missing", "escaping", "unreadable"},
            syntax : BOOLEAN,               \* whether JSON.parse accepts it
            chain  : Cell(Slugs) \cup {NoChain},
            rows   : Seq(Row)]

-----------------------------------------------------------------------------

(* Two checks one after the other: the first that throws.                  *)
e ?? f == IF e = "none" THEN f ELSE e

ValidationUnless(condition) == IF condition THEN "none" ELSE "validation"

AssetRefError(symbol, chain) ==
  IF symbol \in Tickers /\ chain \in Slugs \cup {NoChain} THEN "none" ELSE "invalidValue"

(* A required cell of the export, and what is made of it.                  *)
SymbolError(cell) == IF cell = Empty THEN "validation" ELSE AssetRefError(cell, NoChain)

AmountError(cell) == IF cell = Empty THEN "validation" ELSE From(cell)

Leg(direction, symbol, chain, amount) ==
  [direction |-> direction,
   asset     |-> [symbol |-> symbol, chain |-> chain],
   quantity  |-> ValueOf(amount)]

(* A fee is recorded if both of its cells are filled and it is positive.   *)
StatesFee(row) == row.feeAmount # Empty /\ row.feeAsset # Empty

ChargesFee(row) == From(row.feeAmount) = "none" /\ IsPositive(ValueOf(row.feeAmount))

FeeError(row, chain) ==
  IF ~StatesFee(row) THEN "none"
  ELSE IF ChargesFee(row) THEN AssetRefError(row.feeAsset, chain)
  ELSE From(row.feeAmount)

FeeLegs(row, chain) ==
  IF StatesFee(row) /\ ChargesFee(row)
    THEN <<Leg("fee", row.feeAsset, chain, row.feeAmount)>>
    ELSE <<>>

-----------------------------------------------------------------------------

(* toDraft of the CSV adapter, in the order of its checks.                 *)
CsvError(row) ==
     ValidationUnless(row.side \in {"buy", "sell"})
  ?? SymbolError(row.base)       ?? SymbolError(row.quote)
  ?? AmountError(row.baseAmount) ?? AmountError(row.quoteAmount)
  ?? FeeError(row, NoChain)
  ?? ValidationUnless(row.instant = "valid")

CsvDraft(row) ==
  LET bought == row.side = "buy" IN
    [kind    |-> "trade",
     instant |-> row.instant,
     legs    |-> <<Leg(IF bought THEN "in" ELSE "out", row.base, NoChain, row.baseAmount),
                   Leg(IF bought THEN "out" ELSE "in", row.quote, NoChain, row.quoteAmount)>>
                 \o FeeLegs(row, NoChain)]

(* transferSchema: strings are there and not empty, enumerations keep to   *)
(* their values, an instant is one; gasFee is absent or has both cells.    *)
FitsSchema(row) ==
  /\ row.shape = "record"
  /\ row.side \in {"in", "out"}
  /\ row.base # Empty /\ row.baseAmount # Empty
  /\ row.feeAmount = Empty <=> row.feeAsset = Empty
  /\ row.instant = "valid"

DocumentError(payload) ==
  ValidationUnless(/\ payload.syntax
                   /\ payload.chain # Empty
                   /\ \A i \in DOMAIN payload.rows : FitsSchema(payload.rows[i]))

TransferError(row, chain) ==
  AssetRefError(row.base, chain) ?? From(row.baseAmount) ?? FeeError(row, chain)

TransferDraft(row, chain) ==
  [kind    |-> IF row.side = "in" THEN "deposit" ELSE "withdrawal",
   instant |-> row.instant,
   legs    |-> <<Leg(row.side, row.base, chain, row.baseAmount)>> \o FeeLegs(row, chain)]

RowError(payload, i) ==
  IF payload.format = "csv" THEN CsvError(payload.rows[i])
                            ELSE TransferError(payload.rows[i], payload.chain)

Draft(payload, i) ==
  IF payload.format = "csv" THEN CsvDraft(payload.rows[i])
                            ELSE TransferDraft(payload.rows[i], payload.chain)

-----------------------------------------------------------------------------

(* A payload that is not there is permanent; anything else is taken for    *)
(* trouble of the store.                                                   *)
ToPayloadError(e) == IF e = "missing" THEN "validation" ELSE "dependency"

(* The catch around the CSV adapter's loop.                                *)
CatchOfCsv(e) == IF e = "validation" THEN e ELSE ToPayloadError(e)

(* The class of errors.ts an error belongs to.                             *)
ClassOf(e) ==
  CASE e \in {"invalidValue", "amountOutOfRange", "invariantViolation", "unknownAsset"}
                                        -> "domain"
    [] e \in {"validation", "dependency"} -> e
    [] OTHER                            -> "unknown"

=============================================================================
