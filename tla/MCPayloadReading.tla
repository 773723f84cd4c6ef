-------------------------- MODULE MCPayloadReading --------------------------
(***************************************************************************)
(* Small payloads for TLC: NUMERIC(3, 1) and two digits, every text of up  *)
(* to three integer digits and two decimal places, every defect of a row   *)
(* at every place of a payload of three.                                   *)
(***************************************************************************)
EXTENDS PayloadReading

CONSTANTS btc, usd, doge, main, side

Strings(S, least, most) == UNION {[1 .. n -> S] : n \in least .. most}

Texts == [minus : BOOLEAN, whole : Strings(Digits, 1, 3), fraction : Strings(Digits, 0, 2)]

MCPlaces == -2 .. 2

One == [minus |-> FALSE, whole |-> <<1>>, fraction |-> <<>>]

Fine == [minus |-> FALSE, whole |-> <<1>>, fraction |-> <<0, 1>>]

Zero == [One EXCEPT !.whole = <<0>>]

Minus == [One EXCEPT !.minus = TRUE]

(* doge is registered on no chain, and nothing is on the side chain.       *)
MCRegistry ==
  {[symbol |-> s, chain |-> c] : s \in {btc, usd}, c \in {NoChain, main}}

Fill ==
  [shape |-> "record", side |-> "buy", base |-> btc, quote |-> usd,
   baseAmount |-> One, quoteAmount |-> One, feeAmount |-> One, feeAsset |-> usd,
   instant |-> "valid", storable |-> TRUE]

Transfer == [Fill EXCEPT !.side = "in", !.quote = Empty, !.quoteAmount = Empty]

Spoilt(row) ==
       {[row EXCEPT !.shape = "ragged"]}
  \cup {[row EXCEPT !.side = c] : c \in {"buy", "sell", "out", Malformed}}
  \cup {[row EXCEPT !.base = c] : c \in {doge, Malformed, Empty}}
  \cup {[row EXCEPT !.quote = c] : c \in {doge, Empty}}
  \cup {[row EXCEPT !.baseAmount = c] : c \in {Zero, Minus, Fine, Malformed, Empty}}
  \cup {[row EXCEPT !.quoteAmount = c] : c \in {Zero, Fine, Empty}}
  \cup {[row EXCEPT !.feeAmount = c] : c \in {Zero, Minus, Fine, Malformed, Empty}}
  \cup {[row EXCEPT !.feeAsset = c] : c \in {doge, Malformed, Empty}}
  \cup {[row EXCEPT !.feeAmount = Empty, !.feeAsset = Empty]}
  \cup {[row EXCEPT !.instant = Malformed], [row EXCEPT !.storable = FALSE]}

Amounts(row) ==
       {[row EXCEPT !.baseAmount = t] : t \in Texts}
  \cup {[row EXCEPT !.feeAmount = t] : t \in Texts}

Document(format, rows) ==
  [format |-> format, ref |-> "present", syntax |-> TRUE,
   chain |-> IF format = "json" THEN main ELSE NoChain, rows |-> rows]

Among(row, odd) == {<<odd, row, row>>, <<row, odd, row>>, <<row, row, odd>>}

Documents(format, row) ==
       {Document(format, <<odd>>) : odd \in Amounts(row)}
  \cup {Document(format, rows) : rows \in UNION {Among(row, odd) : odd \in Spoilt(row)}}
  \cup {Document(format, <<>>)}

MCPayloads ==
  LET feed == Document("json", <<Transfer>>) IN
       Documents("csv", Fill)
  \cup Documents("json", Transfer)
  \cup {[Document(f, <<>>) EXCEPT !.ref = r] :
             f \in {"csv", "json"}, r \in {"missing", "escaping", "unreadable"}}
  \cup {[feed EXCEPT !.syntax = FALSE]}
  \cup {[feed EXCEPT !.chain = c] : c \in {side, Malformed, Empty}}

(* One row of an export whose amount is not a number.                      *)
MCSlips == {Document("csv", rows) : rows \in Among(Fill, [Fill EXCEPT !.baseAmount = Malformed])}

=============================================================================
