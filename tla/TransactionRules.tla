-------------------------- MODULE TransactionRules --------------------------
(***************************************************************************)
(* What a transaction is: packages/domain/src/transaction/transaction.ts,  *)
(* with the asset lookup of packages/domain/src/normalization/normalize.ts *)
(* before it.                                                              *)
(***************************************************************************)
EXTENDS Decimals, FiniteSets

CONSTANT Registry         \* the assets table: symbol and chain of each asset

Legs(draft, direction) == {i \in DOMAIN draft.legs : draft.legs[i].direction = direction}

HasOneOfEach(draft) == Legs(draft, "in") # {} /\ Legs(draft, "out") # {}

BreaksAnotherRule(draft) ==
  CASE draft.kind = "trade"   -> ~HasOneOfEach(draft)
    [] draft.kind = "deposit" -> Legs(draft, "in") = {} \/ Legs(draft, "out") # {}
    [] draft.kind = "fee"     -> Len(draft.legs) # 1 \/ draft.legs[1].direction # "fee"
    [] OTHER                  -> Legs(draft, "out") = {}

(* createTransaction: the rules it throws InvariantViolationError for.     *)
BreaksRule(draft) ==
  \/ draft.legs = <<>>
  \/ \E i \in DOMAIN draft.legs : ~IsPositive(draft.legs[i].quantity)
  \/ draft.instant # "valid"
  \/ BreaksAnotherRule(draft)

(* AssetResolver.resolve returns the references the registry has, and      *)
(* toTransaction fails on the first leg whose asset is not among them.     *)
Normalize(draft) ==
  IF \E i \in DOMAIN draft.legs : draft.legs[i].asset \notin Registry THEN "unknownAsset"
  ELSE IF BreaksRule(draft) THEN "invariantViolation"
  ELSE "none"

=============================================================================
