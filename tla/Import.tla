------------------------------- MODULE Import -------------------------------
(***************************************************************************)
(* The vocabulary of an import: packages/domain/src/import/import.ts and   *)
(* the payload an import names.                                            *)
(*                                                                         *)
(* An import is named by its (user, idempotency key), which is unique in   *)
(* the table and never reassigned.  A request body stands for everything   *)
(* the fingerprint covers: the wallet, its source and the payload.  A row  *)
(* of a payload is named by its natural key (wallet_id, external_id), and  *)
(* a payload may name one twice: a source id is used as it comes, and only *)
(* rows without one are told apart by their ordinal (external-id.ts).      *)
(***************************************************************************)
EXTENDS Integers, FiniteSets, Sequences, Functions

CONSTANTS Keys,       \* idempotency keys, each the name of at most one import
          Bodies,     \* request bodies
          Rows,       \* natural keys of transactions
          Chunks,     \* the payload of a body: its rows, in chunks of batchSize
          NoBody

ASSUME PayloadAssumption ==
  /\ IsFiniteSet(Rows)
  /\ Chunks \in [Bodies -> Seq(Seq(Rows))]
  /\ NoBody \notin Bodies

Status == {"absent", "pending", "processing", "completed", "failed"}

IsTerminal(status) == status \in {"completed", "failed"}

Counts == [total : Nat, imported : Nat, skipped : Nat]

EmptyCounts == [total |-> 0, imported |-> 0, skipped |-> 0]

(* The drafts of a payload: where its rows stand.                          *)
Drafts(b) ==
  UNION {{<<n, i>> : i \in 1 .. Len(Chunks[b][n])} : n \in 1 .. Len(Chunks[b])}

(* Every row the payload of a body names.                                  *)
RowsOf(b) == UNION {Range(Chunks[b][n]) : n \in 1 .. Len(Chunks[b])}

=============================================================================
