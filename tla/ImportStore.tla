----------------------------- MODULE ImportStore -----------------------------
(***************************************************************************)
(* The PostgreSQL tables the pipeline shares: imports and transactions     *)
(* (packages/infrastructure/src/db/repositories/import.repository.ts and   *)
(* transaction.repository.ts, over migration 0001).                        *)
(*                                                                         *)
(* The legs of a transaction are inserted with it, by one database         *)
(* transaction, and are not kept apart from it.  The columns attempts,     *)
(* started_at, finished_at and error guard nothing and are left out.       *)
(***************************************************************************)
EXTENDS Import

CONSTANT NoKey        \* marks a row that is not in the table

ASSUME NoKeyAssumption == NoKey \notin Keys

VARIABLES imports,    \* the imports table
          stored      \* the transactions table: which import wrote a row

storeVars == <<imports, stored>>

StoreTypeOK ==
  /\ imports \in [Keys -> [status : Status, body : Bodies \cup {NoBody}, counts : Counts]]
  /\ \A k \in Keys : imports[k].status # "absent" => imports[k].body \in Bodies
  /\ stored \in [Rows -> Keys \cup {NoKey}]

StoreInit ==
  /\ imports = [k \in Keys |-> [status |-> "absent", body |-> NoBody, counts |-> EmptyCounts]]
  /\ stored = [r \in Rows |-> NoKey]

Exists(k) == imports[k].status # "absent"

Body(k) == imports[k].body

IsStored(r) == stored[r] # NoKey

-----------------------------------------------------------------------------

(* insert ... on conflict (user_id, idempotency_key) do nothing, the case  *)
(* where the row is inserted.                                              *)
CreateImport(k, b) ==
  /\ ~Exists(k)
  /\ imports' = [imports EXCEPT ![k] =
                   [status |-> "pending", body |-> b, counts |-> EmptyCounts]]

(* update ... set status = 'processing', whatever the status was.  The row *)
(* counts of an earlier attempt stay.                                      *)
BeginAttempt(k) ==
  imports' = [imports EXCEPT ![k].status = "processing"]

Complete(k, counts) ==
  imports' = [imports EXCEPT ![k].status = "completed", ![k].counts = counts]

(* The where clause finds no row for an import that does not exist.        *)
Fail(k) ==
  imports' = [imports EXCEPT ![k].status = IF @ = "absent" THEN @ ELSE "failed"]

-----------------------------------------------------------------------------

(* The rows `returning id` gives back: those the table did not have, each  *)
(* of them once.                                                           *)
Inserted(batch) == {r \in Range(batch) : ~IsStored(r)}

SaveByOverwriting(k, batch) ==
  stored' = [r \in Rows |-> IF r \in Range(batch) THEN k ELSE stored[r]]

(* One transaction: insert ... on conflict (wallet_id, external_id) do     *)
(* nothing, then the legs of the rows that were inserted.                  *)
SaveBatch(k, batch) ==
  stored' = [r \in Rows |-> IF r \in Inserted(batch) THEN k ELSE stored[r]]

=============================================================================
