---------------------------- MODULE UniqueInserts ----------------------------
(***************************************************************************)
(* Concurrent `insert ... on conflict do nothing` on a unique constraint:  *)
(* saveBatch of packages/infrastructure/src/db/repositories/               *)
(* transaction.repository.ts (wallet_id, external_id) and create of        *)
(* wallet.repository.ts (user_id, source_type, source_account_ref).        *)
(*                                                                         *)
(* PostgreSQL inserts the rows of a statement one after another.  A row    *)
(* whose key a running transaction has inserted waits for that transaction *)
(* to end; waiting transactions can form a cycle, and the deadlock         *)
(* detector rolls one of it back.                                          *)
(***************************************************************************)
EXTENDS Integers, Sequences, FiniteSets, Functions

CONSTANTS Writers,
          Keys,           \* the values of the unique columns
          Batch,          \* the rows of each writer's statement, by their keys
          NoWriter

ASSUME InsertsAssumption ==
  /\ NoWriter \notin Writers
  /\ Batch \in [Writers -> Seq(Keys)]

VARIABLES author,         \* the committed table: who wrote a key's row
          claim,          \* the running transaction that has inserted a key
          next,           \* the row a writer is at
          inserted,       \* what `returning` has for it
          stage

insertVars == <<author, claim, next, inserted, stage>>

InsertsTypeOK ==
  /\ author \in [Keys -> Writers \cup {NoWriter}]
  /\ claim \in [Keys -> Writers \cup {NoWriter}]
  /\ next \in [Writers -> Nat \ {0}]
  /\ inserted \in [Writers -> SUBSET Keys]
  /\ stage \in [Writers -> {"idle", "running", "committed", "rolledBack"}]

InsertsInit ==
  /\ author = [k \in Keys |-> NoWriter]
  /\ claim = [k \in Keys |-> NoWriter]
  /\ next = [w \in Writers |-> 1]
  /\ inserted = [w \in Writers |-> {}]
  /\ stage = [w \in Writers |-> "idle"]

HasRow(w) == next[w] <= Len(Batch[w])

Row(w) == Batch[w][next[w]]

Move(w, s) == stage' = [stage EXCEPT ![w] = s]

(* The locks of a transaction end with it.                                 *)
Release(w) ==
  claim' = [k \in Keys |-> IF claim[k] = w THEN NoWriter ELSE claim[k]]

-----------------------------------------------------------------------------

Begin(w) ==
  /\ stage[w] = "idle"
  /\ Move(w, "running")
  /\ UNCHANGED <<author, claim, next, inserted>>

InsertRowOrPassRival(w) ==
  /\ stage[w] = "running"
  /\ HasRow(w)
  /\ \/ /\ author[Row(w)] = NoWriter /\ claim[Row(w)] = NoWriter
        /\ claim' = [claim EXCEPT ![Row(w)] = w]
        /\ inserted' = [inserted EXCEPT ![w] = @ \cup {Row(w)}]
     \/ /\ author[Row(w)] # NoWriter \/ claim[Row(w)] # NoWriter
        /\ UNCHANGED <<claim, inserted>>
  /\ next' = [next EXCEPT ![w] = @ + 1]
  /\ UNCHANGED <<author, stage>>

(* A new key is claimed and returned, one that is there is passed over,    *)
(* and one that another transaction has claimed is waited for.             *)
InsertRow(w) ==
  /\ stage[w] = "running"
  /\ HasRow(w)
  /\ \/ /\ author[Row(w)] = NoWriter /\ claim[Row(w)] = NoWriter
        /\ claim' = [claim EXCEPT ![Row(w)] = w]
        /\ inserted' = [inserted EXCEPT ![w] = @ \cup {Row(w)}]
     \/ /\ author[Row(w)] # NoWriter \/ claim[Row(w)] = w
        /\ UNCHANGED <<claim, inserted>>
  /\ next' = [next EXCEPT ![w] = @ + 1]
  /\ UNCHANGED <<author, stage>>

Commit(w) ==
  /\ stage[w] = "running"
  /\ ~HasRow(w)
  /\ author' = [k \in Keys |-> IF claim[k] = w THEN w ELSE author[k]]
  /\ Release(w)
  /\ Move(w, "committed")
  /\ UNCHANGED <<next, inserted>>

RollBackHalfway(w) ==
  /\ Move(w, "rolledBack")
  /\ inserted' = [inserted EXCEPT ![w] = {}]
  /\ UNCHANGED <<author, claim, next>>

(* Kysely's transaction() rolls back what throws, and what returning gave  *)
(* is not looked at.                                                       *)
RollBack(w) ==
  /\ Release(w)
  /\ Move(w, "rolledBack")
  /\ inserted' = [inserted EXCEPT ![w] = {}]
  /\ UNCHANGED <<author, next>>

(* A statement fails or its connection goes.                               *)
FailInsert(w) == stage[w] = "running" /\ RollBack(w)

WaitsFor(v, w) ==
  /\ v # w
  /\ stage[v] = "running" /\ HasRow(v)
  /\ claim[Row(v)] = w

Waiting == {v \in Writers : \E w \in Writers : WaitsFor(v, w)}

(* Each of them waits for another of them.                                 *)
Closed(S) == S # {} /\ \A v \in S : \E w \in S : WaitsFor(v, w)

(* The detector rolls back one transaction of a cycle, the least of the    *)
(* closed sets: nobody waits for more than one.                            *)
BreakDeadlock ==
  \E S \in SUBSET Waiting :
    /\ Closed(S)
    /\ \A T \in SUBSET S : Closed(T) => T = S
    /\ \E w \in S : RollBack(w)

InsertStep(w) == Begin(w) \/ InsertRow(w) \/ Commit(w)

-----------------------------------------------------------------------------

Outcome(w) == IF stage[w] \in {"idle", "running"} THEN "open" ELSE stage[w]

Atomic == INSTANCE AtomicInserts WITH
  author   <- author,
  outcome  <- [w \in Writers |-> Outcome(w)],
  inserted <- [w \in Writers |-> IF Outcome(w) = "open" THEN {} ELSE inserted[w]]

(* The rows of a chunk go in one by one, beside other chunks that share    *)
(* some of them, in any order and with waits, deadlocks and failures: the  *)
(* chunk still goes in at one instant or not at all, and the repository    *)
(* is told exactly which rows are new then.                                *)
InsertsAreAtomic == Atomic!Spec

=============================================================================
