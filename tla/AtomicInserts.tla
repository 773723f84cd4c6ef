---------------------------- MODULE AtomicInserts ----------------------------
(***************************************************************************)
(* What `insert ... on conflict do nothing` promises the repositories, and *)
(* ImportStore takes for granted: a batch goes in at one instant, each of  *)
(* its keys that the table does not have then is the writer's, and a batch *)
(* that fails leaves nothing behind.                                       *)
(***************************************************************************)
EXTENDS Sequences, Functions

CONSTANTS Writers, Keys, Batch, NoWriter

VARIABLES author,    \* who wrote the row of a key
          outcome,   \* how a writer's batch ended
          inserted   \* the rows a writer was told it inserted

vars == <<author, outcome, inserted>>

Init ==
  /\ author = [k \in Keys |-> NoWriter]
  /\ outcome = [w \in Writers |-> "open"]
  /\ inserted = [w \in Writers |-> {}]

New(w) == {k \in Range(Batch[w]) : author[k] = NoWriter}

Insert(w) ==
  /\ outcome[w] = "open"
  /\ author' = [k \in Keys |-> IF k \in New(w) THEN w ELSE author[k]]
  /\ inserted' = [inserted EXCEPT ![w] = New(w)]
  /\ outcome' = [outcome EXCEPT ![w] = "committed"]

Abandon(w) ==
  /\ outcome[w] = "open"
  /\ outcome' = [outcome EXCEPT ![w] = "rolledBack"]
  /\ UNCHANGED <<author, inserted>>

Next == \E w \in Writers : Insert(w) \/ Abandon(w)

Spec == Init /\ [][Next]_vars

=============================================================================
