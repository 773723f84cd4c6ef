---------------------------- MODULE ImportLedger ----------------------------
(***************************************************************************)
(* What the pipeline promises, with no messages, workers or locks: the     *)
(* exactly-once effect of ADR-0007 over at-least-once delivery.            *)
(*                                                                         *)
(* A ledger gathers the rows of requested payloads.  A row is entered once *)
(* and for good, in the name of an import that asked for it; an import     *)
(* keeps the request it was made for; and `completed` is announced only    *)
(* over a payload that is in the ledger to the last row.  A verdict is not *)
(* final: the code lets a late delivery reopen or fail an import that has  *)
(* one, and what the ledger holds does not depend on it.                   *)
(***************************************************************************)
EXTENDS Import

CONSTANTS NoKey,
          Readable    \* the bodies whose payload can be read to its end

VARIABLES verdict, request, ledger

vars == <<verdict, request, ledger>>

Verdicts == {"none", "open", "completed", "failed"}

Known(k) == verdict[k] # "none"

Init ==
  /\ verdict = [k \in Keys |-> "none"]
  /\ request = [k \in Keys |-> NoBody]
  /\ ledger = [r \in Rows |-> NoKey]

Accept(k, b) ==
  /\ ~Known(k)
  /\ verdict' = [verdict EXCEPT ![k] = "open"]
  /\ request' = [request EXCEPT ![k] = b]
  /\ UNCHANGED ledger

(* Some rows of the payload that the ledger does not have are entered,     *)
(* all at once.                                                            *)
Enter(k, new) ==
  /\ verdict[k] # "none"
  /\ new \subseteq {r \in RowsOf(request[k]) : ledger[r] = NoKey}
  /\ ledger' = [r \in Rows |-> IF r \in new THEN k ELSE ledger[r]]
  /\ UNCHANGED <<verdict, request>>

Complete(k) ==
  /\ Known(k)
  /\ request[k] \in Readable
  /\ \A r \in RowsOf(request[k]) : ledger[r] # NoKey
  /\ verdict' = [verdict EXCEPT ![k] = "completed"]
  /\ UNCHANGED <<request, ledger>>

Fail(k) ==
  /\ Known(k)
  /\ verdict' = [verdict EXCEPT ![k] = "failed"]
  /\ UNCHANGED <<request, ledger>>

Reopen(k) ==
  /\ Known(k)
  /\ verdict' = [verdict EXCEPT ![k] = "open"]
  /\ UNCHANGED <<request, ledger>>

Next ==
  \E k \in Keys :
    \/ \E b \in Bodies : Accept(k, b)
    \/ \E new \in SUBSET Rows : Enter(k, new)
    \/ Complete(k)
    \/ Fail(k)
    \/ Reopen(k)

Spec == Init /\ [][Next]_vars

=============================================================================
