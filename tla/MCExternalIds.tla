---------------------------- MODULE MCExternalIds ----------------------------
(***************************************************************************)
(* A small instance of ExternalIds for TLC: two equal drafts whose legs    *)
(* come in another order, drafts with an id of their own, a re-export in   *)
(* another order and a longer export with a third duplicate.               *)
(***************************************************************************)
EXTENDS ExternalIds, TLC

CONSTANTS i1, i2, i3, e1, in, out, s1, s2

AttemptSymmetry == Permutations(Attempts)

Buy        == [sourceId |-> NoId, event |-> e1, legs |-> <<in, out>>]
SameBuy    == [sourceId |-> NoId, event |-> e1, legs |-> <<out, in>>]
Deposit    == [sourceId |-> NoId, event |-> e1, legs |-> <<in>>]
Known(id)  == [sourceId |-> id, event |-> e1, legs |-> <<in>>]

MCPayload ==
  [i \in Imports |-> CASE i = i1 -> <<Buy, Known(s1), SameBuy, Deposit>>
                       [] i = i2 -> <<Deposit, Buy, SameBuy, Known(s1)>>
                       [] i = i3 -> <<Buy, Buy, Buy, Known(s2), Known(s1)>>]

=============================================================================
