------------------------ MODULE MCTransactionListing ------------------------
(***************************************************************************)
(* A small instance of TransactionListing for TLC: six rows of which       *)
(* three share an instant, in four chunks of which two overlap.            *)
(***************************************************************************)
EXTENDS TransactionListing, TLC

SaverSymmetry == Permutations(Savers)

RowsAt(instant, ids) == {instant} \X ids

Oldest == RowsAt(1, {1})

Crowd == RowsAt(2, 1 .. 3)

Newest == RowsAt(3, 1 .. 2)

MCKeys == Oldest \cup Crowd \cup Newest

(* The crowd at once, one of it again with the oldest row, and the newest  *)
(* rows one by one.                                                        *)
MCBatches ==
  {Crowd, Oldest \cup RowsAt(2, {2})} \cup {{row} : row \in Newest}

=============================================================================
