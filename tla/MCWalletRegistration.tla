------------------------ MODULE MCWalletRegistration ------------------------
(***************************************************************************)
(* A small instance of WalletRegistration for TLC: two requests for one    *)
(* wallet, which one writes with a blank around its reference, one for the *)
(* same account of another user, one that cannot be accepted; two chunks   *)
(* that share rows in opposite orders, one of them naming a row twice.     *)
(***************************************************************************)
EXTENDS WalletRegistration

CONSTANTS q1, q2, q3, q4, s1, s2, ann, bob, csv, acct, padded, blank, r1, r2

MCRequests == {q1, q2, q3, q4}

MCTrim == [r \in {acct, padded, blank} |-> IF r = padded THEN acct ELSE r]

MCCommand ==
  [q \in MCRequests |->
     [user   |-> IF q = q3 THEN bob ELSE ann,
      source |-> csv,
      ref    |-> CASE q = q2 -> padded [] q = q4 -> blank [] OTHER -> acct]]

MCBatch ==
  [w \in MCRequests \cup {s1, s2} |->
     CASE w = s1 -> <<r1, r2, r1>>
       [] w = s2 -> <<r2, r1>>
       [] OTHER  -> <<[MCCommand[w] EXCEPT !.ref = MCTrim[@]]>>]

MCKeys == {r1, r2} \cup {MCBatch[q][1] : q \in MCRequests}

=============================================================================
