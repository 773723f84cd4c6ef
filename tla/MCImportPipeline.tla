-------------------------- MODULE MCImportPipeline --------------------------
(***************************************************************************)
(* Small instances of ImportPipeline for TLC.                              *)
(***************************************************************************)
EXTENDS ImportPipeline, TLC

CONSTANTS k1, k2, b1, b2, bad, foreign, orphan, w1, w2, c1, c2, c3, r1, r2, r3, l1, l2

WorkerSymmetry == Permutations(Workers)

(* b1 and b2 are payloads of one wallet that overlap in r2, which b2 names *)
(* twice.  The chunk after bad's first cannot be read; foreign names       *)
(* another user's wallet; orphan's source has no adapter.                  *)
MCChunks ==
  [b \in Bodies |-> CASE b = b1     -> << <<r1>>, <<r2>> >>
                      [] b = b2     -> << <<r2, r3, r2>> >>
                      [] b = bad    -> << <<r1>> >>
                      [] OTHER      -> << <<r3>> >>]

MCRegistered == Bodies \ {orphan}

MCOwned == Bodies \ {foreign}

MCReadError == [b \in Bodies |-> IF b = bad THEN "validation" ELSE "none"]

OwnLocks == [k \in Keys |-> IF k = k1 THEN l1 ELSE l2]

OneLock == [k \in Keys |-> l1]

Disturb(requests, crashesApi, crashes, channels, lost, restarts) ==
  [d \in Disturbances |-> CASE d = "request"  -> requests
                            [] d = "crashApi" -> crashesApi
                            [] d = "crash"    -> crashes
                            [] d = "channel"  -> channels
                            [] d = "lock"     -> lost
                            [] d = "broker"   -> restarts]

-----------------------------------------------------------------------------

OneKey == [c \in Clients |-> k1]

OwnKeys == [c \in Clients |-> IF c = c3 THEN k2 ELSE k1]

ShortBody == [c \in Clients |-> b2]

OneBody == [c \in Clients |-> b1]

(* Two clients under one key with different payloads, a third that shares  *)
(* a row with the first.                                                   *)
RivalBodies == [c \in Clients |-> CASE c = c1 -> b1 [] c = c2 -> bad [] OTHER -> b2]

(* A request that is carried out, and two the worker or the intake refuse. *)
MixedBodies == [c \in Clients |-> CASE c = c1 -> b1 [] c = c2 -> foreign [] OTHER -> orphan]

LiveBudget == Disturb(2, 0, 1, 0, 0, 0)

QuietBudget == Disturb(2, 0, 0, 0, 0, 0)

RivalBudget == Disturb(2, 1, 0, 0, 1, 0)

OutageBudget == Disturb(1, 1, 1, 1, 0, 1)

BrokerBudget == Disturb(1, 0, 0, 0, 0, 1)

=============================================================================
