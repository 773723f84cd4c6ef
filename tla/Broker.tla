------------------------------- MODULE Broker -------------------------------
(***************************************************************************)
(* The RabbitMQ topology of packages/infrastructure/src/messaging:         *)
(* imports.normalize (ready), imports.normalize.retry (delayed, until its  *)
(* message TTL dead-letters it back) and imports.dlq (parked, which has no *)
(* consumer).  A queue is a bag: a redelivered message returns out of      *)
(* order and two copies of a job are told apart by nothing.                *)
(*                                                                         *)
(* Intake publishes on a confirm channel and waits, so its messages are on *)
(* disk.  The consumer's copies, sendToQueue to the retry queue and        *)
(* publish to the dead-letter exchange, are not waited for: they are in    *)
(* `unsynced` until the broker has written them.                           *)
(***************************************************************************)
EXTENDS Import, RetryPolicy

VARIABLES ready, delayed, parked, unsynced

brokerVars == <<ready, delayed, parked, unsynced>>

(* The envelope carries the whole job, but the handler uses its importId   *)
(* only; the attempt travels in a header.                                  *)
Message == [key : Keys, attempt : Attempts]

Bags == [Message -> Nat]

NoMessages == [m \in Message |-> 0]

Copies == {"retry", "dead"}

BrokerTypeOK ==
  /\ ready \in Bags
  /\ delayed \in Bags
  /\ parked \in SUBSET Message
  /\ unsynced \in [Copies -> Bags]

BrokerInit ==
  /\ ready = NoMessages
  /\ delayed = NoMessages
  /\ parked = {}
  /\ unsynced = [q \in Copies |-> NoMessages]

PlusOne(bag, m) == [bag EXCEPT ![m] = @ + 1]

MinusOne(bag, m) == [bag EXCEPT ![m] = @ - 1]

FirstAttempt(k) == [key |-> k, attempt |-> 1]

(* The message reached the queue and the disk; whether its publisher       *)
(* learns of it is the publisher's concern.  One that a restart takes      *)
(* before the disk has it was never confirmed, and counts as one that      *)
(* never arrived; that it may be delivered first is left out.              *)
Enqueue(k) ==
  /\ ready' = PlusOne(ready, FirstAttempt(k))
  /\ UNCHANGED <<delayed, parked, unsynced>>

(* A channel that closes gives its unacknowledged message back.            *)
Requeue(m) ==
  /\ ready' = PlusOne(ready, m)
  /\ UNCHANGED <<delayed, parked, unsynced>>

(* consumer.ts republish and park: handed to the broker, not confirmed.    *)
SendCopy(q, m) ==
  /\ unsynced' = [unsynced EXCEPT ![q] = PlusOne(@, m)]
  /\ UNCHANGED <<ready, delayed, parked>>

(* The broker writes what it was handed to disk.                           *)
Sync ==
  /\ unsynced # [q \in Copies |-> NoMessages]
  /\ delayed' = [m \in Message |-> delayed[m] + unsynced["retry"][m]]
  /\ parked' = parked \cup {m \in Message : unsynced["dead"][m] > 0}
  /\ unsynced' = [q \in Copies |-> NoMessages]
  /\ UNCHANGED ready

ExpireWithoutMoving(m) ==
  /\ delayed[m] > 0
  /\ delayed' = MinusOne(delayed, m)
  /\ UNCHANGED <<ready, parked, unsynced>>

(* x-message-ttl runs out: the retry queue dead-letters to the main one.   *)
Expire(m) ==
  /\ delayed[m] > 0
  /\ delayed' = MinusOne(delayed, m)
  /\ ready' = PlusOne(ready, m)
  /\ UNCHANGED <<parked, unsynced>>

(* The messages of the import k that some queue holds, or that wait in the *)
(* parking lot for a human.                                                *)
Holds(k) ==
  \E m \in Message :
    /\ m.key = k
    /\ \/ ready[m] + delayed[m] > 0
       \/ \E q \in Copies : unsynced[q][m] > 0
       \/ m \in parked

=============================================================================
