------------------------------- MODULE Worker -------------------------------
(***************************************************************************)
(* A worker's handling of one message, from delivery to acknowledgement:   *)
(* packages/infrastructure/src/messaging/consumer.ts around                *)
(* packages/application/src/use-cases/process-import.use-case.ts, with the *)
(* onDeadLetter of packages/worker/src/container.ts and the advisory lock  *)
(* of import.repository.ts.                                                *)
(*                                                                         *)
(* A worker here handles one message at a time; a process with a prefetch  *)
(* of n is n of them.  Every await is a step of its own.  A database       *)
(* statement that fails may have been applied before its reply was lost.   *)
(***************************************************************************)
EXTENDS ImportStore, Broker

CONSTANTS Workers,
          LockKeys,     \* the values of (4711, hashtext(import id))
          LockOf,       \* hashtext: two imports may share a value
          Registered,   \* the bodies whose source type has an adapter
          ReadError,    \* how reading a body's payload ends: "none", or an error
          NoWorker,
          NoMessage

ASSUME WorkerAssumption ==
  /\ IsFiniteSet(Workers)
  /\ NoWorker \notin Workers
  /\ NoMessage \notin Message
  /\ LockOf \in [Keys -> LockKeys]
  /\ Registered \subseteq Bodies
  /\ ReadError \in [Bodies -> ErrorKind \cup {"none"}]

VARIABLES pc,         \* where the handler is
          job,        \* the message it was given
          cursor,     \* the chunk it reads next
          tally,      \* total, imported and skipped of this attempt
          error,      \* the error being thrown
          online,     \* whether the broker still has its channel
          locks       \* the session that holds each advisory lock

workerVars == <<pc, job, cursor, tally, error, online, locks>>

PC == {"idle", "lookup", "lock", "begin", "chunk", "recordFailure", "complete",
       "unlock", "settle", "deadLetter", "park", "acknowledge"}

WorkerTypeOK ==
  /\ pc \in [Workers -> PC]
  /\ job \in [Workers -> Message \cup {NoMessage}]
  /\ \A w \in Workers : pc[w] # "idle" => job[w] \in Message
  /\ cursor \in [Workers -> Nat \ {0}]
  /\ tally \in [Workers -> Counts]
  /\ error \in [Workers -> ErrorKind \cup {"none"}]
  /\ online \in [Workers -> BOOLEAN]
  /\ locks \in [LockKeys -> Workers \cup {NoWorker}]

WorkerInit ==
  /\ pc = [w \in Workers |-> "idle"]
  /\ job = [w \in Workers |-> NoMessage]
  /\ cursor = [w \in Workers |-> 1]
  /\ tally = [w \in Workers |-> EmptyCounts]
  /\ error = [w \in Workers |-> "none"]
  /\ online = [w \in Workers |-> TRUE]
  /\ locks = [l \in LockKeys |-> NoWorker]

Key(w) == job[w].key

Lock(w) == LockOf[Key(w)]

Holding(w) == locks[Lock(w)] = w

Payload(w) == Chunks[Body(Key(w))]

Goto(w, label) == pc' = [pc EXCEPT ![w] = label]

Throw(w, e) == error' = [error EXCEPT ![w] = e]

(* A driver error or a timeout, which errors.ts does not know.             *)
ThrowUnknown(w) == Throw(w, "unknown")

ReplyMayBeLost(w) == UNCHANGED error \/ ThrowUnknown(w)

(* The handler's locals go out of scope.                                   *)
Forget(w) ==
  /\ Goto(w, "idle")
  /\ job' = [job EXCEPT ![w] = NoMessage]
  /\ cursor' = [cursor EXCEPT ![w] = 1]
  /\ tally' = [tally EXCEPT ![w] = EmptyCounts]
  /\ Throw(w, "none")

(* PostgreSQL drops a session's lock with its connection.                  *)
DropLock(w) ==
  locks' = [l \in LockKeys |-> IF locks[l] = w THEN NoWorker ELSE locks[l]]

-----------------------------------------------------------------------------

(* The broker pushes a message and waits for its acknowledgement.          *)
Deliver(w, m) ==
  /\ pc[w] = "idle"
  /\ online[w]
  /\ ready[m] > 0
  /\ ready' = MinusOne(ready, m)
  /\ Goto(w, "lookup")
  /\ job' = [job EXCEPT ![w] = m]
  /\ UNCHANGED <<delayed, parked, unsynced, cursor, tally, error, online, locks>>
  /\ UNCHANGED storeVars

LookupAnyTerminal(w) ==
  /\ pc[w] = "lookup"
  /\ Goto(w, IF IsTerminal(imports[Key(w)].status) THEN "acknowledge" ELSE "lock")
  /\ UNCHANGED <<storeVars, brokerVars, job, cursor, tally, error, online, locks>>

(* findById, and the ways out of execute before the lock.                  *)
Lookup(w) ==
  /\ pc[w] = "lookup"
  /\ \/ /\ imports[Key(w)].status = "completed"
        /\ Goto(w, "acknowledge")
        /\ UNCHANGED error
     \/ /\ imports[Key(w)].status \notin {"absent", "completed"}
        /\ Goto(w, "lock")
        /\ UNCHANGED error
     \/ /\ Throw(w, IF Exists(Key(w)) THEN "unknown" ELSE "notFound")
        /\ Goto(w, "settle")
  /\ UNCHANGED <<storeVars, brokerVars, job, cursor, tally, online, locks>>

TryLockAlways(w) ==
  /\ pc[w] = "lock"
  /\ locks' = [locks EXCEPT ![Lock(w)] = w]
  /\ Goto(w, "begin")
  /\ UNCHANGED <<storeVars, brokerVars, job, cursor, tally, error, online>>

(* pg_try_advisory_lock does not wait.                                     *)
TryLock(w) ==
  /\ pc[w] = "lock"
  /\ \/ /\ locks[Lock(w)] = NoWorker
        /\ locks' = [locks EXCEPT ![Lock(w)] = w]
        /\ Goto(w, "begin")
        /\ UNCHANGED error
     \/ /\ locks[Lock(w)] # NoWorker
        /\ Throw(w, "concurrency")
        /\ Goto(w, "settle")
        /\ UNCHANGED locks
     \/ /\ ThrowUnknown(w)
        /\ Goto(w, "settle")
        /\ UNCHANGED locks
  /\ UNCHANGED <<storeVars, brokerVars, job, cursor, tally, online>>

BeginUnrecorded(w) ==
  /\ pc[w] = "begin"
  /\ Goto(w, "chunk")
  /\ UNCHANGED <<storeVars, brokerVars, job, cursor, tally, error, online, locks>>

(* runAttempt up to its loop.  A source without an adapter is refused      *)
(* before the attempt is recorded, and before the catch that records a     *)
(* failure.                                                                *)
Begin(w) ==
  /\ pc[w] = "begin"
  /\ \/ /\ Body(Key(w)) \notin Registered
        /\ Throw(w, "validation")
        /\ Goto(w, "unlock")
        /\ UNCHANGED imports
     \/ /\ Body(Key(w)) \in Registered
        /\ BeginAttempt(Key(w))
        /\ \/ UNCHANGED error /\ Goto(w, "chunk")
           \/ ThrowUnknown(w) /\ Goto(w, "unlock")
     \/ /\ Body(Key(w)) \in Registered
        /\ ThrowUnknown(w)
        /\ Goto(w, "unlock")
        /\ UNCHANGED imports
  /\ UNCHANGED <<stored, brokerVars, job, cursor, tally, online, locks>>

CountBatchAsNew(w, batch) ==
  LET all == Len(batch)
  IN  tally' = [tally EXCEPT ![w] =
                  [@ EXCEPT !.total = @ + all, !.imported = @ + all]]

CountBackwards(w, batch) ==
  LET new == Cardinality(Inserted(batch))
      all == Len(batch)
  IN  tally' = [tally EXCEPT ![w] =
                  [total    |-> @.total + all,
                   imported |-> @.imported + new,
                   skipped  |-> @.skipped + (new - all)]]

(* total, imported and skipped of the attempt, from what saveBatch says it *)
(* inserted.                                                               *)
CountBatch(w, batch) ==
  LET new == Cardinality(Inserted(batch))
      all == Len(batch)
  IN  tally' = [tally EXCEPT ![w] =
                  [total    |-> @.total + all,
                   imported |-> @.imported + new,
                   skipped  |-> @.skipped + (all - new)]]

ProcessChunkOrSkipIt(w) ==
  /\ pc[w] = "chunk"
  /\ cursor[w] <= Len(Payload(w))
  /\ LET batch == Payload(w)[cursor[w]] IN
       \/ SaveBatch(Key(w), batch) /\ CountBatch(w, batch)
       \/ UNCHANGED <<stored, tally>>
  /\ cursor' = [cursor EXCEPT ![w] = @ + 1]
  /\ UNCHANGED <<imports, brokerVars, pc, job, error, online, locks>>

(* One round of the loop: read a chunk, resolve its assets, normalise it,  *)
(* save it, count it.  The chunk is saved whole or not at all.             *)
ProcessChunk(w) ==
  /\ pc[w] = "chunk"
  /\ cursor[w] <= Len(Payload(w))
  /\ LET batch == Payload(w)[cursor[w]] IN
       \/ /\ SaveBatch(Key(w), batch)
          /\ CountBatch(w, batch)
          /\ cursor' = [cursor EXCEPT ![w] = @ + 1]
          /\ UNCHANGED <<pc, error>>
       \/ /\ SaveBatch(Key(w), batch) \/ UNCHANGED stored
          /\ ThrowUnknown(w)
          /\ Goto(w, "unlock")
          /\ UNCHANGED <<cursor, tally>>
  /\ UNCHANGED <<imports, brokerVars, job, online, locks>>

EndPayloadEarly(w) ==
  /\ pc[w] = "chunk"
  /\ cursor[w] >= Len(Payload(w))
  /\ Goto(w, "complete")
  /\ UNCHANGED <<storeVars, brokerVars, job, cursor, tally, error, online, locks>>

EndPayloadRegardless(w) ==
  /\ pc[w] = "chunk"
  /\ cursor[w] > Len(Payload(w))
  /\ Goto(w, "complete")
  /\ UNCHANGED <<storeVars, brokerVars, job, cursor, tally, error, online, locks>>

(* The adapter's stream ends, or throws.  Only a permanent error is        *)
(* recorded; a transient one leaves the import in `processing`.            *)
EndPayload(w) ==
  /\ pc[w] = "chunk"
  /\ cursor[w] > Len(Payload(w))
  /\ LET e == ReadError[Body(Key(w))] IN
       \/ /\ e = "none"
          /\ Goto(w, "complete")
          /\ UNCHANGED error
       \/ /\ e # "none"
          /\ Throw(w, e)
          /\ Goto(w, IF IsRetryable(e) THEN "unlock" ELSE "recordFailure")
       \/ /\ ThrowUnknown(w)
          /\ Goto(w, "unlock")
  /\ UNCHANGED <<storeVars, brokerVars, job, cursor, tally, online, locks>>

(* imports.fail inside the catch: if it throws, its error is the one that  *)
(* leaves the handler.                                                     *)
RecordFailure(w) ==
  /\ pc[w] = "recordFailure"
  /\ \/ Fail(Key(w)) /\ ReplyMayBeLost(w)
     \/ UNCHANGED imports /\ ThrowUnknown(w)
  /\ Goto(w, "unlock")
  /\ UNCHANGED <<stored, brokerVars, job, cursor, tally, online, locks>>

(* imports.complete, outside the try.                                      *)
CompleteImport(w) ==
  /\ pc[w] = "complete"
  /\ \/ Complete(Key(w), tally[w]) /\ ReplyMayBeLost(w)
     \/ UNCHANGED imports /\ ThrowUnknown(w)
  /\ Goto(w, "unlock")
  /\ UNCHANGED <<stored, brokerVars, job, cursor, tally, online, locks>>

UnlockWithoutFinally(w) ==
  /\ pc[w] = "unlock"
  /\ IF error[w] = "none" THEN DropLock(w) ELSE UNCHANGED locks
  /\ Goto(w, IF error[w] = "none" THEN "acknowledge" ELSE "settle")
  /\ UNCHANGED <<storeVars, brokerVars, job, cursor, tally, error, online>>

(* The finally of withImportLock.  If the session is gone the unlock       *)
(* throws, and its error replaces the outcome of the work.  An unlock that *)
(* throws is taken for one whose session has ended: if only the statement  *)
(* failed, the lock would go back into the pool with its connection.       *)
Unlock(w) ==
  /\ pc[w] = "unlock"
  /\ DropLock(w)
  /\ \/ /\ Holding(w)
        /\ UNCHANGED error
        /\ Goto(w, IF error[w] = "none" THEN "acknowledge" ELSE "settle")
     \/ /\ ThrowUnknown(w)
        /\ Goto(w, "settle")
  /\ UNCHANGED <<storeVars, brokerVars, job, cursor, tally, online>>

-----------------------------------------------------------------------------

(* What a worker hands to the broker is lost once its channel is gone.     *)
SendIfOnline(w, q, m) ==
  IF online[w] THEN SendCopy(q, m) ELSE UNCHANGED brokerVars

SettleSilently(w) ==
  /\ pc[w] = "settle"
  /\ LET decision == DecideRetry(error[w], job[w].attempt) IN
       IF decision.action = "retry"
         THEN SendIfOnline(w, "retry", [job[w] EXCEPT !.attempt = decision.nextAttempt])
         ELSE UNCHANGED brokerVars
  /\ Goto(w, "acknowledge")
  /\ UNCHANGED <<storeVars, job, cursor, tally, error, online, locks>>

(* The catch of handleMessage: decideRetry, and the retry branch of it.    *)
Settle(w) ==
  /\ pc[w] = "settle"
  /\ LET decision == DecideRetry(error[w], job[w].attempt) IN
       \/ /\ decision.action = "retry"
          /\ SendIfOnline(w, "retry", [job[w] EXCEPT !.attempt = decision.nextAttempt])
          /\ Goto(w, "acknowledge")
       \/ /\ decision.action = "dead-letter"
          /\ Goto(w, "deadLetter")
          /\ UNCHANGED brokerVars
  /\ UNCHANGED <<storeVars, job, cursor, tally, error, online, locks>>

(* onDeadLetter records the verdict; its own failure is logged and         *)
(* swallowed.                                                              *)
DeadLetter(w) ==
  /\ pc[w] = "deadLetter"
  /\ Fail(Key(w)) \/ UNCHANGED imports
  /\ Goto(w, "park")
  /\ UNCHANGED <<stored, brokerVars, job, cursor, tally, error, online, locks>>

(* park publishes to the dead-letter exchange.                             *)
Park(w) ==
  /\ pc[w] = "park"
  /\ SendIfOnline(w, "dead", job[w])
  /\ Goto(w, "acknowledge")
  /\ UNCHANGED <<storeVars, job, cursor, tally, error, online, locks>>

(* The broker forgets the delivery.  On a channel it has already closed    *)
(* there is nothing left to forget.  (Once the process knows of that, ack  *)
(* throws into handleMessage's catch, in the moment before the process     *)
(* exits; that moment is left out.)                                        *)
Acknowledge(w) ==
  /\ pc[w] = "acknowledge"
  /\ Forget(w)
  /\ UNCHANGED <<storeVars, brokerVars, online, locks>>

WorkerStep(w) ==
  \/ Lookup(w)
  \/ TryLock(w)
  \/ Begin(w)
  \/ ProcessChunk(w)
  \/ EndPayload(w)
  \/ RecordFailure(w)
  \/ CompleteImport(w)
  \/ Unlock(w)
  \/ Settle(w)
  \/ DeadLetter(w)
  \/ Park(w)
  \/ Acknowledge(w)

-----------------------------------------------------------------------------

(* The process dies: its session drops the lock, its channel gives the     *)
(* message back, and its supervisor starts it again.                       *)
Crash(w) ==
  /\ pc[w] # "idle"
  /\ IF online[w] THEN Requeue(job[w]) ELSE UNCHANGED brokerVars
  /\ Forget(w)
  /\ online' = [online EXCEPT ![w] = TRUE]
  /\ DropLock(w)
  /\ UNCHANGED storeVars

(* The broker gives up on a channel (a missed heartbeat, a partition)      *)
(* before the process notices.                                             *)
LoseChannel(w) ==
  /\ pc[w] # "idle"
  /\ online[w]
  /\ online' = [online EXCEPT ![w] = FALSE]
  /\ Requeue(job[w])
  /\ UNCHANGED <<storeVars, pc, job, cursor, tally, error, locks>>

(* The process notices: onLost makes main.ts end it, and it starts again.  *)
NoticeLoss(w) ==
  /\ ~online[w]
  /\ online' = [online EXCEPT ![w] = TRUE]
  /\ Forget(w)
  /\ DropLock(w)
  /\ UNCHANGED <<storeVars, brokerVars>>

(* PostgreSQL ends the session that holds the lock while the worker goes   *)
(* on writing through other connections of the pool.                       *)
LoseLock(w) ==
  /\ pc[w] \in {"begin", "chunk", "recordFailure", "complete", "unlock"}
  /\ Holding(w)
  /\ DropLock(w)
  /\ UNCHANGED <<storeVars, brokerVars, pc, job, cursor, tally, error, online>>

(* The broker restarts: what it had not written is gone, every channel is  *)
(* down and every unacknowledged message is ready again.                   *)
RestartBroker ==
  /\ unsynced' = [q \in Copies |-> NoMessages]
  /\ ready' = [m \in Message |->
       ready[m] + Cardinality({w \in Workers : job[w] = m /\ online[w]})]
  /\ online' = [w \in Workers |-> FALSE]
  /\ UNCHANGED <<storeVars, delayed, parked, pc, job, cursor, tally, error, locks>>

=============================================================================
