------------------------ MODULE ImportPipelineProofs ------------------------
(***************************************************************************)
(* Proofs about ImportPipeline, for every set of keys, bodies, rows,       *)
(* workers and clients, every number of attempts and every budget of       *)
(* disturbances.                                                           *)
(***************************************************************************)
EXTENDS ImportPipeline, FiniteSetTheorems, TLAPS

(* A batch has finitely many rows, and no more new ones than drafts.       *)
LEMMA BatchCounts ==
  ASSUME NEW batch \in Seq(Rows)
  PROVE  /\ Len(batch) \in Nat
         /\ Cardinality(Inserted(batch)) \in Nat
         /\ Cardinality(Inserted(batch)) <= Len(batch)
<1>1. Len(batch) \in Nat /\ batch \in [1 .. Len(batch) -> Rows]
  OBVIOUS
<1>2. IsFiniteSet(1 .. Len(batch)) /\ Cardinality(1 .. Len(batch)) = Len(batch)
  BY <1>1, FS_Interval
<1>3. batch \in Surjection(1 .. Len(batch), Range(batch))
  BY <1>1 DEF Surjection, Range
<1>4. IsFiniteSet(Range(batch)) /\ Cardinality(Range(batch)) <= Len(batch)
  BY <1>2, <1>3, FS_Surjection
<1>5. Inserted(batch) \subseteq Range(batch)
  BY DEF Inserted
<1>6. QED
  BY <1>1, <1>4, <1>5, FS_Subset, FS_CardinalityType

(* The rows of a chunk are rows.                                           *)
LEMMA ChunkRows ==
  ASSUME NEW payload \in Seq(Seq(Rows)), NEW n \in 1 .. Len(payload), NEW r \in Range(payload[n])
  PROVE  r \in Rows
<1>1. payload[n] \in Seq(Rows)
  OBVIOUS
<1>2. PICK i \in DOMAIN payload[n] : r = payload[n][i]
  BY DEF Range
<1>3. QED
  BY <1>1, <1>2

(* A retry copy names the same import and one attempt more, which the      *)
(* ceiling keeps within Attempts.                                          *)
LEMMA RetryStaysInBounds ==
  ASSUME NEW m \in Message, NEW e, DecideRetry(e, m.attempt).action = "retry"
  PROVE  [m EXCEPT !.attempt = DecideRetry(e, m.attempt).nextAttempt] \in Message
BY MaxAttemptsAssumption DEF DecideRetry, Message, Attempts

LEMMA BagArithmetic ==
  ASSUME NEW bag \in Bags, NEW m \in Message
  PROVE  /\ PlusOne(bag, m) \in Bags
         /\ bag[m] > 0 => MinusOne(bag, m) \in Bags
BY DEF Bags, PlusOne, MinusOne

-----------------------------------------------------------------------------
(* Type correctness, component by component.                               *)

LEMMA InitTypes == Init => TypeOK
BY PayloadAssumption, BudgetAssumption
   DEF Init, TypeOK, StoreInit, BrokerInit, WorkerInit, IntakeInit, StoreTypeOK,
       BrokerTypeOK, WorkerTypeOK, IntakeTypeOK, Status, Counts, EmptyCounts,
       Bags, NoMessages, Copies, PC, ErrorKind, Stage, Reply

LEMMA ClienteleTypes == TypeOK /\ Clientele => TypeOK'
<1> SUFFICES ASSUME TypeOK, NEW c \in Clients,
                    \/ Request(c) /\ Spend("request") /\ UNCHANGED workerVars
                    \/ IntakeStep(c) /\ UNCHANGED <<workerVars, budget>>
                    \/ CrashApi(c) /\ Spend("crashApi") /\ UNCHANGED workerVars
             PROVE  TypeOK'
  BY DEF Clientele
<1> USE DEF TypeOK
<1>1. KeyOf[c] \in Keys /\ BodyOf[c] \in Bodies
  BY IntakeAssumption
<1>2. StoreTypeOK'
  <2>1. CASE Create(c)
    BY <1>1, <2>1 DEF Create, CreateImport, StoreTypeOK, Status, Counts, EmptyCounts
  <2>2. CASE UNCHANGED storeVars
    BY <2>2 DEF storeVars, StoreTypeOK
  <2>3. QED
    BY <2>1, <2>2 DEF Request, IntakeStep, Find, Publish, CrashApi
<1>3. BrokerTypeOK'
  <2>1. CASE Enqueue(KeyOf[c])
    <3>1. FirstAttempt(KeyOf[c]) \in Message
      BY <1>1, MaxAttemptsAssumption DEF FirstAttempt, Message, Attempts
    <3>2. QED
      BY <2>1, <3>1, BagArithmetic DEF Enqueue, BrokerTypeOK
  <2>2. CASE UNCHANGED brokerVars
    BY <2>2 DEF brokerVars, BrokerTypeOK
  <2>3. QED
    BY <2>1, <2>2 DEF Request, IntakeStep, Find, Create, Publish, CrashApi
<1>4. WorkerTypeOK'
  <2>1. UNCHANGED workerVars
    OBVIOUS
  <2>2. QED
    BY <2>1 DEF workerVars, WorkerTypeOK
<1>5. IntakeTypeOK'
  BY DEF IntakeTypeOK, Request, IntakeStep, Find, Create, Publish, CrashApi, Reuse,
         MoveTo, Answer, Stage, Reply
<1>6. budget' \in [Disturbances -> Nat]
  BY DEF Spend, Disturbances
<1>7. QED
  BY <1>2, <1>3, <1>4, <1>5, <1>6

LEMMA QueuesTypes == TypeOK /\ Queues => TypeOK'
<1> SUFFICES ASSUME TypeOK, Queues
             PROVE  TypeOK'
  OBVIOUS
<1> USE DEF TypeOK
<1>1. BrokerTypeOK'
  <2>1. CASE Sync
    BY <2>1 DEF Sync, BrokerTypeOK, Bags, Copies, NoMessages
  <2>2. ASSUME NEW m \in Message, Expire(m)
        PROVE  BrokerTypeOK'
    BY <2>2, BagArithmetic DEF Expire, BrokerTypeOK
  <2>3. QED
    BY <2>1, <2>2 DEF Queues
<1>2. StoreTypeOK' /\ WorkerTypeOK' /\ IntakeTypeOK' /\ budget' \in [Disturbances -> Nat]
  BY DEF Queues, storeVars, workerVars, clientVars, StoreTypeOK, WorkerTypeOK, IntakeTypeOK
<1>3. QED
  BY <1>1, <1>2

(* What a busy worker works on is a message of an import.                  *)
LEMMA BusyWorker ==
  ASSUME WorkerTypeOK, NEW w \in Workers, pc[w] # "idle"
  PROVE  /\ job[w] \in Message
         /\ Key(w) \in Keys
         /\ Lock(w) \in LockKeys
BY WorkerAssumption DEF WorkerTypeOK, Message, Key, Lock

LEMMA DeliverTypes ==
  ASSUME TypeOK, NEW w \in Workers, NEW m \in Message, Deliver(w, m)
  PROVE  BrokerTypeOK' /\ WorkerTypeOK' /\ StoreTypeOK'
<1>1. BrokerTypeOK'
  BY BagArithmetic DEF TypeOK, Deliver, BrokerTypeOK
<1>2. WorkerTypeOK'
  BY DEF TypeOK, Deliver, WorkerTypeOK, Goto, PC
<1>3. StoreTypeOK'
  BY DEF TypeOK, Deliver, storeVars, StoreTypeOK
<1>4. QED
  BY <1>1, <1>2, <1>3

(* Before the outcome of the work is known, a handler touches the database *)
(* and its own variables only.                                             *)
LEMMA AttemptTypes ==
  ASSUME TypeOK, AttemptInvariant, NEW w \in Workers,
         \/ Lookup(w) \/ TryLock(w) \/ Begin(w) \/ ProcessChunk(w) \/ EndPayload(w)
         \/ RecordFailure(w) \/ CompleteImport(w) \/ Unlock(w)
  PROVE  BrokerTypeOK' /\ WorkerTypeOK' /\ StoreTypeOK'
<1> USE DEF TypeOK
<1>1. pc[w] # "idle"
  BY DEF Lookup, TryLock, Begin, ProcessChunk, EndPayload, RecordFailure, CompleteImport, Unlock
<1>2. job[w] \in Message /\ Key(w) \in Keys /\ Lock(w) \in LockKeys
  BY <1>1, BusyWorker
<1>3. BrokerTypeOK'
  BY DEF brokerVars, BrokerTypeOK,
         Lookup, TryLock, Begin, ProcessChunk, EndPayload, RecordFailure, CompleteImport, Unlock
<1>4. StoreTypeOK'
  <2>1. CASE ProcessChunk(w)
    BY <1>2, <2>1 DEF ProcessChunk, SaveBatch, StoreTypeOK
  <2>2. CASE ~ProcessChunk(w)
    <3>1. UNCHANGED stored
      BY <2>2 DEF storeVars, Lookup, TryLock, Begin, EndPayload, RecordFailure,
                  CompleteImport, Unlock
    <3>2. tally[w] \in Counts
      BY DEF WorkerTypeOK
    <3>3. /\ imports' \in [Keys -> [status : Status, body : Bodies \cup {NoBody}, counts : Counts]]
          /\ \A k \in Keys : imports'[k].status # "absent" => imports'[k].body \in Bodies
      <4>1. Running(w) => imports[Key(w)].status # "absent"
        BY DEF AttemptInvariant, AttemptOK, Exists
      <4>2. CASE Begin(w)
        BY <1>2, <4>1, <4>2 DEF Begin, BeginAttempt, StoreTypeOK, Status, Running
      <4>3. CASE RecordFailure(w)
        BY <1>2, <4>3 DEF RecordFailure, Fail, StoreTypeOK, Status
      <4>4. CASE CompleteImport(w)
        BY <1>2, <3>2, <4>1, <4>4 DEF CompleteImport, Complete, StoreTypeOK, Status, Running
      <4>5. CASE UNCHANGED imports
        BY <4>5 DEF StoreTypeOK
      <4>6. QED
        BY <2>2, <4>2, <4>3, <4>4, <4>5 DEF storeVars, Lookup, TryLock, EndPayload, Unlock
    <3>4. QED
      BY <3>1, <3>3 DEF StoreTypeOK
  <2>3. QED
    BY <2>1, <2>2
<1>5. WorkerTypeOK'
  <2> USE DEF WorkerTypeOK, Goto, Throw, ThrowUnknown, PC, ErrorKind
  <2>1. CASE Lookup(w)
    BY <2>1 DEF Lookup
  <2>2. CASE TryLock(w)
    BY <1>2, <2>2 DEF TryLock
  <2>3. CASE Begin(w)
    BY <2>3 DEF Begin
  <2>4. CASE ProcessChunk(w)
    <3> DEFINE batch == Payload(w)[cursor[w]]
    <3>1. ASSUME CountBatch(w, batch), Body(Key(w)) \in Bodies
          PROVE  tally' \in [Workers -> Counts]
      <4>1. cursor[w] \in 1 .. Len(Payload(w)) /\ Payload(w) \in Seq(Seq(Rows))
        BY <2>4, <3>1, PayloadAssumption DEF ProcessChunk, Payload
      <4>2. batch \in Seq(Rows)
        BY <4>1
      <4>3. /\ Len(batch) \in Nat
            /\ Cardinality(Inserted(batch)) \in Nat
            /\ Cardinality(Inserted(batch)) <= Len(batch)
        BY <4>2, BatchCounts
      <4> DEFINE new == Cardinality(Inserted(batch))
                 counts == [total    |-> tally[w].total + Len(batch),
                            imported |-> tally[w].imported + new,
                            skipped  |-> tally[w].skipped + (Len(batch) - new)]
      <4>4. tally' = [tally EXCEPT ![w] = counts]
        BY <3>1 DEF CountBatch
      <4>5. counts \in Counts
        <5>1. tally[w] \in Counts
          OBVIOUS
        <5> HIDE DEF batch
        <5>2. QED
          BY <4>3, <5>1 DEF Counts
      <4>6. QED
        <5> HIDE DEF counts
        <5>1. QED
          BY <4>4, <4>5
    <3>2. Body(Key(w)) \in Bodies
      BY <1>2, <2>4 DEF ProcessChunk, AttemptInvariant, AttemptOK, Running, Exists, Body,
                        StoreTypeOK
    <3>3. tally' \in [Workers -> Counts]
      BY <2>4, <3>1, <3>2 DEF ProcessChunk
    <3>4. cursor' \in [Workers -> Nat \ {0}]
      BY <2>4 DEF ProcessChunk
    <3>5. QED
      BY <2>4, <3>3, <3>4 DEF ProcessChunk
  <2>5. CASE EndPayload(w)
    <3>1. Body(Key(w)) \in Bodies
      BY <1>2, <2>5 DEF EndPayload, AttemptInvariant, AttemptOK, Running, Exists, Body, StoreTypeOK
    <3>2. ReadError[Body(Key(w))] \in ErrorKind \cup {"none"}
      BY <3>1, WorkerAssumption
    <3>3. QED
      BY <2>5, <3>2 DEF EndPayload
  <2>6. CASE RecordFailure(w)
    BY <2>6 DEF RecordFailure, ReplyMayBeLost
  <2>7. CASE CompleteImport(w)
    BY <2>7 DEF CompleteImport, ReplyMayBeLost
  <2>8. CASE Unlock(w)
    BY <2>8 DEF Unlock, DropLock
  <2>9. QED
    BY <2>1, <2>2, <2>3, <2>4, <2>5, <2>6, <2>7, <2>8
<1>6. QED
  BY <1>3, <1>4, <1>5

LEMMA SendTypes ==
  ASSUME BrokerTypeOK, NEW w \in Workers, NEW q \in Copies, NEW m \in Message,
         SendIfOnline(w, q, m)
  PROVE  BrokerTypeOK'
<1>1. CASE SendCopy(q, m)
  BY <1>1, BagArithmetic DEF SendCopy, BrokerTypeOK
<1>2. CASE UNCHANGED brokerVars
  BY <1>2 DEF brokerVars, BrokerTypeOK
<1>3. QED
  BY <1>1, <1>2 DEF SendIfOnline

(* A handler that is done forgets everything it was given.                 *)
LEMMA ForgetTypes ==
  ASSUME WorkerTypeOK, NEW w \in Workers, Forget(w), online' \in [Workers -> BOOLEAN],
         UNCHANGED locks \/ DropLock(w)
  PROVE  WorkerTypeOK'
<1> USE DEF WorkerTypeOK
<1>1. pc' \in [Workers -> PC] /\ pc'[w] = "idle"
  BY DEF Forget, Goto, PC
<1>2. job' \in [Workers -> Message \cup {NoMessage}]
  BY DEF Forget
<1>3. ASSUME NEW v \in Workers, pc'[v] # "idle"
      PROVE  job'[v] \in Message
  <2>1. v # w
    BY <1>1, <1>3
  <2>2. pc'[v] = pc[v] /\ job'[v] = job[v]
    BY <2>1 DEF Forget, Goto
  <2>3. QED
    BY <1>3, <2>2
<1>4. cursor' \in [Workers -> Nat \ {0}]
  BY DEF Forget
<1>5. tally' \in [Workers -> Counts]
  <2>1. EmptyCounts \in Counts
    BY DEF EmptyCounts, Counts
  <2>2. QED
    BY <2>1 DEF Forget
<1>6. error' \in [Workers -> ErrorKind \cup {"none"}]
  BY DEF Forget, Throw
<1>7. locks' \in [LockKeys -> Workers \cup {NoWorker}]
  BY DEF DropLock
<1>8. QED
  BY <1>1, <1>2, <1>3, <1>4, <1>5, <1>6, <1>7

LEMMA OutcomeTypes ==
  ASSUME TypeOK, NEW w \in Workers,
         Settle(w) \/ DeadLetter(w) \/ Park(w) \/ Acknowledge(w)
  PROVE  BrokerTypeOK' /\ WorkerTypeOK' /\ StoreTypeOK'
<1> USE DEF TypeOK
<1>1. pc[w] # "idle"
  BY DEF Settle, DeadLetter, Park, Acknowledge
<1>2. job[w] \in Message /\ Key(w) \in Keys
  BY <1>1, BusyWorker
<1>3. BrokerTypeOK'
  <2>1. CASE Settle(w)
    <3> DEFINE decision == DecideRetry(error[w], job[w].attempt)
    <3>1. CASE decision.action = "retry"
      <4>1. [job[w] EXCEPT !.attempt = decision.nextAttempt] \in Message
        BY <1>2, <3>1, RetryStaysInBounds
      <4>2. SendIfOnline(w, "retry", [job[w] EXCEPT !.attempt = decision.nextAttempt])
        BY <2>1, <3>1 DEF Settle
      <4>3. QED
        BY <4>1, <4>2, SendTypes DEF Copies
    <3>2. CASE decision.action # "retry"
      BY <2>1, <3>2 DEF Settle, brokerVars, BrokerTypeOK
    <3>3. QED
      BY <3>1, <3>2
  <2>2. CASE Park(w)
    BY <1>2, <2>2, SendTypes DEF Park, Copies
  <2>3. CASE UNCHANGED brokerVars
    BY <2>3 DEF brokerVars, BrokerTypeOK
  <2>4. QED
    BY <2>1, <2>2, <2>3 DEF DeadLetter, Acknowledge
<1>4. WorkerTypeOK'
  <2>1. CASE Acknowledge(w)
    BY <2>1, ForgetTypes DEF Acknowledge, WorkerTypeOK
  <2>2. CASE ~Acknowledge(w)
    BY <1>1, <2>2 DEF Settle, DeadLetter, Park, WorkerTypeOK, Goto, PC
  <2>3. QED
    BY <2>1, <2>2
<1>5. StoreTypeOK'
  <2>1. CASE Fail(Key(w)) /\ UNCHANGED stored
    BY <1>2, <2>1 DEF Fail, StoreTypeOK, Status
  <2>2. CASE UNCHANGED storeVars
    BY <2>2 DEF storeVars, StoreTypeOK
  <2>3. QED
    BY <2>1, <2>2 DEF storeVars, Settle, DeadLetter, Park, Acknowledge
<1>6. QED
  BY <1>3, <1>4, <1>5

LEMMA TroubleTypes == TypeOK /\ Trouble => TypeOK'
<1> SUFFICES ASSUME TypeOK, Trouble
             PROVE  TypeOK'
  OBVIOUS
<1> USE DEF TypeOK
<1>1. StoreTypeOK' /\ IntakeTypeOK' /\ budget' \in [Disturbances -> Nat]
  BY DEF Trouble, Crash, LoseChannel, NoticeLoss, LoseLock, RestartBroker, Spend, Disturbances,
         storeVars, clientVars, StoreTypeOK, IntakeTypeOK
<1>2. BrokerTypeOK'
  <2>1. ASSUME NEW w \in Workers, Requeue(job[w]), pc[w] # "idle"
        PROVE  BrokerTypeOK'
    BY <2>1, BusyWorker, BagArithmetic DEF Requeue, BrokerTypeOK
  <2>2. CASE UNCHANGED brokerVars
    BY <2>2 DEF brokerVars, BrokerTypeOK
  <2>3. CASE RestartBroker
    <3>1. \A m \in Message : Cardinality({w \in Workers : job[w] = m /\ online[w]}) \in Nat
      BY WorkerAssumption, FS_Subset, FS_CardinalityType
    <3>2. QED
      BY <2>3, <3>1 DEF RestartBroker, BrokerTypeOK, Bags, Copies, NoMessages
  <2>4. QED
    BY <2>1, <2>2, <2>3 DEF Trouble, Crash, LoseChannel, NoticeLoss, LoseLock
<1>3. WorkerTypeOK'
  <2>1. ASSUME NEW w \in Workers, Crash(w) \/ NoticeLoss(w)
        PROVE  WorkerTypeOK'
    BY <2>1, ForgetTypes DEF Crash, NoticeLoss, WorkerTypeOK
  <2>2. ASSUME NEW w \in Workers, LoseChannel(w) \/ LoseLock(w)
        PROVE  WorkerTypeOK'
    BY <2>2 DEF LoseChannel, LoseLock, DropLock, WorkerTypeOK
  <2>3. CASE RestartBroker
    BY <2>3 DEF RestartBroker, WorkerTypeOK
  <2>4. QED
    BY <2>1, <2>2, <2>3 DEF Trouble
<1>4. QED
  BY <1>1, <1>2, <1>3

LEMMA HandlersTypes == TypeOK /\ AttemptInvariant /\ Handlers => TypeOK'
<1> SUFFICES ASSUME TypeOK, AttemptInvariant, NEW w \in Workers,
                    WorkerStep(w) \/ (\E m \in Message : Deliver(w, m)),
                    UNCHANGED <<clientVars, budget>>
             PROVE  TypeOK'
  BY DEF Handlers
<1>1. BrokerTypeOK' /\ WorkerTypeOK' /\ StoreTypeOK'
  BY DeliverTypes, AttemptTypes, OutcomeTypes DEF WorkerStep
<1>2. QED
  BY <1>1 DEF TypeOK, IntakeTypeOK, clientVars

LEMMA StepTypes == TypeOK /\ AttemptInvariant /\ [Next]_vars => TypeOK'
<1> SUFFICES ASSUME TypeOK, AttemptInvariant, [Next]_vars
             PROVE  TypeOK'
  OBVIOUS
<1>1. CASE UNCHANGED vars
  BY <1>1 DEF vars, storeVars, brokerVars, workerVars, clientVars, TypeOK,
              StoreTypeOK, BrokerTypeOK, WorkerTypeOK, IntakeTypeOK
<1>2. QED
  BY <1>1, ClienteleTypes, QueuesTypes, HandlersTypes, TroubleTypes DEF Next

-----------------------------------------------------------------------------
(* What a step may do to the tables.                                       *)

LEMMA RowsOnlyGrow ==
  ASSUME [Next]_vars, NEW r \in Rows, IsStored(r)
  PROVE  stored'[r] = stored[r] /\ IsStored(r)'
<1>1. CASE UNCHANGED stored
  BY <1>1 DEF IsStored
<1>2. CASE \E w \in Workers : ProcessChunk(w)
  <2>1. PICK k, batch : SaveBatch(k, batch) \/ UNCHANGED stored
    BY <1>2 DEF ProcessChunk
  <2>2. QED
    BY <1>1, <2>1 DEF SaveBatch, Inserted, IsStored
<1>3. QED
  BY <1>1, <1>2
     DEF Next, vars, storeVars, Clientele, Queues, Handlers, Trouble, Request, IntakeStep, Find,
         Create, Publish, CrashApi, WorkerStep, Deliver, Lookup, TryLock, Begin, EndPayload,
         RecordFailure, CompleteImport, Unlock, Settle, DeadLetter, Park, Acknowledge,
         Crash, LoseChannel, NoticeLoss, LoseLock, RestartBroker

(* What a step does to the imports table: nothing, or one of the           *)
(* statements of import.repository.ts.                                     *)
LEMMA ImportsChange ==
  ASSUME [Next]_vars
  PROVE  \/ UNCHANGED imports
         \/ \E c \in Clients : CreateImport(KeyOf[c], BodyOf[c])
         \/ \E w \in Workers :
              \/ pc[w] = "begin" /\ BeginAttempt(Key(w))
              \/ pc[w] = "complete" /\ Complete(Key(w), tally[w])
              \/ pc[w] \in {"recordFailure", "deadLetter"} /\ Fail(Key(w))
BY DEF Next, vars, storeVars, Clientele, Queues, Handlers, Trouble, Request, IntakeStep, Find,
       Create, Publish, CrashApi, WorkerStep, Deliver, Lookup, TryLock, Begin, ProcessChunk,
       EndPayload, RecordFailure, CompleteImport, Unlock, Settle, DeadLetter, Park, Acknowledge,
       Crash, LoseChannel, NoticeLoss, LoseLock, RestartBroker

(* An import stays in the table and keeps the body it was requested with.  *)
LEMMA ImportsPersist ==
  ASSUME TypeOK, [Next]_vars, NEW k \in Keys, Exists(k)
  PROVE  Exists(k)' /\ Body(k)' = Body(k)
<1> USE DEF TypeOK, StoreTypeOK, Exists, Body
<1>1. CASE UNCHANGED imports
  BY <1>1
<1>2. CASE \E c \in Clients : CreateImport(KeyOf[c], BodyOf[c])
  BY <1>2, IntakeAssumption DEF CreateImport
<1>3. ASSUME NEW w \in Workers, pc[w] # "idle",
             BeginAttempt(Key(w)) \/ Complete(Key(w), tally[w]) \/ Fail(Key(w))
      PROVE  Exists(k)' /\ Body(k)' = Body(k)
  <2>1. Key(w) \in Keys
    BY <1>3, BusyWorker
  <2>2. QED
    BY <1>3, <2>1 DEF BeginAttempt, Complete, Fail
<1>4. QED
  BY <1>1, <1>2, <1>3, ImportsChange

LEMMA PayloadRows ==
  ASSUME NEW b \in Bodies, NEW r \in RowsOf(b)
  PROVE  r \in Rows
<1>1. Chunks[b] \in Seq(Seq(Rows))
  BY PayloadAssumption
<1>2. QED
  BY <1>1, ChunkRows DEF RowsOf

(* An import whose rows are all in the table stays such an import.         *)
LEMMA WholeStays ==
  ASSUME TypeOK, [Next]_vars, NEW k \in Keys, Exists(k), Whole(k)
  PROVE  Whole(k)'
<1>1. Body(k)' = Body(k) /\ Body(k) \in Bodies
  BY ImportsPersist, WorkerAssumption DEF Whole, Readable
<1>2. \A r \in RowsOf(Body(k)) : IsStored(r)'
  BY <1>1, PayloadRows, RowsOnlyGrow DEF Whole
<1>3. QED
  BY <1>1, <1>2 DEF Whole, Readable, RowsOf

-----------------------------------------------------------------------------
(* What a step may do to the budget.                                       *)

BudgetIsKept == \A d \in Disturbances : budget[d] <= Budget[d]

(* What the budget has not been spent on has not happened, nor does it in  *)
(* a step that leaves it unspent.                                          *)
LEMMA BudgetOnlyFalls ==
  ASSUME TypeOK, BudgetIsKept, [Next]_vars
  PROVE  /\ BudgetIsKept'
         /\ \A d \in Disturbances : NoneYet(d)' => NoneYet(d) /\ ~Spend(d)
<1> USE BudgetAssumption DEF TypeOK, BudgetIsKept
<1>1. ASSUME NEW e \in Disturbances, Spend(e)
      PROVE  /\ BudgetIsKept'
             /\ \A d \in Disturbances : NoneYet(d)' => NoneYet(d) /\ ~Spend(d)
  <2>1. budget'[e] = budget[e] - 1 /\ \A d \in Disturbances \ {e} : budget'[d] = budget[d]
    BY <1>1 DEF Spend
  <2>2. \A d \in Disturbances : budget[d] \in Nat /\ Budget[d] \in Nat /\ budget[d] <= Budget[d]
    OBVIOUS
  <2>3. BudgetIsKept'
    BY <2>1, <2>2
  <2>4. ASSUME NEW d \in Disturbances, NoneYet(d)'
        PROVE  NoneYet(d) /\ ~Spend(d)
    <3>1. d # e
      BY <2>1, <2>2, <2>4 DEF NoneYet
    <3>2. budget'[d] = budget[d]
      BY <2>1, <3>1
    <3>3. ~Spend(d)
      BY <2>2, <3>2 DEF Spend
    <3>4. QED
      BY <2>4, <3>2, <3>3 DEF NoneYet
  <2>5. QED
    BY <2>3, <2>4
<1>2. CASE UNCHANGED budget
  <2>1. \A d \in Disturbances : ~Spend(d)
    BY <1>2 DEF Spend
  <2>2. QED
    BY <1>2, <2>1 DEF NoneYet
<1>3. QED
  BY <1>1, <1>2 DEF Next, vars, Clientele, Queues, Handlers, Trouble, Disturbances

-----------------------------------------------------------------------------
(* AttemptInvariant is preserved.                                          *)

(* What other processes do cannot spoil an attempt: rows and imports stay. *)
LEMMA AttemptPersists ==
  ASSUME TypeOK, [Next]_vars, NEW w \in Workers, AttemptOK(w),
         pc'[w] = pc[w], job'[w] = job[w], cursor'[w] = cursor[w]
  PROVE  AttemptOK(w)'
<1>1. Key(w)' = Key(w)
  BY DEF Key
<1>2. CASE Running(w) \/ pc[w] = "lock"
  <2>1. Key(w) \in Keys /\ Exists(Key(w))
    BY <1>2, BusyWorker DEF AttemptOK, TypeOK, Running
  <2>2. Exists(Key(w))' /\ Body(Key(w))' = Body(Key(w)) /\ Payload(w)' = Payload(w)
    <3>1. Exists(Key(w))' /\ Body(Key(w))' = Body(Key(w))
      BY <1>1, <2>1, ImportsPersist DEF Exists, Body
    <3>2. QED
      BY <3>1, <1>1 DEF Payload
  <2>3. Payload(w) \in Seq(Seq(Rows))
    BY <2>1, PayloadAssumption DEF TypeOK, StoreTypeOK, Exists, Body, Payload
  <2>4. ASSUME NEW n \in 1 .. Len(Payload(w)), NEW r \in Range(Payload(w)[n]), IsStored(r)
        PROVE  IsStored(r)'
    BY <2>3, <2>4, ChunkRows, RowsOnlyGrow
  <2>5. QED
    BY <1>1, <2>2, <2>4 DEF AttemptOK, Running
<1>3. CASE ~(Running(w) \/ pc[w] = "lock")
  BY <1>3 DEF AttemptOK, Running
<1>4. QED
  BY <1>2, <1>3

(* The handler's own steps.  Each one is either a move to a place of which *)
(* nothing is claimed, or brings what the place it moves to claims.        *)
LEMMA AttemptAdvances ==
  ASSUME TypeOK, [Next]_vars, NEW w \in Workers, AttemptOK(w), WorkerStep(w)
  PROVE  AttemptOK(w)'
<1> USE DEF Goto
<1>1. pc[w] \in PC /\ pc[w] # "idle" /\ Key(w) \in Keys
  <2>1. pc[w] # "idle"
    BY DEF WorkerStep, Lookup, TryLock, Begin, ProcessChunk, EndPayload, RecordFailure,
           CompleteImport, Unlock, Settle, DeadLetter, Park, Acknowledge
  <2>2. QED
    BY <2>1, BusyWorker DEF TypeOK, WorkerTypeOK
<1>2. CASE Lookup(w)
  <2>1. job'[w] = job[w] /\ cursor'[w] = 1 /\ pc'[w] \in {"acknowledge", "lock", "settle"}
    BY <1>2 DEF Lookup, AttemptOK, TypeOK, WorkerTypeOK
  <2>2. pc'[w] = "lock" => imports'[Key(w)].status # "absent"
    BY <1>2 DEF Lookup, TypeOK, WorkerTypeOK, storeVars
  <2>3. QED
    BY <2>1, <2>2 DEF AttemptOK, Running, Exists, Key
<1>3. CASE TryLock(w)
  <2>1. job'[w] = job[w] /\ cursor'[w] = 1 /\ pc'[w] \in {"begin", "settle"}
    BY <1>3 DEF TryLock, AttemptOK, TypeOK, WorkerTypeOK
  <2>2. imports'[Key(w)].status # "absent"
    BY <1>3 DEF TryLock, AttemptOK, Exists, storeVars
  <2>3. QED
    BY <2>1, <2>2 DEF AttemptOK, Running, Exists, Key
<1>4. CASE Begin(w)
  <2>1. /\ job'[w] = job[w] /\ cursor'[w] = 1 /\ pc'[w] \in {"chunk", "unlock"}
        /\ pc'[w] = "chunk" => Body(Key(w)) \in Registered
    BY <1>4 DEF Begin, AttemptOK, TypeOK, WorkerTypeOK
  <2>2. Exists(Key(w)) /\ Exists(Key(w))' /\ Body(Key(w))' = Body(Key(w))
    <3>1. Exists(Key(w))
      BY <1>4 DEF Begin, AttemptOK, Running
    <3>2. Key(w)' = Key(w)
      BY <2>1 DEF Key
    <3>3. QED
      BY <1>1, <3>1, <3>2, ImportsPersist DEF Exists, Body
  <2>3. Payload(w)' \in Seq(Seq(Rows))
    BY <1>1, <2>2, PayloadAssumption DEF TypeOK, StoreTypeOK, Exists, Body, Payload
  <2>4. QED
    BY <2>1, <2>2, <2>3 DEF AttemptOK, Running
<1>5. CASE pc'[w] \in {"idle", "settle", "deadLetter", "park", "acknowledge"}
  <2>1. pc'[w] = "idle" => cursor'[w] = 1
    BY <1>1, <1>5 DEF WorkerStep, Lookup, TryLock, Begin, ProcessChunk, EndPayload, RecordFailure,
           CompleteImport, Unlock, Settle, DeadLetter, Park, Acknowledge, Forget, TypeOK, WorkerTypeOK
  <2>2. QED
    BY <1>5, <2>1 DEF AttemptOK, Running
<1>6. CASE /\ pc[w] \in {"chunk", "recordFailure", "complete"}
           /\ job'[w] = job[w]
           /\ pc'[w] \in {"unlock", "recordFailure"}
  <2>1. Exists(Key(w)) /\ Key(w)' = Key(w)
    BY <1>6 DEF AttemptOK, Running, Key
  <2>2. Exists(Key(w))'
    BY <1>1, <2>1, ImportsPersist DEF Exists
  <2>3. QED
    BY <1>6, <2>2 DEF AttemptOK, Running
<1>7. CASE ProcessChunk(w) /\ pc'[w] = "chunk"
  <2>1. /\ pc[w] = "chunk" /\ cursor[w] <= Len(Payload(w))
        /\ SaveBatch(Key(w), Payload(w)[cursor[w]])
        /\ cursor'[w] = cursor[w] + 1 /\ job'[w] = job[w]
        /\ UNCHANGED imports
    BY <1>1, <1>7 DEF ProcessChunk, TypeOK, WorkerTypeOK
  <2>2. Key(w)' = Key(w) /\ Payload(w)' = Payload(w) /\ Body(Key(w))' = Body(Key(w))
    BY <2>1 DEF Key, Payload, Body
  <2>3. Exists(Key(w)) /\ Body(Key(w)) \in Registered
    BY <2>1 DEF AttemptOK, Running
  <2>4. cursor[w] \in Nat \ {0} /\ Payload(w) \in Seq(Seq(Rows))
    BY <1>1, <2>3, PayloadAssumption
       DEF TypeOK, StoreTypeOK, WorkerTypeOK, Exists, Body, Payload
  <2>5. ASSUME NEW n \in 1 .. Len(Payload(w)), n < cursor[w] + 1, NEW r \in Range(Payload(w)[n])
        PROVE  IsStored(r)'
    <3>1. r \in Rows
      BY <2>4, ChunkRows
    <3>2. CASE n < cursor[w]
      <4>1. IsStored(r)
        BY <2>1, <3>2 DEF AttemptOK
      <4>2. QED
        BY <3>1, <4>1, RowsOnlyGrow
    <3>3. CASE n = cursor[w]
      BY <1>1, <2>1, <3>1, <3>3, NoKeyAssumption DEF SaveBatch, Inserted, IsStored
    <3>4. QED
      BY <2>4, <2>5, <3>2, <3>3
  <2>6. Exists(Key(w))'
    BY <2>1, <2>2, <2>3 DEF Exists
  <2>7. QED
    BY <1>7, <2>1, <2>2, <2>3, <2>5, <2>6 DEF AttemptOK, Running
<1>8. CASE EndPayload(w) /\ pc'[w] = "complete"
  <2>1. /\ pc[w] = "chunk" /\ cursor[w] > Len(Payload(w))
        /\ ReadError[Body(Key(w))] = "none"
        /\ UNCHANGED <<imports, stored, job, cursor>>
    BY <1>1, <1>8 DEF EndPayload, TypeOK, WorkerTypeOK, storeVars
  <2>2. QED
    BY <1>8, <2>1 DEF AttemptOK, Running, Key, Payload, Body, Exists, IsStored
<1>9. QED
  <2>1. CASE ProcessChunk(w)
    BY <1>1, <1>6, <1>7, <2>1 DEF ProcessChunk, TypeOK, WorkerTypeOK
  <2>2. CASE EndPayload(w)
    BY <1>1, <1>6, <1>8, <2>2 DEF EndPayload, TypeOK, WorkerTypeOK
  <2>3. CASE RecordFailure(w) \/ CompleteImport(w)
    BY <1>1, <1>6, <2>3 DEF RecordFailure, CompleteImport, TypeOK, WorkerTypeOK
  <2>4. CASE Unlock(w) \/ Settle(w) \/ DeadLetter(w) \/ Park(w) \/ Acknowledge(w)
    BY <1>1, <1>5, <2>4
       DEF Unlock, Settle, DeadLetter, Park, Acknowledge, Forget, TypeOK, WorkerTypeOK
  <2>5. QED
    BY <1>2, <1>3, <1>4, <2>1, <2>2, <2>3, <2>4 DEF WorkerStep

(* A worker moves by its own steps only, or is started again.              *)
LEMMA WorkersAreApart ==
  ASSUME TypeOK, [Next]_vars, NEW w \in Workers
  PROVE  \/ pc'[w] = pc[w] /\ job'[w] = job[w] /\ cursor'[w] = cursor[w]
         \/ WorkerStep(w)
         \/ \E m \in Message : Deliver(w, m)
         \/ pc'[w] = "idle" /\ cursor'[w] = 1 /\ DropLock(w)
<1> USE DEF TypeOK, WorkerTypeOK, Goto
<1>1. CASE UNCHANGED workerVars
  BY <1>1 DEF workerVars
<1>2. ASSUME NEW v \in Workers, v # w,
             WorkerStep(v) \/ \E m \in Message : Deliver(v, m)
      PROVE  pc'[w] = pc[w] /\ job'[w] = job[w] /\ cursor'[w] = cursor[w]
  BY <1>2 DEF WorkerStep, Deliver, Lookup, TryLock, Begin, ProcessChunk, EndPayload,
              RecordFailure, CompleteImport, Unlock, Settle, DeadLetter, Park, Acknowledge, Forget
<1>3. ASSUME NEW v \in Workers, Crash(v) \/ NoticeLoss(v)
      PROVE  \/ pc'[w] = pc[w] /\ job'[w] = job[w] /\ cursor'[w] = cursor[w]
             \/ pc'[w] = "idle" /\ cursor'[w] = 1 /\ DropLock(w)
  BY <1>3 DEF Crash, NoticeLoss, Forget
<1>4. CASE UNCHANGED <<pc, job, cursor>>
  BY <1>4
<1>5. QED
  BY <1>1, <1>2, <1>3, <1>4
     DEF Next, vars, Clientele, Queues, Handlers, Trouble, LoseChannel, LoseLock, RestartBroker

LEMMA StepAttempts == TypeOK /\ AttemptInvariant /\ [Next]_vars => AttemptInvariant'
<1> SUFFICES ASSUME TypeOK, [Next]_vars, NEW w \in Workers, AttemptOK(w)
             PROVE  AttemptOK(w)'
  BY DEF AttemptInvariant
<1>1. ASSUME NEW m \in Message, Deliver(w, m)
      PROVE  AttemptOK(w)'
  BY <1>1 DEF Deliver, Goto, AttemptOK, Running, TypeOK, WorkerTypeOK
<1>2. CASE pc'[w] = "idle" /\ cursor'[w] = 1
  BY <1>2 DEF AttemptOK, Running
<1>3. QED
  BY <1>1, <1>2, WorkersAreApart, AttemptAdvances, AttemptPersists

-----------------------------------------------------------------------------
(* CompletedMeansStored is preserved.                                      *)

LEMMA StepCompleted ==
  ASSUME TypeOK, AttemptInvariant, CompletedMeansStored, [Next]_vars
  PROVE  CompletedMeansStored'
<1> SUFFICES ASSUME NEW k \in Keys, imports'[k].status = "completed"
             PROVE  Whole(k)'
  BY DEF CompletedMeansStored
<1> USE DEF TypeOK, StoreTypeOK
<1>1. CASE imports[k].status = "completed"
  BY <1>1, WholeStays DEF CompletedMeansStored, Exists
<1>2. CASE imports[k].status # "completed"
  <2>1. PICK w \in Workers : pc[w] = "complete" /\ Complete(Key(w), tally[w]) /\ Key(w) = k
    <3>1. ~UNCHANGED imports
      BY <1>2
    <3>2. \A c \in Clients : ~CreateImport(KeyOf[c], BodyOf[c])
      BY <1>2, IntakeAssumption DEF CreateImport
    <3>3. ASSUME NEW w \in Workers, pc[w] # "idle"
          PROVE  ~BeginAttempt(Key(w)) /\ ~Fail(Key(w))
      <4>1. Key(w) \in Keys
        BY <3>3, BusyWorker
      <4>2. QED
        BY <1>2, <4>1 DEF BeginAttempt, Fail
    <3>4. PICK w \in Workers : pc[w] = "complete" /\ Complete(Key(w), tally[w])
      BY <3>1, <3>2, <3>3, ImportsChange
    <3>5. Key(w) = k
      BY <1>2, <3>4, BusyWorker DEF Complete
    <3>6. QED
      BY <3>4, <3>5
  <2>2. /\ Exists(k) /\ Body(k) \in Registered /\ ReadError[Body(k)] = "none"
        /\ \A n \in 1 .. Len(Payload(w)) :
             n < cursor[w] => \A r \in Range(Payload(w)[n]) : IsStored(r)
        /\ cursor[w] > Len(Payload(w))
    BY <2>1 DEF AttemptInvariant, AttemptOK, Running
  <2>3. Body(k)' = Body(k) /\ Body(k) \in Bodies
    BY <2>2, ImportsPersist DEF Exists, Body
  <2>4. ASSUME NEW r \in RowsOf(Body(k))
        PROVE  IsStored(r)
    <3>1. PICK n \in 1 .. Len(Payload(w)) : r \in Range(Payload(w)[n])
      BY <2>1, <2>4 DEF RowsOf, Payload
    <3>2. cursor[w] \in Nat /\ Len(Payload(w)) \in Nat
      BY <2>1, <2>3, PayloadAssumption DEF WorkerTypeOK, Payload
    <3>3. n < cursor[w]
      BY <2>2, <3>2
    <3>4. QED
      BY <2>2, <3>1, <3>3
  <2>5. Whole(k)
    BY <2>2, <2>4 DEF Whole, Readable
  <2>6. QED
    BY <2>2, <2>5, WholeStays
<1>3. QED
  BY <1>1, <1>2

-----------------------------------------------------------------------------
(* The theorems.                                                           *)

(* The inductive invariant.  Types need AttemptInvariant, because a        *)
(* handler updates the row of an import it found earlier, and an update    *)
(* of a row that is not there is not an import.                            *)
IInv == TypeOK /\ BudgetIsKept /\ AttemptInvariant /\ CompletedMeansStored

LEMMA InitEstablishes == Init => IInv
<1> SUFFICES ASSUME Init
             PROVE  IInv
  OBVIOUS
<1>1. TypeOK
  BY InitTypes
<1>2. AttemptInvariant
  BY DEF Init, WorkerInit, AttemptInvariant, AttemptOK, Running
<1>3. CompletedMeansStored
  BY DEF Init, StoreInit, CompletedMeansStored
<1>4. BudgetIsKept
  BY BudgetAssumption DEF Init, BudgetIsKept
<1>5. QED
  BY <1>1, <1>2, <1>3, <1>4 DEF IInv

LEMMA StepPreserves == IInv /\ [Next]_vars => IInv'
BY StepTypes, BudgetOnlyFalls, StepAttempts, StepCompleted DEF IInv

LEMMA Invariance == Spec => []IInv
BY InitEstablishes, StepPreserves, PTL DEF Spec

(* Every variable stays in its type; among them, no message is taken from  *)
(* a queue that does not hold it, no attempt counts past the ceiling, and  *)
(* no row that exists is without the request it was made for.              *)
THEOREM TypeCorrect == Spec => []TypeOK
<1>1. IInv => TypeOK
  BY DEF IInv
<1>2. QED
  BY <1>1, Invariance, PTL

(* An attempt that stands at a chunk has every earlier chunk in the table. *)
THEOREM AttemptsAreWhole == Spec => []AttemptInvariant
<1>1. IInv => AttemptInvariant
  BY DEF IInv
<1>2. QED
  BY <1>1, Invariance, PTL

(* No import says `completed` over a payload that is not in the table to   *)
(* the last row, whatever crashes, is redelivered or loses its lock.       *)
THEOREM CompletedImportsAreWhole == Spec => []CompletedMeansStored
<1>1. IInv => CompletedMeansStored
  BY DEF IInv
<1>2. QED
  BY <1>1, Invariance, PTL

(* Once an import was completed, whatever becomes of its status, its       *)
(* payload stays in the table.                                             *)
THEOREM CompletedStaysWhole ==
  ASSUME NEW k \in Keys
  PROVE  Spec => [](imports[k].status = "completed" => [](Exists(k) /\ Whole(k)))
<1>1. IInv => (imports[k].status = "completed" => Exists(k) /\ Whole(k))
  BY DEF IInv, CompletedMeansStored, Exists
<1>2. IInv /\ [Next]_vars /\ Exists(k) /\ Whole(k) => (Exists(k) /\ Whole(k))'
  BY ImportsPersist, WholeStays DEF IInv
<1>3. QED
  BY <1>1, <1>2, Invariance, PTL DEF Spec

(* A row that is in the table is never rewritten, nor removed.             *)
THEOREM RowsStay == Spec => RowsAreFinal
<1>1. [Next]_vars => [\A r \in Rows : IsStored(r) => stored'[r] = stored[r]]_stored
  BY RowsOnlyGrow
<1>2. QED
  BY <1>1, PTL DEF Spec, RowsAreFinal

-----------------------------------------------------------------------------
(* The lock.                                                               *)

(* What excludes is that whoever runs an attempt is the holder, and that   *)
(* until a session is lost only the holder itself gives the lock up.       *)
AttemptsHoldLocks ==
  NoneYet("lock") => \A w \in Workers : Running(w) => Holding(w)

(* LockExcludes alone is not inductive.                                    *)
LockInvariant == LocksEndWithAttempts /\ AttemptsHoldLocks

TakesLock(w) ==
  /\ pc[w] = "lock" /\ Running(w)' /\ job'[w] = job[w]
  /\ locks[Lock(w)] = NoWorker
  /\ locks' = [locks EXCEPT ![Lock(w)] = w]

LEMMA LocksChange ==
  ASSUME TypeOK, [Next]_vars
  PROVE  \/ UNCHANGED locks
         \/ \E w \in Workers : TakesLock(w)
         \/ \E w \in Workers : DropLock(w) /\ (~Running(w)' \/ Spend("lock"))
<1> USE DEF TypeOK, WorkerTypeOK, Goto, Running
<1>1. ASSUME NEW w \in Workers, TryLock(w)
      PROVE  UNCHANGED locks \/ TakesLock(w)
  BY <1>1 DEF TryLock, TakesLock
<1>2. ASSUME NEW w \in Workers, Unlock(w)
      PROVE  DropLock(w) /\ ~Running(w)'
  BY <1>2 DEF Unlock
<1>3. ASSUME NEW w \in Workers, Crash(w) \/ NoticeLoss(w)
      PROVE  DropLock(w) /\ ~Running(w)'
  BY <1>3 DEF Crash, NoticeLoss, Forget
<1>4. ASSUME NEW w \in Workers, LoseLock(w)
      PROVE  DropLock(w)
  BY <1>4 DEF LoseLock
<1>5. CASE UNCHANGED locks
  BY <1>5
<1>6. QED
  BY <1>1, <1>2, <1>3, <1>4, <1>5
     DEF Next, vars, workerVars, Clientele, Queues, Handlers, Trouble, WorkerStep, Deliver,
         Lookup, Begin, ProcessChunk, EndPayload, RecordFailure, CompleteImport, Settle,
         DeadLetter, Park, Acknowledge, LoseChannel, RestartBroker

(* A worker begins to run an attempt by taking its lock, and gives it up   *)
(* when it ends to.                                                        *)
LEMMA RunnersChange ==
  ASSUME TypeOK, [Next]_vars, NEW w \in Workers
  PROVE  /\ Running(w)' => TakesLock(w) \/ (Running(w) /\ job'[w] = job[w])
         /\ Running(w) => DropLock(w) \/ (Running(w)' /\ job'[w] = job[w])
<1> USE DEF TypeOK, WorkerTypeOK, Goto, Running
<1>1. CASE pc'[w] = pc[w] /\ job'[w] = job[w] /\ cursor'[w] = cursor[w]
  BY <1>1
<1>2. CASE TryLock(w)
  BY <1>2 DEF TryLock, TakesLock
<1>3. CASE Unlock(w)
  BY <1>3 DEF Unlock
<1>4. CASE WorkerStep(w) /\ ~TryLock(w) /\ ~Unlock(w)
  BY <1>4
     DEF WorkerStep, Lookup, Begin, ProcessChunk, EndPayload, RecordFailure, CompleteImport,
         Settle, DeadLetter, Park, Acknowledge, Forget
<1>5. CASE \E m \in Message : Deliver(w, m)
  BY <1>5 DEF Deliver
<1>6. CASE pc'[w] = "idle" /\ DropLock(w)
  BY <1>6
<1>7. QED
  BY <1>1, <1>2, <1>3, <1>4, <1>5, <1>6, WorkersAreApart

LEMMA StepLocksEnd == TypeOK /\ LocksEndWithAttempts /\ [Next]_vars => LocksEndWithAttempts'
<1> SUFFICES ASSUME TypeOK, LocksEndWithAttempts, [Next]_vars,
                    NEW l \in LockKeys, NEW v, v = locks'[l], v # NoWorker
             PROVE  Running(v)' /\ Lock(v)' = l
  BY DEF LocksEndWithAttempts
<1> USE DEF TypeOK, WorkerTypeOK
<1>1. ASSUME NEW w \in Workers, TakesLock(w)
      PROVE  v = locks[l] \/ (v = w /\ l = Lock(w))
  BY <1>1 DEF TakesLock
<1>2. ASSUME NEW w \in Workers, TakesLock(w)
      PROVE  Running(w)' /\ Lock(w)' = Lock(w)
  BY <1>2 DEF TakesLock, Lock, Key
<1>3. ASSUME NEW w \in Workers, DropLock(w)
      PROVE  v = locks[l] /\ v # w
  BY <1>3, WorkerAssumption DEF DropLock
<1>4. CASE v = locks[l]
  <2>1. v \in Workers /\ Running(v) /\ Lock(v) = l
    BY <1>4 DEF LocksEndWithAttempts
  <2>2. ~DropLock(v)
    BY <1>3, <2>1
  <2>3. QED
    BY <2>1, <2>2, RunnersChange DEF Lock, Key
<1>5. QED
  BY <1>1, <1>2, <1>3, <1>4, LocksChange

LEMMA StepHoldsLocks ==
  TypeOK /\ BudgetIsKept /\ AttemptsHoldLocks /\ [Next]_vars => AttemptsHoldLocks'
<1> SUFFICES ASSUME TypeOK, BudgetIsKept, AttemptsHoldLocks, [Next]_vars, NoneYet("lock")',
                    NEW w \in Workers, Running(w)'
             PROVE  Holding(w)'
  BY DEF AttemptsHoldLocks
<1> USE DEF TypeOK, WorkerTypeOK
<1>1. NoneYet("lock") /\ ~Spend("lock")
  BY BudgetOnlyFalls DEF Disturbances
<1>2. CASE TakesLock(w)
  BY <1>2, BusyWorker DEF TakesLock, Holding, Lock, Key
<1>3. CASE Running(w) /\ job'[w] = job[w]
  <2>1. Holding(w) /\ Lock(w)' = Lock(w) /\ Lock(w) \in LockKeys
    BY <1>1, <1>3, BusyWorker DEF AttemptsHoldLocks, Running, Lock, Key
  <2>2. ASSUME NEW v \in Workers, TakesLock(v)
        PROVE  locks'[Lock(w)] = w
    <3>1. Lock(v) # Lock(w)
      BY <2>1, <2>2, WorkerAssumption DEF TakesLock, Holding
    <3>2. QED
      BY <2>1, <2>2, <3>1 DEF TakesLock, Holding
  <2>3. ASSUME NEW v \in Workers, DropLock(v), ~Running(v)'
        PROVE  locks'[Lock(w)] = w
    <3>1. v # w
      BY <2>3
    <3>2. QED
      BY <2>1, <2>3, <3>1 DEF DropLock, Holding
  <2>4. locks'[Lock(w)] = w
    BY <1>1, <2>1, <2>2, <2>3, LocksChange DEF Holding
  <2>5. QED
    BY <2>1, <2>4 DEF Holding
<1>4. QED
  BY <1>2, <1>3, RunnersChange

LEMMA LockInvariance == Spec => []LockInvariant
<1>1. Init => LockInvariant
  BY DEF Init, WorkerInit, LockInvariant, LocksEndWithAttempts, AttemptsHoldLocks, Running
<1>2. IInv /\ LockInvariant /\ [Next]_vars => LockInvariant'
  BY StepLocksEnd, StepHoldsLocks DEF IInv, LockInvariant
<1>3. QED
  BY <1>1, <1>2, Invariance, PTL DEF Spec

(* At most one worker runs an attempt of an import, for any number of      *)
(* copies of its message and any crashes, until the session that holds a   *)
(* lock is lost before its process.                                        *)
THEOREM AttemptsExclude == Spec => []LockExcludes
<1>1. LockInvariant => LockExcludes
  BY DEF LockInvariant, AttemptsHoldLocks, LockExcludes, Holding, Lock
<1>2. QED
  BY <1>1, LockInvariance, PTL

(* No lock outlives the attempt it was taken for: not by an error (the     *)
(* finally of withImportLock), a crash, a lost channel or lost session.    *)
THEOREM NoLockLeaks == Spec => []LocksEndWithAttempts
<1>1. LockInvariant => LocksEndWithAttempts
  BY DEF LockInvariant
<1>2. QED
  BY <1>1, LockInvariance, PTL

=============================================================================
