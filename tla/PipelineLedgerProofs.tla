------------------------ MODULE PipelineLedgerProofs ------------------------
(***************************************************************************)
(* ImportPipeline implements ImportLedger, and what else holds of the      *)
(* tables, the queues and the clients: for every set of keys, bodies,      *)
(* rows, workers and clients and every budget of disturbances.             *)
(***************************************************************************)
EXTENDS ImportPipelineProofs

(* A step changes one table at most, by one statement.                     *)
LEMMA TablesChange ==
  ASSUME [Next]_vars
  PROVE  \/ UNCHANGED <<imports, stored>>
         \/ /\ UNCHANGED stored
            /\ \/ \E c \in Clients : CreateImport(KeyOf[c], BodyOf[c])
               \/ \E w \in Workers :
                    \/ pc[w] = "begin" /\ BeginAttempt(Key(w))
                    \/ pc[w] = "complete" /\ Complete(Key(w), tally[w])
                    \/ pc[w] \in {"recordFailure", "deadLetter"} /\ Fail(Key(w))
         \/ /\ UNCHANGED imports
            /\ \E w \in Workers :
                 /\ pc[w] = "chunk" /\ cursor[w] <= Len(Payload(w))
                 /\ SaveBatch(Key(w), Payload(w)[cursor[w]])
BY DEF Next, vars, storeVars, Clientele, Queues, Handlers, Trouble, Request, IntakeStep, Find,
       Create, Publish, CrashApi, WorkerStep, Deliver, Lookup, TryLock, Begin, ProcessChunk,
       EndPayload, RecordFailure, CompleteImport, Unlock, Settle, DeadLetter, Park, Acknowledge,
       Crash, LoseChannel, NoticeLoss, LoseLock, RestartBroker

(* What a worker at a chunk saves belongs to its import's payload.         *)
LEMMA ChunkOfPayload ==
  ASSUME TypeOK, AttemptInvariant, NEW w \in Workers,
         pc[w] = "chunk", cursor[w] <= Len(Payload(w))
  PROVE  /\ Key(w) \in Keys /\ Exists(Key(w))
         /\ \A r \in Range(Payload(w)[cursor[w]]) : r \in Rows /\ r \in RowsOf(Body(Key(w)))
<1>1. Key(w) \in Keys /\ Exists(Key(w))
  BY BusyWorker DEF TypeOK, AttemptInvariant, AttemptOK, Running
<1>2. Payload(w) \in Seq(Seq(Rows))
  BY <1>1, PayloadAssumption DEF TypeOK, StoreTypeOK, Exists, Body, Payload
<1>3. cursor[w] \in 1 .. Len(Payload(w))
  BY <1>2 DEF TypeOK, WorkerTypeOK
<1>4. ASSUME NEW r \in Range(Payload(w)[cursor[w]])
      PROVE  r \in Rows /\ r \in RowsOf(Body(Key(w)))
  <2>1. r \in Rows
    BY <1>2, <1>3, ChunkRows
  <2>2. r \in RowsOf(Body(Key(w)))
    BY <1>3 DEF RowsOf, Payload
  <2>3. QED
    BY <2>1, <2>2
<1>5. QED
  BY <1>1, <1>4

-----------------------------------------------------------------------------
(* The refinement.                                                         *)

Verdicts == [k \in Keys |-> Verdict(imports[k].status)]

Requests == [k \in Keys |-> Body(k)]

LEMMA VerdictOf ==
  ASSUME NEW s
  PROVE  /\ Verdict("absent") = "none"
         /\ Verdict("pending") = "open" /\ Verdict("processing") = "open"
         /\ Verdict("completed") = "completed" /\ Verdict("failed") = "failed"
         /\ s \in Status => (Verdict(s) = "none" <=> s = "absent")
BY DEF Verdict, Status

(* A statement that gives an import a status, and no other body.           *)
LEMMA StatusUpdate ==
  ASSUME TypeOK, NEW k \in Keys, NEW s,
         \A j \in Keys : Body(j)' = Body(j),
         \A j \in Keys : imports'[j].status = IF j = k THEN s ELSE imports[j].status
  PROVE  /\ Requests' = Requests
         /\ Verdicts' = [Verdicts EXCEPT ![k] = Verdict(s)]
BY DEF Requests, Verdicts

LEMMA StepImplements ==
  ASSUME IInv, [Next]_vars
  PROVE  [Ledger!Next]_Ledger!vars
<1>1. TypeOK /\ AttemptInvariant
  BY DEF IInv
<1>2. CASE UNCHANGED <<imports, stored>>
  BY <1>2 DEF Ledger!vars, Body
<1>3. CASE UNCHANGED stored /\ \E c \in Clients : CreateImport(KeyOf[c], BodyOf[c])
  <2>1. PICK c \in Clients : CreateImport(KeyOf[c], BodyOf[c])
    BY <1>3
  <2> DEFINE k == KeyOf[c]
             b == BodyOf[c]
  <2>2. k \in Keys /\ b \in Bodies
    BY IntakeAssumption
  <2> HIDE DEF k, b
  <2>3. /\ imports[k].status = "absent"
        /\ imports' = [imports EXCEPT ![k] =
                         [status |-> "pending", body |-> b, counts |-> EmptyCounts]]
    BY <2>1 DEF CreateImport, Exists, k, b
  <2>4. /\ \A j \in Keys : imports'[j].status = IF j = k THEN "pending" ELSE imports[j].status
        /\ \A j \in Keys : Body(j)' = IF j = k THEN b ELSE Body(j)
    BY <1>1, <2>2, <2>3 DEF TypeOK, StoreTypeOK, Body
  <2> DEFINE Said(j) == Verdict(imports[j].status)
  <2>5. \A j \in Keys : Said(j)' = IF j = k THEN "open" ELSE Said(j)
    BY <2>4, VerdictOf
  <2>6. Said(k) = "none"
    BY <2>3, VerdictOf
  <2>7. /\ Verdicts[k] = "none"
        /\ Verdicts' = [Verdicts EXCEPT ![k] = "open"]
        /\ Requests' = [Requests EXCEPT ![k] = b]
    BY <2>2, <2>4, <2>5, <2>6 DEF Verdicts, Requests
  <2>8. Ledger!Accept(k, b)
    BY <1>3, <2>2, <2>7 DEF Ledger!Accept, Ledger!Known, Verdicts, Requests
  <2>9. QED
    BY <2>2, <2>8 DEF Ledger!Next
<1>4. CASE /\ UNCHANGED stored
           /\ \E w \in Workers :
                \/ pc[w] = "begin" /\ BeginAttempt(Key(w))
                \/ pc[w] = "complete" /\ Complete(Key(w), tally[w])
                \/ pc[w] \in {"recordFailure", "deadLetter"} /\ Fail(Key(w))
  <2>1. PICK w \in Workers :
          \/ pc[w] = "begin" /\ BeginAttempt(Key(w))
          \/ pc[w] = "complete" /\ Complete(Key(w), tally[w])
          \/ pc[w] \in {"recordFailure", "deadLetter"} /\ Fail(Key(w))
    BY <1>4
  <2>2. PICK k \in Keys : k = Key(w)
    BY <1>1, <2>1, BusyWorker DEF TypeOK
  <2>3. pc[w] \in {"begin", "complete"} => Exists(k)
    BY <1>1, <2>2 DEF AttemptInvariant, AttemptOK, Running
  <2>4. CASE pc[w] = "begin" /\ BeginAttempt(k)
    <3>1. /\ \A j \in Keys : imports'[j].status = IF j = k THEN "processing" ELSE imports[j].status
          /\ \A j \in Keys : Body(j)' = Body(j)
      BY <1>1, <2>2, <2>4 DEF BeginAttempt, TypeOK, StoreTypeOK, Body
    <3>2. Requests' = Requests /\ Verdicts' = [Verdicts EXCEPT ![k] = "open"]
      BY <1>1, <2>2, <3>1, StatusUpdate, VerdictOf
    <3>3. Verdicts[k] # "none"
      BY <1>1, <2>2, <2>3, <2>4, VerdictOf DEF Verdicts, Exists, TypeOK, StoreTypeOK
    <3>4. Ledger!Reopen(k)
      BY <1>4, <3>2, <3>3 DEF Ledger!Reopen, Ledger!Known, Verdicts, Requests
    <3>5. QED
      BY <2>2, <3>4 DEF Ledger!Next
  <2>5. CASE pc[w] = "complete" /\ Complete(k, tally[w])
    <3>1. /\ \A j \in Keys : imports'[j].status = IF j = k THEN "completed" ELSE imports[j].status
          /\ \A j \in Keys : Body(j)' = Body(j)
      BY <1>1, <2>2, <2>5 DEF Complete, TypeOK, StoreTypeOK, Body
    <3>2. Requests' = Requests /\ Verdicts' = [Verdicts EXCEPT ![k] = "completed"]
      BY <1>1, <2>2, <3>1, StatusUpdate, VerdictOf
    <3>3. Verdicts[k] # "none"
      BY <1>1, <2>2, <2>3, <2>5, VerdictOf DEF Verdicts, Exists, TypeOK, StoreTypeOK
    <3>4. /\ Requests[k] \in Readable
          /\ \A r \in RowsOf(Requests[k]) : stored[r] # NoKey
      <4>1. CompletedMeansStored'
        BY StepCompleted DEF IInv
      <4>2. Body(k)' \in Readable /\ \A r \in RowsOf(Body(k)') : IsStored(r)'
        BY <2>2, <3>1, <4>1 DEF CompletedMeansStored, Whole, Readable, RowsOf
      <4>3. QED
        BY <1>4, <2>2, <3>1, <4>2 DEF Requests, IsStored
    <3>5. Ledger!Complete(k)
      BY <1>4, <3>2, <3>3, <3>4
         DEF Ledger!Complete, Ledger!Known, Ledger!RowsOf, Ledger!Range, RowsOf, Range,
             Verdicts, Requests
    <3>6. QED
      BY <2>2, <3>5 DEF Ledger!Next
  <2>6. CASE Fail(k)
    <3>1. /\ \A j \in Keys : imports'[j].status =
               IF j = k /\ imports[j].status # "absent" THEN "failed" ELSE imports[j].status
          /\ \A j \in Keys : Body(j)' = Body(j)
      BY <1>1, <2>2, <2>6 DEF Fail, TypeOK, StoreTypeOK, Body
    <3>2. CASE imports[k].status = "absent"
      <4>1. Requests' = Requests /\ Verdicts' = Verdicts
        BY <3>1, <3>2 DEF Requests, Verdicts
      <4>2. QED
        BY <1>4, <4>1 DEF Ledger!vars, Requests, Verdicts
    <3>3. CASE imports[k].status # "absent"
      <4>1. Requests' = Requests /\ Verdicts' = [Verdicts EXCEPT ![k] = "failed"]
        BY <1>1, <2>2, <3>1, <3>3, StatusUpdate, VerdictOf
      <4>2. Verdicts[k] # "none"
        BY <1>1, <2>2, <3>3, VerdictOf DEF Verdicts, TypeOK, StoreTypeOK
      <4>3. Ledger!Fail(k)
        BY <1>4, <4>1, <4>2 DEF Ledger!Fail, Ledger!Known, Verdicts, Requests
      <4>4. QED
        BY <2>2, <4>3 DEF Ledger!Next
    <3>4. QED
      BY <3>2, <3>3
  <2>7. QED
    BY <2>1, <2>2, <2>4, <2>5, <2>6
<1>5. CASE /\ UNCHANGED imports
           /\ \E w \in Workers :
                /\ pc[w] = "chunk" /\ cursor[w] <= Len(Payload(w))
                /\ SaveBatch(Key(w), Payload(w)[cursor[w]])
  <2>1. PICK w \in Workers : /\ pc[w] = "chunk" /\ cursor[w] <= Len(Payload(w))
                             /\ SaveBatch(Key(w), Payload(w)[cursor[w]])
    BY <1>5
  <2> DEFINE new == Inserted(Payload(w)[cursor[w]])
  <2>2. PICK k \in Keys : k = Key(w)
    BY <1>1, <2>1, ChunkOfPayload
  <2>3. /\ Exists(k)
        /\ \A r \in new : r \in Rows /\ r \in RowsOf(Body(k)) /\ stored[r] = NoKey
    BY <1>1, <2>1, <2>2, ChunkOfPayload DEF Inserted, IsStored
  <2>4. stored' = [r \in Rows |-> IF r \in new THEN k ELSE stored[r]]
    BY <2>1, <2>2 DEF SaveBatch
  <2> HIDE DEF new
  <2>5. Requests' = Requests /\ Verdicts' = Verdicts
    BY <1>5 DEF Requests, Verdicts, Body
  <2>6. Verdicts[k] # "none" /\ Requests[k] = Body(k)
    BY <1>1, <2>2, <2>3, VerdictOf DEF Verdicts, Requests, Exists, TypeOK, StoreTypeOK
  <2>7. new \subseteq {r \in RowsOf(Requests[k]) : stored[r] = NoKey}
    BY <2>3, <2>6
  <2>8. Ledger!Enter(k, new)
    BY <2>4, <2>5, <2>6, <2>7
       DEF Ledger!Enter, Ledger!RowsOf, Ledger!Range, RowsOf, Range, Verdicts, Requests
  <2>9. new \in SUBSET Rows
    BY <2>3
  <2>10. QED
    BY <2>2, <2>8, <2>9 DEF Ledger!Next
<1>6. QED
  BY <1>2, <1>3, <1>4, <1>5, TablesChange

(* Over any deliveries, retries, crashes and lost locks the tables go      *)
(* through the steps of a ledger: each row once and for good, `completed`  *)
(* only over a whole payload (ADR-0007's exactly-once effect).             *)
THEOREM PipelineImplementsLedger == Spec => ExactlyOnceEffect
<1>1. Init => Ledger!Init
  BY VerdictOf DEF Init, StoreInit, Ledger!Init, Body
<1>2. IInv /\ [Next]_vars => [Ledger!Next]_Ledger!vars
  BY StepImplements
<1>3. QED
  BY <1>1, <1>2, Invariance, PTL DEF Spec, ExactlyOnceEffect, Ledger!Spec

-----------------------------------------------------------------------------
(* Rows and the imports that wrote them.                                   *)

Started(k) == imports[k].status \in {"processing", "completed", "failed"}

LEMMA StartedPersists ==
  ASSUME TypeOK, AttemptInvariant, [Next]_vars, NEW k \in Keys, Started(k)
  PROVE  Started(k)'
<1> USE DEF TypeOK, StoreTypeOK, Started
<1>1. CASE UNCHANGED imports
  BY <1>1
<1>2. CASE \E c \in Clients : CreateImport(KeyOf[c], BodyOf[c])
  BY <1>2, IntakeAssumption DEF CreateImport, Exists
<1>3. ASSUME NEW w \in Workers, pc[w] # "idle",
             BeginAttempt(Key(w)) \/ Complete(Key(w), tally[w]) \/ Fail(Key(w))
      PROVE  Started(k)'
  <2>1. Key(w) \in Keys
    BY <1>3, BusyWorker
  <2>2. QED
    BY <1>3, <2>1 DEF BeginAttempt, Complete, Fail
<1>4. QED
  BY <1>1, <1>2, <1>3, ImportsChange

(* A worker comes to a chunk by recording that its attempt begins.         *)
ChunksAreStarted == \A w \in Workers : pc[w] = "chunk" => Started(Key(w))

LEMMA StepChunks ==
  ASSUME TypeOK, AttemptInvariant, ChunksAreStarted, [Next]_vars
  PROVE  ChunksAreStarted'
<1> SUFFICES ASSUME NEW w \in Workers, pc'[w] = "chunk"
             PROVE  Started(Key(w))'
  BY DEF ChunksAreStarted
<1> USE DEF TypeOK, WorkerTypeOK, Goto
<1>1. \/ pc[w] = "chunk" /\ job'[w] = job[w]
      \/ pc[w] = "begin" /\ job'[w] = job[w] /\ BeginAttempt(Key(w))
  <2>1. CASE pc'[w] = pc[w] /\ job'[w] = job[w] /\ cursor'[w] = cursor[w]
    BY <2>1
  <2>2. CASE WorkerStep(w)
    BY <2>2 DEF WorkerStep, Lookup, TryLock, Begin, ProcessChunk, EndPayload, RecordFailure,
                CompleteImport, Unlock, Settle, DeadLetter, Park, Acknowledge, Forget
  <2>3. CASE \E m \in Message : Deliver(w, m)
    BY <2>3 DEF Deliver
  <2>4. CASE pc'[w] = "idle"
    BY <2>4
  <2>5. QED
    BY <2>1, <2>2, <2>3, <2>4, WorkersAreApart
<1>2. Key(w) \in Keys
  BY <1>1, BusyWorker
<1>3. PICK k \in Keys : k = Key(w) /\ k = Key(w)'
  BY <1>1, <1>2 DEF Key
<1>4. Started(k)'
  <2>1. CASE pc[w] = "chunk"
    BY <1>3, <2>1, StartedPersists DEF ChunksAreStarted
  <2>2. CASE BeginAttempt(k)
    BY <2>2 DEF BeginAttempt, Started, StoreTypeOK
  <2>3. QED
    BY <1>1, <1>3, <2>1, <2>2
<1>5. QED
  BY <1>3, <1>4 DEF Started

RowsHaveImports ==
  \A r \in Rows : IsStored(r) =>
    Started(stored[r]) /\ r \in RowsOf(Body(stored[r]))

LEMMA StepRows ==
  ASSUME TypeOK, AttemptInvariant, ChunksAreStarted, RowsHaveImports, [Next]_vars
  PROVE  RowsHaveImports'
<1> SUFFICES ASSUME NEW r \in Rows, IsStored(r)'
             PROVE  Started(stored[r])' /\ r \in RowsOf(Body(stored[r]))'
  BY DEF RowsHaveImports
<1>1. PICK k \in Keys : /\ k = stored'[r] /\ Started(k) /\ r \in RowsOf(Body(k))
  <2>1. CASE IsStored(r)
    <3>1. stored[r] \in Keys /\ stored'[r] = stored[r]
      BY <2>1, RowsOnlyGrow DEF TypeOK, StoreTypeOK, IsStored
    <3>2. QED
      BY <2>1, <3>1 DEF RowsHaveImports
  <2>2. CASE ~IsStored(r)
    <3>1. PICK w \in Workers : /\ pc[w] = "chunk" /\ cursor[w] <= Len(Payload(w))
                               /\ SaveBatch(Key(w), Payload(w)[cursor[w]])
      BY <2>2, TablesChange DEF IsStored
    <3>2. stored'[r] = Key(w) /\ r \in Range(Payload(w)[cursor[w]])
      BY <2>2, <3>1 DEF SaveBatch, Inserted, IsStored
    <3>3. Key(w) \in Keys /\ r \in RowsOf(Body(Key(w)))
      BY <3>1, <3>2, ChunkOfPayload
    <3>4. Started(Key(w))
      BY <3>1 DEF ChunksAreStarted
    <3>5. QED
      BY <3>2, <3>3, <3>4
  <2>3. QED
    BY <2>1, <2>2
<1>2. Started(k)' /\ Body(k)' = Body(k)
  BY <1>1, StartedPersists, ImportsPersist DEF Started, Exists
<1>3. QED
  BY <1>1, <1>2 DEF Started, RowsOf, Body

(* No row is in the table that no started import asked for; it carries the *)
(* name of one that did (saveBatch under process-import).                  *)
THEOREM RowsAreRequested == Spec => []StoredWasRequested
<1>1. Init => ChunksAreStarted /\ RowsHaveImports
  BY DEF Init, WorkerInit, StoreInit, ChunksAreStarted, RowsHaveImports, IsStored
<1>2. IInv /\ ChunksAreStarted /\ RowsHaveImports /\ [Next]_vars
        => (ChunksAreStarted /\ RowsHaveImports)'
  BY StepChunks, StepRows DEF IInv
<1>3. RowsHaveImports => StoredWasRequested
  BY DEF RowsHaveImports, StoredWasRequested, Started
<1>4. QED
  BY <1>1, <1>2, <1>3, Invariance, PTL DEF Spec

-----------------------------------------------------------------------------
(* Clients.                                                                *)

Owns(c) == Exists(KeyOf[c]) /\ Body(KeyOf[c]) = BodyOf[c]

ClientsOwnTheirs ==
  \A c \in Clients : stage[c] = "publish" \/ reply[c] = "accepted" => Owns(c)

LEMMA OwnsPersists ==
  ASSUME TypeOK, [Next]_vars, NEW c \in Clients, Owns(c)
  PROVE  Owns(c)'
<1>1. KeyOf[c] \in Keys
  BY IntakeAssumption
<1>2. QED
  BY <1>1, ImportsPersist DEF Owns, Exists, Body

LEMMA StepClients ==
  ASSUME TypeOK, ClientsOwnTheirs, [Next]_vars
  PROVE  ClientsOwnTheirs'
<1> SUFFICES ASSUME NEW c \in Clients, stage'[c] = "publish" \/ reply'[c] = "accepted"
             PROVE  Owns(c)'
  BY DEF ClientsOwnTheirs
<1> USE DEF TypeOK, IntakeTypeOK
<1>1. \/ Owns(c)
      \/ CreateImport(KeyOf[c], BodyOf[c])
  <2>1. CASE stage'[c] = stage[c] /\ reply'[c] = reply[c]
    BY <2>1 DEF ClientsOwnTheirs
  <2>2. ASSUME NEW d \in Clients, d # c, Request(d) \/ IntakeStep(d) \/ CrashApi(d)
        PROVE  stage'[c] = stage[c] /\ reply'[c] = reply[c]
    BY <2>2 DEF Request, IntakeStep, Find, Create, Publish, CrashApi, Reuse, MoveTo, Answer
  <2>3. CASE Request(c) \/ CrashApi(c)
    BY <2>3 DEF Request, CrashApi, Answer
  <2>4. CASE Find(c)
    BY <2>4 DEF Find, Reuse, MoveTo, Answer, Owns, ClientsOwnTheirs
  <2>5. CASE Create(c)
    BY <2>5 DEF Create, Reuse, MoveTo, Answer, Owns, ClientsOwnTheirs
  <2>6. CASE Publish(c)
    BY <2>6 DEF Publish, Answer, ClientsOwnTheirs
  <2>7. CASE UNCHANGED clientVars
    BY <2>1, <2>7 DEF clientVars
  <2>8. QED
    BY <2>1, <2>2, <2>3, <2>4, <2>5, <2>6, <2>7
       DEF Next, vars, Clientele, Queues, Handlers, Trouble, IntakeStep
<1>2. CASE Owns(c)
  BY <1>2, OwnsPersists
<1>3. CASE CreateImport(KeyOf[c], BodyOf[c])
  <2>1. KeyOf[c] \in Keys
    BY IntakeAssumption
  <2>2. QED
    BY <1>3, <2>1 DEF CreateImport, Owns, Exists, Body, StoreTypeOK
<1>4. QED
  BY <1>1, <1>2, <1>3

(* Whoever is told `accepted` has the import of its own body, however many *)
(* clients race under one key (request-import.use-case.ts).                *)
THEOREM KeysNameOneRequest == Spec => []AcceptedIsOwnImport
<1>1. Init => ClientsOwnTheirs
  BY DEF Init, IntakeInit, ClientsOwnTheirs
<1>2. IInv /\ ClientsOwnTheirs /\ [Next]_vars => ClientsOwnTheirs'
  BY StepClients DEF IInv
<1>3. ClientsOwnTheirs => AcceptedIsOwnImport
  BY DEF ClientsOwnTheirs, Owns, AcceptedIsOwnImport
<1>4. QED
  BY <1>1, <1>2, <1>3, Invariance, PTL DEF Spec

-----------------------------------------------------------------------------
(* Messages.                                                               *)

HoldsMessage(m) ==
  \/ ready[m] + delayed[m] > 0
  \/ \E q \in Copies : unsynced[q][m] > 0
  \/ m \in parked

MessagesFollowRows ==
  /\ \A m \in Message : HoldsMessage(m) => Exists(m.key)
  /\ \A w \in Workers : job[w] \in Message => Exists(Key(w))

(* Where the messages of a step come from.                                 *)
LEMMA MessagesChange ==
  ASSUME TypeOK, [Next]_vars, NEW m \in Message, HoldsMessage(m)'
  PROVE  \/ HoldsMessage(m)
         \/ \E c \in Clients : stage[c] = "publish" /\ m.key = KeyOf[c]
         \/ \E w \in Workers : job[w] \in Message /\ m.key = Key(w)
<1> USE DEF TypeOK, BrokerTypeOK, Bags
<1>1. ASSUME UNCHANGED brokerVars
      PROVE  HoldsMessage(m)
  BY <1>1 DEF brokerVars, HoldsMessage
<1>2. ASSUME NEW n \in Message, Requeue(n) \/ \E q \in Copies : SendCopy(q, n)
      PROVE  HoldsMessage(m) \/ m = n
  BY <1>2 DEF Requeue, SendCopy, PlusOne, HoldsMessage, Copies
<1>3. ASSUME NEW k \in Keys, Enqueue(k)
      PROVE  HoldsMessage(m) \/ m.key = k
  <2>1. FirstAttempt(k) \in Message
    BY MaxAttemptsAssumption DEF FirstAttempt, Message, Attempts
  <2>2. HoldsMessage(m) \/ m = FirstAttempt(k)
    BY <1>3, <2>1 DEF Enqueue, PlusOne, HoldsMessage
  <2>3. QED
    BY <2>2 DEF FirstAttempt
<1>4. CASE Sync \/ \E n \in Message : Expire(n)
  BY <1>4 DEF Sync, Expire, PlusOne, MinusOne, HoldsMessage, Copies, NoMessages
<1>5. ASSUME NEW w \in Workers, NEW n \in Message, Deliver(w, n)
      PROVE  HoldsMessage(m)
  BY <1>5 DEF Deliver, MinusOne, HoldsMessage
<1>6. CASE RestartBroker
  <2>1. ASSUME ~\E w \in Workers : job[w] = m
        PROVE  HoldsMessage(m)
    <3>1. Cardinality({w \in Workers : job[w] = m /\ online[w]}) = 0
      <4>1. {w \in Workers : job[w] = m /\ online[w]} = {}
        BY <2>1
      <4>2. QED
        BY <4>1, FS_EmptySet
    <3>2. ready'[m] = ready[m] /\ delayed' = delayed /\ parked' = parked
      BY <1>6, <3>1 DEF RestartBroker
    <3>3. \A q \in Copies : unsynced'[q][m] = 0
      BY <1>6 DEF RestartBroker, NoMessages
    <3>4. QED
      BY <3>2, <3>3 DEF HoldsMessage
  <2>2. QED
    BY <2>1 DEF Key
<1>7. ASSUME NEW w \in Workers, pc[w] # "idle", Settle(w) \/ Park(w) \/ Crash(w) \/ LoseChannel(w)
      PROVE  HoldsMessage(m) \/ (job[w] \in Message /\ m.key = Key(w))
  <2>1. job[w] \in Message
    BY <1>7, BusyWorker
  <2>2. \/ UNCHANGED brokerVars
        \/ \E n \in Message : /\ n.key = Key(w)
                              /\ Requeue(n) \/ \E q \in Copies : SendCopy(q, n)
    <3>1. CASE Settle(w)
      <4>1. CASE DecideRetry(error[w], job[w].attempt).action = "retry"
        BY <2>1, <3>1, <4>1, RetryStaysInBounds
           DEF Settle, SendIfOnline, Copies, Key, Message
      <4>2. QED
        BY <3>1, <4>1 DEF Settle
    <3>2. CASE Park(w) \/ Crash(w) \/ LoseChannel(w)
      BY <2>1, <3>2 DEF Park, Crash, LoseChannel, SendIfOnline, Copies, Key
    <3>3. QED
      BY <1>7, <3>1, <3>2
  <2>3. QED
    BY <1>1, <1>2, <2>1, <2>2
<1>8. CASE Clientele
  <2> PICK c \in Clients : Request(c) \/ IntakeStep(c) \/ CrashApi(c)
    BY <1>8 DEF Clientele
  <2>1. CASE Publish(c)
    BY <1>1, <1>3, <2>1, IntakeAssumption DEF Publish
  <2>2. CASE ~Publish(c)
    BY <1>1, <2>2 DEF Request, IntakeStep, CrashApi, Find, Create
  <2>3. QED
    BY <2>1, <2>2
<1>9. CASE Handlers
  <2> PICK w \in Workers : WorkerStep(w) \/ \E n \in Message : Deliver(w, n)
    BY <1>9 DEF Handlers
  <2>1. CASE Settle(w) \/ Park(w)
    <3>1. pc[w] # "idle"
      BY <2>1 DEF Settle, Park
    <3>2. QED
      BY <1>7, <2>1, <3>1
  <2>2. CASE WorkerStep(w) /\ ~(Settle(w) \/ Park(w))
    <3>1. UNCHANGED brokerVars
      BY <2>2
         DEF WorkerStep, Lookup, TryLock, Begin, ProcessChunk, EndPayload, RecordFailure,
             CompleteImport, Unlock, DeadLetter, Acknowledge
    <3>2. QED
      BY <1>1, <3>1
  <2>3. QED
    BY <1>5, <2>1, <2>2
<1>10. CASE Trouble
  <2>1. ASSUME NEW w \in Workers, Crash(w) \/ LoseChannel(w)
        PROVE  HoldsMessage(m) \/ (job[w] \in Message /\ m.key = Key(w))
    <3>1. pc[w] # "idle"
      BY <2>1 DEF Crash, LoseChannel
    <3>2. QED
      BY <1>7, <2>1, <3>1
  <2>2. ASSUME NEW w \in Workers, LoseLock(w) \/ NoticeLoss(w)
        PROVE  HoldsMessage(m)
    <3>1. UNCHANGED brokerVars
      BY <2>2 DEF LoseLock, NoticeLoss
    <3>2. QED
      BY <1>1, <3>1
  <2>3. QED
    BY <1>6, <1>10, <2>1, <2>2 DEF Trouble
<1>11. CASE Queues
  BY <1>4, <1>11 DEF Queues
<1>12. CASE UNCHANGED vars
  BY <1>1, <1>12 DEF vars, brokerVars
<1>13. QED
  BY <1>8, <1>9, <1>10, <1>11, <1>12 DEF Next

LEMMA JobsChange ==
  ASSUME TypeOK, [Next]_vars, NEW w \in Workers, job'[w] \in Message
  PROVE  job'[w] = job[w] \/ HoldsMessage(job'[w])
<1> USE DEF TypeOK, WorkerTypeOK
<1>1. ASSUME NEW v \in Workers, NEW m \in Message, Deliver(v, m)
      PROVE  job'[w] = job[w] \/ HoldsMessage(job'[w])
  BY <1>1 DEF Deliver, HoldsMessage, BrokerTypeOK, Bags
<1>2. ASSUME NEW v \in Workers, Forget(v)
      PROVE  job'[w] = job[w]
  BY <1>2, WorkerAssumption DEF Forget
<1>3. QED
  BY <1>1, <1>2
     DEF Next, vars, workerVars, Clientele, Queues, Handlers, Trouble, WorkerStep, Lookup,
         TryLock, Begin, ProcessChunk, EndPayload, RecordFailure, CompleteImport, Unlock,
         Settle, DeadLetter, Park, Acknowledge, Crash, NoticeLoss, LoseChannel, LoseLock,
         RestartBroker

LEMMA StepMessages ==
  ASSUME TypeOK, ClientsOwnTheirs, MessagesFollowRows, [Next]_vars
  PROVE  MessagesFollowRows'
<1>1. ASSUME NEW m \in Message, HoldsMessage(m) \/ \E w \in Workers : m = job[w]
      PROVE  m.key \in Keys /\ Exists(m.key)
  BY <1>1 DEF MessagesFollowRows, Message, Key
<1>2. ASSUME NEW k \in Keys, Exists(k)
      PROVE  Exists(k)'
  BY <1>2, ImportsPersist
<1>3. ASSUME NEW m \in Message, HoldsMessage(m)'
      PROVE  Exists(m.key)'
  <2>1. m.key \in Keys
    BY DEF Message
  <2>2. Exists(m.key)
    BY <1>3, MessagesChange DEF MessagesFollowRows, ClientsOwnTheirs, Owns
  <2>3. QED
    BY <1>2, <2>1, <2>2
<1>4. ASSUME NEW w \in Workers, job'[w] \in Message
      PROVE  Exists(Key(w))'
  <2>1. PICK m \in Message : m = job'[w]
    BY <1>4
  <2>2. m.key \in Keys /\ Exists(m.key)
    BY <1>1, <1>4, <2>1, JobsChange
  <2>3. Exists(m.key)'
    BY <1>2, <2>2
  <2>4. QED
    BY <2>1, <2>3 DEF Exists, Key
<1>5. QED
  BY <1>3, <1>4 DEF MessagesFollowRows

LEMMA MessageInvariance == Spec => []MessagesFollowRows
<1>1. Init => ClientsOwnTheirs /\ MessagesFollowRows
  BY WorkerAssumption
     DEF Init, IntakeInit, BrokerInit, WorkerInit, ClientsOwnTheirs, MessagesFollowRows,
         HoldsMessage, NoMessages, Copies
<1>2. IInv /\ ClientsOwnTheirs /\ MessagesFollowRows /\ [Next]_vars
        => (ClientsOwnTheirs /\ MessagesFollowRows)'
  BY StepClients, StepMessages DEF IInv
<1>3. QED
  BY <1>1, <1>2, Invariance, PTL DEF Spec

(* No message is about an import that is not in the table, so notFound is  *)
(* never why a worker gives one up (request-import inserts, then           *)
(* publishes).                                                             *)
THEOREM JobsAlwaysFollowRows == Spec => []JobsFollowRows
<1>1. IInv /\ MessagesFollowRows => JobsFollowRows
  BY BusyWorker DEF IInv, TypeOK, MessagesFollowRows, JobsFollowRows, Holds, HoldsMessage
<1>2. QED
  BY <1>1, Invariance, MessageInvariance, PTL

-----------------------------------------------------------------------------
(* Nothing is lost.                                                        *)

(* A worker that records a failure has an error to leave the attempt with. *)
FailuresThrow == \A w \in Workers : pc[w] = "recordFailure" => error[w] # "none"

(* A worker that will settle its message otherwise than by acknowledging   *)
(* it for a completed import, or does not know yet.                        *)
Unfinished(w) ==
  /\ pc[w] \notin {"idle", "acknowledge"}
  /\ ~(pc[w] = "unlock" /\ error[w] = "none")

(* An unfinished worker keeps its message only while it has its channel:   *)
(* without one what it sends is lost, but then the message went back.      *)
Keeping(w) == Unfinished(w) /\ online[w]

Kept(k) ==
  \/ \E m \in Message : m.key = k /\ HoldsMessage(m)
  \/ \E w \in Workers : Keeping(w) /\ Key(w) = k

LEMMA BrokerMoves ==
  ASSUME TypeOK, [Next]_vars, ~Spend("broker")
  PROVE  \/ UNCHANGED brokerVars
         \/ \E k \in Keys : Enqueue(k)
         \/ \E m \in Message : Requeue(m) \/ \E q \in Copies : SendCopy(q, m)
         \/ Sync
         \/ \E m \in Message : Expire(m)
         \/ \E w \in Workers, m \in Message : Deliver(w, m)
<1>1. CASE Clientele
  BY <1>1, IntakeAssumption DEF Clientele, Request, IntakeStep, CrashApi, Find, Create, Publish
<1>2. CASE Queues
  BY <1>2 DEF Queues
<1>3. CASE Handlers
  <2> PICK w \in Workers : WorkerStep(w) \/ \E m \in Message : Deliver(w, m)
    BY <1>3 DEF Handlers
  <2>1. CASE Settle(w)
    <3>1. job[w] \in Message
      BY <2>1, BusyWorker DEF Settle, TypeOK
    <3>2. CASE DecideRetry(error[w], job[w].attempt).action = "retry"
      BY <2>1, <3>1, <3>2, RetryStaysInBounds DEF Settle, SendIfOnline, Copies
    <3>3. QED
      BY <2>1, <3>2 DEF Settle
  <2>2. CASE Park(w)
    BY <2>2, BusyWorker DEF Park, SendIfOnline, Copies, TypeOK
  <2>3. QED
    BY <2>1, <2>2
       DEF WorkerStep, Lookup, TryLock, Begin, ProcessChunk, EndPayload, RecordFailure,
           CompleteImport, Unlock, DeadLetter, Acknowledge
<1>4. CASE Trouble
  <2>1. ASSUME NEW w \in Workers, Crash(w) \/ LoseChannel(w)
        PROVE  UNCHANGED brokerVars \/ \E m \in Message : Requeue(m)
    BY <2>1, BusyWorker DEF Crash, LoseChannel, TypeOK
  <2>2. QED
    BY <1>4, <2>1 DEF Trouble, NoticeLoss, LoseLock
<1>5. CASE UNCHANGED vars
  BY <1>5 DEF vars, brokerVars
<1>6. QED
  BY <1>1, <1>2, <1>3, <1>4, <1>5 DEF Next

(* A message stays where the broker has it, moves to another queue or is   *)
(* delivered.                                                              *)
LEMMA HeldStays ==
  ASSUME TypeOK, [Next]_vars, ~Spend("broker"), NEW m \in Message, HoldsMessage(m)
  PROVE  HoldsMessage(m)' \/ \E w \in Workers : Deliver(w, m)
<1> USE DEF TypeOK, BrokerTypeOK, Bags
<1>1. CASE UNCHANGED brokerVars
  BY <1>1 DEF brokerVars, HoldsMessage
<1>2. CASE \E k \in Keys : Enqueue(k)
  BY <1>2 DEF Enqueue, PlusOne, HoldsMessage
<1>3. ASSUME NEW n \in Message, Requeue(n) \/ \E q \in Copies : SendCopy(q, n)
      PROVE  HoldsMessage(m)'
  BY <1>3 DEF Requeue, SendCopy, PlusOne, HoldsMessage, Copies
<1>4. CASE Sync
  BY <1>4 DEF Sync, HoldsMessage, Copies, NoMessages
<1>5. ASSUME NEW n \in Message, Expire(n)
      PROVE  HoldsMessage(m)'
  BY <1>5 DEF Expire, PlusOne, MinusOne, HoldsMessage, Copies
<1>6. ASSUME NEW w \in Workers, NEW n \in Message, n # m, Deliver(w, n)
      PROVE  HoldsMessage(m)'
  BY <1>6 DEF Deliver, MinusOne, HoldsMessage
<1>7. QED
  BY <1>1, <1>2, <1>3, <1>4, <1>5, <1>6, BrokerMoves

(* What a worker is about is changed by its own steps only.                *)
ActsOn(v) ==
  \/ WorkerStep(v) \/ \E m \in Message : Deliver(v, m)
  \/ Crash(v) \/ NoticeLoss(v) \/ LoseChannel(v)

LEMMA OthersStay ==
  ASSUME NEW w \in Workers, NEW v \in Workers, v # w, ActsOn(v), TypeOK
  PROVE  pc'[w] = pc[w] /\ job'[w] = job[w] /\ error'[w] = error[w] /\ online'[w] = online[w]
BY DEF ActsOn, TypeOK, WorkerTypeOK, WorkerStep, Lookup, TryLock, Begin, ProcessChunk, EndPayload,
       RecordFailure, CompleteImport, Unlock, Settle, DeadLetter, Park, Acknowledge, Crash,
       NoticeLoss, LoseChannel, Deliver, Forget, Goto, ThrowUnknown, Throw, ReplyMayBeLost

LEMMA WorkerMoves ==
  ASSUME TypeOK, [Next]_vars, ~Spend("broker"), NEW w \in Workers
  PROVE  \/ ActsOn(w)
         \/ pc'[w] = pc[w] /\ job'[w] = job[w] /\ error'[w] = error[w] /\ online'[w] = online[w]
<1>1. CASE UNCHANGED <<pc, job, error, online>>
  BY <1>1
<1>2. CASE \E v \in Workers : ActsOn(v)
  BY <1>2, OthersStay
<1>3. QED
  BY <1>1, <1>2
     DEF Next, vars, workerVars, Clientele, Queues, Handlers, Trouble, LoseLock, ActsOn

LEMMA StepFailures ==
  ASSUME TypeOK, FailuresThrow, [Next]_vars
  PROVE  FailuresThrow'
<1> SUFFICES ASSUME NEW w \in Workers, pc'[w] = "recordFailure"
             PROVE  error'[w] # "none"
  BY DEF FailuresThrow
<1> USE DEF TypeOK, WorkerTypeOK, Goto
<1>1. CASE pc'[w] = pc[w] /\ error'[w] = error[w]
  BY <1>1 DEF FailuresThrow
<1>2. CASE WorkerStep(w)
  BY <1>2
     DEF WorkerStep, Lookup, TryLock, Begin, ProcessChunk, EndPayload, RecordFailure,
         CompleteImport, Unlock, Settle, DeadLetter, Park, Acknowledge, Forget, Throw
<1>3. CASE \/ \E m \in Message : Deliver(w, m)
           \/ Crash(w) \/ NoticeLoss(w)
  BY <1>3 DEF Deliver, Crash, NoticeLoss, Forget
<1>4. CASE LoseChannel(w) \/ UNCHANGED <<pc, error>>
  BY <1>1, <1>4 DEF LoseChannel
<1>5. CASE \E v \in Workers : v # w /\ ActsOn(v)
  BY <1>1, <1>5, OthersStay
<1>6. QED
  BY <1>2, <1>3, <1>4, <1>5
     DEF Next, vars, workerVars, Clientele, Queues, Handlers, Trouble, LoseLock, RestartBroker,
         ActsOn

(* What an unfinished worker does next: it goes on, hands its message on   *)
(* or back, or its import is completed.                                    *)
LEMMA UnfinishedStays ==
  ASSUME TypeOK, FailuresThrow, [Next]_vars, ~Spend("broker"),
         NEW w \in Workers, Keeping(w), NEW k \in Keys, k = Key(w)
  PROVE  Kept(k)' \/ imports'[k].status = "completed"
<1> USE DEF TypeOK, WorkerTypeOK
<1>1. pc[w] # "idle" /\ job[w] \in Message /\ online[w]
  BY BusyWorker DEF Unfinished, Keeping
<1>2. ASSUME Unfinished(w)', job'[w] = job[w], online'[w] = online[w]
      PROVE  Kept(k)'
  BY <1>1, <1>2 DEF Kept, Keeping, Key
<1>3. ASSUME NEW m \in Message, m.key = k, Requeue(m) \/ \E q \in Copies : SendCopy(q, m)
      PROVE  Kept(k)'
  <2>1. HoldsMessage(m)'
    BY <1>3 DEF Requeue, SendCopy, PlusOne, HoldsMessage, Copies, BrokerTypeOK, Bags
  <2>2. QED
    BY <1>3, <2>1 DEF Kept
<1>4. CASE pc'[w] = pc[w] /\ job'[w] = job[w] /\ error'[w] = error[w] /\ online'[w] = online[w]
  BY <1>2, <1>4 DEF Unfinished, Keeping
<1>5. CASE Lookup(w) \/ CompleteImport(w)
  <2>1. job'[w] = job[w] /\ online'[w] = online[w]
    BY <1>5 DEF Lookup, CompleteImport
  <2>2. Unfinished(w)' \/ imports'[k].status = "completed"
    BY <1>5 DEF Lookup, CompleteImport, Complete, Goto, ReplyMayBeLost, ThrowUnknown, Throw,
                Unfinished, Keeping, storeVars, StoreTypeOK
  <2>3. QED
    BY <1>2, <2>1, <2>2
<1>6. CASE \/ TryLock(w) \/ Begin(w) \/ ProcessChunk(w) \/ EndPayload(w) \/ RecordFailure(w)
           \/ Unlock(w) \/ DeadLetter(w)
  <2>1. job'[w] = job[w] /\ online'[w] = online[w]
    BY <1>6 DEF TryLock, Begin, ProcessChunk, EndPayload, RecordFailure, Unlock, DeadLetter
  <2>2. ASSUME RecordFailure(w)
        PROVE  Unfinished(w)'
    BY <2>2 DEF RecordFailure, Goto, ReplyMayBeLost, ThrowUnknown, Throw, Unfinished, FailuresThrow
  <2>3. ASSUME \/ TryLock(w) \/ Begin(w) \/ ProcessChunk(w) \/ EndPayload(w)
               \/ Unlock(w) \/ DeadLetter(w)
        PROVE  Unfinished(w)'
    BY <2>3 DEF TryLock, Begin, ProcessChunk, EndPayload, Unlock, DeadLetter, Goto, ThrowUnknown,
                Throw, Unfinished, Keeping
  <2>4. QED
    BY <1>2, <1>6, <2>1, <2>2, <2>3
<1>7. CASE Settle(w)
  <2>1. CASE DecideRetry(error[w], job[w].attempt).action = "retry"
    <3>1. PICK m \in Message : m.key = k /\ SendCopy("retry", m)
      BY <1>1, <1>7, <2>1, RetryStaysInBounds DEF Settle, SendIfOnline, Key, Message
    <3>2. QED
      BY <1>3, <3>1 DEF Copies
  <2>2. CASE DecideRetry(error[w], job[w].attempt).action # "retry"
    BY <1>2, <1>7, <2>2 DEF Settle, Goto, Unfinished
  <2>3. QED
    BY <2>1, <2>2
<1>8. CASE Park(w)
  BY <1>1, <1>3, <1>8 DEF Park, SendIfOnline, Copies, Key
<1>9. CASE Crash(w) \/ LoseChannel(w)
  BY <1>1, <1>3, <1>9 DEF Crash, LoseChannel, Key
<1>10. CASE Acknowledge(w) \/ NoticeLoss(w) \/ \E m \in Message : Deliver(w, m)
  BY <1>1, <1>10 DEF Acknowledge, NoticeLoss, Deliver, Unfinished, Keeping
<1>11. QED
  BY <1>4, <1>5, <1>6, <1>7, <1>8, <1>9, <1>10, WorkerMoves DEF ActsOn, WorkerStep

LEMMA KeptStays ==
  ASSUME TypeOK, FailuresThrow, [Next]_vars, ~Spend("broker"), NEW k \in Keys, Kept(k)
  PROVE  Kept(k)' \/ imports'[k].status = "completed"
<1>1. ASSUME NEW m \in Message, m.key = k, HoldsMessage(m)
      PROVE  Kept(k)'
  <2>1. CASE HoldsMessage(m)'
    BY <1>1, <2>1 DEF Kept
  <2>2. ASSUME NEW w \in Workers, Deliver(w, m)
        PROVE  Keeping(w)' /\ Key(w)' = k
    BY <1>1, <2>2 DEF Deliver, Goto, Unfinished, Keeping, Key, TypeOK, WorkerTypeOK
  <2>3. QED
    BY <1>1, <2>1, <2>2, HeldStays DEF Kept
<1>2. QED
  BY <1>1, UnfinishedStays DEF Kept

(* An import comes to be owed by a step that also queues its message, or   *)
(* by one of a worker that has it and goes on.                             *)
LEMMA NewlyOwedIsKept ==
  ASSUME TypeOK, FailuresThrow, ClientsOwnTheirs, [Next]_vars,
         NEW k \in Keys, Owed(k)', ~Owed(k)
  PROVE  \/ Kept(k)'
         \/ \E w \in Workers :
              /\ pc[w] # "idle" /\ Key(w) = k
              /\ Unfinished(w)' /\ Key(w)' = k /\ online'[w] = online[w]
<1> USE DEF TypeOK, StoreTypeOK
<1>1. ASSUME UNCHANGED imports
      PROVE  Kept(k)'
  <2>1. PICK c \in Clients : KeyOf[c] = k /\ reply'[c] = "accepted" /\ reply[c] # "accepted"
    BY <1>1 DEF Owed, Promised
  <2>2. imports[k].status = "pending"
    BY <1>1 DEF Owed
  <2>3. Enqueue(k)
    <3>1. ASSUME NEW d \in Clients, d # c, Request(d) \/ IntakeStep(d) \/ CrashApi(d)
          PROVE  reply'[c] = reply[c]
      BY <3>1 DEF IntakeTypeOK, Request, IntakeStep, CrashApi, Find, Create, Publish, Reuse,
                  MoveTo, Answer
    <3>2. ~Request(c) /\ ~CrashApi(c) /\ ~Find(c) /\ ~Create(c)
      BY <2>1, <2>2 DEF IntakeTypeOK, Request, CrashApi, Find, Create, Reuse, MoveTo, Answer
    <3>3. Publish(c) => Enqueue(k)
      BY <2>1 DEF IntakeTypeOK, Publish, Answer
    <3>4. QED
      BY <2>1, <3>1, <3>2, <3>3
         DEF Next, vars, clientVars, Clientele, Queues, Handlers, Trouble, IntakeStep
  <2>4. FirstAttempt(k) \in Message /\ HoldsMessage(FirstAttempt(k))'
    <3>1. FirstAttempt(k) \in Message
      BY MaxAttemptsAssumption DEF FirstAttempt, Message, Attempts
    <3>2. QED
      BY <2>3, <3>1 DEF Enqueue, PlusOne, HoldsMessage, BrokerTypeOK, Bags
  <2>5. QED
    BY <2>4 DEF Kept, FirstAttempt
<1>2. ASSUME NEW c \in Clients, Create(c)
      PROVE  Kept(k)'
  <2>1. CASE UNCHANGED imports
    BY <1>1, <2>1
  <2>2. CASE CreateImport(KeyOf[c], BodyOf[c])
    <3>1. KeyOf[c] \in Keys /\ ~Exists(KeyOf[c])
      BY <2>2, IntakeAssumption DEF CreateImport
    <3>2. \A d \in Clients : reply'[d] = "accepted" => reply[d] = "accepted"
      BY <1>2, <3>1 DEF Create, MoveTo, Answer, IntakeTypeOK
    <3>3. Promised(k)' => Promised(k)
      BY <3>2 DEF Promised
    <3>4. KeyOf[c] # k => imports'[k] = imports[k]
      BY <2>2, <3>1 DEF CreateImport
    <3>5. KeyOf[c] = k => imports'[k].status = "pending" /\ ~Promised(k)
      BY <2>2, <3>1 DEF CreateImport, ClientsOwnTheirs, Owns, Promised
    <3>6. QED
      BY <3>3, <3>4, <3>5 DEF Owed
  <2>3. QED
    BY <1>2, <2>1, <2>2 DEF Create
<1>3. ASSUME NEW w \in Workers, Begin(w) \/ CompleteImport(w) \/ RecordFailure(w) \/ DeadLetter(w),
             imports' # imports
      PROVE  /\ pc[w] # "idle" /\ Key(w) = k
             /\ Unfinished(w)' /\ Key(w)' = k /\ online'[w] = online[w]
  <2>1. pc[w] # "idle" /\ online' = online /\ job' = job
    BY <1>3 DEF Begin, CompleteImport, RecordFailure, DeadLetter
  <2>2. PICK j \in Keys : j = Key(w)
    BY <2>1, BusyWorker
  <2>3. reply' = reply
    <3>1. pc' # pc
      BY <1>3 DEF Begin, CompleteImport, RecordFailure, DeadLetter, Goto, WorkerTypeOK
    <3>2. QED
      BY <3>1 DEF Next, vars, workerVars, clientVars, Clientele, Queues, Handlers, Trouble
  <2>4. BeginAttempt(j) \/ Complete(j, tally[w]) \/ Fail(j)
    BY <1>3, <2>2 DEF Begin, CompleteImport, RecordFailure, DeadLetter
  <2>5. j = k
    <3>1. j # k => imports'[k] = imports[k]
      BY <2>2, <2>4 DEF BeginAttempt, Complete, Fail
    <3>2. QED
      BY <2>3, <3>1 DEF Owed, Promised
  <2>6. imports'[k].status # "completed"
    BY DEF Owed
  <2>7. Unfinished(w)'
    <3>1. CASE Begin(w)
      BY <1>3, <3>1 DEF Begin, Goto, ThrowUnknown, Throw, Unfinished, WorkerTypeOK
    <3>2. CASE CompleteImport(w)
      BY <1>3, <2>2, <2>5, <2>6, <3>2 DEF CompleteImport, Complete
    <3>3. CASE RecordFailure(w)
      BY <3>3 DEF RecordFailure, Goto, ReplyMayBeLost, ThrowUnknown, Throw, Unfinished,
                  FailuresThrow, WorkerTypeOK
    <3>4. CASE DeadLetter(w)
      BY <3>4 DEF DeadLetter, Goto, Unfinished, WorkerTypeOK
    <3>5. QED
      BY <1>3, <3>1, <3>2, <3>3, <3>4
  <2>8. QED
    BY <2>1, <2>2, <2>5, <2>7 DEF Key
<1>4. CASE UNCHANGED imports \/ \E c \in Clients : Create(c)
  BY <1>1, <1>2, <1>4
<1>5. QED
  BY <1>3, <1>4
     DEF Next, vars, storeVars, Clientele, Queues, Handlers, Trouble, Request, IntakeStep, Find,
         Publish, CrashApi, WorkerStep, Deliver, Lookup, TryLock, ProcessChunk, EndPayload,
         Unlock, Settle, Park, Acknowledge, Crash, LoseChannel, NoticeLoss, LoseLock,
         RestartBroker

(* Until a channel is lost, by itself or with the broker, all are up and   *)
(* what is owed is kept.                                                   *)
Calm == NoneYet("channel") /\ NoneYet("broker")

OwedIsKept ==
  Calm => (\A w \in Workers : online[w]) /\ (\A k \in Keys : Owed(k) => Kept(k))

LInv == FailuresThrow /\ ClientsOwnTheirs /\ OwedIsKept

LEMMA StepKeepsOwed ==
  ASSUME TypeOK, BudgetIsKept, LInv, [Next]_vars
  PROVE  OwedIsKept'
<1> SUFFICES ASSUME Calm'
             PROVE  (\A w \in Workers : online'[w]) /\ (\A k \in Keys : Owed(k)' => Kept(k)')
  BY DEF OwedIsKept
<1>1. Calm /\ ~Spend("channel") /\ ~Spend("broker")
  BY BudgetOnlyFalls DEF Calm, Disturbances
<1>2. /\ FailuresThrow /\ ClientsOwnTheirs
      /\ \A w \in Workers : online[w]
      /\ \A k \in Keys : Owed(k) => Kept(k)
  BY <1>1 DEF LInv, OwedIsKept
<1>3. ASSUME NEW w \in Workers
      PROVE  online'[w]
  <2>1. CASE online' = online
    BY <1>2, <2>1
  <2>2. ASSUME NEW v \in Workers, Crash(v) \/ NoticeLoss(v)
        PROVE  online'[w]
    BY <1>2, <2>2 DEF TypeOK, WorkerTypeOK, Crash, NoticeLoss
  <2>3. QED
    BY <1>1, <2>1, <2>2
       DEF Next, vars, workerVars, Clientele, Queues, Handlers, Trouble, WorkerStep, Deliver,
           Lookup, TryLock, Begin, ProcessChunk, EndPayload, RecordFailure, CompleteImport,
           Unlock, Settle, DeadLetter, Park, Acknowledge, LoseLock
<1>4. ASSUME NEW k \in Keys, Owed(k)'
      PROVE  Kept(k)'
  <2>1. CASE Owed(k)
    <3>1. imports'[k].status # "completed"
      BY <1>4 DEF Owed
    <3>2. QED
      BY <1>1, <1>2, <2>1, <3>1, KeptStays
  <2>2. CASE ~Owed(k)
    <3>1. ASSUME NEW w \in Workers, Unfinished(w)', Key(w)' = k
          PROVE  Kept(k)'
      BY <1>3, <3>1 DEF Kept, Keeping
    <3>2. QED
      BY <1>2, <1>4, <2>2, <3>1, NewlyOwedIsKept
  <2>3. QED
    BY <2>1, <2>2
<1>5. QED
  BY <1>3, <1>4

LEMMA LedgerOfMessages == Spec => []LInv
<1>1. Init => LInv
  BY DEF Init, StoreInit, WorkerInit, IntakeInit, LInv, FailuresThrow, ClientsOwnTheirs,
         OwedIsKept, Owed
<1>2. IInv /\ LInv /\ [Next]_vars => LInv'
  BY StepFailures, StepClients, StepKeepsOwed DEF IInv, LInv
<1>3. QED
  BY <1>1, <1>2, Invariance, PTL DEF Spec

(* Until a channel is lost, an import that was started or promised has a   *)
(* message until it is completed: whatever crashes, whoever loses a lock   *)
(* (consumer.ts hands on or parks before it acknowledges).                 *)
THEOREM LiveChannelsLoseNothing == Spec => []NothingIsLost
<1>1. LInv => NothingIsLost
  BY DEF LInv, OwedIsKept, Calm, Kept, Keeping, Unfinished, HoldsMessage, Holds, NothingIsLost,
         InPlay
<1>2. QED
  BY <1>1, LedgerOfMessages, PTL

(* So the retry copy that StartedIsNeverLost is about can only be lost     *)
(* with a channel, its own or all of them in a restart of the broker.      *)
THEOREM OnlyOutagesLoseRetries ==
  Spec => [](NoneYet("channel") /\ NoneYet("broker") => StartedIsNeverLost)
<1>1. NothingIsLost => (NoneYet("channel") /\ NoneYet("broker") => StartedIsNeverLost)
  BY DEF NothingIsLost, Owed, StartedIsNeverLost
<1>2. QED
  BY <1>1, LiveChannelsLoseNothing, PTL

-----------------------------------------------------------------------------
(* What lost channels can do.                                              *)

(* An import that is owed, or that a worker has, with or without a channel.*)
Engaged(k) == Owed(k) \/ \E w \in Workers : pc[w] # "idle" /\ Key(w) = k

(* Until the broker restarts, an import is engaged and no longer kept only *)
(* when its rows are in the table: its message was acknowledged for it.    *)
EngagedIsKeptOrWhole ==
  NoneYet("broker") => \A k \in Keys : Engaged(k) => Kept(k) \/ Whole(k)

LEMMA EngagedExists ==
  ASSUME TypeOK, MessagesFollowRows, NEW k \in Keys, Engaged(k)
  PROVE  Exists(k)
BY BusyWorker DEF TypeOK, MessagesFollowRows, Engaged, Owed, Exists

LEMMA StepKeepsEngaged ==
  ASSUME IInv, MessagesFollowRows, LInv, EngagedIsKeptOrWhole, [Next]_vars
  PROVE  EngagedIsKeptOrWhole'
<1> SUFFICES ASSUME NoneYet("broker")', NEW k \in Keys, Engaged(k)'
             PROVE  Kept(k)' \/ Whole(k)'
  BY DEF EngagedIsKeptOrWhole
<1>1. TypeOK /\ FailuresThrow /\ ClientsOwnTheirs /\ NoneYet("broker") /\ ~Spend("broker")
  BY BudgetOnlyFalls DEF IInv, LInv, Disturbances
<1>2. CompletedMeansStored'
  BY StepPreserves DEF IInv
<1>3. CASE Kept(k)
  <2>1. Kept(k)' \/ imports'[k].status = "completed"
    BY <1>1, <1>3, KeptStays
  <2>2. QED
    BY <1>2, <2>1 DEF CompletedMeansStored
<1>4. CASE Engaged(k) /\ Whole(k)
  BY <1>1, <1>4, EngagedExists, WholeStays
<1>5. CASE ~Engaged(k) /\ Owed(k)'
  BY <1>1, <1>5, NewlyOwedIsKept DEF Engaged
<1>6. CASE ~Engaged(k) /\ ~Kept(k) /\ ~Owed(k)'
  <2>1. PICK w \in Workers : pc'[w] # "idle" /\ Key(w)' = k
    BY <1>6 DEF Engaged
  <2>2. ~(pc[w] # "idle" /\ job'[w] = job[w])
    BY <1>6, <2>1 DEF Engaged, Key
  <2>3. ASSUME NEW m \in Message, Deliver(w, m)
        PROVE  m.key = k /\ HoldsMessage(m)
    BY <1>1, <2>1, <2>3 DEF Deliver, Key, HoldsMessage, TypeOK, WorkerTypeOK, BrokerTypeOK, Bags
  <2>4. ~(\E m \in Message : Deliver(w, m))
    BY <1>6, <2>3 DEF Kept
  <2>5. WorkerStep(w) \/ LoseChannel(w) => pc[w] # "idle" /\ (job'[w] = job[w] \/ pc'[w] = "idle")
    BY <1>1
       DEF WorkerStep, Lookup, TryLock, Begin, ProcessChunk, EndPayload, RecordFailure,
           CompleteImport, Unlock, Settle, DeadLetter, Park, Acknowledge, Forget, Goto,
           LoseChannel, TypeOK, WorkerTypeOK
  <2>6. Crash(w) \/ NoticeLoss(w) => pc'[w] = "idle"
    BY <1>1 DEF Crash, NoticeLoss, Forget, Goto, TypeOK, WorkerTypeOK
  <2>7. QED
    BY <1>1, <2>1, <2>2, <2>4, <2>5, <2>6, WorkerMoves DEF ActsOn
<1>7. QED
  BY <1>1, <1>3, <1>4, <1>5, <1>6 DEF EngagedIsKeptOrWhole

(* A channel that is lost takes the message of an import with it only if   *)
(* every row of the import is in the table: the status may be wrong, the   *)
(* transactions are not.                                                   *)
THEOREM LostChannelsLoseNoRows == Spec => []OnlyWholeImportsAreDropped
<1>1. Init => EngagedIsKeptOrWhole
  BY DEF Init, StoreInit, WorkerInit, EngagedIsKeptOrWhole, Engaged, Owed
<1>2. IInv /\ MessagesFollowRows /\ LInv /\ EngagedIsKeptOrWhole /\ [Next]_vars
        => EngagedIsKeptOrWhole'
  BY StepKeepsEngaged
<1>3. EngagedIsKeptOrWhole => OnlyWholeImportsAreDropped
  BY DEF EngagedIsKeptOrWhole, Engaged, Kept, Keeping, Unfinished, HoldsMessage, Holds,
         OnlyWholeImportsAreDropped, InPlay
<1>4. QED
  BY <1>1, <1>2, <1>3, Invariance, MessageInvariance, LedgerOfMessages, PTL DEF Spec

-----------------------------------------------------------------------------
(* What takes two handlers.                                                *)

(* One worker, with a prefetch of one, is all the handlers there are.      *)
LoneHandler == \A v, w \in Workers : v = w

(* Until it fails, a handler has no error; it is idle without one, too.    *)
ErrorsEnd ==
  \A w \in Workers :
    pc[w] \in {"idle", "lookup", "lock", "begin", "chunk", "complete"} => error[w] = "none"

(* A lone handler that is yet to reach its verdict has what it looked up:  *)
(* an import that is not completed.  So has one that was refused the lock. *)
LookupIsFresh ==
  \A w \in Workers :
    \/ pc[w] \in {"lock", "begin", "chunk", "recordFailure", "complete"}
    \/ pc[w] # "idle" /\ error[w] = "concurrency"
    => imports[Key(w)].status # "completed"

LEMMA StepErrorsEnd ==
  ASSUME TypeOK, ErrorsEnd, [Next]_vars
  PROVE  ErrorsEnd'
<1> SUFFICES ASSUME NEW w \in Workers
             PROVE  pc'[w] \in {"idle", "lookup", "lock", "begin", "chunk", "complete"}
                      => error'[w] = "none"
  BY DEF ErrorsEnd
<1> USE DEF TypeOK, WorkerTypeOK, Goto
<1>1. CASE pc'[w] = pc[w] /\ error'[w] = error[w]
  BY <1>1 DEF ErrorsEnd
<1>2. CASE WorkerStep(w)
  BY <1>2
     DEF WorkerStep, Lookup, TryLock, Begin, ProcessChunk, EndPayload, RecordFailure,
         CompleteImport, Unlock, Settle, DeadLetter, Park, Acknowledge, Forget, Throw,
         ThrowUnknown, ErrorsEnd
<1>3. CASE \E m \in Message : Deliver(w, m)
  BY <1>3 DEF Deliver, ErrorsEnd
<1>4. CASE Crash(w) \/ NoticeLoss(w)
  BY <1>4 DEF Crash, NoticeLoss, Forget, Throw
<1>5. CASE LoseChannel(w) \/ UNCHANGED <<pc, error>>
  BY <1>1, <1>5 DEF LoseChannel
<1>6. CASE \E v \in Workers : v # w /\ ActsOn(v)
  BY <1>1, <1>6, OthersStay
<1>7. QED
  BY <1>2, <1>3, <1>4, <1>5, <1>6
     DEF Next, vars, workerVars, Clientele, Queues, Handlers, Trouble, LoseLock, RestartBroker,
         ActsOn

(* Only the worker that completes an import makes it a completed one.      *)
LEMMA CompletedByWorker ==
  ASSUME TypeOK, [Next]_vars, NEW k \in Keys,
         imports[k].status # "completed", imports'[k].status = "completed"
  PROVE  \E w \in Workers : CompleteImport(w)
<1> USE DEF TypeOK, StoreTypeOK
<1>1. ASSUME NEW c \in Clients, Create(c)
      PROVE  FALSE
  <2>1. CreateImport(KeyOf[c], BodyOf[c]) \/ UNCHANGED imports
    BY <1>1 DEF Create
  <2>2. QED
    BY <2>1, IntakeAssumption DEF CreateImport
<1>2. ASSUME NEW w \in Workers, Begin(w) \/ RecordFailure(w) \/ DeadLetter(w)
      PROVE  FALSE
  <2>1. PICK j \in Keys : j = Key(w)
    BY <1>2, BusyWorker DEF Begin, RecordFailure, DeadLetter
  <2>2. BeginAttempt(j) \/ Fail(j) \/ UNCHANGED imports
    BY <1>2, <2>1 DEF Begin, RecordFailure, DeadLetter
  <2>3. QED
    BY <2>1, <2>2 DEF BeginAttempt, Fail
<1>3. QED
  BY <1>1, <1>2
     DEF Next, vars, storeVars, Clientele, Queues, Handlers, Trouble, Request, IntakeStep, Find,
         Publish, CrashApi, WorkerStep, Deliver, Lookup, TryLock, ProcessChunk, EndPayload,
         Unlock, Settle, Park, Acknowledge, Crash, LoseChannel, NoticeLoss, LoseLock,
         RestartBroker

LEMMA StepLookup ==
  ASSUME LoneHandler, TypeOK, ErrorsEnd, LookupIsFresh, [Next]_vars
  PROVE  LookupIsFresh'
<1> SUFFICES ASSUME NEW w \in Workers,
                    \/ pc'[w] \in {"lock", "begin", "chunk", "recordFailure", "complete"}
                    \/ pc'[w] # "idle" /\ error'[w] = "concurrency",
                    NEW k, k = Key(w)'
             PROVE  imports'[k].status # "completed"
  BY DEF LookupIsFresh
<1> USE DEF TypeOK, WorkerTypeOK, Goto
<1>1. ASSUME NEW j \in Keys, imports[j].status # "completed", ~CompleteImport(w)
      PROVE  imports'[j].status # "completed"
  BY <1>1, CompletedByWorker DEF LoneHandler
<1>2. CASE pc'[w] = pc[w] /\ job'[w] = job[w] /\ error'[w] = error[w]
  <2>1. pc[w] # "idle" /\ Key(w) = k /\ k \in Keys /\ ~CompleteImport(w)
    BY <1>2, BusyWorker DEF Key, CompleteImport
  <2>2. imports[k].status # "completed"
    BY <1>2, <2>1 DEF LookupIsFresh
  <2>3. QED
    BY <1>1, <2>1, <2>2
<1>3. CASE CompleteImport(w)
  BY <1>3 DEF CompleteImport, ReplyMayBeLost, ThrowUnknown, Throw, ErrorsEnd
<1>4. CASE WorkerStep(w) /\ ~CompleteImport(w)
  <2>1. pc[w] # "idle" /\ job'[w] = job[w]
    BY <1>4
       DEF WorkerStep, Lookup, TryLock, Begin, ProcessChunk, EndPayload, RecordFailure, Unlock,
           Settle, DeadLetter, Park, Acknowledge, Forget
  <2>2. Key(w) = k /\ k \in Keys
    BY <2>1, BusyWorker DEF Key
  <2>3. imports[k].status # "completed"
    <3>1. CASE Lookup(w)
      BY <2>2, <3>1 DEF Lookup, Throw, ErrorsEnd
    <3>2. CASE ~Lookup(w)
      <4>1. \/ pc[w] \in {"lock", "begin", "chunk", "recordFailure", "complete"}
            \/ pc[w] # "idle" /\ error[w] = "concurrency"
        BY <1>4, <3>2
           DEF WorkerStep, TryLock, Begin, ProcessChunk, EndPayload, RecordFailure, Unlock,
               Settle, DeadLetter, Park, Acknowledge, Forget, Throw, ThrowUnknown
      <4>2. QED
        BY <2>2, <4>1 DEF LookupIsFresh
    <3>3. QED
      BY <3>1, <3>2
  <2>4. QED
    BY <1>1, <1>4, <2>2, <2>3
<1>5. CASE \/ \E m \in Message : Deliver(w, m)
           \/ Crash(w) \/ NoticeLoss(w)
  BY <1>5 DEF Deliver, Crash, NoticeLoss, Forget, ErrorsEnd
<1>6. CASE LoseChannel(w) \/ UNCHANGED <<pc, job, error>>
  BY <1>2, <1>6 DEF LoseChannel
<1>7. CASE \E v \in Workers : ActsOn(v)
  BY <1>3, <1>4, <1>5, <1>6, <1>7 DEF ActsOn, LoneHandler
<1>8. QED
  BY <1>6, <1>7
     DEF Next, vars, workerVars, Clientele, Queues, Handlers, Trouble, LoseLock, RestartBroker,
         ActsOn

LEMMA LoneInvariance ==
  ASSUME LoneHandler
  PROVE  Spec => [](ErrorsEnd /\ LookupIsFresh)
<1>1. Init => ErrorsEnd /\ LookupIsFresh
  BY DEF Init, WorkerInit, ErrorsEnd, LookupIsFresh
<1>2. IInv /\ ErrorsEnd /\ LookupIsFresh /\ [Next]_vars => (ErrorsEnd /\ LookupIsFresh)'
  BY StepErrorsEnd, StepLookup DEF IInv
<1>3. QED
  BY <1>1, <1>2, Invariance, PTL DEF Spec

(* A completed import is reopened only by a handler whose lookup is older  *)
(* than another handler's verdict: with one handler, none is.              *)
THEOREM LoneHandlerReopensNothing ==
  ASSUME LoneHandler
  PROVE  Spec => CompletedNeverRestarts
<1>1. IInv /\ LookupIsFresh /\ [Next]_vars
        => [\A k \in Keys : imports[k].status = "completed"
                              => imports'[k].status # "processing"]_imports
  <2> SUFFICES ASSUME TypeOK, LookupIsFresh, [Next]_vars, NEW k \in Keys,
                      imports[k].status = "completed", imports'[k].status = "processing"
               PROVE  FALSE
    BY DEF IInv
  <2> USE DEF TypeOK, StoreTypeOK
  <2>1. \A c \in Clients : ~CreateImport(KeyOf[c], BodyOf[c])
    BY IntakeAssumption DEF CreateImport
  <2>2. ASSUME NEW w \in Workers, pc[w] # "idle", Complete(Key(w), tally[w]) \/ Fail(Key(w))
        PROVE  FALSE
    <3>1. Key(w) \in Keys
      BY <2>2, BusyWorker
    <3>2. QED
      BY <2>2, <3>1 DEF Complete, Fail
  <2>3. ASSUME NEW w \in Workers, pc[w] = "begin", BeginAttempt(Key(w))
        PROVE  FALSE
    <3>1. Key(w) \in Keys /\ Key(w) # k
      BY <2>3, BusyWorker DEF LookupIsFresh
    <3>2. QED
      BY <2>3, <3>1 DEF BeginAttempt
  <2>4. QED
    BY <2>1, <2>2, <2>3, ImportsChange
<1>2. QED
  BY <1>1, Invariance, LoneInvariance, PTL DEF Spec, CompletedNeverRestarts

(* A handler is refused the lock on an import that is completed, and ends  *)
(* it as failed, only if another one holds the lock and completes it.      *)
THEOREM LoneHandlerSpoilsNothing ==
  ASSUME LoneHandler
  PROVE  Spec => RefusedNeverFailsCompleted
<1>1. LookupIsFresh
        => [\A w \in Workers :
              /\ pc[w] = "deadLetter" /\ error[w] = "concurrency"
              /\ imports[Key(w)].status = "completed"
              => imports'[Key(w)].status # "failed"]_vars
  BY DEF LookupIsFresh
<1>2. QED
  BY <1>1, LoneInvariance, PTL DEF RefusedNeverFailsCompleted

(* Nobody but the handler whose channel was lost could take the message    *)
(* that went back, so it is there as long as the handler goes on.          *)
BackInQueue ==
  \A w \in Workers : pc[w] # "idle" /\ ~online[w] => HoldsMessage(job[w])

LoneKeeping ==
  NoneYet("broker") => BackInQueue /\ \A k \in Keys : Owed(k) => Kept(k)

LEMMA StepBackInQueue ==
  ASSUME LoneHandler, TypeOK, [Next]_vars, ~Spend("broker"), BackInQueue
  PROVE  BackInQueue'
<1> SUFFICES ASSUME NEW w \in Workers, pc'[w] # "idle", ~online'[w]
             PROVE  HoldsMessage(job[w])' /\ job'[w] = job[w]
  BY DEF BackInQueue, HoldsMessage
<1> USE DEF TypeOK, WorkerTypeOK, Goto
<1>1. ASSUME pc[w] # "idle", ~online[w], job'[w] = job[w],
             ~(\E v \in Workers, m \in Message : Deliver(v, m))
      PROVE  HoldsMessage(job[w])' /\ job'[w] = job[w]
  <2>1. PICK m \in Message : m = job[w] /\ HoldsMessage(m)
    BY <1>1 DEF BackInQueue
  <2>2. HoldsMessage(m)'
    BY <1>1, <2>1, HeldStays
  <2>3. QED
    BY <1>1, <2>1, <2>2 DEF HoldsMessage
<1>2. CASE LoseChannel(w)
  <2>1. PICK m \in Message : m = job[w] /\ Requeue(m) /\ job'[w] = m
    BY <1>2 DEF LoseChannel
  <2>2. HoldsMessage(m)'
    BY <2>1 DEF Requeue, PlusOne, HoldsMessage, BrokerTypeOK, Bags
  <2>3. QED
    BY <2>1, <2>2 DEF HoldsMessage
<1>3. CASE WorkerStep(w)
  <2>1. pc[w] # "idle" /\ job'[w] = job[w] /\ online'[w] = online[w]
    BY <1>3
       DEF WorkerStep, Lookup, TryLock, Begin, ProcessChunk, EndPayload, RecordFailure,
           CompleteImport, Unlock, Settle, DeadLetter, Park, Acknowledge, Forget
  <2>2. ~(\E v \in Workers, m \in Message : Deliver(v, m))
    BY <2>1 DEF LoneHandler, Deliver
  <2>3. QED
    BY <1>1, <2>1, <2>2
<1>4. CASE \/ \E m \in Message : Deliver(w, m)
           \/ Crash(w) \/ NoticeLoss(w)
  BY <1>4 DEF Deliver, Crash, NoticeLoss
<1>5. CASE pc'[w] = pc[w] /\ job'[w] = job[w] /\ online'[w] = online[w]
  <2>1. ~(\E v \in Workers, m \in Message : Deliver(v, m))
    BY <1>5 DEF LoneHandler, Deliver
  <2>2. QED
    BY <1>1, <1>5, <2>1
<1>6. QED
  BY <1>2, <1>3, <1>4, <1>5, WorkerMoves DEF ActsOn

LEMMA StepLoneKeeping ==
  ASSUME LoneHandler, IInv, LInv, LoneKeeping, [Next]_vars
  PROVE  LoneKeeping'
<1> SUFFICES ASSUME NoneYet("broker")'
             PROVE  BackInQueue' /\ \A k \in Keys : Owed(k)' => Kept(k)'
  BY DEF LoneKeeping
<1>1. TypeOK /\ TypeOK' /\ NoneYet("broker") /\ ~Spend("broker")
  BY BudgetOnlyFalls, StepPreserves DEF IInv, Disturbances
<1>2. FailuresThrow /\ ClientsOwnTheirs /\ BackInQueue /\ \A k \in Keys : Owed(k) => Kept(k)
  BY <1>1 DEF LInv, LoneKeeping
<1>3. BackInQueue'
  BY <1>1, <1>2, StepBackInQueue
<1>4. ASSUME NEW k \in Keys, Owed(k)'
      PROVE  Kept(k)'
  <2>1. CASE Owed(k)
    <3>1. imports'[k].status # "completed"
      BY <1>4 DEF Owed
    <3>2. QED
      BY <1>1, <1>2, <2>1, <3>1, KeptStays
  <2>2. ASSUME NEW w \in Workers, Unfinished(w)', Key(w)' = k
        PROVE  Kept(k)'
    <3>1. CASE online'[w]
      BY <2>2, <3>1 DEF Kept, Keeping
    <3>2. CASE ~online'[w]
      <4>1. pc'[w] # "idle" /\ job'[w] \in Message
        BY <1>1, <2>2 DEF Unfinished, TypeOK, WorkerTypeOK
      <4>2. HoldsMessage(job[w])'
        BY <1>3, <3>2, <4>1 DEF BackInQueue
      <4>3. QED
        BY <2>2, <4>1, <4>2 DEF Kept, Key
    <3>3. QED
      BY <3>1, <3>2
  <2>3. QED
    BY <1>1, <1>2, <1>4, <2>1, <2>2, NewlyOwedIsKept
<1>5. QED
  BY <1>3, <1>4

(* With one handler, not even a lost channel costs an import its message:  *)
(* the one that went back waits until the handler's process has noticed.   *)
THEOREM LoneHandlerLosesNothing ==
  ASSUME LoneHandler
  PROVE  Spec => [](NoneYet("broker") => StartedIsNeverLost)
<1>1. Init => LoneKeeping
  BY DEF Init, StoreInit, WorkerInit, LoneKeeping, BackInQueue, Owed
<1>2. IInv /\ LInv /\ LoneKeeping /\ [Next]_vars => LoneKeeping'
  BY StepLoneKeeping
<1>3. LoneKeeping => (NoneYet("broker") => StartedIsNeverLost)
  BY DEF LoneKeeping, Owed, Kept, Keeping, Unfinished, HoldsMessage, Holds, StartedIsNeverLost,
         InPlay
<1>4. QED
  BY <1>1, <1>2, <1>3, Invariance, LedgerOfMessages, PTL DEF Spec

-----------------------------------------------------------------------------
(* A handler ends.                                                         *)

ChunksOf(k) == IF Body(k) \in Bodies THEN Len(Chunks[Body(k)]) ELSE 0

(* The steps a handler has left at most: it counts the chunks it has not   *)
(* read and the states it may still pass through.                          *)
Left(w) ==
  LET ahead == ChunksOf(Key(w))
  IN  IF pc[w] = "idle" THEN 0
      ELSE IF pc[w] = "acknowledge" THEN 1
      ELSE IF pc[w] = "park" THEN 2
      ELSE IF pc[w] = "deadLetter" THEN 3
      ELSE IF pc[w] = "settle" THEN 4
      ELSE IF pc[w] = "unlock" THEN 5
      ELSE IF pc[w] \in {"recordFailure", "complete"} THEN 6
      ELSE IF pc[w] = "chunk" THEN IF cursor[w] > ahead THEN 7 ELSE ahead - cursor[w] + 8
      ELSE IF pc[w] = "begin" THEN ahead + 8
      ELSE IF pc[w] = "lock" THEN ahead + 9
      ELSE ahead + 10

LEMMA ChunksAreCounted ==
  ASSUME TypeOK, NEW k \in Keys
  PROVE  /\ ChunksOf(k) \in Nat
         /\ Exists(k) => ChunksOf(k) = Len(Chunks[Body(k)])
BY PayloadAssumption DEF ChunksOf, TypeOK, StoreTypeOK, Exists, Body

LEMMA LeftIsNatural ==
  ASSUME TypeOK, NEW w \in Workers
  PROVE  Left(w) \in Nat
<1>1. CASE pc[w] = "idle"
  BY <1>1 DEF Left
<1>2. CASE pc[w] # "idle"
  <2>1. Key(w) \in Keys
    BY <1>2, BusyWorker DEF TypeOK
  <2>2. ChunksOf(Key(w)) \in Nat /\ cursor[w] \in Nat
    BY <2>1, ChunksAreCounted DEF TypeOK, WorkerTypeOK
  <2>3. QED
    BY <2>2 DEF Left
<1>3. QED
  BY <1>1, <1>2

(* The payload of a message's import is known before the message is.       *)
LEMMA PayloadIsFixed ==
  ASSUME TypeOK, MessagesFollowRows, [Next]_vars,
         NEW w \in Workers, pc[w] # "idle", job'[w] = job[w]
  PROVE  /\ ChunksOf(Key(w)) \in Nat /\ ChunksOf(Key(w)) = Len(Payload(w))
         /\ ChunksOf(Key(w))' = ChunksOf(Key(w))
<1>1. job[w] \in Message /\ Key(w) \in Keys
  BY BusyWorker DEF TypeOK
<1>2. PICK k \in Keys : k = Key(w) /\ k = Key(w)'
  BY <1>1 DEF Key
<1>3. Exists(k)
  BY <1>1, <1>2 DEF MessagesFollowRows
<1>4. Body(k)' = Body(k)
  BY <1>3, ImportsPersist
<1>5. ChunksOf(k) \in Nat /\ ChunksOf(k) = Len(Chunks[Body(k)])
  BY <1>3, ChunksAreCounted
<1>6. ChunksOf(k)' = ChunksOf(k)
  BY <1>4 DEF ChunksOf
<1>7. ChunksOf(Key(w))' = ChunksOf(k)'
  BY <1>2 DEF ChunksOf, Body
<1>8. QED
  BY <1>2, <1>5, <1>6, <1>7 DEF Payload

LEMMA StepCountsDown ==
  ASSUME IInv, MessagesFollowRows, [Next]_vars, NEW w \in Workers
  PROVE  /\ WorkerStep(w) => Left(w)' < Left(w)
         /\ pc[w] # "idle" => Left(w)' <= Left(w)
<1>1. TypeOK /\ AttemptInvariant
  BY DEF IInv
<1> USE DEF TypeOK, WorkerTypeOK, Goto
<1>2. Left(w) \in Nat
  BY <1>1, LeftIsNatural
<1>3. ASSUME pc[w] # "idle", pc'[w] = "idle"
      PROVE  Left(w)' < Left(w) /\ Left(w)' <= Left(w)
  <2>1. Left(w)' = 0
    BY <1>3 DEF Left
  <2>2. Key(w) \in Keys /\ cursor[w] \in Nat
    BY <1>1, <1>3, BusyWorker
  <2>3. Left(w) # 0
    BY <1>1, <1>3, <2>2, ChunksAreCounted DEF Left
  <2>4. QED
    BY <1>2, <2>1, <2>3
<1>4. ASSUME pc[w] # "idle", pc'[w] = pc[w], job'[w] = job[w], cursor'[w] = cursor[w]
      PROVE  Left(w)' = Left(w)
  <2>1. ChunksOf(Key(w))' = ChunksOf(Key(w))
    BY <1>1, <1>4, PayloadIsFixed
  <2>2. QED
    BY <1>4, <2>1 DEF Left
<1>5. ASSUME WorkerStep(w)
      PROVE  Left(w)' < Left(w) /\ Left(w)' <= Left(w)
  <2>1. (pc[w] # "idle" /\ job'[w] = job[w]) \/ Acknowledge(w)
    BY <1>5
       DEF WorkerStep, Lookup, TryLock, Begin, ProcessChunk, EndPayload, RecordFailure,
           CompleteImport, Unlock, Settle, DeadLetter, Park
  <2>2. CASE Acknowledge(w)
    BY <1>1, <1>3, <2>2 DEF Acknowledge, Forget
  <2>3. CASE pc[w] # "idle" /\ job'[w] = job[w]
    <3>1. PICK ahead \in Nat :
             /\ ahead = ChunksOf(Key(w)) /\ ahead = Len(Payload(w)) /\ ahead = ChunksOf(Key(w))'
      BY <1>1, <2>3, PayloadIsFixed
    <3>2. cursor[w] \in Nat \ {0} /\ (pc[w] = "begin" => cursor[w] = 1)
      BY <1>1 DEF AttemptInvariant, AttemptOK
    <3>3. CASE ProcessChunk(w)
      BY <1>1, <3>1, <3>2, <3>3 DEF ProcessChunk, Left
    <3>4. CASE Begin(w)
      BY <1>1, <3>1, <3>2, <3>4 DEF Begin, Left
    <3>5. CASE Lookup(w) \/ TryLock(w)
      BY <1>1, <3>1, <3>5 DEF Lookup, TryLock, Left
    <3>6. CASE EndPayload(w)
      <4>1. pc[w] = "chunk" /\ pc'[w] \in {"complete", "unlock", "recordFailure"}
        BY <1>1, <3>6 DEF EndPayload
      <4>2. Left(w) >= 7
        BY <3>1, <3>2, <4>1 DEF Left
      <4>3. Left(w)' \in {5, 6}
        BY <4>1 DEF Left
      <4>4. QED
        BY <1>2, <4>2, <4>3
    <3>7. CASE RecordFailure(w) \/ CompleteImport(w) \/ Unlock(w) \/ Settle(w) \/ DeadLetter(w)
               \/ Park(w)
      BY <1>1, <3>7 DEF RecordFailure, CompleteImport, Unlock, Settle, DeadLetter, Park, Left
    <3>8. QED
      BY <1>5, <2>2, <3>3, <3>4, <3>5, <3>6, <3>7 DEF WorkerStep
  <2>4. QED
    BY <2>1, <2>2, <2>3
<1>6. ASSUME pc[w] # "idle"
      PROVE  Left(w)' <= Left(w)
  <2>1. ~(\E m \in Message : Deliver(w, m))
    BY <1>6 DEF Deliver
  <2>2. Left(w)' = Left(w) => Left(w)' <= Left(w)
    BY <1>2
  <2>3. QED
    BY <1>1, <1>3, <1>4, <1>5, <1>6, <2>1, <2>2, WorkersAreApart
<1>7. QED
  BY <1>5, <1>6

(* The part of QueuesDrain that needs no fairness: every step of a handler *)
(* brings it nearer to its end, and no step of anyone else takes it        *)
(* further away.                                                           *)
THEOREM HandlersCountDown ==
  Spec => [][\A w \in Workers :
               /\ Left(w) \in Nat
               /\ WorkerStep(w) => Left(w)' < Left(w)
               /\ pc[w] # "idle" => Left(w)' <= Left(w)]_vars
<1>1. IInv /\ MessagesFollowRows /\ [Next]_vars
        => [\A w \in Workers :
              /\ Left(w) \in Nat
              /\ WorkerStep(w) => Left(w)' < Left(w)
              /\ pc[w] # "idle" => Left(w)' <= Left(w)]_vars
  BY LeftIsNatural, StepCountsDown DEF IInv
<1>2. QED
  BY <1>1, Invariance, MessageInvariance, PTL DEF Spec

-----------------------------------------------------------------------------
(* Counts.                                                                 *)

(* The drafts of the chunks before the n-th.                               *)
Before(b, n) == {d \in Drafts(b) : d[1] < n}

Claimed(k) == {r \in Rows : stored[r] = k}

(* What an attempt has counted is what it has read, and what it claims to  *)
(* have imported carries the name of its import.                           *)
TallyOK(w) ==
  /\ pc[w] \in {"idle", "lookup", "lock", "begin"} => tally[w] = EmptyCounts
  /\ pc[w] \in {"chunk", "complete"} =>
       /\ IsFiniteSet(Before(Body(Key(w)), cursor[w]))
       /\ tally[w].total = Cardinality(Before(Body(Key(w)), cursor[w]))
       /\ tally[w].imported + tally[w].skipped = tally[w].total
       /\ tally[w].imported <= Cardinality(Claimed(Key(w)))

TalliesAreTrue == \A w \in Workers : TallyOK(w)

LEMMA DraftsBefore ==
  ASSUME NEW b \in Bodies, NEW n \in Nat \ {0}
  PROVE  /\ Before(b, 1) = {}
         /\ n > Len(Chunks[b]) => Before(b, n) = Drafts(b)
         /\ n <= Len(Chunks[b]) /\ IsFiniteSet(Before(b, n)) =>
              /\ IsFiniteSet(Before(b, n + 1))
              /\ Cardinality(Before(b, n + 1)) = Cardinality(Before(b, n)) + Len(Chunks[b][n])
<1> DEFINE payload == Chunks[b]
<1>1. payload \in Seq(Seq(Rows)) /\ Len(payload) \in Nat
  BY PayloadAssumption
<1>2. Drafts(b) = UNION {{<<j, i>> : i \in 1 .. Len(payload[j])} : j \in 1 .. Len(payload)}
  BY DEF Drafts
<1> HIDE DEF payload
<1>3. \A d \in Drafts(b) : d[1] \in 1 .. Len(payload)
  BY <1>2
<1>4. Before(b, 1) = {}
  BY <1>1, <1>3 DEF Before
<1>5. n > Len(payload) => Before(b, n) = Drafts(b)
  BY <1>1, <1>3 DEF Before
<1>6. ASSUME n <= Len(payload), IsFiniteSet(Before(b, n))
      PROVE  /\ IsFiniteSet(Before(b, n + 1))
             /\ Cardinality(Before(b, n + 1)) = Cardinality(Before(b, n)) + Len(payload[n])
  <2> DEFINE len == Len(payload[n])
             here == {<<n, i>> : i \in 1 .. len}
  <2>1. n \in 1 .. Len(payload) /\ len \in Nat
    BY <1>1, <1>6
  <2> HIDE DEF len
  <2>2. IsFiniteSet(here) /\ Cardinality(here) = len
    <3> DEFINE f == [i \in 1 .. len |-> <<n, i>>]
    <3>1. IsFiniteSet(1 .. len) /\ Cardinality(1 .. len) = len
      BY <2>1, FS_Interval
    <3>2. f \in Bijection(1 .. len, here)
      BY DEF Bijection, Injection, Surjection, IsInjective
    <3> HIDE DEF here
    <3> HIDE DEF f
    <3>3. ExistsBijection(1 .. len, here)
      BY <3>2 DEF ExistsBijection
    <3>4. IsFiniteSet(here) /\ Cardinality(here) = Cardinality(1 .. len)
      BY <3>1, <3>3, FS_Bijection
    <3>5. QED
      BY <3>1, <3>4
  <2>3. Before(b, n + 1) = Before(b, n) \cup here
    <3>1. here \subseteq Before(b, n + 1)
      BY <1>2, <2>1 DEF Before, len
    <3>2. \A d \in Drafts(b) : d[1] < n + 1 => d[1] < n \/ d \in here
      BY <1>1, <1>2, <2>1 DEF len
    <3>3. \A d \in Drafts(b) : d[1] < n => d[1] < n + 1
      BY <1>3
    <3>4. QED
      BY <3>1, <3>2, <3>3 DEF Before
  <2>4. Before(b, n) \cap here = {}
    BY DEF Before
  <2> HIDE DEF here
  <2>5. /\ IsFiniteSet(Before(b, n) \cup here)
        /\ Cardinality(Before(b, n) \cup here) =
             Cardinality(Before(b, n)) + Cardinality(here) - Cardinality(Before(b, n) \cap here)
    BY <1>6, <2>2, FS_Union
  <2>6. /\ Cardinality(Before(b, n)) \in Nat
        /\ Cardinality(Before(b, n) \cap here) = 0
    BY <1>6, <2>4, FS_EmptySet, FS_CardinalityType
  <2>7. /\ IsFiniteSet(Before(b, n + 1))
        /\ Cardinality(Before(b, n + 1)) = Cardinality(Before(b, n) \cup here)
    BY <2>3, <2>5, Zenon
  <2>8. QED
    BY <2>1, <2>2, <2>5, <2>6, <2>7 DEF len
<1>7. QED
  BY <1>4, <1>5, <1>6 DEF payload

(* Rows do not leave an import, and a chunk adds to it what it inserts.    *)
LEMMA ClaimsOnlyGrow ==
  ASSUME TypeOK, [Next]_vars, NEW k \in Keys
  PROVE  /\ IsFiniteSet(Claimed(k)) /\ Cardinality(Claimed(k)) \in Nat
         /\ Cardinality(Claimed(k)') \in Nat
         /\ Cardinality(Claimed(k)) <= Cardinality(Claimed(k)')
<1>1. Claimed(k) \subseteq Claimed(k)'
  BY RowsOnlyGrow, NoKeyAssumption DEF Claimed, IsStored
<1>2. IsFiniteSet(Claimed(k)) /\ IsFiniteSet(Claimed(k)')
  BY PayloadAssumption, FS_Subset DEF Claimed
<1>3. QED
  BY <1>1, <1>2, FS_Subset, FS_CardinalityType

LEMMA BatchIsClaimed ==
  ASSUME TypeOK, NEW k \in Keys, NEW batch \in Seq(Rows), SaveBatch(k, batch)
  PROVE  Cardinality(Claimed(k)') = Cardinality(Claimed(k)) + Cardinality(Inserted(batch))
<1>1. Inserted(batch) \subseteq Rows
  BY DEF Inserted, Range
<1>2. Claimed(k)' = Claimed(k) \cup Inserted(batch)
  BY <1>1, NoKeyAssumption DEF Claimed, SaveBatch
<1>3. Claimed(k) \cap Inserted(batch) = {}
  BY NoKeyAssumption DEF Claimed, Inserted, IsStored
<1>4. IsFiniteSet(Claimed(k)) /\ IsFiniteSet(Inserted(batch))
  BY <1>1, PayloadAssumption, FS_Subset DEF Claimed
<1>5. Cardinality(Claimed(k)) \in Nat /\ Cardinality(Inserted(batch)) \in Nat
  BY <1>4, FS_CardinalityType
<1>6. /\ Cardinality(Claimed(k) \cup Inserted(batch)) =
           Cardinality(Claimed(k)) + Cardinality(Inserted(batch))
             - Cardinality(Claimed(k) \cap Inserted(batch))
      /\ Cardinality(Claimed(k) \cap Inserted(batch)) = 0
  BY <1>3, <1>4, FS_Union, FS_EmptySet
<1>7. Cardinality(Claimed(k)') = Cardinality(Claimed(k) \cup Inserted(batch))
  BY <1>2, Zenon
<1>8. QED
  BY <1>5, <1>6, <1>7

LEMMA TalliesAreApart ==
  ASSUME TypeOK, [Next]_vars, NEW w \in Workers
  PROVE  \/ pc'[w] = pc[w] /\ job'[w] = job[w] /\ cursor'[w] = cursor[w] /\ tally'[w] = tally[w]
         \/ WorkerStep(w)
         \/ \E m \in Message : Deliver(w, m)
         \/ pc'[w] = "idle" /\ tally'[w] = EmptyCounts
<1> USE DEF TypeOK, WorkerTypeOK, Goto
<1>1. ASSUME NEW v \in Workers, v # w,
             WorkerStep(v) \/ \E m \in Message : Deliver(v, m)
      PROVE  /\ pc'[w] = pc[w] /\ job'[w] = job[w]
             /\ cursor'[w] = cursor[w] /\ tally'[w] = tally[w]
  BY <1>1 DEF WorkerStep, Deliver, Lookup, TryLock, Begin, ProcessChunk, CountBatch, EndPayload,
              RecordFailure, CompleteImport, Unlock, Settle, DeadLetter, Park, Acknowledge, Forget
<1>2. ASSUME NEW v \in Workers, Crash(v) \/ NoticeLoss(v)
      PROVE  \/ /\ pc'[w] = pc[w] /\ job'[w] = job[w]
                /\ cursor'[w] = cursor[w] /\ tally'[w] = tally[w]
             \/ pc'[w] = "idle" /\ tally'[w] = EmptyCounts
  BY <1>2 DEF Crash, NoticeLoss, Forget
<1>3. CASE UNCHANGED <<pc, job, cursor, tally>>
  BY <1>3
<1>4. QED
  BY <1>1, <1>2, <1>3
     DEF Next, vars, workerVars, Clientele, Queues, Handlers, Trouble, LoseChannel, LoseLock,
         RestartBroker

LEMMA StepTallies ==
  ASSUME TypeOK, AttemptInvariant, TalliesAreTrue, [Next]_vars
  PROVE  TalliesAreTrue'
<1> SUFFICES ASSUME NEW w \in Workers, TallyOK(w)
             PROVE  TallyOK(w)'
  BY DEF TalliesAreTrue
<1> USE DEF TypeOK, WorkerTypeOK
(* Whoever stands still counts no less of its import than before.          *)
<1>1. ASSUME pc'[w] \in {"chunk", "complete"}, pc[w] \in {"chunk", "complete"},
             job'[w] = job[w], cursor'[w] = cursor[w], tally'[w] = tally[w]
      PROVE  TallyOK(w)'
  <2>1. PICK k \in Keys : k = Key(w)
    BY <1>1, BusyWorker
  <2>2. Key(w)' = k
    BY <1>1, <2>1 DEF Key
  <2>3. Body(k)' = Body(k)
    BY <1>1, <2>1, ImportsPersist DEF AttemptInvariant, AttemptOK, Running
  <2>4. Before(Body(k), cursor[w])' = Before(Body(k), cursor[w])
    BY <1>1, <2>3 DEF Before, Drafts
  <2>5. Cardinality(Claimed(k)) <= Cardinality(Claimed(k)')
        /\ Cardinality(Claimed(k)) \in Nat /\ Cardinality(Claimed(k)') \in Nat
    BY ClaimsOnlyGrow
  <2>6. /\ IsFiniteSet(Before(Body(k), cursor[w]))
        /\ tally[w].total = Cardinality(Before(Body(k), cursor[w]))
        /\ tally[w].imported + tally[w].skipped = tally[w].total
        /\ tally[w].imported <= Cardinality(Claimed(k))
    BY <1>1, <2>1 DEF TallyOK
  <2>7. tally[w].imported \in Nat
    BY DEF Counts
  <2>8. QED
    BY <1>1, <2>2, <2>4, <2>5, <2>6, <2>7 DEF TallyOK
<1>2. CASE pc'[w] = pc[w] /\ job'[w] = job[w] /\ cursor'[w] = cursor[w] /\ tally'[w] = tally[w]
  BY <1>1, <1>2 DEF TallyOK
<1>3. CASE \/ pc'[w] \notin {"lookup", "lock", "begin", "chunk", "complete", "idle"}
           \/ pc'[w] \in {"idle", "lookup", "lock", "begin"} /\ tally'[w] = EmptyCounts
  BY <1>3 DEF TallyOK
<1>4. CASE \E m \in Message : Deliver(w, m)
  BY <1>3, <1>4 DEF Deliver, Goto, TallyOK
<1>5. CASE Lookup(w) \/ TryLock(w)
  BY <1>3, <1>5 DEF Lookup, TryLock, Goto, TallyOK
<1>6. CASE Begin(w)
  <2>1. pc'[w] = "unlock" \/ (pc'[w] = "chunk" /\ BeginAttempt(Key(w)))
    BY <1>6 DEF Begin, Goto
  <2>2. CASE pc'[w] = "chunk" /\ BeginAttempt(Key(w))
    <3>1. PICK k \in Keys : k = Key(w)
      BY <1>6, BusyWorker DEF Begin
    <3>2. /\ Key(w)' = k /\ Body(k)' = Body(k) /\ Body(k) \in Bodies
          /\ cursor'[w] = 1 /\ tally'[w] = EmptyCounts
      <4>1. Exists(k) /\ cursor[w] = 1 /\ tally[w] = EmptyCounts
        BY <1>6, <3>1 DEF Begin, AttemptInvariant, AttemptOK, Running, TallyOK
      <4>2. job'[w] = job[w] /\ cursor'[w] = cursor[w] /\ tally'[w] = tally[w]
        BY <1>6 DEF Begin
      <4>3. Body(k)' = Body(k)
        BY <4>1, ImportsPersist
      <4>4. QED
        BY <3>1, <4>1, <4>2, <4>3 DEF Key, Body, Exists, StoreTypeOK
    <3>3. Before(Body(k)', cursor'[w]) = {}
      BY <3>2, DraftsBefore
    <3>4. IsFiniteSet({}) /\ Cardinality({}) = 0
      BY FS_EmptySet
    <3>5. Cardinality(Claimed(k)') \in Nat
      BY ClaimsOnlyGrow
    <3>6. Before(Body(Key(w)), cursor[w])' = {} /\ Key(w)' = k
      BY <3>2, <3>3 DEF Before, Drafts
    <3>7. /\ tally'[w].total = 0 /\ tally'[w].imported = 0
          /\ tally'[w].imported + tally'[w].skipped = tally'[w].total
      BY <3>2 DEF EmptyCounts
    <3>8. QED
      BY <2>2, <3>4, <3>5, <3>6, <3>7 DEF TallyOK
  <2>3. QED
    BY <1>3, <2>1, <2>2
<1>7. CASE ProcessChunk(w)
  <2>1. CASE pc'[w] = "unlock"
    BY <1>3, <2>1
  <2>2. CASE pc'[w] # "unlock"
    <3>1. PICK k \in Keys : k = Key(w)
      BY <1>7, BusyWorker DEF ProcessChunk
    <3> DEFINE n == cursor[w]
               payload == Chunks[Body(k)]
               batch == payload[n]
               new == Cardinality(Inserted(batch))
    <3>2. /\ pc[w] = "chunk" /\ pc'[w] = "chunk" /\ job'[w] = job[w]
          /\ n \in Nat \ {0} /\ n <= Len(payload) /\ cursor'[w] = n + 1
          /\ SaveBatch(k, batch)
          /\ tally'[w] = [total    |-> tally[w].total + Len(batch),
                          imported |-> tally[w].imported + new,
                          skipped  |-> tally[w].skipped + (Len(batch) - new)]
      BY <1>7, <2>2, <3>1 DEF ProcessChunk, CountBatch, Payload, Goto
    <3>3. Body(k) \in Bodies /\ Body(k)' = Body(k)
      <4>1. Exists(k)
        BY <3>1, <3>2 DEF AttemptInvariant, AttemptOK, Running
      <4>2. QED
        BY <4>1, ImportsPersist DEF StoreTypeOK, Exists, Body
    <3>4. batch \in Seq(Rows)
      BY <3>2, <3>3, PayloadAssumption
    <3>5. /\ Len(batch) \in Nat /\ new \in Nat
          /\ Cardinality(Claimed(k)') = Cardinality(Claimed(k)) + new
          /\ Cardinality(Claimed(k)) \in Nat
      BY <3>2, <3>4, BatchCounts, BatchIsClaimed, ClaimsOnlyGrow
    <3>6. /\ IsFiniteSet(Before(Body(k), n))
          /\ tally[w].total = Cardinality(Before(Body(k), n))
          /\ tally[w].imported + tally[w].skipped = tally[w].total
          /\ tally[w].imported <= Cardinality(Claimed(k))
      BY <3>1, <3>2 DEF TallyOK
    <3>7. /\ IsFiniteSet(Before(Body(k), n + 1))
          /\ Cardinality(Before(Body(k), n + 1)) = Cardinality(Before(Body(k), n)) + Len(batch)
      BY <3>2, <3>3, <3>6, DraftsBefore
    <3>8. Key(w)' = k /\ Before(Body(Key(w)), cursor[w])' = Before(Body(k), n + 1)
      BY <3>1, <3>2, <3>3 DEF Key, Before, Drafts
    <3>9. tally[w] \in Counts
      OBVIOUS
    <3> HIDE DEF n, payload, batch, new
    <3>10. /\ tally'[w].total = Cardinality(Before(Body(k), n + 1))
           /\ tally'[w].imported + tally'[w].skipped = tally'[w].total
           /\ tally'[w].imported <= Cardinality(Claimed(k)')
      BY <3>2, <3>5, <3>6, <3>7, <3>9 DEF Counts
    <3>11. QED
      BY <3>2, <3>7, <3>8, <3>10 DEF TallyOK
  <2>3. QED
    BY <2>1, <2>2
<1>8. CASE EndPayload(w)
  BY <1>1, <1>3, <1>8 DEF EndPayload, Goto
<1>9. CASE \/ RecordFailure(w) \/ CompleteImport(w) \/ Unlock(w) \/ Settle(w)
           \/ DeadLetter(w) \/ Park(w) \/ Acknowledge(w)
  BY <1>3, <1>9 DEF RecordFailure, CompleteImport, Unlock, Settle, DeadLetter, Park, Acknowledge,
                    Forget, Goto
<1>10. QED
  BY <1>2, <1>3, <1>4, <1>5, <1>6, <1>7, <1>8, <1>9, TalliesAreApart DEF WorkerStep

LEMMA StepCounts ==
  ASSUME TypeOK, AttemptInvariant, TalliesAreTrue, CountsDescribePayload, [Next]_vars
  PROVE  CountsDescribePayload'
<1> SUFFICES ASSUME NEW k \in Keys, imports'[k].status = "completed"
             PROVE  /\ imports'[k].counts.total = Cardinality(Drafts(Body(k)'))
                    /\ imports'[k].counts.imported + imports'[k].counts.skipped =
                         imports'[k].counts.total
                    /\ imports'[k].counts.imported <= Cardinality(Claimed(k)')
  BY DEF CountsDescribePayload, Claimed, Drafts
<1> USE DEF TypeOK, StoreTypeOK
<1>1. CASE imports[k].status = "completed" /\ imports'[k].counts = imports[k].counts
  <2>1. Body(k)' = Body(k)
    BY <1>1, ImportsPersist DEF Exists
  <2>2. /\ imports[k].counts.total = Cardinality(Drafts(Body(k)))
        /\ imports[k].counts.imported + imports[k].counts.skipped = imports[k].counts.total
        /\ imports[k].counts.imported <= Cardinality(Claimed(k))
    BY <1>1 DEF CountsDescribePayload, Claimed
  <2>3. imports[k].counts.imported \in Nat
    BY DEF Counts
  <2>4. QED
    BY <1>1, <2>1, <2>2, <2>3, ClaimsOnlyGrow
<1>2. ASSUME NEW w \in Workers, pc[w] = "complete", k = Key(w), Complete(k, tally[w])
      PROVE  /\ imports'[k].counts.total = Cardinality(Drafts(Body(k)'))
             /\ imports'[k].counts.imported + imports'[k].counts.skipped =
                  imports'[k].counts.total
             /\ imports'[k].counts.imported <= Cardinality(Claimed(k)')
  <2>1. imports'[k].counts = tally[w]
    BY <1>2 DEF Complete
  <2>2. Exists(k) /\ cursor[w] > Len(Payload(w)) /\ cursor[w] \in Nat \ {0}
    BY <1>2 DEF AttemptInvariant, AttemptOK, Running, WorkerTypeOK
  <2>3. Body(k)' = Body(k) /\ Body(k) \in Bodies
    BY <2>2, ImportsPersist DEF Exists, Body
  <2>4. Before(Body(k), cursor[w]) = Drafts(Body(k))
    BY <1>2, <2>2, <2>3, DraftsBefore DEF Payload
  <2>5. /\ tally[w].total = Cardinality(Drafts(Body(k)))
        /\ tally[w].imported + tally[w].skipped = tally[w].total
        /\ tally[w].imported <= Cardinality(Claimed(k))
    BY <1>2, <2>4 DEF TalliesAreTrue, TallyOK
  <2>6. tally[w].imported \in Nat
    BY DEF WorkerTypeOK, Counts
  <2>7. QED
    BY <2>1, <2>3, <2>5, <2>6, ClaimsOnlyGrow
<1>3. \/ imports[k].status = "completed" /\ imports'[k].counts = imports[k].counts
      \/ \E w \in Workers : pc[w] = "complete" /\ k = Key(w) /\ Complete(k, tally[w])
  <2>1. CASE UNCHANGED imports
    BY <2>1
  <2>2. ASSUME NEW c \in Clients, CreateImport(KeyOf[c], BodyOf[c])
        PROVE  imports[k].status = "completed" /\ imports'[k] = imports[k]
    BY <2>2, IntakeAssumption DEF CreateImport
  <2>3. ASSUME NEW w \in Workers, pc[w] # "idle", BeginAttempt(Key(w)) \/ Fail(Key(w))
        PROVE  imports[k].status = "completed" /\ imports'[k] = imports[k]
    <3>1. Key(w) \in Keys
      BY <2>3, BusyWorker
    <3>2. QED
      BY <2>3, <3>1 DEF BeginAttempt, Fail
  <2>4. ASSUME NEW w \in Workers, pc[w] = "complete", Complete(Key(w), tally[w]), k # Key(w)
        PROVE  imports[k].status = "completed" /\ imports'[k] = imports[k]
    BY <2>4, BusyWorker DEF Complete
  <2>5. QED
    BY <2>1, <2>2, <2>3, <2>4, TablesChange
<1>4. QED
  BY <1>1, <1>2, <1>3

(* The counts of a completed import account for every draft of its payload *)
(* and claim no row of another import, whatever attempts came before it    *)
(* and whoever shares its rows (process-import and saveBatch).             *)
THEOREM CompletedCountsAreTrue == Spec => []CountsDescribePayload
<1>1. Init => TalliesAreTrue /\ CountsDescribePayload
  BY DEF Init, WorkerInit, StoreInit, TalliesAreTrue, TallyOK, CountsDescribePayload
<1>2. IInv /\ TalliesAreTrue /\ CountsDescribePayload /\ [Next]_vars
        => (TalliesAreTrue /\ CountsDescribePayload)'
  BY StepTallies, StepCounts DEF IInv
<1>3. QED
  BY <1>1, <1>2, Invariance, PTL DEF Spec

=============================================================================
