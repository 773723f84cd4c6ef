--------------------------- MODULE ImportPipeline ---------------------------
(***************************************************************************)
(* Intake, broker, workers and database together.  What the environment    *)
(* does to them (a client that repeats its request, a process that dies, a *)
(* connection that drops, a broker that restarts) is bounded by Budget, so *)
(* that TLC's instances are finite.                                        *)
(***************************************************************************)
EXTENDS Intake, Worker

CONSTANT Budget       \* how many times each disturbance may happen

Disturbances == {"request", "crashApi", "crash", "channel", "lock", "broker"}

ASSUME BudgetAssumption == Budget \in [Disturbances -> Nat]

VARIABLE budget

vars == <<storeVars, brokerVars, workerVars, clientVars, budget>>

Spend(d) ==
  /\ budget[d] > 0
  /\ budget' = [budget EXCEPT ![d] = @ - 1]

Init ==
  /\ StoreInit
  /\ BrokerInit
  /\ WorkerInit
  /\ IntakeInit
  /\ budget = Budget

Clientele ==
  \E c \in Clients :
    \/ Request(c) /\ Spend("request") /\ UNCHANGED workerVars
    \/ IntakeStep(c) /\ UNCHANGED <<workerVars, budget>>
    \/ CrashApi(c) /\ Spend("crashApi") /\ UNCHANGED workerVars

Queues ==
  /\ Sync \/ \E m \in Message : Expire(m)
  /\ UNCHANGED <<storeVars, workerVars, clientVars, budget>>

Handlers ==
  \E w \in Workers :
    /\ WorkerStep(w) \/ \E m \in Message : Deliver(w, m)
    /\ UNCHANGED <<clientVars, budget>>

Trouble ==
  \/ \E w \in Workers :
       \/ Crash(w) /\ Spend("crash") /\ UNCHANGED clientVars
       \/ LoseChannel(w) /\ Spend("channel") /\ UNCHANGED clientVars
       \/ LoseLock(w) /\ Spend("lock") /\ UNCHANGED clientVars
       \/ NoticeLoss(w) /\ UNCHANGED <<clientVars, budget>>
  \/ RestartBroker /\ Spend("broker") /\ UNCHANGED clientVars

Next == Clientele \/ Queues \/ Handlers \/ Trouble

Spec == Init /\ [][Next]_vars

-----------------------------------------------------------------------------
(* Types.                                                                  *)

TypeOK ==
  /\ StoreTypeOK
  /\ BrokerTypeOK
  /\ WorkerTypeOK
  /\ IntakeTypeOK
  /\ budget \in [Disturbances -> Nat]

-----------------------------------------------------------------------------
(* Safety.                                                                 *)

(* A disturbance of this kind has not happened so far.                     *)
NoneYet(d) == budget[d] = Budget[d]

Readable == {b \in Registered : ReadError[b] = "none"}

Whole(k) ==
  /\ Body(k) \in Readable
  /\ \A r \in RowsOf(Body(k)) : IsStored(r)

(* An import that says `completed` has a payload that can be read to its   *)
(* end and has every row of it in the table, whoever wrote it, whatever    *)
(* was retried, lost or run twice on the way: process-import completes     *)
(* only after its loop, and rows are never removed.                        *)
CompletedMeansStored ==
  \A k \in Keys : imports[k].status = "completed" => Whole(k)

(* A row is in the table only because an import that was processed asked   *)
(* for it: it carries the name of an existing import whose payload has it. *)
StoredWasRequested ==
  \A r \in Rows : IsStored(r) =>
    /\ imports[stored[r]].status \notin {"absent", "pending"}
    /\ r \in RowsOf(Body(stored[r]))

(* The counts of a completed import account for its whole payload, and it  *)
(* claims as imported no more rows than carry its name, although chunks    *)
(* are saved before they are counted and attempts start over.              *)
CountsDescribePayload ==
  \A k \in Keys : imports[k].status = "completed" =>
    LET counts == imports[k].counts IN
      /\ counts.total = Cardinality(Drafts(Body(k)))
      /\ counts.imported + counts.skipped = counts.total
      /\ counts.imported <= Cardinality({r \in Rows : stored[r] = k})

Running(w) == pc[w] \in {"begin", "chunk", "recordFailure", "complete", "unlock"}

(* Until a session is lost under a worker, one worker at a time runs an    *)
(* attempt of an import, however many copies of its message are out.       *)
LockExcludes ==
  NoneYet("lock") =>
    \A v, w \in Workers : Running(v) /\ Running(w) /\ Key(v) = Key(w) => v = w

(* A lock ends with the attempt it was taken for, however the attempt ends *)
(* (withImportLock's finally, or the session with its process): so who is  *)
(* refused it is refused for an attempt that is being run.                 *)
LocksEndWithAttempts ==
  \A l \in LockKeys : locks[l] # NoWorker =>
    Running(locks[l]) /\ Lock(locks[l]) = l

(* A message never runs ahead of its import: the row is written before the *)
(* job is published, so no worker meets a job for a row that is not there. *)
JobsFollowRows ==
  \A k \in Keys :
    Holds(k) \/ (\E w \in Workers : pc[w] # "idle" /\ Key(w) = k) => Exists(k)

(* A message of the import is in a queue, in the parking lot or with a     *)
(* worker.                                                                 *)
InPlay(k) ==
  \/ Holds(k)
  \/ \E w \in Workers : pc[w] # "idle" /\ Key(w) = k

Promised(k) == \E c \in Clients : reply[c] = "accepted" /\ KeyOf[c] = k

(* An import that was started has a message as long as it is unfinished: a *)
(* client's retry republishes pending imports only, so nothing else would  *)
(* ever take it up again.                                                  *)
StartedIsNeverLost ==
  \A k \in Keys : imports[k].status = "processing" => InPlay(k)

(* An import somebody counts on: it was started or has failed, or is       *)
(* pending and its client was told it is accepted.                         *)
Owed(k) ==
  \/ imports[k].status \in {"processing", "failed"}
  \/ imports[k].status = "pending" /\ Promised(k)

(* Until a channel is lost, nothing is: an import that is owed has a       *)
(* message that will be worked on or that a human can find, whatever       *)
(* crashes and whoever loses a lock.                                       *)
NothingIsLost ==
  NoneYet("channel") /\ NoneYet("broker") => \A k \in Keys : Owed(k) => InPlay(k)

(* A lost channel can cost an import its message (its copy goes into the   *)
(* closed channel while another worker acknowledges the redelivered one),  *)
(* but only an import all of whose rows are in the table: what is wrong    *)
(* then is its status, until a broker restart loses unwritten copies.      *)
OnlyWholeImportsAreDropped ==
  NoneYet("broker") => \A k \in Keys : Owed(k) => InPlay(k) \/ Whole(k)

(* A key names one request: whoever is told `accepted` has the import of   *)
(* its own body, and racing requests with one key and two bodies never     *)
(* both are.                                                               *)
AcceptedIsOwnImport ==
  \A c \in Clients : reply[c] = "accepted" =>
    Exists(KeyOf[c]) /\ Body(KeyOf[c]) = BodyOf[c]

(* A row in the table is never rewritten and never leaves it; a second     *)
(* import of the same natural key does not take it over.                   *)
RowsAreFinal ==
  [][\A r \in Rows : IsStored(r) => stored'[r] = stored[r]]_stored

(* A duplicate delivery converges to the same state (ADR-0007): a worker   *)
(* that was refused the lock to its last attempt does not turn an import   *)
(* that the holder of the lock has completed into a failed one.            *)
RefusedNeverFailsCompleted ==
  [][\A w \in Workers :
       /\ pc[w] = "deadLetter" /\ error[w] = "concurrency"
       /\ imports[Key(w)].status = "completed"
       => imports'[Key(w)].status # "failed"]_vars

(* An import that is already completed is left alone (ARCHITECTURE.md): no *)
(* later delivery sets it back to `processing`.                            *)
CompletedNeverRestarts ==
  [][\A k \in Keys : imports[k].status = "completed" => imports'[k].status # "processing"]_imports

-----------------------------------------------------------------------------
(* Why CompletedMeansStored holds.  An attempt starts at the first chunk,  *)
(* and one that has come to a chunk has every chunk before it in the       *)
(* table, even if it lost its lock, another worker shares the import, or   *)
(* an earlier attempt ended half way.                                      *)

AttemptOK(w) ==
  /\ pc[w] \in {"idle", "lookup", "lock", "begin"} => cursor[w] = 1
  /\ Running(w) \/ pc[w] = "lock" => Exists(Key(w))
  /\ pc[w] \in {"chunk", "complete"} =>
       /\ Body(Key(w)) \in Registered
       /\ \A n \in 1 .. Len(Payload(w)) :
            n < cursor[w] => \A r \in Range(Payload(w)[n]) : IsStored(r)
  /\ pc[w] = "complete" =>
       /\ cursor[w] > Len(Payload(w))
       /\ ReadError[Body(Key(w))] = "none"

(* No attempt runs ahead of what it saved, and none forgets its import.    *)
AttemptInvariant == \A w \in Workers : AttemptOK(w)

-----------------------------------------------------------------------------
(* The abstract specification.                                             *)

Verdict(status) ==
  CASE status = "absent"                   -> "none"
    [] status \in {"pending", "processing"} -> "open"
    [] OTHER                               -> status

Ledger == INSTANCE ImportLedger WITH
  verdict <- [k \in Keys |-> Verdict(imports[k].status)],
  request <- [k \in Keys |-> Body(k)],
  ledger  <- stored

(* The pipeline has the exactly-once effect ImportLedger states: whatever  *)
(* the messages, workers and failures do, each step is a step of the       *)
(* ledger or invisible to it.                                              *)
ExactlyOnceEffect == Ledger!Spec

-----------------------------------------------------------------------------
(* Liveness.                                                               *)

(* The broker delivers and expires what it holds and writes what it was    *)
(* handed, handlers run, a process notices a dead connection.  Nothing is  *)
(* assumed of clients, of failures, or of failures ceasing: they are few   *)
(* enough because attempts and the budget are.                             *)
Fairness ==
  /\ WF_vars(Queues)
  /\ \A w \in Workers :
       /\ WF_vars(WorkerStep(w) /\ UNCHANGED <<clientVars, budget>>)
       /\ WF_vars((\E m \in Message : Deliver(w, m)) /\ UNCHANGED <<clientVars, budget>>)
       /\ WF_vars(NoticeLoss(w) /\ UNCHANGED <<clientVars, budget>>)
  /\ \A c \in Clients : WF_vars(IntakeStep(c) /\ UNCHANGED <<workerVars, budget>>)

FairSpec == Spec /\ Fairness

Parked(k) == \E m \in parked : m.key = k

(* A queued import reaches a verdict and keeps one: after the last         *)
(* disturbance every import that a client was promised is completed or     *)
(* failed, or its failure could not be written down and its message is in  *)
(* the parking lot.                                                        *)
PromisesAreKept ==
  \A k \in Keys : <>[](Promised(k) => IsTerminal(imports[k].status) \/ Parked(k))

(* The queues drain: retries are bounded, so every message is acknowledged *)
(* or parked in the end, also the one that can never succeed.              *)
QueuesDrain ==
  <>[](ready = NoMessages /\ delayed = NoMessages /\ \A w \in Workers : pc[w] = "idle")

=============================================================================
