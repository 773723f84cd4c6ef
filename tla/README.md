# Crypto-tax import pipeline: verification project

The repository ingests a wallet's transactions. A client asks over HTTP for an
import, the API records it in PostgreSQL and publishes a job to RabbitMQ, a
worker reads the payload, normalises it, writes the transactions and records the
outcome, and the client reads the transactions back. Delivery is at least once,
processes die at any point, and the pipeline is meant to be *safe to run twice*.
These modules say what that means, model-check it on small instances with TLC
and prove the parts that matter most for every instance with TLAPS.

## 1. Inventory

Paths are under `src/packages/`.

| Component | State it keeps | Operations | Talks to | Correct when |
|---|---|---|---|---|
| Import intake: `application/.../request-import.use-case.ts`, `api/src/server.ts` | none of its own between requests | find by key, create, reuse, publish, reply | store (rows), broker (confirmed publish) | a key names one request; an accepted import is queued or can be queued by a retry; no job before its row |
| Import store: `infrastructure/.../import.repository.ts`, `transaction.repository.ts`, migration `0001` | `imports`, `transactions`, `transaction_entries` | create, begin, complete, fail, saveBatch, listByWallet | everybody | rows are written once per natural key, a batch whole or not at all |
| Broker: `infrastructure/src/messaging/topology.ts`, `publisher.ts`, `connection.ts`, `envelope.ts`, `headers.ts` | ready, retry and dead-letter queues | publish, deliver, expire, redeliver, park | intake, worker | persistent messages survive, one delay, a parking lot nobody consumes |
| Retry policy: `messaging/retry-policy.ts`, `application/src/errors.ts` | none | decideRetry, isRetryable | consumer, HTTP errors | transient errors are retried up to a ceiling, permanent ones never |
| Worker: `messaging/consumer.ts`, `process-import.use-case.ts`, `worker/src/container.ts` | a handler's locals; an advisory lock | deliver, lookup, lock, begin, chunks, complete or fail, unlock, retry or park, acknowledge | broker, store | see section 5 |
| Process lifecycle: `worker/src/main.ts`, `api/src/main.ts` | shuttingDown, in-flight handlers | drain, exit on a lost connection | broker, database | no accepted work is cut short by a deploy |
| Database pool: `infrastructure/src/db/client.ts`, `config.ts` | connections | borrow, return, time out | worker | a connection comes back with its attempt, and a pool full of locks comes free again |
| External ids and normaliser: `domain/src/normalization/*` | occurrence counts of one attempt | assign, normalise | worker | keys do not depend on chunking or on the attempt |
| Source adapters, payload store: `infrastructure/src/sources/*` | a file stream and a parser per reading | read, chunk, classify errors | worker, domain rules | every reading ends; only sound rows are stored; `completed` means all of them; a defect is permanent, a missing mount is not |
| Transaction listing: `list-transactions.use-case.ts`, `listByWallet` | the client's cursor | next page | store | no row repeated or skipped |
| Wallet registration: `register-wallet.use-case.ts`, `wallet.repository.ts` | `wallets` | register, read back | store | racing registrations get one wallet |
| Domain rules: `transaction.ts`, `decimal.ts` | none | create, accept an amount | adapters, normaliser | business rules and the NUMERIC range hold, no digit is lost |
| Asset lookup: `asset.repository.ts`, `asset.ts` | `assets`, never written here | resolve | worker | an unknown asset is a permanent error |
| Status reads: `get-import.use-case.ts`, `serializers.ts` | none | read one row | store | (read-only) |

Left aside: tests and test doubles, seeds and migrations CLI, logging,
configuration parsing, serialisers.

**What is hard here.** Two deliveries of one import at once; the status read
before the lock and used after it (`process-import.use-case.ts:121,130,134`);
unconditional updates of the status; a lock that lives in one session while the
work runs in others; a worker whose channel is gone and who does not know;
retry copies that are not confirmed; replies lost after their effect; a row that
is committed and a publish that fails; a stream whose failures its reader does
not hear of; errors that are caught where they lose their kind; statements that
insert the same rows in opposite orders. `PROJECT.json` lists each at its line,
with the properties that watch it.

## 2. Modules

| Module | Models | How it corresponds to the code |
|---|---|---|
| `Import` | vocabulary | statuses, counts, a payload as a sequence of chunks of natural keys |
| `ImportStore` | PostgreSQL tables | `imports[k]` is the row of an idempotency key, `stored[r]` the import that wrote a natural key; one operator per SQL statement |
| `RetryPolicy` | errors and `decideRetry` | one kind per error class |
| `Broker` | RabbitMQ | `ready`, `delayed` (retry queue), `parked` (dead-letter queue), `unsynced` (handed over, not on disk) |
| `Intake` | POST /v1/imports | `stage[c]` is the await a request is at; `Find`, `Create`, `Publish` |
| `Worker` | consumer and process-import | `pc[w]` is the await a handler is at; one action per await, plus crash, lost channel, lost lock session, broker restart |
| `ImportPipeline` | all of them together | also the properties, the fairness and the refinement mapping |
| `ImportLedger` | abstract specification | the exactly-once effect, with no messages, workers or locks |
| `MCImportPipeline` | TLC instances | payloads, clients, budgets |
| `ImportPipelineProofs`, `PipelineLedgerProofs` | TLAPS proofs | section 5 |
| `ExternalIds`, `MCExternalIds`, `ExternalIdsProofs` | `createExternalIdAssigner`, `createImportNormalizer` | `occurrences[a]` is the assigner's Map of attempt `a`; one action per draft, per saved chunk and per end of an attempt; `ReferenceId` is the key a payload alone gives |
| `TransactionListing`, `MCTransactionListing`, `TransactionListingProofs` | `listByWallet`, `cursor.ts`, `saveBatch` | the two statements of a page and the two of a save are actions of their own; `cursor` and `served` are the client's |
| `WorkerProcess`, `WorkerProcessProofs` | `main.ts`, `db/client.ts`, `withImportLock` | a slot of the prefetch is at an await (`phase`) and waits for, uses or holds connections of the pool; `TimeOut` is the pool's `connectionTimeoutMillis` |
| `Decimals`, `DecimalsProofs` | `decimal.ts`, the NUMERIC columns | `From` is `Decimal.from`, `Column` and `ColumnText` the way into the column and back; pure operators |
| `TransactionRules` | `createTransaction`, `normalize` | one conjunct per rule of a kind of transaction, the asset lookup before them; pure operators |
| `Sources` | the two adapters | `CsvError`, `DocumentError` and the like check in the order of the code and give the first error; the catches that translate errors; pure operators |
| `PayloadReading`, `MCPayloadReading`, `PayloadReadingProofs` | `runAttempt`'s loop over `chunked(adapter.read(...))` | the file stream and the parser's buffer (`file`, `parser`, `fed`) run beside the loop (`pc`, `taken`, `saved`); one action per await |
| `ReadContract` | abstract specification | what `Worker` takes for granted of a reading |
| `UniqueInserts` | `insert ... on conflict do nothing` | rows one after another, a claim per uncommitted key, waits, commits, rollbacks and the deadlock detector |
| `AtomicInserts` | abstract specification | a statement takes effect at one instant or not at all |
| `WalletRegistration`, `MCWalletRegistration`, `WalletRegistrationProofs` | POST /v1/wallets | `phase[q]` is the await a registration is at; it extends `UniqueInserts`, in which chunks of imports run beside it |

`ImportPipeline` is composed of `Intake`, `Worker`, `Broker`, `ImportStore` and
`RetryPolicy`. The others look at one mechanism each, at a grain the pipeline
abstracts. There a key is a row, a slot is a worker, a connection is always to
be had, a payload is a list of rows that ends in an error or does not, and a
chunk goes in at one instant; `ExternalIds`, `WorkerProcess`, `PayloadReading`
and `UniqueInserts` say when that is so. `ReadContract` and `AtomicInserts` are
the seams: they state what `Worker` and `ImportStore` build on.

**Abstractions.** An import is named by its (user, idempotency key), which the
table makes unique; a request body stands for all that its fingerprint covers,
wallet and payload included. Two bodies of a model name the same wallet when
their payloads share rows. The columns `attempts`, `started_at`,
`finished_at` and `error` guard nothing and are left out. `beginAttempt`'s
NotFoundError is unreachable (`AttemptInvariant`: a running attempt's import
exists, and nothing deletes one). A worker of the model is one slot of a
prefetch: a process with a prefetch of n is n of them, and its death is several
`Crash` steps. Every message is well-formed, because `publisher.ts` is
their only author here. An error other than the payload's own is "unknown",
which the taxonomy retries; it may strike at every statement, before or after
the statement took effect. A payload ends with an error of the adapter, or with
a chunk that the normaliser refuses; `ReadError` says which, and the chunks
before it are `Chunks`.

Three small things of the pipeline are left out. An unlock that throws is taken
for one whose session has ended; were the statement alone to fail
(`import.repository.ts:150`), Kysely would put the connection back into the pool
with the lock still held, and the import would be refused until that connection
closes. `ack` throws on a channel the process already knows to be closed, and in
`consumer.ts:86-90` it does so inside the `try`: on a last attempt `onDeadLetter`
could then fail an import that was just completed, in the moment before
`main.ts` ends the process. And a message of the intake is on disk when the
queue has it; one that is delivered before it is on disk, and lost in a restart
before its confirm, does not occur.

In `ExternalIds` a hash is injective and stands for what it hashes, and user,
wallet and source type, which enter every content, are the same throughout.
Legs are compared as `external-id.ts` compares them, sorted: a bag. A draft that
cannot be read or normalised, like an error of the database, is where an attempt
is abandoned. In `TransactionListing` a row is its key: an instant has the
precision of a Date on both sides and an external id is stored trimmed, so a
token loses nothing of it. Two saves that wait for one another are one
`Rollback`. In `WorkerProcess` the pool serves any of its waiters, where
pg-pool serves them in turn; fairness says what is needed of that. Losing the
broker, also while the consumer is being cancelled, closes the process without a
drain, as cancelling fails; what becomes of its messages is `Worker`'s business.

In `Decimals` a text is a sign and two strings of digits, and a value has a
digit at each decimal place, so that equality needs no arithmetic and the radix
does not matter; which way PostgreSQL rounds is left open, as any rounding loses
digits. In `PayloadReading` a row is the cells both formats have a use for, a
cell is a ticker, an amount, `Malformed` or `Empty`; which source id a row bears
is `ExternalIds`' business. Of the many ways to misspell an amount there is one,
as `PLAIN_DECIMAL` is one test. A reference is present, missing, one that
escapes the store, or `unreadable`: it names something that cannot be read and
never will, a directory say, or its name is too long. A row is `storable` or
not, which stands for all that neither adapter nor normaliser looks at and a
column or an index refuses: a source id with a NUL or a very long one, an
instant before the year 4713 BC. The chunk's asset query fails or answers for
the chunk as a whole; the choice among several contracts of one ticker is left
out. In `WalletRegistration` a request stands for the wallet id it mints, and a
statement may fail before or after it took effect.

## 3. Runs

| Run | Instance | Question | Result |
|---|---|---|---|
| Settling | 1 import, 2 messages of it, 2 workers, 2 attempts, a worker that dies, fairness | does one worker at a time run an attempt, does its lock end with it, does everything end in a verdict? | holds |
| Outages | 1 of 3 requests (one that is carried out, a foreign wallet, no adapter), 2 workers, an API crash, a worker crash, a lost channel, a broker restart | is it safe while channel, broker and processes come and go, and is an import that loses its message whole? refines `ImportLedger` | holds |
| Rivals | 3 clients of which 2 ask, 2 keys with one lock value, 3 overlapping payloads of which one breaks off, an API crash, a lost lock session | are replies, rows, counts and verdicts each somebody's own, is no message lost? refines `ImportLedger` | holds |
| Keys | 3 exports of 4 or 5 drafts with shared contents, 2 attempts, chunks of 1 and 3 | do keys depend on the payload alone? | holds |
| Pages | 6 rows of which 3 share an instant, 4 chunks, 2 savers, pages of 1 to 3 | do walks repeat, skip or show halves? | holds |
| Pool | 3 slots, a pool of 2, 2 statements an attempt, fairness | do connections come back, does a pool that is full of locks come free, do messages settle, does a drain end? | holds |
| Rows | NUMERIC(3, 1), each text of up to 3 + 2 digits as amount and as fee, each defect at each of 3 rows in both formats, chunks of 2, a parser that holds 2 rows, fairness | are stored rows sound and exact, are errors classified, does every reading end? refines `ReadContract` | holds |
| Wallets | 4 requests (2 spellings of one account, another user's, a blank one), 2 chunks that share rows in opposite orders, fairness | is there one wallet, does every insert end? refines `AtomicInserts` | holds |
| LateFailure | 1 import, 2 requests, 2 workers | a duplicate never spoils a verdict | violated |
| StaleLookup | the same | a completed import is left alone | violated |
| LostRetry | 1 worker, a broker restart | a started import has a message | violated |
| RetriedDefect | an export with an amount that is not a number | a defect is not retried | violated |

**Bounds.** `Budget` bounds what the environment does (requests, crashes, lost
channels and locks, restarts) and `MaxAttempts` the attempts: with two, in
Settling and the violated runs, a message can fail, be retried, be refused and
exhaust its attempts. In Outages and Rivals it is one, and duplicates come from
redeliveries and repeated requests instead; one attempt leaves room for all the
disturbances in one behaviour. Lost lock sessions are in Rivals and the other
outages in Outages, to keep both instances small; the proofs of section 5 cover
them together. Two workers are enough for every interleaving of one holder and
one rival; two chunks are enough for a crash between them; three rows let two
payloads overlap in one, which one of them names twice. Workers are
interchangeable, so they are a symmetry set in the safety runs of the pipeline.

In Keys, a chunk of 1 ends between any two drafts and a chunk of 3 in the middle
of a payload and short at its end; two attempts are a rival of each import and
of its re-export, which comes in another order, and the third export has one
duplicate more than they. In Pages three rows of one instant do not fit in a
page of 1 or 2, two chunks overlap, and rows arrive above, between and below the
cursor. In Pool two locks fill the pool while their attempts, and a third
message, wait: the wedge that a prefetch as large as the pool admits. While one
of the two connections is a lock's, the other is all that the statements of
three messages have.

In Rows an amount can have one digit too many before and after the point, with
and without a leading zero, and be zero with a minus sign; three rows in chunks
of two make a full chunk and a short one, so that a defect comes before, after
or inside a chunk that is stored, and a parser of two rows is full, empty or
half full when the file fails. In Wallets two requests for one wallet are a
winner and a loser, a third of another user shows that the constraint includes
the user, and two chunks over two rows are the shortest deadlock.

The systems of Settling, Outages, Rivals, Pool, Rows and Wallets stop when
their work is done, so deadlock is not checked there; in Keys and Pages it is.

**Fairness.** In Settling the broker delivers, expires and writes what it holds,
a started handler goes on, a process notices a dead connection and a request in
the API goes on. Nothing is assumed of clients, of errors, or of their ceasing:
every error may recur until attempts run out, and then the verdict is `failed`.
In Pool a handler takes its steps (weak fairness), and a waiter of the pool is
not passed over for ever while connections come free (strong fairness: pg-pool
serves its waiters first come, first served). The pool's timers may always go
off, and are counted on while the pool is wedged (weak fairness of a timer
there: `connectionTimeoutMillis` is set, `db/client.ts:36`, and nothing else
goes on). With a prefetch below the size of the pool it never is: each lock
takes one connection, and one is left over. In Rows Node goes on with the
streams and with the loop (weak fairness of each, as one event loop runs both);
in Wallets a statement that does not wait goes on, a request takes its answer,
and the deadlock detector runs. Failures are never fair.

## 4. What the code does that its documents do not say

Four violated runs, listed under `findings` with the lines they are about. The
status is read before the lock and never again under it, and the verdicts are
unconditional updates. So a duplicate that was refused the lock to its last
attempt records `failed` over `completed` (LateFailure), and a stale reader
reopens a completed import (StaleLookup); if that reader's channel is closed,
its message is gone too, and the import stays `processing` for ever. And the
consumer's retry copy is not confirmed before the original is acknowledged
(LostRetry). None of them touches the rows: `CompletedMeansStored`,
`RowsAreFinal` and `ExactlyOnceEffect` hold in the same circumstances.

LateFailure has a second form. A worker whose lock session is gone completes its
import, and its unlock throws, which sends a last attempt to the dead letters;
if its channel is lost as well, its message is redelivered and acknowledged,
the import being completed, and then `failed` is recorded over `completed` while
the parked copy goes into the closed channel. The import has failed and no
message says so. `NothingIsLost` is therefore stated until a channel is lost or
the broker restarts. For what comes after a lost channel there is
`OnlyWholeImportsAreDropped`: an import that is owed and has no message left has
all its rows in the table, so what is wrong is its status. In Outages such
imports do occur: without the clause on the rows the property is violated there.

Section 5 proves how far these findings reach. With one handler in all neither
LateFailure nor StaleLookup happens (the `ack` that throws is outside the model,
section 2), and a started import loses its message to nothing but a restart of
the broker; with several, LostRetry takes a lost channel or a restart. Until the
broker restarts no lost message leaves rows out, and an import that was
completed keeps its rows for good.

The CSV adapter lets only `ValidationError` through its catch and makes an
unavailable dependency of everything else, the domain errors of a bad cell and
the parser's own error for a ragged row included, so a defect uses up the retries
(RetriedDefect). The JSON adapter has one such defect: `readText` resolves the
reference inside its `try`, so a `ValidationError` about the reference becomes an
unavailable dependency, where the CSV adapter lets the same error through.

Two kinds of defect are found by nobody but the file system or the database, and
are retried in both formats. `toPayloadError` knows ENOENT and ENOTDIR only, so a
reference to a directory (`resolveRef` even admits the root of the store) or with
too long a name, EISDIR and ENAMETOOLONG, is taken for a mount that went away. And
what a column refuses, such as a NUL in a source id, is an error of the driver's,
which is as unknown to `isRetryable` as an outage: the chunk fails at every attempt,
with the sound rows in it. `OnlyTheseDefectsAreRetried` (section 5) proves that
these are all, of the defects the model has; it says nothing of a payload with a
defect beyond the model. One such is known: a NUL in a cell that an adapter quotes
in the details of its `ValidationError` would be refused by the jsonb column
`error`, so that `fail` itself throws (`process-import.use-case.ts:109`), and the
defect is retried as that error. For the pipeline this is `RecordFailure` failing.

The rest of the classification is as FR-12 asks, which `KeepsContract` checks in
Rows: nothing unsound is stored, and no payload is refused for good because a
file, the parser or the database failed.

Each attempt holds one connection for its lock and needs another for its
statements (`import.repository.ts:138`). The defaults of `config.ts` are a
prefetch of 4 and a pool of 10; its schema accepts any two. With a prefetch as
large as the pool every connection can be a lock's. `OnlyTimersBreakWedges`
(section 5) proves that then nothing but a pool timer of one of these attempts,
or the end of the process, frees one, and `WedgesBreak` checks that the timer does:
the statement fails, the `finally` of `withImportLock` gives lock and connection
back, and the message is retried. So a worker configured like that goes on, at the
price of attempts. No document says otherwise, and there is no violated run.

ADR-0007:54-55 says of a derived key that it covers "every leg in order". The code
sorts the legs (`external-id.ts:37`), its comment and ARCHITECTURE.md:106 say so
too, and `ReexportAddsNothing` rests on it. The sentence can be read either way,
as the order of the payload or as a canonical one; the models follow the code.

## 5. Proofs

`ImportPipelineProofs` proves, for every set of keys, bodies, rows, workers and
clients, every number of attempts and every budget:

- `TypeCorrect`: `Spec => []TypeOK`.
- `AttemptsAreWhole`, `CompletedImportsAreWhole`: `CompletedMeansStored` is not
  inductive. `complete` writes the verdict from what the handler remembers, so
  the strengthening `AttemptInvariant` says what it remembers: an attempt
  starts at the first chunk, its import exists, and every chunk before its
  cursor is in the table. It survives other workers, lost locks and crashes
  because rows and imports only grow (`RowsOnlyGrow`, `ImportsPersist`). The
  types need it too: an update of a row that does not exist would not be an
  import. `IInv` is the conjunction of the three.
- `RowsStay`: `RowsAreFinal`, from `RowsOnlyGrow`.
- `CompletedStaysWhole`: once an import is completed its payload is and stays in
  the table, also where a finding of section 4 spoils the status afterwards.
- `AttemptsExclude` and `NoLockLeaks`: `LockExcludes` and `LocksEndWithAttempts`,
  from `LockInvariant`: a holder runs an attempt under its lock, and, until a
  lock session is lost, whoever runs an attempt is the holder of its lock.
  `BudgetIsKept` (what the environment may still do never grows) is what lets a
  property speak of what has not happened yet: `NoneYet` of a disturbance,
  instead of a hypothesis that excludes it for ever.

`PipelineLedgerProofs` builds on `IInv`, in the same generality:

- `PipelineImplementsLedger`: `ExactlyOnceEffect`, the refinement. A step of the
  pipeline changes one table by one statement (`TablesChange`); each statement
  is an action of the ledger, and the guard of the ledger's `Complete` is
  `CompletedMeansStored` in the next state.
- `RowsAreRequested`: `StoredWasRequested`, from `ChunksAreStarted` (a worker at
  a chunk has recorded its attempt, and a started import stays started).
- `KeysNameOneRequest`: `AcceptedIsOwnImport`, from `ClientsOwnTheirs`, which
  says it of requests that are yet to publish.
- `JobsAlwaysFollowRows`: `JobsFollowRows`, from `MessagesFollowRows`, which says
  it of the messages handed over and not yet on disk as well.
- `LiveChannelsLoseNothing`: `NothingIsLost`, for every budget. The invariant
  `OwedIsKept` asks more of a worker than to have a message: one that would acknowledge it (`Unfinished` is false
  of it) keeps nothing. A message stays where it is, moves to another queue or
  is delivered (`HeldStays`), and an unfinished worker goes on, hands it on, or
  completes the import (`UnfinishedStays`). It follows that a started import
  can lose its retry copy in an outage only (`OnlyOutagesLoseRetries`).
- `LostChannelsLoseNoRows`: `OnlyWholeImportsAreDropped`, from
  `EngagedIsKeptOrWhole`, which says it of every import a worker has, with or
  without a channel: a message that is acknowledged and was not handed on is
  one of a completed import, and `CompletedMeansStored` holds at that moment.
- `LoneHandlerReopensNothing`, `LoneHandlerSpoilsNothing`,
  `LoneHandlerLosesNothing`: the properties that StaleLookup, LateFailure and
  LostRetry violate, for a system with one handler. A lookup is then still true
  when it is used (`LookupIsFresh`) and nobody is refused a lock; a message that
  went back to the queue cannot be taken before its handler's process has
  noticed (`BackInQueue`). The assumption `LoneHandler` is one worker process with
  a prefetch of one, which `config.ts` admits.
- `HandlersCountDown`: every step of a handler decreases `Left`, a natural number
  made of the await it is at and the chunks it has not read, and no step of
  anybody else increases it. It is the part of `QueuesDrain` that needs no
  fairness: a handler never loops.
- `CompletedCountsAreTrue`: `CountsDescribePayload`, from `TalliesAreTrue`: what
  an attempt has counted is the number of drafts before its cursor, and what it
  claims to have imported carries its import's name. The second survives other
  workers because rows only grow; the counting itself is on cardinalities
  (`DraftsBefore`, `BatchIsClaimed`), without induction over a payload.

`ExternalIdsProofs` proves all five properties of `ExternalIds`, for every
set of imports, payloads and chunk sizes and every number of attempts. What it
adds to them is `IInv`: the counter of a content is the number of drafts of that
content among those an attempt has read (`Counted`), the chunk holds the
reference keys of its last drafts (`Named`), what it read before them is in the
table (`Saved`), and no ordinal below a counter is missing from table and chunk
(`NoneMissing`). The last is why `RowsAreClosed` is inductive, which says that a
stored ordinal has all smaller ones stored with it: chunks of several attempts
interleave and end anywhere, and a row is still never stored before its
predecessors. `OrdinalsAreDense` and `DuplicatesSurvive` then follow from facts
on initial segments of the naturals and their cardinality, without induction
over a payload. `ReexportsConverge` is an action property: a save whose keys are
all stored inserts none.

`TransactionListingProofs` proves the five of `TransactionListing`, for every
set of keys and chunks, every number of savers and all page sizes. `LInv`:
every committed row has its legs (`LegsAreThere`); what the client was given is
at or above its cursor, and a row of the snapshot its walk began with was given
or is below the cursor (`Walking`); what a first statement fetched is the top of what was
below the cursor then, so that a row of the first snapshot is either served,
fetched or below all that was fetched (`Answering`). Rows that arrive between
two statements are new, and so not of that snapshot.

`WorkerProcessProofs` proves the types and `ConnectionsComeBack`, for every
prefetch and every pool: `PInv` says for every phase which connections a slot has
or waits for. With it `OnlyTimersBreakWedges` goes through the actions: while a pool
is wedged every holder of a connection waits for another, so no handler has a
step that gives one back. It is the reason why `WedgesBreak` needs the fairness
of `TimeOut` in a wedge, whatever the pool serves.

`DecimalsProofs` proves `AcceptedAmountsSurvive`, for every precision, scale and
set of digits: what `Decimal.from` accepts has no digit above the column's
places (a digit that is not zero is at a place that `countIntegerDigits` counts)
and none below, and the text that comes back names the same digits.
`RefusedAmountsWouldNotSurvive` is the converse: a number that is refused has a
digit outside the column, and would overflow or be rounded there, unless all it
has too much is zeros at its end, as decimal places are counted as written. A
check that were off by one, either way, would break one of the two.

`PayloadReadingProofs` proves the types, `AmountsSurvive` and the refinement of
`ReadContract`, for every payload, batch size and capacity of the parser.
`ReadingInv` adds to the types that a parser at its end was fed every row and a
destroyed one has a cause (`StreamsAreHonest`), that rows the loop has taken
passed their adapter and saved ones the normaliser and the columns, and that a
chunk is full or the last (`RowsAreChecked`); that the adapters' and the
normaliser's checks together are `WellFormed` is what its first lemmas are about,
and that saved rows are `Sound`, storable as well, is `SavedRowsAreSound`.
`OnlyTheseDefectsAreRetried` delimits the finding RetriedDefect: but for the
defects that `RetriedDefect` lists, which are those of section 4,
`DefectsAreNotRetried` holds. `KindsAreKept` says what the streams may have named
as a cause while the loop runs, and that they name no other once it is left.

`WalletRegistrationProofs` proves the types, `OneWallet`, `ReadBackFinds` and
the refinement of `AtomicInserts`, for every set of writers, keys and batches.
`InsertsInv`: a claim is of a running transaction and a key that is not in the
table (`ClaimsAreOpen`); what `returning` has is what a running transaction
claims and what a committed one wrote (`ReturningIsHonest`); a row that was
passed is in the table or claimed by the same transaction
(`PassedRowsAreThere`), which is why the commit of an insert that returned
nothing leaves a row to read back. `BatchesAreSavedWhole` closes the seam to the
pipeline: seen as the table of `ImportStore`, what concurrent inserts do to it
is one `SaveBatch` at a time, and `returning` is the `Inserted` that the pipeline's
workers count by.

The proofs rest on the named assumptions of the modules: finite rows, workers,
slots and chunks, `MaxAttempts`, chunk sizes and the pool at least one (`config.ts`
checks them), and the types of the constants; TLC evaluates them in the runs.

Only model-checked: the liveness properties `PromisesAreKept`, `QueuesDrain`,
`EveryMessageSettles`, `WedgesBreak`, `DrainEnds`, `ReadingEnds` and `EveryInsertEnds`, which
are out of the prover's reach: they need fairness, and `ENABLED` with it. Every
invariant and action property that a passing run checks is proved. Of the four
properties of the violated runs, which the code does not have, the theorems above
prove what is left of them.

## 6. Not modelled

- *Malformed messages.* `publisher.ts` is their only author, and it builds them
  from a job. The branch of `consumer.ts` that parks what does not parse has no
  state of its own; `onDeadLetter` returns without recording anything, so such a
  message would leave its import pending. The hazards of `PROJECT.json` list it.
- *The API's shutdown.* It closes the server, lets requests finish and closes
  the connections: what a drained request does is `Intake`'s. A shutdown that is
  cut short is `CrashApi`.
- *Broken and idle connections of the pool*, which `WorkerProcess` takes for
  failing statements and for connections that are opened again.
- *Status reads*: one row, a tenancy check, no state.
- *The choice among contracts of one ticker* in the asset lookup; `plus`, `minus`
  and `negated` of `Decimal`, which no code of this repository calls.
- *A payload that changes between two attempts.* ADR-0010 asks the store for
  immutable payloads, and the models assume it.
- Configuration, logging, migrations, seeds, test doubles: start-up, I/O and
  test support.

Worth doing next: the seam between `ReadContract` and the attempts of `Worker`, as a
theorem like `BatchesAreSavedWhole`; and, once the verdicts are conditional
updates, `NothingIsLost` after lost channels and the theorems of a lone handler
for any number of them.
