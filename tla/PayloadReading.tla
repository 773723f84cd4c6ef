--------------------------- MODULE PayloadReading ---------------------------
(***************************************************************************)
(* One reading of one payload: runAttempt's loop in process-import.use-    *)
(* case.ts over chunked(adapter.read(...)), with the file stream, the pipe *)
(* and the parser of the CSV adapter running beside it.                    *)
(*                                                                         *)
(* The parser is a bounded buffer between them: it holds the rows from     *)
(* taken + 1 to fed.  A stream that is destroyed delivers no more of what  *)
(* it holds; its iterator throws what it was destroyed with.               *)
(***************************************************************************)
EXTENDS Sources, RetryPolicy

CONSTANTS Payloads,       \* what clients may ask to import
          BatchSize,      \* IMPORT_BATCH_SIZE
          Capacity        \* rows the parser holds before it stops the file

ASSUME ReadingAssumption ==
  /\ Payloads \subseteq Payload
  /\ BatchSize \in Nat \ {0}
  /\ Capacity \in Nat \ {0}

VARIABLES payload,        \* the payload that is read
          file,           \* the file stream
          parser,         \* the parser's stream
          fed,            \* rows the parser has been fed
          taken,          \* rows the loop has taken from the adapter
          saved,          \* rows whose chunk is in the table
          pc,             \* the await the loop is at
          cause,          \* what went wrong first
          thrown          \* what the loop's catch is given

vars == <<payload, file, parser, fed, taken, saved, pc, cause, thrown>>

fileVars == <<payload, file, parser, fed>>

Rows == payload.rows

Errors == {"none", "missing", "unreadable", "storage", "ragged", "unstorable", "statement",
           "validation", "dependency", "invalidValue", "amountOutOfRange",
           "invariantViolation", "unknownAsset"}

Init ==
  /\ payload \in Payloads
  /\ file = "none"
  /\ parser = "open"
  /\ fed = 0 /\ taken = 0 /\ saved = 0
  /\ pc = "open"
  /\ cause = "none"
  /\ thrown = "none"

-----------------------------------------------------------------------------
(* The file and the parser of the CSV adapter.                             *)

IgnoreFailure(e) ==
  /\ file' = "failed"
  /\ UNCHANGED <<parser, cause>>

EndOnFailure(e) ==
  /\ file' = "failed"
  /\ parser' = "ended"
  /\ UNCHANGED cause

(* source.on('error'): pipe forwards no errors, so the adapter destroys    *)
(* the parser.                                                             *)
FailFile(e) ==
  /\ file' = "failed"
  /\ parser' = "destroyed"
  /\ cause' = e

OpenFile ==
  /\ file = "opening"
  /\ \/ /\ payload.ref = "present"
        /\ file' = "open"
        /\ UNCHANGED <<parser, cause>>
     \/ payload.ref \in {"missing", "unreadable"} /\ FailFile(payload.ref)
     \/ FailFile("storage")
  /\ UNCHANGED <<payload, fed, taken, saved, pc, thrown>>

(* The parser turns what it is handed into a row, or destroys itself.      *)
FeedRow ==
  /\ file = "open" /\ parser = "open"
  /\ fed < Len(Rows)
  /\ fed - taken < Capacity
  /\ \/ /\ Rows[fed + 1].shape = "record"
        /\ fed' = fed + 1
        /\ UNCHANGED <<parser, cause>>
     \/ /\ Rows[fed + 1].shape = "ragged"
        /\ parser' = "destroyed"
        /\ cause' = "ragged"
        /\ UNCHANGED fed
  /\ UNCHANGED <<payload, file, taken, saved, pc, thrown>>

EndFile ==
  /\ file = "open" /\ parser = "open"
  /\ fed = Len(Rows)
  /\ file' = "ended"
  /\ parser' = "ended"
  /\ UNCHANGED <<payload, fed, taken, saved, pc, cause, thrown>>

(* The mount goes away under an open file.                                 *)
LoseFile ==
  /\ file = "open" /\ parser = "open"
  /\ FailFile("storage")
  /\ UNCHANGED <<payload, fed, taken, saved, pc, thrown>>

Stream == OpenFile \/ FeedRow \/ EndFile \/ LoseFile

-----------------------------------------------------------------------------
(* The loop.                                                               *)

(* The loop is left, and with it the adapter: the parser is destroyed, the *)
(* file is not.                                                            *)
Throw(e, how) ==
  /\ pc' = "done"
  /\ cause' = IF cause = "none" THEN e ELSE cause
  /\ thrown' = how
  /\ parser' = "destroyed"
  /\ UNCHANGED <<payload, file, fed, taken>>

(* createReadStream opens the file later; resolveRef checks the reference  *)
(* now, outside the adapter's try.                                         *)
OpenCsv ==
  /\ pc = "open" /\ payload.format = "csv"
  /\ \/ /\ payload.ref = "escaping"
        /\ Throw("validation", "validation")
     \/ /\ payload.ref # "escaping"
        /\ file' = "opening"
        /\ pc' = "row"
        /\ UNCHANGED <<payload, parser, fed, taken, cause, thrown>>
  /\ UNCHANGED saved

(* readText: resolveRef and readFile are in one try.  Then the document is *)
(* parsed and checked whole.                                               *)
OpenJson ==
  /\ pc = "open" /\ payload.format = "json"
  /\ \/ payload.ref = "escaping" /\ Throw("validation", ToPayloadError("validation"))
     \/ /\ payload.ref \in {"missing", "unreadable"}
        /\ Throw(payload.ref, ToPayloadError(payload.ref))
     \/ Throw("storage", ToPayloadError("storage"))
     \/ /\ payload.ref = "present"
        /\ DocumentError(payload) # "none"
        /\ Throw("validation", "validation")
     \/ /\ payload.ref = "present"
        /\ DocumentError(payload) = "none"
        /\ fed' = Len(Rows)
        /\ parser' = "ended"
        /\ pc' = "row"
        /\ UNCHANGED <<payload, file, taken, cause, thrown>>
  /\ UNCHANGED saved

(* What leaves adapter.read when its body throws e.                        *)
Caught(e) == IF payload.format = "csv" THEN CatchOfCsv(e) ELSE e

(* chunked passes a full chunk on.                                         *)
TakeRow ==
  /\ pc = "row"
  /\ parser # "destroyed"
  /\ taken < fed
  /\ LET e == RowError(payload, taken + 1) IN
       \/ /\ e = "none"
          /\ taken' = taken + 1
          /\ pc' = IF taken' - saved >= BatchSize THEN "resolve" ELSE "row"
          /\ UNCHANGED <<fileVars, cause, thrown>>
       \/ e # "none" /\ Throw(e, Caught(e))
  /\ UNCHANGED saved

(* The iterator of a destroyed parser throws.                              *)
BreakOff ==
  /\ pc = "row"
  /\ parser = "destroyed"
  /\ Throw(cause, Caught(cause))
  /\ UNCHANGED saved

(* The rows are at their end: chunked passes on what is left, and the loop *)
(* ends when nothing is.                                                   *)
EndRows ==
  /\ pc = "row"
  /\ parser = "ended" /\ taken = fed
  /\ pc' = IF taken > saved THEN "resolve" ELSE "done"
  /\ UNCHANGED <<fileVars, taken, saved, cause, thrown>>

ChunkErrors == {Normalize(Draft(payload, i)) : i \in saved + 1 .. taken} \ {"none"}

(* The asset query, and then normalize, which awaits nothing.              *)
ResolveChunk ==
  /\ pc = "resolve"
  /\ \/ /\ ChunkErrors = {}
        /\ pc' = "save"
        /\ UNCHANGED <<fileVars, taken, cause, thrown>>
     \/ \E e \in ChunkErrors : Throw(e, e)
     \/ Throw("statement", "statement")
  /\ UNCHANGED saved

SaveFullChunk ==
  /\ pc = "save"
  /\ saved' = saved + BatchSize
  /\ pc' = "row"
  /\ UNCHANGED <<fileVars, taken, cause, thrown>>

ChunkIsStorable == \A i \in saved + 1 .. taken : Rows[i].storable

(* saveBatch; its failure may come after its effect.  One row that the     *)
(* columns refuse takes its chunk with it, at every attempt.               *)
SaveChunk ==
  /\ pc = "save"
  /\ \/ /\ ChunkIsStorable
        /\ saved' = taken
        /\ pc' = "row"
        /\ UNCHANGED <<fileVars, taken, cause, thrown>>
     \/ /\ (ChunkIsStorable /\ saved' = taken) \/ UNCHANGED saved
        /\ Throw("statement", "statement")
     \/ /\ ~ChunkIsStorable
        /\ UNCHANGED saved
        /\ Throw("unstorable", "unstorable")

Loop == OpenCsv \/ OpenJson \/ TakeRow \/ BreakOff \/ EndRows \/ ResolveChunk \/ SaveChunk

Next == Stream \/ Loop

Spec == Init /\ [][Next]_vars

-----------------------------------------------------------------------------

TypeOK ==
  /\ payload \in Payload
  /\ file \in {"none", "opening", "open", "ended", "failed"}
  /\ parser \in {"open", "ended", "destroyed"}
  /\ fed \in 0 .. Len(Rows) /\ taken \in 0 .. fed /\ saved \in 0 .. taken
  /\ pc \in {"open", "row", "resolve", "save", "done"}
  /\ cause \in Errors
  /\ thrown \in Errors

(* What is stored of a row is the amounts the payload states, digit for    *)
(* digit, and reading them back never fails: Decimal.from is as strict as  *)
(* the NUMERIC column, which would round without a word (FR-8, ADR-0004).  *)
AmountsSurvive ==
  \A i \in 1 .. saved :
    /\ Survives(Rows[i].baseAmount)
    /\ payload.format = "csv" => Survives(Rows[i].quoteAmount)
    /\ Len(Draft(payload, i).legs) = (IF payload.format = "csv" THEN 3 ELSE 2)
         => Survives(Rows[i].feeAmount)

-----------------------------------------------------------------------------
(* A sound row, said without the adapters: amounts that the column holds   *)
(* and that are positive, known assets, a side, an instant, and nothing    *)
(* else that a column refuses.                                             *)

Known(symbol) ==
  [symbol |-> symbol,
   chain  |-> IF payload.format = "csv" THEN NoChain ELSE payload.chain] \in Registry

IsAmount(cell) == cell \in Text /\ From(cell) = "none"

IsQuantity(cell) == IsAmount(cell) /\ IsPositive(ValueOf(cell))

SoundFee(row) ==
  \/ row.feeAmount = Empty \/ row.feeAsset = Empty
  \/ IsQuantity(row.feeAmount) /\ Known(row.feeAsset)
  \/ IsAmount(row.feeAmount) /\ ~IsPositive(ValueOf(row.feeAmount))

(* Sound for its adapter and the rules, which look at no more than this.   *)
WellFormed(row) ==
  /\ row.shape = "record"
  /\ Known(row.base) /\ IsQuantity(row.baseAmount)
  /\ SoundFee(row)
  /\ row.instant = "valid"
  /\ \/ /\ payload.format = "csv"
        /\ row.side \in {"buy", "sell"}
        /\ Known(row.quote) /\ IsQuantity(row.quoteAmount)
     \/ payload.format = "json" /\ row.side \in {"in", "out"}

Sound(row) == WellFormed(row) /\ row.storable

Readable ==
  /\ payload.ref = "present"
  /\ payload.format = "json" => DocumentError(payload) = "none"

Verdict ==
  IF pc # "done" THEN "open"
  ELSE IF thrown = "none" THEN "completed"
  ELSE IF IsRetryable(ClassOf(thrown)) THEN "retry"
  ELSE "failed"

Contract == INSTANCE ReadContract WITH
  readable <- Readable,
  sound    <- [i \in DOMAIN Rows |-> Sound(Rows[i])],
  saved    <- saved,
  verdict  <- Verdict

(* Whatever the file, the parser and the database do, a reading is one the *)
(* pipeline can build on: nothing unsound is stored, nothing is left out   *)
(* of a completed import, and no payload is refused for the world's fault. *)
KeepsContract == Contract!Spec

(* Malformed payloads, unknown sources and unknown assets fail immediately *)
(* without consuming retries (FR-12).                                      *)
DefectsAreNotRetried ==
  pc = "done" /\ cause \notin {"none", "storage", "statement"}
    => ~IsRetryable(ClassOf(thrown))

-----------------------------------------------------------------------------

(* Node goes on with an open stream, and the loop with what it awaits.     *)
Fairness == WF_vars(OpenFile \/ FeedRow \/ EndFile) /\ WF_vars(Loop)

FairSpec == Spec /\ Fairness

(* Every reading ends: the loop is not left waiting for rows of a file     *)
(* that failed, and file and parser do not wait for one another.           *)
ReadingEnds == <>(pc = "done")

=============================================================================
