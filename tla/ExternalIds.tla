----------------------------- MODULE ExternalIds -----------------------------
(***************************************************************************)
(* The natural keys of one wallet's transactions:                          *)
(* packages/domain/src/normalization/external-id.ts and normalize.ts, as   *)
(* an attempt of process-import.use-case.ts uses them.                     *)
(*                                                                         *)
(* A draft with an id of its source keeps it.  Any other is named by its   *)
(* content and by how many drafts of that content its payload had before,  *)
(* which an attempt counts as it reads, across the chunks it saves.        *)
(* The wallet and its source type enter every content and are the same     *)
(* throughout; a hash is injective, and stands for what it hashes.         *)
(***************************************************************************)
EXTENDS Integers, FiniteSets, Sequences, Functions

CONSTANTS Imports,      \* imports of the wallet
          Attempts,     \* places where an attempt may run
          Events,       \* occurrence times and kinds
          Legs,         \* a direction, an asset and a canonical quantity
          SourceIds,
          NoId,         \* the source gives none
          NoImport,
          Payload,      \* the drafts of an import, in the order of its file
          BatchSizes    \* the chunk sizes that deployments have used

Draft == [sourceId : SourceIds \cup {NoId}, event : Events, legs : Seq(Legs)]

ASSUME NormalizationAssumption ==
  /\ Payload \in [Imports -> Seq(Draft)]
  /\ BatchSizes \subseteq Nat \ {0}
  /\ NoImport \notin Imports

VARIABLES running,      \* the import an attempt works on
          size,         \* its chunk size
          read,         \* how many drafts it has read
          occurrences,  \* how often its normalizer has met each content
          batch,        \* the keys of the chunk it collects
          imported,     \* how many rows it has inserted
          rows,         \* the keys of the wallet's transactions
          completed     \* imports some attempt has completed

vars == <<running, size, read, occurrences, batch, imported, rows, completed>>

-----------------------------------------------------------------------------
(* What identifies a draft without an id: the order of its legs does not.  *)
CanonicalContent(d) ==
  <<d.event, [leg \in Range(d.legs) |-> Cardinality({n \in DOMAIN d.legs : d.legs[n] = leg})]>>

ContentsOf(p) == {CanonicalContent(p[n]) : n \in DOMAIN p}

Contents == UNION {ContentsOf(Payload[i]) : i \in Imports}

DerivedId(content, ordinal) == <<"derived", content, ordinal>>

SourceId(id) == <<"source", id>>

ExternalId == ({"source"} \X SourceIds) \cup ({"derived"} \X Contents \X Nat)

NothingSeen == [c \in Contents |-> 0]

TypeOK ==
  /\ running \in [Attempts -> Imports \cup {NoImport}]
  /\ size \in [Attempts -> BatchSizes]
  /\ read \in [Attempts -> Nat]
  /\ occurrences \in [Attempts -> [Contents -> Nat]]
  /\ batch \in [Attempts -> Seq(ExternalId)]
  /\ imported \in [Attempts -> Nat]
  /\ rows \in SUBSET ExternalId /\ IsFiniteSet(rows)
  /\ completed \subseteq Imports

Init ==
  /\ running = [a \in Attempts |-> NoImport]
  /\ size \in [Attempts -> BatchSizes]
  /\ read = [a \in Attempts |-> 0]
  /\ occurrences = [a \in Attempts |-> NothingSeen]
  /\ batch = [a \in Attempts |-> <<>>]
  /\ imported = [a \in Attempts |-> 0]
  /\ rows = {}
  /\ completed = {}

-----------------------------------------------------------------------------
Active(a) == running[a] # NoImport

Drafts(a) == Payload[running[a]]

(* The import may be one that another attempt works on, or has completed.  *)
BeginAttempt(a) ==
  /\ ~Active(a)
  /\ \E i \in Imports, n \in BatchSizes :
       /\ running' = [running EXCEPT ![a] = i]
       /\ size' = [size EXCEPT ![a] = n]
  /\ UNCHANGED <<read, occurrences, batch, imported, rows, completed>>

EndAttemptKeepingCounter(a) ==
  /\ running' = [running EXCEPT ![a] = NoImport]
  /\ read' = [read EXCEPT ![a] = 0]
  /\ batch' = [batch EXCEPT ![a] = <<>>]
  /\ imported' = [imported EXCEPT ![a] = 0]
  /\ UNCHANGED <<size, occurrences>>

(* An attempt's normalizer, its chunk and its counts end with it.          *)
EndAttempt(a) ==
  /\ running' = [running EXCEPT ![a] = NoImport]
  /\ read' = [read EXCEPT ![a] = 0]
  /\ occurrences' = [occurrences EXCEPT ![a] = NothingSeen]
  /\ batch' = [batch EXCEPT ![a] = <<>>]
  /\ imported' = [imported EXCEPT ![a] = 0]
  /\ UNCHANGED size

NextDraft(a) == Drafts(a)[read[a] + 1]

CanRead(a) ==
  /\ Active(a)
  /\ read[a] < Len(Drafts(a))
  /\ Len(batch[a]) < size[a]

Collect(a, id) ==
  /\ read' = [read EXCEPT ![a] = @ + 1]
  /\ batch' = [batch EXCEPT ![a] = Append(@, id)]
  /\ UNCHANGED <<running, size, imported, rows, completed>>

AssignSourceId(a) ==
  /\ CanRead(a)
  /\ NextDraft(a).sourceId # NoId
  /\ Collect(a, SourceId(NextDraft(a).sourceId))
  /\ UNCHANGED occurrences

AssignContentOnly(a) ==
  /\ CanRead(a)
  /\ NextDraft(a).sourceId = NoId
  /\ Collect(a, DerivedId(CanonicalContent(NextDraft(a)), 0))
  /\ UNCHANGED occurrences

AssignRowIndex(a) ==
  /\ CanRead(a)
  /\ NextDraft(a).sourceId = NoId
  /\ Collect(a, DerivedId(CanonicalContent(NextDraft(a)), read[a]))
  /\ UNCHANGED occurrences

AssignDerivedId(a) ==
  LET content == CanonicalContent(NextDraft(a)) IN
  /\ CanRead(a)
  /\ NextDraft(a).sourceId = NoId
  /\ Collect(a, DerivedId(content, occurrences[a][content]))
  /\ occurrences' = [occurrences EXCEPT ![a][content] = @ + 1]

(* A chunk is saved when it is full, and at the end of the payload.        *)
ChunkReady(a) ==
  /\ Active(a)
  /\ batch[a] # <<>>
  /\ Len(batch[a]) = size[a] \/ read[a] = Len(Drafts(a))

NewRows(a) == Range(batch[a]) \ rows

SaveBatchSubtracting(a) ==
  /\ ChunkReady(a)
  /\ rows' = rows \cup NewRows(a)
  /\ imported' = [imported EXCEPT ![a] = @ + Cardinality(NewRows(a)) - Len(batch[a])]
  /\ batch' = [batch EXCEPT ![a] = <<>>]
  /\ UNCHANGED <<running, size, read, occurrences, completed>>

SaveBatchAndForget(a) ==
  /\ ChunkReady(a)
  /\ rows' = rows \cup NewRows(a)
  /\ imported' = [imported EXCEPT ![a] = @ + Cardinality(NewRows(a))]
  /\ batch' = [batch EXCEPT ![a] = <<>>]
  /\ occurrences' = [occurrences EXCEPT ![a] = NothingSeen]
  /\ UNCHANGED <<running, size, read, completed>>

SaveBatch(a) ==
  /\ ChunkReady(a)
  /\ rows' = rows \cup NewRows(a)
  /\ imported' = [imported EXCEPT ![a] = @ + Cardinality(NewRows(a))]
  /\ batch' = [batch EXCEPT ![a] = <<>>]
  /\ UNCHANGED <<running, size, read, occurrences, completed>>

(* An attempt ends wherever it stands: a draft that cannot be read or      *)
(* normalised, an error of the database, a crash.                          *)
AbandonAttempt(a) ==
  /\ Active(a)
  /\ EndAttempt(a)
  /\ UNCHANGED <<rows, completed>>

(* The chunk is committed and the attempt does not live to hear of it.     *)
SaveUnheard(a) ==
  /\ ChunkReady(a)
  /\ rows' = rows \cup NewRows(a)
  /\ EndAttempt(a)
  /\ UNCHANGED completed

CompleteImport(a) ==
  /\ Active(a)
  /\ read[a] = Len(Drafts(a))
  /\ batch[a] = <<>>
  /\ completed' = completed \cup {running[a]}
  /\ EndAttempt(a)
  /\ UNCHANGED rows

Next ==
  \E a \in Attempts :
    \/ BeginAttempt(a)
    \/ AssignSourceId(a)
    \/ AssignDerivedId(a)
    \/ SaveBatch(a)
    \/ AbandonAttempt(a)
    \/ SaveUnheard(a)
    \/ CompleteImport(a)

Spec == Init /\ [][Next]_vars

-----------------------------------------------------------------------------
(* What the keys of a payload should be, without any attempt.              *)

Derived(p) == {n \in DOMAIN p : p[n].sourceId = NoId}

(* The drafts of one content among the first n.                            *)
Alike(p, content, n) == {m \in Derived(p) : m <= n /\ CanonicalContent(p[m]) = content}

ReferenceId(p, n) ==
  IF n \in Derived(p)
    THEN DerivedId(CanonicalContent(p[n]),
                   Cardinality(Alike(p, CanonicalContent(p[n]), n - 1)))
    ELSE SourceId(p[n].sourceId)

(* Chunking is an execution detail: whatever the chunk size, and whatever  *)
(* earlier attempts did, the key of a draft depends on its payload alone   *)
(* (normalize.ts, createImportNormalizer).                                 *)
ChunkingIsInvisible ==
  \A a \in Attempts : Active(a) =>
    \A n \in DOMAIN batch[a] :
      batch[a][n] = ReferenceId(Drafts(a), read[a] - Len(batch[a]) + n)

StoredOf(content) == {id \in rows : id[1] = "derived" /\ id[2] = content}

(* Genuine duplicates are preserved (FR-7): a completed import has stored  *)
(* at least as many rows of a content as its payload has drafts of it      *)
(* without an id.                                                          *)
GenuineDuplicatesSurvive ==
  \A i \in completed, c \in Contents :
    Cardinality(StoredOf(c)) >= Cardinality(Alike(Payload[i], c, Len(Payload[i])))

(* The rows of one content are numbered from zero without a gap, whichever *)
(* attempts of whichever imports stored them and wherever they ended: this *)
(* is what lets a longer export continue where a shorter one stopped.      *)
OrdinalsHaveNoGaps ==
  \A c \in Contents :
    {id[3] : id \in StoredOf(c)} = 0 .. Cardinality(StoredOf(c)) - 1

(* Everything one payload holds, another holds too, in any order.          *)
CoveredBy(p, q) ==
  /\ \A n \in DOMAIN p \ Derived(p) :
       \E m \in DOMAIN q : q[m].sourceId = p[n].sourceId
  /\ \A n \in Derived(p) :
       Cardinality(Alike(p, CanonicalContent(p[n]), Len(p)))
         <= Cardinality(Alike(q, CanonicalContent(p[n]), Len(q)))

(* A replay, and a new export of rows already imported, report no newly    *)
(* inserted row: the order of the rows and of their legs does not matter   *)
(* (docs/adr/0007-layered-idempotency.md, Consequences and Alternatives).  *)
ReexportAddsNothing ==
  [][\A a \in Attempts :
       Active(a) /\ (\E i \in completed : CoveredBy(Drafts(a), Payload[i]))
         => imported'[a] <= imported[a]]_vars

=============================================================================
