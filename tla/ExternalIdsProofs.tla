-------------------------- MODULE ExternalIdsProofs --------------------------
(***************************************************************************)
(* Proofs about ExternalIds, for every set of imports, whatever their      *)
(* payloads, every number of attempts and every chunk size.                *)
(***************************************************************************)
EXTENDS ExternalIds, FiniteSetTheorems, TLAPS

(* The drafts of one content are finitely many.                            *)
LEMMA AlikeIsFinite ==
  ASSUME NEW p \in Seq(Draft), NEW c, NEW n \in Nat
  PROVE  /\ IsFiniteSet(Alike(p, c, n))
         /\ Cardinality(Alike(p, c, n)) \in Nat
<1>1. IsFiniteSet(1 .. Len(p))
  BY FS_Interval
<1>2. Alike(p, c, n) \in SUBSET (1 .. Len(p))
  BY DEF Alike, Derived
<1>3. QED
  BY <1>1, <1>2, FS_Subset, FS_CardinalityType

LEMMA NoneAlikeAtStart ==
  ASSUME NEW p \in Seq(Draft), NEW c
  PROVE  Cardinality(Alike(p, c, 0)) = 0
<1>1. Alike(p, c, 0) = {}
  BY DEF Alike, Derived
<1>2. QED
  BY <1>1, FS_EmptySet

(* Reading one draft more counts it where it belongs, and nowhere else.    *)
LEMMA AlikeGrowsByOne ==
  ASSUME NEW p \in Seq(Draft), NEW c, NEW n \in Nat, n < Len(p)
  PROVE  Cardinality(Alike(p, c, n + 1)) =
           IF p[n + 1].sourceId = NoId /\ CanonicalContent(p[n + 1]) = c
             THEN Cardinality(Alike(p, c, n)) + 1
             ELSE Cardinality(Alike(p, c, n))
<1>1. n + 1 \in DOMAIN p /\ n + 1 \notin Alike(p, c, n)
  BY DEF Alike
<1>2. CASE p[n + 1].sourceId = NoId /\ CanonicalContent(p[n + 1]) = c
  <2>1. Alike(p, c, n + 1) = Alike(p, c, n) \cup {n + 1}
    BY <1>1, <1>2 DEF Alike, Derived
  <2>2. QED
    BY <1>1, <1>2, <2>1, AlikeIsFinite, FS_AddElement
<1>3. CASE ~(p[n + 1].sourceId = NoId /\ CanonicalContent(p[n + 1]) = c)
  <2>1. Alike(p, c, n + 1) = Alike(p, c, n)
    BY <1>1, <1>3 DEF Alike, Derived
  <2>2. QED
    BY <1>3, <2>1
<1>4. QED
  BY <1>2, <1>3

LEMMA AlikeIsMonotone ==
  ASSUME NEW p \in Seq(Draft), NEW c, NEW m \in Nat, NEW n \in Nat, m <= n
  PROVE  Cardinality(Alike(p, c, m)) <= Cardinality(Alike(p, c, n))
<1>1. Alike(p, c, m) \in SUBSET Alike(p, c, n)
  BY DEF Alike, Derived
<1>2. QED
  BY <1>1, AlikeIsFinite, FS_Subset

(* Two drafts of one content have two ordinals, both below their number.   *)
LEMMA OrdinalsDiffer ==
  ASSUME NEW p \in Seq(Draft), NEW c,
         NEW m \in Alike(p, c, Len(p)), NEW n \in Alike(p, c, Len(p)), m < n
  PROVE  Cardinality(Alike(p, c, m - 1)) < Cardinality(Alike(p, c, n - 1))
<1>1. m \in 1 .. Len(p) /\ n \in 1 .. Len(p)
  BY DEF Alike, Derived
<1>2. p[m].sourceId = NoId /\ CanonicalContent(p[m]) = c
  BY DEF Alike, Derived
<1>3. Cardinality(Alike(p, c, m)) = Cardinality(Alike(p, c, m - 1)) + 1
  <2>1. m - 1 \in Nat /\ m - 1 < Len(p) /\ (m - 1) + 1 = m
    BY <1>1
  <2>2. QED
    BY <1>2, <2>1, AlikeGrowsByOne
<1>4. Cardinality(Alike(p, c, m)) <= Cardinality(Alike(p, c, n - 1))
  BY <1>1, AlikeIsMonotone
<1>5. QED
  BY <1>1, <1>3, <1>4, AlikeIsFinite

LEMMA OrdinalIsBelowCount ==
  ASSUME NEW p \in Seq(Draft), NEW n \in DOMAIN p, p[n].sourceId = NoId,
         NEW m \in Nat, n <= m
  PROVE  Cardinality(Alike(p, CanonicalContent(p[n]), n - 1))
           < Cardinality(Alike(p, CanonicalContent(p[n]), m))
<1> DEFINE c == CanonicalContent(p[n])
<1>1. n - 1 \in Nat /\ n - 1 < Len(p) /\ (n - 1) + 1 = n /\ n \in Nat
  OBVIOUS
<1>2. Cardinality(Alike(p, c, n)) = Cardinality(Alike(p, c, n - 1)) + 1
  BY <1>1, AlikeGrowsByOne
<1>3. Cardinality(Alike(p, c, n)) <= Cardinality(Alike(p, c, m))
  BY <1>1, AlikeIsMonotone
<1>4. QED
  BY <1>1, <1>2, <1>3, AlikeIsFinite

(* A downward closed finite set of numbers is an initial segment.          *)
LEMMA InitialSegment ==
  ASSUME NEW S \in SUBSET Nat, IsFiniteSet(S),
         \A k \in S : \A m \in Nat : m < k => m \in S
  PROVE  S = 0 .. Cardinality(S) - 1
<1>1. Cardinality(S) \in Nat
  BY FS_CardinalityType
<1>2. ASSUME NEW k \in S PROVE k <= Cardinality(S) - 1
  <2>1. 0 .. k \in SUBSET S
    OBVIOUS
  <2>2. Cardinality(0 .. k) <= Cardinality(S)
    BY <2>1, FS_Subset
  <2>3. Cardinality(0 .. k) = k + 1
    BY FS_Interval
  <2>4. QED
    BY <1>1, <2>2, <2>3
<1>3. S \in SUBSET (0 .. Cardinality(S) - 1)
  BY <1>1, <1>2
<1>4. /\ IsFiniteSet(0 .. Cardinality(S) - 1)
      /\ Cardinality(0 .. Cardinality(S) - 1) = Cardinality(S)
  <2>1. 0 \in Int /\ Cardinality(S) - 1 \in Int
    BY <1>1
  <2>2. QED
    BY <1>1, <2>1, FS_Interval
<1>5. QED
  BY <1>3, <1>4, FS_Subset

(* What an import's payload holds.                                         *)
LEMMA PayloadTypes ==
  ASSUME NEW i \in Imports
  PROVE  /\ Payload[i] \in Seq(Draft)
         /\ Len(Payload[i]) \in Nat
         /\ \A n \in DOMAIN Payload[i] :
              /\ Payload[i][n].sourceId \in SourceIds \cup {NoId}
              /\ CanonicalContent(Payload[i][n]) \in Contents
<1>1. Payload[i] \in Seq(Draft)
  BY NormalizationAssumption
<1>2. ASSUME NEW n \in DOMAIN Payload[i]
      PROVE  /\ Payload[i][n].sourceId \in SourceIds \cup {NoId}
             /\ CanonicalContent(Payload[i][n]) \in Contents
  <2>1. Payload[i][n] \in Draft
    BY <1>1
  <2>2. CanonicalContent(Payload[i][n]) \in ContentsOf(Payload[i])
    BY DEF ContentsOf
  <2>3. QED
    BY <2>1, <2>2 DEF Draft, Contents
<1>3. QED
  BY <1>1, <1>2

-----------------------------------------------------------------------------
(* The inductive invariant.                                                *)

Progress(a) ==
  Active(a) => read[a] <= Len(Drafts(a)) /\ Len(batch[a]) <= read[a]

Idle(a) ==
  ~Active(a) => read[a] = 0 /\ batch[a] = <<>> /\ occurrences[a] = NothingSeen

(* The normalizer's counters are those of the drafts read.                 *)
Counted(a) ==
  Active(a) => \A c \in Contents :
                 occurrences[a][c] = Cardinality(Alike(Drafts(a), c, read[a]))

Named(a) ==
  Active(a) => \A n \in DOMAIN batch[a] :
                 batch[a][n] = ReferenceId(Drafts(a), read[a] - Len(batch[a]) + n)

(* What is read and no longer in the chunk is stored.                      *)
Saved(a) ==
  Active(a) => \A n \in 1 .. read[a] - Len(batch[a]) : ReferenceId(Drafts(a), n) \in rows

(* Every ordinal given out so far is stored or in the chunk.               *)
NoneMissing(a) ==
  Active(a) => \A c \in Contents, k \in Nat :
                 k < occurrences[a][c] => DerivedId(c, k) \in rows \cup Range(batch[a])

AttemptInv(a) ==
  Progress(a) /\ Idle(a) /\ Counted(a) /\ Named(a) /\ Saved(a) /\ NoneMissing(a)

CompletedAreStored ==
  \A i \in completed : \A n \in DOMAIN Payload[i] : ReferenceId(Payload[i], n) \in rows

RowsAreClosed ==
  \A c \in Contents, k \in Nat :
    DerivedId(c, k) \in rows => \A m \in Nat : m < k => DerivedId(c, m) \in rows

IInv == TypeOK /\ (\A a \in Attempts : AttemptInv(a)) /\ CompletedAreStored /\ RowsAreClosed

LEMMA InitHolds == Init => IInv
<1> SUFFICES ASSUME Init PROVE IInv
  OBVIOUS
<1>1. TypeOK
  <2>1. IsFiniteSet(rows)
    BY FS_EmptySet DEF Init
  <2>2. NothingSeen \in [Contents -> Nat]
    BY DEF NothingSeen
  <2>3. QED
    BY <2>1, <2>2 DEF Init, TypeOK
<1>2. ASSUME NEW a \in Attempts PROVE AttemptInv(a)
  BY <1>2 DEF Init, AttemptInv, Progress, Idle, Counted, Named, Saved, NoneMissing, Active
<1>3. CompletedAreStored /\ RowsAreClosed
  BY DEF Init, CompletedAreStored, RowsAreClosed
<1>4. QED
  BY <1>1, <1>2, <1>3 DEF IInv

(* What an active attempt reads, with its types.                           *)
LEMMA ReadingTypes ==
  ASSUME TypeOK, NEW a \in Attempts, Active(a)
  PROVE  /\ running[a] \in Imports
         /\ Drafts(a) \in Seq(Draft)
         /\ Len(Drafts(a)) \in Nat
         /\ read[a] \in Nat
         /\ batch[a] \in Seq(ExternalId)
         /\ Len(batch[a]) \in Nat
         /\ occurrences[a] \in [Contents -> Nat]
<1>1. running[a] \in Imports
  BY DEF TypeOK, Active
<1>2. Drafts(a) \in Seq(Draft) /\ Len(Drafts(a)) \in Nat
  BY <1>1, PayloadTypes DEF Drafts
<1>3. batch[a] \in Seq(ExternalId) /\ Len(batch[a]) \in Nat
  BY DEF TypeOK
<1>4. QED
  BY <1>1, <1>2, <1>3 DEF TypeOK

(* An attempt keeps its invariant while others store rows.                 *)
LEMMA RowsOnlyHelp ==
  ASSUME NEW a \in Attempts, AttemptInv(a), rows \subseteq rows',
         running'[a] = running[a], read'[a] = read[a], batch'[a] = batch[a],
         occurrences'[a] = occurrences[a]
  PROVE  AttemptInv(a)'
<1>1. (Active(a))' = Active(a) /\ (Active(a) => Drafts(a)' = Drafts(a))
  BY DEF Active, Drafts
<1>2. Progress(a)' /\ Idle(a)'
  BY <1>1 DEF AttemptInv, Progress, Idle
<1>3. Counted(a)' /\ Named(a)'
  BY <1>1 DEF AttemptInv, Counted, Named
<1>4. Saved(a)' /\ NoneMissing(a)'
  BY <1>1 DEF AttemptInv, Saved, NoneMissing
<1>5. QED
  BY <1>2, <1>3, <1>4 DEF AttemptInv

(* An attempt that ended, or that has not begun, has nothing to show.      *)
LEMMA RestingInv ==
  ASSUME NEW a \in Attempts, running'[a] = NoImport, read'[a] = 0, batch'[a] = <<>>,
         occurrences'[a] = NothingSeen
  PROVE  AttemptInv(a)'
BY DEF AttemptInv, Progress, Idle, Counted, Named, Saved, NoneMissing, Active

LEMMA StartingInv ==
  ASSUME NEW a \in Attempts, running'[a] \in Imports, read'[a] = 0, batch'[a] = <<>>,
         occurrences'[a] = NothingSeen
  PROVE  AttemptInv(a)'
<1>1. (Active(a))'
  BY NormalizationAssumption DEF Active
<1>2. Drafts(a)' \in Seq(Draft)
  BY PayloadTypes DEF Drafts
<1>3. Counted(a)'
  BY <1>2, NoneAlikeAtStart DEF Counted, NothingSeen
<1>4. Progress(a)' /\ Named(a)'
  BY <1>2 DEF Progress, Named
<1>5. Idle(a)' /\ Saved(a)' /\ NoneMissing(a)'
  BY <1>1 DEF Idle, Saved, NoneMissing, NothingSeen
<1>6. QED
  BY <1>3, <1>4, <1>5 DEF AttemptInv

(* Collecting a key is right if the key is, and if the counters follow.    *)
LEMMA CollectKeeps ==
  ASSUME TypeOK, NEW a \in Attempts, AttemptInv(a), CanRead(a),
         NEW id \in ExternalId, Collect(a, id),
         id = ReferenceId(Drafts(a), read[a] + 1),
         Counted(a)', NoneMissing(a)'
  PROVE  AttemptInv(a)'
<1> DEFINE p == Drafts(a)
<1>1. Active(a) /\ (Active(a))' /\ Drafts(a)' = p
  BY DEF CanRead, Collect, Active, Drafts
<1>2. /\ p \in Seq(Draft) /\ Len(p) \in Nat /\ read[a] \in Nat
      /\ batch[a] \in Seq(ExternalId) /\ Len(batch[a]) \in Nat
  BY <1>1, ReadingTypes
<1>3. read'[a] = read[a] + 1 /\ batch'[a] = Append(batch[a], id) /\ rows' = rows
  BY DEF Collect, TypeOK
<1>4. Len(batch'[a]) = Len(batch[a]) + 1
  BY <1>2, <1>3
<1>5. Progress(a)'
  BY <1>1, <1>2, <1>3, <1>4 DEF AttemptInv, Progress, CanRead
<1>6. Named(a)'
  <2>1. ASSUME NEW n \in DOMAIN batch'[a]
        PROVE  batch'[a][n] = ReferenceId(p, read'[a] - Len(batch'[a]) + n)
    <3>1. n \in 1 .. Len(batch[a]) + 1
      BY <1>2, <1>3
    <3>2. read'[a] - Len(batch'[a]) + n = read[a] - Len(batch[a]) + n
      BY <1>2, <1>3, <1>4, <3>1
    <3>3. CASE n = Len(batch[a]) + 1
      <4>1. batch'[a][n] = id
        BY <1>2, <1>3, <3>3
      <4>2. read[a] - Len(batch[a]) + n = read[a] + 1
        BY <1>2, <3>3
      <4>3. QED
        BY <3>2, <4>1, <4>2
    <3>4. CASE n \in 1 .. Len(batch[a])
      <4>1. batch'[a][n] = batch[a][n]
        BY <1>2, <1>3, <3>4
      <4>2. QED
        BY <1>1, <1>2, <3>2, <3>4, <4>1 DEF AttemptInv, Named
    <3>5. QED
      BY <1>2, <3>1, <3>3, <3>4
  <2>2. QED
    BY <1>1, <2>1 DEF Named
<1>7. Saved(a)'
  <2>1. read'[a] - Len(batch'[a]) = read[a] - Len(batch[a])
    <3>1. read'[a] = read[a] + 1
      BY <1>3
    <3>2. QED
      BY <1>2, <1>4, <3>1
  <2>2. QED
    BY <1>1, <1>3, <2>1 DEF AttemptInv, Saved
<1>8. Idle(a)'
  BY <1>1 DEF Idle
<1>9. QED
  BY <1>5, <1>6, <1>7, <1>8 DEF AttemptInv

LEMMA AppendRange ==
  ASSUME NEW S, NEW s \in Seq(S), NEW x
  PROVE  Range(s) \subseteq Range(Append(s, x)) /\ x \in Range(Append(s, x))
<1>1. /\ DOMAIN Append(s, x) = 1 .. Len(s) + 1 /\ DOMAIN s = 1 .. Len(s) /\ Len(s) \in Nat
      /\ Append(s, x)[Len(s) + 1] = x
      /\ \A n \in 1 .. Len(s) : Append(s, x)[n] = s[n]
  OBVIOUS
<1>2. QED
  BY <1>1 DEF Range

LEMMA SourceIdKeeps ==
  ASSUME TypeOK, NEW a \in Attempts, AttemptInv(a), AssignSourceId(a)
  PROVE  AttemptInv(a)'
<1> DEFINE p == Drafts(a)
           id == SourceId(NextDraft(a).sourceId)
<1>1. Active(a) /\ CanRead(a) /\ Collect(a, id) /\ NextDraft(a).sourceId # NoId
  BY DEF AssignSourceId, CanRead
<1>2. /\ running[a] \in Imports /\ p \in Seq(Draft) /\ Len(p) \in Nat /\ read[a] \in Nat
      /\ batch[a] \in Seq(ExternalId)
  BY <1>1, ReadingTypes
<1>3. (Active(a))' /\ Drafts(a)' = p
  BY <1>1 DEF Collect, Active, Drafts
<1>4. read[a] < Len(p) /\ read[a] + 1 \in DOMAIN p /\ NextDraft(a) = p[read[a] + 1]
  BY <1>1, <1>2 DEF CanRead, NextDraft
<1>5. id \in ExternalId
  BY <1>1, <1>2, <1>4, PayloadTypes DEF Drafts, SourceId, ExternalId
<1>6. id = ReferenceId(p, read[a] + 1)
  BY <1>1, <1>4 DEF ReferenceId, Derived
<1>7. read'[a] = read[a] + 1 /\ batch'[a] = Append(batch[a], id) /\ rows' = rows
      /\ occurrences' = occurrences
  BY <1>1 DEF Collect, TypeOK, AssignSourceId
<1>8. Counted(a)'
  <2>1. ASSUME NEW c \in Contents
        PROVE  occurrences'[a][c] = Cardinality(Alike(p, c, read'[a]))
    <3>1. Cardinality(Alike(p, c, read[a] + 1)) = Cardinality(Alike(p, c, read[a]))
      BY <1>1, <1>2, <1>4, AlikeGrowsByOne
    <3>2. occurrences[a][c] = Cardinality(Alike(p, c, read[a]))
      BY <1>1 DEF AttemptInv, Counted
    <3>3. QED
      BY <1>7, <3>1, <3>2
  <2>2. QED
    BY <1>3, <2>1 DEF Counted
<1>9. NoneMissing(a)'
  <2>1. Range(batch[a]) \subseteq Range(batch'[a])
    BY <1>2, <1>7, AppendRange
  <2>2. QED
    BY <1>1, <1>7, <2>1 DEF AttemptInv, NoneMissing
<1>10. QED
  BY <1>1, <1>5, <1>6, <1>8, <1>9, CollectKeeps

LEMMA DerivedIdKeeps ==
  ASSUME TypeOK, NEW a \in Attempts, AttemptInv(a), AssignDerivedId(a)
  PROVE  AttemptInv(a)'
<1> DEFINE p == Drafts(a)
           content == CanonicalContent(NextDraft(a))
           id == DerivedId(content, occurrences[a][content])
<1>1. Active(a) /\ CanRead(a) /\ Collect(a, id) /\ NextDraft(a).sourceId = NoId
  BY DEF AssignDerivedId, CanRead
<1>2. /\ running[a] \in Imports /\ p \in Seq(Draft) /\ Len(p) \in Nat /\ read[a] \in Nat
      /\ batch[a] \in Seq(ExternalId) /\ occurrences[a] \in [Contents -> Nat]
  BY <1>1, ReadingTypes
<1>3. (Active(a))' /\ Drafts(a)' = p
  BY <1>1 DEF Collect, Active, Drafts
<1>4. read[a] < Len(p) /\ read[a] + 1 \in DOMAIN p /\ NextDraft(a) = p[read[a] + 1]
  BY <1>1, <1>2 DEF CanRead, NextDraft
<1>5. content \in Contents
  BY <1>2, <1>4, PayloadTypes DEF Drafts
<1>6. id \in ExternalId
  BY <1>2, <1>5 DEF DerivedId, ExternalId
<1>7. \A c \in Contents : occurrences[a][c] = Cardinality(Alike(p, c, read[a]))
  BY <1>1 DEF AttemptInv, Counted
<1>8. id = ReferenceId(p, read[a] + 1)
  <2>1. read[a] + 1 \in Derived(p) /\ (read[a] + 1) - 1 = read[a]
    BY <1>1, <1>2, <1>4 DEF Derived
  <2>2. QED
    BY <1>4, <1>5, <1>7, <2>1 DEF ReferenceId
<1>9. read'[a] = read[a] + 1 /\ batch'[a] = Append(batch[a], id) /\ rows' = rows
  BY <1>1 DEF Collect, TypeOK
<1>10. occurrences'[a] = [occurrences[a] EXCEPT ![content] = @ + 1]
  BY DEF AssignDerivedId, TypeOK
<1>11. Counted(a)'
  <2>1. ASSUME NEW c \in Contents
        PROVE  occurrences'[a][c] = Cardinality(Alike(p, c, read[a] + 1))
    <3>1. Cardinality(Alike(p, c, read[a] + 1)) =
            IF content = c THEN Cardinality(Alike(p, c, read[a])) + 1
                           ELSE Cardinality(Alike(p, c, read[a]))
      BY <1>1, <1>2, <1>4, AlikeGrowsByOne
    <3>2. occurrences'[a][c] = IF content = c THEN occurrences[a][c] + 1 ELSE occurrences[a][c]
      BY <1>2, <1>10
    <3>3. QED
      BY <1>7, <3>1, <3>2
  <2>2. QED
    BY <1>3, <1>9, <2>1 DEF Counted
<1>12. NoneMissing(a)'
  <2>1. Range(batch[a]) \subseteq Range(batch'[a]) /\ id \in Range(batch'[a])
    BY <1>2, <1>9, AppendRange
  <2>2. ASSUME NEW c \in Contents, NEW k \in Nat, k < occurrences'[a][c]
        PROVE  DerivedId(c, k) \in rows \cup Range(batch'[a])
    <3>1. CASE k < occurrences[a][c]
      BY <1>1, <2>1, <3>1 DEF AttemptInv, NoneMissing
    <3>2. CASE ~(k < occurrences[a][c])
      <4>1. content = c /\ k = occurrences[a][c]
        BY <1>2, <1>10, <2>2, <3>2
      <4>2. QED
        BY <2>1, <4>1
    <3>3. QED
      BY <3>1, <3>2
  <2>3. QED
    BY <1>9, <2>2 DEF NoneMissing
<1>13. QED
  BY <1>1, <1>6, <1>8, <1>11, <1>12, CollectKeeps

(* An ordinal in the chunk is one the counters have passed.                *)
LEMMA ChunkIsCounted ==
  ASSUME TypeOK, NEW a \in Attempts, AttemptInv(a), Active(a),
         NEW c \in Contents, NEW k \in Nat, DerivedId(c, k) \in Range(batch[a])
  PROVE  k < occurrences[a][c]
<1> DEFINE p == Drafts(a)
<1>1. /\ p \in Seq(Draft) /\ Len(p) \in Nat /\ read[a] \in Nat
      /\ batch[a] \in Seq(ExternalId) /\ Len(batch[a]) \in Nat
  BY ReadingTypes
<1>2. read[a] <= Len(p) /\ Len(batch[a]) <= read[a]
  BY DEF AttemptInv, Progress
<1>3. PICK n \in DOMAIN batch[a] : batch[a][n] = DerivedId(c, k)
  BY DEF Range
<1> DEFINE m == read[a] - Len(batch[a]) + n
<1>4. m \in DOMAIN p /\ m \in Nat /\ m <= read[a]
  BY <1>1, <1>2
<1>5. DerivedId(c, k) = ReferenceId(p, m)
  BY <1>3 DEF AttemptInv, Named
<1>6. m \in Derived(p) /\ c = CanonicalContent(p[m]) /\ k = Cardinality(Alike(p, c, m - 1))
  BY <1>5 DEF ReferenceId, DerivedId, SourceId
<1>7. k < Cardinality(Alike(p, c, read[a]))
  BY <1>1, <1>4, <1>6, OrdinalIsBelowCount DEF Derived
<1>8. QED
  BY <1>7 DEF AttemptInv, Counted

(* Storing a whole chunk leaves no gap.                                    *)
LEMMA ChunkStaysClosed ==
  ASSUME TypeOK, NEW a \in Attempts, AttemptInv(a), Active(a), RowsAreClosed,
         rows' = rows \cup Range(batch[a])
  PROVE  RowsAreClosed'
<1> SUFFICES ASSUME NEW c \in Contents, NEW k \in Nat, DerivedId(c, k) \in rows',
                    NEW m \in Nat, m < k
             PROVE  DerivedId(c, m) \in rows'
  BY DEF RowsAreClosed
<1>1. CASE DerivedId(c, k) \in rows
  BY <1>1 DEF RowsAreClosed
<1>2. CASE DerivedId(c, k) \in Range(batch[a])
  <2>1. k < occurrences[a][c]
    BY <1>2, ChunkIsCounted
  <2>2. occurrences[a][c] \in Nat
    BY ReadingTypes
  <2>3. QED
    BY <2>1, <2>2 DEF AttemptInv, NoneMissing
<1>3. QED
  BY <1>1, <1>2

LEMMA SaveKeeps ==
  ASSUME TypeOK, NEW a \in Attempts, AttemptInv(a), SaveBatch(a)
  PROVE  AttemptInv(a)'
<1> DEFINE p == Drafts(a)
<1>1. Active(a) /\ (Active(a))' /\ Drafts(a)' = p
  BY DEF SaveBatch, ChunkReady, Active, Drafts
<1>2. /\ p \in Seq(Draft) /\ Len(p) \in Nat /\ read[a] \in Nat
      /\ batch[a] \in Seq(ExternalId) /\ Len(batch[a]) \in Nat
  BY <1>1, ReadingTypes
<1>3. read[a] <= Len(p) /\ Len(batch[a]) <= read[a]
  BY <1>1 DEF AttemptInv, Progress
<1>4. /\ rows' = rows \cup Range(batch[a]) /\ batch'[a] = <<>> /\ read' = read
      /\ occurrences' = occurrences
  BY DEF SaveBatch, NewRows, TypeOK
<1>5. Progress(a)' /\ Idle(a)' /\ Named(a)'
  BY <1>1, <1>2, <1>3, <1>4 DEF Progress, Idle, Named
<1>6. Counted(a)'
  BY <1>1, <1>4 DEF AttemptInv, Counted
<1>7. Saved(a)'
  <2>1. ASSUME NEW n \in 1 .. read[a] PROVE ReferenceId(p, n) \in rows'
    <3>1. CASE n <= read[a] - Len(batch[a])
      <4>1. n \in 1 .. read[a] - Len(batch[a])
        BY <1>2, <3>1
      <4>2. QED
        BY <1>1, <1>4, <4>1 DEF AttemptInv, Saved
    <3>2. CASE ~(n <= read[a] - Len(batch[a]))
      <4> DEFINE k == n - (read[a] - Len(batch[a]))
      <4>1. k \in DOMAIN batch[a] /\ read[a] - Len(batch[a]) + k = n
        BY <1>2, <3>2
      <4>2. batch[a][k] = ReferenceId(p, n)
        BY <1>1, <4>1 DEF AttemptInv, Named
      <4>3. batch[a][k] \in Range(batch[a])
        BY <4>1 DEF Range
      <4>4. QED
        BY <1>4, <4>2, <4>3
    <3>3. QED
      BY <3>1, <3>2
  <2>2. read'[a] - Len(batch'[a]) = read[a]
    BY <1>2, <1>4
  <2>3. QED
    BY <1>1, <2>1, <2>2 DEF Saved
<1>8. NoneMissing(a)'
  BY <1>1, <1>4 DEF AttemptInv, NoneMissing
<1>9. QED
  BY <1>5, <1>6, <1>7, <1>8 DEF AttemptInv

(* An attempt that completes has stored its whole payload.                 *)
LEMMA CompletionStoresAll ==
  ASSUME TypeOK, NEW a \in Attempts, AttemptInv(a), CompletedAreStored, CompleteImport(a)
  PROVE  CompletedAreStored'
<1>1. /\ Active(a) /\ read[a] = Len(Drafts(a)) /\ batch[a] = <<>> /\ rows' = rows
      /\ completed' = completed \cup {running[a]}
  BY DEF CompleteImport
<1>2. Len(Drafts(a)) \in Nat /\ Drafts(a) \in Seq(Draft)
  BY <1>1, ReadingTypes
<1>3. \A n \in DOMAIN Drafts(a) : ReferenceId(Drafts(a), n) \in rows
  BY <1>1, <1>2 DEF AttemptInv, Saved
<1>4. QED
  BY <1>1, <1>3 DEF CompletedAreStored, Drafts

-----------------------------------------------------------------------------
(* Types.                                                                  *)

LEMMA ChunkTypes ==
  ASSUME TypeOK, NEW a \in Attempts
  PROVE  /\ NewRows(a) \subseteq ExternalId
         /\ IsFiniteSet(NewRows(a))
         /\ Cardinality(NewRows(a)) \in Nat
<1>1. batch[a] \in Seq(ExternalId) /\ Len(batch[a]) \in Nat
  BY DEF TypeOK
<1>2. IsFiniteSet(1 .. Len(batch[a]))
  BY <1>1, FS_Interval
<1>3. batch[a] \in Surjection(1 .. Len(batch[a]), Range(batch[a]))
  BY <1>1 DEF Surjection, Range
<1>4. IsFiniteSet(Range(batch[a]))
  BY <1>2, <1>3, FS_Surjection
<1>5. NewRows(a) \subseteq Range(batch[a])
  BY DEF NewRows
<1>6. NewRows(a) \subseteq ExternalId
  BY <1>1, <1>5 DEF Range
<1>7. QED
  BY <1>4, <1>5, <1>6, FS_Subset, FS_CardinalityType

LEMMA EndTypes ==
  ASSUME TypeOK, NEW a \in Attempts, EndAttempt(a)
  PROVE  /\ running' \in [Attempts -> Imports \cup {NoImport}]
         /\ size' \in [Attempts -> BatchSizes]
         /\ read' \in [Attempts -> Nat]
         /\ occurrences' \in [Attempts -> [Contents -> Nat]]
         /\ batch' \in [Attempts -> Seq(ExternalId)]
         /\ imported' \in [Attempts -> Nat]
<1>1. NothingSeen \in [Contents -> Nat]
  BY DEF NothingSeen
<1>2. QED
  BY <1>1 DEF EndAttempt, TypeOK

LEMMA CollectTypes ==
  ASSUME TypeOK, NEW a \in Attempts, NEW id \in ExternalId, Collect(a, id),
         occurrences' \in [Attempts -> [Contents -> Nat]]
  PROVE  TypeOK'
<1>1. read' \in [Attempts -> Nat]
  BY DEF Collect, TypeOK
<1>2. batch' \in [Attempts -> Seq(ExternalId)]
  <2>1. Append(batch[a], id) \in Seq(ExternalId)
    BY DEF TypeOK
  <2>2. QED
    BY <2>1 DEF Collect, TypeOK
<1>3. QED
  BY <1>1, <1>2 DEF Collect, TypeOK

LEMMA StoredTypes ==
  ASSUME TypeOK, NEW a \in Attempts, rows' = rows \cup NewRows(a)
  PROVE  rows' \in SUBSET ExternalId /\ IsFiniteSet(rows')
BY ChunkTypes, FS_Union DEF TypeOK

LEMMA StepTypes ==
  ASSUME TypeOK, [Next]_vars
  PROVE  TypeOK'
<1>1. ASSUME NEW a \in Attempts, BeginAttempt(a) PROVE TypeOK'
  BY <1>1 DEF BeginAttempt, TypeOK
<1>2. ASSUME NEW a \in Attempts, AssignSourceId(a) PROVE TypeOK'
  <2>1. Active(a) /\ CanRead(a)
    BY <1>2 DEF AssignSourceId, CanRead
  <2>2. running[a] \in Imports /\ read[a] + 1 \in DOMAIN Payload[running[a]]
    BY <2>1, ReadingTypes DEF CanRead, Drafts
  <2>3. SourceId(NextDraft(a).sourceId) \in ExternalId
    BY <1>2, <2>2, PayloadTypes
       DEF AssignSourceId, NextDraft, Drafts, SourceId, ExternalId
  <2>4. QED
    BY <1>2, <2>3, CollectTypes DEF AssignSourceId, TypeOK
<1>3. ASSUME NEW a \in Attempts, AssignDerivedId(a) PROVE TypeOK'
  <2> DEFINE content == CanonicalContent(NextDraft(a))
  <2>1. Active(a) /\ CanRead(a)
    BY <1>3 DEF AssignDerivedId, CanRead
  <2>2. running[a] \in Imports /\ read[a] + 1 \in DOMAIN Payload[running[a]]
    BY <2>1, ReadingTypes DEF CanRead, Drafts
  <2>3. content \in Contents
    BY <2>2, PayloadTypes DEF NextDraft, Drafts
  <2>4. DerivedId(content, occurrences[a][content]) \in ExternalId
    BY <2>3 DEF TypeOK, DerivedId, ExternalId
  <2>5. occurrences' \in [Attempts -> [Contents -> Nat]]
    BY <1>3, <2>3 DEF AssignDerivedId, TypeOK
  <2>6. QED
    BY <1>3, <2>4, <2>5, CollectTypes DEF AssignDerivedId
<1>4. ASSUME NEW a \in Attempts, SaveBatch(a) PROVE TypeOK'
  <2>1. imported' \in [Attempts -> Nat]
    BY <1>4, ChunkTypes DEF SaveBatch, TypeOK
  <2>2. batch' \in [Attempts -> Seq(ExternalId)]
    BY <1>4 DEF SaveBatch, TypeOK
  <2>3. rows' \in SUBSET ExternalId /\ IsFiniteSet(rows')
    BY <1>4, StoredTypes DEF SaveBatch
  <2>4. QED
    BY <1>4, <2>1, <2>2, <2>3 DEF SaveBatch, TypeOK
<1>5. ASSUME NEW a \in Attempts, AbandonAttempt(a) PROVE TypeOK'
  BY <1>5, EndTypes DEF AbandonAttempt, TypeOK
<1>6. ASSUME NEW a \in Attempts, SaveUnheard(a) PROVE TypeOK'
  BY <1>6, EndTypes, StoredTypes DEF SaveUnheard, TypeOK
<1>7. ASSUME NEW a \in Attempts, CompleteImport(a) PROVE TypeOK'
  BY <1>7, EndTypes DEF CompleteImport, Active, TypeOK
<1>8. CASE UNCHANGED vars
  BY <1>8 DEF vars, TypeOK
<1>9. QED
  BY <1>1, <1>2, <1>3, <1>4, <1>5, <1>6, <1>7, <1>8 DEF Next

-----------------------------------------------------------------------------
(* The invariant is preserved.                                             *)

(* A step of one attempt is, for the others, at most new rows.             *)
LEMMA StepIsLocal ==
  ASSUME TypeOK, NEW a \in Attempts, NEW b \in Attempts, b # a, AttemptInv(b),
         \/ BeginAttempt(a) \/ AssignSourceId(a) \/ AssignDerivedId(a) \/ SaveBatch(a)
         \/ AbandonAttempt(a) \/ SaveUnheard(a) \/ CompleteImport(a)
  PROVE  AttemptInv(b)'
<1>1. /\ running'[b] = running[b] /\ read'[b] = read[b] /\ batch'[b] = batch[b]
      /\ occurrences'[b] = occurrences[b] /\ rows \subseteq rows'
  BY DEF TypeOK, BeginAttempt, AssignSourceId, AssignDerivedId, Collect, SaveBatch,
         AbandonAttempt, SaveUnheard, CompleteImport, EndAttempt
<1>2. QED
  BY <1>1, RowsOnlyHelp

LEMMA StepAttemptInv ==
  ASSUME TypeOK, \A a \in Attempts : AttemptInv(a), [Next]_vars
  PROVE  \A a \in Attempts : AttemptInv(a)'
<1> SUFFICES ASSUME NEW b \in Attempts PROVE AttemptInv(b)'
  OBVIOUS
<1>1. CASE UNCHANGED vars
  BY <1>1, RowsOnlyHelp DEF vars
<1>2. ASSUME NEW a \in Attempts, b = a, BeginAttempt(a) PROVE AttemptInv(b)'
  <2>1. read[a] = 0 /\ batch[a] = <<>> /\ occurrences[a] = NothingSeen
    BY <1>2 DEF AttemptInv, Idle, BeginAttempt
  <2>2. running'[a] \in Imports
    BY <1>2 DEF BeginAttempt, TypeOK
  <2>3. QED
    BY <1>2, <2>1, <2>2, StartingInv DEF BeginAttempt
<1>3. ASSUME NEW a \in Attempts, b = a, EndAttempt(a) PROVE AttemptInv(b)'
  <2>1. /\ running'[a] = NoImport /\ read'[a] = 0 /\ batch'[a] = <<>>
        /\ occurrences'[a] = NothingSeen
    BY <1>3 DEF EndAttempt, TypeOK
  <2>2. QED
    BY <1>3, <2>1, RestingInv
<1>4. ASSUME NEW a \in Attempts, b # a,
             \/ BeginAttempt(a) \/ AssignSourceId(a) \/ AssignDerivedId(a) \/ SaveBatch(a)
             \/ AbandonAttempt(a) \/ SaveUnheard(a) \/ CompleteImport(a)
      PROVE  AttemptInv(b)'
  BY <1>4, StepIsLocal
<1>5. ASSUME NEW a \in Attempts, b = a, AssignSourceId(a) PROVE AttemptInv(b)'
  BY <1>5, SourceIdKeeps
<1>6. ASSUME NEW a \in Attempts, b = a, AssignDerivedId(a) PROVE AttemptInv(b)'
  BY <1>6, DerivedIdKeeps
<1>7. ASSUME NEW a \in Attempts, b = a, SaveBatch(a) PROVE AttemptInv(b)'
  BY <1>7, SaveKeeps
<1>8. QED
  BY <1>1, <1>2, <1>3, <1>4, <1>5, <1>6, <1>7
     DEF Next, AbandonAttempt, SaveUnheard, CompleteImport

LEMMA StepStored ==
  ASSUME IInv, [Next]_vars
  PROVE  CompletedAreStored'
<1>1. CASE rows \subseteq rows' /\ completed' = completed
  BY <1>1 DEF IInv, CompletedAreStored
<1>2. ASSUME NEW a \in Attempts, CompleteImport(a) PROVE CompletedAreStored'
  BY <1>2, CompletionStoresAll DEF IInv
<1>3. QED
  BY <1>1, <1>2 DEF Next, vars, BeginAttempt, AssignSourceId, AssignDerivedId, Collect,
                    SaveBatch, AbandonAttempt, SaveUnheard

LEMMA StepClosed ==
  ASSUME IInv, [Next]_vars
  PROVE  RowsAreClosed'
<1>1. CASE rows' = rows
  BY <1>1 DEF IInv, RowsAreClosed
<1>2. ASSUME NEW a \in Attempts, SaveBatch(a) \/ SaveUnheard(a) PROVE RowsAreClosed'
  <2>1. Active(a) /\ rows' = rows \cup Range(batch[a])
    BY <1>2 DEF SaveBatch, SaveUnheard, ChunkReady, NewRows
  <2>2. QED
    BY <2>1, ChunkStaysClosed DEF IInv
<1>3. QED
  BY <1>1, <1>2 DEF Next, vars, BeginAttempt, AssignSourceId, AssignDerivedId, Collect,
                    AbandonAttempt, CompleteImport

(* Every step keeps the invariant.                                         *)
THEOREM InvariantHolds == Spec => []IInv
<1>1. Init => IInv
  BY InitHolds
<1>2. IInv /\ [Next]_vars => IInv'
  BY StepTypes, StepAttemptInv, StepStored, StepClosed DEF IInv
<1>3. QED
  BY <1>1, <1>2, PTL DEF Spec

-----------------------------------------------------------------------------
(* What the invariant says of stored duplicates.                           *)

LEMMA CompletedStoreDuplicates == IInv => GenuineDuplicatesSurvive
<1> SUFFICES ASSUME IInv, NEW i \in completed, NEW c \in Contents
             PROVE  Cardinality(StoredOf(c))
                      >= Cardinality(Alike(Payload[i], c, Len(Payload[i])))
  BY DEF GenuineDuplicatesSurvive
<1> DEFINE p == Payload[i]
           A == Alike(p, c, Len(p))
           f == [n \in A |-> DerivedId(c, Cardinality(Alike(p, c, n - 1)))]
<1>1. i \in Imports /\ p \in Seq(Draft) /\ Len(p) \in Nat
  BY PayloadTypes DEF IInv, TypeOK
<1>2. IsFiniteSet(A) /\ Cardinality(A) \in Nat
  BY <1>1, AlikeIsFinite
<1>3. IsFiniteSet(StoredOf(c)) /\ Cardinality(StoredOf(c)) \in Nat
  <2>1. StoredOf(c) \in SUBSET rows /\ IsFiniteSet(rows)
    BY DEF StoredOf, IInv, TypeOK
  <2>2. QED
    BY <2>1, FS_Subset, FS_CardinalityType
<1>4. ASSUME NEW n \in A PROVE f[n] \in StoredOf(c)
  <2>1. n \in Derived(p) /\ CanonicalContent(p[n]) = c /\ n \in DOMAIN p
    BY DEF Alike, Derived
  <2>2. f[n] = ReferenceId(p, n)
    BY <2>1 DEF ReferenceId
  <2>3. f[n] \in rows
    BY <2>1, <2>2 DEF IInv, CompletedAreStored
  <2>4. QED
    BY <2>3 DEF StoredOf, DerivedId
<1>5. ASSUME NEW m \in A, NEW n \in A, f[m] = f[n] PROVE m = n
  <2>1. m \in 1 .. Len(p) /\ n \in 1 .. Len(p)
    BY DEF Alike, Derived
  <2>2. /\ Cardinality(Alike(p, c, m - 1)) = Cardinality(Alike(p, c, n - 1))
        /\ Cardinality(Alike(p, c, m - 1)) \in Nat /\ Cardinality(Alike(p, c, n - 1)) \in Nat
    BY <1>1, <1>5, <2>1, AlikeIsFinite DEF DerivedId
  <2>3. ~(m < n) /\ ~(n < m)
    BY <1>1, <2>2, OrdinalsDiffer
  <2>4. QED
    BY <2>1, <2>3
<1>6. f \in Injection(A, StoredOf(c))
  BY <1>4, <1>5 DEF Injection, IsInjective
<1>7. QED
  BY <1>2, <1>3, <1>6, FS_Injection

LEMMA ClosedRowsAreNumbered == IInv => OrdinalsHaveNoGaps
<1> SUFFICES ASSUME IInv, NEW c \in Contents
             PROVE  {id[3] : id \in StoredOf(c)} = 0 .. Cardinality(StoredOf(c)) - 1
  BY DEF OrdinalsHaveNoGaps
<1> DEFINE S == {id[3] : id \in StoredOf(c)}
           f == [id \in StoredOf(c) |-> id[3]]
<1>1. IsFiniteSet(StoredOf(c))
  <2>1. StoredOf(c) \in SUBSET rows /\ IsFiniteSet(rows)
    BY DEF StoredOf, IInv, TypeOK
  <2>2. QED
    BY <2>1, FS_Subset
<1>2. ASSUME NEW id \in StoredOf(c)
      PROVE  id[3] \in Nat /\ id = DerivedId(c, id[3])
  <2>1. id \in ExternalId /\ id[1] = "derived" /\ id[2] = c
    BY DEF StoredOf, IInv, TypeOK
  <2>2. id \in {"derived"} \X Contents \X Nat
    BY <2>1 DEF ExternalId
  <2>3. QED
    BY <2>1, <2>2 DEF DerivedId
<1>3. f \in Surjection(StoredOf(c), S)
  BY DEF Surjection
<1>4. f \in Injection(StoredOf(c), S)
  <2>1. f \in [StoredOf(c) -> S]
    OBVIOUS
  <2>2. ASSUME NEW x \in StoredOf(c), NEW y \in StoredOf(c), f[x] = f[y] PROVE x = y
    BY <1>2, <2>2
  <2>3. QED
    BY <2>1, <2>2 DEF Injection, IsInjective
<1>5. IsFiniteSet(S) /\ Cardinality(S) = Cardinality(StoredOf(c))
  BY <1>1, <1>3, <1>4, FS_Surjection
<1>6. S \in SUBSET Nat
  BY <1>2
<1>7. ASSUME NEW k \in S, NEW m \in Nat, m < k PROVE m \in S
  <2>1. k \in Nat /\ DerivedId(c, k) \in rows
    BY <1>2 DEF StoredOf
  <2>2. DerivedId(c, m) \in rows
    BY <1>7, <2>1 DEF IInv, RowsAreClosed
  <2>3. DerivedId(c, m) \in StoredOf(c) /\ DerivedId(c, m)[3] = m
    BY <2>2 DEF StoredOf, DerivedId
  <2>4. QED
    BY <2>3
<1>8. QED
  BY <1>5, <1>6, <1>7, InitialSegment

(* The rows of a payload that a completed one covers are all stored.       *)
LEMMA CoveredIsStored ==
  ASSUME IInv, NEW p \in Seq(Draft), \A n \in DOMAIN p : CanonicalContent(p[n]) \in Contents,
         NEW i \in completed, CoveredBy(p, Payload[i]), NEW n \in DOMAIN p
  PROVE  ReferenceId(p, n) \in rows
<1> DEFINE q == Payload[i]
<1>1. i \in Imports /\ q \in Seq(Draft)
  BY PayloadTypes DEF IInv, TypeOK
<1>2. CASE p[n].sourceId # NoId
  <2>1. PICK m \in DOMAIN q : q[m].sourceId = p[n].sourceId
    BY <1>2 DEF CoveredBy, Derived
  <2>2. ReferenceId(q, m) = ReferenceId(p, n)
    BY <1>2, <2>1 DEF ReferenceId, Derived
  <2>3. QED
    BY <2>1, <2>2 DEF IInv, CompletedAreStored
<1>3. CASE p[n].sourceId = NoId
  <2> DEFINE c == CanonicalContent(p[n])
             k == Cardinality(Alike(p, c, n - 1))
  <2>1. n \in Derived(p) /\ c \in Contents
    BY <1>3 DEF Derived
  <2>2. Len(p) \in Nat /\ n \in Nat /\ n - 1 \in Nat /\ n <= Len(p)
    OBVIOUS
  <2>3. k \in Nat /\ Cardinality(Alike(p, c, Len(p))) \in Nat
    BY <2>2, AlikeIsFinite
  <2>4. k < Cardinality(Alike(p, c, Len(p)))
    BY <1>3, <2>2, OrdinalIsBelowCount
  <2>5. Cardinality(Alike(p, c, Len(p))) <= Cardinality(Alike(q, c, Len(q)))
    BY <2>1 DEF CoveredBy
  <2>6. Cardinality(Alike(q, c, Len(q))) <= Cardinality(StoredOf(c))
    BY <2>1, CompletedStoreDuplicates DEF GenuineDuplicatesSurvive
  <2>7. Cardinality(Alike(q, c, Len(q))) \in Nat /\ Cardinality(StoredOf(c)) \in Nat
    <3>1. StoredOf(c) \in SUBSET rows /\ IsFiniteSet(rows)
      BY DEF StoredOf, IInv, TypeOK
    <3>2. Len(q) \in Nat
      BY <1>1
    <3>3. QED
      BY <1>1, <3>1, <3>2, AlikeIsFinite, FS_Subset, FS_CardinalityType
  <2>8. k \in {id[3] : id \in StoredOf(c)}
    <3>1. {id[3] : id \in StoredOf(c)} = 0 .. Cardinality(StoredOf(c)) - 1
      BY <2>1, ClosedRowsAreNumbered DEF OrdinalsHaveNoGaps
    <3>2. k \in 0 .. Cardinality(StoredOf(c)) - 1
      BY <2>3, <2>4, <2>5, <2>6, <2>7
    <3>3. QED
      BY <3>1, <3>2
  <2>9. DerivedId(c, k) \in rows
    <3>1. PICK id \in StoredOf(c) : id[3] = k
      BY <2>8
    <3>2. id \in rows /\ id \in ExternalId /\ id[1] = "derived" /\ id[2] = c
      BY DEF StoredOf, IInv, TypeOK
    <3>3. id \in {"derived"} \X Contents \X Nat
      BY <3>2 DEF ExternalId
    <3>4. QED
      BY <3>1, <3>2, <3>3 DEF DerivedId
  <2>10. QED
    BY <2>1, <2>9 DEF ReferenceId
<1>4. QED
  BY <1>2, <1>3

LEMMA StepReexport ==
  ASSUME IInv, [Next]_vars, NEW a \in Attempts, Active(a),
         NEW i \in completed, CoveredBy(Drafts(a), Payload[i])
  PROVE  imported'[a] <= imported[a]
<1>1. imported[a] \in Nat
  BY DEF IInv, TypeOK
<1>2. CASE SaveBatch(a)
  <2>1. /\ Drafts(a) \in Seq(Draft) /\ Len(Drafts(a)) \in Nat /\ running[a] \in Imports
        /\ read[a] \in Nat /\ batch[a] \in Seq(ExternalId) /\ Len(batch[a]) \in Nat
    BY ReadingTypes DEF IInv
  <2>2. \A n \in DOMAIN Drafts(a) : CanonicalContent(Drafts(a)[n]) \in Contents
    BY <2>1, PayloadTypes DEF Drafts
  <2>3. ASSUME NEW n \in DOMAIN batch[a] PROVE batch[a][n] \in rows
    <3>1. read[a] <= Len(Drafts(a)) /\ Len(batch[a]) <= read[a]
      BY DEF IInv, AttemptInv, Progress
    <3>2. read[a] - Len(batch[a]) + n \in DOMAIN Drafts(a)
      BY <2>1, <3>1
    <3>3. batch[a][n] = ReferenceId(Drafts(a), read[a] - Len(batch[a]) + n)
      BY DEF IInv, AttemptInv, Named
    <3>4. QED
      BY <2>1, <2>2, <3>2, <3>3, CoveredIsStored
  <2>4. NewRows(a) = {}
    BY <2>3 DEF NewRows, Range
  <2>5. imported'[a] = imported[a] + Cardinality(NewRows(a))
    BY <1>2 DEF SaveBatch, IInv, TypeOK
  <2>6. QED
    BY <1>1, <2>4, <2>5, FS_EmptySet
<1>3. CASE imported'[a] \in {0, imported[a]}
  BY <1>1, <1>3
<1>4. ASSUME NEW b \in Attempts, b # a, SaveBatch(b) PROVE imported'[a] = imported[a]
  BY <1>4 DEF SaveBatch, IInv, TypeOK
<1>5. ASSUME NEW b \in Attempts, EndAttempt(b) PROVE imported'[a] \in {0, imported[a]}
  BY <1>5 DEF EndAttempt, IInv, TypeOK
<1>6. QED
  BY <1>2, <1>3, <1>4, <1>5
     DEF Next, vars, BeginAttempt, AssignSourceId, AssignDerivedId, Collect,
         AbandonAttempt, SaveUnheard, CompleteImport

-----------------------------------------------------------------------------
(* Every variable stays in its type.                                       *)
THEOREM KeysTypeCorrect == Spec => []TypeOK
<1>1. IInv => TypeOK
  BY DEF IInv
<1>2. QED
  BY <1>1, InvariantHolds, PTL

(* The key of a draft depends on its payload alone, whatever the chunk     *)
(* size and whatever earlier attempts did (createImportNormalizer).        *)
THEOREM KeysIgnoreChunks == Spec => []ChunkingIsInvisible
<1>1. IInv => ChunkingIsInvisible
  BY DEF IInv, AttemptInv, Named, ChunkingIsInvisible
<1>2. QED
  BY <1>1, InvariantHolds, PTL

(* A completed import has stored every one of its genuine duplicates       *)
(* (FR-7; createExternalIdAssigner).                                       *)
THEOREM DuplicatesSurvive == Spec => []GenuineDuplicatesSurvive
<1>1. QED
  BY CompletedStoreDuplicates, InvariantHolds, PTL

(* Stored rows of one content are numbered from zero without a gap.        *)
THEOREM OrdinalsAreDense == Spec => []OrdinalsHaveNoGaps
<1>1. QED
  BY ClosedRowsAreNumbered, InvariantHolds, PTL

(* Replays, and re-exports in any order, insert nothing (ADR-0007).        *)
THEOREM ReexportsConverge == Spec => ReexportAddsNothing
<1>1. ASSUME IInv, [Next]_vars
      PROVE  [\A a \in Attempts :
                Active(a) /\ (\E i \in completed : CoveredBy(Drafts(a), Payload[i]))
                  => imported'[a] <= imported[a]]_vars
  BY <1>1, StepReexport
<1>2. QED
  BY <1>1, InvariantHolds, PTL DEF Spec, ReexportAddsNothing

=============================================================================
