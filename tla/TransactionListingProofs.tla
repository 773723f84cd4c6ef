---------------------- MODULE TransactionListingProofs ----------------------
(***************************************************************************)
(* Proofs about TransactionListing, for every set of rows, every chunk,    *)
(* every number of savers and every page size.                             *)
(***************************************************************************)
EXTENDS TransactionListing, FiniteSetTheorems, TLAPS

LEMMA KeysArePairs ==
  ASSUME NEW k \in Keys
  PROVE  k[1] \in Int /\ k[2] \in Int /\ CursorOf(k) = k
BY ListingAssumption DEF CursorOf

LEMMA BelowIsTransitive ==
  ASSUME NEW k \in Keys, NEW l \in Keys, NEW m \in Keys, Below(k, l), Below(l, m)
  PROVE  Below(k, m)
BY KeysArePairs DEF Below

-----------------------------------------------------------------------------
(* The inductive invariant.                                                *)

LegsAreThere == committed \subseteq withLegs /\ bare = {}

(* Where the walk stands between two pages.                                *)
Walking ==
  /\ cursor = NoCursor /\ ~ended => served = {}
  /\ cursor # NoCursor /\ ~ended =>
       /\ \A given \in served : given = cursor \/ Below(cursor, given)
       /\ \A row \in present : row \in served \/ Below(row, cursor)
       /\ \E row \in committed : Below(row, cursor)
  /\ ended => present \subseteq served
  /\ present \subseteq committed

(* What is being answered.                                                 *)
Answering ==
  /\ stage = "client" => fetched = {}
  /\ stage = "entries" =>
       /\ ~ended
       /\ fetched \subseteq committed
       /\ \A row \in fetched : cursor = NoCursor \/ Below(row, cursor)
       /\ \A row \in present :
            \/ row \in served \cup fetched
            \/ Cardinality(fetched) = limit + 1 /\ \A other \in fetched : Below(row, other)

LInv == TypeOK /\ LegsAreThere /\ Walking /\ Answering

LEMMA ListingInit == Init => LInv
<1> SUFFICES ASSUME Init PROVE LInv
  OBVIOUS
<1>1. TypeOK
  BY FS_EmptySet DEF Init, TypeOK
<1>2. QED
  BY <1>1 DEF Init, LInv, LegsAreThere, Walking, Answering

(* A page and what it leaves, when there is a row more and when not.       *)
LEMMA TopOfFetched ==
  ASSUME TypeOK, fetched \subseteq committed,
         NEW page \in SUBSET fetched, IsTop(page, limit, fetched)
  PROVE  /\ MoreRows => fetched \ page # {}
         /\ ~MoreRows => page = fetched
<1>1. IsFiniteSet(fetched) /\ Cardinality(fetched) \in Nat /\ limit \in Nat
  BY FS_Subset, FS_CardinalityType DEF TypeOK
<1>2. /\ Cardinality(page) \in Nat /\ Cardinality(page) <= Cardinality(fetched)
      /\ Cardinality(page) = Cardinality(fetched) => page = fetched
  BY <1>1, FS_Subset, FS_CardinalityType
<1>3. CASE MoreRows
  <2>1. Cardinality(page) <= limit
    BY <1>1, <1>2 DEF IsTop
  <2>2. page # fetched
    BY <1>1, <1>2, <1>3, <2>1 DEF MoreRows
  <2>3. QED
    BY <1>3, <2>2
<1>4. CASE ~MoreRows
  BY <1>1, <1>2, <1>4 DEF MoreRows, IsTop
<1>5. QED
  BY <1>3, <1>4

LEMMA ReadRowsKeeps == LInv /\ ReadRows => LInv'
<1> SUFFICES ASSUME LInv, ReadRows PROVE LInv'
  OBVIOUS
<1>1. PICK n \in Limits, rows \in SUBSET Candidates :
        /\ limit' = n /\ fetched' = rows /\ IsTop(rows, n + 1, Candidates)
  BY DEF ReadRows
<1>2. /\ stage = "client" /\ ~ended /\ stage' = "entries"
      /\ present' = IF cursor = NoCursor THEN committed ELSE present
      /\ UNCHANGED <<committed, withLegs, cursor, served, bare, ended>>
  BY DEF ReadRows, tableVars
<1>3. n \in Nat
  BY ListingAssumption
<1>4. Candidates \subseteq committed
  BY DEF Candidates
<1>5. TypeOK'
  BY <1>1, <1>2, <1>3, <1>4 DEF ReadRows, LInv, TypeOK, tableVars
<1>6. LegsAreThere' /\ Walking'
  BY <1>2 DEF LInv, LegsAreThere, Walking
<1>7. ASSUME NEW row \in present'
      PROVE  \/ row \in served' \cup fetched'
             \/ Cardinality(fetched') = limit' + 1 /\ \A other \in fetched' : Below(row, other)
  <2>1. row \in served \/ row \in Candidates
    <3>1. CASE cursor = NoCursor
      BY <1>2, <1>7, <3>1 DEF Candidates
    <3>2. CASE cursor # NoCursor
      <4>1. row \in present /\ (row \in served \/ Below(row, cursor))
        BY <1>2, <1>7, <3>2 DEF LInv, Walking
      <4>2. row \in committed
        BY <4>1 DEF LInv, Walking
      <4>3. QED
        BY <4>1, <4>2 DEF Candidates
    <3>3. QED
      BY <3>1, <3>2
  <2>2. CASE row \in Candidates /\ row \notin fetched'
    <3>1. \A other \in rows : Below(row, other)
      BY <1>1, <2>2 DEF IsTop
    <3>2. Cardinality(rows) = n + 1
      BY <1>1, <2>2 DEF IsTop
    <3>3. QED
      BY <1>1, <3>1, <3>2
  <2>3. QED
    BY <1>2, <2>1, <2>2
<1>8. Answering'
  BY <1>1, <1>2, <1>4, <1>7 DEF Answering, Candidates
<1>9. QED
  BY <1>5, <1>6, <1>8 DEF LInv

LEMMA ReadNothingKeeps == LInv /\ ReadNothing => LInv'
<1> SUFFICES ASSUME LInv, ReadNothing PROVE LInv'
  OBVIOUS
<1>1. /\ stage = "client" /\ ~ended /\ ended' = TRUE /\ Candidates = {}
      /\ present' = IF cursor = NoCursor THEN committed ELSE present
      /\ UNCHANGED <<committed, withLegs, stage, cursor, limit, fetched, served, bare>>
  BY DEF ReadNothing, tableVars
<1>2. TypeOK'
  BY <1>1 DEF ReadNothing, LInv, TypeOK, tableVars
<1>3. present' \subseteq served
  <2>1. CASE cursor = NoCursor
    BY <1>1, <2>1 DEF Candidates
  <2>2. CASE cursor # NoCursor
    BY <1>1, <2>2 DEF Candidates, LInv, Walking
  <2>3. QED
    BY <2>1, <2>2
<1>4. Walking'
  BY <1>1, <1>3 DEF LInv, Walking
<1>5. LegsAreThere' /\ Answering'
  BY <1>1 DEF LInv, LegsAreThere, Answering
<1>6. QED
  BY <1>2, <1>4, <1>5 DEF LInv

LEMMA ReadEntriesKeeps == LInv /\ ReadEntries => LInv'
<1> SUFFICES ASSUME LInv, ReadEntries PROVE LInv'
  OBVIOUS
<1>1. PICK page \in SUBSET fetched :
        /\ IsTop(page, limit, fetched)
        /\ served' = served \cup page
        /\ bare' = bare \cup (page \ withLegs)
        /\ \/ MoreRows /\ NextCursor(page) /\ UNCHANGED ended
           \/ ~MoreRows /\ ended' = TRUE /\ UNCHANGED cursor
  BY DEF ReadEntries
<1>2. /\ stage = "entries" /\ stage' = "client" /\ limit' = 0 /\ fetched' = {}
      /\ UNCHANGED <<committed, withLegs, present>>
  BY DEF ReadEntries, tableVars
<1>3. /\ ~ended /\ fetched \subseteq committed
      /\ committed \subseteq Keys /\ served \subseteq Keys /\ present \subseteq Keys
      /\ IsFiniteSet(fetched) /\ Cardinality(fetched) \in Nat /\ limit \in Nat
  BY <1>2, FS_Subset, FS_CardinalityType DEF LInv, TypeOK, Answering
<1>4. /\ MoreRows => fetched \ page # {}
      /\ ~MoreRows => page = fetched
  BY <1>1, <1>3, TopOfFetched DEF LInv
<1>5. LegsAreThere' /\ Answering'
  BY <1>1, <1>2, <1>3 DEF LInv, LegsAreThere, Answering
<1>6. CASE MoreRows
  <2>1. PICK last \in page :
          /\ \A other \in page \ {last} : Below(last, other)
          /\ cursor' = CursorOf(last)
    BY <1>1, <1>6 DEF NextCursor
  <2>2. last \in Keys /\ cursor' = last /\ cursor' # NoCursor /\ ended' = ended
    BY <1>1, <1>3, <1>6, <2>1, KeysArePairs, ListingAssumption
  <2>3. TypeOK'
    BY <1>1, <1>2, <1>3, <2>2 DEF ReadEntries, LInv, TypeOK, tableVars
  <2>4. ASSUME NEW given \in served' PROVE given = last \/ Below(last, given)
    <3>1. CASE given \in page
      BY <2>1, <3>1
    <3>2. CASE given \in served
      <4>1. cursor # NoCursor /\ Below(last, cursor) /\ (given = cursor \/ Below(cursor, given))
        BY <1>2, <1>3, <2>1, <3>2 DEF LInv, Walking, Answering
      <4>2. cursor \in Keys /\ given \in Keys
        BY <1>3, <3>2, <4>1 DEF LInv, TypeOK
      <4>3. QED
        BY <2>2, <4>1, <4>2, BelowIsTransitive
    <3>3. QED
      BY <1>1, <2>4, <3>1, <3>2
  <2>5. ASSUME NEW row \in present PROVE row \in served' \/ Below(row, last)
    <3>1. CASE row \in served \cup page
      BY <1>1, <3>1
    <3>2. CASE row \in fetched \ page
      BY <1>1, <2>1, <3>2 DEF IsTop
    <3>3. CASE \A other \in fetched : Below(row, other)
      BY <2>1, <3>3
    <3>4. QED
      BY <1>2, <3>1, <3>2, <3>3 DEF LInv, Answering
  <2>6. \E row \in committed : Below(row, last)
    <3>1. PICK row \in fetched : row \notin page
      BY <1>4, <1>6
    <3>2. QED
      BY <1>1, <1>3, <2>1, <3>1 DEF IsTop
  <2>7. Walking'
    BY <1>2, <1>3, <2>2, <2>4, <2>5, <2>6 DEF LInv, Walking
  <2>8. QED
    BY <1>5, <2>3, <2>7 DEF LInv
<1>7. CASE ~MoreRows
  <2>1. ended' = TRUE /\ cursor' = cursor /\ served' = served \cup fetched
    BY <1>1, <1>4, <1>7
  <2>2. TypeOK'
    BY <1>1, <1>2, <1>3, <2>1 DEF ReadEntries, LInv, TypeOK, tableVars
  <2>3. present \subseteq served'
    BY <1>2, <1>3, <1>7, <2>1 DEF LInv, Answering, MoreRows
  <2>4. Walking'
    BY <1>2, <2>1, <2>3 DEF LInv, Walking
  <2>5. QED
    BY <1>5, <2>2, <2>4 DEF LInv
<1>8. QED
  BY <1>6, <1>7

LEMMA ClientKeeps == LInv /\ (LoseAnswer \/ StartOver) => LInv'
<1>1. LInv /\ LoseAnswer => LInv'
  BY DEF LInv, TypeOK, LegsAreThere, Walking, Answering, LoseAnswer, tableVars
<1>2. LInv /\ StartOver => LInv'
  BY DEF LInv, TypeOK, LegsAreThere, Walking, Answering, StartOver, tableVars
<1>3. QED
  BY <1>1, <1>2

(* The table only grows, and a row never before its legs.                  *)
LEMMA SaverTypes ==
  ASSUME TypeOK, NEW s \in Savers, InsertRows(s) \/ InsertLegs(s) \/ Commit(s) \/ Rollback(s)
  PROVE  TypeOK'
<1>1. CASE InsertRows(s)
  <2>1. PICK batch \in Batches : inserted' = [inserted EXCEPT ![s] = batch \ committed]
    BY <1>1 DEF InsertRows
  <2>2. batch \ committed \in SUBSET Keys /\ IsFiniteSet(batch \ committed)
    BY ListingAssumption, FS_Subset
  <2>3. QED
    BY <1>1, <2>1, <2>2 DEF InsertRows, TypeOK, walkVars
<1>2. CASE InsertLegs(s)
  BY <1>2 DEF InsertLegs, TypeOK, walkVars
<1>3. CASE Commit(s)
  <2>1. IsFiniteSet(committed \cup inserted[s])
    BY FS_Union DEF TypeOK
  <2>2. inserted' = [inserted EXCEPT ![s] = {}] /\ IsFiniteSet({})
    BY <1>3, FS_EmptySet DEF Commit, Close
  <2>3. QED
    BY <1>3, <2>1, <2>2 DEF Commit, Close, TypeOK, walkVars
<1>4. CASE Rollback(s)
  BY <1>4, FS_EmptySet DEF Rollback, Close, TypeOK, walkVars
<1>5. QED
  BY <1>1, <1>2, <1>3, <1>4

LEMMA SaversKeep ==
  ASSUME LInv, NEW s \in Savers, InsertRows(s) \/ InsertLegs(s) \/ Commit(s) \/ Rollback(s)
  PROVE  LInv'
<1>1. /\ committed \subseteq committed' /\ UNCHANGED walkVars
      /\ committed' \ committed \subseteq withLegs' /\ withLegs \subseteq withLegs'
  BY DEF InsertRows, InsertLegs, Commit, Rollback
<1>2. LegsAreThere' /\ Walking' /\ Answering'
  BY <1>1 DEF LInv, LegsAreThere, Walking, Answering, walkVars
<1>3. QED
  BY <1>2, SaverTypes DEF LInv

(* Every step keeps the invariant.                                         *)
THEOREM ListingInvariant == Spec => []LInv
<1>1. Init => LInv
  BY ListingInit
<1>2. LInv /\ [Next]_vars => LInv'
  <2>1. LInv /\ UNCHANGED vars => LInv'
    BY DEF LInv, TypeOK, LegsAreThere, Walking, Answering, vars, tableVars, walkVars
  <2>2. QED
    BY <2>1, SaversKeep, ReadRowsKeeps, ReadNothingKeeps, ReadEntriesKeeps, ClientKeeps
       DEF Next
<1>3. QED
  BY <1>1, <1>2, PTL DEF Spec

-----------------------------------------------------------------------------
(* Every variable stays in its type.                                       *)
THEOREM ListingTypeCorrect == Spec => []TypeOK
<1>1. LInv => TypeOK
  BY DEF LInv
<1>2. QED
  BY <1>1, ListingInvariant, PTL

(* No row is given twice, and pages descend (FR-10; listByWallet).         *)
THEOREM PagesNeverRepeat == Spec => []PagesDescend
<1>1. LInv => PagesDescend
  <2> SUFFICES ASSUME LInv, NEW given \in served, NEW row \in fetched PROVE Below(row, given)
    BY DEF PagesDescend
  <2>1. stage = "entries" /\ cursor # NoCursor /\ ~ended
    BY DEF LInv, TypeOK, Answering, Walking
  <2>2. Below(row, cursor) /\ (given = cursor \/ Below(cursor, given))
    BY <2>1 DEF LInv, Answering, Walking
  <2>3. row \in Keys /\ given \in Keys /\ cursor \in Keys
    BY <2>1 DEF LInv, TypeOK
  <2>4. QED
    BY <2>2, <2>3, BelowIsTransitive
<1>2. QED
  BY <1>1, ListingInvariant, PTL

(* A walk that has ended has given every row that was there when it began, *)
(* whatever imports added meanwhile (listByWallet).                        *)
THEOREM WalksSkipNothing == Spec => []WalkIsComplete
<1>1. LInv => WalkIsComplete
  BY DEF LInv, Walking, WalkIsComplete
<1>2. QED
  BY <1>1, ListingInvariant, PTL

(* A transaction is never shown without its legs (saveBatch).              *)
THEOREM LegsAreServed == Spec => []LegsComeAlong
<1>1. LInv => LegsComeAlong
  BY DEF LInv, LegsAreThere, LegsComeAlong
<1>2. QED
  BY <1>1, ListingInvariant, PTL

(* A cursor is only given when there is something to find with it.         *)
THEOREM CursorsLeadOn == Spec => []CursorLeadsOn
<1>1. LInv => CursorLeadsOn
  BY DEF LInv, Walking, CursorLeadsOn
<1>2. QED
  BY <1>1, ListingInvariant, PTL

=============================================================================
