---------------------- MODULE WalletRegistrationProofs ----------------------
(***************************************************************************)
(* What holds of every set of concurrent inserts and registrations: types, *)
(* the refinement of AtomicInserts, the step of ImportStore it makes of a  *)
(* chunk, and one wallet for one identity.                                 *)
(***************************************************************************)
EXTENDS WalletRegistration, TLAPS

-----------------------------------------------------------------------------
(* The inductive invariant of the inserts.                                 *)

(* A claim is a running transaction's, on a key the table does not have.   *)
ClaimsAreOpen ==
  \A k \in Keys : claim[k] # NoWriter => stage[claim[k]] = "running" /\ author[k] = NoWriter

(* What `returning` has is what the transaction has claimed, and once it   *)
(* is committed what it has written.                                       *)
ReturningIsHonest ==
  \A w \in Writers :
    /\ \A k \in Keys : k \in inserted[w] => k \in Range(Batch[w])
    /\ \A k \in Keys : claim[k] = w => k \in inserted[w]
    /\ stage[w] = "running" => \A k \in inserted[w] : claim[k] = w
    /\ stage[w] \in {"idle", "rolledBack"} => inserted[w] = {}
    /\ \A k \in Keys : author[k] = w <=> (stage[w] = "committed" /\ k \in inserted[w])

(* A row that a statement is past is in the table, or will be with it.     *)
PassedRowsAreThere ==
  \A w \in Writers :
    /\ stage[w] = "idle" => next[w] = 1
    /\ stage[w] \in {"running", "committed"} =>
         \A i \in DOMAIN Batch[w] :
           i < next[w] => author[Batch[w][i]] # NoWriter \/ claim[Batch[w][i]] = w
    /\ stage[w] = "committed" => ~HasRow(w)

InsertsInv ==
  InsertsTypeOK /\ ClaimsAreOpen /\ ReturningIsHonest /\ PassedRowsAreThere

LEMMA BatchRows ==
  ASSUME NEW w \in Writers
  PROVE  /\ Batch[w] \in Seq(Keys) /\ Len(Batch[w]) \in Nat
         /\ DOMAIN Batch[w] = 1 .. Len(Batch[w])
         /\ \A i \in DOMAIN Batch[w] : Batch[w][i] \in Keys /\ Batch[w][i] \in Range(Batch[w])
         /\ \A k \in Range(Batch[w]) : \E i \in DOMAIN Batch[w] : k = Batch[w][i]
         /\ w # NoWriter
BY InsertsAssumption DEF Range

LEMMA InsertsInitInv ==
  ASSUME InsertsInit
  PROVE  InsertsInv
<1>1. InsertsTypeOK
  BY DEF InsertsInit, InsertsTypeOK
<1>2. ClaimsAreOpen
  BY DEF InsertsInit, ClaimsAreOpen
<1>3. ReturningIsHonest
  BY InsertsAssumption DEF InsertsInit, ReturningIsHonest
<1>4. PassedRowsAreThere
  BY BatchRows DEF InsertsInit, PassedRowsAreThere
<1>5. QED
  BY <1>1, <1>2, <1>3, <1>4 DEF InsertsInv

LEMMA BeginKeepsInv ==
  ASSUME InsertsInv, NEW w \in Writers, Begin(w)
  PROVE  InsertsInv'
<1>1. InsertsTypeOK /\ ClaimsAreOpen /\ ReturningIsHonest /\ PassedRowsAreThere
  BY DEF InsertsInv
<1>2. /\ stage[w] = "idle" /\ stage' = [stage EXCEPT ![w] = "running"]
      /\ author' = author /\ claim' = claim /\ next' = next /\ inserted' = inserted
  BY DEF Begin, Move
<1>3. InsertsTypeOK'
  BY <1>1, <1>2 DEF InsertsTypeOK
<1>4. \A v \in Writers : stage'[v] = IF v = w THEN "running" ELSE stage[v]
  BY <1>1, <1>2 DEF InsertsTypeOK
<1>5. ClaimsAreOpen'
  BY <1>1, <1>2, <1>4 DEF ClaimsAreOpen, InsertsTypeOK
<1>6. ReturningIsHonest'
  BY <1>1, <1>2, <1>4 DEF ReturningIsHonest
<1>7. PassedRowsAreThere'
  <2>1. \A i \in DOMAIN Batch[w] : ~(i < next[w])
    BY <1>1, <1>2, BatchRows DEF PassedRowsAreThere
  <2>2. \A v \in Writers : HasRow(v)' = HasRow(v)
    BY <1>2 DEF HasRow
  <2>3. QED
    BY <1>1, <1>2, <1>4, <2>1, <2>2 DEF PassedRowsAreThere
<1>8. QED
  BY <1>3, <1>5, <1>6, <1>7 DEF InsertsInv

LEMMA InsertRowKeepsInv ==
  ASSUME InsertsInv, NEW w \in Writers, InsertRow(w)
  PROVE  InsertsInv'
<1>1. InsertsTypeOK /\ ClaimsAreOpen /\ ReturningIsHonest /\ PassedRowsAreThere
  BY DEF InsertsInv
<1> DEFINE row == Batch[w][next[w]]
<1>2. /\ stage[w] = "running" /\ HasRow(w)
      /\ author' = author /\ stage' = stage /\ next' = [next EXCEPT ![w] = @ + 1]
      /\ \/ /\ author[row] = NoWriter /\ claim[row] = NoWriter
            /\ claim' = [claim EXCEPT ![row] = w]
            /\ inserted' = [inserted EXCEPT ![w] = @ \cup {row}]
         \/ /\ author[row] # NoWriter \/ claim[row] = w
            /\ claim' = claim /\ inserted' = inserted
  BY DEF InsertRow, Row
<1>3. next[w] \in DOMAIN Batch[w] /\ row \in Keys /\ row \in Range(Batch[w]) /\ w # NoWriter
  BY <1>1, <1>2, BatchRows DEF InsertsTypeOK, HasRow
<1> HIDE DEF row
<1>4. InsertsTypeOK'
  BY <1>1, <1>2, <1>3 DEF InsertsTypeOK
<1>5. /\ \A k \in Keys : claim'[k] = claim[k] \/ (k = row /\ claim'[k] = w /\ claim[k] = NoWriter
                                                    /\ author[k] = NoWriter)
      /\ claim'[row] = w \/ author[row] # NoWriter
  BY <1>1, <1>2, <1>3 DEF InsertsTypeOK
<1>6. ClaimsAreOpen'
  BY <1>1, <1>2, <1>5 DEF ClaimsAreOpen
<1>7. ReturningIsHonest'
  <2>1. CASE claim' = claim /\ inserted' = inserted
    BY <1>1, <1>2, <2>1 DEF ReturningIsHonest
  <2>2. CASE /\ author[row] = NoWriter /\ claim[row] = NoWriter
             /\ claim' = [claim EXCEPT ![row] = w]
             /\ inserted' = [inserted EXCEPT ![w] = @ \cup {row}]
    <3>1. \A v \in Writers : inserted'[v] = IF v = w THEN inserted[v] \cup {row} ELSE inserted[v]
      BY <1>1, <2>2 DEF InsertsTypeOK
    <3>2. \A k \in Keys : claim'[k] = IF k = row THEN w ELSE claim[k]
      BY <1>1, <2>2 DEF InsertsTypeOK
    <3>3. \A v \in Writers : inserted[v] \subseteq Keys
      BY <1>1 DEF InsertsTypeOK
    <3> SUFFICES ASSUME NEW v \in Writers
                 PROVE  /\ \A k \in Keys : k \in inserted'[v] => k \in Range(Batch[v])
                        /\ \A k \in Keys : claim'[k] = v => k \in inserted'[v]
                        /\ stage'[v] = "running" => \A k \in inserted'[v] : claim'[k] = v
                        /\ stage'[v] \in {"idle", "rolledBack"} => inserted'[v] = {}
                        /\ \A k \in Keys : author'[k] = v <=>
                             (stage'[v] = "committed" /\ k \in inserted'[v])
      BY DEF ReturningIsHonest
    <3>4. CASE v = w
      <4>1. /\ inserted'[w] = inserted[w] \cup {row} /\ stage'[w] = "running"
            /\ author' = author
        BY <1>2, <3>1
      <4>2. /\ \A k \in Keys : k \in inserted[w] => k \in Range(Batch[w])
            /\ \A k \in Keys : claim[k] = w => k \in inserted[w]
            /\ \A k \in inserted[w] : claim[k] = w
            /\ \A k \in Keys : author[k] # w
        BY <1>1, <1>2 DEF ReturningIsHonest
      <4>3. \A k \in inserted[w] \cup {row} : claim'[k] = w
        BY <1>3, <3>2, <3>3, <4>2
      <4>4. QED
        BY <1>3, <3>2, <3>4, <4>1, <4>2, <4>3
    <3>5. CASE v # w
      BY <1>1, <1>2, <1>3, <2>2, <3>1, <3>2, <3>3, <3>5, InsertsAssumption DEF ReturningIsHonest
    <3>6. QED
      BY <3>4, <3>5
  <2>3. QED
    BY <1>2, <2>1, <2>2
<1>8. PassedRowsAreThere'
  <2>1. \A v \in Writers : next'[v] = IF v = w THEN next[v] + 1 ELSE next[v]
    BY <1>1, <1>2 DEF InsertsTypeOK
  <2> SUFFICES ASSUME NEW v \in Writers
               PROVE  /\ stage[v] = "idle" => next'[v] = 1
                      /\ stage[v] \in {"running", "committed"} =>
                           \A i \in DOMAIN Batch[v] : i < next'[v] =>
                             author[Batch[v][i]] # NoWriter \/ claim'[Batch[v][i]] = v
                      /\ stage[v] = "committed" => ~HasRow(v)'
    BY <1>2 DEF PassedRowsAreThere
  <2>2. CASE v = w
    <3>1. ASSUME NEW i \in DOMAIN Batch[w], i < next'[w]
          PROVE  author[Batch[w][i]] # NoWriter \/ claim'[Batch[w][i]] = w
      <4>1. i < next[w] \/ i = next[w]
        BY <1>1, <2>1, <3>1, BatchRows DEF InsertsTypeOK
      <4>2. CASE i < next[w]
        BY <1>1, <1>2, <1>5, <4>2, BatchRows DEF PassedRowsAreThere
      <4>3. CASE i = next[w]
        BY <1>5, <4>3 DEF row
      <4>4. QED
        BY <4>1, <4>2, <4>3
    <3>2. QED
      BY <1>2, <2>2, <3>1
  <2>3. CASE v # w
    <3>1. next'[v] = next[v] /\ (HasRow(v)' <=> HasRow(v))
      BY <2>1, <2>3 DEF HasRow
    <3>2. ASSUME NEW i \in DOMAIN Batch[v], claim[Batch[v][i]] = v
          PROVE  claim'[Batch[v][i]] = v
      BY <1>5, <3>2, BatchRows
    <3>3. /\ stage[v] = "idle" => next[v] = 1
          /\ stage[v] \in {"running", "committed"} =>
               \A i \in DOMAIN Batch[v] :
                 i < next[v] => author[Batch[v][i]] # NoWriter \/ claim[Batch[v][i]] = v
          /\ stage[v] = "committed" => ~HasRow(v)
      BY <1>1 DEF PassedRowsAreThere
    <3>4. QED
      BY <3>1, <3>2, <3>3
  <2>4. QED
    BY <2>2, <2>3
<1>9. QED
  BY <1>4, <1>6, <1>7, <1>8 DEF InsertsInv

LEMMA CommitKeepsInv ==
  ASSUME InsertsInv, NEW w \in Writers, Commit(w)
  PROVE  InsertsInv'
<1>1. InsertsTypeOK /\ ClaimsAreOpen /\ ReturningIsHonest /\ PassedRowsAreThere
  BY DEF InsertsInv
<1>2. /\ stage[w] = "running" /\ ~HasRow(w)
      /\ author' = [k \in Keys |-> IF claim[k] = w THEN w ELSE author[k]]
      /\ claim' = [k \in Keys |-> IF claim[k] = w THEN NoWriter ELSE claim[k]]
      /\ stage' = [stage EXCEPT ![w] = "committed"]
      /\ next' = next /\ inserted' = inserted
  BY DEF Commit, Release, Move
<1>3. InsertsTypeOK'
  BY <1>1, <1>2 DEF InsertsTypeOK
<1>4. \A v \in Writers : stage'[v] = IF v = w THEN "committed" ELSE stage[v]
  BY <1>1, <1>2 DEF InsertsTypeOK
<1>5. /\ \A k \in Keys : author'[k] = IF claim[k] = w THEN w ELSE author[k]
      /\ \A k \in Keys : claim'[k] = IF claim[k] = w THEN NoWriter ELSE claim[k]
  BY <1>2
<1>6. \A v \in Writers : v # NoWriter /\ inserted[v] \subseteq Keys
  BY <1>1, InsertsAssumption DEF InsertsTypeOK
<1>7. ClaimsAreOpen'
  BY <1>1, <1>4, <1>5 DEF ClaimsAreOpen, InsertsTypeOK
<1>8. ReturningIsHonest'
  <2> SUFFICES ASSUME NEW v \in Writers
               PROVE  /\ \A k \in Keys : k \in inserted[v] => k \in Range(Batch[v])
                      /\ \A k \in Keys : claim'[k] = v => k \in inserted[v]
                      /\ stage'[v] = "running" => \A k \in inserted[v] : claim'[k] = v
                      /\ stage'[v] \in {"idle", "rolledBack"} => inserted[v] = {}
                      /\ \A k \in Keys : author'[k] = v <=>
                           (stage'[v] = "committed" /\ k \in inserted[v])
    BY <1>2 DEF ReturningIsHonest
  <2>1. CASE v = w
    BY <1>1, <1>2, <1>4, <1>5, <1>6, <2>1 DEF ReturningIsHonest
  <2>2. CASE v # w
    <3>1. \A k \in Keys : claim[k] = w => author[k] = NoWriter
      BY <1>1, <1>6 DEF ClaimsAreOpen
    <3>2. \A k \in Keys : author'[k] = v <=> author[k] = v
      BY <1>5, <1>6, <2>2, <3>1
    <3>3. QED
      BY <1>1, <1>2, <1>4, <1>5, <1>6, <2>2, <3>2 DEF ReturningIsHonest
  <2>3. QED
    BY <2>1, <2>2
<1>9. PassedRowsAreThere'
  <2>1. \A v \in Writers : HasRow(v)' = HasRow(v)
    BY <1>2 DEF HasRow
  <2>2. ASSUME NEW v \in Writers, NEW i \in DOMAIN Batch[v],
               author[Batch[v][i]] # NoWriter \/ claim[Batch[v][i]] = v
        PROVE  author'[Batch[v][i]] # NoWriter \/ claim'[Batch[v][i]] = v
    BY <1>5, <1>6, <2>2, BatchRows
  <2>3. QED
    BY <1>1, <1>2, <1>4, <2>1, <2>2 DEF PassedRowsAreThere
<1>10. QED
  BY <1>3, <1>7, <1>8, <1>9 DEF InsertsInv

LEMMA RollBackKeepsInv ==
  ASSUME InsertsInv, NEW w \in Writers, stage[w] = "running", RollBack(w)
  PROVE  InsertsInv'
<1>1. InsertsTypeOK /\ ClaimsAreOpen /\ ReturningIsHonest /\ PassedRowsAreThere
  BY DEF InsertsInv
<1>2. /\ claim' = [k \in Keys |-> IF claim[k] = w THEN NoWriter ELSE claim[k]]
      /\ stage' = [stage EXCEPT ![w] = "rolledBack"]
      /\ inserted' = [inserted EXCEPT ![w] = {}]
      /\ next' = next /\ author' = author
  BY DEF RollBack, Release, Move
<1>3. InsertsTypeOK'
  BY <1>1, <1>2 DEF InsertsTypeOK
<1>4. /\ \A v \in Writers : stage'[v] = IF v = w THEN "rolledBack" ELSE stage[v]
      /\ \A v \in Writers : inserted'[v] = IF v = w THEN {} ELSE inserted[v]
  BY <1>1, <1>2 DEF InsertsTypeOK
<1>5. \A k \in Keys : claim'[k] = IF claim[k] = w THEN NoWriter ELSE claim[k]
  BY <1>2
<1>6. \A v \in Writers : v # NoWriter /\ inserted[v] \subseteq Keys
  BY <1>1, InsertsAssumption DEF InsertsTypeOK
<1>7. ClaimsAreOpen'
  BY <1>1, <1>2, <1>4, <1>5 DEF ClaimsAreOpen, InsertsTypeOK
<1>8. ReturningIsHonest'
  <2> SUFFICES ASSUME NEW v \in Writers
               PROVE  /\ \A k \in Keys : k \in inserted'[v] => k \in Range(Batch[v])
                      /\ \A k \in Keys : claim'[k] = v => k \in inserted'[v]
                      /\ stage'[v] = "running" => \A k \in inserted'[v] : claim'[k] = v
                      /\ stage'[v] \in {"idle", "rolledBack"} => inserted'[v] = {}
                      /\ \A k \in Keys : author[k] = v <=>
                           (stage'[v] = "committed" /\ k \in inserted'[v])
    BY <1>2 DEF ReturningIsHonest
  <2>1. CASE v = w
    BY <1>1, <1>4, <1>5, <1>6, <2>1 DEF ReturningIsHonest
  <2>2. CASE v # w
    BY <1>1, <1>4, <1>5, <1>6, <2>2 DEF ReturningIsHonest
  <2>3. QED
    BY <2>1, <2>2
<1>9. PassedRowsAreThere'
  <2>1. \A v \in Writers : HasRow(v)' = HasRow(v)
    BY <1>2 DEF HasRow
  <2>2. ASSUME NEW v \in Writers, v # w, NEW i \in DOMAIN Batch[v], claim[Batch[v][i]] = v
        PROVE  claim'[Batch[v][i]] = v
    BY <1>5, <2>2, BatchRows
  <2>3. QED
    BY <1>1, <1>2, <1>4, <2>1, <2>2 DEF PassedRowsAreThere
<1>10. QED
  BY <1>3, <1>7, <1>8, <1>9 DEF InsertsInv

LEMMA VictimRuns ==
  ASSUME BreakDeadlock
  PROVE  \E w \in Writers : stage[w] = "running" /\ RollBack(w)
<1>1. PICK S \in SUBSET Waiting : \E w \in S : RollBack(w)
  BY DEF BreakDeadlock
<1>2. QED
  BY <1>1 DEF Waiting, WaitsFor

(* Every step on the tables is one writer's.                               *)
LEMMA StepsOfInserts ==
  ASSUME [Next]_vars
  PROVE  \/ \E w \in Writers : \/ Begin(w) \/ InsertRow(w) \/ Commit(w)
                               \/ stage[w] = "running" /\ RollBack(w)
         \/ UNCHANGED insertVars
BY VictimRuns, RegistrationAssumption
   DEF Next, vars, RequestStep, Register, TakeInserted, ReadBack, Statements, Savers, FailInsert

LEMMA InsertsKeepInv ==
  ASSUME InsertsInv, [Next]_vars
  PROVE  InsertsInv'
<1>1. CASE UNCHANGED insertVars
  BY <1>1 DEF insertVars, InsertsInv, InsertsTypeOK, ClaimsAreOpen, ReturningIsHonest,
              PassedRowsAreThere, HasRow
<1>2. QED
  BY <1>1, StepsOfInserts, BeginKeepsInv, InsertRowKeepsInv, CommitKeepsInv, RollBackKeepsInv

-----------------------------------------------------------------------------
(* The refinement of AtomicInserts.                                        *)

Outcomes == [w \in Writers |-> Outcome(w)]

Told == [w \in Writers |-> IF Outcome(w) = "open" THEN {} ELSE inserted[w]]

LEMMA CommitIsInsert ==
  ASSUME InsertsInv, NEW w \in Writers, Commit(w)
  PROVE  Atomic!Insert(w)
<1>1. InsertsTypeOK /\ ClaimsAreOpen /\ ReturningIsHonest /\ PassedRowsAreThere
  BY DEF InsertsInv
<1>2. /\ stage[w] = "running" /\ ~HasRow(w)
      /\ author' = [k \in Keys |-> IF claim[k] = w THEN w ELSE author[k]]
      /\ stage' = [stage EXCEPT ![w] = "committed"]
      /\ inserted' = inserted
  BY DEF Commit, Release, Move
<1>3. \A k \in Keys : claim[k] = w <=> k \in inserted[w]
  BY <1>1, <1>2 DEF ReturningIsHonest
<1>4. inserted[w] \subseteq Keys
  BY <1>1 DEF InsertsTypeOK
<1>5. \A i \in DOMAIN Batch[w] : author[Batch[w][i]] # NoWriter \/ claim[Batch[w][i]] = w
  <2>1. \A i \in DOMAIN Batch[w] : i < next[w]
    BY <1>1, <1>2, BatchRows DEF HasRow, InsertsTypeOK
  <2>2. QED
    BY <1>1, <1>2, <2>1 DEF PassedRowsAreThere
<1>6. Atomic!New(w) = inserted[w]
  <2>1. ASSUME NEW k \in Range(Batch[w]), author[k] = NoWriter PROVE k \in inserted[w]
    <3>1. PICK i \in DOMAIN Batch[w] : k = Batch[w][i]
      BY BatchRows
    <3>2. k \in Keys
      BY <3>1, BatchRows
    <3>3. QED
      BY <1>3, <1>5, <2>1, <3>1, <3>2
  <2>2. ASSUME NEW k \in inserted[w] PROVE k \in Range(Batch[w]) /\ author[k] = NoWriter
    <3>1. k \in Keys /\ claim[k] = w /\ w # NoWriter
      BY <1>3, <1>4, BatchRows
    <3>2. QED
      BY <1>1, <3>1 DEF ClaimsAreOpen, ReturningIsHonest
  <2>3. QED
    BY <2>1, <2>2 DEF Atomic!New, Atomic!Range, Range
<1>7. author' = [k \in Keys |-> IF k \in inserted[w] THEN w ELSE author[k]]
  BY <1>2, <1>3
<1>8. \A v \in Writers : stage'[v] = IF v = w THEN "committed" ELSE stage[v]
  BY <1>1, <1>2 DEF InsertsTypeOK
<1>9. Outcomes[w] = "open" /\ Outcomes' = [Outcomes EXCEPT ![w] = "committed"]
  <2>1. \A v \in Writers : Outcome(v)' = IF v = w THEN "committed" ELSE Outcome(v)
    BY <1>8 DEF Outcome
  <2>2. QED
    BY <1>2, <2>1 DEF Outcomes, Outcome
<1>10. Told' = [Told EXCEPT ![w] = inserted[w]]
  <2>1. \A v \in Writers : Outcome(v)' = IF v = w THEN "committed" ELSE Outcome(v)
    BY <1>8 DEF Outcome
  <2>2. QED
    BY <1>2, <2>1 DEF Told
<1>11. QED
  BY <1>6, <1>7, <1>9, <1>10 DEF Atomic!Insert, Outcomes, Told

LEMMA RollBackIsAbandon ==
  ASSUME InsertsInv, NEW w \in Writers, stage[w] = "running", RollBack(w)
  PROVE  Atomic!Abandon(w)
<1>1. InsertsTypeOK
  BY DEF InsertsInv
<1>2. /\ stage' = [stage EXCEPT ![w] = "rolledBack"]
      /\ inserted' = [inserted EXCEPT ![w] = {}]
      /\ author' = author
  BY DEF RollBack, Move
<1>3. /\ \A v \in Writers : stage'[v] = IF v = w THEN "rolledBack" ELSE stage[v]
      /\ \A v \in Writers : inserted'[v] = IF v = w THEN {} ELSE inserted[v]
  BY <1>1, <1>2 DEF InsertsTypeOK
<1>4. Outcomes[w] = "open" /\ Outcomes' = [Outcomes EXCEPT ![w] = "rolledBack"]
  BY <1>3 DEF Outcomes, Outcome
<1>5. Told' = Told
  BY <1>3 DEF Told, Outcome
<1>6. QED
  BY <1>2, <1>4, <1>5 DEF Atomic!Abandon, Outcomes, Told

LEMMA QuietInserts ==
  ASSUME InsertsInv, NEW w \in Writers, Begin(w) \/ InsertRow(w)
  PROVE  UNCHANGED Atomic!vars
<1>1. InsertsTypeOK
  BY DEF InsertsInv
<1>2. author' = author /\ \A v \in Writers : Outcome(v)' = Outcome(v)
  BY <1>1 DEF Begin, InsertRow, Move, Outcome, InsertsTypeOK
<1>3. \A v \in Writers : Outcome(v) # "open" => inserted'[v] = inserted[v]
  BY <1>1 DEF Begin, InsertRow, Outcome, InsertsTypeOK
<1>4. Outcomes' = Outcomes /\ Told' = Told
  BY <1>2, <1>3 DEF Outcomes, Told
<1>5. QED
  BY <1>2, <1>4 DEF Atomic!vars, Outcomes, Told

(* However the inserts of concurrent statements interleave, wait, deadlock *)
(* and fail, each batch goes in at one instant or not at all, and          *)
(* `returning` names the rows that are new then (transaction.repository.ts *)
(* and wallet.repository.ts).                                              *)
THEOREM InsertsImplementAtomic == Spec => InsertsAreAtomic
<1>1. Init => InsertsInv
  BY InsertsInitInv DEF Init
<1>2. InsertsInv /\ [Next]_vars => InsertsInv'
  BY InsertsKeepInv
<1>3. Init => Atomic!Init
  BY DEF Init, InsertsInit, Atomic!Init, Outcome
<1>4. InsertsInv /\ [Next]_vars => [Atomic!Next]_Atomic!vars
  <2> SUFFICES ASSUME InsertsInv, [Next]_vars PROVE [Atomic!Next]_Atomic!vars
    OBVIOUS
  <2>1. CASE UNCHANGED insertVars
    BY <2>1 DEF insertVars, Atomic!vars, Outcome
  <2>2. QED
    BY <2>1, StepsOfInserts, QuietInserts, CommitIsInsert, RollBackIsAbandon DEF Atomic!Next
<1>5. QED
  BY <1>1, <1>2, <1>3, <1>4, PTL DEF Spec, InsertsAreAtomic, Atomic!Spec

-----------------------------------------------------------------------------
(* The seam to ImportStore.                                                *)

(* The transactions table as ImportStore sees it, when a writer saves a    *)
(* chunk of the import importOf gives it: a row is named after that import.*)
StoredAs(importOf, none) ==
  [r \in Keys |-> IF author[r] = NoWriter THEN none ELSE importOf[author[r]]]

Table(importOf, none) == INSTANCE ImportStore WITH
  Keys    <- {importOf[w] : w \in Writers},
  Rows    <- Keys,
  NoKey   <- none,
  stored  <- StoredAs(importOf, none),
  Bodies  <- {}, Chunks <- <<>>, NoBody <- none, imports <- <<>>

(* What SaveBatch of ImportStore does in one step is what saveBatch does   *)
(* in several: whatever other chunks are being inserted, rolled back or    *)
(* waited for, the table changes by whole batches only, each taken over    *)
(* the table it finds, and `returning` names what is new of it.            *)
THEOREM BatchesAreSavedWhole ==
  ASSUME NEW importOf, NEW none, \A w \in Writers : importOf[w] # none
  PROVE  Spec => [][\/ UNCHANGED StoredAs(importOf, none)
                    \/ \E w \in Writers :
                         /\ Table(importOf, none)!SaveBatch(importOf[w], Batch[w])
                         /\ inserted'[w] = Table(importOf, none)!Inserted(Batch[w])]_vars
<1>1. ASSUME InsertsInv, NEW w \in Writers, Atomic!Insert(w)
      PROVE  /\ Table(importOf, none)!SaveBatch(importOf[w], Batch[w])
             /\ Told'[w] = Table(importOf, none)!Inserted(Batch[w])
  <2>1. /\ author' = [r \in Keys |-> IF r \in Atomic!New(w) THEN w ELSE author[r]]
        /\ Told'[w] = Atomic!New(w)
    BY <1>1 DEF Atomic!Insert, Told
  <2>2. \A r \in Keys : author[r] # NoWriter => author[r] \in Writers
    BY <1>1 DEF InsertsInv, InsertsTypeOK
  <2>3. \A r \in Keys : author[r] = NoWriter <=> StoredAs(importOf, none)[r] = none
    BY <2>2 DEF StoredAs
  <2>4. Atomic!New(w) = Table(importOf, none)!Inserted(Batch[w])
    BY <2>3, BatchRows
       DEF Atomic!New, Atomic!Range, Table!Inserted, Table!Range, Table!IsStored, Range
  <2>5. w # NoWriter
    BY BatchRows
  <2>6. StoredAs(importOf, none)' =
          [r \in Keys |-> IF r \in Atomic!New(w) THEN importOf[w] ELSE StoredAs(importOf, none)[r]]
    BY <2>1, <2>5 DEF StoredAs
  <2>7. QED
    BY <2>1, <2>4, <2>6 DEF Table!SaveBatch
<1>2. ASSUME InsertsInv, NEW w \in Writers, Commit(w)
      PROVE  /\ Table(importOf, none)!SaveBatch(importOf[w], Batch[w])
             /\ inserted'[w] = Table(importOf, none)!Inserted(Batch[w])
  <2>1. Told'[w] = inserted'[w]
    BY <1>2 DEF Commit, Move, InsertsInv, InsertsTypeOK, Told, Outcome
  <2>2. QED
    BY <1>1, <1>2, <2>1, CommitIsInsert
<1>3. ASSUME InsertsInv, author' = author
      PROVE  UNCHANGED StoredAs(importOf, none)
  BY <1>3 DEF StoredAs
<1>4. InsertsInv /\ [Next]_vars
        => [\/ UNCHANGED StoredAs(importOf, none)
            \/ \E w \in Writers :
                 /\ Table(importOf, none)!SaveBatch(importOf[w], Batch[w])
                 /\ inserted'[w] = Table(importOf, none)!Inserted(Batch[w])]_vars
  BY <1>2, <1>3, StepsOfInserts DEF insertVars, Begin, InsertRow, RollBack
<1>5. Init => InsertsInv
  BY InsertsInitInv DEF Init
<1>6. InsertsInv /\ [Next]_vars => InsertsInv'
  BY InsertsKeepInv
<1>7. QED
  BY <1>4, <1>5, <1>6, PTL DEF Spec

-----------------------------------------------------------------------------
(* The requests.                                                           *)

AnswersAreRows ==
  /\ phase \in [Requests -> Phases]
  /\ wallet \in [Requests -> Requests \cup {NoWriter}]
  /\ \A q \in Requests :
       /\ phase[q] = "readBack" => stage[q] = "committed"
       /\ phase[q] # "unreadable"
       /\ phase[q] = "created" => wallet[q] = q
       /\ Registered(q) => wallet[q] = author[Identity(q)] /\ wallet[q] # NoWriter

RegistrationInv == InsertsInv /\ AnswersAreRows

LEMMA RequestRows ==
  ASSUME NEW q \in Requests
  PROVE  /\ q \in Writers /\ Identity(q) \in Keys
         /\ DOMAIN Batch[q] = {1} /\ Batch[q][1] = Identity(q) /\ Len(Batch[q]) = 1
         /\ Range(Batch[q]) = {Identity(q)}
<1>1. q \in Writers /\ Identity(q) \in Keys /\ Batch[q] = <<Identity(q)>>
  BY RegistrationAssumption
<1>2. QED
  BY <1>1 DEF Range

(* Whoever wrote the row of a request's identity is a request for it.      *)
LEMMA RowsOfRequests ==
  ASSUME InsertsInv, NEW q \in Requests, author[Identity(q)] # NoWriter
  PROVE  /\ author[Identity(q)] \in Requests
         /\ Identity(author[Identity(q)]) = Identity(q)
<1> DEFINE w == author[Identity(q)]
<1>1. Identity(q) \in Keys /\ w \in Writers
  BY RequestRows DEF InsertsInv, InsertsTypeOK
<1>2. Identity(q) \in Range(Batch[w])
  BY <1>1 DEF InsertsInv, ReturningIsHonest
<1>3. w \in Requests
  BY <1>1, <1>2, RegistrationAssumption DEF Savers
<1>4. QED
  BY <1>2, <1>3, RequestRows

(* A committed request has its row, or finds somebody else's.              *)
LEMMA CommittedRows ==
  ASSUME InsertsInv, NEW q \in Requests, stage[q] = "committed"
  PROVE  /\ author[Identity(q)] # NoWriter
         /\ inserted[q] # {} => author[Identity(q)] = q
<1>1. InsertsTypeOK /\ ClaimsAreOpen /\ ReturningIsHonest /\ PassedRowsAreThere
  BY DEF InsertsInv
<1>2. q \in Writers /\ q # NoWriter /\ inserted[q] \subseteq Keys /\ next[q] \in Nat
  BY <1>1, RequestRows, BatchRows DEF InsertsTypeOK
<1>3. claim[Identity(q)] # q
  BY <1>1, <1>2, RequestRows DEF ClaimsAreOpen
<1>4. 1 \in DOMAIN Batch[q] /\ 1 < next[q] /\ Batch[q][1] = Identity(q)
  BY <1>1, <1>2, RequestRows DEF PassedRowsAreThere, HasRow
<1>5. author[Identity(q)] # NoWriter
  BY <1>1, <1>2, <1>3, <1>4 DEF PassedRowsAreThere
<1>6. \A k \in inserted[q] : author[k] = q /\ k = Identity(q)
  BY <1>1, <1>2, RequestRows DEF ReturningIsHonest
<1>7. QED
  BY <1>5, <1>6

(* A row, once there, keeps its author, and what is committed stays so.    *)
LEMMA RowsStay ==
  ASSUME InsertsInv, [Next]_vars
  PROVE  /\ \A k \in Keys : author[k] # NoWriter => author'[k] = author[k]
         /\ \A w \in Writers : stage[w] = "committed" => stage'[w] = "committed"
<1>1. InsertsTypeOK /\ ClaimsAreOpen /\ NoWriter \notin Writers
  BY InsertsAssumption DEF InsertsInv
<1>2. CASE UNCHANGED insertVars
  BY <1>2 DEF insertVars
<1>3. ASSUME NEW w \in Writers, Begin(w) \/ InsertRow(w) \/ (stage[w] = "running" /\ RollBack(w))
      PROVE  /\ author' = author
             /\ \A v \in Writers : stage[v] = "committed" => stage'[v] = "committed"
  BY <1>1, <1>3 DEF Begin, InsertRow, RollBack, Move, InsertsTypeOK
<1>4. ASSUME NEW w \in Writers, Commit(w)
      PROVE  /\ \A k \in Keys : author[k] # NoWriter => author'[k] = author[k]
             /\ \A v \in Writers : stage[v] = "committed" => stage'[v] = "committed"
  BY <1>1, <1>4 DEF Commit, Move, InsertsTypeOK, ClaimsAreOpen
<1>5. QED
  BY <1>2, <1>3, <1>4, StepsOfInserts

LEMMA AnswersInit ==
  ASSUME Init
  PROVE  AnswersAreRows
BY DEF Init, AnswersAreRows, Phases, Registered

LEMMA AnswersKeep ==
  ASSUME RegistrationInv, [Next]_vars
  PROVE  AnswersAreRows'
<1>1. InsertsInv /\ AnswersAreRows
  BY DEF RegistrationInv
<1>2. /\ \A q \in Requests : q \in Writers /\ Identity(q) \in Keys /\ q # NoWriter
      /\ author \in [Keys -> Writers \cup {NoWriter}]
  BY <1>1, RequestRows, BatchRows DEF InsertsInv, InsertsTypeOK
<1>3. /\ \A q \in Requests :
           author[Identity(q)] # NoWriter => author'[Identity(q)] = author[Identity(q)]
      /\ \A q \in Requests : stage[q] = "committed" => stage'[q] = "committed"
  BY <1>1, <1>2, RowsStay
<1>4. CASE UNCHANGED <<phase, wallet>>
  BY <1>1, <1>3, <1>4 DEF AnswersAreRows, Registered
<1>5. ASSUME NEW p \in Requests, RequestStep(p)
      PROVE  AnswersAreRows'
  <2> DEFINE row == author[Identity(p)]
  <2>1. \/ phase' = [phase EXCEPT ![p] = "create"] /\ wallet' = wallet
        \/ phase' = [phase EXCEPT ![p] = "refused"] /\ wallet' = wallet
        \/ phase' = [phase EXCEPT ![p] = "failed"] /\ wallet' = wallet
        \/ /\ stage[p] = "committed"
           /\ phase' = [phase EXCEPT ![p] = "readBack"] /\ wallet' = wallet
        \/ /\ row = p
           /\ phase' = [phase EXCEPT ![p] = "created"]
           /\ wallet' = [wallet EXCEPT ![p] = p]
        \/ /\ row # NoWriter
           /\ phase' = [phase EXCEPT ![p] = "found"]
           /\ wallet' = [wallet EXCEPT ![p] = row]
    <3>1. CASE Register(p)
      BY <3>1 DEF Register, Enter
    <3>2. CASE TakeInserted(p)
      BY <1>1, <3>2, CommittedRows DEF TakeInserted, Enter, Answer
    <3>3. CASE ReadBack(p)
      <4>1. stage[p] = "committed"
        BY <1>1, <3>3 DEF ReadBack, AnswersAreRows
      <4>2. row # NoWriter
        BY <1>1, <4>1, CommittedRows
      <4>3. QED
        BY <3>3, <4>2 DEF ReadBack, Enter, Answer
    <3>4. QED
      BY <1>5, <3>1, <3>2, <3>3 DEF RequestStep
  <2>2. row \in Requests \cup {NoWriter} /\ p \in Writers /\ p # NoWriter
    BY <1>1, <1>2, RowsOfRequests
  <2>3. (row # NoWriter => author'[Identity(p)] = row)
    BY <1>3
  <2> HIDE DEF row
  <2>4. /\ phase' \in [Requests -> Phases]
        /\ wallet' \in [Requests -> Requests \cup {NoWriter}]
    BY <1>1, <2>1, <2>2 DEF AnswersAreRows, Phases
  <2>5. \A q \in Requests : q # p => phase'[q] = phase[q] /\ wallet'[q] = wallet[q]
    BY <1>1, <2>1 DEF AnswersAreRows
  <2>6. \/ phase'[p] \in {"create", "refused", "failed"}
        \/ phase'[p] = "readBack" /\ stage[p] = "committed"
        \/ phase'[p] = "created" /\ wallet'[p] = p /\ row = p
        \/ phase'[p] = "found" /\ wallet'[p] = row /\ row # NoWriter
    BY <1>1, <2>1 DEF AnswersAreRows
  <2>7. ASSUME NEW q \in Requests
        PROVE  /\ phase'[q] = "readBack" => stage'[q] = "committed"
               /\ phase'[q] # "unreadable"
               /\ phase'[q] = "created" => wallet'[q] = q
               /\ phase'[q] \in {"created", "found"} =>
                    wallet'[q] = author'[Identity(q)] /\ wallet'[q] # NoWriter
    <3>1. CASE q = p
      BY <1>3, <2>2, <2>3, <2>6, <3>1
    <3>2. CASE q # p
      BY <1>1, <1>3, <2>5, <3>2 DEF AnswersAreRows, Registered
    <3>3. QED
      BY <3>1, <3>2
  <2>8. QED
    BY <2>4, <2>7 DEF AnswersAreRows, Registered, Identity
<1>6. QED
  BY <1>4, <1>5 DEF Next, vars

LEMMA RegistrationInvariant == Spec => []RegistrationInv
<1>1. Init => RegistrationInv
  BY InsertsInitInv, AnswersInit DEF Init, RegistrationInv
<1>2. RegistrationInv /\ [Next]_vars => RegistrationInv'
  BY InsertsKeepInv, AnswersKeep DEF RegistrationInv
<1>3. QED
  BY <1>1, <1>2, PTL DEF Spec

(* Claims, rows and answers keep to their types; in particular nobody is   *)
(* answered 201 or 200 without a wallet (register-wallet.use-case.ts).     *)
THEOREM RegistrationTypeCorrect == Spec => []TypeOK
<1>1. RegistrationInv => TypeOK
  <2> SUFFICES ASSUME RegistrationInv PROVE TypeOK
    OBVIOUS
  <2>1. InsertsInv /\ AnswersAreRows
    BY DEF RegistrationInv
  <2>2. QED
    BY <2>1 DEF TypeOK, InsertsInv, AnswersAreRows
<1>2. QED
  BY <1>1, RegistrationInvariant, PTL

(* Requests for one wallet, racing or repeated, are all given the one that *)
(* is in the table, and at most one is told that it created it             *)
(* (wallet.repository.ts).                                                 *)
THEOREM OneWalletForAll == Spec => []OneWallet
<1>1. RegistrationInv => OneWallet
  BY DEF RegistrationInv, AnswersAreRows, OneWallet, Registered
<1>2. QED
  BY <1>1, RegistrationInvariant, PTL

(* The row that made an insert return nothing is there to be read back,    *)
(* and is the requester's own (findByIdentity in wallet.repository.ts).    *)
THEOREM ReadBackAlwaysFinds == Spec => []ReadBackFinds
<1>1. RegistrationInv => ReadBackFinds
  <2> SUFFICES ASSUME RegistrationInv, NEW q \in Requests
               PROVE  /\ phase[q] # "unreadable"
                      /\ Registered(q) => Command[wallet[q]].user = Command[q].user
    BY DEF ReadBackFinds
  <2>1. InsertsInv /\ AnswersAreRows
    BY DEF RegistrationInv
  <2>2. \A r \in Requests : Identity(r).user = Command[r].user
    BY RegistrationAssumption DEF Identity
  <2>3. ASSUME Registered(q)
        PROVE  wallet[q] \in Requests /\ Identity(wallet[q]) = Identity(q)
    BY <2>1, <2>3, RowsOfRequests DEF AnswersAreRows
  <2>4. QED
    BY <2>1, <2>2, <2>3 DEF AnswersAreRows
<1>2. QED
  BY <1>1, RegistrationInvariant, PTL

=============================================================================
