------------------------- MODULE WorkerProcessProofs -------------------------
(***************************************************************************)
(* Proofs about WorkerProcess, for every prefetch, every size of the pool  *)
(* and every number of statements.                                         *)
(***************************************************************************)
EXTENDS WorkerProcess, TLAPS

(* Where a slot that waits for a connection, runs a statement or holds a   *)
(* lock may stand; and where it must hold its lock.                        *)
HoldsWhatItShould ==
  \A s \in Slots :
    /\ s \in waiting => phase[s] \in {"find", "lock", "work", "record"} /\ s \notin using
    /\ s \in using => phase[s] \in {"find", "work", "record"}
    /\ s \in locking => phase[s] \in {"lock", "hold", "work", "unlock"}
    /\ phase[s] \in {"hold", "work", "unlock"} => s \in locking
    /\ phase[s] = "lock" => (s \in waiting <=> s \notin locking)

PInv == TypeOK /\ HoldsWhatItShould

LEMMA SlotKeeps ==
  ASSUME PInv, NEW s \in Slots, Grant(s) \/ TimeOut(s) \/ Deliver(s) \/ Handle(s)
  PROVE  PInv'
<1> USE ProcessAssumption DEF PInv, TypeOK, HoldsWhatItShould, Phase, Goto, Ask, poolVars
<1>1. CASE Grant(s)
  BY <1>1 DEF Grant
<1>2. CASE TimeOut(s)
  BY <1>2 DEF TimeOut
<1>3. CASE Deliver(s)
  BY <1>3 DEF Deliver
<1>4. CASE Find(s)
  BY <1>4 DEF Find
<1>5. CASE TakeLock(s)
  BY <1>5 DEF TakeLock
<1>6. CASE RefuseLock(s)
  BY <1>6 DEF RefuseLock
<1>7. CASE StartStatement(s)
  BY <1>7 DEF StartStatement
<1>8. CASE EndStatement(s)
  BY <1>8 DEF EndStatement
<1>9. CASE EndAttempt(s)
  BY <1>9 DEF EndAttempt
<1>10. CASE Unlock(s)
  BY <1>10 DEF Unlock
<1>11. CASE Settle(s)
  BY <1>11 DEF Settle
<1>12. CASE Record(s)
  BY <1>12 DEF Record
<1>13. QED
  BY <1>1, <1>2, <1>3, <1>4, <1>5, <1>6, <1>7, <1>8, <1>9, <1>10, <1>11, <1>12 DEF Handle

(* Every step keeps the invariant.                                         *)
THEOREM ProcessInvariant == Spec => []PInv
<1>1. Init => PInv
  BY ProcessAssumption DEF Init, PInv, TypeOK, HoldsWhatItShould, Phase
<1>2. PInv /\ [Next]_vars => PInv'
  <2> SUFFICES ASSUME PInv, [Next]_vars PROVE PInv'
    OBVIOUS
  <2>1. CASE Stop \/ Close \/ UNCHANGED vars
    BY <2>1 DEF PInv, TypeOK, HoldsWhatItShould, Stop, Close, vars, poolVars
  <2>2. CASE BrokerLost
    BY <2>2 DEF PInv, TypeOK, HoldsWhatItShould, Phase, BrokerLost
  <2>3. QED
    BY <2>1, <2>2, SlotKeeps DEF Next
<1>3. QED
  BY <1>1, <1>2, PTL DEF Spec

(* Every variable stays in its type.                                       *)
THEOREM ProcessTypeCorrect == Spec => []TypeOK
<1>1. PInv => TypeOK
  BY DEF PInv
<1>2. QED
  BY <1>1, ProcessInvariant, PTL

(* A settled message keeps no connection, and an attempt keeps its lock's  *)
(* (withImportLock, handleMessage).                                        *)
THEOREM NoConnectionLeaks == Spec => []ConnectionsComeBack
<1>1. PInv => ConnectionsComeBack
  BY DEF PInv, HoldsWhatItShould, ConnectionsComeBack
<1>2. QED
  BY <1>1, ProcessInvariant, PTL

(* A wedged pool stays wedged until the pool turns a statement of one of   *)
(* its attempts away, or the process exits: no other message, no statement *)
(* and no shutdown breaks the wait.  So with a prefetch that is not below  *)
(* the size of the pool the worker rests on connectionTimeoutMillis.       *)
THEOREM OnlyTimersBreakWedges ==
  Spec => [][Wedged => \/ Wedged'
                       \/ \E s \in locking : TimeOut(s)
                       \/ BrokerLost]_vars
<1>1. ASSUME PInv, Wedged, NEW s \in Slots, Grant(s) \/ TimeOut(s) \/ Deliver(s) \/ Handle(s),
             ~(s \in locking /\ TimeOut(s))
      PROVE  Wedged'
  <2>1. ~Free /\ using = {} /\ locking \subseteq waiting
    BY <1>1 DEF Wedged
  <2>2. ~Grant(s)
    BY <2>1 DEF Grant
  <2>3. s \in locking => s \in waiting /\ phase[s] = "work"
    BY <1>1, <2>1 DEF PInv, HoldsWhatItShould
  <2>4. /\ phase[s] \in {"hold", "unlock"} => s \in locking
        /\ phase[s] = "lock" => s \notin locking
    BY <1>1, <2>1, <2>3 DEF PInv, HoldsWhatItShould
  <2>5. /\ ~Find(s) /\ ~TakeLock(s) /\ ~RefuseLock(s) /\ ~StartStatement(s)
        /\ ~EndStatement(s) /\ ~EndAttempt(s) /\ ~Unlock(s) /\ ~Record(s)
    BY <2>1, <2>3, <2>4
       DEF Find, TakeLock, RefuseLock, StartStatement, EndStatement, EndAttempt, Unlock, Record
  <2>6. (TimeOut(s) /\ s \notin locking) \/ Deliver(s) \/ Settle(s)
    BY <1>1, <2>2, <2>5 DEF Handle
  <2>7. /\ using' = using /\ locking' = locking
        /\ waiting' = waiting \cup {s} \/ waiting' = waiting
           \/ (waiting' = waiting \ {s} /\ s \notin locking)
    BY <2>6 DEF TimeOut, Deliver, Settle, Ask
  <2>8. Free' = Free
    BY <2>7 DEF Free
  <2>9. QED
    BY <2>1, <2>7, <2>8 DEF Wedged
<1>2. ASSUME Wedged, Stop \/ Close \/ UNCHANGED vars
      PROVE  Wedged'
  <2>1. using' = using /\ locking' = locking /\ waiting' = waiting
    BY <1>2 DEF Stop, Close, vars, poolVars
  <2>2. QED
    BY <1>2, <2>1 DEF Wedged, Free
<1>3. PInv /\ [Next]_vars =>
        [Wedged => \/ Wedged'
                   \/ \E s \in locking : TimeOut(s)
                   \/ BrokerLost]_vars
  BY <1>1, <1>2 DEF Next
<1>4. QED
  BY <1>3, ProcessInvariant, PTL DEF Spec

=============================================================================
