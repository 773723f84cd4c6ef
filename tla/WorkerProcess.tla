---------------------------- MODULE WorkerProcess ----------------------------
(***************************************************************************)
(* One worker process: the messages its prefetch lets in, the connections  *)
(* of its pool, and its shutdown (packages/worker/src/main.ts, consumer.ts *)
(* and db/client.ts of packages/infrastructure/src).                       *)
(*                                                                         *)
(* A message holds one connection for its advisory lock as long as its     *)
(* attempt lasts, and every statement of the attempt borrows another.  The *)
(* pool serves its waiters in turn; here it serves any of them, and        *)
(* fairness says that none is passed over forever.                         *)
(***************************************************************************)
EXTENDS Integers, FiniteSets

CONSTANTS Slots,        \* the places of QUEUE_PREFETCH
          PoolMax,      \* DATABASE_POOL_MAX
          Statements    \* the most statements an attempt makes

ASSUME ProcessAssumption ==
  /\ IsFiniteSet(Slots)
  /\ PoolMax \in Nat \ {0}
  /\ Statements \in Nat

VARIABLES phase,        \* where the message of a slot is
          todo,         \* statements its attempt may still make
          waiting,      \* slots that wait for a connection
          using,        \* slots that run a statement on one
          locking,      \* slots whose lock holds one
          mode          \* of the process

poolVars == <<waiting, using, locking>>
vars     == <<phase, todo, poolVars, mode>>

Phase == {"empty", "find", "lock", "hold", "work", "unlock", "settle", "record"}

TypeOK ==
  /\ phase \in [Slots -> Phase]
  /\ todo \in [Slots -> 0 .. Statements]
  /\ waiting \subseteq Slots
  /\ using \subseteq Slots
  /\ locking \subseteq Slots
  /\ mode \in {"consuming", "draining", "closed"}

Init ==
  /\ phase = [s \in Slots |-> "empty"]
  /\ todo = [s \in Slots |-> Statements]
  /\ waiting = {} /\ using = {} /\ locking = {}
  /\ mode = "consuming"

Goto(s, next) == phase' = [phase EXCEPT ![s] = next]

(* db.execute: a connection is asked for, and given back with the result.  *)
Ask(s, next) ==
  /\ Goto(s, next)
  /\ waiting' = waiting \cup {s}

-----------------------------------------------------------------------------
(* The pool.                                                               *)

Free == Cardinality(using) + Cardinality(locking) < PoolMax

Grant(s) ==
  /\ s \in waiting
  /\ Free
  /\ waiting' = waiting \ {s}
  /\ IF phase[s] = "lock" THEN locking' = locking \cup {s} /\ UNCHANGED using
                          ELSE using' = using \cup {s} /\ UNCHANGED locking
  /\ UNCHANGED <<phase, todo, mode>>

TimeOutAndKeepLock(s) ==
  /\ s \in waiting
  /\ waiting' = waiting \ {s}
  /\ Goto(s, IF phase[s] = "record" THEN "empty" ELSE "settle")
  /\ UNCHANGED <<todo, using, locking, mode>>

(* connectionTimeoutMillis.  A statement of an attempt that cannot have a  *)
(* connection fails the attempt; a failure that cannot be recorded is only *)
(* logged.                                                                 *)
TimeOut(s) ==
  /\ s \in waiting
  /\ waiting' = waiting \ {s}
  /\ Goto(s, CASE phase[s] = "work"   -> "unlock"
               [] phase[s] = "record" -> "empty"
               [] OTHER               -> "settle")
  /\ UNCHANGED <<todo, using, locking, mode>>

-----------------------------------------------------------------------------
(* A message.                                                              *)

DeliverAlways(s) ==
  /\ mode # "closed"
  /\ phase[s] = "empty"
  /\ Ask(s, "find")
  /\ todo' = [todo EXCEPT ![s] = Statements]
  /\ UNCHANGED <<using, locking, mode>>

Deliver(s) ==
  /\ mode = "consuming"
  /\ phase[s] = "empty"
  /\ Ask(s, "find")
  /\ todo' = [todo EXCEPT ![s] = Statements]
  /\ UNCHANGED <<using, locking, mode>>

(* findById: there is an attempt to make, or the message is done with.     *)
Find(s) ==
  /\ phase[s] = "find" /\ s \in using
  /\ using' = using \ {s}
  /\ \/ Ask(s, "lock")
     \/ Goto(s, "settle") /\ UNCHANGED waiting
  /\ UNCHANGED <<todo, locking, mode>>

TakeLock(s) ==
  /\ phase[s] = "lock" /\ s \in locking
  /\ Goto(s, "hold")
  /\ UNCHANGED <<todo, poolVars, mode>>

RefuseLockAndKeep(s) ==
  /\ phase[s] = "lock" /\ s \in locking
  /\ Goto(s, "settle")
  /\ UNCHANGED <<todo, poolVars, mode>>

RefuseLockAndAskAgain(s) ==
  /\ phase[s] = "lock" /\ s \in locking
  /\ locking' = locking \ {s}
  /\ Ask(s, "lock")
  /\ UNCHANGED <<todo, using, mode>>

(* The lock is another's, or asking for it failed.                         *)
RefuseLock(s) ==
  /\ phase[s] = "lock" /\ s \in locking
  /\ locking' = locking \ {s}
  /\ Goto(s, "settle")
  /\ UNCHANGED <<todo, waiting, using, mode>>

StartStatementUncounted(s) ==
  /\ phase[s] = "hold"
  /\ todo' = [todo EXCEPT ![s] = @ - 1]
  /\ Ask(s, "work")
  /\ UNCHANGED <<using, locking, mode>>

(* beginAttempt, resolve, saveBatch, complete or fail.                     *)
StartStatement(s) ==
  /\ phase[s] = "hold"
  /\ todo[s] > 0
  /\ todo' = [todo EXCEPT ![s] = @ - 1]
  /\ Ask(s, "work")
  /\ UNCHANGED <<using, locking, mode>>

EndStatement(s) ==
  /\ phase[s] = "work" /\ s \in using
  /\ using' = using \ {s}
  /\ \E next \in {"hold", "unlock"} : Goto(s, next)
  /\ UNCHANGED <<todo, waiting, locking, mode>>

(* The attempt is over: completed, or its payload or an answer failed it.  *)
EndAttempt(s) ==
  /\ phase[s] = "hold"
  /\ Goto(s, "unlock")
  /\ UNCHANGED <<todo, poolVars, mode>>

(* The finally of withImportLock; the connection goes back either way.     *)
Unlock(s) ==
  /\ phase[s] = "unlock"
  /\ locking' = locking \ {s}
  /\ Goto(s, "settle")
  /\ UNCHANGED <<todo, waiting, using, mode>>

(* Acknowledged, with or without a retry copy; or dead-lettered, which     *)
(* records the failure first.                                              *)
Settle(s) ==
  /\ phase[s] = "settle"
  /\ \/ Goto(s, "empty") /\ UNCHANGED waiting
     \/ Ask(s, "record")
  /\ UNCHANGED <<todo, using, locking, mode>>

Record(s) ==
  /\ phase[s] = "record" /\ s \in using
  /\ using' = using \ {s}
  /\ Goto(s, "empty")
  /\ UNCHANGED <<todo, waiting, locking, mode>>

-----------------------------------------------------------------------------
(* SIGTERM or SIGINT: cancel the consumer, let what is in flight finish,   *)
(* close the connections, exit.                                            *)

Stop ==
  /\ mode = "consuming"
  /\ mode' = "draining"
  /\ UNCHANGED <<phase, todo, poolVars>>

Close ==
  /\ mode = "draining"
  /\ \A s \in Slots : phase[s] = "empty"
  /\ mode' = "closed"
  /\ UNCHANGED <<phase, todo, poolVars>>

(* The broker is gone, before the consumer was cancelled or while it is:   *)
(* cancelling fails, and the process exits without waiting.  What it had   *)
(* taken is another process's, see Worker.  A drain whose cancel was       *)
(* answered goes on as if nothing had happened.                            *)
BrokerLost ==
  /\ mode # "closed"
  /\ mode' = "closed"
  /\ phase' = [s \in Slots |-> "empty"]
  /\ waiting' = {} /\ using' = {} /\ locking' = {}
  /\ UNCHANGED todo

Handle(s) ==
  Find(s) \/ TakeLock(s) \/ RefuseLock(s) \/ StartStatement(s) \/ EndStatement(s)
    \/ EndAttempt(s) \/ Unlock(s) \/ Settle(s) \/ Record(s)

Next ==
  \/ \E s \in Slots : Grant(s) \/ TimeOut(s) \/ Deliver(s) \/ Handle(s)
  \/ Stop
  \/ Close
  \/ BrokerLost

Spec == Init /\ [][Next]_vars

(* Every connection is a lock's, and the attempt of each waits for one     *)
(* connection more.  config.ts lets a prefetch be as large as the pool.    *)
Wedged == ~Free /\ using = {} /\ locking \subseteq waiting

(* The process takes its steps, and the pool passes nobody over.  Its      *)
(* timers may always go off; they are counted on where nothing else goes   *)
(* on, which is never with a prefetch below the size of the pool.          *)
PatientSpec ==
  /\ Spec
  /\ \A s \in Slots : /\ WF_vars(Handle(s))
                      /\ SF_vars(Grant(s))
                      /\ WF_vars(Wedged /\ TimeOut(s))
  /\ WF_vars(Close)

-----------------------------------------------------------------------------
(* A pool that is full of locks is not so for good: an attempt whose       *)
(* statement is turned away gives up its lock, and its connection with it  *)
(* (connectionTimeoutMillis and the finally of withImportLock).            *)
WedgesBreak == Wedged ~> Free

(* A message that is done with, however it ended, holds no connection and  *)
(* waits for none; and while an attempt lasts it has its lock's            *)
(* (withImportLock).                                                       *)
ConnectionsComeBack ==
  \A s \in Slots :
    /\ phase[s] \in {"empty", "settle"} => s \notin waiting \cup using \cup locking
    /\ phase[s] \in {"hold", "work", "unlock"} => s \in locking

(* Every message the process takes is settled, or dies with the process    *)
(* (handleMessage), and nothing but a wedged pool takes a timer for that.  *)
EveryMessageSettles == \A s \in Slots : phase[s] # "empty" ~> phase[s] = "empty"

(* A process told to stop closes, after all it had taken was settled       *)
(* (main.ts, shutdown).                                                    *)
DrainEnds == mode = "draining" ~> mode = "closed"

=============================================================================
