------------------------- MODULE WalletRegistration -------------------------
(***************************************************************************)
(* POST /v1/wallets: register-wallet.use-case.ts, createWallet of          *)
(* packages/domain/src/wallet/wallet.ts and create of                      *)
(* wallet.repository.ts, with savers of chunks beside them in the same     *)
(* database.                                                               *)
(*                                                                         *)
(* A request stands for the wallet id it brings, fresh each time; a client *)
(* that repeats itself, in parallel or because an answer was lost, is      *)
(* another request.                                                        *)
(***************************************************************************)
EXTENDS UniqueInserts

CONSTANTS Requests,
          Command,        \* user, source and account reference of a request
          Trim,           \* String.trim
          Unusable,       \* references that are blank or too long when trimmed
          KnownSources    \* the source types that have an adapter

Savers == Writers \ Requests

(* What wallets_identity_key is unique in.                                 *)
Identity(q) == [Command[q] EXCEPT !.ref = Trim[@]]

ASSUME RegistrationAssumption ==
  /\ Requests \subseteq Writers
  /\ \A q \in Requests :
       /\ DOMAIN Command[q] = {"user", "source", "ref"}
       /\ Identity(q) \in Keys /\ Batch[q] = <<Identity(q)>>
       /\ \A s \in Savers : Identity(q) \notin Range(Batch[s])   \* another table

VARIABLES phase,          \* the await a request is at, and then its outcome
          wallet          \* the wallet it was given

vars == <<insertVars, phase, wallet>>

Phases == {"unsent", "create", "readBack", "created", "found", "refused", "failed", "unreadable"}

Init ==
  /\ InsertsInit
  /\ phase = [q \in Requests |-> "unsent"]
  /\ wallet = [q \in Requests |-> NoWriter]

Enter(q, p) == phase' = [phase EXCEPT ![q] = p]

Answer(q, p, w) == Enter(q, p) /\ wallet' = [wallet EXCEPT ![q] = w]

Acceptable(q) ==
  /\ Command[q].source \in KnownSources
  /\ Trim[Command[q].ref] \notin Unusable

Register(q) ==
  /\ phase[q] = "unsent"
  /\ \/ /\ Acceptable(q)
        /\ Enter(q, "create")
        /\ Begin(q)
     \/ /\ ~Acceptable(q)
        /\ Enter(q, "refused")
        /\ UNCHANGED insertVars
  /\ UNCHANGED wallet

AnswerWithoutChecking(q) ==
  /\ phase[q] = "create"
  /\ stage[q] = "committed"
  /\ Answer(q, "created", IF inserted[q] = {} THEN NoWriter ELSE q)
  /\ UNCHANGED insertVars

(* The insert is a transaction of its own.  An empty `returning` says that *)
(* somebody else's row is there.                                           *)
TakeInserted(q) ==
  /\ phase[q] = "create"
  /\ \/ /\ stage[q] = "committed" /\ inserted[q] # {}
        /\ Answer(q, "created", q)
     \/ /\ stage[q] = "committed" /\ inserted[q] = {}
        /\ Enter(q, "readBack")
        /\ UNCHANGED wallet
     \/ /\ stage[q] \in {"committed", "rolledBack"}
        /\ Enter(q, "failed")
        /\ UNCHANGED wallet
  /\ UNCHANGED insertVars

AnswerOwnWallet(q) ==
  /\ phase[q] = "readBack"
  /\ Answer(q, "found", q)
  /\ UNCHANGED insertVars

(* findByIdentity.                                                         *)
ReadBack(q) ==
  /\ phase[q] = "readBack"
  /\ LET row == author[Identity(q)] IN
       \/ row # NoWriter /\ Answer(q, "found", row)
       \/ row = NoWriter /\ Enter(q, "unreadable") /\ UNCHANGED wallet
       \/ Enter(q, "failed") /\ UNCHANGED wallet
  /\ UNCHANGED insertVars

RequestStep(q) == Register(q) \/ TakeInserted(q) \/ ReadBack(q)

Statements ==
  \/ \E w \in Writers : InsertRow(w) \/ Commit(w)
  \/ \E w \in Savers : Begin(w)

Next ==
  \/ \E q \in Requests : RequestStep(q)
  \/ Statements /\ UNCHANGED <<phase, wallet>>
  \/ (BreakDeadlock \/ \E w \in Writers : FailInsert(w)) /\ UNCHANGED <<phase, wallet>>

Spec == Init /\ [][Next]_vars

-----------------------------------------------------------------------------

Registered(q) == phase[q] \in {"created", "found"}

TypeOK ==
  /\ InsertsTypeOK
  /\ phase \in [Requests -> Phases]
  /\ wallet \in [Requests -> Requests \cup {NoWriter}]
  /\ \A q \in Requests : Registered(q) => wallet[q] # NoWriter

(* Racing and repeated registrations of one wallet all get the same one,   *)
(* and it is the one in the table, whoever won (wallet.repository.ts:      *)
(* "two concurrent registrations both succeed and both see the same        *)
(* wallet"), which only one of them may say it created.                    *)
OneWallet ==
  \A q \in Requests : Registered(q) =>
    /\ wallet[q] = author[Identity(q)]
    /\ \A r \in Requests : Registered(r) /\ Identity(q) = Identity(r) =>
         /\ wallet[q] = wallet[r]
         /\ phase[q] = "created" /\ phase[r] = "created" => q = r

(* A wallet is registered in one's own name only, and the row whose        *)
(* conflict made the insert return nothing is there to be read: the error  *)
(* "the conflicting row could not be read" is unreachable.                 *)
ReadBackFinds ==
  \A q \in Requests :
    /\ phase[q] # "unreadable"
    /\ Registered(q) => Command[wallet[q]].user = Command[q].user

-----------------------------------------------------------------------------

(* Requests, statements and the deadlock detector go on once begun;        *)
(* nothing is assumed of failures.                                         *)
Fairness ==
  /\ \A w \in Writers : WF_vars((InsertRow(w) \/ Commit(w)) /\ UNCHANGED <<phase, wallet>>)
  /\ \A q \in Requests : WF_vars(TakeInserted(q) \/ ReadBack(q))
  /\ WF_vars(BreakDeadlock /\ UNCHANGED <<phase, wallet>>)

FairSpec == Spec /\ Fairness

(* Every request is answered and every chunk goes in or is rolled back:    *)
(* whoever one waits for ends, and chunks that wait for one another in     *)
(* different orders are parted.                                            *)
EveryInsertEnds ==
  []<>( /\ \A w \in Writers : stage[w] # "running"
        /\ \A q \in Requests : phase[q] \notin {"create", "readBack"} )

=============================================================================
