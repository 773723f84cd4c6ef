------------------------------- MODULE Intake -------------------------------
(***************************************************************************)
(* POST /v1/imports: a client's request, from its arrival at the API to    *)
(* its reply (packages/api/src/server.ts over                              *)
(* packages/application/src/use-cases/request-import.use-case.ts).  The    *)
(* import row is written first and the job is published second; a client   *)
(* that repeats its request is what closes the window between the two.     *)
(*                                                                         *)
(* A client sends one request, its key and its body, any number of times.  *)
(***************************************************************************)
EXTENDS ImportStore, Broker

CONSTANTS Clients,
          KeyOf,        \* the (user, Idempotency-Key) of a client's request
          BodyOf,       \* its body, whose fingerprint is a hash of it
          Owned         \* the bodies that name a wallet of their user

ASSUME IntakeAssumption ==
  /\ KeyOf \in [Clients -> Keys]
  /\ BodyOf \in [Clients -> Bodies]
  /\ Owned \subseteq Bodies

VARIABLES stage,      \* where the request is
          reply       \* what the client was last told

clientVars == <<stage, reply>>

Stage == {"away", "find", "create", "publish"}

Reply == {"none", "accepted", "notFound", "conflict", "notQueued", "error"}

IntakeTypeOK ==
  /\ stage \in [Clients -> Stage]
  /\ reply \in [Clients -> Reply]

IntakeInit ==
  /\ stage = [c \in Clients |-> "away"]
  /\ reply = [c \in Clients |-> "none"]

MoveTo(c, next) ==
  /\ stage' = [stage EXCEPT ![c] = next]
  /\ UNCHANGED reply

Answer(c, r) ==
  /\ stage' = [stage EXCEPT ![c] = "away"]
  /\ reply' = [reply EXCEPT ![c] = r]

-----------------------------------------------------------------------------

Request(c) ==
  /\ stage[c] = "away"
  /\ stage' = [stage EXCEPT ![c] = "find"]
  /\ reply' = [reply EXCEPT ![c] = "none"]
  /\ UNCHANGED <<storeVars, brokerVars>>

ReuseWhateverWasAsked(c) ==
  IF imports[KeyOf[c]].status = "pending" THEN MoveTo(c, "publish") ELSE Answer(c, "accepted")

(* reuse: a key names one request, and a pending import may never have     *)
(* been queued.                                                            *)
Reuse(c) ==
  \/ /\ Body(KeyOf[c]) # BodyOf[c]
     /\ Answer(c, "conflict")
  \/ /\ Body(KeyOf[c]) = BodyOf[c]
     /\ imports[KeyOf[c]].status = "pending"
     /\ MoveTo(c, "publish")
  \/ /\ Body(KeyOf[c]) = BodyOf[c]
     /\ imports[KeyOf[c]].status # "pending"
     /\ Answer(c, "accepted")

(* The wallet's ownership, then findByIdempotencyKey.                      *)
Find(c) ==
  /\ stage[c] = "find"
  /\ \/ BodyOf[c] \notin Owned /\ Answer(c, "notFound")
     \/ BodyOf[c] \in Owned /\ Exists(KeyOf[c]) /\ Reuse(c)
     \/ BodyOf[c] \in Owned /\ ~Exists(KeyOf[c]) /\ MoveTo(c, "create")
     \/ Answer(c, "error")
  /\ UNCHANGED <<storeVars, brokerVars>>

PublishFirst(c) ==
  /\ stage[c] = "create"
  /\ MoveTo(c, "publish")
  /\ UNCHANGED <<storeVars, brokerVars>>

(* imports.create.  The request that loses the race reads the winner's row *)
(* and goes the way of a repeated one.  The insert may be applied and its  *)
(* reply lost.                                                             *)
Create(c) ==
  /\ stage[c] = "create"
  /\ \/ CreateImport(KeyOf[c], BodyOf[c]) /\ MoveTo(c, "publish")
     \/ CreateImport(KeyOf[c], BodyOf[c]) /\ Answer(c, "error")
     \/ Exists(KeyOf[c]) /\ Reuse(c) /\ UNCHANGED imports
     \/ Answer(c, "error") /\ UNCHANGED imports
  /\ UNCHANGED <<stored, brokerVars>>

(* publisher.publish resolves on the broker's confirm.  A confirm can be   *)
(* lost after the broker took the message.                                 *)
Publish(c) ==
  /\ stage[c] = "publish"
  /\ \/ Enqueue(KeyOf[c]) /\ Answer(c, "accepted")
     \/ Enqueue(KeyOf[c]) /\ Answer(c, "notQueued")
     \/ UNCHANGED brokerVars /\ Answer(c, "notQueued")
  /\ UNCHANGED storeVars

IntakeStep(c) ==
  \/ Find(c)
  \/ Create(c)
  \/ Publish(c)

(* The API dies with the request in hand.                                  *)
CrashApi(c) ==
  /\ stage[c] # "away"
  /\ Answer(c, "error")
  /\ UNCHANGED <<storeVars, brokerVars>>

=============================================================================
