----------------------------- MODULE RetryPolicy -----------------------------
(***************************************************************************)
(* What the consumer does with a message whose handler threw.              *)
(*                                                                         *)
(* packages/application/src/errors.ts gives every error a verdict on       *)
(* retrying; packages/infrastructure/src/messaging/retry-policy.ts turns   *)
(* the verdict and the attempt header into a decision.                     *)
(***************************************************************************)
EXTENDS Integers

CONSTANT MaxAttempts      \* QUEUE_MAX_ATTEMPTS, checked positive by config.ts

ASSUME MaxAttemptsAssumption == MaxAttempts \in Nat \ {0}

Attempts == 1 .. MaxAttempts

(* One kind per class of errors.ts, one for any DomainError, one for a     *)
(* MalformedMessageError of envelope.ts and one for everything else: a     *)
(* driver error, a lost connection, a bug.                                 *)
ErrorKind == {"notFound", "conflict", "validation", "dependency",
              "concurrency", "publication", "domain", "malformed", "unknown"}

Retryable == {"dependency", "concurrency", "publication", "malformed", "unknown"}

IsRetryable(e) == e \in Retryable

RetryWithoutCeiling(e, attempt) ==
  IF IsRetryable(e)
    THEN [action |-> "retry", reason |-> "none",
          nextAttempt |-> IF attempt = MaxAttempts THEN attempt ELSE attempt + 1]
    ELSE [action |-> "dead-letter", reason |-> "permanent-failure", nextAttempt |-> attempt]

(* A malformed message is parked before its verdict is asked for: its      *)
(* class is none of the application's, so isRetryable would say "retry".   *)
DecideRetry(e, attempt) ==
  IF e = "malformed" \/ ~IsRetryable(e) \/ attempt >= MaxAttempts
    THEN [action |-> "dead-letter",
          reason |-> CASE e = "malformed"   -> "malformed"
                       [] ~IsRetryable(e)   -> "permanent-failure"
                       [] OTHER             -> "attempts-exhausted",
          nextAttempt |-> attempt]
    ELSE [action |-> "retry", reason |-> "none", nextAttempt |-> attempt + 1]

=============================================================================
