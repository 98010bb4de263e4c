--------------------------- MODULE ProviderHealth ---------------------------
(***************************************************************************)
(* Health of the public data providers (public_api/provider_health.py):    *)
(* one counter of consecutive failures per provider and the pause of 90    *)
(* seconds that a retryable failure begins once the counter has reached    *)
(* the threshold.                                                          *)
(*                                                                         *)
(* The tracker has no lock and is used by the threads of concurrent        *)
(* searches: `consecutive_failures += 1` reads and writes, the comparison  *)
(* that may pause reads again, and record_success resets the counter and   *)
(* the pause one after the other.  Each of these is a step of its own.     *)
(***************************************************************************)
EXTENDS SearchCalls

CONSTANT
    Threshold    \* failure_threshold

ASSUME HealthAssumption == Threshold \in Nat \ {0}

VARIABLES
    failures,    \* consecutive_failures, counted up to the threshold
    paused       \* providers whose disabled_until lies ahead

healthVars == <<failures, paused>>

-----------------------------------------------------------------------------

(* What a call of a provider comes back with.  "void" is the result        *)
(* without rows and without error of a call that noticed its search was    *)
(* cancelled; "unset" an error not_configured.                             *)
Answers == {"rows", "empty"}

Errors == {"retryable", "fatal", "unset"}

Outcomes == Answers \cup Errors \cup {"void"}

HealthInit ==
    /\ failures = [p \in Providers |-> 0]
    /\ paused = {}

(* should_skip for an automatic request; a manual one is never skipped. *)
ShouldSkip(p) == p \in paused

(* record_error counts up from the value it read before; only the fact     *)
(* that the threshold is reached matters from there on.                    *)
Counted(n) == IF n < Threshold THEN n + 1 ELSE Threshold

StoreFailure(p, n, outcome) ==
    /\ failures' = [failures EXCEPT ![p] = IF outcome = "unset" THEN 0 ELSE Counted(n)]
    /\ UNCHANGED paused

(* Mutant: the provider is paused one failure early.                       *)
JudgeFailureEarly(p, outcome) ==
    /\ paused' = IF failures[p] + 1 >= Threshold /\ outcome = "retryable"
                 THEN paused \cup {p} ELSE paused
    /\ UNCHANGED failures

(* The last statement of record_error: only a retryable error pauses. *)
JudgeFailure(p, outcome) ==
    /\ paused' = IF failures[p] >= Threshold /\ outcome = "retryable"
                 THEN paused \cup {p} ELSE paused
    /\ UNCHANGED failures

(* record_success: the counter first, the pause next. *)
ResetFailures(p) ==
    /\ failures' = [failures EXCEPT ![p] = 0]
    /\ UNCHANGED paused

LiftPause(p) ==
    /\ paused' = paused \ {p}
    /\ UNCHANGED failures

(* The 90 seconds are over; the counter stays where it is. *)
BackoffExpires(p) ==
    /\ p \in paused
    /\ LiftPause(p)

=============================================================================
