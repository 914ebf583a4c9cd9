--------------------------- MODULE CircuitBreaker ---------------------------
(***************************************************************************)
(* The circuit breaker of pkg/errors under concurrent calls of             *)
(* ExecuteWithRetry: Execute decides under the mutex whether the function  *)
(* runs, runs it without, and records the result under the mutex again, in *)
(* whatever state the breaker is by then.  The function returns: one that  *)
(* panics leaves Execute with no result recorded and ends the program,     *)
(* unless a caller recovers, which is not modelled.                        *)
(***************************************************************************)
EXTENDS Integers, FiniteSets

CONSTANTS
  Callers,
  MaxFailures, MinRequests,
  Errors, OutOf,            (* FailureThreshold is Errors / OutOf          *)
  HalfOpenMaxRequests,
  MaxAttempts,              (* of the retry policy                         *)
  MaxRequests               (* bound: requests counted while closed        *)

ASSUME BreakerAssumption ==
  /\ IsFiniteSet(Callers)
  /\ HalfOpenMaxRequests \in Nat /\ MaxFailures \in Nat /\ MinRequests \in Nat
  /\ Errors \in Nat /\ OutOf \in Nat /\ MaxAttempts \in Nat /\ MaxRequests \in Nat

VARIABLES
  breaker,          (* CircuitBreaker.state                                *)
  failures, totalRequests,
  halfOpenRequests,
  rested,           (* the timeout since openedAt has passed               *)
  phase,            (* where a caller is: idle, calling the function,      *)
                    (* waiting to try again                                *)
  tries,            (* its attempts so far                                 *)
  letThrough,       (* history: calls begun since it is half-open          *)
  probe             (* history: and the one that made it so                *)

counters    == <<failures, totalRequests>>
breakerVars == <<breaker, counters, halfOpenRequests, rested, phase, tries, letThrough, probe>>

BreakerInit ==
  /\ breaker = "closed"
  /\ failures = 0 /\ totalRequests = 0 /\ halfOpenRequests = 0
  /\ rested = FALSE
  /\ phase = [c \in Callers |-> "idle"]
  /\ tries = [c \in Callers |-> 0]
  /\ letThrough = {} /\ probe = {}

-----------------------------------------------------------------------------
(* beforeRequest.                                                          *)

Starts(c) == phase[c] \in {"idle", "backoff"}

Calls(c) ==
  /\ phase' = [phase EXCEPT ![c] = "calling"]
  /\ tries' = [tries EXCEPT ![c] = @ + 1]

AllowClosed(c) ==
  /\ Starts(c) /\ breaker = "closed"
  /\ totalRequests < MaxRequests
  /\ Calls(c)
  /\ UNCHANGED <<breaker, counters, halfOpenRequests, rested, letThrough, probe>>

(* The first call after the timeout is let through, and is not counted.    *)
Probe(c) ==
  /\ Starts(c) /\ breaker = "open" /\ rested
  /\ breaker' = "halfOpen"
  /\ halfOpenRequests' = 0
  /\ letThrough' = {c} /\ probe' = {c}
  /\ Calls(c)
  /\ UNCHANGED <<counters, rested>>

AllowHalfOpen(c) ==
  /\ Starts(c) /\ breaker = "halfOpen"
  /\ halfOpenRequests < HalfOpenMaxRequests
  /\ halfOpenRequests' = halfOpenRequests + 1
  /\ letThrough' = letThrough \cup {c}
  /\ Calls(c)
  /\ UNCHANGED <<breaker, counters, rested, probe>>

-----------------------------------------------------------------------------
(* RetryWithPolicy, after an attempt that has failed: its n-th.  An error  *)
(* of the breaker can be retried, one of the function perhaps not.         *)
Again(c, n, retryable) ==
  IF retryable /\ n <= MaxAttempts
    THEN phase' = [phase EXCEPT ![c] = "backoff"] /\ tries' = [tries EXCEPT ![c] = n]
    ELSE phase' = [phase EXCEPT ![c] = "idle"] /\ tries' = [tries EXCEPT ![c] = 0]

Refused(c) ==
  /\ Starts(c)
  /\ \/ breaker = "open" /\ ~rested
     \/ breaker = "halfOpen" /\ halfOpenRequests >= HalfOpenMaxRequests
  /\ Again(c, tries[c] + 1, TRUE)
  /\ UNCHANGED <<breaker, counters, halfOpenRequests, rested, letThrough, probe>>

(* The context ends the wait.                                              *)
GiveUp(c) ==
  /\ phase[c] = "backoff"
  /\ phase' = [phase EXCEPT ![c] = "idle"] /\ tries' = [tries EXCEPT ![c] = 0]
  /\ UNCHANGED <<breaker, counters, halfOpenRequests, rested, letThrough, probe>>

-----------------------------------------------------------------------------
(* afterRequest.                                                           *)

NotHalfOpen == letThrough' = {} /\ probe' = {}

ShouldOpen(f, n) == f >= MaxFailures \/ (n >= MinRequests /\ f * OutOf >= n * Errors)

ResetCounters == failures' = 0 /\ totalRequests' = 0 /\ halfOpenRequests' = 0

(* Mutant: one success does not close a half-open breaker.                 *)
SucceedsInVain(c) ==
  /\ phase[c] = "calling"
  /\ phase' = [phase EXCEPT ![c] = "idle"] /\ tries' = [tries EXCEPT ![c] = 0]
  /\ totalRequests' = IF breaker = "closed" THEN totalRequests + 1 ELSE totalRequests
  /\ UNCHANGED <<breaker, failures, halfOpenRequests, rested, letThrough, probe>>

Succeeds(c) ==
  /\ phase[c] = "calling"
  /\ phase' = [phase EXCEPT ![c] = "idle"] /\ tries' = [tries EXCEPT ![c] = 0]
  /\ \/ /\ breaker = "closed"
        /\ totalRequests' = totalRequests + 1
        /\ UNCHANGED <<breaker, failures, halfOpenRequests, letThrough, probe>>
     \/ /\ breaker = "halfOpen"
        /\ breaker' = "closed"
        /\ ResetCounters
        /\ NotHalfOpen
     \/ /\ breaker = "open"
        /\ UNCHANGED <<breaker, counters, halfOpenRequests, letThrough, probe>>
  /\ UNCHANGED rested

(* The counters of the closed state stay as they are when it opens.        *)
Fails(c, retryable) ==
  /\ phase[c] = "calling"
  /\ Again(c, tries[c], retryable)
  /\ \/ /\ breaker = "closed"
        /\ totalRequests' = totalRequests + 1
        /\ failures' = failures + 1
        /\ LET opens == ShouldOpen(failures', totalRequests') IN
             /\ breaker' = IF opens THEN "open" ELSE "closed"
             /\ rested' = (rested /\ ~opens)
        /\ UNCHANGED <<letThrough, probe>>
     \/ /\ breaker = "halfOpen"
        /\ breaker' = "open" /\ rested' = FALSE
        /\ NotHalfOpen
        /\ UNCHANGED counters
     \/ /\ breaker = "open"
        /\ UNCHANGED <<breaker, counters, rested, letThrough, probe>>
  /\ UNCHANGED halfOpenRequests

-----------------------------------------------------------------------------
(* The timeout, and what an operator does.                                 *)

TimeoutPasses ==
  /\ breaker = "open" /\ ~rested
  /\ rested' = TRUE
  /\ UNCHANGED <<breaker, counters, halfOpenRequests, phase, tries, letThrough, probe>>

Reset ==
  /\ breaker' = "closed"
  /\ ResetCounters
  /\ NotHalfOpen
  /\ UNCHANGED <<rested, phase, tries>>

ForceOpen ==
  /\ breaker # "open"
  /\ breaker' = "open" /\ rested' = FALSE
  /\ NotHalfOpen
  /\ UNCHANGED <<counters, halfOpenRequests, phase, tries>>

Before(c) == AllowClosed(c) \/ Probe(c) \/ AllowHalfOpen(c) \/ Refused(c)
After(c) == Succeeds(c) \/ \E retryable \in BOOLEAN : Fails(c, retryable)

BreakerNext ==
  \/ \E c \in Callers : Before(c) \/ After(c) \/ GiveUp(c)
  \/ TimeoutPasses \/ Reset \/ ForceOpen

BreakerSpec == BreakerInit /\ [][BreakerNext]_breakerVars

-----------------------------------------------------------------------------
(* While the breaker is half-open, the call that made it so is still       *)
(* running, and every result ends that state: it cannot stay half-open     *)
(* with all its requests used up and nobody left to decide                 *)
(* (breaker.go:129-157, 186-196).                                          *)
HalfOpenIsTried ==
  breaker = "halfOpen" => probe # {} /\ \A c \in probe : phase[c] = "calling"

(* A half-open breaker lets through no more than HalfOpenMaxRequests calls *)
(* (breaker.go:45, "HalfOpenMaxRequests is the number of requests allowed  *)
(* in half-open state", and 147, "Allow limited requests in half-open      *)
(* state").                                                                *)
HalfOpenLimit ==
  breaker = "halfOpen" => Cardinality(letThrough) <= HalfOpenMaxRequests
=============================================================================
