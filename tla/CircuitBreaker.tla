---------------------------- MODULE CircuitBreaker ----------------------------
(***************************************************************************)
(* CircuitBreaker (src/core/circuit-breaker.ts).  Its methods run without  *)
(* an await, so each is one step of the ApiClient call that makes it.      *)
(*                                                                         *)
(* Time is counted from openedAt and only up to the cooldown, failures     *)
(* only up to the threshold: beyond these nothing depends on them.         *)
(***************************************************************************)
EXTENDS Naturals, FiniteSets

CONSTANTS Threshold,   \* failureThreshold
          Cooldown,    \* cooldownMs
          MaxProbes    \* halfOpenMaxRequests

ASSUME CircuitBreakerAssumption ==
  /\ Threshold \in Nat \ {0}
  /\ Cooldown \in Nat
  /\ MaxProbes \in Nat \ {0}

VARIABLES state,             \* closed, open or half_open
          failures,          \* counted failures, up to Threshold
          age,               \* nowMs - openedAt, up to Cooldown
          halfOpenRequests   \* requests admitted in this half-open period

breaker == <<state, failures, age, halfOpenRequests>>

BreakerInit ==
  /\ state = "closed"
  /\ failures = 0
  /\ age = 0
  /\ halfOpenRequests = 0

\* Time passes; only an open circuit looks at it.
PassMs ==
  /\ state = "open"
  /\ age < Cooldown
  /\ age' = age + 1
  /\ UNCHANGED <<state, failures, halfOpenRequests>>

\* Defect: a half-open circuit lets everybody through.
LetAllThrough ==
  \/ /\ state \in {"closed", "half_open"}
     /\ UNCHANGED breaker
  \/ /\ state = "open"
     /\ age >= Cooldown
     /\ state' = "half_open"
     /\ halfOpenRequests' = 1
     /\ UNCHANGED <<failures, age>>

\* beforeRequest returns: the circuit is closed, becomes half-open, or has a
\* probe left.
LetThrough ==
  \/ /\ state = "closed"
     /\ UNCHANGED breaker
  \/ /\ state = "open"
     /\ age >= Cooldown
     /\ state' = "half_open"
     /\ halfOpenRequests' = 1
     /\ UNCHANGED <<failures, age>>
  \/ /\ state = "half_open"
     /\ halfOpenRequests < MaxProbes
     /\ halfOpenRequests' = halfOpenRequests + 1
     /\ UNCHANGED <<state, failures, age>>

\* beforeRequest throws CircuitOpenError.
Deny ==
  /\ \/ state = "open" /\ age < Cooldown
     \/ state = "half_open" /\ halfOpenRequests >= MaxProbes
  /\ UNCHANGED breaker

\* Defect: the failures counted before are kept.
OnSuccessKeepingFailures ==
  /\ state' = "closed"
  /\ halfOpenRequests' = 0
  /\ UNCHANGED <<failures, age>>

\* onSuccess: from every state, whenever the request was admitted.
OnSuccess ==
  /\ state' = "closed"
  /\ failures' = 0
  /\ halfOpenRequests' = 0
  /\ UNCHANGED age

Counted == IF failures < Threshold THEN failures + 1 ELSE Threshold

\* Defect: a failed probe leaves the circuit half-open.
OnFailureStuck ==
  \/ /\ state = "half_open"
     /\ UNCHANGED breaker
  \/ /\ state # "half_open"
     /\ failures' = Counted
     /\ IF Counted >= Threshold
          THEN state' = "open" /\ age' = 0
          ELSE UNCHANGED <<state, age>>
     /\ UNCHANGED halfOpenRequests

\* onFailure: a half-open circuit opens again; otherwise the failure counts, also
\* in an open circuit, whose cooldown starts again.
OnFailure ==
  \/ /\ state = "half_open"
     /\ state' = "open" /\ age' = 0
     /\ halfOpenRequests' = 0
     /\ UNCHANGED failures
  \/ /\ state # "half_open"
     /\ failures' = Counted
     /\ IF Counted >= Threshold
          THEN state' = "open" /\ age' = 0
          ELSE UNCHANGED <<state, age>>
     /\ UNCHANGED halfOpenRequests

BreakerTypeOK ==
  /\ state \in {"closed", "open", "half_open"}
  /\ failures \in 0 .. Threshold
  /\ age \in 0 .. Cooldown
  /\ halfOpenRequests \in 0 .. MaxProbes

===============================================================================
