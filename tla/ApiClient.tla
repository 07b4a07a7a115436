------------------------------- MODULE ApiClient -------------------------------
(***************************************************************************)
(* ApiClient.callApiUnsafe (src/core/api-client.ts): the calls of one bot, *)
(* each with its retries, over the one circuit breaker they share.         *)
(*                                                                         *)
(*   idle      no call                                                     *)
(*   start     awaits the onApiCall hook, then asks the breaker            *)
(*   request   the HTTP request is in flight                               *)
(*   result    it succeeded; awaits the onApiResult hook                   *)
(*   error     awaits the onApiError hook of an attempt to be retried,     *)
(*             then the retry delay (of any length: jitter, retry_after)   *)
(*   giveup    awaits the onApiError hook of the last attempt              *)
(*                                                                         *)
(* A caller calls again and again; how its last call ended is `outcome`.   *)
(***************************************************************************)
EXTENDS CircuitBreaker

CONSTANTS Callers,    \* concurrent callers
          MaxRetries  \* retry.maxRetries

ASSUME ApiClientAssumption ==
  /\ IsFiniteSet(Callers)
  /\ MaxRetries \in Nat

VARIABLES stage, attempt,
          outcome,     \* none, ok, denied (CircuitOpenError) or failed
          probes,      \* callers admitted in this half-open period
          healthy      \* Telegram answers, and nobody makes a mistake any more

apiVars == <<breaker, stage, attempt, outcome, probes, healthy>>

InFlight == {c \in Callers : stage[c] = "request"}

ApiInit ==
  /\ BreakerInit
  /\ stage = [c \in Callers |-> "idle"]
  /\ attempt = [c \in Callers |-> 1]
  /\ outcome = [c \in Callers |-> "none"]
  /\ probes = {}
  /\ healthy = FALSE

Goto(c, label) == stage' = [stage EXCEPT ![c] = label]

End(c, how) ==
  /\ Goto(c, "idle")
  /\ outcome' = [outcome EXCEPT ![c] = how]
  /\ attempt' = [attempt EXCEPT ![c] = 1]

\* The half-open period ends with the state.
Probes == probes' = IF state' = "half_open" THEN probes ELSE {}

Call(c) ==
  /\ stage[c] = "idle"
  /\ Goto(c, "start")
  /\ outcome' = [outcome EXCEPT ![c] = "none"]
  /\ UNCHANGED <<breaker, attempt, probes, healthy>>

\* beforeRequest lets the attempt through.
Send(c) ==
  /\ stage[c] = "start"
  /\ LetThrough
  /\ Goto(c, "request")
  /\ probes' = IF state' = "half_open" THEN probes \cup {c} ELSE {}
  /\ UNCHANGED <<attempt, outcome, healthy>>

\* A retryable error: another attempt, unless there have been enough.
RetryOrGiveUp(c) ==
  Goto(c, IF attempt[c] <= MaxRetries THEN "error" ELSE "giveup")

\* beforeRequest throws CircuitOpenError: not counted, and retryable.
FailFast(c) ==
  /\ stage[c] = "start"
  /\ Deny
  /\ RetryOrGiveUp(c)
  /\ outcome' = [outcome EXCEPT ![c] = "denied"]
  /\ Probes
  /\ UNCHANGED <<attempt, healthy>>

\* The onApiCall or onApiResult hook throws: counted, and not retryable.
HookThrows(c) ==
  /\ ~healthy
  /\ stage[c] \in {"start", "result"}
  /\ OnFailure
  /\ Goto(c, "giveup")
  /\ outcome' = [outcome EXCEPT ![c] = "failed"]
  /\ Probes
  /\ UNCHANGED <<attempt, healthy>>

Succeed(c) ==
  /\ stage[c] = "request"
  /\ OnSuccess
  /\ Goto(c, "result")
  /\ Probes
  /\ UNCHANGED <<attempt, outcome, healthy>>

Resolve(c) ==
  /\ stage[c] = "result"
  /\ End(c, "ok")
  /\ UNCHANGED <<breaker, probes, healthy>>

\* Telegram answers with an error other than 429 (a blocked user, a bad request),
\* or with nonsense: counted, and not retryable.
Refused(c) ==
  /\ ~healthy
  /\ stage[c] = "request"
  /\ OnFailure
  /\ Goto(c, "giveup")
  /\ outcome' = [outcome EXCEPT ![c] = "failed"]
  /\ Probes
  /\ UNCHANGED <<attempt, healthy>>

\* No answer, or 429: counted, and retryable.
NoAnswer(c) ==
  /\ ~healthy
  /\ stage[c] = "request"
  /\ OnFailure
  /\ RetryOrGiveUp(c)
  /\ outcome' = [outcome EXCEPT ![c] = "failed"]
  /\ Probes
  /\ UNCHANGED <<attempt, healthy>>

\* The delay ends: the next attempt.
Retry(c) ==
  /\ stage[c] = "error"
  /\ attempt' = [attempt EXCEPT ![c] = @ + 1]
  /\ Goto(c, "start")
  /\ outcome' = [outcome EXCEPT ![c] = "none"]
  /\ UNCHANGED <<breaker, probes, healthy>>

\* callApiUnsafe throws: out of attempts, or the onApiError hook throws.
Throw(c) ==
  /\ stage[c] = "giveup" \/ (stage[c] = "error" /\ ~healthy)
  /\ End(c, outcome[c])
  /\ UNCHANGED <<breaker, probes, healthy>>

\* The outage is over.
Heal ==
  /\ ~healthy
  /\ healthy' = TRUE
  /\ UNCHANGED <<breaker, stage, attempt, outcome, probes>>

Wait == PassMs /\ UNCHANGED <<stage, attempt, outcome, probes, healthy>>

Progress(c) ==
  Send(c) \/ FailFast(c) \/ Succeed(c) \/ Resolve(c) \/ Retry(c) \/ Throw(c)

ApiNext ==
  \/ \E c \in Callers :
       Call(c) \/ Progress(c) \/ HookThrows(c) \/ Refused(c) \/ NoAnswer(c)
  \/ Heal \/ Wait

ApiSpec == ApiInit /\ [][ApiNext]_apiVars

\* Hooks, requests and delays end, time passes, and callers keep calling.
FairApi ==
  /\ ApiSpec
  /\ WF_apiVars(Wait) /\ WF_apiVars(Heal)
  /\ \A c \in Callers : WF_apiVars(Call(c)) /\ WF_apiVars(Progress(c))

-------------------------------------------------------------------------------
ApiTypeOK ==
  /\ BreakerTypeOK
  /\ stage \in [Callers -> {"idle", "start", "request", "result", "error", "giveup"}]
  /\ attempt \in [Callers -> 1 .. MaxRetries + 1]
  /\ outcome \in [Callers -> {"none", "ok", "denied", "failed"}]
  /\ probes \subseteq Callers
  /\ healthy \in BOOLEAN

\* The circuit is closed exactly while the failures since the last success stay
\* below the threshold, although results of requests admitted in any earlier
\* state arrive in any later one.
ClosedBelowThreshold == state = "closed" <=> failures < Threshold

\* A half-open circuit counts exactly its own probes, all of them are still in
\* flight, and there are between one and the limit: so it neither lets too many
\* through nor waits for a probe that has ended.
ProbesInFlight ==
  state = "half_open" =>
    /\ halfOpenRequests = Cardinality(probes)
    /\ probes \subseteq InFlight
    /\ halfOpenRequests \in 1 .. MaxProbes

\* Once Telegram answers again, the circuit closes and stays closed.
Recovers == <>[](state = "closed")

===============================================================================
