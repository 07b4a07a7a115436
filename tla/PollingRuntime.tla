---------------------------- MODULE PollingRuntime ----------------------------
(***************************************************************************)
(* One bot process that polls Telegram: PollingSource                      *)
(* (src/update-loop/polling.ts) driven by BotRuntime                       *)
(* (src/runtime/bot-runtime.ts), with the Bot API server and the           *)
(* application that starts, stops, crashes and restarts the process.       *)
(*                                                                         *)
(* Every start() runs a loop of its own over the one source, so the loops  *)
(* of successive starts share `offset` and `running`.  A loop is           *)
(*                                                                         *)
(*   off       start() has not been called, has resolved or has rejected   *)
(*   top       at the condition of the while loop                          *)
(*   asking    awaits getUpdates, sent with offset asked[l]                *)
(*   batch     between two updates of the answer batch[l]                  *)
(*   handling  awaits onUpdate(Head(batch[l])): the task is in `pending`   *)
(*                                                                         *)
(* An update is its update_id.  Candidates without a numeric update_id     *)
(* (which Telegram does not send) are skipped by the loop and left out.    *)
(***************************************************************************)
EXTENDS Integers, Sequences, FiniteSets

CONSTANTS Loops,       \* start() calls that may be under way together
          OneLoop,     \* TRUE: the application awaits start() before it starts
                       \* again; FALSE: it starts again once isRunning() is false
          Queued,      \* guards.concurrencyQueue is configured
          MaxUpdate,   \* bound: update_ids are 1 .. MaxUpdate
          Limit,       \* PollingOptions.limit
          MaxStarts, MaxStops, MaxErrors, MaxCrashes  \* bounds on those events

ASSUME PollingRuntimeAssumption ==
  /\ OneLoop \in BOOLEAN /\ Queued \in BOOLEAN
  /\ MaxUpdate \in Nat /\ Limit \in Nat \ {0}
  /\ MaxStarts \in Nat /\ MaxStops \in Nat /\ MaxErrors \in Nat /\ MaxCrashes \in Nat

VARIABLES arrived,    \* server: updates 1 .. arrived exist
          confirmed,  \* server: updates below are acknowledged and forgotten
          running,    \* PollingSource.running
          offset,     \* PollingSource.offset
          aborted,    \* options.signal.aborted
          pc, asked, batch,
          isRunning,  \* BotRuntime.running
          stopper,    \* where stop() is: none, source, pending, stopped
          awaited,    \* loops whose current task stop() still waits for
          taken,      \* updates given to the handler by this process, in order
          done, dropped, failed,  \* how updates ended, in any process
          budget      \* how often each bounded event has happened

server == <<arrived, confirmed>>
source == <<running, offset, aborted>>
loops  == <<pc, asked, batch>>
app    == <<isRunning, stopper, awaited>>
ends   == <<done, dropped, failed>>
vars   == <<server, source, loops, app, taken, ends, budget>>

Settled == done \cup dropped \cup failed
Handling == {l \in Loops : pc[l] = "handling"}
Update(l) == Head(batch[l])

Spend(event, bound) ==
  /\ budget[event] < bound
  /\ budget' = [budget EXCEPT ![event] = @ + 1]

Init ==
  /\ arrived = 0 /\ confirmed = 1
  /\ running = FALSE /\ offset = 0 /\ aborted = FALSE
  /\ pc = [l \in Loops |-> "off"]
  /\ asked = [l \in Loops |-> 0]
  /\ batch = [l \in Loops |-> <<>>]
  /\ isRunning = FALSE /\ stopper = "none" /\ awaited = {}
  /\ taken = <<>>
  /\ done = {} /\ dropped = {} /\ failed = {}
  /\ budget = [start |-> 0, stop |-> 0, error |-> 0, crash |-> 0]

-------------------------------------------------------------------------------
(* The Bot API server.                                                     *)

Arrive ==
  /\ arrived < MaxUpdate
  /\ arrived' = arrived + 1
  /\ UNCHANGED <<confirmed, source, loops, app, taken, ends, budget>>

\* getUpdates acknowledges everything below the offset it is called with.
Confirmed(o) == IF o > confirmed THEN o ELSE confirmed

\* The answer: the oldest unacknowledged updates, at most Limit of them.
AnswerFrom(first) ==
  LET n == IF arrived - first + 1 < Limit THEN arrived - first + 1 ELSE Limit
  IN  [i \in 1 .. n |-> first + i - 1]

-------------------------------------------------------------------------------
(* BotRuntime.start and PollingSource.run.                                 *)

Start(l) ==
  /\ pc[l] = "off"
  /\ IF OneLoop THEN \A k \in Loops : pc[k] = "off" ELSE ~isRunning
  /\ stopper \in {"none", "stopped"}
  /\ Spend("start", MaxStarts)
  /\ isRunning' = TRUE /\ running' = TRUE
  /\ stopper' = "none"
  /\ pc' = [pc EXCEPT ![l] = "top"]
  /\ UNCHANGED <<server, offset, aborted, asked, batch, awaited, taken, ends>>

\* Defect: the loop looks at the abort signal only.
PollIgnoringStop(l) ==
  /\ pc[l] = "top"
  /\ \/ /\ ~aborted
        /\ asked' = [asked EXCEPT ![l] = offset]
        /\ pc' = [pc EXCEPT ![l] = "asking"]
        /\ UNCHANGED isRunning
     \/ /\ aborted
        /\ pc' = [pc EXCEPT ![l] = "off"]
        /\ isRunning' = FALSE
        /\ UNCHANGED asked
  /\ UNCHANGED <<server, source, batch, stopper, awaited, taken, ends, budget>>

\* The head of the while loop: ask for more, or resolve start().
Poll(l) ==
  /\ pc[l] = "top"
  /\ \/ /\ running /\ ~aborted
        /\ asked' = [asked EXCEPT ![l] = offset]
        /\ pc' = [pc EXCEPT ![l] = "asking"]
        /\ UNCHANGED isRunning
     \/ /\ ~running \/ aborted
        /\ pc' = [pc EXCEPT ![l] = "off"]
        /\ isRunning' = FALSE
        /\ UNCHANGED asked
  /\ UNCHANGED <<server, source, batch, stopper, awaited, taken, ends, budget>>

\* getUpdates resolves, possibly with no update (the long poll timed out).
Answer(l) ==
  /\ pc[l] = "asking"
  /\ confirmed' = Confirmed(asked[l])
  /\ batch' = [batch EXCEPT ![l] = AnswerFrom(Confirmed(asked[l]))]
  /\ pc' = [pc EXCEPT ![l] = "batch"]
  /\ UNCHANGED <<arrived, source, asked, app, taken, ends, budget>>

\* The answer is lost: ApiClient sends the request again, or gives up and
\* start() rejects, leaving both running flags set.
AnswerLost(l) ==
  /\ pc[l] = "asking"
  /\ Spend("error", MaxErrors)
  /\ confirmed' \in {confirmed, Confirmed(asked[l])}
  /\ \E label \in {"asking", "off"} : pc' = [pc EXCEPT ![l] = label]
  /\ UNCHANGED <<arrived, source, asked, batch, app, taken, ends>>

BatchDone(l) ==
  /\ pc[l] = "batch"
  /\ batch[l] = <<>>
  /\ pc' = [pc EXCEPT ![l] = "top"]
  /\ UNCHANGED <<server, source, asked, batch, app, taken, ends, budget>>

\* Defect: one update too many is acknowledged.
NextOffsetPast(u) == u + 2

\* Defect: the update itself is asked for again.
NextOffsetSame(u) == u

NextOffset(u) == u + 1

\* The next update of the batch: the offset moves first, then a stale update
\* (dropPendingUpdates) is skipped and any other one is handed to onUpdate.
\* Neither running nor the signal is looked at here.
Take(l) ==
  /\ pc[l] = "batch"
  /\ batch[l] # <<>>
  /\ offset' = NextOffset(Update(l))
  /\ \/ /\ dropped' = dropped \cup {Update(l)}
        /\ batch' = [batch EXCEPT ![l] = Tail(@)]
        /\ UNCHANGED <<pc, taken>>
     \/ /\ pc' = [pc EXCEPT ![l] = "handling"]
        /\ taken' = Append(taken, Update(l))
        /\ UNCHANGED <<dropped, batch>>
  /\ UNCHANGED <<server, running, aborted, asked, app, done, failed, budget>>

-------------------------------------------------------------------------------
(* BotRuntime.processUpdate: how the task of a loop settles.               *)

\* pending.delete, and stop() stops waiting for this task.
Settle(l, label) ==
  /\ pc[l] = "handling"
  /\ pc' = [pc EXCEPT ![l] = label]
  /\ batch' = [batch EXCEPT ![l] = Tail(@)]
  /\ awaited' = awaited \ {l}

\* The handler ran, or the rate limiter or the full queue dropped the update.
Handled(l) ==
  /\ Settle(l, "batch")
  /\ \/ done' = done \cup {Update(l)} /\ UNCHANGED dropped
     \/ dropped' = dropped \cup {Update(l)} /\ UNCHANGED done
  /\ UNCHANGED <<server, source, asked, isRunning, stopper, taken, failed, budget>>

\* The handler threw inside the concurrency queue: processUpdate logs it as an
\* overflow and resolves.
Swallowed(l) ==
  /\ Queued
  /\ Spend("error", MaxErrors)
  /\ Settle(l, "batch")
  /\ failed' = failed \cup {Update(l)}
  /\ UNCHANGED <<server, source, asked, isRunning, stopper, taken, done, dropped>>

\* The handler (without a queue) or the onUpdate hook threw: the rejection goes
\* through run() and start(), and the rest of the batch is lost with the loop.
Rejected(l) ==
  /\ Spend("error", MaxErrors)
  /\ Settle(l, "off")
  /\ failed' = failed \cup {Update(l)}
  /\ UNCHANGED <<server, source, asked, isRunning, stopper, taken, done, dropped>>

-------------------------------------------------------------------------------
(* The application: stop, abort, crash.                                    *)

StopSource ==
  /\ stopper \in {"none", "stopped"}
  /\ Spend("stop", MaxStops)
  /\ running' = FALSE
  /\ stopper' = "source"
  /\ UNCHANGED <<server, offset, aborted, loops, isRunning, awaited, taken, ends>>

\* Promise.allSettled over the tasks that are pending now.
StopAwaitsPending ==
  /\ stopper = "source"
  /\ stopper' = "pending"
  /\ awaited' = Handling
  /\ UNCHANGED <<server, source, loops, isRunning, taken, ends, budget>>

StopResolves ==
  /\ stopper = "pending"
  /\ awaited = {}
  /\ stopper' = "stopped"
  /\ isRunning' = FALSE
  /\ UNCHANGED <<server, source, loops, awaited, taken, ends, budget>>

Abort ==
  /\ ~aborted
  /\ Spend("stop", MaxStops)
  /\ aborted' = TRUE
  /\ UNCHANGED <<server, running, offset, loops, app, taken, ends>>

\* The process dies and a new one with an empty memory takes its place.
Crash ==
  /\ Spend("crash", MaxCrashes)
  /\ running' = FALSE /\ offset' = 0 /\ aborted' = FALSE
  /\ pc' = [l \in Loops |-> "off"]
  /\ asked' = [l \in Loops |-> 0]
  /\ batch' = [l \in Loops |-> <<>>]
  /\ isRunning' = FALSE /\ stopper' = "none" /\ awaited' = {}
  /\ taken' = <<>>
  /\ UNCHANGED <<server, ends>>

Run(l) == Poll(l) \/ Answer(l) \/ BatchDone(l) \/ Take(l) \/ Handled(l)

Stop == StopAwaitsPending \/ StopResolves

Next ==
  \/ Arrive
  \/ \E l \in Loops :
       Start(l) \/ Run(l) \/ AnswerLost(l) \/ Swallowed(l) \/ Rejected(l)
  \/ StopSource \/ Stop \/ Abort \/ Crash

Spec == Init /\ [][Next]_vars

\* Telegram answers, handlers settle and stop() goes on.
FairSpec ==
  /\ Spec
  /\ \A l \in Loops : WF_vars(Run(l))
  /\ WF_vars(Stop)

\* A supervisor (docs: pm2, systemd, restart: always) starts a bot without a loop.
SupervisedSpec == FairSpec /\ WF_vars(\E l \in Loops : Start(l))

-------------------------------------------------------------------------------
TypeOK ==
  /\ arrived \in 0 .. MaxUpdate /\ confirmed \in 1 .. MaxUpdate + 1
  /\ running \in BOOLEAN /\ aborted \in BOOLEAN /\ isRunning \in BOOLEAN
  /\ offset \in 0 .. MaxUpdate + 1
  /\ pc \in [Loops -> {"off", "top", "asking", "batch", "handling"}]
  /\ asked \in [Loops -> 0 .. MaxUpdate + 1]
  /\ batch \in [Loops -> Seq(1 .. MaxUpdate)]
  /\ stopper \in {"none", "source", "pending", "stopped"}
  /\ awaited \subseteq Loops
  /\ taken \in Seq(1 .. MaxUpdate)
  /\ \A set \in {done, dropped, failed} : set \subseteq 1 .. MaxUpdate
  /\ budget \in [start: 0 .. MaxStarts, stop: 0 .. MaxStops,
                 error: 0 .. MaxErrors, crash: 0 .. MaxCrashes]

\* docs/RELIABILITY_SEMANTICS.md:13, "If the processing thread crashes
\* mid-execution, the updates are not acknowledged": whatever the server
\* has forgotten was handled, dropped on purpose or failed in the handler, in
\* this process or an earlier one.  The offset moves before the handler runs and
\* tells the server only when the loop asks again.
AcknowledgedOnlySettled == 1 .. confirmed - 1 \subseteq Settled

\* One process gives updates to the handler in order and each once, whatever polls
\* were lost or sent again; and when one is taken, every earlier one has ended, in
\* this process or before a crash.
HandledOnceInOrder ==
  /\ \A i, j \in 1 .. Len(taken) : i < j => taken[i] < taken[j]
  /\ \A l \in Loops : pc[l] = "handling" => 1 .. Update(l) - 1 \subseteq Settled

\* At-least-once delivery: every update that arrives is eventually settled,
\* through lost polls, throwing handlers and a crash, if somebody restarts the bot
\* and the application neither stops nor aborts it.
Delivered ==
  \A u \in 1 .. MaxUpdate :
    arrived >= u ~> u \in Settled \/ budget.stop > 0

\* A stopped source stops: stop() resolves although the loop goes on taking updates
\* meanwhile, and the loop ends, unless start() is called again.
StopCompletes ==
  ~running ~> \/ running
              \/ stopper \in {"none", "stopped"} /\ \A l \in Loops : pc[l] = "off"

===============================================================================
