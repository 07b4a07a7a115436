------------------------------ MODULE WebhookBot -------------------------------
(***************************************************************************)
(* A bot behind a webhook: Telegram's requests, the HTTP adapters and       *)
(* WebhookHandler (src/adapters), and the two ways to handle an update:     *)
(*                                                                         *)
(*   direct   WebhookHandler awaits handleUpdate and then answers; several  *)
(*            requests are handled at once                                  *)
(*   ingest   the application checks the signature, calls ingest and        *)
(*            answers at once; WebhookSource (src/update-loop/webhook.ts)   *)
(*            queues the update for the loop of BotRuntime.start            *)
(*                                                                         *)
(* Telegram sends an update again until it is answered with 200, also when  *)
(* it gave up waiting for a request that is still being handled.            *)
(***************************************************************************)
EXTENDS Naturals, Sequences, FiniteSets

CONSTANTS Requests,   \* HTTP requests that may be open together
          Loops,      \* start() calls that may be under way together
          Modes, Platforms,  \* what to choose from
          Updates,    \* the updates that Telegram has for the bot
          MaxFaults,  \* bound: handler errors, timeouts and crashes together
          MaxStops, MaxStarts, MaxForged

ASSUME WebhookBotAssumption ==
  /\ Modes \subseteq {"direct", "ingest"}
  /\ Platforms \subseteq {"aws", "cloudflare", "node"}
  /\ \A bound \in {MaxFaults, MaxStops, MaxStarts, MaxForged} : bound \in Nat
  /\ {"waiting", "acknowledged"} \cap Requests = {}
  /\ {"off", "top", "asleep"} \cap Updates = {}

VARIABLES mode, platform,
          telegram,  \* per update: waiting, acknowledged, or the request it awaits
          request,   \* the HTTP requests
          queue,     \* WebhookSource.updates
          running,   \* WebhookSource.running
          loop,      \* per start(): off, top, asleep, or the update it handles
          accepted,  \* updates ingested by this process, in order
          taken,     \* updates its loops have handed to onUpdate, in order
          handled,   \* updates whose handler resolved, in any process
          failed,    \* ingest: updates whose handler threw
          lost,      \* ingest: updates that died with the process
          budget     \* how often each bounded event has happened

source == <<queue, running, loop, accepted, taken>>
ends == <<handled, failed, lost>>
vars == <<mode, platform, telegram, request, source, ends, budget>>

Free == [pc |-> "free"]

Spend(event, bound) ==
  /\ budget[event] < bound
  /\ budget' = [budget EXCEPT ![event] = @ + 1]

Init ==
  /\ mode \in Modes /\ platform \in Platforms
  /\ telegram = [u \in Updates |-> "waiting"]
  /\ request = [r \in Requests |-> Free]
  /\ queue = <<>> /\ running = FALSE /\ loop = [l \in Loops |-> "off"]
  /\ accepted = <<>> /\ taken = <<>>
  /\ handled = {} /\ failed = {} /\ lost = {}
  /\ budget = [fault |-> 0, stop |-> 0, start |-> 0, forged |-> 0]

-------------------------------------------------------------------------------
(* Telegram and other clients.                                             *)

\* The name of the secret's header as it reaches the program: the Fetch API and
\* Node have put it in lower case, API Gateway may leave it as Telegram wrote it.
SecretHeader == IF platform = "aws" THEN "mixed" ELSE "lower"

Honest == [method |-> "POST", secret |-> "right", body |-> "update"]
Forgeries == { [Honest EXCEPT !.method = "GET"], [Honest EXCEPT !.secret = "wrong"],
               [Honest EXCEPT !.secret = "none"], [Honest EXCEPT !.body = "junk"] }

\* Telegram posts an update.
Post(r, u) ==
  /\ request[r] = Free
  /\ telegram[u] = "waiting"
  /\ telegram' = [telegram EXCEPT ![u] = r]
  /\ request' = [request EXCEPT ![r] = [pc |-> "arrived", update |-> u,
                                        content |-> Honest, header |-> SecretHeader]]
  /\ UNCHANGED <<mode, platform, source, ends, budget>>

Forge(r, content) ==
  /\ request[r] = Free
  /\ Spend("forged", MaxForged)
  /\ request' = [request EXCEPT ![r] = [pc |-> "arrived", update |-> "none",
                                        content |-> content, header |-> SecretHeader]]
  /\ UNCHANGED <<mode, platform, telegram, source, ends>>

\* Telegram waits no longer, or the connection breaks; the handling goes on.
GiveUp(u) ==
  /\ telegram[u] \in Requests
  /\ Spend("fault", MaxFaults)
  /\ telegram' = [telegram EXCEPT ![u] = "waiting"]
  /\ UNCHANGED <<mode, platform, request, source, ends>>

-------------------------------------------------------------------------------
(* The adapters and WebhookHandler.handle.                                 *)

\* Defect: the header is looked up as it was sent.
NormalizedAsSent(header) == header

\* AwsLambdaHandler.normalizeHeaders; the other adapters copy the headers.
Normalized(header) == "lower"

\* readHeader: by the configured name, in lower or in upper case.
SecretFound(header) == header \in {"lower", "upper"}

\* Defect: a request without the header is let through.
StatusLax(content, header) ==
  CASE content.method # "POST" -> 405
    [] content.secret = "wrong" /\ SecretFound(header) -> 401
    [] content.body # "update" -> 400
    [] OTHER -> 0

\* handle: the first check that fails decides; 0 if none does.
Status(content, header) ==
  CASE content.method # "POST" -> 405
    [] content.secret # "right" \/ ~SecretFound(header) -> 401
    [] content.body # "update" -> 400  \* not JSON, or no numeric update_id
    [] OTHER -> 0

\* The request is answered.  Telegram takes 200 as an acknowledgement and tries
\* again after anything else.
Answer(r, status) ==
  /\ request' = [request EXCEPT ![r] = Free]
  /\ telegram' = [u \in Updates |->
                    IF telegram[u] # r THEN telegram[u]
                    ELSE IF status = 200 THEN "acknowledged" ELSE "waiting"]

Check(r) ==
  /\ request[r].pc = "arrived"
  /\ LET status == Status(request[r].content, Normalized(request[r].header))
     IN  \/ /\ status # 0
            /\ Answer(r, status)
            /\ UNCHANGED source
         \/ /\ status = 0 /\ mode = "direct"
            /\ request' = [request EXCEPT ![r].pc = "handling", ![r].header = "lower"]
            /\ UNCHANGED <<telegram, source>>
         \/ /\ status = 0 /\ mode = "ingest"
            /\ queue' = Append(queue, request[r].update)
            /\ accepted' = Append(accepted, request[r].update)
            /\ Answer(r, 200)
            /\ UNCHANGED <<running, loop, taken>>
  /\ UNCHANGED <<mode, platform, ends, budget>>

\* handleUpdate resolves.
Handled(r) ==
  /\ request[r].pc = "handling"
  /\ handled' = handled \cup {request[r].update}
  /\ Answer(r, 200)
  /\ UNCHANGED <<mode, platform, source, failed, lost, budget>>

\* Defect: the error is logged and the request answered with 200.
HandlerThrowsUnnoticed(r) ==
  /\ request[r].pc = "handling"
  /\ Spend("fault", MaxFaults)
  /\ Answer(r, 200)
  /\ UNCHANGED <<mode, platform, source, ends>>

\* handleUpdate throws.
HandlerThrows(r) ==
  /\ request[r].pc = "handling"
  /\ Spend("fault", MaxFaults)
  /\ Answer(r, 500)
  /\ UNCHANGED <<mode, platform, source, ends>>

-------------------------------------------------------------------------------
(* WebhookSource.run and BotRuntime.start, stop.                           *)

Start(l) ==
  /\ mode = "ingest"
  /\ loop[l] = "off"
  /\ Spend("start", MaxStarts)
  /\ running' = TRUE
  /\ loop' = [loop EXCEPT ![l] = "top"]
  /\ UNCHANGED <<mode, platform, telegram, request, queue, accepted, taken, ends>>

Stop ==
  /\ mode = "ingest" /\ running
  /\ Spend("stop", MaxStops)
  /\ running' = FALSE
  /\ UNCHANGED <<mode, platform, telegram, request, queue, loop, accepted, taken, ends>>

Goto(l, label) == loop' = [loop EXCEPT ![l] = label]

\* Defect: the update stays in the queue while it is handled.
TakePeeking(l) ==
  /\ loop[l] = "top" /\ running
  /\ queue # <<>>
  /\ Goto(l, Head(queue))
  /\ taken' = Append(taken, Head(queue))
  /\ UNCHANGED queue
  /\ UNCHANGED <<mode, platform, telegram, request, running, accepted, ends, budget>>

Take(l) ==
  /\ loop[l] = "top" /\ running
  /\ queue # <<>>
  /\ Goto(l, Head(queue))
  /\ taken' = Append(taken, Head(queue))
  /\ queue' = Tail(queue)
  /\ UNCHANGED <<mode, platform, telegram, request, running, accepted, ends, budget>>

\* Nothing to do: setTimeout of 10 ms, which stop() does not cut short.
Sleep(l) ==
  /\ loop[l] = "top" /\ running
  /\ queue = <<>>
  /\ Goto(l, "asleep")
  /\ UNCHANGED <<mode, platform, telegram, request, queue, running, accepted, taken,
                 ends, budget>>

Wake(l) ==
  /\ loop[l] = "asleep"
  /\ Goto(l, "top")
  /\ UNCHANGED <<mode, platform, telegram, request, queue, running, accepted, taken,
                 ends, budget>>

LoopEnds(l) ==
  /\ loop[l] = "top" /\ ~running
  /\ Goto(l, "off")
  /\ UNCHANGED <<mode, platform, telegram, request, queue, running, accepted, taken,
                 ends, budget>>

LoopHandled(l) ==
  /\ loop[l] \in Updates
  /\ handled' = handled \cup {loop[l]}
  /\ Goto(l, "top")
  /\ UNCHANGED <<mode, platform, telegram, request, queue, running, accepted, taken,
                 failed, lost, budget>>

\* The handler throws: the rejection ends run() and start() and leaves running
\* set, so nobody takes what is still queued.
LoopThrows(l) ==
  /\ loop[l] \in Updates
  /\ Spend("fault", MaxFaults)
  /\ failed' = failed \cup {loop[l]}
  /\ Goto(l, "off")
  /\ UNCHANGED <<mode, platform, telegram, request, queue, running, accepted, taken,
                 handled, lost>>

\* The process dies; what Telegram still waits for is sent again.
Crash ==
  /\ Spend("fault", MaxFaults)
  /\ request' = [r \in Requests |-> Free]
  /\ telegram' = [u \in Updates |->
                    IF telegram[u] \in Requests THEN "waiting" ELSE telegram[u]]
  /\ lost' = lost \cup {queue[i] : i \in DOMAIN queue}
                  \cup {loop[l] : l \in {m \in Loops : loop[m] \in Updates}}
  /\ queue' = <<>> /\ running' = FALSE /\ loop' = [l \in Loops |-> "off"]
  /\ accepted' = <<>> /\ taken' = <<>>
  /\ UNCHANGED <<mode, platform, handled, failed>>

Serve(r) == Check(r) \/ Handled(r)
Run(l) == Take(l) \/ Sleep(l) \/ Wake(l) \/ LoopEnds(l) \/ LoopHandled(l)

Next ==
  \/ \E r \in Requests :
       \/ \E u \in Updates : Post(r, u)
       \/ \E content \in Forgeries : Forge(r, content)
       \/ Serve(r) \/ HandlerThrows(r)
  \/ \E u \in Updates : GiveUp(u)
  \/ \E l \in Loops : Start(l) \/ Run(l) \/ LoopThrows(l)
  \/ Stop \/ Crash

Spec == Init /\ [][Next]_vars

\* Telegram goes on sending what is not acknowledged, requests are served,
\* handlers settle and timers fire.
FairSpec ==
  /\ Spec
  /\ \A u \in Updates : WF_vars(\E r \in Requests : Post(r, u))
  /\ \A r \in Requests : WF_vars(Serve(r))
  /\ \A l \in Loops : WF_vars(Run(l))

-------------------------------------------------------------------------------
(* Properties.                                                             *)

Acknowledged == {u \in Updates : telegram[u] = "acknowledged"}
Held == {queue[i] : i \in DOMAIN queue}
          \cup {loop[l] : l \in {m \in Loops : loop[m] \in Updates}}

\* An acknowledged update is accounted for.  Direct: its handler resolved, in this
\* process or an earlier one, whatever requests were sent twice, given up or cut
\* off.  Ingest: it was handled, waits in the process, failed or died with it.
AcknowledgedAccounted ==
  Acknowledged \subseteq handled \cup (IF mode = "direct" THEN {}
                                       ELSE Held \cup failed \cup lost)

\* Ingested updates are handed to the handler once each and in their order,
\* also when stop() and start() leave two loops on the queue for a while.
QueueInOrder == taken \o queue = accepted

\* Requests that reach a handler or the queue are Telegram's, and Telegram's are
\* never refused, on every platform and however its header is spelt: a 4xx would
\* make Telegram send the update again forever.
Admission ==
  \A r \in Requests :
    request[r].pc \in {"arrived", "handling"} =>
      LET admitted == Status(request[r].content, Normalized(request[r].header)) = 0
      IN  /\ admitted <=> request[r].content = Honest
          /\ request[r].pc = "handling" => admitted

\* Every update ends, however often it fails, times out or meets a crash; with
\* ingest, unless nobody runs the loop.
LoopRuns == running /\ \E l \in Loops : loop[l] # "off"

UpdatesEnd ==
  \A u \in Updates :
    <>(\/ u \in handled \cup failed \cup lost
       \/ mode = "ingest" /\ ~LoopRuns)

===============================================================================
