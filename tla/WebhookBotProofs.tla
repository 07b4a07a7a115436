--------------------------- MODULE WebhookBotProofs ---------------------------
(***************************************************************************)
(* What a bot behind a webhook guarantees for any number of updates, open  *)
(* requests, loops, faults, restarts and forged requests.                  *)
(***************************************************************************)
EXTENDS WebhookBot, SequenceTheorems, TLAPS

Contents == {Honest} \cup Forgeries

RequestTypes == {Free} \cup [pc: {"arrived", "handling"}, update: Updates \cup {"none"},
                             content: Contents, header: {"mixed", "lower"}]

\* An honest request carries an update, one that is handled is honest, and Telegram
\* waits for the request that carries the update.
Http ==
  /\ telegram \in [Updates -> Requests \cup {"waiting", "acknowledged"}]
  /\ request \in [Requests -> RequestTypes]
  /\ \A r \in Requests :
       /\ request[r] # Free /\ request[r].content = Honest => request[r].update \in Updates
       /\ request[r].pc = "handling" => request[r].content = Honest
  /\ \A u \in Updates :
       telegram[u] \in Requests =>
         request[telegram[u]] # Free /\ request[telegram[u]].update = u

\* The queue and the loops hold updates, and none is lost, doubled or overtaken.
Order ==
  /\ queue \in Seq(Updates) /\ taken \in Seq(Updates) /\ accepted \in Seq(Updates)
  /\ loop \in [Loops -> {"off", "top", "asleep"} \cup Updates]
  /\ taken \o queue = accepted

Accounted == handled \cup (IF mode = "direct" THEN {} ELSE Held \cup failed \cup lost)

-------------------------------------------------------------------------------
(* Requests.                                                               *)

LEMMA StatusLemma ==
  ASSUME NEW content \in Contents, NEW header
  PROVE  /\ Status(content, Normalized(header)) = 0 <=> content = Honest
         /\ Status(content, Normalized(header)) # 200
  <1>1. SecretFound(Normalized(header))
    BY DEF SecretFound, Normalized
  <1>2. CASE content = Honest
    <2>1. content.method = "POST" /\ content.secret = "right" /\ content.body = "update"
      BY <1>2 DEF Honest
    <2> QED
      BY <1>1, <1>2, <2>1 DEF Status
  <1>3. CASE content \in Forgeries
    <2>1. content.method # "POST" \/ content.secret # "right" \/ content.body # "update"
      BY <1>3 DEF Forgeries, Honest
    <2>2. content # Honest
      BY <2>1 DEF Honest
    <2> QED
      BY <1>1, <2>1, <2>2 DEF Status
  <1> QED
    BY <1>2, <1>3 DEF Contents

LEMMA RequestLemma ==
  ASSUME Http, NEW r \in Requests, request[r].pc \in {"arrived", "handling"}
  PROVE  /\ request[r] # Free
         /\ request[r] \in [pc: {"arrived", "handling"}, update: Updates \cup {"none"},
                            content: Contents, header: {"mixed", "lower"}]
         /\ request[r].content \in Contents
  <1>1. request[r] \in RequestTypes
    BY DEF Http
  <1>2. request[r] # Free
    BY DEF Free
  <1> QED
    BY <1>1, <1>2 DEF RequestTypes

\* Answering a request acknowledges its own update at most.
LEMMA AnswerLemma ==
  ASSUME Http, NEW r \in Requests, NEW status, Answer(r, status)
  PROVE  /\ Http'
         /\ \A u \in Updates :
              telegram'[u] = "acknowledged" =>
                \/ telegram[u] = "acknowledged"
                \/ status = 200 /\ u = request[r].update
  <1>1. /\ request' = [request EXCEPT ![r] = Free]
        /\ \A u \in Updates :
             telegram'[u] = IF telegram[u] # r THEN telegram[u]
                            ELSE IF status = 200 THEN "acknowledged" ELSE "waiting"
        /\ telegram' \in [Updates -> Requests \cup {"waiting", "acknowledged"}]
    BY DEF Answer, Http
  <1>2. /\ request' \in [Requests -> RequestTypes] /\ request'[r] = Free
        /\ \A s \in Requests : s # r => request'[s] = request[s]
    BY <1>1 DEF Http, RequestTypes
  <1>3. \A u \in Updates : telegram'[u] \in Requests => telegram'[u] = telegram[u] /\ telegram[u] # r
    BY <1>1, WebhookBotAssumption
  <1>4. Free.pc # "handling"
    BY DEF Free
  <1>5. ASSUME NEW s \in Requests
        PROVE  /\ request'[s] # Free /\ request'[s].content = Honest =>
                    request'[s].update \in Updates
               /\ request'[s].pc = "handling" => request'[s].content = Honest
    BY <1>2, <1>4 DEF Http
  <1>6. ASSUME NEW u \in Updates, telegram'[u] \in Requests
        PROVE  request'[telegram'[u]] # Free /\ request'[telegram'[u]].update = u
    BY <1>2, <1>3, <1>6 DEF Http
  <1>7. Http'
    BY <1>1, <1>2, <1>5, <1>6 DEF Http
  <1>8. \A u \in Updates : telegram[u] = r => u = request[r].update
    BY DEF Http
  <1> QED
    BY <1>1, <1>7, <1>8

\* A request arrives.
LEMMA ArriveLemma ==
  ASSUME Http, NEW r \in Requests, request[r] = Free,
         NEW update \in Updates \cup {"none"}, NEW content \in Contents,
         content = Honest => update \in Updates,
         request' = [request EXCEPT ![r] = [pc |-> "arrived", update |-> update,
                                            content |-> content, header |-> SecretHeader]],
         \/ telegram' = telegram
         \/ update \in Updates /\ telegram' = [telegram EXCEPT ![update] = r]
  PROVE  Http'
  <1> DEFINE new == [pc |-> "arrived", update |-> update, content |-> content,
                     header |-> SecretHeader]
  <1>1. new \in RequestTypes
    BY DEF RequestTypes, SecretHeader
  <1>2. new.pc = "arrived" /\ new.update = update /\ new.content = content /\ new # Free
    BY DEF Free
  <1> HIDE DEF new
  <1>3. request' = [request EXCEPT ![r] = new]
    BY DEF new
  <1>4. /\ request' \in [Requests -> RequestTypes] /\ request'[r] = new
        /\ \A s \in Requests : s # r => request'[s] = request[s]
    BY <1>1, <1>3 DEF Http
  <1>5. telegram' \in [Updates -> Requests \cup {"waiting", "acknowledged"}]
    BY DEF Http
  <1>6. \A u \in Updates : telegram[u] # r
    BY DEF Http
  <1>7. ASSUME NEW u \in Updates, telegram'[u] \in Requests
        PROVE  request'[telegram'[u]] # Free /\ request'[telegram'[u]].update = u
    <2>1. CASE telegram'[u] = telegram[u]
      BY <1>4, <1>6, <1>7, <2>1 DEF Http
    <2>2. CASE telegram'[u] # telegram[u]
      <3>1. u = update /\ telegram'[u] = r
        BY <2>2 DEF Http
      <3> QED
        BY <1>2, <1>4, <3>1
    <2> QED
      BY <2>1, <2>2
  <1>8. ASSUME NEW s \in Requests
        PROVE  /\ request'[s] # Free /\ request'[s].content = Honest =>
                    request'[s].update \in Updates
               /\ request'[s].pc = "handling" => request'[s].content = Honest
    BY <1>2, <1>4 DEF Http
  <1> QED
    BY <1>4, <1>5, <1>7, <1>8 DEF Http

\* Every step keeps Http and acknowledges only what is accounted for.
LEMMA HttpStep ==
  ASSUME Http, [Next]_vars
  PROVE  /\ Http'
         /\ mode' = mode /\ handled \subseteq handled'
         /\ \A u \in Updates :
              telegram'[u] = "acknowledged" =>
                \/ telegram[u] = "acknowledged"
                \/ u \in handled'
                \/ mode = "ingest" /\ u \in Held'
  <1>1. CASE UNCHANGED <<mode, telegram, request>> /\ handled \subseteq handled'
    BY <1>1 DEF Http
  <1>2. CASE UNCHANGED vars
    BY <1>1, <1>2 DEF vars, ends
  <1>3. ASSUME NEW r \in Requests, NEW u \in Updates, Post(r, u)
        PROVE  /\ Http' /\ mode' = mode /\ handled \subseteq handled'
               /\ \A v \in Updates : telegram'[v] = "acknowledged" => telegram[v] = "acknowledged"
    <2>1. Honest \in Contents
      BY DEF Contents
    <2>2. Http'
      BY <1>3, <2>1, ArriveLemma DEF Post
    <2>3. telegram' = [telegram EXCEPT ![u] = r] /\ r # "acknowledged"
      BY <1>3, WebhookBotAssumption DEF Post
    <2> QED
      BY <1>3, <2>2, <2>3 DEF Post, Http, ends
  <1>4. ASSUME NEW r \in Requests, NEW content \in Forgeries, Forge(r, content)
        PROVE  /\ Http' /\ UNCHANGED <<mode, telegram>> /\ handled \subseteq handled'
    <2>1. content \in Contents /\ content # Honest
      <3>1. content.method # "POST" \/ content.secret # "right" \/ content.body # "update"
        BY DEF Forgeries, Honest
      <3> QED
        BY <3>1 DEF Contents, Honest
    <2>2. "none" \in Updates \cup {"none"}
      OBVIOUS
    <2>3. /\ request[r] = Free /\ telegram' = telegram
          /\ request' = [request EXCEPT ![r] = [pc |-> "arrived", update |-> "none",
                                               content |-> content, header |-> SecretHeader]]
      BY <1>4 DEF Forge
    <2>4. Http'
      BY <2>1, <2>2, <2>3, ArriveLemma
    <2> QED
      BY <1>4, <2>4 DEF Forge, ends
  <1>5. ASSUME NEW r \in Requests, Check(r)
        PROVE  /\ Http' /\ mode' = mode /\ handled \subseteq handled'
               /\ \A u \in Updates :
                    telegram'[u] = "acknowledged" =>
                      telegram[u] = "acknowledged" \/ (mode = "ingest" /\ u \in Held')
    <2> DEFINE status == Status(request[r].content, Normalized(request[r].header))
    <2>0. request[r].pc = "arrived" /\ mode' = mode /\ handled \subseteq handled'
      BY <1>5 DEF Check, ends
    <2>1. /\ request[r] # Free /\ request[r].content \in Contents
          /\ request[r] \in [pc: {"arrived", "handling"}, update: Updates \cup {"none"},
                             content: Contents, header: {"mixed", "lower"}]
      BY <2>0, RequestLemma
    <2>2. status # 200 /\ (status = 0 <=> request[r].content = Honest)
      BY <2>1, StatusLemma
    <2>3. CASE status # 0 /\ Answer(r, status)
      BY <2>0, <2>2, <2>3, AnswerLemma
    <2>4. CASE /\ status = 0 /\ telegram' = telegram
               /\ request' = [request EXCEPT ![r].pc = "handling", ![r].header = "lower"]
      <3> DEFINE new == [request[r] EXCEPT !.pc = "handling", !.header = "lower"]
      <3>1. /\ new \in RequestTypes /\ new # Free
            /\ new.update = request[r].update /\ new.content = request[r].content
        BY <2>1 DEF RequestTypes, Free
      <3>2. request' = [request EXCEPT ![r] = new]
        BY <2>4 DEF Http
      <3> HIDE DEF new
      <3>3. /\ request' \in [Requests -> RequestTypes] /\ request'[r] = new
            /\ \A s \in Requests : s # r => request'[s] = request[s]
        BY <3>1, <3>2 DEF Http
      <3>4. ASSUME NEW s \in Requests
            PROVE  /\ request'[s] # Free /\ request'[s].content = Honest =>
                        request'[s].update \in Updates
                   /\ request'[s].pc = "handling" => request'[s].content = Honest
        BY <2>1, <2>2, <2>4, <3>1, <3>3 DEF Http
      <3>5. ASSUME NEW u \in Updates, telegram'[u] \in Requests
            PROVE  request'[telegram'[u]] # Free /\ request'[telegram'[u]].update = u
        BY <2>4, <3>1, <3>3, <3>5 DEF Http
      <3>6. Http'
        BY <2>4, <3>3, <3>4, <3>5 DEF Http
      <3> QED
        BY <2>0, <2>4, <3>6
    <2>5. CASE /\ status = 0 /\ mode = "ingest" /\ Answer(r, 200)
               /\ queue' = Append(queue, request[r].update)
      <3>1. queue'[Len(queue) + 1] = request[r].update /\ Len(queue) + 1 \in DOMAIN queue'
        BY <2>5
      <3>2. request[r].update \in Held'
        BY <3>1 DEF Held
      <3> QED
        BY <2>0, <2>5, <3>2, AnswerLemma
    <2> QED
      BY <1>5, <2>3, <2>4, <2>5 DEF Check
  <1>6. ASSUME NEW r \in Requests, Handled(r)
        PROVE  /\ Http' /\ mode' = mode /\ handled \subseteq handled'
               /\ \A u \in Updates :
                    telegram'[u] = "acknowledged" =>
                      telegram[u] = "acknowledged" \/ u \in handled'
    BY <1>6, AnswerLemma DEF Handled
  <1>7. ASSUME NEW r \in Requests, HandlerThrows(r)
        PROVE  /\ Http' /\ mode' = mode /\ handled \subseteq handled'
               /\ \A u \in Updates :
                    telegram'[u] = "acknowledged" => telegram[u] = "acknowledged"
    BY <1>7, AnswerLemma DEF HandlerThrows, ends
  <1>8. ASSUME NEW u \in Updates, GiveUp(u)
        PROVE  /\ Http' /\ mode' = mode /\ handled \subseteq handled'
               /\ \A v \in Updates : telegram'[v] = "acknowledged" => telegram[v] = "acknowledged"
    <2>1. telegram' = [telegram EXCEPT ![u] = "waiting"] /\ request' = request
      BY <1>8 DEF GiveUp
    <2>2. "waiting" \notin Requests
      BY WebhookBotAssumption
    <2>3. \A v \in Updates : telegram'[v] = telegram[v] \/ telegram'[v] = "waiting"
      BY <2>1 DEF Http
    <2>4. telegram' \in [Updates -> Requests \cup {"waiting", "acknowledged"}]
      BY <2>1 DEF Http
    <2>5. Http'
      BY <2>1, <2>2, <2>3, <2>4 DEF Http
    <2> QED
      BY <1>8, <2>3, <2>5 DEF GiveUp, ends
  <1>9. ASSUME NEW l \in Loops, Start(l) \/ Run(l) \/ LoopThrows(l)
        PROVE  UNCHANGED <<mode, telegram, request>> /\ handled \subseteq handled'
    BY <1>9 DEF Start, Run, Take, Sleep, Wake, LoopEnds, LoopHandled, LoopThrows, Goto, ends
  <1>10. CASE Stop
    BY <1>1, <1>10 DEF Stop, ends
  <1>11. ASSUME Crash
         PROVE  /\ Http' /\ mode' = mode /\ handled \subseteq handled'
                /\ \A u \in Updates :
                     telegram'[u] = "acknowledged" => telegram[u] = "acknowledged"
    <2>1. /\ request' = [r \in Requests |-> Free]
          /\ telegram' = [u \in Updates |->
                            IF telegram[u] \in Requests THEN "waiting" ELSE telegram[u]]
      BY <1>11 DEF Crash
    <2>2. "waiting" \notin Requests
      BY WebhookBotAssumption
    <2>3. \A u \in Updates : telegram'[u] \notin Requests
      BY <2>1, <2>2
    <2>4. \A r \in Requests : request'[r] = Free /\ Free.pc # "handling"
      BY <2>1 DEF Free
    <2>5. request' \in [Requests -> RequestTypes]
      BY <2>1 DEF RequestTypes
    <2>6. telegram' \in [Updates -> Requests \cup {"waiting", "acknowledged"}]
      BY <2>1 DEF Http
    <2>7. Http'
      BY <2>3, <2>4, <2>5, <2>6 DEF Http
    <2> QED
      BY <1>11, <2>1, <2>7 DEF Crash
  <1> QED
    BY <1>1, <1>2, <1>3, <1>4, <1>5, <1>6, <1>7, <1>8, <1>9, <1>10, <1>11 DEF Next, Serve

-------------------------------------------------------------------------------
(* The queue.                                                              *)

\* The step adds an update at the end, takes one from the front, starts the process
\* over, or leaves the queue alone.
LEMMA OrderStep ==
  ASSUME Http, Order, [Next]_vars
  PROVE  Order'
  <1>0. /\ queue \in Seq(Updates) /\ taken \in Seq(Updates) /\ accepted \in Seq(Updates)
        /\ loop \in [Loops -> {"off", "top", "asleep"} \cup Updates]
        /\ taken \o queue = accepted
    BY DEF Order
  <1>1. CASE /\ UNCHANGED <<queue, taken, accepted>>
             /\ \/ loop' = loop
                \/ \E l \in Loops : \E label \in {"off", "top", "asleep"} : Goto(l, label)
    <2>1. loop' \in [Loops -> {"off", "top", "asleep"} \cup Updates]
      BY <1>0, <1>1 DEF Goto
    <2> QED
      BY <1>0, <1>1, <2>1 DEF Order
  <1>2. ASSUME NEW r \in Requests, Check(r) PROVE Order'
    <2> DEFINE u == request[r].update
               status == Status(request[r].content, Normalized(request[r].header))
    <2>1. CASE status # 0 \/ mode = "direct"
      BY <1>1, <1>2, <2>1 DEF Check, source
    <2>2. CASE status = 0 /\ mode # "direct"
      <3>1. /\ queue' = Append(queue, u) /\ accepted' = Append(accepted, u)
            /\ taken' = taken /\ loop' = loop /\ request[r].pc = "arrived"
        BY <1>2, <2>2 DEF Check
      <3>2. request[r] # Free /\ request[r].content \in Contents
        BY <3>1, RequestLemma
      <3>3. u \in Updates
        BY <2>2, <3>2, StatusLemma DEF Http
      <3> HIDE DEF u
      <3>4. /\ queue' \in Seq(Updates) /\ accepted' \in Seq(Updates)
            /\ queue' = queue \o <<u>> /\ accepted' = accepted \o <<u>> /\ <<u>> \in Seq(Updates)
        BY <1>0, <3>1, <3>3, AppendProperties, AppendIsConcat
      <3>5. taken \o (queue \o <<u>>) = (taken \o queue) \o <<u>>
        <4>1. <<u>> \in Seq(Updates)
          BY <3>4
        <4> QED
          BY <1>0, <4>1, ConcatAssociative
      <3> QED
        BY <1>0, <3>1, <3>4, <3>5 DEF Order
    <2> QED
      BY <2>1, <2>2
  <1>3. ASSUME NEW l \in Loops, Take(l) PROVE Order'
    <2> DEFINE u == Head(queue)
    <2>1. /\ queue # <<>> /\ queue' = Tail(queue) /\ taken' = Append(taken, u)
          /\ loop' = [loop EXCEPT ![l] = u] /\ accepted' = accepted
      BY <1>3 DEF Take, Goto
    <2>2. u \in Updates /\ Tail(queue) \in Seq(Updates) /\ queue = <<u>> \o Tail(queue)
      BY <1>0, <2>1, HeadTailProperties
    <2> HIDE DEF u
    <2>3. taken' \in Seq(Updates) /\ taken' = taken \o <<u>> /\ <<u>> \in Seq(Updates)
      BY <1>0, <2>1, <2>2, AppendProperties, AppendIsConcat
    <2>4. taken \o (<<u>> \o Tail(queue)) = (taken \o <<u>>) \o Tail(queue)
      BY <1>0, <2>2, <2>3, ConcatAssociative, SMTT(30)
    <2>5. loop' \in [Loops -> {"off", "top", "asleep"} \cup Updates]
      BY <1>0, <2>1, <2>2
    <2> QED
      BY <1>0, <2>1, <2>2, <2>3, <2>4, <2>5 DEF Order
  <1>4. CASE Crash
    BY <1>4 DEF Crash, Order
  <1>5. ASSUME NEW r \in Requests,
               (\E u \in Updates : Post(r, u)) \/ (\E content \in Forgeries : Forge(r, content))
                 \/ Handled(r) \/ HandlerThrows(r)
        PROVE  Order'
    BY <1>1, <1>5 DEF Post, Forge, Handled, HandlerThrows, source
  <1>6. ASSUME NEW u \in Updates, GiveUp(u) PROVE Order'
    BY <1>1, <1>6 DEF GiveUp, source
  <1>7. ASSUME NEW l \in Loops,
               Start(l) \/ Sleep(l) \/ Wake(l) \/ LoopEnds(l) \/ LoopHandled(l) \/ LoopThrows(l)
        PROVE  Order'
    BY <1>1, <1>7 DEF Start, Sleep, Wake, LoopEnds, LoopHandled, LoopThrows, Goto
  <1>8. CASE Stop \/ UNCHANGED vars
    BY <1>1, <1>8 DEF Stop, vars, source
  <1> QED
    BY <1>2, <1>3, <1>4, <1>5, <1>6, <1>7, <1>8 DEF Next, Serve, Run

LEMMA HttpAndOrder == Spec => [](Http /\ Order)
  <1>1. Init => Http
    BY WebhookBotAssumption DEF Init, Http, Free, RequestTypes
  <1>2. Init => Order
    BY DEF Init, Order
  <1> QED
    BY <1>1, <1>2, HttpStep, OrderStep, PTL DEF Spec

\* Ingested updates are handed to the handler once each and in their order, also when
\* stop() and start() leave several loops on the queue for a while.
THEOREM IngestedInOrder == Spec => []QueueInOrder
  <1>1. Order => QueueInOrder
    BY DEF Order, QueueInOrder
  <1> QED
    BY <1>1, HttpAndOrder, PTL

\* Requests that reach a handler or the queue are Telegram's, and Telegram's are never
\* refused, on every platform and however its header is spelt.
THEOREM OnlyTelegramAdmitted == Spec => []Admission
  <1>1. Http => Admission
    BY RequestLemma, StatusLemma DEF Http, Admission
  <1> QED
    BY <1>1, HttpAndOrder, PTL

-------------------------------------------------------------------------------
(* What becomes of an update.                                              *)

\* An update in the process stays there or ends.
LEMMA HeldStep ==
  ASSUME Http, Order, [Next]_vars
  PROVE  Held \cup handled \cup failed \cup lost \subseteq (Held \cup handled \cup failed \cup lost)'
  <1>0. /\ queue \in Seq(Updates) /\ loop \in [Loops -> {"off", "top", "asleep"} \cup Updates]
        /\ {"off", "top", "asleep"} \cap Updates = {}
    BY WebhookBotAssumption DEF Order
  <1>1. CASE UNCHANGED <<queue, loop, failed, lost>> /\ handled \subseteq handled'
    BY <1>1 DEF Held
  <1>2. ASSUME NEW l \in Loops, loop[l] \notin Updates, NEW label, Goto(l, label),
               queue' = queue, UNCHANGED ends
        PROVE  Held \subseteq Held'
    <2>1. \A k \in Loops : loop[k] \in Updates => loop'[k] = loop[k]
      BY <1>0, <1>2 DEF Goto
    <2> QED
      BY <1>2, <2>1 DEF Held
  <1>3. ASSUME NEW r \in Requests, Check(r)
        PROVE  Held \subseteq Held' /\ UNCHANGED ends
    <2>1. loop' = loop /\ UNCHANGED ends
      BY <1>3 DEF Check, source
    <2>2. queue' = queue \/ \E u : queue' = Append(queue, u)
      BY <1>3 DEF Check, source
    <2>3. \A i \in DOMAIN queue : i \in DOMAIN queue' /\ queue'[i] = queue[i]
      BY <1>0, <2>2
    <2> QED
      BY <2>1, <2>3 DEF Held
  <1>4. ASSUME NEW l \in Loops, Take(l) PROVE Held \subseteq Held' /\ UNCHANGED ends
    <2>1. /\ queue # <<>> /\ queue' = Tail(queue) /\ loop' = [loop EXCEPT ![l] = Head(queue)]
          /\ loop[l] = "top" /\ UNCHANGED ends
      BY <1>4 DEF Take, Goto
    <2>2. /\ Len(queue) \in Nat /\ DOMAIN queue = 1 .. Len(queue) /\ Head(queue) = queue[1]
          /\ DOMAIN queue' = 1 .. Len(queue) - 1
          /\ \A i \in 1 .. Len(queue) - 1 : queue'[i] = queue[i + 1]
          /\ Head(queue) \in Updates
      BY <1>0, <2>1, HeadTailProperties
    <2>3. \A i \in DOMAIN queue : i = 1 \/ (i - 1 \in DOMAIN queue' /\ queue'[i - 1] = queue[i])
      BY <2>2
    <2>4. loop'[l] = queue[1] /\ loop'[l] \in Updates
      BY <1>0, <2>1, <2>2
    <2>5. \A k \in Loops : loop[k] \in Updates => loop'[k] = loop[k]
      BY <1>0, <2>1
    <2>6. ASSUME NEW i \in DOMAIN queue PROVE queue[i] \in Held'
      BY <2>3, <2>4 DEF Held
    <2>7. ASSUME NEW k \in Loops, loop[k] \in Updates PROVE loop[k] \in Held'
      BY <2>5, <2>7 DEF Held
    <2> QED
      BY <2>1, <2>6, <2>7 DEF Held
  <1>5. ASSUME NEW l \in Loops, NEW label, loop[l] \in Updates, Goto(l, label), queue' = queue
        PROVE  Held \subseteq Held' \cup {loop[l]}
    <2>1. \A k \in Loops : k # l => loop'[k] = loop[k]
      BY <1>0, <1>5 DEF Goto
    <2> QED
      BY <1>5, <2>1 DEF Held
  <1>6. ASSUME NEW l \in Loops, LoopHandled(l)
        PROVE  Held \cup handled \cup failed \cup lost \subseteq (Held \cup handled \cup failed \cup lost)'
    BY <1>5, <1>6 DEF LoopHandled
  <1>7. ASSUME NEW l \in Loops, LoopThrows(l)
        PROVE  Held \cup handled \cup failed \cup lost \subseteq (Held \cup handled \cup failed \cup lost)'
    BY <1>5, <1>7 DEF LoopThrows
  <1>8. ASSUME NEW l \in Loops, Sleep(l) \/ Wake(l) \/ LoopEnds(l) \/ Start(l)
        PROVE  Held \subseteq Held' /\ UNCHANGED ends
    <2>1. loop[l] \notin Updates /\ queue' = queue /\ UNCHANGED ends
      BY <1>0, <1>8 DEF Sleep, Wake, LoopEnds, Start, ends
    <2>2. \E label : Goto(l, label)
      BY <1>8 DEF Sleep, Wake, LoopEnds, Start, Goto
    <2> QED
      BY <1>2, <2>1, <2>2
  <1>9. CASE Crash
    <2>1. lost' = lost \cup Held /\ handled' = handled /\ failed' = failed
      BY <1>9 DEF Crash, Held
    <2> QED
      BY <2>1
  <1>10. ASSUME NEW r \in Requests,
                (\E u \in Updates : Post(r, u)) \/ (\E content \in Forgeries : Forge(r, content))
                  \/ Handled(r) \/ HandlerThrows(r)
         PROVE  UNCHANGED <<queue, loop, failed, lost>> /\ handled \subseteq handled'
    BY <1>10 DEF Post, Forge, Handled, HandlerThrows, source, ends
  <1>11. ASSUME NEW u \in Updates, GiveUp(u)
         PROVE  UNCHANGED <<queue, loop, failed, lost>> /\ handled \subseteq handled'
    BY <1>11 DEF GiveUp, source, ends
  <1>12. CASE Stop \/ UNCHANGED vars
    BY <1>1, <1>12 DEF Stop, vars, source, ends
  <1> QED
    BY <1>1, <1>3, <1>4, <1>6, <1>7, <1>8, <1>9, <1>10, <1>11, <1>12
       DEF Next, Serve, Run, ends

\* An acknowledged update is accounted for.  Direct: its handler resolved, in this
\* process or an earlier one.  Ingest: it was handled, waits in the process, failed or
\* died with it.
THEOREM NoUnaccountedUpdate == Spec => []AcknowledgedAccounted
  <1>1. Init => AcknowledgedAccounted
    BY DEF Init, AcknowledgedAccounted, Acknowledged
  <1>2. Http /\ Order /\ AcknowledgedAccounted /\ [Next]_vars => AcknowledgedAccounted'
    <2> SUFFICES ASSUME Http, Order, AcknowledgedAccounted, [Next]_vars,
                        NEW u \in Updates, telegram'[u] = "acknowledged"
                 PROVE  u \in Accounted'
      BY DEF AcknowledgedAccounted, Acknowledged, Accounted
    <2>1. /\ mode' = mode /\ handled \subseteq handled'
          /\ \/ telegram[u] = "acknowledged"
             \/ u \in handled'
             \/ mode = "ingest" /\ u \in Held'
      BY HttpStep
    <2>2. CASE telegram[u] = "acknowledged"
      <3>1. u \in Accounted
        BY <2>2 DEF AcknowledgedAccounted, Acknowledged, Accounted
      <3> QED
        BY <2>1, <3>1, HeldStep DEF Accounted
    <2>3. CASE u \in handled' \/ (mode = "ingest" /\ u \in Held')
      BY <2>1, <2>3 DEF Accounted
    <2> QED
      BY <2>1, <2>2, <2>3
  <1> QED
    BY <1>1, <1>2, HttpAndOrder, PTL DEF Spec

===============================================================================
