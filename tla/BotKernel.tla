------------------------------- MODULE BotKernel -------------------------------
(***************************************************************************)
(* BotKernel.handleUpdate (src/core/bot-kernel.ts): updates of one session  *)
(* key delivered concurrently, each routed (Router) inside a runInSession,  *)
(* with scene transitions, the middleware pipeline and the payment          *)
(* middleware of src/payments/stars.ts.                                     *)
(*                                                                         *)
(* The session is what SessionManager makes of it: a runner works on a      *)
(* clone, the clone replaces the session only if nobody saved meanwhile,    *)
(* and otherwise the runner runs again from the start.  Everything the      *)
(* runner does outside of the clone is done again with it.                  *)
(*                                                                         *)
(* A delivery is                                                           *)
(*   idle, load, dispatch    not yet here, before and after the session    *)
(*                           was loaded                                    *)
(*   pipe      in the middleware on top of its stack                       *)
(*   handler   in the handler of its route                                 *)
(*   save      the runner has resolved                                     *)
(*   saved / rejected / ignored   handleUpdate resolved, threw, or found no *)
(*                           session key                                   *)
(*                                                                         *)
(* A middleware is its behaviour: "pass" calls next once, "gate" once or    *)
(* not at all, "twice" up to two times, "payment" is createPaymentMiddleware *)
(* with automatic approval.                                                 *)
(***************************************************************************)
EXTENDS Router

CONSTANTS Deliveries,      \* handleUpdate calls, redeliveries included
          Kinds,           \* the kinds of updates that arrive
          Scenes,
          Transitions,     \* options.transitions, a function on some scenes
          RouteTables,     \* what the application may have registered ...
          MiddlewareTables,
          LateRoutes,      \* ... and what it may register while updates arrive
          ConflictRetries, \* of the session manager
          MaxMoves         \* bound: scene changes of one run of a handler

Behaviours == {"pass", "gate", "twice", "payment"}
GlobalMiddleware == [priority : Int, fn : Behaviours]

\* Every route that is registered at some time.
KnownRoutes ==
  LateRoutes \cup UNION {{table[i] : i \in DOMAIN table} : table \in RouteTables}

ASSUME BotKernelAssumption ==
  /\ Kinds \subseteq {"command", "text", "tap", "checkout", "payment", "keyless"}
  /\ NoValue \notin Scenes
  /\ ConflictRetries \in Nat /\ MaxMoves \in Nat
  /\ RouteTables \subseteq Seq(KnownRoutes)
  /\ \A route \in KnownRoutes :
       route.priority \in Int /\ route.middlewares \in Seq(Behaviours)
  /\ MiddlewareTables \subseteq Seq(GlobalMiddleware)

VARIABLES routes, sorted,  \* TreeRouter.routes and sortedRoutesCache
          middlewares,     \* TreeRouter.globalMiddlewares
          store,           \* the session: its version and its scene changes
          job,             \* what each delivery is doing
          announced,       \* onTransition has been told of these scene changes
          hookFailed,      \* onEnter or onTransition threw at these
          fulfilled,       \* onSuccessfulPayment calls of a delivery
          answered         \* answerPreCheckoutQuery calls of a delivery

outside == <<announced, hookFailed, fulfilled, answered>>
vars == <<routes, sorted, middlewares, store, job, outside>>

Unsorted == <<-1>>
NewJob == [pc |-> "idle", kind |-> "none", attempt |-> 1,
           version |-> 0, path |-> <<>>, moves |-> <<>>,
           route |-> 0, index |-> 0, stack |-> <<>>, passed |-> {}, handled |-> FALSE]

Init ==
  /\ routes \in RouteTables /\ sorted = Unsorted
  /\ middlewares \in MiddlewareTables
  /\ store = [version |-> 1, path |-> <<>>]
  /\ job = [d \in Deliveries |-> NewJob]
  /\ announced = {} /\ hookFailed = {}
  /\ fulfilled = [d \in Deliveries |-> 0] /\ answered = [d \in Deliveries |-> 0]

\* session.current_state after these scene changes.
SceneAfter(path) == IF path = <<>> THEN NoValue ELSE path[Len(path)].to

\* Goto: delivery d continues at pc with the other fields of the record changed.
Goto(d, next) == job' = [job EXCEPT ![d] = next]
Go(d, pc) == Goto(d, [job[d] EXCEPT !.pc = pc])

\* End: handleUpdate is over; the clone and the pipeline are garbage.
End(d, pc) ==
  Goto(d, [job[d] EXCEPT !.pc = pc, !.version = 0, !.path = <<>>,
                         !.index = 0, !.stack = <<>>, !.passed = {}])

-------------------------------------------------------------------------------
(* The router.                                                             *)

\* Defect: the sorted routes are kept.
RegisterKeepingCache(route) ==
  /\ Len(routes) < 5
  /\ routes' = Append(routes, route)
  /\ UNCHANGED <<sorted, middlewares, store, job, outside>>

\* addRoute, at any time.
Register(route) ==
  /\ \A i \in DOMAIN routes : routes[i] # route
  /\ routes' = Append(routes, route)
  /\ sorted' = Unsorted
  /\ UNCHANGED <<middlewares, store, job, outside>>

\* extractRoutingMeta.
Meta(d) ==
  [command      |-> IF job[d].kind = "command" THEN "start" ELSE NoValue,
   text         |-> IF job[d].kind \in {"command", "text"} THEN job[d].kind ELSE NoValue,
   callbackData |-> IF job[d].kind = "tap" THEN "tap" ELSE NoValue,
   currentState |-> SceneAfter(job[d].path)]

Pipeline(d) == PipelineOf(middlewares, routes[job[d].route])

-------------------------------------------------------------------------------
(* handleUpdate and runInSession.                                          *)

Receive(d, kind) ==
  /\ job[d].pc = "idle"
  /\ Goto(d, [job[d] EXCEPT !.kind = kind,
                            !.pc = IF kind = "keyless" THEN "ignored" ELSE "load"])
  /\ UNCHANGED <<routes, sorted, middlewares, store, outside>>

\* onUpdate has resolved; the runner starts on a clone of the session.
Load(d) ==
  /\ job[d].pc = "load"
  /\ Goto(d, [NewJob EXCEPT !.pc = "dispatch", !.kind = job[d].kind,
                            !.attempt = job[d].attempt,
                            !.version = store.version, !.path = store.path])
  /\ UNCHANGED <<routes, sorted, middlewares, store, outside>>

\* dispatch: the runner resolves at once if no route matches; otherwise the
\* pipeline starts.  The bottom of the stack is the pipeline's own call of next.
Dispatch(d) ==
  /\ job[d].pc = "dispatch"
  /\ sorted' = IF sorted = Unsorted THEN SortedPositions(routes) ELSE sorted
  /\ LET chosen == FirstMatch(routes, sorted', Meta(d))
     IN  IF chosen = 0 THEN Go(d, "save")
         ELSE Goto(d, [job[d] EXCEPT !.pc = "pipe", !.route = chosen,
                                     !.stack = <<[at |-> 0, nexts |-> 0]>>])
  /\ UNCHANGED <<routes, middlewares, store, outside>>

\* Defect: the session is stored without looking at its version.
SaveBlindly(d) ==
  /\ job[d].pc = "save"
  /\ store' = [version |-> job[d].version + 1, path |-> job[d].path]
  /\ End(d, "saved")
  /\ UNCHANGED <<routes, sorted, middlewares, outside>>

Save(d) ==
  /\ job[d].pc = "save"
  /\ \/ /\ store.version = job[d].version
        /\ store' = [version |-> job[d].version + 1, path |-> job[d].path]
        /\ \E pc \in {"saved", "rejected"} : End(d, pc)  \* the reply may be lost
     \/ /\ store.version # job[d].version
        /\ IF job[d].attempt <= ConflictRetries
             THEN Goto(d, [job[d] EXCEPT !.attempt = @ + 1, !.pc = "load"])
             ELSE End(d, "rejected")
        /\ UNCHANGED store
  /\ UNCHANGED <<routes, sorted, middlewares, outside>>

\* A hook, the storage, a middleware, the handler or the Bot API throws: onError
\* is awaited and the error thrown again.
Throw(d) ==
  /\ job[d].pc \in {"load", "pipe", "handler", "save"}
  /\ End(d, "rejected")
  /\ UNCHANGED <<routes, sorted, middlewares, store, outside>>

-------------------------------------------------------------------------------
(* The pipeline.                                                           *)

Top(d) == job[d].stack[Len(job[d].stack)]
Running(d) == IF Top(d).at = 0 THEN "root" ELSE Pipeline(d)[Top(d).at]

\* How often a middleware may call next.
MaxNexts(d) ==
  CASE Running(d) = "twice" -> 2
    [] Running(d) = "payment" /\ job[d].kind = "checkout" -> 0
    [] OTHER -> 1

\* The middleware has done its part before it returns.
MayReturn(d) ==
  Running(d) \in {"gate", "twice"} \/ Top(d).nexts = MaxNexts(d)

Called(d) == [job[d].stack EXCEPT ![Len(job[d].stack)].nexts = @ + 1]
Passed(d) == job[d].passed \cup {Top(d).at}

\* Defect: a middleware is skipped when the previous one calls next.
CallNextSkipping(d) ==
  /\ job[d].pc = "pipe"
  /\ Top(d).nexts < MaxNexts(d)
  /\ LET i == IF job[d].index = 0 THEN 1 ELSE job[d].index + 2
     IN  IF i <= Len(Pipeline(d))
           THEN Goto(d, [job[d] EXCEPT !.index = i, !.passed = Passed(d),
                                       !.stack = Append(Called(d), [at |-> i, nexts |-> 0])])
           ELSE Goto(d, [job[d] EXCEPT !.pc = "handler", !.passed = Passed(d),
                                       !.stack = Called(d)])
  /\ UNCHANGED <<routes, sorted, middlewares, store, announced, hookFailed,
                 fulfilled, answered>>

\* next(): the middleware at index starts, or the handler.  index belongs to the
\* whole pipeline and never moves back.
CallNext(d) ==
  /\ job[d].pc = "pipe"
  /\ Top(d).nexts < MaxNexts(d)
  /\ LET i == job[d].index + 1
     IN  IF i <= Len(Pipeline(d))
           THEN Goto(d, [job[d] EXCEPT !.index = i, !.passed = Passed(d),
                                       !.stack = Append(Called(d), [at |-> i, nexts |-> 0])])
           ELSE Goto(d, [job[d] EXCEPT !.pc = "handler", !.passed = Passed(d),
                                       !.stack = Called(d)])
  /\ fulfilled' = IF Running(d) = "payment" /\ job[d].kind = "payment"
                    THEN [fulfilled EXCEPT ![d] = @ + 1] ELSE fulfilled
  /\ UNCHANGED <<routes, sorted, middlewares, store, announced, hookFailed, answered>>

\* A middleware resolves, and with the last one the runner.
Return(d) ==
  /\ job[d].pc = "pipe"
  /\ MayReturn(d)
  /\ Goto(d, [job[d] EXCEPT !.stack = SubSeq(@, 1, Len(@) - 1),
                            !.pc = IF Len(job[d].stack) = 1 THEN "save" ELSE "pipe"])
  /\ answered' = IF Running(d) = "payment" /\ job[d].kind = "checkout"
                   THEN [answered EXCEPT ![d] = @ + 1] ELSE answered
  /\ UNCHANGED <<routes, sorted, middlewares, store, announced, hookFailed, fulfilled>>

-------------------------------------------------------------------------------
(* The handler and the scene controller.                                   *)

\* assertTransitionAllowed: from no scene, and from a scene without an entry,
\* every transition is.
Allowed(from, to) == from \in DOMAIN Transitions => to \in Transitions[from]

Move(d, to) == [from |-> SceneAfter(job[d].path), to |-> to, by |-> d]

Moved(d, to) ==
  Goto(d, [job[d] EXCEPT !.path = Append(@, Move(d, to)),
                         !.moves = Append(@, Move(d, to))])

MayMove(d) == job[d].pc = "handler" /\ Len(job[d].moves) < MaxMoves

\* Defect: onTransition is left to a scene that had been left before.
EnterUnannounced(d, to) ==
  /\ MayMove(d)
  /\ Allowed(SceneAfter(job[d].path), to)
  /\ Moved(d, to)
  /\ announced' = IF SceneAfter(job[d].path) = NoValue THEN announced
                  ELSE announced \cup {Move(d, to)}
  /\ UNCHANGED <<routes, sorted, middlewares, store, hookFailed, fulfilled, answered>>

\* scene.enter: onLeave, the new state, onEnter, onTransition.
Enter(d, to) ==
  /\ MayMove(d)
  /\ Allowed(SceneAfter(job[d].path), to)
  /\ Moved(d, to)
  /\ announced' = announced \cup {Move(d, to)}
  /\ UNCHANGED <<routes, sorted, middlewares, store, hookFailed, fulfilled, answered>>

\* scene.enter whose onEnter throws: the state has changed already, and the
\* handler may catch the error.
EnterHookThrows(d, to) ==
  /\ MayMove(d)
  /\ Allowed(SceneAfter(job[d].path), to)
  /\ Moved(d, to)
  /\ hookFailed' = hookFailed \cup {Move(d, to)}
  /\ UNCHANGED <<routes, sorted, middlewares, store, announced, fulfilled, answered>>

\* scene.leave: there is no transition to check and none to announce.
Leave(d) ==
  /\ MayMove(d)
  /\ Moved(d, NoValue)
  /\ UNCHANGED <<routes, sorted, middlewares, store, outside>>

HandlerReturns(d) ==
  /\ job[d].pc = "handler"
  /\ Goto(d, [job[d] EXCEPT !.pc = "pipe", !.handled = TRUE])
  /\ UNCHANGED <<routes, sorted, middlewares, store, outside>>

Step(d) ==
  \/ \E kind \in Kinds : Receive(d, kind)
  \/ Load(d) \/ Dispatch(d) \/ CallNext(d) \/ Return(d) \/ HandlerReturns(d) \/ Save(d)

Next ==
  \/ \E d \in Deliveries :
       \/ Step(d) \/ Throw(d) \/ Leave(d)
       \/ \E to \in Scenes : Enter(d, to) \/ EnterHookThrows(d, to)
  \/ \E route \in LateRoutes : Register(route)

Spec == Init /\ [][Next]_vars

-------------------------------------------------------------------------------
(* Properties.                                                             *)

\* The scene changes of d in the stored session are these, one after the other.
StoredAs(d, moves) ==
  \E n \in 0 .. Len(store.path) - Len(moves) :
    /\ \A i \in DOMAIN moves : store.path[n + i] = moves[i]
    /\ \A i \in DOMAIN store.path :
         store.path[i].by = d <=> i \in n + 1 .. n + Len(moves)

\* Scenes are serialized: the stored session went from scene to scene along
\* allowed transitions without a gap; it holds all the scene changes of a
\* handler whose update was saved, once, in their order and with nobody else's
\* between them, although runners are run again; and of a handler that threw it
\* holds all of them or none.
ScenesSerialized ==
  /\ \A i \in DOMAIN store.path :
       /\ store.path[i].from = SceneAfter(SubSeq(store.path, 1, i - 1))
       /\ store.path[i].to # NoValue /\ store.path[i].from # NoValue
            /\ store.path[i].from \in DOMAIN Transitions =>
               store.path[i].to \in Transitions[store.path[i].from]
  /\ \A d \in Deliveries :
       CASE job[d].pc = "saved"    -> StoredAs(d, job[d].moves)
         [] job[d].pc = "rejected" -> StoredAs(d, job[d].moves) \/ StoredAs(d, <<>>)
         [] OTHER                  -> StoredAs(d, <<>>)

\* onTransition misses no scene change that takes effect, unless a hook threw and
\* the handler hid the error: what is stored was announced before.  (The
\* converse is false, a run that lost its race has announced changes too.)
TransitionsAnnounced ==
  \A i \in DOMAIN store.path :
    store.path[i].to # NoValue =>
      store.path[i] \in announced \cup hookFailed

Chain(d) == IF job[d].route = 0 THEN <<>> ELSE Pipeline(d)
Holds(d, behaviour) == \E i \in DOMAIN Chain(d) : Chain(d)[i] = behaviour

\* The handler of a route runs only behind middlewares that all called next
\* ("can halt pipeline by not calling next()", test/middleware.test.ts), if none
\* of them calls it twice: a second call passes over a middleware that halted.
GatesHold ==
  \A d \in Deliveries :
    job[d].pc = "handler" /\ ~Holds(d, "twice") =>
      DOMAIN Chain(d) \subseteq job[d].passed

\* A payment that reached the handler was fulfilled, and more than once only for
\* the races its call lost: onSuccessfulPayment, or the answer to a pre-checkout
\* query, happens once per run of the runner.
PaymentsFulfilled ==
  \A d \in Deliveries :
    /\ fulfilled[d] + answered[d] <= job[d].attempt
    /\ job[d].kind = "payment" /\ job[d].pc = "saved" /\ job[d].handled
         /\ Holds(d, "payment") => fulfilled[d] >= 1

\* A route registered at any time counts for every later update: dispatch runs
\* the best of all the routes there are.
DispatchesBest ==
  [][ \A d \in Deliveries :
        job[d].pc = "dispatch" /\ job'[d].pc = "pipe" =>
          BestMatch(routes, Meta(d)) = {job'[d].route} ]_job

===============================================================================
