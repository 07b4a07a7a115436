-------------------------------- MODULE Router --------------------------------
(***************************************************************************)
(* TreeRouter (src/router/router.ts): the registered routes, their order   *)
(* and the tests that select one for an update.                            *)
(*                                                                         *)
(* A route is a record [type, value, priority, middlewares].  The parts of *)
(* an update that routing looks at are a record [command, text,            *)
(* callbackData, currentState]; a part the update has not is NoValue.  A   *)
(* regular expression is the set of texts that match it.                   *)
(***************************************************************************)
EXTENDS Integers, Sequences, FiniteSets

CONSTANT NoValue  \* undefined; for currentState also null

\* command, regex, callbackData, state and use: the priority of a route that was
\* registered without one.
DefaultPriority ==
  [command |-> 100, callbackData |-> 70, regex |-> 50, state |-> 200, use |-> 0]

\* resolve3or4: with or without a list of middlewares; `given` is <<>> or <<priority>>.
ResolvedPriority(type, given) ==
  IF given = <<>> THEN DefaultPriority[type] ELSE given[1]

\* registerRoute.
Route(type, value, middlewares, given) ==
  [type |-> type, value |-> value, middlewares |-> middlewares,
   priority |-> ResolvedPriority(type, given)]

\* scene: n handlers of one scene, each tried before the next one.
SceneRoutes(scene, n, priority) ==
  [i \in 1 .. n |-> Route("state", scene, <<>>, <<priority - (i - 1)>>)]

\* buildMatchFn.
Matches(route, meta) ==
  CASE route.type = "command"      -> meta.command = route.value
    [] route.type = "regex"        -> meta.text # NoValue /\ meta.text \in route.value
    [] route.type = "callbackData" -> /\ meta.callbackData # NoValue
                                      /\ meta.callbackData \in route.value
    [] route.type = "state"        -> meta.currentState = route.value
    [] route.type = "use"          -> TRUE

\* Descending priorities; the sort is stable.
RunsBefore(entries, i, j) ==
  \/ entries[i].priority > entries[j].priority
  \/ entries[i].priority = entries[j].priority /\ i < j

\* getSortedRoutes, getSortedMiddlewares: the positions of the entries, sorted.
\* Position n is the entry that n - 1 entries run before.
Ahead(entries, i) == {j \in DOMAIN entries : RunsBefore(entries, j, i)}

SortedPositions(entries) ==
  [n \in DOMAIN entries |->
     CHOOSE i \in DOMAIN entries : Cardinality(Ahead(entries, i)) = n - 1]

\* The loop of dispatch: the first position of the sorted list whose route
\* matches, 0 if none does.
FirstMatch(routes, sorted, meta) ==
  LET matching == {n \in DOMAIN sorted : Matches(routes[sorted[n]], meta)}
  IN  IF matching = {} THEN 0
      ELSE sorted[CHOOSE n \in matching : \A m \in matching : n <= m]

\* What dispatch promises: of the matching routes, one of the highest priority,
\* and of those the one registered first.
BestMatch(routes, meta) ==
  {i \in DOMAIN routes :
     /\ Matches(routes[i], meta)
     /\ \A j \in DOMAIN routes :
          Matches(routes[j], meta) =>
            \/ routes[j].priority < routes[i].priority
            \/ routes[j].priority = routes[i].priority /\ i <= j}

\* buildPipeline: the global middlewares in their order, then the route's own.
PipelineOf(middlewares, route) ==
  LET sorted == SortedPositions(middlewares)
  IN  [n \in DOMAIN sorted |-> middlewares[sorted[n]].fn] \o route.middlewares

===============================================================================
