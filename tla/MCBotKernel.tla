------------------------------ MODULE MCBotKernel ------------------------------
(***************************************************************************)
(* Model-checking instances of BotKernel: two scenes with a one-way         *)
(* transition, and two ways to register routes and middlewares.             *)
(***************************************************************************)
EXTENDS BotKernel, TLC

\* form may only go on to done; done has no entry.
MCTransitions == [form |-> {"done"}]

Global(priority, fn) == [priority |-> priority, fn |-> fn]

\* A command with a middleware of its own, the handlers of a scene, and a
\* catch-all or none.
MCRouteTables ==
  LET command == Route("command", "start", <<"pass">>, <<>>)
      scene   == SceneRoutes("form", 2, 200)
  IN  { <<command>> \o scene,
        <<Route("use", NoValue, <<>>, <<>>), command,
          Route("regex", {"text", "command"}, <<>>, <<100>>)>> }

MCLateRoutes == {Route("command", "start", <<"gate">>, <<150>>)}

MCMiddlewareTables ==
  { <<Global(0, "payment"), Global(10, "gate")>>,
    <<Global(0, "gate"), Global(5, "twice")>> }

DeliverySymmetry == Permutations(Deliveries)
===============================================================================
