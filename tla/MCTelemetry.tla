------------------------------ MODULE MCTelemetry ------------------------------
(***************************************************************************)
(* Model-checking instance of Telemetry.                                   *)
(***************************************************************************)
EXTENDS Telemetry, TLC

Event(name, tag, timed) == [name |-> name, tag |-> tag, timed |-> timed]

\* One event per handler, some with a tag that is no label or is shortened.
MCEvents == { Event("update", "short", FALSE), Event("api_error", "bad label", FALSE),
              Event("queue_event", "a long label", TRUE) }

MCAllowed == <<{"operation", "source", "type", "action", "method", "event"}>>
MCShortened == [x \in {"a long label"} |-> "short"]

CallSymmetry == Permutations(Calls)
===============================================================================
