---------------------------- MODULE AtomicSession -----------------------------
(***************************************************************************)
(* What runInSession promises its callers: each call either applies its    *)
(* update once, on top of every update applied before it, in one atomic    *)
(* step, or does not apply it at all.  A call that resolved has applied    *)
(* it, a call that threw SessionConflictError has not; after any other     *)
(* error the caller cannot tell.                                           *)
(***************************************************************************)
EXTENDS Sequences

CONSTANT Calls

VARIABLES log,      \* the updates applied to the session, oldest first
          outcome   \* what each call has told its caller

vars == <<log, outcome>>

Init ==
  /\ log = <<>>
  /\ outcome = [c \in Calls |-> "pending"]

Report(c, result) ==
  /\ outcome[c] = "pending"
  /\ outcome' = [outcome EXCEPT ![c] = result]

Apply(c) ==
  /\ log' = Append(log, c)
  /\ \E result \in {"saved", "failed"} : Report(c, result)

Refuse(c) ==
  /\ UNCHANGED log
  /\ \E result \in {"conflict", "failed"} : Report(c, result)

Next == \E c \in Calls : Apply(c) \/ Refuse(c)

Spec == Init /\ [][Next]_vars
===============================================================================
