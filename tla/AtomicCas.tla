------------------------------ MODULE AtomicCas ------------------------------
(***************************************************************************)
(* What compareAndSet of SessionStorage (src/types/core.ts) promises to    *)
(* its callers for one key, whatever the database: an accepted call        *)
(* replaced a session of the expected version in one instant, and a call   *)
(* is refused only because the version was another one at some instant of  *)
(* the call, or because somebody else wrote the key meanwhile.             *)
(***************************************************************************)
EXTENDS SessionStorage

CONSTANT NoRequest  \* a call that has not asked for anything yet

VARIABLES cell,       \* the stored session
          request,    \* what each call asked for: [expected, next]
          result,     \* pending, ok or refused
          contended   \* calls during which somebody else wrote the key

vars == <<cell, request, result, contended>>

Asking == {c \in Calls : request[c] # NoRequest /\ result[c] = "pending"}

Init ==
  /\ cell = NoSession
  /\ request = [c \in Calls |-> NoRequest]
  /\ result = [c \in Calls |-> "pending"]
  /\ contended = {}

\* A call starts: nobody can have disturbed it yet.
Ask(c) ==
  /\ request[c] = NoRequest
  /\ request'[c] \in [expected: Nat, next: Envelope]
  /\ request' = [request EXCEPT ![c] = request'[c]]
  /\ UNCHANGED <<cell, result, contended>>

Accept(c) ==
  /\ c \in Asking
  /\ CasOk(cell, request[c].expected)
  /\ cell' = request[c].next
  /\ result' = [result EXCEPT ![c] = "ok"]
  /\ contended' = contended \cup (Asking \ {c})
  /\ UNCHANGED request

Refuse(c) ==
  /\ c \in Asking
  /\ ~CasOk(cell, request[c].expected) \/ c \in contended
  /\ result' = [result EXCEPT ![c] = "refused"]
  /\ UNCHANGED <<cell, request, contended>>

\* set, delete and expiry.
Overwrite ==
  /\ cell' \in Envelope \cup {NoSession}
  /\ contended' = contended \cup Asking
  /\ UNCHANGED <<request, result>>

Next == Overwrite \/ \E c \in Calls : Ask(c) \/ Accept(c) \/ Refuse(c)

Spec == Init /\ [][Next]_vars

===============================================================================
