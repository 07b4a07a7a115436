-------------------------- MODULE BoundedConcurrency --------------------------
(***************************************************************************)
(* BoundedConcurrencyQueue (src/guards/bounded-concurrency.ts): at most    *)
(* maxConcurrency tasks at a time, at most maxQueue callers waiting, and   *)
(* everybody else refused with QueueOverflowError.                         *)
(*                                                                         *)
(* A client calls run() over and over.  The code between two awaits is one *)
(* step.  A slot is handed to a waiter inside release(), but the waiter's  *)
(* own code goes on in a later microtask: it is "admitted" meanwhile, like *)
(* a caller that got a free slot and has not started its task yet.         *)
(***************************************************************************)
EXTENDS Integers, Sequences, FiniteSets

CONSTANTS Clients,         \* concurrent callers of run()
          MaxConcurrency,  \* maxConcurrency
          MaxQueue         \* maxQueue

ASSUME BoundedConcurrencyAssumption ==
  /\ IsFiniteSet(Clients)
  /\ MaxConcurrency \in Nat
  /\ MaxQueue \in Nat

VARIABLES running,  \* the counter of taken slots
          waiters,  \* callers whose resolve callback is queued
          pc        \* idle, admitted, working, waiting or refused

vars == <<running, waiters, pc>>

Holders == {c \in Clients : pc[c] \in {"admitted", "working"}}
Waiting == {c \in Clients : pc[c] = "waiting"}

Init ==
  /\ running = 0
  /\ waiters = <<>>
  /\ pc = [c \in Clients |-> "idle"]

\* Defect: the caller that asks is counted as waiting already.
QueuePlaceOneLess == Len(waiters) + 1 < MaxQueue

QueuePlace == Len(waiters) < MaxQueue

\* acquire: a slot is free.
Admit(c) ==
  /\ pc[c] = "idle"
  /\ running < MaxConcurrency
  /\ running' = running + 1
  /\ pc' = [pc EXCEPT ![c] = "admitted"]
  /\ UNCHANGED waiters

\* acquire: no slot, but a place in the queue.
Enqueue(c) ==
  /\ pc[c] = "idle"
  /\ running >= MaxConcurrency
  /\ QueuePlace
  /\ waiters' = Append(waiters, c)
  /\ pc' = [pc EXCEPT ![c] = "waiting"]
  /\ UNCHANGED running

\* acquire throws QueueOverflowError.
Refuse(c) ==
  /\ pc[c] = "idle"
  /\ running >= MaxConcurrency
  /\ ~QueuePlace
  /\ pc' = [pc EXCEPT ![c] = "refused"]
  /\ UNCHANGED <<running, waiters>>

\* The caller handles the error and may call run() again.
Recover(c) ==
  /\ pc[c] = "refused"
  /\ pc' = [pc EXCEPT ![c] = "idle"]
  /\ UNCHANGED <<running, waiters>>

\* run: the await of acquire() resumes and calls the task.
Start(c) ==
  /\ pc[c] = "admitted"
  /\ pc' = [pc EXCEPT ![c] = "working"]
  /\ UNCHANGED <<running, waiters>>

\* The freed slot: Math.max(0, running - 1).
Freed == IF running = 0 THEN 0 ELSE running - 1

\* Defect: a finished task does not wake anybody.
FinishSilently(c) ==
  /\ pc[c] = "working"
  /\ running' = Freed
  /\ pc' = [pc EXCEPT ![c] = "idle"]
  /\ UNCHANGED waiters

\* The task resolved or rejected; release() frees the slot and hands it to the
\* longest waiter, whose callback takes it before anybody else can.
Finish(c) ==
  /\ pc[c] = "working"
  /\ \/ /\ waiters = <<>>
        /\ running' = Freed
        /\ pc' = [pc EXCEPT ![c] = "idle"]
        /\ UNCHANGED waiters
     \/ /\ waiters # <<>>
        /\ running' = Freed + 1
        /\ pc' = [pc EXCEPT ![c] = "idle", ![Head(waiters)] = "admitted"]
        /\ waiters' = Tail(waiters)

Next ==
  \E c \in Clients :
    Admit(c) \/ Enqueue(c) \/ Refuse(c) \/ Recover(c) \/ Start(c) \/ Finish(c)

Spec == Init /\ [][Next]_vars

\* Microtasks run and tasks end; nobody has to call run().
FairSpec == Spec /\ \A c \in Clients : WF_vars(Start(c)) /\ WF_vars(Finish(c))

-------------------------------------------------------------------------------
TypeOK ==
  /\ running \in Nat
  /\ waiters \in Seq(Clients)
  /\ pc \in [Clients -> {"idle", "admitted", "working", "waiting", "refused"}]

\* The counter is the number of callers that hold a slot, so no release is
\* lost, doubled or swallowed by Math.max(0, ...), and it stays within the limit.
SlotsAccounted ==
  /\ running = Cardinality(Holders)
  /\ running <= MaxConcurrency

\* Every caller that awaits its turn has exactly one callback in the queue: no
\* caller is forgotten and none is woken twice.
WaitersQueued ==
  /\ Waiting = {waiters[i] : i \in 1 .. Len(waiters)}
  /\ Len(waiters) = Cardinality(Waiting)
  /\ Len(waiters) <= MaxQueue

\* Nobody waits while a slot is free: no wake-up is lost between a release and
\* an acquire.
NobodyWaitsInVain == waiters # <<>> => running = MaxConcurrency

\* A newcomer never takes a slot ahead of a caller that is already waiting.
NoBarging ==
  [][ \A c \in Clients :
        pc[c] = "idle" /\ pc'[c] = "admitted" => Waiting = {} ]_vars

\* QueueOverflowError means that MaxConcurrency callers hold slots and MaxQueue
\* wait, not that the counter or the queue leaked.
RefusedOnlyWhenFull ==
  [][ \A c \in Clients :
        pc[c] = "idle" /\ pc'[c] = "refused" =>
          Cardinality(Holders \cup Waiting) = MaxConcurrency + MaxQueue ]_vars

\* Every caller that was queued gets to run its task.
WaitersServed ==
  \A c \in Clients : pc[c] = "waiting" ~> pc[c] = "working"

\* A caller is in the queue once: what it takes to remove it by removing the head.
QueuedOnce ==
  \A i, j \in 1 .. Len(waiters) : waiters[i] = waiters[j] => i = j

IInv ==
  /\ TypeOK
  /\ QueuedOnce
  /\ SlotsAccounted
  /\ WaitersQueued
  /\ NobodyWaitsInVain

===============================================================================
