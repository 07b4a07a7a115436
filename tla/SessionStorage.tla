---------------------------- MODULE SessionStorage ----------------------------
(***************************************************************************)
(* The contract of SessionStorage (src/types/core.ts) for one session key. *)
(*                                                                         *)
(* A cell holds either no session or an envelope.  The session's data is   *)
(* abstracted to the sequence of updates that were applied to it: an       *)
(* update is identified by the runInSession call that made it, so a lost,  *)
(* duplicated or reordered update is visible in the envelope itself.       *)
(* current_state and updated_at carry no control and are left out.         *)
(***************************************************************************)
EXTENDS Naturals, Sequences

CONSTANTS Calls,      \* runInSession calls made for the key, by any process
          NoSession   \* the answer of getWithVersion for an absent key

Envelope == [version: Nat, log: Seq(Calls), encrypted: BOOLEAN]

ASSUME NoSessionAssumption == NoSession \notin Envelope

\* Defect: any stored version is accepted (last write wins).
CasOkAnyVersion(cell, expected) ==
  \/ cell = NoSession /\ expected = 0
  \/ cell # NoSession /\ expected # 0

\* compareAndSet accepts version 0 for an absent key and the stored version
\* for a present one.
CasOk(cell, expected) ==
  \/ cell = NoSession /\ expected = 0
  \/ cell # NoSession /\ cell.version = expected

\* The cell after compareAndSet(expected, next).
CompareAndSet(cell, expected, next) ==
  IF CasOk(cell, expected) THEN next ELSE cell

\* The updates a cell carries, oldest first.
Updates(cell) == IF cell = NoSession THEN <<>> ELSE cell.log

===============================================================================
