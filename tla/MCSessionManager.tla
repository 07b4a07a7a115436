--------------------------- MODULE MCSessionManager ---------------------------
(***************************************************************************)
(* Model-checking instances of SessionManager.                             *)
(***************************************************************************)
EXTENDS SessionManager, TLC

CallSymmetry == Permutations(Calls)
===============================================================================
