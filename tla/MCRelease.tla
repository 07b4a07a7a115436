------------------------------ MODULE MCRelease -------------------------------
(***************************************************************************)
(* One library, one starter and the scaffolder, which needs the starter.   *)
(***************************************************************************)
EXTENDS Release

MCLibraries == <<"core">>
MCRest == <<"starter", "create">>
MCNeeds == [core |-> {}, starter |-> {"core"}, create |-> {"starter"}]
===============================================================================
