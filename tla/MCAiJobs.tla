------------------------------ MODULE MCAiJobs ------------------------------
(***************************************************************************)
(* AiJobs over one name that every source shares.                          *)
(***************************************************************************)
EXTENDS AiJobs

CONSTANT theName

NamesShared == [s \in Source |-> theName]
=============================================================================
