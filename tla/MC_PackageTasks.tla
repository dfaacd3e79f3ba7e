-------------------------- MODULE MC_PackageTasks --------------------------
(***************************************************************************)
(* Model for PackageTasks: three task starts, enough for a create, a check *)
(* or unpack beside it and a second create, with both destructor choices.  *)
(***************************************************************************)
EXTENDS PackageTasks

=============================================================================
