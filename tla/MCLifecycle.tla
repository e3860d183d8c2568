---------------------------- MODULE MCLifecycle ----------------------------
(***************************************************************************)
(* One operator, so commands come one at a time, as an operator gives them *)
(* or as the command subscriber delivers them; shutdown may overlap them.  *)
(***************************************************************************)
EXTENDS Lifecycle

CONSTANT alice

MCOperators == {alice}
MCInitialStates == {"active", "maintenance", "paused", "disabled"}
=============================================================================
