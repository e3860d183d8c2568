------------------------------ MODULE MCSpool ------------------------------
(***************************************************************************)
(* A small instance of Spool; its constants are all numbers.               *)
(***************************************************************************)
EXTENDS Spool
=============================================================================
