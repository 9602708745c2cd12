--------------------------------- MODULE Nulls ---------------------------------
(***************************************************************************)
(* What a row or a column without a value holds in the modules of the      *)
(* offices: one constant, shared by all of them.                           *)
(***************************************************************************)

CONSTANT Null

=============================================================================
