-------------------------------- MODULE Absent --------------------------------
(***************************************************************************)
(* Option::None: the value of what is not there.  The components share it. *)
(***************************************************************************)
CONSTANT None
=============================================================================
