---------------------------- MODULE MCAdminConfig ----------------------------
(***************************************************************************)
(* Small instances of AdminConfig for model checking.                      *)
(***************************************************************************)
EXTENDS AdminConfig, TLC

HandlerSymmetry == Permutations(Handlers)
=============================================================================
