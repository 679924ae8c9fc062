------------------------------ MODULE MCHooks ------------------------------
(***************************************************************************)
(* Hooks with a few threads, told apart: symmetry is not sound for         *)
(* liveness.                                                               *)
(***************************************************************************)
EXTENDS Hooks

=============================================================================
