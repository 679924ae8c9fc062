----------------------------- MODULE MCPageTag -----------------------------
(***************************************************************************)
(* PageTag on a machine of a few frames.                                   *)
(***************************************************************************)
EXTENDS PageTag, TLC

\* The VMs are interchangeable: no definition tells one from another.
VMSymmetry == Permutations(VM)

=============================================================================
