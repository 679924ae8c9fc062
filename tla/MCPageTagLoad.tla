--------------------------- MODULE MCPageTagLoad ---------------------------
(***************************************************************************)
(* PageTagLoad on a machine of a few frames.                               *)
(***************************************************************************)
EXTENDS PageTagLoad, TLC

VMSymmetry == Permutations(VM)

\* Bound: no VM is given frame 0, which no table tags (run pagetag_edge has it).
FrameZeroKept == back[0] = {}

=============================================================================
