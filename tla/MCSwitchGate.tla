---------------------------- MODULE MCSwitchGate ----------------------------
(***************************************************************************)
(* SwitchGate with a few CPUs and two levels of handlers.                  *)
(***************************************************************************)
EXTENDS SwitchGate, TLC

\* CPUs are interchangeable.
CpuSymmetry == Permutations(Cpu)

=============================================================================
