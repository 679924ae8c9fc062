--------------------------- MODULE MCPageTagRace ---------------------------
(***************************************************************************)
(* PageTagRace with one vcpu to a VM: KVM's mmu_lock admits one at a time. *)
(***************************************************************************)
EXTENDS PageTagRace, TLC

MCVmOf == [t \in Vcpu |-> t]

\* A vcpu and its VM are one value; vcpus and frames are interchangeable.
Symmetry == Permutations(VM) \cup Permutations(Frame)

\* The bound on repeated faults: a fault on a frame that the VM's EPT maps
\* already runs alone or beside one other fault, which is no repeated one.
Repeats(t)   == at[t] # NoFrame /\ VmOf[t] \in ept[at[t]]
RepeatsBound ==
    \A t \in Vcpu : Repeats(t) =>
        /\ \A u \in Vcpu \ {t} : ~Repeats(u)
        /\ \E u \in Vcpu \ {t} : at[u] = NoFrame

=============================================================================
