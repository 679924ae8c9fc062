------------------------- MODULE MCPageTagUntrusted -------------------------
(***************************************************************************)
(* PageTag under a host that resolves a fault to any frame at all, as the  *)
(* README's untrusted hypervisor may.                                      *)
(***************************************************************************)
EXTENDS PageTag, TLC

VMSymmetry == Permutations(VM)

UntrustedNext == Next \/ \E v \in VM, p \in Frame : ResolveTo(v, p)
UntrustedSpec == Init /\ [][UntrustedNext]_vars

\* README.md:42, "the way to subvert the isolation of different VMs through
\* dedicated EPT entries is hindered": handle_pfn_modify refuses to map a
\* private frame of one VM for another, so no private frame has two holders.
DoubleMappingHindered ==
    \A p \in Told : ~Shared(p) => \A v, w \in ept[p] : v = w

=============================================================================
