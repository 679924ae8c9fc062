--------------------------- MODULE FrameIsolation ---------------------------
(***************************************************************************)
(* What a table of page tags owes its readers, without owners, bits, KSM   *)
(* or balloon: a frame is public or private; a private frame is granted to *)
(* nobody while somebody holds it; a public frame goes private only when   *)
(* nobody holds it any more.  PageTag implements this.                     *)
(***************************************************************************)
CONSTANTS VM, Frame

VARIABLES
    holders,    \* the VMs that can reach each frame
    public      \* the frames that say so when they have several holders

vars == <<holders, public>>

Init ==
    /\ holders = [p \in Frame |-> {}]
    /\ public = {}

\* Holders leave; a frame with holders left does not go back to private.
Withdraw(p) ==
    /\ holders'[p] \subseteq holders[p]
    /\ p \in public /\ holders'[p] # {} => p \in public'

\* A VM gets p, which is free or from now on public.
Grant(p) ==
    /\ \E v \in VM : holders'[p] = holders[p] \cup {v}
    /\ p \in public => p \in public'
    /\ p \in public' \/ holders[p] = {}

Next ==
    /\ holders' \in [Frame -> SUBSET VM]
    /\ public' \in SUBSET Frame
    /\ \A p \in Frame : Withdraw(p) \/ Grant(p)

Spec == Init /\ [][Next]_vars

\* A private frame is never within reach of two VMs.
Isolated == \A p \in Frame \ public : \A v, w \in holders[p] : v = w

=============================================================================
