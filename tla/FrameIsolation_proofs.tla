----------------------- MODULE FrameIsolation_proofs -----------------------
(***************************************************************************)
(* What the abstract specification is worth to a reader of the tags.       *)
(***************************************************************************)
EXTENDS FrameIsolation, TLAPS

FrameTypeOK == holders \in [Frame -> SUBSET VM] /\ public \subseteq Frame

\* Whoever follows FrameIsolation never has a private frame in two hands; with
\* PageTag's Refinement, neither has the page tag table.
THEOREM IsolationHolds == Spec => []Isolated
  <1>1. Init => FrameTypeOK /\ Isolated
    BY DEF Init, FrameTypeOK, Isolated
  <1>2. FrameTypeOK /\ Isolated /\ [Next]_vars => (FrameTypeOK /\ Isolated)'
    <2> SUFFICES ASSUME FrameTypeOK, Isolated, [Next]_vars
                 PROVE  (FrameTypeOK /\ Isolated)'
      OBVIOUS
    <2>1. CASE UNCHANGED vars
      BY <2>1 DEF vars, FrameTypeOK, Isolated
    <2>2. CASE Next
      <3>1. FrameTypeOK'
        BY <2>2 DEF Next, FrameTypeOK
      <3>2. ASSUME NEW p \in Frame \ public', NEW v \in holders'[p],
                   NEW w \in holders'[p]
            PROVE  v = w
        <4>1. CASE Withdraw(p)
          <5>1. p \notin public
            BY <3>2, <4>1 DEF Withdraw
          <5> QED
            BY <3>2, <4>1, <5>1 DEF Withdraw, Isolated
        <4>2. CASE Grant(p)
          BY <3>2, <4>2 DEF Grant
        <4> QED
          BY <2>2, <4>1, <4>2 DEF Next
      <3> QED
        BY <3>1, <3>2 DEF Isolated
    <2> QED
      BY <2>1, <2>2
  <1> QED
    BY <1>1, <1>2, PTL DEF Spec

=============================================================================
