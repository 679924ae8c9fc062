------------------------ MODULE PageTagRace_proofs ------------------------
(***************************************************************************)
(* Proofs about PageTagRace, for every number of vcpus, VMs and frames.    *)
(*                                                                         *)
(* On a KSM frame, where handlers overlap, the invariant follows what each *)
(* "|=" has loaded: once a bit is set there, no copy loaded later lacks    *)
(* it.  On a private frame one handler is at work, and the invariant says  *)
(* from which of its steps on the tag is right.                            *)
(***************************************************************************)
EXTENDS PageTagRace, TLAPS

\* A daemon is about to free p.
Going(p) == p = page \/ p = at["kswapd"]

\* The vcpus at work on p, if any, are past the steps in S.
VcpusIn(p, S) == \A t \in Vcpu : at[t] = p => pc[t] \in S

\* What the host's references and locks keep true.
HostInv ==
    \A p \in Frame :
       /\ ept[p] \subseteq back[p]
       /\ p \notin ksm => \A v, w \in back[p] : v = w
       /\ p \in ksm => back[p] # {}

WorkInv ==
    /\ \A t \in Thread : pc[t] = "idle" <=> at[t] = NoFrame
    /\ pc["ksmd"] = "idle" <=> page = NoFrame
    /\ \A t \in Vcpu : at[t] # NoFrame =>
          VmOf[t] \in back[at[t]] /\ at[t] # page /\ at[t] # at["kswapd"]
    /\ \A t \in Vcpu : pc[t] \in {"verifyOr", "orShared"} => at[t] \in ksm
    /\ \A t, u \in Vcpu :
          t # u /\ at[t] = at[u] /\ at[t] # NoFrame => VmOf[t] # VmOf[u]
    /\ page # NoFrame =>
          /\ at["ksmd"] \in ksm /\ at["ksmd"] # at["kswapd"]
          /\ page \notin ksm /\ page # at["kswapd"]
          /\ back[page] # {} /\ ept[page] = {}
    /\ at["kswapd"] # NoFrame => ept[at["kswapd"]] = {}

\* A held frame carries the used bit, but for the first fault on its way; and
\* on a KSM frame, where handlers overlap, so does every loaded copy.
UsedInv ==
    /\ \A p \in Frame :
          /\ ~Going(p) /\ back[p] # {}
          /\ p \in ksm \/ VcpusIn(p, {"testKsm", "install"})
          => "used" \in flag[p]
    /\ \A t \in Vcpu \cup {"ksmd"} :
          /\ at[t] \in ksm
          /\ pc[t] \in {"verifyOr", "orUsed", "orShared", "orMShared", "orMerged"}
          => "used" \in reg[t]

\* On a KSM frame the first or of every handler sets the shared bit, and no
\* copy loaded after that lacks it; on a private frame a copy is up to date.
SharedInv ==
    /\ \A t \in Vcpu :
          at[t] \in ksm /\ pc[t] \notin {"idle", "verify", "verifyOr"} =>
             /\ "shared" \in flag[at[t]]
             /\ pc[t] = "orUsed" => "shared" \in reg[t]
    /\ pc["ksmd"] \in {"loadMerged", "orMerged", "clearOwner", "clearFlag"} =>
          /\ "shared" \in flag[at["ksmd"]]
          /\ pc["ksmd"] = "orMerged" => "shared" \in reg["ksmd"]
    /\ \A p \in Frame : Several(ept[p]) => "shared" \in flag[p]
    /\ \A t \in Vcpu : pc[t] = "orUsed" /\ at[t] \notin ksm => reg[t] = flag[at[t]]

\* A private frame is tagged with its holder, or as the balloon left it, but
\* for a fault that has not got that far.
OwnerInv ==
    \A p \in Frame \ ksm :
       /\ ~Going(p) /\ back[p] # {}
       /\ VcpusIn(p, {"loadUsed", "orUsed", "testKsm", "install"})
       => IF p \in given THEN owner[p] = NoOwner ELSE owner[p] \in back[p]

\* The inductive invariant.
IInv == TypeOK /\ HostInv /\ WorkInv /\ UsedInv /\ SharedInv /\ OwnerInv

USE VcpuAssumption, DaemonAssumption, FrameAssumption
    DEF Thread, Daemon, FlagBit, FaultPc, MergePc, ReclaimPc, table, host

-----------------------------------------------------------------------------
(* A vcpu's steps.                                                         *)

LEMMA FaultStartStep ==
    ASSUME IInv, NEW t \in Vcpu, NEW p \in Frame, FaultStart(t, p)
    PROVE  IInv'
  <1>1. TypeOK'
    BY DEF IInv, TypeOK, FaultStart, WorksOn, Go
  <1>2. HostInv'
    BY DEF IInv, TypeOK, HostInv, FaultStart, WorksOn, Go
  <1>3. WorkInv'
    BY DEF IInv, TypeOK, HostInv, WorkInv, FaultStart, WorksOn, Go
  <1>4. UsedInv'
    BY DEF IInv, TypeOK, HostInv, WorkInv, UsedInv, Going, VcpusIn,
        FaultStart, WorksOn, Go
  <1>5. SharedInv'
    BY DEF IInv, TypeOK, HostInv, WorkInv, SharedInv, Several, FaultStart,
        WorksOn, Go
  <1>6. OwnerInv'
    BY DEF IInv, TypeOK, HostInv, WorkInv, OwnerInv, Going, VcpusIn,
        FaultStart, WorksOn, Go
  <1> QED
    BY <1>1, <1>2, <1>3, <1>4, <1>5, <1>6 DEF IInv

LEMMA VerifyStep ==
    ASSUME IInv, NEW t \in Vcpu, Verify(t)
    PROVE  IInv'
  <1>1. TypeOK' /\ HostInv'
    BY DEF IInv, TypeOK, HostInv, Verify, LoadIf, Go
  <1>2. WorkInv'
    BY DEF IInv, TypeOK, HostInv, WorkInv, Verify, LoadIf, Go
  <1>3. UsedInv'
    BY DEF IInv, TypeOK, HostInv, WorkInv, UsedInv, Going, VcpusIn, Verify,
        LoadIf, Go
  <1>4. SharedInv'
    BY DEF IInv, TypeOK, HostInv, WorkInv, SharedInv, Several, Verify, LoadIf,
        Go
  <1>5. OwnerInv'
    BY DEF IInv, TypeOK, HostInv, WorkInv, OwnerInv, Going, VcpusIn, Verify,
        LoadIf, Go
  <1> QED
    BY <1>1, <1>2, <1>3, <1>4, <1>5 DEF IInv

LEMMA VerifyOrStep ==
    ASSUME IInv, NEW t \in Vcpu, VerifyOr(t)
    PROVE  IInv'
  <1>1. TypeOK' /\ HostInv'
    BY DEF IInv, TypeOK, HostInv, VerifyOr, Or, Go
  <1>2. WorkInv'
    BY DEF IInv, TypeOK, HostInv, WorkInv, VerifyOr, Or, Go
  <1>3. UsedInv'
    BY DEF IInv, TypeOK, HostInv, WorkInv, UsedInv, Going, VcpusIn, VerifyOr,
        Or, Go
  <1>4. SharedInv'
    BY DEF IInv, TypeOK, HostInv, WorkInv, SharedInv, Several, VerifyOr, Or,
        Go
  <1>5. OwnerInv'
    BY DEF IInv, TypeOK, HostInv, WorkInv, OwnerInv, Going, VcpusIn, VerifyOr,
        Or, Go
  <1> QED
    BY <1>1, <1>2, <1>3, <1>4, <1>5 DEF IInv

LEMMA SetOwnerStep ==
    ASSUME IInv, NEW t \in Vcpu, SetOwner(t)
    PROVE  IInv'
  <1>1. TypeOK' /\ HostInv'
    BY DEF IInv, TypeOK, HostInv, SetOwner, Go
  <1>2. WorkInv'
    BY DEF IInv, TypeOK, HostInv, WorkInv, SetOwner, Go
  <1>3. UsedInv'
    BY DEF IInv, TypeOK, HostInv, WorkInv, UsedInv, Going, VcpusIn, SetOwner,
        Go
  <1>4. SharedInv'
    BY DEF IInv, TypeOK, HostInv, WorkInv, SharedInv, Several, SetOwner, Go
  <1>5. OwnerInv'
    BY DEF IInv, TypeOK, HostInv, WorkInv, OwnerInv, Going, VcpusIn, SetOwner,
        Go
  <1> QED
    BY <1>1, <1>2, <1>3, <1>4, <1>5 DEF IInv

LEMMA LoadUsedStep ==
    ASSUME IInv, NEW t \in Vcpu, LoadUsed(t)
    PROVE  IInv'
  <1>1. TypeOK' /\ HostInv'
    BY DEF IInv, TypeOK, HostInv, WorkInv, LoadUsed, Load, Go
  <1>2. WorkInv'
    BY DEF IInv, TypeOK, HostInv, WorkInv, LoadUsed, Load, Go
  <1>3. UsedInv'
    BY DEF IInv, TypeOK, HostInv, WorkInv, UsedInv, Going, VcpusIn, LoadUsed,
        Load, Go
  <1>4. SharedInv'
    BY DEF IInv, TypeOK, HostInv, WorkInv, SharedInv, Several, LoadUsed, Load,
        Go
  <1>5. OwnerInv'
    BY DEF IInv, TypeOK, HostInv, WorkInv, OwnerInv, Going, VcpusIn, LoadUsed,
        Load, Go
  <1> QED
    BY <1>1, <1>2, <1>3, <1>4, <1>5 DEF IInv

LEMMA OrUsedStep ==
    ASSUME IInv, NEW t \in Vcpu, OrUsed(t)
    PROVE  IInv'
  <1>1. TypeOK' /\ HostInv'
    BY DEF IInv, TypeOK, HostInv, OrUsed, Or, Go
  <1>2. WorkInv'
    BY DEF IInv, TypeOK, HostInv, WorkInv, OrUsed, Or, Go
  <1>3. UsedInv'
    BY DEF IInv, TypeOK, HostInv, WorkInv, UsedInv, Going, VcpusIn, OrUsed,
        Or, Go
  <1>4. SharedInv'
    BY DEF IInv, TypeOK, HostInv, WorkInv, SharedInv, Several, OrUsed, Or, Go
  <1>5. OwnerInv'
    BY DEF IInv, TypeOK, HostInv, WorkInv, OwnerInv, Going, VcpusIn, OrUsed,
        Or, Go
  <1> QED
    BY <1>1, <1>2, <1>3, <1>4, <1>5 DEF IInv

LEMMA TestKsmStep ==
    ASSUME IInv, NEW t \in Vcpu, TestKsm(t)
    PROVE  IInv'
  <1>1. TypeOK' /\ HostInv'
    BY DEF IInv, TypeOK, HostInv, TestKsm, LoadIf, Go
  <1>2. WorkInv'
    BY DEF IInv, TypeOK, HostInv, WorkInv, TestKsm, LoadIf, Go
  <1>3. UsedInv'
    BY DEF IInv, TypeOK, HostInv, WorkInv, UsedInv, Going, VcpusIn, TestKsm,
        LoadIf, Go
  <1>4. SharedInv'
    BY DEF IInv, TypeOK, HostInv, WorkInv, SharedInv, Several, TestKsm,
        LoadIf, Go
  <1>5. OwnerInv'
    BY DEF IInv, TypeOK, HostInv, WorkInv, OwnerInv, Going, VcpusIn, TestKsm,
        LoadIf, Go
  <1> QED
    BY <1>1, <1>2, <1>3, <1>4, <1>5 DEF IInv

LEMMA OrSharedStep ==
    ASSUME IInv, NEW t \in Vcpu, OrShared(t)
    PROVE  IInv'
  <1>1. TypeOK' /\ HostInv'
    BY DEF IInv, TypeOK, HostInv, OrShared, Or, Go
  <1>2. WorkInv'
    BY DEF IInv, TypeOK, HostInv, WorkInv, OrShared, Or, Go
  <1>3. UsedInv'
    BY DEF IInv, TypeOK, HostInv, WorkInv, UsedInv, Going, VcpusIn, OrShared,
        Or, Go
  <1>4. SharedInv'
    BY DEF IInv, TypeOK, HostInv, WorkInv, SharedInv, Several, OrShared, Or,
        Go
  <1>5. OwnerInv'
    BY DEF IInv, TypeOK, HostInv, WorkInv, OwnerInv, Going, VcpusIn, OrShared,
        Or, Go
  <1> QED
    BY <1>1, <1>2, <1>3, <1>4, <1>5 DEF IInv

LEMMA InstallStep ==
    ASSUME IInv, NEW t \in Vcpu, Install(t)
    PROVE  IInv'
  <1>1. TypeOK'
    BY DEF IInv, TypeOK, WorkInv, Install, LetGo, Go
  <1>2. HostInv'
    BY DEF IInv, TypeOK, HostInv, WorkInv, Install, LetGo, Go
  <1>3. WorkInv'
    BY DEF IInv, TypeOK, HostInv, WorkInv, Install, LetGo, Go
  <1>4. UsedInv'
    BY DEF IInv, TypeOK, HostInv, WorkInv, UsedInv, Going, VcpusIn, Install,
        LetGo, Go
  <1>5. SharedInv'
    BY DEF IInv, TypeOK, HostInv, WorkInv, SharedInv, Several, Install, LetGo,
        Go
  <1>6. OwnerInv'
    BY DEF IInv, TypeOK, HostInv, WorkInv, OwnerInv, Going, VcpusIn, Install,
        LetGo, Go
  <1> QED
    BY <1>1, <1>2, <1>3, <1>4, <1>5, <1>6 DEF IInv

-----------------------------------------------------------------------------
(* ksmd's steps.                                                           *)

LEMMA MergeStartStep ==
    ASSUME IInv, NEW p \in Frame, NEW k \in Frame, MergeStart(p, k)
    PROVE  IInv'
  <1>1. TypeOK'
    BY DEF IInv, TypeOK, MergeStart, WorksOn, Quiet, Go
  <1>2. HostInv'
    BY DEF IInv, TypeOK, HostInv, MergeStart, WorksOn, Quiet, Go
  <1>3. WorkInv'
    BY DEF IInv, TypeOK, HostInv, WorkInv, MergeStart, WorksOn, Quiet, Go
  <1>4. UsedInv'
    BY DEF IInv, TypeOK, HostInv, WorkInv, UsedInv, Going, VcpusIn,
        MergeStart, WorksOn, Quiet, Go
  <1>5. SharedInv'
    BY DEF IInv, TypeOK, HostInv, WorkInv, SharedInv, Several, MergeStart,
        WorksOn, Quiet, Go
  <1>6. OwnerInv'
    BY DEF IInv, TypeOK, HostInv, WorkInv, OwnerInv, Going, VcpusIn,
        MergeStart, WorksOn, Quiet, Go
  <1> QED
    BY <1>1, <1>2, <1>3, <1>4, <1>5, <1>6 DEF IInv

LEMMA TestOwnerStep ==
    ASSUME IInv, TestOwner
    PROVE  IInv'
  <1>1. TypeOK' /\ HostInv'
    BY DEF IInv, TypeOK, HostInv, TestOwner, Go
  <1>2. WorkInv'
    BY DEF IInv, TypeOK, HostInv, WorkInv, TestOwner, Go
  <1>3. UsedInv'
    BY DEF IInv, TypeOK, HostInv, WorkInv, UsedInv, Going, VcpusIn, TestOwner,
        Go
  <1>4. SharedInv'
    BY DEF IInv, TypeOK, HostInv, WorkInv, SharedInv, Several, TestOwner, Go
  <1>5. OwnerInv'
    BY DEF IInv, TypeOK, HostInv, WorkInv, OwnerInv, Going, VcpusIn,
        TestOwner, Go
  <1> QED
    BY <1>1, <1>2, <1>3, <1>4, <1>5 DEF IInv

LEMMA LoadOwnerStep ==
    ASSUME IInv, LoadOwner
    PROVE  IInv'
  <1>1. TypeOK' /\ HostInv'
    BY DEF IInv, TypeOK, HostInv, WorkInv, LoadOwner, Go
  <1>2. WorkInv'
    BY DEF IInv, TypeOK, HostInv, WorkInv, LoadOwner, Go
  <1>3. UsedInv'
    BY DEF IInv, TypeOK, HostInv, WorkInv, UsedInv, Going, VcpusIn, LoadOwner,
        Go
  <1>4. SharedInv'
    BY DEF IInv, TypeOK, HostInv, WorkInv, SharedInv, Several, LoadOwner, Go
  <1>5. OwnerInv'
    BY DEF IInv, TypeOK, HostInv, WorkInv, OwnerInv, Going, VcpusIn,
        LoadOwner, Go
  <1> QED
    BY <1>1, <1>2, <1>3, <1>4, <1>5 DEF IInv

LEMMA CopyOwnerStep ==
    ASSUME IInv, CopyOwner
    PROVE  IInv'
  <1>1. TypeOK' /\ HostInv'
    BY DEF IInv, TypeOK, HostInv, WorkInv, CopyOwner, Go
  <1>2. WorkInv'
    BY DEF IInv, TypeOK, HostInv, WorkInv, CopyOwner, Go
  <1>3. UsedInv'
    BY DEF IInv, TypeOK, HostInv, WorkInv, UsedInv, Going, VcpusIn, CopyOwner,
        Go
  <1>4. SharedInv'
    BY DEF IInv, TypeOK, HostInv, WorkInv, SharedInv, Several, CopyOwner, Go
  <1>5. OwnerInv'
    BY DEF IInv, TypeOK, HostInv, WorkInv, OwnerInv, Going, VcpusIn,
        CopyOwner, Go
  <1> QED
    BY <1>1, <1>2, <1>3, <1>4, <1>5 DEF IInv

LEMMA LoadMSharedStep ==
    ASSUME IInv, LoadMShared
    PROVE  IInv'
  <1>1. TypeOK' /\ HostInv'
    BY DEF IInv, TypeOK, HostInv, WorkInv, LoadMShared, Load, Go
  <1>2. WorkInv'
    BY DEF IInv, TypeOK, HostInv, WorkInv, LoadMShared, Load, Go
  <1>3. UsedInv'
    BY DEF IInv, TypeOK, HostInv, WorkInv, UsedInv, Going, VcpusIn,
        LoadMShared, Load, Go
  <1>4. SharedInv'
    BY DEF IInv, TypeOK, HostInv, WorkInv, SharedInv, Several, LoadMShared,
        Load, Go
  <1>5. OwnerInv'
    BY DEF IInv, TypeOK, HostInv, WorkInv, OwnerInv, Going, VcpusIn,
        LoadMShared, Load, Go
  <1> QED
    BY <1>1, <1>2, <1>3, <1>4, <1>5 DEF IInv

LEMMA OrMSharedStep ==
    ASSUME IInv, OrMShared
    PROVE  IInv'
  <1>1. TypeOK' /\ HostInv'
    BY DEF IInv, TypeOK, HostInv, OrMShared, Or, Go
  <1>2. WorkInv'
    BY DEF IInv, TypeOK, HostInv, WorkInv, OrMShared, Or, Go
  <1>3. UsedInv'
    BY DEF IInv, TypeOK, HostInv, WorkInv, UsedInv, Going, VcpusIn, OrMShared,
        Or, Go
  <1>4. SharedInv'
    BY DEF IInv, TypeOK, HostInv, WorkInv, SharedInv, Several, OrMShared, Or,
        Go
  <1>5. OwnerInv'
    BY DEF IInv, TypeOK, HostInv, WorkInv, OwnerInv, Going, VcpusIn,
        OrMShared, Or, Go
  <1> QED
    BY <1>1, <1>2, <1>3, <1>4, <1>5 DEF IInv

LEMMA LoadMergedStep ==
    ASSUME IInv, LoadMerged
    PROVE  IInv'
  <1>1. TypeOK' /\ HostInv'
    BY DEF IInv, TypeOK, HostInv, WorkInv, LoadMerged, Load, Go
  <1>2. WorkInv'
    BY DEF IInv, TypeOK, HostInv, WorkInv, LoadMerged, Load, Go
  <1>3. UsedInv'
    BY DEF IInv, TypeOK, HostInv, WorkInv, UsedInv, Going, VcpusIn,
        LoadMerged, Load, Go
  <1>4. SharedInv'
    BY DEF IInv, TypeOK, HostInv, WorkInv, SharedInv, Several, LoadMerged,
        Load, Go
  <1>5. OwnerInv'
    BY DEF IInv, TypeOK, HostInv, WorkInv, OwnerInv, Going, VcpusIn,
        LoadMerged, Load, Go
  <1> QED
    BY <1>1, <1>2, <1>3, <1>4, <1>5 DEF IInv

LEMMA OrMergedStep ==
    ASSUME IInv, OrMerged
    PROVE  IInv'
  <1>1. TypeOK' /\ HostInv'
    BY DEF IInv, TypeOK, HostInv, OrMerged, Or, Go
  <1>2. WorkInv'
    BY DEF IInv, TypeOK, HostInv, WorkInv, OrMerged, Or, Go
  <1>3. UsedInv'
    BY DEF IInv, TypeOK, HostInv, WorkInv, UsedInv, Going, VcpusIn, OrMerged,
        Or, Go
  <1>4. SharedInv'
    BY DEF IInv, TypeOK, HostInv, WorkInv, SharedInv, Several, OrMerged, Or,
        Go
  <1>5. OwnerInv'
    BY DEF IInv, TypeOK, HostInv, WorkInv, OwnerInv, Going, VcpusIn, OrMerged,
        Or, Go
  <1> QED
    BY <1>1, <1>2, <1>3, <1>4, <1>5 DEF IInv

LEMMA ClearOwnerStep ==
    ASSUME IInv, ClearOwner
    PROVE  IInv'
  <1>1. TypeOK' /\ HostInv'
    BY DEF IInv, TypeOK, HostInv, ClearOwner, Go
  <1>2. WorkInv'
    BY DEF IInv, TypeOK, HostInv, WorkInv, ClearOwner, Go
  <1>3. UsedInv'
    BY DEF IInv, TypeOK, HostInv, WorkInv, UsedInv, Going, VcpusIn,
        ClearOwner, Go
  <1>4. SharedInv'
    BY DEF IInv, TypeOK, HostInv, WorkInv, SharedInv, Several, ClearOwner, Go
  <1>5. OwnerInv'
    BY DEF IInv, TypeOK, HostInv, WorkInv, OwnerInv, Going, VcpusIn,
        ClearOwner, Go
  <1> QED
    BY <1>1, <1>2, <1>3, <1>4, <1>5 DEF IInv

LEMMA ClearFlagStep ==
    ASSUME IInv, ClearFlag
    PROVE  IInv'
  <1>1. TypeOK' /\ HostInv'
    BY DEF IInv, TypeOK, HostInv, ClearFlag, Go
  <1>2. WorkInv'
    BY DEF IInv, TypeOK, HostInv, WorkInv, ClearFlag, Go
  <1>3. UsedInv'
    BY DEF IInv, TypeOK, HostInv, WorkInv, UsedInv, Going, VcpusIn, ClearFlag,
        Go
  <1>4. SharedInv'
    BY DEF IInv, TypeOK, HostInv, WorkInv, SharedInv, Several, ClearFlag, Go
  <1>5. OwnerInv'
    BY DEF IInv, TypeOK, HostInv, WorkInv, OwnerInv, Going, VcpusIn,
        ClearFlag, Go
  <1> QED
    BY <1>1, <1>2, <1>3, <1>4, <1>5 DEF IInv

LEMMA MergeEndStep ==
    ASSUME IInv, MergeEnd
    PROVE  IInv'
  <1>1. TypeOK'
    BY DEF IInv, TypeOK, WorkInv, MergeEnd, LetGo, Go
  <1>2. HostInv'
    BY DEF IInv, TypeOK, HostInv, WorkInv, MergeEnd, LetGo, Go
  <1>3. WorkInv'
    BY DEF IInv, TypeOK, HostInv, WorkInv, MergeEnd, LetGo, Go
  <1>4. UsedInv'
    BY DEF IInv, TypeOK, HostInv, WorkInv, UsedInv, Going, VcpusIn, MergeEnd,
        LetGo, Go
  <1>5. SharedInv'
    BY DEF IInv, TypeOK, HostInv, WorkInv, SharedInv, Several, MergeEnd,
        LetGo, Go
  <1>6. OwnerInv'
    BY DEF IInv, TypeOK, HostInv, WorkInv, OwnerInv, Going, VcpusIn, MergeEnd,
        LetGo, Go
  <1> QED
    BY <1>1, <1>2, <1>3, <1>4, <1>5, <1>6 DEF IInv

LEMMA PromoteStep ==
    ASSUME IInv, NEW p \in Frame, Promote(p)
    PROVE  IInv'
  <1>1. TypeOK'
    BY DEF IInv, TypeOK, Promote, WorksOn, Quiet
  <1>2. HostInv'
    BY DEF IInv, TypeOK, HostInv, Promote, WorksOn, Quiet
  <1>3. WorkInv'
    BY DEF IInv, TypeOK, HostInv, WorkInv, Promote, WorksOn, Quiet
  <1>4. UsedInv'
    BY DEF IInv, TypeOK, HostInv, WorkInv, UsedInv, Going, VcpusIn, Promote,
        WorksOn, Quiet
  <1>5. SharedInv'
    BY DEF IInv, TypeOK, HostInv, WorkInv, SharedInv, Several, Promote,
        WorksOn, Quiet
  <1>6. OwnerInv'
    BY DEF IInv, TypeOK, HostInv, WorkInv, OwnerInv, Going, VcpusIn, Promote,
        WorksOn, Quiet
  <1> QED
    BY <1>1, <1>2, <1>3, <1>4, <1>5, <1>6 DEF IInv

-----------------------------------------------------------------------------
(* kswapd's steps.                                                         *)

LEMMA ReclaimStartStep ==
    ASSUME IInv, NEW p \in Frame, ReclaimStart(p)
    PROVE  IInv'
  <1>1. TypeOK'
    BY DEF IInv, TypeOK, ReclaimStart, WorksOn, Quiet, Go
  <1>2. HostInv'
    BY DEF IInv, TypeOK, HostInv, ReclaimStart, WorksOn, Quiet, Go
  <1>3. WorkInv'
    BY DEF IInv, TypeOK, HostInv, WorkInv, ReclaimStart, WorksOn, Quiet, Go
  <1>4. UsedInv'
    BY DEF IInv, TypeOK, HostInv, WorkInv, UsedInv, Going, VcpusIn,
        ReclaimStart, WorksOn, Quiet, Go
  <1>5. SharedInv'
    BY DEF IInv, TypeOK, HostInv, WorkInv, SharedInv, Several, ReclaimStart,
        WorksOn, Quiet, Go
  <1>6. OwnerInv'
    BY DEF IInv, TypeOK, HostInv, WorkInv, OwnerInv, Going, VcpusIn,
        ReclaimStart, WorksOn, Quiet, Go
  <1> QED
    BY <1>1, <1>2, <1>3, <1>4, <1>5, <1>6 DEF IInv

LEMMA CleanFlagStep ==
    ASSUME IInv, CleanFlag
    PROVE  IInv'
  <1>1. TypeOK' /\ HostInv'
    BY DEF IInv, TypeOK, HostInv, CleanFlag, Go
  <1>2. WorkInv'
    BY DEF IInv, TypeOK, HostInv, WorkInv, CleanFlag, Go
  <1>3. UsedInv'
    BY DEF IInv, TypeOK, HostInv, WorkInv, UsedInv, Going, VcpusIn, CleanFlag,
        Go
  <1>4. SharedInv'
    BY DEF IInv, TypeOK, HostInv, WorkInv, SharedInv, Several, CleanFlag, Go
  <1>5. OwnerInv'
    BY DEF IInv, TypeOK, HostInv, WorkInv, OwnerInv, Going, VcpusIn,
        CleanFlag, Go
  <1> QED
    BY <1>1, <1>2, <1>3, <1>4, <1>5 DEF IInv

LEMMA CleanOwnerStep ==
    ASSUME IInv, CleanOwner
    PROVE  IInv'
  <1>1. TypeOK' /\ HostInv'
    BY DEF IInv, TypeOK, HostInv, CleanOwner, Go
  <1>2. WorkInv'
    BY DEF IInv, TypeOK, HostInv, WorkInv, CleanOwner, Go
  <1>3. UsedInv'
    BY DEF IInv, TypeOK, HostInv, WorkInv, UsedInv, Going, VcpusIn,
        CleanOwner, Go
  <1>4. SharedInv'
    BY DEF IInv, TypeOK, HostInv, WorkInv, SharedInv, Several, CleanOwner, Go
  <1>5. OwnerInv'
    BY DEF IInv, TypeOK, HostInv, WorkInv, OwnerInv, Going, VcpusIn,
        CleanOwner, Go
  <1> QED
    BY <1>1, <1>2, <1>3, <1>4, <1>5 DEF IInv

LEMMA ReclaimEndStep ==
    ASSUME IInv, ReclaimEnd
    PROVE  IInv'
  <1>1. TypeOK'
    BY DEF IInv, TypeOK, ReclaimEnd, LetGo, Go
  <1>2. HostInv'
    BY DEF IInv, TypeOK, HostInv, WorkInv, ReclaimEnd, LetGo, Go
  <1>3. WorkInv'
    BY DEF IInv, TypeOK, HostInv, WorkInv, ReclaimEnd, LetGo, Go
  <1>4. UsedInv'
    BY DEF IInv, TypeOK, HostInv, WorkInv, UsedInv, Going, VcpusIn,
        ReclaimEnd, LetGo, Go
  <1>5. SharedInv'
    BY DEF IInv, TypeOK, HostInv, WorkInv, SharedInv, Several, ReclaimEnd,
        LetGo, Go
  <1>6. OwnerInv'
    BY DEF IInv, TypeOK, HostInv, WorkInv, OwnerInv, Going, VcpusIn,
        ReclaimEnd, LetGo, Go
  <1> QED
    BY <1>1, <1>2, <1>3, <1>4, <1>5, <1>6 DEF IInv

-----------------------------------------------------------------------------
(* The rest of the host.                                                   *)

LEMMA ZapStep ==
    ASSUME IInv, NEW v \in VM, NEW p \in Frame, Zap(v, p)
    PROVE  IInv'
  <1>1. TypeOK'
    BY DEF IInv, TypeOK, Zap
  <1>2. HostInv'
    BY DEF IInv, TypeOK, HostInv, Zap
  <1>3. WorkInv'
    BY DEF IInv, TypeOK, HostInv, WorkInv, Zap
  <1>4. UsedInv'
    BY DEF IInv, TypeOK, HostInv, WorkInv, UsedInv, Going, VcpusIn, Zap
  <1>5. SharedInv'
    BY DEF IInv, TypeOK, HostInv, WorkInv, SharedInv, Several, Zap
  <1>6. OwnerInv'
    BY DEF IInv, TypeOK, HostInv, WorkInv, OwnerInv, Going, VcpusIn, Zap
  <1> QED
    BY <1>1, <1>2, <1>3, <1>4, <1>5, <1>6 DEF IInv

LEMMA BalloonStep ==
    ASSUME IInv, NEW p \in Frame, Balloon(p)
    PROVE  IInv'
  <1>1. TypeOK' /\ HostInv'
    BY DEF IInv, TypeOK, HostInv, Balloon
  <1>2. WorkInv'
    BY DEF IInv, TypeOK, HostInv, WorkInv, Balloon
  <1>3. UsedInv'
    BY DEF IInv, TypeOK, HostInv, WorkInv, UsedInv, Going, VcpusIn, Balloon
  <1>4. SharedInv'
    BY DEF IInv, TypeOK, HostInv, WorkInv, SharedInv, Several, Balloon
  <1>5. OwnerInv'
    BY DEF IInv, TypeOK, HostInv, WorkInv, OwnerInv, Going, VcpusIn, Balloon
  <1> QED
    BY <1>1, <1>2, <1>3, <1>4, <1>5 DEF IInv

LEMMA DropStep ==
    ASSUME IInv, NEW v \in VM, NEW p \in Frame, Drop(v, p)
    PROVE  IInv'
  <1>1. TypeOK'
    BY DEF IInv, TypeOK, Drop, WorksOn, Quiet
  <1>2. HostInv'
    BY DEF IInv, TypeOK, HostInv, Drop, WorksOn, Quiet
  <1>3. WorkInv'
    BY DEF IInv, TypeOK, HostInv, WorkInv, Drop, WorksOn, Quiet
  <1>4. UsedInv'
    BY DEF IInv, TypeOK, HostInv, WorkInv, UsedInv, Going, VcpusIn, Drop,
        WorksOn, Quiet
  <1>5. SharedInv'
    BY DEF IInv, TypeOK, HostInv, WorkInv, SharedInv, Several, Drop, WorksOn,
        Quiet
  <1>6. OwnerInv'
    BY DEF IInv, TypeOK, HostInv, WorkInv, OwnerInv, Going, VcpusIn, Drop,
        WorksOn, Quiet
  <1> QED
    BY <1>1, <1>2, <1>3, <1>4, <1>5, <1>6 DEF IInv

-----------------------------------------------------------------------------
(* The invariant, and what it says of a frame at rest.                     *)

LEMMA InitIInv == Init => IInv
  <1> SUFFICES ASSUME Init PROVE IInv
    OBVIOUS
  <1>1. TypeOK /\ HostInv
    BY DEF Init, TypeOK, HostInv
  <1>2. WorkInv
    BY DEF Init, WorkInv
  <1>3. UsedInv /\ SharedInv /\ OwnerInv
    BY DEF Init, TypeOK, UsedInv, SharedInv, OwnerInv, Several
  <1> QED
    BY <1>1, <1>2, <1>3 DEF IInv

LEMMA NextIInv == IInv /\ [Next]_vars => IInv'
  <1> SUFFICES ASSUME IInv, [Next]_vars PROVE IInv'
    OBVIOUS
  <1>1. ASSUME NEW t \in Vcpu, FaultStep(t) \/ \E p \in Frame : FaultStart(t, p)
        PROVE  IInv'
    BY <1>1, FaultStartStep, VerifyStep, VerifyOrStep, SetOwnerStep, LoadUsedStep,
       OrUsedStep, TestKsmStep, OrSharedStep, InstallStep DEF FaultStep
  <1>2. ASSUME MergeStep \/ \E p, k \in Frame : MergeStart(p, k)
        PROVE  IInv'
    BY <1>2, MergeStartStep, TestOwnerStep, LoadOwnerStep, CopyOwnerStep, LoadMSharedStep,
       OrMSharedStep, LoadMergedStep, OrMergedStep, ClearOwnerStep, ClearFlagStep,
       MergeEndStep DEF MergeStep
  <1>3. ASSUME ReclaimStep \/ \E p \in Frame : ReclaimStart(p) \/ Promote(p) \/ Balloon(p)
        PROVE  IInv'
    BY <1>3, ReclaimStartStep, CleanFlagStep, CleanOwnerStep, ReclaimEndStep,
       PromoteStep, BalloonStep DEF ReclaimStep
  <1>4. ASSUME NEW v \in VM, NEW p \in Frame, Zap(v, p) \/ Drop(v, p)
        PROVE  IInv'
    BY <1>4, ZapStep, DropStep
  <1>5. CASE UNCHANGED vars
    BY <1>5 DEF vars, IInv, TypeOK, HostInv, WorkInv, UsedInv, SharedInv, OwnerInv,
       Going, VcpusIn
  <1> QED
    BY <1>1, <1>2, <1>3, <1>4, <1>5 DEF Next

LEMMA Inductive == Spec => []IInv
  BY InitIInv, NextIInv, PTL DEF Spec

\* What a step may do to a frame: take it from VMs and leave the shared bit
\* where others still map it, or map it for one more, which is the only one or
\* finds the bit set.
Withdraws(p) ==
    /\ ept'[p] \subseteq ept[p]
    /\ "shared" \in flag[p] /\ ept'[p] # {} => "shared" \in flag'[p]
Grants(p) ==
    /\ \E v \in VM : ept'[p] = ept[p] \cup {v}
    /\ "shared" \in flag[p] => "shared" \in flag'[p]
    /\ "shared" \in flag'[p] \/ ept[p] = {}

LEMMA InstallGrants ==
    ASSUME IInv, NEW t \in Vcpu, Install(t), NEW p \in Frame
    PROVE  Withdraws(p) \/ Grants(p)
  <1>1. pc[t] = "install" /\ flag' = flag /\ VmOf[t] \in VM
    BY DEF Install, Go
  <1>2. at[t] \in Frame /\ ept' = [ept EXCEPT ![at[t]] = @ \cup {VmOf[t]}]
    BY DEF Install, Go, IInv, TypeOK, WorkInv
  <1>3. CASE p # at[t]
    BY <1>1, <1>2, <1>3 DEF Withdraws, IInv, TypeOK
  <1>4. CASE p = at[t] /\ p \in ksm
    BY <1>1, <1>2, <1>4 DEF Grants, IInv, TypeOK, SharedInv
  <1>5. CASE p = at[t] /\ p \notin ksm
    <2>1. ept[p] \subseteq {VmOf[t]}
      BY <1>1, <1>2, <1>5 DEF IInv, TypeOK, HostInv, WorkInv
    <2> QED
      BY <1>1, <1>2, <1>5, <2>1 DEF Withdraws, Grants, IInv, TypeOK
  <1> QED
    BY <1>3, <1>4, <1>5

\* The stores of the handlers' or-s.
LEMMA OrWithdraws ==
    ASSUME IInv, NEW t \in Thread, NEW bits \in SUBSET FlagBit, Or(t, bits),
           UNCHANGED ept, at[t] \in Frame,
           "shared" \in bits \cup reg[t] \/ reg[t] = flag[at[t]],
           NEW p \in Frame
    PROVE  Withdraws(p)
  BY DEF Or, Withdraws, IInv, TypeOK

LEMMA FaultStepWithdraws ==
    ASSUME IInv, NEW t \in Vcpu, NEW p \in Frame,
           FaultStep(t) \/ \E q \in Frame : FaultStart(t, q)
    PROVE  Withdraws(p) \/ Grants(p)
  <1>1. ASSUME NEW q \in Frame, FaultStart(t, q) PROVE Withdraws(p)
    BY <1>1 DEF FaultStart, Withdraws
  <1>2. CASE Verify(t) \/ SetOwner(t) \/ LoadUsed(t) \/ TestKsm(t)
    BY <1>2 DEF Verify, SetOwner, LoadUsed, TestKsm, Withdraws
  <1>3. CASE VerifyOr(t) \/ OrShared(t) \/ OrUsed(t)
    <2>1. at[t] \in Frame /\ UNCHANGED ept
      BY <1>3 DEF VerifyOr, OrShared, OrUsed, Go, IInv, TypeOK, WorkInv
    <2>2. CASE VerifyOr(t) \/ OrShared(t)
      BY <2>1, <2>2, OrWithdraws DEF VerifyOr, OrShared
    <2>3. CASE OrUsed(t)
      <3>1. "shared" \in reg[t] \/ reg[t] = flag[at[t]]
        BY <2>3 DEF OrUsed, Go, IInv, SharedInv
      <3> QED
        BY <2>1, <2>3, <3>1, OrWithdraws DEF OrUsed
    <2> QED
      BY <1>3, <2>2, <2>3
  <1>4. CASE Install(t)
    BY <1>4, InstallGrants
  <1> QED
    BY <1>1, <1>2, <1>3, <1>4 DEF FaultStep

LEMMA MergeStepWithdraws ==
    ASSUME IInv, NEW p \in Frame,
           MergeStep \/ \E q, k \in Frame : MergeStart(q, k)
    PROVE  Withdraws(p)
  <1>1. ASSUME NEW q \in Frame, NEW k \in Frame, MergeStart(q, k)
        PROVE  Withdraws(p)
    BY <1>1 DEF MergeStart, Withdraws, IInv, TypeOK
  <1>2. CASE \/ TestOwner \/ LoadOwner \/ CopyOwner \/ LoadMShared
             \/ LoadMerged \/ ClearOwner \/ MergeEnd
    BY <1>2 DEF TestOwner, LoadOwner, CopyOwner, LoadMShared, LoadMerged,
       ClearOwner, MergeEnd, Withdraws
  <1>3. CASE OrMShared \/ OrMerged
    <2>1. at["ksmd"] \in Frame /\ UNCHANGED ept
      BY <1>3 DEF OrMShared, OrMerged, Go, IInv, TypeOK, WorkInv
    <2>2. "shared" \in reg["ksmd"] \/ OrMShared
      BY <1>3 DEF OrMerged, Go, IInv, SharedInv
    <2> QED
      BY <1>3, <2>1, <2>2, OrWithdraws DEF OrMShared, OrMerged
  <1>4. CASE ClearFlag
    <2>1. page \in Frame /\ ept[page] = {} /\ UNCHANGED ept
      BY <1>4 DEF ClearFlag, Go, IInv, TypeOK, WorkInv
    <2> QED
      BY <1>4, <2>1 DEF ClearFlag, Withdraws, IInv, TypeOK
  <1> QED
    BY <1>1, <1>2, <1>3, <1>4 DEF MergeStep

LEMMA ReclaimStepWithdraws ==
    ASSUME IInv, NEW p \in Frame,
           ReclaimStep \/ \E q \in Frame : ReclaimStart(q)
    PROVE  Withdraws(p)
  <1>1. ASSUME NEW q \in Frame, ReclaimStart(q) PROVE Withdraws(p)
    BY <1>1 DEF ReclaimStart, Withdraws, IInv, TypeOK
  <1>2. CASE CleanFlag
    <2>1. at["kswapd"] \in Frame /\ ept[at["kswapd"]] = {} /\ UNCHANGED ept
      BY <1>2 DEF CleanFlag, Go, IInv, TypeOK, WorkInv
    <2> QED
      BY <1>2, <2>1 DEF CleanFlag, Withdraws, IInv, TypeOK
  <1>3. CASE CleanOwner \/ ReclaimEnd
    BY <1>3 DEF CleanOwner, ReclaimEnd, Withdraws
  <1> QED
    BY <1>1, <1>2, <1>3 DEF ReclaimStep

LEMMA EveryStep ==
    ASSUME IInv, [Next]_vars, NEW p \in Frame
    PROVE  Withdraws(p) \/ Grants(p)
  <1>1. ASSUME NEW q \in Frame, Promote(q) \/ Balloon(q) PROVE Withdraws(p)
    BY <1>1 DEF Promote, Balloon, Withdraws
  <1>2. ASSUME NEW v \in VM, NEW q \in Frame, Zap(v, q) \/ Drop(v, q)
        PROVE  Withdraws(p)
    BY <1>2 DEF Zap, Drop, Withdraws, IInv, TypeOK
  <1>3. CASE UNCHANGED vars
    BY <1>3 DEF vars, Withdraws
  <1> QED
    BY <1>1, <1>2, <1>3, FaultStepWithdraws, MergeStepWithdraws, ReclaimStepWithdraws
       DEF Next

\* No handler is at work on a frame at rest, and no daemon about to free it.
LEMMA QuietFacts ==
    ASSUME NEW p \in Frame, Quiet(p), NEW S
    PROVE  ~Going(p) /\ VcpusIn(p, S)
  BY DEF Quiet, WorksOn, Going, VcpusIn

\* Every variable keeps its type.
THEOREM TypeCorrect == Spec => []TypeOK
  <1>1. IInv => TypeOK
    BY DEF IInv
  <1> QED
    BY <1>1, Inductive, PTL

\* A frame at rest in several EPTs carries the shared bit, however the or-s of
\* handle_pfn_modify, handle_pfn_map and ksm_page_modify overlapped.
THEOREM SharedAtRest == Spec => []SharedSettles
  <1>1. IInv => SharedSettles
    BY DEF IInv, SharedInv, SharedSettles
  <1> QED
    BY <1>1, Inductive, PTL

\* A frame at rest that some EPT maps carries the used bit.
THEOREM UsedAtRest == Spec => []UsedSettles
  <1>1. IInv => UsedSettles
    BY QuietFacts DEF IInv, TypeOK, HostInv, UsedInv, UsedSettles
  <1> QED
    BY <1>1, Inductive, PTL

\* A private frame at rest that some EPT maps is in one EPT, and its tag names
\* that VM, or the hypervisor where the balloon was the last to store.
THEOREM OwnerAtRest == Spec => []OwnerSettles
  <1>1. ASSUME IInv, NEW p \in Frame \ ksm, Quiet(p), ept[p] # {}
        PROVE  \E v \in VM : /\ ept[p] = {v}
                            /\ owner[p] = IF p \in given THEN NoOwner ELSE v
    <2>1. PICK v \in ept[p] : TRUE
      BY <1>1
    <2>2. v \in VM /\ back[p] = {v} /\ ept[p] = {v}
      BY <1>1, <2>1 DEF IInv, TypeOK, HostInv
    <2>3. IF p \in given THEN owner[p] = NoOwner ELSE owner[p] = v
      BY <1>1, <2>2, QuietFacts DEF IInv, OwnerInv
    <2> QED
      BY <2>2, <2>3
  <1>2. IInv => OwnerSettles
    BY <1>1 DEF OwnerSettles
  <1> QED
    BY <1>2, Inductive, PTL

\* At every step the tags implement FrameIsolation.
THEOREM Refinement == Spec => RaceImplementsIsolation
  <1>1. Init => Isolation!Init
    BY DEF Init, Isolation!Init
  <1>2. IInv /\ [Next]_vars => Isolation!Next
    <2> SUFFICES ASSUME IInv, [Next]_vars PROVE Isolation!Next
      OBVIOUS
    <2>1. IInv'
      BY NextIInv
    <2>2. ept' \in [Frame -> SUBSET VM]
      BY <2>1 DEF IInv, TypeOK
    <2>3. ASSUME NEW p \in Frame PROVE Withdraws(p) \/ Grants(p)
      BY EveryStep
    <2>4. ASSUME NEW p \in Frame PROVE Isolation!Withdraw(p) \/ Isolation!Grant(p)
      BY <2>3 DEF Withdraws, Grants, Isolation!Withdraw, Isolation!Grant
    <2> QED
      BY <2>2, <2>4 DEF Isolation!Next
  <1> QED
    BY <1>1, <1>2, Inductive, PTL DEF Spec, RaceImplementsIsolation, Isolation!Spec

=============================================================================
