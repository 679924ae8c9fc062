---------------------------- MODULE PageTagRace ----------------------------
(***************************************************************************)
(* The page tag handlers as they really run: on several CPUs at once, with *)
(* no lock of their own.  "flag |= bit" is a load and a store (the build   *)
(* emits an or without a lock prefix), the fields of one tag are written   *)
(* one after the other.                                                    *)
(*                                                                         *)
(* What serialises the callers is the host's: a page that a fault, a merge *)
(* or a reclaim works on is referenced or locked, so that no reclaim or    *)
(* merge of the same page starts; but faults of several VMs on one KSM     *)
(* page overlap, with each other and with ksmd merging into that page.     *)
(* The balloon handlers store one field, at any time.                      *)
(* Frames are all within the ranges the handlers test; PageTag has those.  *)
(***************************************************************************)
CONSTANTS
    Vcpu,       \* threads that resolve EPT violations
    VM,         \* kvm pointers
    VmOf,       \* the VM of each vcpu
    Frame,      \* frames, all in the range of every handler
    NoOwner,
    NoFrame

ASSUME VcpuAssumption  == VmOf \in [Vcpu -> VM] /\ NoOwner \notin VM
ASSUME DaemonAssumption == "ksmd" \notin Vcpu /\ "kswapd" \notin Vcpu
ASSUME FrameAssumption == NoFrame \notin Frame

FlagBit == {"used", "shared", "merged"}
Daemon  == {"ksmd", "kswapd"}
Thread  == Vcpu \cup Daemon

FaultPc   == {"verify", "verifyOr", "setOwner", "loadUsed", "orUsed",
              "testKsm", "orShared", "install"}
MergePc   == {"testOwner", "loadOwner", "copyOwner", "loadMShared", "orMShared",
              "loadMerged", "orMerged", "clearOwner", "clearFlag", "merged"}
ReclaimPc == {"cleanFlag", "cleanOwner", "cleaned"}

VARIABLES
    owner, flag,    \* the two fields of each tag
    back, ept, ksm, \* the host, as in PageTag
    pc, reg,        \* each thread's next step, and the flags it has loaded
    at,             \* the frame each thread works on
    page,           \* the frame ksmd is about to free
    loaded,         \* and the owner it has loaded of it
    given           \* history: frames whose owner the balloon stored last

table == <<owner, flag>>
host  == <<back, ept, ksm>>
vars  == <<owner, flag, back, ept, ksm, pc, reg, at, page, loaded, given>>

WorksOn(t, p) == at[t] = p \/ (t = "ksmd" /\ page = p)
Quiet(p)      == \A t \in Thread : ~WorksOn(t, p)

Go(t, from, to) == pc[t] = from /\ pc' = [pc EXCEPT ![t] = to]
Load(t)         == reg' = [reg EXCEPT ![t] = flag[at[t]]]
\* Mutant: "=" for "|=".
OrAssign(t, bits) ==
    /\ flag' = [flag EXCEPT ![at[t]] = bits]
    /\ reg' = [reg EXCEPT ![t] = {}]

Or(t, bits)     == /\ flag' = [flag EXCEPT ![at[t]] = reg[t] \cup bits]
                   /\ reg' = [reg EXCEPT ![t] = {}]
LoadIf(t, b)    == reg' = IF b THEN [reg EXCEPT ![t] = flag[at[t]]] ELSE reg
LetGo(t)        == at' = [at EXCEPT ![t] = NoFrame]

Init ==
    /\ owner = [p \in Frame |-> NoOwner]
    /\ flag = [p \in Frame |-> {}]
    /\ back = [p \in Frame |-> {}]
    /\ ept = [p \in Frame |-> {}]
    /\ ksm = {}
    /\ pc = [t \in Thread |-> "idle"]
    /\ reg = [t \in Thread |-> {}]
    /\ at = [t \in Thread |-> NoFrame]
    /\ page = NoFrame
    /\ loaded = NoOwner
    /\ given = {}

-----------------------------------------------------------------------------
(* A vcpu: handle_pfn_modify, then handle_pfn_map, then the EPT entry.     *)

\* The host picks a frame of v, or a free one, and holds on to it.
FaultStart(t, p) ==
    /\ Go(t, "idle", "verify")
    /\ VmOf[t] \in back[p] \/ back[p] = {}
    /\ \A d \in Daemon : WorksOn(d, p) => d = "ksmd" /\ at[d] = p
    /\ \A u \in Vcpu : WorksOn(u, p) => VmOf[u] # VmOf[t]
    /\ at' = [at EXCEPT ![t] = p]
    /\ back' = [back EXCEPT ![p] = @ \cup {VmOf[t]}]
    /\ UNCHANGED <<table, ept, ksm, reg, page, loaded, given>>

\* Mutant: the or of handle_pfn_modify left out, as handle_pfn_map has its own.
VerifyBlind(t) ==
    /\ Go(t, "verify", "setOwner")
    /\ UNCHANGED <<table, host, reg, at, page, loaded, given>>

\* handle_pfn_modify: if PageKsm, flag |= 0x01; it returns 0 in any case.
Verify(t) ==
    /\ Go(t, "verify", IF at[t] \in ksm THEN "verifyOr" ELSE "setOwner")
    /\ LoadIf(t, at[t] \in ksm)
    /\ UNCHANGED <<table, host, at, page, loaded, given>>

VerifyOr(t) ==
    /\ Go(t, "verifyOr", "setOwner")
    /\ Or(t, {"shared"})
    /\ UNCHANGED <<owner, host, at, page, loaded, given>>

\* Mutant: the first owner stays.
SetOwnerOnce(t) ==
    /\ Go(t, "setOwner", "loadUsed")
    /\ owner' = [owner EXCEPT ![at[t]] = IF @ = NoOwner THEN VmOf[t] ELSE @]
    /\ given' = given \ {at[t]}
    /\ UNCHANGED <<flag, host, reg, at, page, loaded>>

\* handle_pfn_map: owner = vmid; flag |= 0x80; if PageKsm, flag |= 0x01.
SetOwner(t) ==
    /\ Go(t, "setOwner", "loadUsed")
    /\ owner' = [owner EXCEPT ![at[t]] = VmOf[t]]
    /\ given' = given \ {at[t]}
    /\ UNCHANGED <<flag, host, reg, at, page, loaded>>

LoadUsed(t) ==
    /\ Go(t, "loadUsed", "orUsed")
    /\ Load(t)
    /\ UNCHANGED <<table, host, at, page, loaded, given>>

OrUsed(t) ==
    /\ Go(t, "orUsed", "testKsm")
    /\ Or(t, {"used"})
    /\ UNCHANGED <<owner, host, at, page, loaded, given>>

TestKsm(t) ==
    /\ Go(t, "testKsm", IF at[t] \in ksm THEN "orShared" ELSE "install")
    /\ LoadIf(t, at[t] \in ksm)
    /\ UNCHANGED <<table, host, at, page, loaded, given>>

OrShared(t) ==
    /\ Go(t, "orShared", "install")
    /\ Or(t, {"shared"})
    /\ UNCHANGED <<owner, host, at, page, loaded, given>>

Install(t) ==
    /\ Go(t, "install", "idle")
    /\ ept' = [ept EXCEPT ![at[t]] = @ \cup {VmOf[t]}]
    /\ LetGo(t)
    /\ UNCHANGED <<table, back, ksm, reg, page, loaded, given>>

-----------------------------------------------------------------------------
(* ksmd: ksm_page_modify(page, kpage), with kpage at at["ksmd"].           *)

\* page is write protected, unreferenced and about to be replaced by k.
MergeStart(p, k) ==
    /\ Go("ksmd", "idle", "testOwner")
    /\ p \notin ksm /\ back[p] # {} /\ Quiet(p)
    /\ k \in ksm /\ ~WorksOn("kswapd", k)
    /\ at' = [at EXCEPT !["ksmd"] = k]
    /\ page' = p
    /\ ept' = [ept EXCEPT ![p] = {}]
    /\ UNCHANGED <<table, back, ksm, reg, loaded, given>>

TestOwner ==
    /\ Go("ksmd", "testOwner", IF owner[page] = NoOwner THEN "merged" ELSE "loadOwner")
    /\ UNCHANGED <<table, host, reg, at, page, loaded, given>>

\* Mutant: the frame stored where its owner belongs.
CopyFrame ==
    /\ Go("ksmd", "copyOwner", "loadMShared")
    /\ owner' = [owner EXCEPT ![at["ksmd"]] = page]
    /\ loaded' = NoOwner
    /\ UNCHANGED <<flag, host, reg, at, page, given>>

\* kpage's owner = page's owner; the balloon may store either in between.
LoadOwner ==
    /\ Go("ksmd", "loadOwner", "copyOwner")
    /\ loaded' = owner[page]
    /\ UNCHANGED <<table, host, reg, at, page, given>>

CopyOwner ==
    /\ Go("ksmd", "copyOwner", "loadMShared")
    /\ owner' = [owner EXCEPT ![at["ksmd"]] = loaded]
    /\ loaded' = NoOwner
    /\ UNCHANGED <<flag, host, reg, at, page, given>>

LoadMShared ==
    /\ Go("ksmd", "loadMShared", "orMShared")
    /\ Load("ksmd")
    /\ UNCHANGED <<table, host, at, page, loaded, given>>

OrMShared ==
    /\ Go("ksmd", "orMShared", "loadMerged")
    /\ Or("ksmd", {"shared"})
    /\ UNCHANGED <<owner, host, at, page, loaded, given>>

LoadMerged ==
    /\ Go("ksmd", "loadMerged", "orMerged")
    /\ Load("ksmd")
    /\ UNCHANGED <<table, host, at, page, loaded, given>>

OrMerged ==
    /\ Go("ksmd", "orMerged", "clearOwner")
    /\ Or("ksmd", {"merged"})
    /\ UNCHANGED <<owner, host, at, page, loaded, given>>

ClearOwner ==
    /\ Go("ksmd", "clearOwner", "clearFlag")
    /\ owner' = [owner EXCEPT ![page] = NoOwner]
    /\ given' = given \ {page}
    /\ UNCHANGED <<flag, host, reg, at, page, loaded>>

\* Mutant: kpage's flags cleared, where page's are meant.
ClearFlagOfKpage ==
    /\ Go("ksmd", "clearFlag", "merged")
    /\ flag' = [flag EXCEPT ![at["ksmd"]] = {}]
    /\ UNCHANGED <<owner, host, reg, at, page, loaded, given>>

ClearFlag ==
    /\ Go("ksmd", "clearFlag", "merged")
    /\ flag' = [flag EXCEPT ![page] = {}]
    /\ UNCHANGED <<owner, host, reg, at, page, loaded, given>>

\* page's VM holds kpage from now on; page is free.
MergeEnd ==
    /\ Go("ksmd", "merged", "idle")
    /\ back' = [back EXCEPT ![page] = {}, ![at["ksmd"]] = @ \cup back[page]]
    /\ LetGo("ksmd") /\ page' = NoFrame
    /\ UNCHANGED <<table, ept, ksm, reg, loaded, given>>

Promote(p) ==
    /\ p \notin ksm /\ back[p] # {} /\ Quiet(p)
    /\ ksm' = ksm \cup {p}
    /\ UNCHANGED <<table, back, ept, pc, reg, at, page, loaded, given>>

-----------------------------------------------------------------------------
(* kswapd: clean_page_modify on a page it has unmapped.                    *)

ReclaimStart(p) ==
    /\ Go("kswapd", "idle", "cleanFlag")
    /\ back[p] # {} /\ Quiet(p)
    /\ at' = [at EXCEPT !["kswapd"] = p]
    /\ ept' = [ept EXCEPT ![p] = {}]
    /\ UNCHANGED <<table, back, ksm, reg, page, loaded, given>>

CleanFlag ==
    /\ Go("kswapd", "cleanFlag", "cleanOwner")
    /\ flag' = [flag EXCEPT ![at["kswapd"]] = {}]
    /\ UNCHANGED <<owner, host, reg, at, page, loaded, given>>

CleanOwner ==
    /\ Go("kswapd", "cleanOwner", "cleaned")
    /\ owner' = [owner EXCEPT ![at["kswapd"]] = NoOwner]
    /\ given' = given \ {at["kswapd"]}
    /\ UNCHANGED <<flag, host, reg, at, page, loaded>>

ReclaimEnd ==
    /\ Go("kswapd", "cleaned", "idle")
    /\ back' = [back EXCEPT ![at["kswapd"]] = {}]
    /\ ksm' = ksm \ {at["kswapd"]}
    /\ LetGo("kswapd")
    /\ UNCHANGED <<table, ept, reg, page, loaded, given>>

-----------------------------------------------------------------------------
(* The rest of the host: entries and memory given up without a hook.       *)

Zap(v, p) ==
    /\ v \in ept[p]
    /\ ept' = [ept EXCEPT ![p] = @ \ {v}]
    /\ UNCHANGED <<table, back, ksm, pc, reg, at, page, loaded, given>>

Drop(v, p) ==
    /\ v \in back[p] /\ Quiet(p)
    /\ back' = [back EXCEPT ![p] = @ \ {v}]
    /\ ept' = [ept EXCEPT ![p] = @ \ {v}]
    /\ ksm' = IF back[p] = {v} THEN ksm \ {p} ELSE ksm
    /\ UNCHANGED <<table, pc, reg, at, page, loaded, given>>

\* inflate_page_modify and deflate_page_modify: one store, whoever else works
\* on the frame.
Balloon(p) ==
    /\ back[p] # {}
    /\ owner' = [owner EXCEPT ![p] = NoOwner]
    /\ given' = given \cup {p}
    /\ UNCHANGED <<flag, host, pc, reg, at, page, loaded>>

FaultStep(t) ==
    \/ Verify(t) \/ VerifyOr(t) \/ SetOwner(t) \/ LoadUsed(t) \/ OrUsed(t)
    \/ TestKsm(t) \/ OrShared(t) \/ Install(t)
MergeStep ==
    \/ TestOwner \/ LoadOwner \/ CopyOwner \/ LoadMShared \/ OrMShared \/ LoadMerged
    \/ OrMerged \/ ClearOwner \/ ClearFlag \/ MergeEnd
ReclaimStep == CleanFlag \/ CleanOwner \/ ReclaimEnd

Next ==
    \/ \E t \in Vcpu : FaultStep(t) \/ \E p \in Frame : FaultStart(t, p)
    \/ MergeStep \/ \E p, k \in Frame : MergeStart(p, k)
    \/ ReclaimStep
    \/ \E p \in Frame : ReclaimStart(p) \/ Promote(p) \/ Balloon(p)
    \/ \E v \in VM, p \in Frame : Zap(v, p) \/ Drop(v, p)

Spec == Init /\ [][Next]_vars

-----------------------------------------------------------------------------
TypeOK ==
    /\ owner \in [Frame -> VM \cup {NoOwner}]
    /\ flag \in [Frame -> SUBSET FlagBit]
    /\ back \in [Frame -> SUBSET VM] /\ ept \in [Frame -> SUBSET VM]
    /\ ksm \subseteq Frame
    /\ \A t \in Vcpu : pc[t] \in FaultPc \cup {"idle"}
    /\ pc["ksmd"] \in MergePc \cup {"idle"}
    /\ pc["kswapd"] \in ReclaimPc \cup {"idle"}
    /\ DOMAIN pc = Thread
    /\ reg \in [Thread -> SUBSET FlagBit]
    /\ at \in [Thread -> Frame \cup {NoFrame}]
    /\ page \in Frame \cup {NoFrame}
    /\ loaded \in VM \cup {NoOwner}
    /\ given \subseteq Frame

Several(S) == \E v, w \in S : v # w

\* Once no handler works on a frame, a frame in several EPTs carries the
\* shared bit: the or-s that overlap may lose each other's bits, but each
\* handler's own last or restores what the others lost.
SharedSettles ==
    \A p \in Frame : Quiet(p) /\ Several(ept[p]) => "shared" \in flag[p]

\* A frame at rest that some EPT maps carries the used bit: no merge into it,
\* reclaim or overlapping fault has swallowed it.
UsedSettles ==
    \A p \in Frame : Quiet(p) /\ ept[p] # {} => "used" \in flag[p]

\* A frame at rest that is not KSM's and some EPT maps is in that EPT only, and
\* tagged with its VM, or with the hypervisor if the balloon was the last to
\* store: tags written field by field do not stay torn.
OwnerSettles ==
    \A p \in Frame \ ksm : Quiet(p) /\ ept[p] # {} =>
        \E v \in VM : /\ ept[p] = {v}
                     /\ owner[p] = IF p \in given THEN NoOwner ELSE v

\* At every step, with the loads and stores of others in flight, the tags
\* implement FrameIsolation: read as "public iff the shared bit is set", no
\* second VM gets a frame before its bit is set, and no store of a stale copy
\* takes the bit from a frame that some EPT maps.
Isolation == INSTANCE FrameIsolation WITH
    holders <- ept,
    public  <- {p \in Frame : "shared" \in flag[p]}
RaceImplementsIsolation == Isolation!Spec

=============================================================================
