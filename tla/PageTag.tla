------------------------------ MODULE PageTag ------------------------------
(***************************************************************************)
(* The page tag table (PPTT) of HyperMI: the array pageflag[Num_pfn2] of   *)
(* gate_function.h and the handlers that keep it, each called from a hook  *)
(* in the host kernel.                                                     *)
(*                                                                         *)
(*   handle_pfn_modify, handle_pfn_map   KVM resolves an EPT violation     *)
(*   ksm_page_modify                     KSM replaces a page by another    *)
(*   clean_page_modify                   reclaim releases a page           *)
(*   inflate / deflate_page_modify       the balloon takes / returns one   *)
(*                                                                         *)
(* Here a handler is one atomic step; PageTagRace takes the map handler    *)
(* and the KSM handler apart into the loads and stores that really         *)
(* interleave.  The messages the handlers print are left out.              *)
(*                                                                         *)
(* The host that calls the handlers is not in the repository.  Its part    *)
(* (live, back, ept, ksm, balloon) is the least that the handlers'         *)
(* arguments and tests (pfn, vcpu->kvm, PageKsm, page, kpage) imply.       *)
(***************************************************************************)
EXTENDS Integers

CONSTANTS
    VM,        \* the kvm pointers the host can hand out
    NoOwner,   \* owner 0, the hypervisor
    Foreign,   \* what lies in memory next to the table
    NumPfn,    \* Num_pfn2, the size of the table
    MaxPfn,    \* the last page frame of the machine
    Common     \* frames the host maps into many VMs without KSM (zero page)

ASSUME OwnerAssumption == NoOwner \notin VM /\ Foreign \notin VM \cup {NoOwner}
ASSUME SizeAssumption  == NumPfn \in Nat \ {0} /\ MaxPfn \in Nat
ASSUME CommonAssumption == Common \subseteq 0 .. MaxPfn

Frame   == 0 .. MaxPfn
Tracked == 1 .. NumPfn           \* pfn has the tag pageflag[pfn - 1]
Slot    == Frame \cup Tracked    \* tags, and the memory around the table

FlagBit == {"used", "shared", "merged"}      \* 0x80, 0x01, 0x08
Tag     == [owner : VM \cup {NoOwner, Foreign}, flag : SUBSET FlagBit]
Blank   == [owner |-> NoOwner, flag |-> {}]
Outside == [owner |-> Foreign, flag |-> FlagBit]

VARIABLES
    pageflag,   \* the table, indexed by pfn
    live,       \* host: the running VMs
    back,       \* host: the VMs whose memory a frame holds
    ept,        \* host: the VMs whose EPT maps a frame
    ksm,        \* host: the frames for which PageKsm holds
    balloon     \* host: the frames a guest's balloon holds

hostVars == <<live, back, ept, ksm, balloon>>
vars     == <<pageflag, live, back, ept, ksm, balloon>>

-----------------------------------------------------------------------------
(* The handlers, as functions from a table to a table.                     *)

Has(t, p, bit)     == bit \in t[p].flag
AddFlags(t, p, bs) == [t EXCEPT ![p].flag = @ \cup bs]
SetOwner(t, p, o)  == [t EXCEPT ![p].owner = o]

InTableFromZero(p) == p >= 0 /\ p <= NumPfn          \* mutant: pfn 0 let in

\* "(pfn > 0) && (pfn <= Num_pfn2)", the test of the two KVM handlers.
InTable(p) == p > 0 /\ p <= NumPfn

KsmBitsDropped(p) == {}                              \* mutant: PageKsm not asked

\* "if (PageKsm(pfn_to_page(pfn))) flag |= 0x01" of both KVM handlers.
KsmBits(p) == IF p \in ksm THEN {"shared"} ELSE {}

\* What handle_pfn_modify does to the table on its way to a verdict.
Verified(t, p) == IF InTable(p) THEN AddFlags(t, p, KsmBits(p)) ELSE t

\* The case handle_pfn_modify singles out: in use, private, somebody else's.
ForeignPrivate(t, p, v) ==
    Has(t, p, "used") /\ ~Has(t, p, "shared") /\ t[p].owner # v

\* "return 0;///1": what it returns for that case, and for every other.
ForeignVerdict == 0
Verdict(t, p, v) ==
    IF InTable(p) /\ ForeignPrivate(t, p, v) THEN ForeignVerdict ELSE 0

\* Mutants: a first owner kept for ever; the flags assigned instead of or-ed;
\* the pfn stored where the VM belongs.
MappedOnce(t, p, v) ==
    IF InTable(p)
    THEN AddFlags(IF t[p].owner = NoOwner THEN SetOwner(t, p, v) ELSE t,
                  p, {"used"} \cup KsmBits(p))
    ELSE t
MappedAfresh(t, p, v) ==
    IF InTable(p)
    THEN [t EXCEPT ![p] = [owner |-> v, flag |-> {"used"} \cup KsmBits(p)]]
    ELSE t
MappedSwapped(t, p, v) ==
    IF InTable(p) THEN AddFlags(SetOwner(t, p, p), p, {"used"}) ELSE t

\* handle_pfn_map: the frame becomes v's, used, and shared if KSM holds it.
Mapped(t, p, v) ==
    IF InTable(p)
    THEN AddFlags(SetOwner(t, p, v), p, {"used"} \cup KsmBits(p))
    ELSE t

\* ksm_page_modify: kpage inherits the owner of page, page becomes free.
\* The range test is strict here, where the KVM handlers admit Num_pfn2.
MergeRange(page, kpage) == kpage < NumPfn /\ page < NumPfn

\* Mutants: the shared bit forgotten; kpage released in place of page.
MergeTagPrivate(t, page, kpage) ==
    IF kpage \in ksm
    THEN AddFlags(SetOwner(t, kpage, t[page].owner), kpage, {"merged"})
    ELSE t
MergedReversed(t, page, kpage) ==
    IF MergeRange(page, kpage) /\ t[page].owner # NoOwner
    THEN [t EXCEPT ![kpage] = Blank]
    ELSE t

MergeTag(t, page, kpage) ==
    IF kpage \in ksm
    THEN AddFlags(SetOwner(t, kpage, t[page].owner), kpage, {"shared", "merged"})
    ELSE t
Merged(t, page, kpage) ==
    IF MergeRange(page, kpage) /\ t[page].owner # NoOwner
    THEN [MergeTag(t, page, kpage) EXCEPT ![page] = Blank]
    ELSE t

\* clean_page_modify: no range test, both fields zeroed.
Cleaned(t, p) == [t EXCEPT ![p] = Blank]

\* inflate_page_modify and deflate_page_modify: the owner only.
Ballooned(t, p) == SetOwner(t, p, NoOwner)

-----------------------------------------------------------------------------
(* The host kernel's steps, each with the whole handler it calls.          *)

Init ==
    /\ pageflag = [p \in Slot |-> IF p \in Tracked THEN Blank ELSE Outside]
    /\ live = {}
    /\ back = [p \in Frame |-> {}]
    /\ ept = [p \in Frame |-> {}]
    /\ ksm = {}
    /\ balloon = {}

Pages    == Frame \ (Common \cup {0})     \* what the page allocator owns
Owned(p) == back[p] # {}

\* The VMs S leave the memory of the frames in P: no EPT keeps an entry, and
\* a frame that nobody holds goes back to the allocator.
Leave(P, S) ==
    /\ back' = [p \in Frame |-> IF p \in P THEN back[p] \ S ELSE back[p]]
    /\ ept'  = [p \in Frame |-> IF p \in P THEN ept[p] \ S ELSE ept[p]]
    /\ ksm'  = {p \in ksm : p \in P => back[p] \ S # {}}
    /\ balloon' = {p \in balloon : p \in P => back[p] \ S # {}}

VmCreate(v) ==
    /\ v \notin live
    /\ live' = live \cup {v}
    /\ UNCHANGED <<pageflag, back, ept, ksm, balloon>>

\* VM teardown: no hook runs, the tags of its frames stay as they are.
VmDestroy(v) ==
    /\ v \in live
    /\ live' = live \ {v}
    /\ Leave(Frame, {v})
    /\ UNCHANGED pageflag

\* An EPT violation of v resolved to p: handle_pfn_modify verifies, and when
\* it returns 0 handle_pfn_map tags the frame and KVM maps it.
ResolveTo(v, p) ==
    /\ v \in live
    /\ LET t == Verified(pageflag, p) IN
       IF Verdict(t, p, v) = 0
       THEN /\ pageflag' = Mapped(t, p, v)
            /\ back' = [back EXCEPT ![p] = @ \cup {v}]
            /\ ept' = [ept EXCEPT ![p] = @ \cup {v}]
       ELSE /\ pageflag' = t
            /\ UNCHANGED <<back, ept>>
    /\ UNCHANGED <<live, ksm, balloon>>

\* The host resolves to a frame v already holds, a free one, or a common one.
Fault(v, p) == (v \in back[p] \/ ~Owned(p) \/ p \in Common) /\ ResolveTo(v, p)

\* An MMU notifier drops the EPT entry; the frame stays v's.
Zap(v, p) ==
    /\ v \in ept[p]
    /\ ept' = [ept EXCEPT ![p] = @ \ {v}]
    /\ UNCHANGED <<pageflag, live, back, ksm, balloon>>

\* v stops using p (copy on write, madvise, munmap): no hook runs.
Drop(v, p) ==
    /\ v \in back[p]
    /\ Leave({p}, {v})
    /\ UNCHANGED <<pageflag, live>>

\* ksmd promotes an anonymous page to a KSM page in place: no hook runs.
KsmPromote(p) ==
    /\ p \in Pages \ ksm
    /\ Owned(p)
    /\ ksm' = ksm \cup {p}
    /\ UNCHANGED <<pageflag, live, back, ept, balloon>>

\* ksmd replaces page by the KSM page kpage: page's EPT entry is zapped, its
\* VM holds kpage from now on, and page is free.
HostMerge(page, kpage) ==
    /\ page \in Pages \ ksm
    /\ kpage \in ksm
    /\ Owned(page)
    /\ back' = [back EXCEPT ![page] = {}, ![kpage] = @ \cup back[page]]
    /\ ept' = [ept EXCEPT ![page] = {}]
    /\ balloon' = balloon \ {page}
    /\ UNCHANGED <<live, ksm>>
KsmMerge(page, kpage) ==
    /\ HostMerge(page, kpage)
    /\ pageflag' = Merged(pageflag, page, kpage)

\* Reclaim unmaps a page everywhere and releases it.
HostReclaim(p) ==
    /\ p \in Pages
    /\ Owned(p)
    /\ Leave({p}, VM)
    /\ UNCHANGED live
Reclaim(p) == HostReclaim(p) /\ pageflag' = Cleaned(pageflag, p)

\* The balloon takes a page of a VM; the host drops it later, or never.
HostInflate(p) ==
    /\ p \in Pages \ (ksm \cup balloon)
    /\ Owned(p)
    /\ balloon' = balloon \cup {p}
    /\ UNCHANGED <<live, back, ept, ksm>>
Inflate(p) == HostInflate(p) /\ pageflag' = Ballooned(pageflag, p)

HostDeflate(p) ==
    /\ p \in balloon
    /\ balloon' = balloon \ {p}
    /\ UNCHANGED <<live, back, ept, ksm>>
Deflate(p) == HostDeflate(p) /\ pageflag' = Ballooned(pageflag, p)

Next ==
    \/ \E v \in VM : VmCreate(v) \/ VmDestroy(v)
    \/ \E v \in VM, p \in Frame : Fault(v, p) \/ Zap(v, p) \/ Drop(v, p)
    \/ \E page, kpage \in Frame : KsmMerge(page, kpage)
    \/ \E p \in Frame : KsmPromote(p) \/ Reclaim(p) \/ Inflate(p) \/ Deflate(p)

Spec == Init /\ [][Next]_vars

-----------------------------------------------------------------------------
(* What the table promises.                                                *)

Shared(p) == Has(pageflag, p, "shared")

\* The frames the table can speak of: tracked, and not common by design.
Told == (Frame \cap Tracked) \ Common

\* Every tag names a VM, the hypervisor or nothing of ours, and the host's
\* sets hold frames and VMs.
TypeOK ==
    /\ pageflag \in [Slot -> Tag]
    /\ live \subseteq VM
    /\ back \in [Frame -> SUBSET VM]
    /\ ept \in [Frame -> SUBSET VM]
    /\ ksm \subseteq Pages
    /\ balloon \subseteq Pages

\* The host keeps an EPT entry only for memory the VM holds, and only KSM or
\* common frames hold the memory of several VMs.
HostSound ==
    /\ \A p \in Frame : ept[p] \subseteq back[p] /\ back[p] \subseteq live
    /\ \A p \in Frame \ (ksm \cup Common) :
          \A v, w \in back[p] : v = w

\* Private means exclusive (handle_pfn_map, ksm_page_modify).  A mapped frame
\* whose tag lacks the shared bit is in the EPT of one VM only, and the tag
\* names that VM, unless the balloon handlers gave it to the hypervisor: no
\* teardown without a hook, stale tag, promotion or merge breaks this.
PrivateIsExclusive ==
    \A p \in Told : ept[p] # {} /\ ~Shared(p) =>
        \E v \in VM : ept[p] = {v} /\ pageflag[p].owner \in {v, NoOwner}

\* A frame some EPT maps carries the used bit (handle_pfn_map sets it,
\* clean_page_modify and ksm_page_modify clear it): neither a reclaim nor a
\* merge erases the tag of a frame that is still mapped.
MappedIsUsed ==
    \A p \in Frame \cap Tracked : ept[p] # {} => Has(pageflag, p, "used")

\* The table implements FrameIsolation: read as "public iff the shared bit is
\* set", no handler grants a private frame twice, and none clears the bit of a
\* frame that some EPT still maps.
Isolation == INSTANCE FrameIsolation WITH
    Frame   <- Told,
    holders <- [p \in Told |-> ept[p]],
    public  <- {p \in Told : Shared(p)}
ImplementsIsolation == Isolation!Spec

\* A private tag passes to a VM only while no other VM's EPT maps the frame.
HandoverUnmapped ==
    [][\A p \in Told :
          /\ pageflag'[p].owner # pageflag[p].owner
          /\ pageflag'[p].owner \in VM
          /\ ~Shared(p)'
          => ept[p] \subseteq {pageflag'[p].owner}]_vars

\* The KVM and KSM handlers never tag memory outside the array, whose tests
\* differ ("> 0", "<=", "<"); and where the array covers the machine, no
\* handler writes outside it, those without a range test included.
TableBounds ==
    \A p \in Slot \ Tracked :
        /\ pageflag[p].owner \notin VM
        /\ MaxPfn <= NumPfn => pageflag[p] = Outside

=============================================================================
