------------------------- MODULE PageTagLoad_proofs -------------------------
(***************************************************************************)
(* Proofs about PageTagLoad, for every number of VMs and frames and every  *)
(* sequence of loads and unloads.                                          *)
(***************************************************************************)
EXTENDS PageTagLoad, PageTag_proofs

\* handle_pfn_map is hooked between the second set_hook of my_init and the
\* second memcpy of my_exit.
MapHookInPhase ==
    "handle_pfn_map" \in hooked =>
        \/ phase = "loading" /\ cur > 2
        \/ phase = "live"
        \/ phase = "unloading" /\ cur <= 2

\* my_init and my_exit begin with their first hook.
CurFromOne == phase \in {"loading", "unloading"} => cur >= 1

\* The history speaks of entries that are there, made while the hook was.
SinceSound ==
    /\ \A p \in Frame : since[p] \subseteq ept[p]
    /\ "handle_pfn_map" \notin hooked => since = Unseen

\* The inductive invariant.
LInv ==
    /\ LoadTypeOK
    /\ HostSound
    /\ MapHookInPhase
    /\ CurFromOne
    /\ SinceSound
    /\ SeenIsExclusive
    /\ SeenIsUsed

HostTypeOK ==
    /\ live \subseteq VM
    /\ back \in [Frame -> SUBSET VM]
    /\ ept \in [Frame -> SUBSET VM]
    /\ ksm \subseteq Pages
    /\ balloon \subseteq Pages

-----------------------------------------------------------------------------
(* The host's part of a step.                                              *)

\* A merge, a reclaim or a balloon step adds no entry to any EPT, and the
\* host stays sound.
LEMMA HostEffect ==
    ASSUME TypeOK, HostSound, NEW p \in Frame, NEW k \in Frame,
           HostMerge(p, k) \/ HostReclaim(p) \/ HostInflate(p) \/ HostDeflate(p)
    PROVE  /\ HostTypeOK' /\ HostSound'
           /\ \A q \in Frame : ept'[q] \subseteq ept[q]
           /\ HostMerge(p, k) \/ HostReclaim(p) => ept'[p] = {}
  <1>1. CASE HostMerge(p, k)
    BY <1>1 DEF HostMerge, HostTypeOK, HostSound, TypeOK, Pages
  <1>2. CASE HostReclaim(p)
    <2>1. Leave({p}, VM) /\ live' = live
      BY <1>2 DEF HostReclaim
    <2>2. HostTypeOK' /\ \A q \in Frame : ept'[q] \subseteq ept[q]
      BY <2>1, LeaveType DEF HostTypeOK, TypeOK, Pages
    <2>3. HostSound'
      BY <2>1, LeaveSound
    <2>4. ept'[p] = {}
      BY <2>1 DEF Leave, TypeOK
    <2> QED
      BY <2>2, <2>3, <2>4
  <1>3. CASE HostInflate(p) \/ HostDeflate(p)
    <2>1. HostTypeOK' /\ UNCHANGED <<live, back, ept, ksm>>
      BY <1>3 DEF HostInflate, HostDeflate, HostTypeOK, TypeOK, Pages
    <2>2. ~(HostMerge(p, k) \/ HostReclaim(p)) \/ ept'[p] = {}
      BY <1>1, <1>2, <2>1 DEF HostMerge, HostReclaim, Leave, TypeOK
    <2> QED
      BY <2>1, <2>2 DEF HostSound
  <1> QED
    BY <1>1, <1>2, <1>3 DEF HostMerge, HostReclaim, Leave, TypeOK

\* A host step without a hook leaves the tags alone and adds no EPT entry.
LEMMA HostAloneEffect ==
    ASSUME TypeOK, HostSound, HostAlone
    PROVE  /\ TypeOK' /\ HostSound'
           /\ pageflag' = pageflag
           /\ \A q \in Frame : ept'[q] \subseteq ept[q]
  <1>1. [Next]_vars
    BY DEF HostAlone, Next
  <1>2. TypeOK' /\ HostSound'
    BY <1>1, TypeStep, HostStep
  <1>3. pageflag' = pageflag
    BY DEF HostAlone, VmCreate, VmDestroy, Zap, Drop, KsmPromote
  <1>4. ASSUME NEW P, NEW S, Leave(P, S)
        PROVE  \A q \in Frame : ept'[q] \subseteq ept[q]
    BY <1>4, LeaveType
  <1>5. ASSUME UNCHANGED ept PROVE \A q \in Frame : ept'[q] \subseteq ept[q]
    BY <1>5
  <1>6. ASSUME NEW v \in VM, NEW p \in Frame, Zap(v, p)
        PROVE  \A q \in Frame : ept'[q] \subseteq ept[q]
    BY <1>6 DEF Zap, TypeOK
  <1> QED
    BY <1>2, <1>3, <1>4, <1>5, <1>6
       DEF HostAlone, VmCreate, VmDestroy, Drop, KsmPromote

\* The host's part of a fault.
LEMMA FaultHost ==
    ASSUME TypeOK, HostSound, NEW v \in VM, NEW p \in Frame, FaultThrough(v, p)
    PROVE  /\ HostTypeOK' /\ HostSound'
           /\ ept' = [ept EXCEPT ![p] = @ \cup {v}]
           /\ p \in ksm \cup Common \/ ept[p] \subseteq {v}
  <1>1. /\ back' = [back EXCEPT ![p] = @ \cup {v}]
        /\ ept' = [ept EXCEPT ![p] = @ \cup {v}]
        /\ UNCHANGED <<live, ksm, balloon>>
    BY DEF FaultThrough, Verdict, ForeignVerdict
  <1>2. /\ v \in live
        /\ v \in back[p] \/ back[p] = {} \/ p \in Common
    BY DEF FaultThrough, Owned
  <1>3. HostTypeOK'
    BY <1>1 DEF HostTypeOK, TypeOK, Pages
  <1>4. \A q \in Frame : ept'[q] \subseteq back'[q] /\ back'[q] \subseteq live'
    BY <1>1, <1>2 DEF HostSound, TypeOK
  <1>5. \A q \in Frame \ (ksm' \cup Common) : \A a, b \in back'[q] : a = b
    BY <1>1, <1>2 DEF HostSound, TypeOK
  <1>6. p \in ksm \cup Common \/ ept[p] \subseteq {v}
    BY <1>2 DEF HostSound, TypeOK
  <1> QED
    BY <1>1, <1>3, <1>4, <1>5, <1>6 DEF HostSound

-----------------------------------------------------------------------------
(* The tags after a step.                                                  *)

\* What a fault makes of the tags, with and without its two hooks.
LEMMA FaultTags ==
    ASSUME TypeOK, NEW v \in VM, NEW p \in Frame, FaultThrough(v, p)
    PROVE  /\ pageflag' \in [Slot -> Tag]
           /\ \A q \in Slot : q # p => pageflag'[q] = pageflag[q]
           /\ p \in Tracked /\ "handle_pfn_map" \in hooked =>
                /\ pageflag'[p].owner = v
                /\ {"used"} \cup KsmBits(p) \subseteq pageflag'[p].flag
                /\ pageflag[p].flag \subseteq pageflag'[p].flag
  <1> DEFINE t == Through("handle_pfn_modify", pageflag, Verified(pageflag, p))
  <1>1. pageflag' = Through("handle_pfn_map", t, Mapped(t, p, v))
    BY DEF FaultThrough, Verdict, ForeignVerdict
  <1>2. InTable(p) <=> p \in Tracked
    BY SizeAssumption DEF InTable, Tracked, Frame
  <1>3. p \in Slot
    BY DEF Slot
  <1>4. /\ t \in [Slot -> Tag]
        /\ \A q \in Slot : q # p => t[q] = pageflag[q]
        /\ pageflag[p].flag \subseteq t[p].flag
    <2>1. CASE t = AddFlags(pageflag, p, KsmBits(p))
      BY <1>3, <2>1 DEF TypeOK, AddFlags, KsmBits, Tag, FlagBit
    <2>2. CASE t = pageflag
      BY <2>2 DEF TypeOK
    <2> QED
      BY <2>1, <2>2 DEF Through, Verified
  <1> HIDE DEF t
  <1>5. CASE p \in Tracked /\ "handle_pfn_map" \in hooked
    <2> DEFINE u == SetOwner(t, p, v)
    <2>1. pageflag' = AddFlags(u, p, {"used"} \cup KsmBits(p))
      BY <1>1, <1>2, <1>5 DEF Through, Mapped
    <2>2. /\ u \in [Slot -> Tag]
          /\ u[p].owner = v /\ u[p].flag = t[p].flag
          /\ \A q \in Slot : q # p => u[q] = pageflag[q]
      BY <1>3, <1>4 DEF SetOwner, Tag
    <2> HIDE DEF u
    <2> QED
      BY <1>3, <1>4, <2>1, <2>2 DEF AddFlags, KsmBits, Tag, FlagBit
  <1>6. CASE ~(p \in Tracked /\ "handle_pfn_map" \in hooked)
    BY <1>1, <1>2, <1>4, <1>6 DEF Through, Mapped
  <1> QED
    BY <1>5, <1>6

\* What a clean or a balloon handler makes of the tags.
LEMMA FieldTags ==
    ASSUME TypeOK, NEW p \in Frame
    PROVE  /\ \A q \in Slot : q # p => /\ Cleaned(pageflag, p)[q] = pageflag[q]
                                       /\ Ballooned(pageflag, p)[q] = pageflag[q]
           /\ Ballooned(pageflag, p)[p].flag = pageflag[p].flag
           /\ Ballooned(pageflag, p)[p].owner = NoOwner
  BY DEF TypeOK, Cleaned, Ballooned, SetOwner, Tag, Slot

\* The tables a handler of the module can leave are tables.
LEMMA ThroughType ==
    ASSUME TypeOK, NEW p \in Frame, NEW k \in Frame, NEW f,
           NEW new \in {Merged(pageflag, p, k), Cleaned(pageflag, p),
                        Ballooned(pageflag, p), NewTable}
    PROVE  Through(f, pageflag, new) \in [Slot -> Tag]
  <1>1. Blank \in Tag /\ Outside \in Tag
    BY DEF Blank, Outside, Tag, FlagBit
  <1>2. pageflag \in [Slot -> Tag]
    BY DEF TypeOK
  <1>3. /\ Merged(pageflag, p, k) \in [Slot -> Tag]
        /\ Cleaned(pageflag, p) \in [Slot -> Tag]
        /\ Ballooned(pageflag, p) \in [Slot -> Tag]
    BY <1>2, HandlersType
  <1>4. NewTable \in [Slot -> Tag]
    BY <1>1 DEF NewTable
  <1> QED
    BY <1>2, <1>3, <1>4 DEF Through

\* my_init and my_exit: the table is replaced only while handle_pfn_map is not
\* hooked, and the history is that of the entries made while it is.
LEMMA ModuleStep ==
    ASSUME LInv,
           Insmod \/ SetHook \/ InitReturns \/ Rmmod \/ Restore \/ ExitReturns
    PROVE  /\ LoadTypeOK' /\ HostSound'
           /\ MapHookInPhase' /\ CurFromOne' /\ SinceSound'
           /\ ept' = ept
           /\ \/ since' = since /\ pageflag' = pageflag
              \/ since' = Unseen
  <1>1. /\ UNCHANGED hostVars
        /\ pageflag' \in {pageflag, NewTable}
    BY DEF Insmod, SetHook, InitReturns, Rmmod, Restore, ExitReturns
  <1>2. pageflag' \in [Slot -> Tag]
    <2>1. Blank \in Tag /\ Outside \in Tag
      BY DEF Blank, Outside, Tag, FlagBit
    <2> QED
      BY <1>1, <2>1 DEF LInv, LoadTypeOK, TypeOK, NewTable
  <1>3. TypeOK' /\ HostSound' /\ ept' = ept
    BY <1>1, <1>2 DEF LInv, LoadTypeOK, TypeOK, HostSound, hostVars, Pages
  <1>4. /\ Len(Installs) = 6 /\ Len(Restores) = 6
        /\ Installs[2] = "handle_pfn_map" /\ Restores[2] = "handle_pfn_map"
        /\ Installs[1] # "handle_pfn_map"
        /\ \A i \in 1 .. 6 : Installs[i] \in Hook
    BY DEF Installs, Restores, Hook
  <1>5. cur \in 0 .. 7 /\ hooked \subseteq Hook /\ since \in [Frame -> SUBSET VM]
    BY <1>4 DEF LInv, LoadTypeOK
  <1>6. Unseen \in [Frame -> SUBSET VM] /\ \A p \in Frame : Unseen[p] = {}
    BY DEF Unseen
  <1>7. CASE Insmod \/ ExitReturns
    <2>1. "handle_pfn_map" \notin hooked
      BY <1>4, <1>5, <1>7 DEF LInv, MapHookInPhase, Insmod, ExitReturns
    <2>2. hooked' = hooked /\ since' = since /\ since = Unseen
      BY <1>7, <2>1 DEF Insmod, ExitReturns, LInv, SinceSound
    <2>3. \/ phase' = "out" /\ cur' = 0
          \/ phase' = "loading" /\ cur' = 1
      BY <1>7 DEF Insmod, ExitReturns
    <2> QED
      BY <1>3, <1>4, <1>5, <1>6, <2>1, <2>2, <2>3
         DEF LoadTypeOK, MapHookInPhase, CurFromOne, SinceSound
  <1>8. CASE SetHook
    <2>1. /\ phase = "loading" /\ phase' = "loading" /\ cur <= 6 /\ cur' = cur + 1
          /\ hooked' = hooked \cup {Installs[cur]}
          /\ since' = since /\ pageflag' = pageflag
      BY <1>4, <1>8 DEF SetHook
    <2>2. cur \in 1 .. 6 \/ cur = 0
      BY <1>5, <2>1
    <2>3. cur # 0
      BY <2>1 DEF LInv, CurFromOne
    <2> QED
      BY <1>3, <1>4, <1>5, <2>1, <2>2, <2>3
         DEF LInv, LoadTypeOK, MapHookInPhase, CurFromOne, SinceSound
  <1>9. CASE InitReturns \/ Rmmod
    <2>1. hooked' = hooked /\ since' = since /\ pageflag' = pageflag
      BY <1>9 DEF InitReturns, Rmmod
    <2>2. \/ phase' = "live" /\ cur' = 0
          \/ phase = "live" /\ phase' = "unloading" /\ cur' = 1
      BY <1>9 DEF InitReturns, Rmmod
    <2> QED
      BY <1>3, <1>4, <1>5, <2>1, <2>2
         DEF LInv, LoadTypeOK, MapHookInPhase, CurFromOne, SinceSound
  <1>10. CASE Restore
    <2>1. /\ phase = "unloading" /\ phase' = "unloading" /\ cur <= 6 /\ cur' = cur + 1
          /\ hooked' = hooked \ {Restores[cur]} /\ pageflag' = pageflag
          /\ since' = IF "handle_pfn_map" \in hooked' THEN since ELSE Unseen
      BY <1>4, <1>10 DEF Restore
    <2>2. "handle_pfn_map" \in hooked' => cur <= 2 /\ cur # 2
      BY <1>4, <2>1 DEF LInv, MapHookInPhase
    <2>3. "handle_pfn_map" \in hooked' => cur + 1 <= 2
      BY <1>5, <2>2
    <2>4. cur' \in 0 .. 7 /\ hooked' \subseteq Hook /\ since' \in [Frame -> SUBSET VM]
      BY <1>5, <1>6, <2>1
    <2> QED
      BY <1>3, <1>4, <1>6, <2>1, <2>3, <2>4
         DEF LInv, LoadTypeOK, MapHookInPhase, CurFromOne, SinceSound
  <1> QED
    BY <1>7, <1>8, <1>9, <1>10

\* What a step does to one tracked frame.  Either no entry the table has seen
\* remains; or no VM is added, no flag taken, and the owner stays, becomes the
\* hypervisor's or stops to matter; or a VM is added whose frame it is now.
FrameStep(q) ==
    \/ since'[q] = {}
    \/ /\ since'[q] \subseteq since[q]
       /\ ept'[q] \subseteq ept[q]
       /\ pageflag[q].flag \subseteq pageflag'[q].flag
       /\ pageflag'[q].owner \in {pageflag[q].owner, NoOwner} \/ Shared(q)'
    \/ \E v \in VM :
          /\ since'[q] = since[q] \cup {v}
          /\ ept'[q] = ept[q] \cup {v}
          /\ pageflag'[q].owner = v
          /\ pageflag[q].flag \cup {"used"} \subseteq pageflag'[q].flag
          /\ q \in Common \/ Shared(q)' \/ ept[q] \subseteq {v}

\* What the steps through the hooks owe the invariant: the types, the host,
\* the history, and FrameStep for every frame of the table.
ThroughSound ==
    /\ LoadTypeOK' /\ HostSound' /\ SinceSound'
    /\ \A q \in Frame \cap Tracked : FrameStep(q)

LEMMA FaultStep ==
    ASSUME LInv, NEW v \in VM, NEW p \in Frame, FaultThrough(v, p)
    PROVE  ThroughSound
  <1>1. TypeOK /\ HostSound /\ since \in [Frame -> SUBSET VM]
    BY DEF LInv, LoadTypeOK
  <1>2. /\ HostTypeOK' /\ HostSound'
        /\ ept' = [ept EXCEPT ![p] = @ \cup {v}]
        /\ p \in ksm \cup Common \/ ept[p] \subseteq {v}
    BY <1>1, FaultHost
  <1>3. /\ pageflag' \in [Slot -> Tag]
        /\ \A q \in Slot : q # p => pageflag'[q] = pageflag[q]
        /\ p \in Tracked /\ "handle_pfn_map" \in hooked =>
             /\ pageflag'[p].owner = v
             /\ {"used"} \cup KsmBits(p) \subseteq pageflag'[p].flag
             /\ pageflag[p].flag \subseteq pageflag'[p].flag
    BY <1>1, FaultTags
  <1>4. /\ since' = IF "handle_pfn_map" \in hooked
                    THEN [since EXCEPT ![p] = @ \cup {v}]
                    ELSE since
        /\ UNCHANGED module
    BY DEF FaultThrough, Verdict, ForeignVerdict
  <1>5. LoadTypeOK'
    BY <1>1, <1>2, <1>3, <1>4
       DEF LInv, LoadTypeOK, TypeOK, HostTypeOK, module, Pages
  <1>6. SinceSound'
    BY <1>1, <1>2, <1>4 DEF LInv, SinceSound, TypeOK, module, Unseen
  <1>7. ASSUME NEW q \in Frame \cap Tracked PROVE FrameStep(q)
    <2>1. q \in Frame /\ q \in Tracked /\ q \in Slot
      BY DEF Slot
    <2>2. CASE "handle_pfn_map" \notin hooked
      BY <1>4, <2>1, <2>2 DEF FrameStep, LInv, SinceSound, Unseen
    <2>3. CASE "handle_pfn_map" \in hooked /\ q # p
      BY <1>1, <1>2, <1>3, <1>4, <2>1, <2>3 DEF FrameStep, TypeOK
    <2>4. CASE "handle_pfn_map" \in hooked /\ q = p
      <3>1. since'[p] = since[p] \cup {v} /\ ept'[p] = ept[p] \cup {v}
        BY <1>1, <1>2, <1>4, <2>4 DEF TypeOK
      <3>2. p \in ksm => Shared(p)'
        BY <1>3, <2>1, <2>4 DEF KsmBits, Shared, Has
      <3> QED
        BY <1>2, <1>3, <2>1, <2>4, <3>1, <3>2 DEF FrameStep
    <2> QED
      BY <2>2, <2>3, <2>4
  <1> QED
    BY <1>2, <1>5, <1>6, <1>7 DEF ThroughSound

LEMMA MergeStep ==
    ASSUME LInv, NEW page \in Frame, NEW kpage \in Frame, MergeThrough(page, kpage)
    PROVE  ThroughSound
  <1> DEFINE new == Merged(pageflag, page, kpage)
  <1>1. /\ TypeOK /\ HostSound /\ since \in [Frame -> SUBSET VM]
        /\ HostMerge(page, kpage)
        /\ pageflag' = Through("ksm_page_modify", pageflag, new)
        /\ since' = [p \in Frame |-> since[p] \cap ept'[p]]
        /\ UNCHANGED module
    BY DEF LInv, LoadTypeOK, MergeThrough, Keep
  <1>2. /\ HostTypeOK' /\ HostSound' /\ ept'[page] = {}
        /\ \A q \in Frame : ept'[q] \subseteq ept[q]
    BY <1>1, HostEffect
  <1>3. pageflag' \in [Slot -> Tag]
    BY <1>1, ThroughType
  <1>4. /\ page # kpage
        /\ \A q \in Slot \ {page, kpage} : new[q] = pageflag[q]
        /\ \/ new[kpage] = pageflag[kpage]
           \/ /\ kpage \in Tracked
              /\ new[kpage].flag = pageflag[kpage].flag \cup {"shared", "merged"}
    BY <1>1, MergedTags
  <1> HIDE DEF new
  <1>5. LoadTypeOK'
    BY <1>1, <1>2, <1>3 DEF LInv, LoadTypeOK, TypeOK, HostTypeOK, module, Pages
  <1>6. SinceSound'
    BY <1>1, <1>2 DEF LInv, SinceSound, module, Unseen
  <1>7. ASSUME NEW q \in Frame \cap Tracked PROVE FrameStep(q)
    <2>1. q \in Frame /\ q \in Slot
      BY DEF Slot
    <2>2. CASE q = page
      BY <1>1, <1>2, <2>1, <2>2 DEF FrameStep
    <2>3. CASE q # page
      <3>1. since'[q] \subseteq since[q] /\ ept'[q] \subseteq ept[q]
        BY <1>1, <1>2, <2>1
      <3>2. \/ pageflag'[q] = pageflag[q]
            \/ pageflag'[q].flag = pageflag[q].flag \cup {"shared", "merged"}
        BY <1>1, <1>4, <2>1, <2>3 DEF Through
      <3> QED
        BY <3>1, <3>2 DEF FrameStep, Shared, Has
    <2> QED
      BY <2>2, <2>3
  <1> QED
    BY <1>2, <1>5, <1>6, <1>7 DEF ThroughSound

LEMMA CleanOrBalloonStep ==
    ASSUME LInv, NEW p \in Frame,
           ReclaimThrough(p) \/ InflateThrough(p) \/ DeflateThrough(p)
    PROVE  ThroughSound
  <1>1. TypeOK /\ HostSound /\ since \in [Frame -> SUBSET VM] /\ UNCHANGED module
    BY DEF LInv, LoadTypeOK, ReclaimThrough, InflateThrough, DeflateThrough
  <1>2. /\ HostReclaim(p) \/ HostInflate(p) \/ HostDeflate(p)
        /\ HostReclaim(p) \/ ept' = ept
    BY DEF ReclaimThrough, InflateThrough, DeflateThrough, HostInflate, HostDeflate
  <1>3. /\ HostTypeOK' /\ HostSound' /\ (HostReclaim(p) => ept'[p] = {})
        /\ \A q \in Frame : ept'[q] \subseteq ept[q]
    BY <1>1, <1>2, HostEffect
  <1>4. /\ pageflag' \in [Slot -> Tag]
        /\ \A q \in Slot : q # p => pageflag'[q] = pageflag[q]
        /\ ReclaimThrough(p) \/ /\ pageflag'[p].flag = pageflag[p].flag
                                /\ pageflag'[p].owner \in {pageflag[p].owner, NoOwner}
    <2>1. \E f : pageflag' = Through(f, pageflag, Cleaned(pageflag, p))
                 \/ pageflag' = Through(f, pageflag, Ballooned(pageflag, p))
      BY DEF ReclaimThrough, InflateThrough, DeflateThrough
    <2>2. pageflag' \in [Slot -> Tag]
      BY <1>1, <2>1, ThroughType
    <2>3. \A q \in Slot : q # p => pageflag'[q] = pageflag[q]
      BY <1>1, <2>1, FieldTags DEF Through
    <2>4. ReclaimThrough(p)
          \/ \E f : pageflag' = Through(f, pageflag, Ballooned(pageflag, p))
      BY DEF InflateThrough, DeflateThrough
    <2> QED
      BY <1>1, <2>2, <2>3, <2>4, FieldTags DEF Through
  <1>5. /\ since' \in [Frame -> SUBSET VM]
        /\ \A q \in Frame : since'[q] \subseteq since[q] /\ since'[q] \subseteq ept'[q]
        /\ since = Unseen => since' = Unseen
    <2>1. CASE since' = [q \in Frame |-> since[q] \cap ept'[q]]
      BY <1>1, <2>1 DEF Unseen
    <2>2. CASE since' = since /\ ept' = ept
      BY <1>1, <2>2 DEF LInv, SinceSound
    <2> QED
      BY <2>1, <2>2 DEF ReclaimThrough, Keep, InflateThrough, DeflateThrough,
                        HostInflate, HostDeflate
  <1>6. LoadTypeOK'
    BY <1>1, <1>3, <1>4, <1>5 DEF LInv, LoadTypeOK, TypeOK, HostTypeOK, module, Pages
  <1>7. SinceSound'
    BY <1>1, <1>5 DEF LInv, SinceSound, module
  <1>8. ASSUME NEW q \in Frame \cap Tracked PROVE FrameStep(q)
    <2>1. q \in Frame /\ q \in Slot
      BY DEF Slot
    <2>2. CASE q = p /\ ReclaimThrough(p)
      <3>1. ept'[q] = {}
        BY <1>3, <2>2 DEF ReclaimThrough
      <3> QED
        BY <1>5, <2>1, <3>1 DEF FrameStep
    <2>3. CASE ~(q = p /\ ReclaimThrough(p))
      BY <1>3, <1>4, <1>5, <2>1, <2>3 DEF FrameStep
    <2> QED
      BY <2>2, <2>3
  <1> QED
    BY <1>3, <1>6, <1>7, <1>8 DEF ThroughSound

LEMMA AloneStep == LInv /\ HostAlone => ThroughSound
  <1> SUFFICES ASSUME LInv, HostAlone PROVE ThroughSound
    OBVIOUS
  <1>1. /\ TypeOK /\ HostSound /\ since \in [Frame -> SUBSET VM]
        /\ since' = [q \in Frame |-> since[q] \cap ept'[q]]
        /\ UNCHANGED module
    BY DEF LInv, LoadTypeOK, HostAlone, Keep
  <1>2. /\ TypeOK' /\ HostSound' /\ pageflag' = pageflag
        /\ \A q \in Frame : ept'[q] \subseteq ept[q]
    BY <1>1, HostAloneEffect
  <1>3. LoadTypeOK'
    BY <1>1, <1>2 DEF LInv, LoadTypeOK, module
  <1>4. SinceSound'
    BY <1>1, <1>2 DEF LInv, SinceSound, module, Unseen
  <1>5. ASSUME NEW q \in Frame \cap Tracked PROVE FrameStep(q)
    BY <1>1, <1>2 DEF FrameStep
  <1> QED
    BY <1>2, <1>3, <1>4, <1>5 DEF ThroughSound

\* Every step through the hooks or past them.
LEMMA HostStepThrough ==
    ASSUME LInv, [LoadNext]_loadVars,
           ~(Insmod \/ SetHook \/ InitReturns \/ Rmmod \/ Restore \/ ExitReturns)
    PROVE  ThroughSound /\ UNCHANGED module
  <1>1. CASE UNCHANGED loadVars
    BY <1>1 DEF loadVars, module, ThroughSound, FrameStep, LInv, LoadTypeOK, TypeOK,
                Pages, HostSound, SinceSound
  <1>2. CASE LoadNext
    BY <1>2, AloneStep, FaultStep, MergeStep, CleanOrBalloonStep
       DEF LoadNext, HostAlone, FaultThrough, MergeThrough, ReclaimThrough,
           InflateThrough, DeflateThrough
  <1> QED
    BY <1>1, <1>2

-----------------------------------------------------------------------------
(* The invariant.                                                          *)

LEMMA InitLInv == LoadInit => LInv
  <1> SUFFICES ASSUME LoadInit PROVE LInv
    OBVIOUS
  <1>1. TypeOK /\ HostSound
    BY InitIInv DEF LoadInit, IInv
  <1>2. 0 \in 0 .. Len(Installs) + 1
    BY DEF Installs
  <1>3. since = Unseen /\ Unseen \in [Frame -> SUBSET VM]
        /\ \A p \in Frame : Unseen[p] = {}
    BY DEF LoadInit, Unseen
  <1> QED
    BY <1>1, <1>2, <1>3
       DEF LoadInit, LInv, LoadTypeOK, MapHookInPhase, CurFromOne, SinceSound,
           SeenIsExclusive, SeenIsUsed, Told

\* What every step does to a frame of the table.
LEMMA EveryFrameStep ==
    ASSUME LInv, [LoadNext]_loadVars, NEW q \in Frame \cap Tracked
    PROVE  FrameStep(q)
  <1>1. CASE Insmod \/ SetHook \/ InitReturns \/ Rmmod \/ Restore \/ ExitReturns
    BY <1>1, ModuleStep DEF FrameStep, Unseen
  <1> QED
    BY <1>1, HostStepThrough DEF ThroughSound

LEMMA StepLInv == LInv /\ [LoadNext]_loadVars => LInv'
  <1> SUFFICES ASSUME LInv, [LoadNext]_loadVars PROVE LInv'
    OBVIOUS
  <1>1. /\ LoadTypeOK' /\ HostSound' /\ MapHookInPhase' /\ CurFromOne' /\ SinceSound'
    <2>1. CASE Insmod \/ SetHook \/ InitReturns \/ Rmmod \/ Restore \/ ExitReturns
      BY <2>1, ModuleStep
    <2>2. CASE ThroughSound /\ UNCHANGED module
      BY <2>2 DEF ThroughSound, module, LInv, MapHookInPhase, CurFromOne
    <2> QED
      BY <2>1, <2>2, HostStepThrough
  <1>2. SeenIsExclusive'
    <2> SUFFICES ASSUME NEW q \in Told, since'[q] # {}, ~Shared(q)'
                 PROVE  \E v \in VM : ept'[q] = {v} /\ pageflag'[q].owner \in {v, NoOwner}
      BY DEF SeenIsExclusive, Told
    <2>1. q \in Frame \cap Tracked /\ q \notin Common /\ FrameStep(q)
      BY EveryFrameStep DEF Told
    <2>2. since'[q] \subseteq ept'[q]
      BY <1>1, <2>1 DEF SinceSound
    <2>3. CASE /\ since'[q] \subseteq since[q] /\ ept'[q] \subseteq ept[q]
               /\ pageflag[q].flag \subseteq pageflag'[q].flag
               /\ pageflag'[q].owner \in {pageflag[q].owner, NoOwner}
      <3>1. since[q] # {} /\ ~Shared(q)
        BY <2>3 DEF Shared, Has
      <3>2. PICK v \in VM : ept[q] = {v} /\ pageflag[q].owner \in {v, NoOwner}
        BY <3>1 DEF LInv, SeenIsExclusive
      <3> QED
        BY <2>2, <2>3, <3>2
    <2>4. CASE \E v \in VM : /\ ept'[q] = ept[q] \cup {v}
                             /\ pageflag'[q].owner = v
                             /\ ept[q] \subseteq {v}
      BY <2>4
    <2> QED
      BY <2>1, <2>3, <2>4 DEF FrameStep
  <1>3. SeenIsUsed'
    <2> SUFFICES ASSUME NEW q \in Frame \cap Tracked, since'[q] # {}
                 PROVE  "used" \in pageflag'[q].flag
      BY DEF SeenIsUsed, Has
    <2>1. FrameStep(q)
      BY EveryFrameStep
    <2> QED
      BY <2>1 DEF FrameStep, LInv, SeenIsUsed, Has
  <1> QED
    BY <1>1, <1>2, <1>3 DEF LInv

\* The types hold in every reachable state.
THEOREM LoadTypeCorrect == LoadSpec => []LoadTypeOK
  <1>1. LInv => LoadTypeOK
    BY DEF LInv
  <1> QED
    BY <1>1, InitLInv, StepLInv, PTL DEF LoadSpec

\* However often the module comes and goes: a frame with one entry made under
\* handle_pfn_map is shared or exclusive.
THEOREM SeenExclusive == LoadSpec => []SeenIsExclusive
  <1>1. LInv => SeenIsExclusive
    BY DEF LInv
  <1> QED
    BY <1>1, InitLInv, StepLInv, PTL DEF LoadSpec

\* And its tag carries the used bit.
THEOREM SeenUsed == LoadSpec => []SeenIsUsed
  <1>1. LInv => SeenIsUsed
    BY DEF LInv
  <1> QED
    BY <1>1, InitLInv, StepLInv, PTL DEF LoadSpec

\* Of the entries it has seen the table implements FrameIsolation.
THEOREM SeenRefinement == LoadSpec => SeenImplementsIsolation
  <1>1. LoadInit => Seen!Init
    <2> SUFFICES ASSUME LoadInit PROVE Seen!Init
      OBVIOUS
    <2>1. ASSUME NEW p \in Told PROVE since[p] = {} /\ ~Shared(p)
      <3>1. p \in Frame /\ p \in Slot /\ p \in Tracked
        BY DEF Told, Slot
      <3> QED
        BY <3>1 DEF LoadInit, Unseen, Init, Shared, Has, Blank
    <2> QED
      BY <2>1 DEF Seen!Init
  <1>2. LInv /\ [LoadNext]_loadVars => Seen!Next
    <2> SUFFICES ASSUME LInv, [LoadNext]_loadVars PROVE Seen!Next
      OBVIOUS
    <2>1. [p \in Told |-> since[p]]' \in [Told -> SUBSET VM]
      <3>1. LoadTypeOK'
        BY StepLInv DEF LInv
      <3> QED
        BY <3>1 DEF LoadTypeOK, Told
    <2>2. {p \in Told : Shared(p)}' \in SUBSET Told
      BY DEF Told
    <2>3. ASSUME NEW q \in Told
          PROVE  \/ /\ since'[q] \subseteq since[q]
                    /\ Shared(q) /\ since'[q] # {} => Shared(q)'
                 \/ /\ \E v \in VM : since'[q] = since[q] \cup {v}
                    /\ Shared(q) => Shared(q)'
                    /\ Shared(q)' \/ since[q] = {}
      <3>1. q \in Frame /\ q \notin Common /\ FrameStep(q) /\ since[q] \subseteq ept[q]
        BY EveryFrameStep DEF Told, LInv, SinceSound
      <3> QED
        BY <3>1 DEF FrameStep, Shared, Has
    <2>4. ASSUME NEW q \in Told PROVE Seen!Withdraw(q) \/ Seen!Grant(q)
      BY <2>3 DEF Seen!Withdraw, Seen!Grant, Told
    <2> QED
      BY <2>1, <2>2, <2>4 DEF Seen!Next
  <1> QED
    BY <1>1, <1>2, InitLInv, StepLInv, PTL
       DEF LoadSpec, SeenImplementsIsolation, Seen!Spec

=============================================================================
