--------------------------- MODULE PageTag_proofs ---------------------------
(***************************************************************************)
(* Proofs about PageTag, for every number of VMs and frames, every table   *)
(* size and every set of common frames.                                    *)
(***************************************************************************)
EXTENDS PageTag, TLAPS

\* The inductive invariant.  PrivateIsExclusive is not inductive alone: that a
\* fault adds a second VM only to a KSM frame needs what the host keeps true.
IInv == TypeOK /\ HostSound /\ PrivateIsExclusive

\* A tag whose owner or flags are updated is a tag.
LEMMA TagUpdate ==
    ASSUME NEW t \in [Slot -> Tag], NEW p \in Slot,
           NEW o \in VM \cup {NoOwner, Foreign}, NEW bs \in SUBSET FlagBit
    PROVE  /\ AddFlags(t, p, bs) \in [Slot -> Tag]
           /\ SetOwner(t, p, o) \in [Slot -> Tag]
           /\ Cleaned(t, p) \in [Slot -> Tag]
  <1>1. t[p] \in Tag
    OBVIOUS
  <1>2. /\ [t[p] EXCEPT !.flag = @ \cup bs] \in Tag
        /\ [t[p] EXCEPT !.owner = o] \in Tag
        /\ Blank \in Tag
    BY <1>1 DEF Tag, Blank
  <1> QED
    BY <1>2 DEF AddFlags, SetOwner, Cleaned

\* The handlers return tables.
LEMMA HandlersType ==
    ASSUME NEW t \in [Slot -> Tag], NEW p \in Frame
    PROVE  /\ Verified(t, p) \in [Slot -> Tag]
           /\ \A v \in VM : Mapped(t, p, v) \in [Slot -> Tag]
           /\ \A k \in Frame : Merged(t, p, k) \in [Slot -> Tag]
           /\ Cleaned(t, p) \in [Slot -> Tag]
           /\ Ballooned(t, p) \in [Slot -> Tag]
  <1>1. p \in Slot
    BY DEF Slot
  <1>2. Verified(t, p) \in [Slot -> Tag]
    BY <1>1, TagUpdate DEF Verified, KsmBits, FlagBit
  <1>3. ASSUME NEW v \in VM PROVE Mapped(t, p, v) \in [Slot -> Tag]
    <2>1. SetOwner(t, p, v) \in [Slot -> Tag]
      BY <1>1, TagUpdate
    <2>2. {"used"} \cup KsmBits(p) \in SUBSET FlagBit
      BY DEF KsmBits, FlagBit
    <2> QED
      BY <1>1, <2>1, <2>2, TagUpdate DEF Mapped
  <1>4. ASSUME NEW k \in Frame PROVE Merged(t, p, k) \in [Slot -> Tag]
    <2>1. k \in Slot /\ t[p].owner \in VM \cup {NoOwner, Foreign}
      BY <1>1 DEF Slot, Tag
    <2>2. SetOwner(t, k, t[p].owner) \in [Slot -> Tag]
      BY <2>1, TagUpdate
    <2>3. {"shared", "merged"} \in SUBSET FlagBit
      BY DEF FlagBit
    <2>4. MergeTag(t, p, k) \in [Slot -> Tag]
      BY <2>1, <2>2, <2>3, TagUpdate DEF MergeTag
    <2>5. [MergeTag(t, p, k) EXCEPT ![p] = Blank] \in [Slot -> Tag]
      BY <1>1, <2>4, TagUpdate DEF Cleaned
    <2> QED
      BY <2>5 DEF Merged
  <1>5. Cleaned(t, p) \in [Slot -> Tag] /\ Ballooned(t, p) \in [Slot -> Tag]
    BY <1>1, TagUpdate DEF Ballooned, FlagBit
  <1> QED
    BY <1>2, <1>3, <1>4, <1>5

\* VMs that leave frames: what remains is smaller, and stays in range.
LEMMA LeaveType ==
    ASSUME TypeOK, HostSound, NEW P, NEW S, Leave(P, S)
    PROVE  /\ back' \in [Frame -> SUBSET VM]
           /\ ept' \in [Frame -> SUBSET VM]
           /\ ksm' \subseteq ksm /\ balloon' \subseteq balloon
           /\ \A p \in Frame : back'[p] \subseteq back[p] /\ ept'[p] \subseteq ept[p]
           /\ \A p \in Frame : ept'[p] \subseteq back'[p]
           /\ \A p \in Frame : p \in ksm /\ p \notin ksm' => back'[p] = {}
  BY DEF TypeOK, HostSound, Leave

LEMMA InitIInv == Init => IInv
  <1> SUFFICES ASSUME Init PROVE IInv
    OBVIOUS
  <1>1. Blank \in Tag /\ Outside \in Tag
    BY DEF Blank, Outside, Tag, FlagBit
  <1>2. TypeOK
    BY <1>1 DEF Init, TypeOK, Pages
  <1>3. HostSound /\ PrivateIsExclusive
    BY DEF Init, HostSound, PrivateIsExclusive, Told
  <1> QED
    BY <1>2, <1>3 DEF IInv

\* Every step keeps the types.
LEMMA TypeStep == TypeOK /\ HostSound /\ [Next]_vars => TypeOK'
  <1> SUFFICES ASSUME TypeOK, HostSound, [Next]_vars PROVE TypeOK'
    OBVIOUS
  <1> USE DEF TypeOK
  <1>1. ASSUME NEW v \in VM, VmCreate(v) PROVE TypeOK'
    BY <1>1 DEF VmCreate, Pages
  <1>2. ASSUME NEW v \in VM, VmDestroy(v) PROVE TypeOK'
    BY <1>2, LeaveType DEF VmDestroy, Pages
  <1>3. ASSUME NEW v \in VM, NEW p \in Frame, Fault(v, p) PROVE TypeOK'
    <2>1. Verified(pageflag, p) \in [Slot -> Tag]
      BY HandlersType
    <2>2. Mapped(Verified(pageflag, p), p, v) \in [Slot -> Tag]
      BY <2>1, HandlersType
    <2> QED
      BY <1>3, <2>1, <2>2 DEF Fault, ResolveTo, Pages
  <1>4. ASSUME NEW v \in VM, NEW p \in Frame, Zap(v, p) PROVE TypeOK'
    BY <1>4 DEF Zap, Pages
  <1>5. ASSUME NEW v \in VM, NEW p \in Frame, Drop(v, p) PROVE TypeOK'
    BY <1>5, LeaveType DEF Drop, Pages
  <1>6. ASSUME NEW page \in Frame, NEW kpage \in Frame, KsmMerge(page, kpage)
        PROVE TypeOK'
    BY <1>6, HandlersType DEF KsmMerge, HostMerge, Pages
  <1>7. ASSUME NEW p \in Frame, KsmPromote(p) PROVE TypeOK'
    BY <1>7 DEF KsmPromote, Pages
  <1>8. ASSUME NEW p \in Frame, Reclaim(p) PROVE TypeOK'
    BY <1>8, LeaveType, HandlersType DEF Reclaim, HostReclaim, Pages
  <1>9. ASSUME NEW p \in Frame, Inflate(p) \/ Deflate(p) PROVE TypeOK'
    BY <1>9, HandlersType DEF Inflate, HostInflate, Deflate, HostDeflate, Pages
  <1>10. CASE UNCHANGED vars
    BY <1>10 DEF vars, Pages
  <1> QED
    BY <1>1, <1>2, <1>3, <1>4, <1>5, <1>6, <1>7, <1>8, <1>9, <1>10 DEF Next

\* Frames that only lose VMs, with tags untouched, stay exclusive.
LEMMA LeaveExclusive ==
    ASSUME IInv, NEW P, NEW S, Leave(P, S), UNCHANGED pageflag
    PROVE  PrivateIsExclusive'
  <1> SUFFICES ASSUME NEW p \in Told, ept'[p] # {}, ~Shared(p)'
               PROVE  \E v \in VM : ept'[p] = {v} /\ pageflag'[p].owner \in {v, NoOwner}
    BY DEF PrivateIsExclusive, Told
  <1>1. p \in Frame /\ ept'[p] \subseteq ept[p]
    BY LeaveType DEF IInv, Told
  <1>2. ept[p] # {} /\ ~Shared(p)
    BY <1>1 DEF Shared, Has
  <1>3. PICK v \in VM : ept[p] = {v} /\ pageflag[p].owner \in {v, NoOwner}
    BY <1>2 DEF IInv, PrivateIsExclusive
  <1> QED
    BY <1>1, <1>3

\* Leaving frames keeps the host sound.
LEMMA LeaveSound ==
    ASSUME TypeOK, HostSound, NEW P, NEW S, Leave(P, S),
           live' = live \/ (\E v \in VM : live' = live \ {v} /\ P = Frame /\ S = {v})
    PROVE  HostSound'
  <1>1. \A p \in Frame : ept'[p] \subseteq back'[p]
    BY LeaveType
  <1>2. \A p \in Frame : back'[p] \subseteq live'
    BY DEF TypeOK, HostSound, Leave
  <1>3. ASSUME NEW p \in Frame \ (ksm' \cup Common) PROVE \A v, w \in back'[p] : v = w
    <2>1. CASE p \in ksm
      BY <1>3, <2>1, LeaveType
    <2>2. CASE p \notin ksm
      BY <1>3, <2>2, LeaveType DEF HostSound
    <2> QED
      BY <2>1, <2>2
  <1> QED
    BY <1>1, <1>2, <1>3 DEF HostSound

\* Every step keeps the host sound.
LEMMA HostStep == TypeOK /\ HostSound /\ [Next]_vars => HostSound'
  <1> SUFFICES ASSUME TypeOK, HostSound, [Next]_vars PROVE HostSound'
    OBVIOUS
  <1>1. ASSUME NEW v \in VM, VmCreate(v) PROVE HostSound'
    BY <1>1 DEF VmCreate, HostSound
  <1>2. ASSUME NEW v \in VM, VmDestroy(v) PROVE HostSound'
    BY <1>2, LeaveSound DEF VmDestroy
  <1>3. ASSUME NEW v \in VM, NEW p \in Frame, Fault(v, p) PROVE HostSound'
    <2>1. CASE UNCHANGED <<live, back, ept, ksm>>
      BY <2>1 DEF HostSound
    <2>2. CASE /\ back' = [back EXCEPT ![p] = @ \cup {v}]
               /\ ept' = [ept EXCEPT ![p] = @ \cup {v}]
               /\ UNCHANGED <<live, ksm>>
      <3>1. v \in live /\ (v \in back[p] \/ back[p] = {} \/ p \in Common)
        BY <1>3 DEF Fault, ResolveTo, Owned
      <3>2. \A q \in Frame : ept'[q] \subseteq back'[q] /\ back'[q] \subseteq live'
        BY <2>2, <3>1 DEF HostSound, TypeOK
      <3>3. \A q \in Frame \ (ksm' \cup Common) : \A a, b \in back'[q] : a = b
        BY <2>2, <3>1 DEF HostSound, TypeOK
      <3> QED
        BY <3>2, <3>3 DEF HostSound
    <2> QED
      BY <1>3, <2>1, <2>2 DEF Fault, ResolveTo
  <1>4. ASSUME NEW v \in VM, NEW p \in Frame, Zap(v, p) PROVE HostSound'
    BY <1>4 DEF Zap, HostSound, TypeOK
  <1>5. ASSUME NEW v \in VM, NEW p \in Frame, Drop(v, p) PROVE HostSound'
    BY <1>5, LeaveSound DEF Drop
  <1>6. ASSUME NEW page \in Frame, NEW kpage \in Frame, KsmMerge(page, kpage)
        PROVE HostSound'
    BY <1>6 DEF KsmMerge, HostMerge, HostSound, TypeOK
  <1>7. ASSUME NEW p \in Frame, KsmPromote(p) PROVE HostSound'
    BY <1>7 DEF KsmPromote, HostSound
  <1>8. ASSUME NEW p \in Frame, Reclaim(p) PROVE HostSound'
    BY <1>8, LeaveSound DEF Reclaim, HostReclaim
  <1>9. ASSUME NEW p \in Frame, Inflate(p) \/ Deflate(p) PROVE HostSound'
    BY <1>9 DEF Inflate, HostInflate, Deflate, HostDeflate, HostSound
  <1>10. CASE UNCHANGED vars
    BY <1>10 DEF vars, HostSound
  <1> QED
    BY <1>1, <1>2, <1>3, <1>4, <1>5, <1>6, <1>7, <1>8, <1>9, <1>10 DEF Next

\* What a fault does to the tag of the frame it maps, and to every other tag.
LEMMA FaultTag ==
    ASSUME TypeOK, NEW v \in VM, NEW p \in Frame, ResolveTo(v, p)
    PROVE  /\ pageflag' = Mapped(Verified(pageflag, p), p, v)
           /\ back' = [back EXCEPT ![p] = @ \cup {v}]
           /\ ept' = [ept EXCEPT ![p] = @ \cup {v}]
           /\ \A q \in Slot : q # p => pageflag'[q] = pageflag[q]
           /\ p \in Tracked =>
                /\ pageflag'[p].owner = v
                /\ pageflag'[p].flag = pageflag[p].flag \cup {"used"} \cup KsmBits(p)
           /\ p \notin Tracked => pageflag' = pageflag
  <1>1. InTable(p) <=> p \in Tracked
    BY SizeAssumption DEF InTable, Tracked, Frame
  <1>2. Verdict(Verified(pageflag, p), p, v) = 0
    BY DEF Verdict, ForeignVerdict
  <1>3. /\ pageflag' = Mapped(Verified(pageflag, p), p, v)
        /\ back' = [back EXCEPT ![p] = @ \cup {v}]
        /\ ept' = [ept EXCEPT ![p] = @ \cup {v}]
    BY <1>2 DEF ResolveTo
  <1>4. p \in Slot /\ pageflag[p] \in Tag
    BY DEF TypeOK, Slot
  <1>5. ASSUME p \in Tracked
        PROVE  /\ \A q \in Slot : q # p => pageflag'[q] = pageflag[q]
               /\ pageflag'[p].owner = v
               /\ pageflag'[p].flag = pageflag[p].flag \cup {"used"} \cup KsmBits(p)
    <2> DEFINE t == AddFlags(pageflag, p, KsmBits(p))
               u == SetOwner(t, p, v)
    <2>1. pageflag' = AddFlags(u, p, {"used"} \cup KsmBits(p))
      BY <1>1, <1>3, <1>5 DEF Mapped, Verified
    <2>2. /\ t \in [Slot -> Tag]
          /\ t[p].flag = pageflag[p].flag \cup KsmBits(p)
          /\ \A q \in Slot : q # p => t[q] = pageflag[q]
      BY <1>4 DEF TypeOK, AddFlags, KsmBits, Tag, FlagBit
    <2>3. /\ u \in [Slot -> Tag]
          /\ u[p].flag = pageflag[p].flag \cup KsmBits(p) /\ u[p].owner = v
          /\ \A q \in Slot : q # p => u[q] = pageflag[q]
      <3> HIDE DEF t
      <3> QED
        BY <1>4, <2>2 DEF SetOwner, Tag
    <2> HIDE DEF u
    <2> QED
      BY <1>4, <2>1, <2>3 DEF AddFlags, Tag
  <1>6. p \notin Tracked => pageflag' = pageflag
    BY <1>1, <1>3 DEF Mapped, Verified
  <1> QED
    BY <1>3, <1>5, <1>6

\* What a merge makes of the tags.
LEMMA MergedTags ==
    ASSUME TypeOK, NEW page \in Frame, NEW kpage \in Frame, HostMerge(page, kpage),
           NEW new, new = Merged(pageflag, page, kpage)
    PROVE  /\ page # kpage
           /\ \A q \in Slot \ {page, kpage} : new[q] = pageflag[q]
           /\ new[page] \in {pageflag[page], Blank}
           /\ \/ new[kpage] = pageflag[kpage]
              \/ /\ kpage \in Tracked
                 /\ new[kpage].owner = pageflag[page].owner
                 /\ new[kpage].flag = pageflag[kpage].flag \cup {"shared", "merged"}
           /\ new[page] # pageflag[page] => page \in Tracked
  <1>1. page # kpage /\ page \in Slot /\ kpage \in Slot /\ kpage \in ksm
    BY DEF HostMerge, Slot
  <1>2. CASE MergeRange(page, kpage) /\ pageflag[page].owner # NoOwner
    <2> DEFINE t == SetOwner(pageflag, kpage, pageflag[page].owner)
               u == AddFlags(t, kpage, {"shared", "merged"})
    <2>1. new = [u EXCEPT ![page] = Blank]
      BY <1>1, <1>2 DEF Merged, MergeTag
    <2>2. pageflag[kpage] \in Tag /\ pageflag[page] \in Tag
      BY <1>1 DEF TypeOK
    <2>3. /\ t \in [Slot -> Tag]
          /\ t[kpage].flag = pageflag[kpage].flag
          /\ t[kpage].owner = pageflag[page].owner
          /\ \A q \in Slot : q # kpage => t[q] = pageflag[q]
      BY <1>1, <2>2 DEF TypeOK, SetOwner, Tag
    <2>4. /\ u \in [Slot -> Tag]
          /\ u[kpage].flag = pageflag[kpage].flag \cup {"shared", "merged"}
          /\ u[kpage].owner = pageflag[page].owner
          /\ \A q \in Slot : q # kpage => u[q] = pageflag[q]
      <3> HIDE DEF t
      <3> QED
        BY <1>1, <2>3 DEF AddFlags, Tag, FlagBit
    <2>5. kpage \in Tracked /\ page \in Tracked
      BY <1>2, SizeAssumption DEF MergeRange, Tracked, Frame, TypeOK, Pages, HostMerge
    <2> HIDE DEF u
    <2> QED
      BY <1>1, <2>1, <2>4, <2>5
  <1>3. CASE ~(MergeRange(page, kpage) /\ pageflag[page].owner # NoOwner)
    BY <1>1, <1>3 DEF Merged
  <1> QED
    BY <1>1, <1>2, <1>3

\* What a merge does to the tags, seen by a frame that stays mapped.
LEMMA MergeTags ==
    ASSUME TypeOK, NEW page \in Frame, NEW kpage \in Frame, KsmMerge(page, kpage)
    PROVE  /\ page # kpage
           /\ \A q \in Slot \ {page, kpage} : pageflag'[q] = pageflag[q]
           /\ pageflag'[page] \in {pageflag[page], Blank}
           /\ \/ pageflag'[kpage] = pageflag[kpage]
              \/ /\ kpage \in Tracked
                 /\ pageflag'[kpage].owner = pageflag[page].owner
                 /\ pageflag'[kpage].flag =
                        pageflag[kpage].flag \cup {"shared", "merged"}
           /\ pageflag'[page] # pageflag[page] => page \in Tracked
  BY MergedTags DEF KsmMerge

\* A fault makes a private frame the faulting VM's, or a KSM frame public.
LEMMA FaultExclusive ==
    ASSUME IInv, NEW v \in VM, NEW p \in Frame, Fault(v, p)
    PROVE  PrivateIsExclusive'
  <1> SUFFICES ASSUME NEW q \in Told, ept'[q] # {}, ~Shared(q)'
               PROVE  \E w \in VM : ept'[q] = {w} /\ pageflag'[q].owner \in {w, NoOwner}
    BY DEF PrivateIsExclusive, Told
  <1>1. q \in Frame /\ q \in Slot /\ q \in Tracked /\ q \notin Common
    BY DEF Told, Slot
  <1>2. ResolveTo(v, p)
    BY DEF Fault
  <1>3. CASE q # p
    BY <1>1, <1>2, <1>3, FaultTag DEF IInv, TypeOK, PrivateIsExclusive, Shared, Has
  <1>4. CASE q = p
    <2>1. pageflag'[p].owner = v /\ p \notin ksm /\ ept'[p] = ept[p] \cup {v}
      BY <1>1, <1>2, <1>4, FaultTag DEF IInv, TypeOK, Shared, Has, KsmBits
    <2>2. v \in back[p] \/ back[p] = {}
      BY <1>1, <1>4 DEF Fault, Owned
    <2>3. ept[p] \subseteq {v}
      BY <1>1, <1>4, <2>1, <2>2 DEF IInv, HostSound
    <2> QED
      BY <1>4, <2>1, <2>3
  <1> QED
    BY <1>3, <1>4

LEMMA MergeExclusive ==
    ASSUME IInv, NEW page \in Frame, NEW kpage \in Frame, KsmMerge(page, kpage)
    PROVE  PrivateIsExclusive'
  <1> SUFFICES ASSUME NEW q \in Told, ept'[q] # {}, ~Shared(q)'
               PROVE  \E w \in VM : ept'[q] = {w} /\ pageflag'[q].owner \in {w, NoOwner}
    BY DEF PrivateIsExclusive, Told
  <1>1. q \in Frame /\ q \in Slot
    BY DEF Told, Slot
  <1>2. q # page /\ ept'[q] = ept[q]
    BY <1>1 DEF KsmMerge, HostMerge, IInv, TypeOK
  <1>3. pageflag'[q] = pageflag[q]
    BY <1>1, <1>2, MergeTags DEF IInv, Shared, Has
  <1> QED
    BY <1>1, <1>2, <1>3 DEF IInv, PrivateIsExclusive, Shared, Has

\* The inductive step.
LEMMA StepIInv == IInv /\ [Next]_vars => IInv'
  <1> SUFFICES ASSUME IInv, [Next]_vars PROVE IInv'
    OBVIOUS
  <1>1. TypeOK' /\ HostSound'
    BY TypeStep, HostStep DEF IInv
  <1>2. ASSUME UNCHANGED <<pageflag, ept>> PROVE PrivateIsExclusive'
    BY <1>2 DEF IInv, PrivateIsExclusive, Shared, Has, Told
  <1>3. ASSUME NEW v \in VM, VmDestroy(v) PROVE PrivateIsExclusive'
    BY <1>3, LeaveExclusive DEF VmDestroy
  <1>4. ASSUME NEW v \in VM, NEW p \in Frame, Zap(v, p) PROVE PrivateIsExclusive'
    <2>1. \A q \in Frame : ept'[q] \subseteq ept[q]
      BY <1>4 DEF Zap, IInv, TypeOK
    <2> QED
      BY <1>4, <2>1 DEF Zap, IInv, PrivateIsExclusive, Shared, Has, Told
  <1>5. ASSUME NEW v \in VM, NEW p \in Frame, Drop(v, p) PROVE PrivateIsExclusive'
    BY <1>5, LeaveExclusive DEF Drop
  <1>6. ASSUME NEW p \in Frame, Reclaim(p) PROVE PrivateIsExclusive'
    <2>1. ept'[p] = {} /\ \A q \in Frame : q # p => ept'[q] = ept[q]
      BY <1>6 DEF Reclaim, HostReclaim, Leave, IInv, TypeOK
    <2>2. \A q \in Slot : q # p => pageflag'[q] = pageflag[q]
      BY <1>6 DEF Reclaim, HostReclaim, Cleaned, IInv, TypeOK
    <2> QED
      BY <2>1, <2>2 DEF IInv, PrivateIsExclusive, Shared, Has, Told, Slot
  <1>7. ASSUME NEW p \in Frame, Inflate(p) \/ Deflate(p) PROVE PrivateIsExclusive'
    <2>1. p \in Slot /\ ept' = ept
      BY <1>7 DEF Inflate, HostInflate, Deflate, HostDeflate, Slot
    <2>2. /\ \A q \in Slot : q # p => pageflag'[q] = pageflag[q]
          /\ pageflag'[p].flag = pageflag[p].flag /\ pageflag'[p].owner = NoOwner
      BY <1>7, <2>1
         DEF Inflate, HostInflate, Deflate, HostDeflate, Ballooned, SetOwner,
             IInv, TypeOK, Tag
    <2> QED
      BY <2>1, <2>2 DEF IInv, PrivateIsExclusive, Shared, Has, Told, Slot
  <1>8. PrivateIsExclusive'
    BY <1>2, <1>3, <1>4, <1>5, <1>6, <1>7, FaultExclusive, MergeExclusive
       DEF Next, VmCreate, KsmPromote, vars
  <1> QED
    BY <1>1, <1>8 DEF IInv

\* The table is well typed in every reachable state.
THEOREM TypeCorrect == Spec => []TypeOK
  <1>1. IInv => TypeOK
    BY DEF IInv
  <1> QED
    BY <1>1, InitIInv, StepIInv, PTL DEF Spec

\* A frame that is mapped and tagged private is mapped by one VM, the one the
\* tag names, or by one VM with the tag given to the hypervisor by a balloon.
THEOREM PrivateExclusive == Spec => []PrivateIsExclusive
  <1>1. IInv => PrivateIsExclusive
    BY DEF IInv
  <1> QED
    BY <1>1, InitIInv, StepIInv, PTL DEF Spec

\* A mapped frame carries the used bit.
LEMMA StepUsed == IInv /\ MappedIsUsed /\ [Next]_vars => MappedIsUsed'
  <1> SUFFICES ASSUME IInv, MappedIsUsed, [Next]_vars,
                      NEW q \in Frame \cap Tracked, ept'[q] # {}
               PROVE  "used" \in pageflag'[q].flag
    BY DEF MappedIsUsed, Has
  <1>1. q \in Frame /\ q \in Slot /\ q \in Tracked
    BY DEF Slot
  <1>2. ASSUME ept'[q] \subseteq ept[q], pageflag[q].flag \subseteq pageflag'[q].flag
        PROVE  "used" \in pageflag'[q].flag
    BY <1>2 DEF MappedIsUsed, Has
  <1>3. ASSUME NEW P, NEW S, Leave(P, S), pageflag' = pageflag
        PROVE  "used" \in pageflag'[q].flag
    BY <1>1, <1>2, <1>3, LeaveType DEF IInv
  <1>4. ASSUME NEW v \in VM, NEW p \in Frame, Fault(v, p)
        PROVE  "used" \in pageflag'[q].flag
    <2>1. ResolveTo(v, p)
      BY <1>4 DEF Fault
    <2> QED
      BY <1>1, <1>2, <2>1, FaultTag DEF IInv, TypeOK
  <1>5. ASSUME NEW v \in VM, NEW p \in Frame, Zap(v, p)
        PROVE  "used" \in pageflag'[q].flag
    BY <1>1, <1>2, <1>5 DEF Zap, IInv, TypeOK
  <1>6. ASSUME NEW page \in Frame, NEW kpage \in Frame, KsmMerge(page, kpage)
        PROVE  "used" \in pageflag'[q].flag
    <2>1. q # page /\ ept'[q] = ept[q]
      BY <1>1, <1>6 DEF KsmMerge, HostMerge, IInv, TypeOK
    <2>2. pageflag[q].flag \subseteq pageflag'[q].flag
      BY <1>1, <1>6, <2>1, MergeTags DEF IInv
    <2> QED
      BY <1>2, <2>1, <2>2
  <1>7. ASSUME NEW p \in Frame, Reclaim(p)
        PROVE  "used" \in pageflag'[q].flag
    <2>1. q # p /\ ept'[q] \subseteq ept[q]
      BY <1>1, <1>7 DEF Reclaim, HostReclaim, Leave, IInv, TypeOK
    <2>2. pageflag'[q] = pageflag[q]
      BY <1>1, <1>7, <2>1 DEF Reclaim, HostReclaim, Cleaned, IInv, TypeOK
    <2> QED
      BY <1>2, <2>1, <2>2
  <1>8. ASSUME NEW p \in Frame, Inflate(p) \/ Deflate(p)
        PROVE  "used" \in pageflag'[q].flag
    <2>1. pageflag'[q].flag = pageflag[q].flag
      BY <1>1, <1>8
         DEF Inflate, HostInflate, Deflate, HostDeflate, Ballooned, SetOwner,
             IInv, TypeOK, Tag
    <2> QED
      BY <1>2, <1>8, <2>1 DEF Inflate, HostInflate, Deflate, HostDeflate
  <1>9. CASE UNCHANGED <<pageflag, ept>>
    BY <1>2, <1>9
  <1> QED
    BY <1>3, <1>4, <1>5, <1>6, <1>7, <1>8, <1>9
       DEF Next, vars, VmCreate, VmDestroy, Drop, KsmPromote

\* Neither a reclaim nor a merge erases the tag of a frame still mapped.
THEOREM MappedUsed == Spec => []MappedIsUsed
  <1>1. Init => MappedIsUsed
    BY DEF Init, MappedIsUsed
  <1> QED
    BY <1>1, InitIInv, StepIInv, StepUsed, PTL DEF Spec

\* A private tag passes to a VM only while no other VM's EPT maps the frame.
LEMMA StepHandover ==
    ASSUME IInv, Next, NEW q \in Told,
           pageflag'[q].owner # pageflag[q].owner,
           pageflag'[q].owner \in VM, ~Shared(q)'
    PROVE  ept[q] \subseteq {pageflag'[q].owner}
  <1>1. q \in Frame /\ q \in Slot /\ q \in Tracked /\ q \notin Common
        /\ pageflag' # pageflag
    BY DEF Told, Slot
  <1>2. ASSUME NEW v \in VM, NEW p \in Frame, Fault(v, p)
        PROVE  ept[q] \subseteq {pageflag'[q].owner}
    <2>1. ResolveTo(v, p) /\ q = p /\ pageflag'[q].owner = v
      BY <1>1, <1>2, FaultTag DEF Fault, IInv
    <2>2. p \notin ksm /\ (v \in back[p] \/ back[p] = {})
      BY <1>1, <1>2, <2>1, FaultTag
         DEF IInv, Shared, Has, KsmBits, Fault, Owned
    <2> QED
      BY <1>1, <2>1, <2>2 DEF IInv, HostSound, TypeOK
  <1>3. ASSUME NEW page \in Frame, NEW kpage \in Frame, KsmMerge(page, kpage)
        PROVE  FALSE
    BY <1>1, <1>3, MergeTags, OwnerAssumption DEF IInv, Blank, Shared, Has
  <1>4. ASSUME NEW p \in Frame, Reclaim(p) PROVE FALSE
    BY <1>1, <1>4, OwnerAssumption
       DEF Reclaim, HostReclaim, Cleaned, Blank, IInv, TypeOK
  <1>5. ASSUME NEW p \in Frame, Inflate(p) \/ Deflate(p) PROVE FALSE
    BY <1>1, <1>5, OwnerAssumption
       DEF Inflate, HostInflate, Deflate, HostDeflate, Ballooned, SetOwner,
           IInv, TypeOK, Tag
  <1> QED
    BY <1>1, <1>2, <1>3, <1>4, <1>5
       DEF Next, VmCreate, VmDestroy, Zap, Drop, KsmPromote

\* A frame is tagged private for another VM only after the EPT of every other
\* one let go of it.
THEOREM Handover == Spec => HandoverUnmapped
  <1>1. IInv /\ [Next]_vars =>
          [\A p \in Told :
              /\ pageflag'[p].owner # pageflag[p].owner
              /\ pageflag'[p].owner \in VM
              /\ ~Shared(p)'
              => ept[p] \subseteq {pageflag'[p].owner}]_vars
    BY StepHandover
  <1> QED
    BY <1>1, InitIInv, StepIInv, PTL DEF Spec, HandoverUnmapped

\* Memory around the table is written only where the machine outgrows it.
LEMMA StepBounds == IInv /\ TableBounds /\ [Next]_vars => TableBounds'
  <1> SUFFICES ASSUME IInv, TableBounds, [Next]_vars, NEW q \in Slot \ Tracked
               PROVE  \/ pageflag'[q] = pageflag[q]
                      \/ ~(MaxPfn <= NumPfn) /\ pageflag'[q].owner = NoOwner
    BY OwnerAssumption DEF TableBounds
  <1>1. q \in Slot
    OBVIOUS
  <1>2. MaxPfn <= NumPfn => Pages \subseteq Tracked
    BY SizeAssumption DEF Pages, Frame, Tracked
  <1>3. ASSUME NEW v \in VM, NEW p \in Frame, Fault(v, p)
        PROVE  pageflag'[q] = pageflag[q]
    BY <1>1, <1>3, FaultTag DEF IInv, Fault
  <1>4. ASSUME NEW page \in Frame, NEW kpage \in Frame, KsmMerge(page, kpage)
        PROVE  pageflag'[q] = pageflag[q]
    BY <1>1, <1>4, MergeTags DEF IInv
  <1>5. ASSUME NEW p \in Frame, Reclaim(p)
        PROVE  \/ pageflag'[q] = pageflag[q]
               \/ ~(MaxPfn <= NumPfn) /\ pageflag'[q].owner = NoOwner
    <2>1. CASE q = p
      BY <1>1, <1>2, <1>5, <2>1 DEF Reclaim, HostReclaim, Cleaned, Blank, IInv, TypeOK
    <2>2. CASE q # p
      BY <1>1, <1>5, <2>2 DEF Reclaim, HostReclaim, Cleaned, IInv, TypeOK
    <2> QED
      BY <2>1, <2>2
  <1>6. ASSUME NEW p \in Frame, Inflate(p) \/ Deflate(p)
        PROVE  \/ pageflag'[q] = pageflag[q]
               \/ ~(MaxPfn <= NumPfn) /\ pageflag'[q].owner = NoOwner
    <2>1. p \in Pages
      BY <1>6 DEF Inflate, HostInflate, Deflate, HostDeflate, IInv, TypeOK
    <2>2. CASE q = p
      BY <1>1, <1>2, <1>6, <2>1, <2>2
         DEF Inflate, HostInflate, Deflate, HostDeflate, Ballooned, SetOwner,
             IInv, TypeOK, Tag
    <2>3. CASE q # p
      BY <1>1, <1>6, <2>3
         DEF Inflate, HostInflate, Deflate, HostDeflate, Ballooned, SetOwner,
             IInv, TypeOK
    <2> QED
      BY <2>2, <2>3
  <1> QED
    BY <1>3, <1>4, <1>5, <1>6
       DEF Next, vars, VmCreate, VmDestroy, Zap, Drop, KsmPromote

\* No handler tags memory outside the array, and where the array covers the
\* machine none writes there.
THEOREM BoundsKept == Spec => []TableBounds
  <1>1. Init => TableBounds
    BY OwnerAssumption DEF Init, TableBounds, Outside
  <1> QED
    BY <1>1, InitIInv, StepIInv, StepBounds, PTL DEF Spec

\* One frame's part in a step of the table is a step of FrameIsolation.
LEMMA FrameRefines ==
    ASSUME IInv, [Next]_vars, NEW q \in Told
    PROVE  \/ /\ ept'[q] \subseteq ept[q]
              /\ Shared(q) /\ ept'[q] # {} => Shared(q)'
           \/ /\ \E v \in VM : ept'[q] = ept[q] \cup {v}
              /\ Shared(q) => Shared(q)'
              /\ Shared(q)' \/ ept[q] = {}
  <1>1. q \in Frame /\ q \in Slot /\ q \in Tracked /\ q \notin Common
    BY DEF Told, Slot
  <1>2. ASSUME ept'[q] \subseteq ept[q], pageflag[q].flag \subseteq pageflag'[q].flag
        PROVE  ept'[q] \subseteq ept[q] /\ (Shared(q) => Shared(q)')
    BY <1>2 DEF Shared, Has
  <1>3. ASSUME NEW P, NEW S, Leave(P, S), pageflag' = pageflag
        PROVE  ept'[q] \subseteq ept[q] /\ (Shared(q) => Shared(q)')
    BY <1>1, <1>2, <1>3, LeaveType DEF IInv
  <1>4. ASSUME NEW v \in VM, NEW p \in Frame, Fault(v, p), q = p
        PROVE  /\ ept'[q] = ept[q] \cup {v}
               /\ Shared(q) => Shared(q)'
               /\ Shared(q)' \/ ept[q] = {} \/ ept'[q] = ept[q]
    <2>1. /\ ept'[q] = ept[q] \cup {v}
          /\ pageflag'[q].flag = pageflag[q].flag \cup {"used"} \cup KsmBits(q)
      BY <1>1, <1>4, FaultTag DEF Fault, IInv, TypeOK
    <2>2. q \in ksm => Shared(q)'
      BY <2>1 DEF Shared, Has, KsmBits
    <2>3. q \notin ksm => ept[q] \subseteq {v}
      BY <1>1, <1>4 DEF Fault, Owned, IInv, HostSound, TypeOK
    <2> QED
      BY <2>1, <2>2, <2>3 DEF Shared, Has
  <1>5. ASSUME NEW v \in VM, NEW p \in Frame, Fault(v, p), q # p
        PROVE  ept'[q] = ept[q] /\ (Shared(q) => Shared(q)')
    BY <1>1, <1>5, FaultTag DEF Fault, IInv, TypeOK, Shared, Has
  <1>6. ASSUME NEW v \in VM, NEW p \in Frame, Zap(v, p)
        PROVE  ept'[q] \subseteq ept[q] /\ (Shared(q) => Shared(q)')
    BY <1>1, <1>2, <1>6 DEF Zap, IInv, TypeOK
  <1>7. ASSUME NEW page \in Frame, NEW kpage \in Frame, KsmMerge(page, kpage)
        PROVE  /\ ept'[q] \subseteq ept[q]
               /\ Shared(q) /\ ept'[q] # {} => Shared(q)'
    <2>1. CASE q = page
      BY <1>1, <1>7, <2>1 DEF KsmMerge, HostMerge, IInv, TypeOK
    <2>2. CASE q # page
      BY <1>1, <1>2, <1>7, <2>2, MergeTags DEF KsmMerge, HostMerge, IInv, TypeOK
    <2> QED
      BY <2>1, <2>2
  <1>8. ASSUME NEW p \in Frame, Reclaim(p)
        PROVE  /\ ept'[q] \subseteq ept[q]
               /\ Shared(q) /\ ept'[q] # {} => Shared(q)'
    <2>1. ept'[q] \subseteq ept[q] /\ (q = p => ept'[q] = {})
      BY <1>1, <1>8 DEF Reclaim, HostReclaim, Leave, IInv, TypeOK
    <2>2. q # p => pageflag'[q] = pageflag[q]
      BY <1>1, <1>8 DEF Reclaim, HostReclaim, Cleaned, IInv, TypeOK
    <2> QED
      BY <2>1, <2>2 DEF Shared, Has
  <1>9. ASSUME NEW p \in Frame, Inflate(p) \/ Deflate(p)
        PROVE  ept'[q] \subseteq ept[q] /\ (Shared(q) => Shared(q)')
    <2>1. pageflag'[q].flag = pageflag[q].flag
      BY <1>1, <1>9
         DEF Inflate, HostInflate, Deflate, HostDeflate, Ballooned, SetOwner,
             IInv, TypeOK, Tag
    <2> QED
      BY <1>9, <2>1 DEF Inflate, HostInflate, Deflate, HostDeflate, Shared, Has
  <1>10. ASSUME UNCHANGED <<pageflag, ept>>
         PROVE  ept'[q] \subseteq ept[q] /\ (Shared(q) => Shared(q)')
    BY <1>10 DEF Shared, Has
  <1> QED
    BY <1>3, <1>4, <1>5, <1>6, <1>7, <1>8, <1>9, <1>10
       DEF Next, vars, VmCreate, VmDestroy, Drop, KsmPromote

\* The table implements FrameIsolation for every machine and table.
THEOREM Refinement == Spec => ImplementsIsolation
  <1>1. Init => Isolation!Init
    <2> SUFFICES ASSUME Init PROVE Isolation!Init
      OBVIOUS
    <2>1. ASSUME NEW p \in Told PROVE ept[p] = {} /\ ~Shared(p)
      <3>1. p \in Frame /\ p \in Slot /\ p \in Tracked
        BY DEF Told, Slot
      <3> QED
        BY <3>1 DEF Init, Shared, Has, Blank
    <2> QED
      BY <2>1 DEF Isolation!Init
  <1>2. IInv /\ [Next]_vars => Isolation!Next
    <2> SUFFICES ASSUME IInv, [Next]_vars PROVE Isolation!Next
      OBVIOUS
    <2>1. [p \in Told |-> ept[p]]' \in [Told -> SUBSET VM]
      <3>1. TypeOK'
        BY StepIInv DEF IInv
      <3> QED
        BY <3>1 DEF TypeOK, Told
    <2>2. {p \in Told : Shared(p)}' \in SUBSET Told
      BY DEF Told
    <2>3. ASSUME NEW q \in Told PROVE Isolation!Withdraw(q) \/ Isolation!Grant(q)
      BY FrameRefines DEF Isolation!Withdraw, Isolation!Grant, Told
    <2> QED
      BY <2>1, <2>2, <2>3 DEF Isolation!Next
  <1> QED
    BY <1>1, <1>2, InitIInv, StepIInv, PTL
       DEF Spec, ImplementsIsolation, Isolation!Spec
=============================================================================
