--------------------------- MODULE PageTableCopy ---------------------------
(***************************************************************************)
(* The page table functions of copy_pg.h, find.h, set_pgprot.h and         *)
(* set_pgprotrw.h: the copy of the kernel's page table that is to map the  *)
(* HyperMI world, its updates, the walk to an address and the walks that   *)
(* change write permissions.  copy_pagetable, cl_cp_pgtable,               *)
(* update_pagetable, update_pagetable2, find and set_pgtable_prot are      *)
(* exported; no code calls the others (my_init's call of set_pgd_cp is     *)
(* commented out).  Each is one step here: the kernel leaves its tables    *)
(* alone while one runs.                                                   *)
(*                                                                         *)
(* A table page is an array of entries, an entry a physical page number    *)
(* and some bits.  A walk or a copy is stated for all entries at once;     *)
(* PageTableLoops has the loops of the copy.                               *)
(***************************************************************************)
EXTENDS Integers

CONSTANTS
    K,          \* bound: entries of a table page (512), an even number
    MaxCopies,  \* bound: calls of the functions that copy tables
    MaxEdits,   \* bound: regions unmapped and walks that wipe entries
    Physical,   \* the physical pages
    Zero,       \* the one at physical address 0
    Root,       \* the pgd that read_cr3() names
    KernelPuds, \* the other pages of its tables, by level
    KernelPmds,
    KernelPtes,
    NoPage,
    Kernels     \* the contents of memory that a run starts with

Index == 0 .. K - 1
Call  == 1 .. MaxCopies

\* A page of get_zeroed_page is named by the call that asks for it and the
\* indices that lead to it; K stands for an index it does not have.
NewPgds == Call \X {K} \X {K} \X {K}
NewPuds == Call \X Index \X {K} \X {K}
NewPmds == Call \X Index \X Index \X {K}
NewPtes == Call \X Index \X Index \X Index

KernelPage == {Root} \cup KernelPuds \cup KernelPmds \cup KernelPtes
NewPage    == NewPgds \cup NewPuds \cup NewPmds \cup NewPtes
Page       == KernelPage \cup NewPage

Bit   == {"present", "rw", "large"}
Entry == [to : Physical, bits : SUBSET Bit]
Null  == [to |-> Zero, bits |-> {}]

UserHalf   == {i \in Index : i < K \div 2}
KernelHalf == {i \in Index : i >= K \div 2}

-----------------------------------------------------------------------------
(* Entries.  is_invalid looks at the address, not at the present bit; a    *)
(* large page at physical address 0 is invalid to it.                      *)

IsInvalid(e) == e.to = Zero
\* pmd_large tests the bit; pud_large the present bit too (see KernelTables).
IsLarge(e)   == "large" \in e.bits
IsTable(e)   == ~IsInvalid(e) /\ ~IsLarge(e)
Present(e)   == "present" \in e.bits

GetFlagWide(e) == e.bits \cup {"address"}      \* mutant: the mask too wide
GetFlag(e)     == e.bits

\* The copy's entry for e: the new page, with e's flags.
Redirected(e, page) == [to |-> page, bits |-> GetFlag(e)]

MakeRw(e) == [e EXCEPT !.bits = @ \cup {"rw"}]

\* The entries that the code or the processor follows to a table, and where
\* those of the pages P lead in a memory m.
Leads(e)         == ~IsLarge(e) /\ (Present(e) \/ ~IsInvalid(e))
LeadTo(m, P, Q)  == \A p \in P, i \in Index : Leads(m[p][i]) => m[p][i].to \in Q

\* The kernel's own tables: a page serves one level, no entry of the pgd is
\* large (the processor reserves that bit), and huge pages are present.
KernelTables(m) ==
    /\ \A i \in Index : ~IsLarge(m[Root][i])
    /\ \A p \in KernelPuds, i \in Index : IsLarge(m[p][i]) => Present(m[p][i])
    /\ LeadTo(m, {Root}, KernelPuds)
    /\ LeadTo(m, KernelPuds, KernelPmds)
    /\ LeadTo(m, KernelPmds, KernelPtes)

ASSUME SizeAssumption == K \in Nat \ {0} /\ K % 2 = 0
ASSUME BoundAssumption == MaxCopies \in Nat /\ MaxEdits \in Nat
ASSUME PageAssumption ==
    /\ Page \subseteq Physical
    /\ Zero \in Physical \ Page
    /\ NoPage \notin Physical
    /\ KernelPage \cap NewPage = {}
    /\ Root \notin KernelPuds \cup KernelPmds \cup KernelPtes
ASSUME KernelsAssumption ==
    \A m \in Kernels :
       /\ m \in [Page -> [Index -> Entry]]
       /\ KernelTables(m)
       /\ \A p \in NewPage, i \in Index : m[p][i] = Null

VARIABLES
    mem,        \* the table pages
    calls,      \* of the functions that copy tables
    copy,       \* pgd_addr_cp
    synced,     \* history: update_pagetable ran after the last deep copy
    edits       \* counts up to MaxEdits

vars == <<mem, calls, copy, synced, edits>>

Init ==
    /\ mem \in Kernels
    /\ calls = 0
    /\ copy = NoPage
    /\ synced = FALSE
    /\ edits = 0

-----------------------------------------------------------------------------
(* The deep copy that call n makes in memory m, by what each new page ends *)
(* up with; PageTableLoops has the loops that get there.                   *)

OldPud(m, i1)     == m[m[Root][i1].to]
OldPmd(m, i1, i2) == m[OldPud(m, i1)[i2].to]
OldPte(m, i1, i2, i3) == m[OldPmd(m, i1, i2)[i3].to]

CopiedPgd(m, n, i1) ==
    LET e == m[Root][i1]
    IN  IF IsInvalid(e) THEN e ELSE Redirected(e, <<n, i1, K, K>>)

CopiedPud(m, n, i1, i2) ==
    LET e == OldPud(m, i1)[i2]
    IN  IF IsTable(e) THEN Redirected(e, <<n, i1, i2, K>>) ELSE e

\* The entry of the old pmd page that the last store to new entry i3 is made
\* from.  For a table set_pmd(pmd_new+i2, ...) follows the assignment to
\* pmd_new[i3], so every table stores to entry i2 as well as to its own.
Greatest(S) == CHOOSE j \in S : \A k \in S : k <= j
StoresTo(old, i2, i3) == {j \in Index : j = i3 \/ (i3 = i2 /\ IsTable(old[j]))}
LastStored(old, i2, i3) == Greatest(StoresTo(old, i2, i3))

\* Mutant: the page of ptes shared with the original.
CopiedPmdShared(m, n, i1, i2, i3) ==
    LET e == OldPmd(m, i1, i2)[i3] IN IF IsInvalid(e) THEN Null ELSE e

CopiedPmd(m, n, i1, i2, i3) ==
    LET j == LastStored(OldPmd(m, i1, i2), i2, i3)
        e == OldPmd(m, i1, i2)[j]
    IN  IF IsInvalid(e)    THEN Null
        ELSE IF IsLarge(e) THEN e
        ELSE Redirected(e, <<n, i1, i2, j>>)

\* The pages the call asks get_zeroed_page for, which is asked again until it
\* succeeds.
FreshPuds(m, n, half) ==
    {p \in NewPuds : p[1] = n /\ p[2] \in half /\ ~IsInvalid(m[Root][p[2]])}
FreshPmds(m, n, half) ==
    {p \in NewPmds : /\ <<n, p[2], K, K>> \in FreshPuds(m, n, half)
                     /\ p[1] = n /\ IsTable(OldPud(m, p[2])[p[3]])}
FreshPtes(m, n, half) ==
    {p \in NewPtes : /\ <<n, p[2], p[3], K>> \in FreshPmds(m, n, half)
                     /\ p[1] = n /\ IsTable(OldPmd(m, p[2], p[3])[p[4]])}

CopyHalf(m, n, pgd, half) ==
    [p \in Page |->
        IF p = pgd
        THEN [i \in Index |-> IF i \in half THEN CopiedPgd(m, n, i) ELSE m[p][i]]
        ELSE IF p \in FreshPuds(m, n, half)
        THEN [i \in Index |-> CopiedPud(m, n, p[2], i)]
        ELSE IF p \in FreshPmds(m, n, half)
        THEN [i \in Index |-> CopiedPmd(m, n, p[2], p[3], i)]
        ELSE IF p \in FreshPtes(m, n, half)
        THEN OldPte(m, p[2], p[3], p[4])
        ELSE m[p]]

\* copy_pagetable, copy_pagetable_half and copy_pagetable_half2.
NewRoot(n)                  == <<n, K, K, K>>
CopyPagetable(m, n)         == CopyHalf(m, n, NewRoot(n), KernelHalf)
CopyPagetableHalf(m, n, p)  == CopyHalf(m, n, p, KernelHalf)
CopyPagetableHalf2(m, n, p) == CopyHalf(m, n, p, UserHalf)

-----------------------------------------------------------------------------
(* The walk to an address a = <<i1, i2, i3, i4>>.                          *)

Address == Index \X Index \X Index \X Index
UserAddress   == {a \in Address : a[1] < K \div 2}
KernelAddress == {a \in Address : a[1] >= K \div 2}

\* The entries on the way that find stores to: each valid one, and the pte,
\* valid or not.
Visited(m, a) ==
    LET e1 == m[Root][a[1]]
        e2 == m[e1.to][a[2]]
        e3 == m[e2.to][a[3]]
        entry(on, p, i) == IF on THEN {<<p, i>>} ELSE {}
    IN  entry(~IsInvalid(e1), Root, a[1])
        \cup entry(IsTable(e1) /\ ~IsInvalid(e2), e1.to, a[2])
        \cup entry(IsTable(e1) /\ IsTable(e2) /\ ~IsInvalid(e3), e2.to, a[3])
        \cup entry(IsTable(e1) /\ IsTable(e2) /\ IsTable(e3), e3.to, a[4])

\* Mutant: the line that is commented out, "pmd &= 0xfff", for a large page.
FindMasked(m, a) ==
    [p \in Page |-> [i \in Index |->
        IF <<p, i>> \notin Visited(m, a) THEN m[p][i]
        ELSE IF IsLarge(m[p][i]) THEN [m[p][i] EXCEPT !.to = Zero] ELSE MakeRw(m[p][i])]]
Find(m, a) ==
    [p \in Page |-> [i \in Index |->
        IF <<p, i>> \in Visited(m, a) THEN MakeRw(m[p][i]) ELSE m[p][i]]]

-----------------------------------------------------------------------------
(* The pages of a kernel half, level by level, and the walks over them.    *)

TablesOf(m, p, is) == {m[p][i].to : i \in {j \in is : IsTable(m[p][j])}}
PudPages(m, root)  == TablesOf(m, root, KernelHalf)
PmdPages(m, root)  == UNION {TablesOf(m, p, Index) : p \in PudPages(m, root)}
PtePages(m, root)  == UNION {TablesOf(m, p, Index) : p \in PmdPages(m, root)}
KernelPages(m, root) == PudPages(m, root) \cup PmdPages(m, root) \cup PtePages(m, root)

\* Those reached through a pud entry that is writable.
WritablePmds(m, root) ==
    UNION {TablesOf(m, p, {i \in Index : "rw" \in m[p][i].bits}) : p \in PudPages(m, root)}

\* op on every valid entry of the pages P.
OnValid(m, P, op(_)) ==
    [p \in Page |-> [i \in Index |->
        IF p \in P /\ ~IsInvalid(m[p][i]) THEN op(m[p][i]) ELSE m[p][i]]]

ClearRwAnd(e) == Null           \* mutant: "&=" for "&", as in Wipe
ClearRw(e)   == [e EXCEPT !.bits = @ \ {"rw"}]

\* "(x &= _PAGE_RW) == _PAGE_RW" leaves the bit alone of x, and "^=" takes it.
Wipe(e) == Null

\* set_pgtable_prot: every leaf of the kernel half.
WipeLeaves(m, root) ==
    LET wipe(e) == IF IsLarge(e) THEN Wipe(e) ELSE e
        large   == OnValid(m, PudPages(m, root) \cup PmdPages(m, root), wipe)
    IN  OnValid(large, PtePages(m, root), Wipe)

\* set_pgtable_prot2 and set_pgtable_prot3: the entries of the pgd.
OnPgd(m, root, op(_)) ==
    [m EXCEPT ![root] = [i \in Index |->
        IF i \in KernelHalf /\ ~IsInvalid(m[root][i]) THEN op(m[root][i]) ELSE m[root][i]]]

-----------------------------------------------------------------------------
(* What the module calls.                                                  *)

\* set_pgd_cp: copy_pagetable, then clear_newpgd_addr, which finds the address
\* of the new pgd in the kernel's table, wherever that maps it, and clears the
\* pte in its own copy of it.
SetPgdCp(a) ==
    /\ copy = NoPage
    /\ calls < MaxCopies
    /\ calls' = calls + 1
    /\ mem' = Find(CopyPagetable(mem, calls'), a)
    /\ copy' = NewRoot(calls')
    /\ UNCHANGED <<synced, edits>>

\* cp_old_pg_half.
CpOldPgHalf ==
    /\ copy # NoPage
    /\ calls < MaxCopies
    /\ calls' = calls + 1
    /\ mem' = CopyPagetableHalf(mem, calls', copy)
    /\ synced' = FALSE
    /\ UNCHANGED <<copy, edits>>

\* update_pagetable assigns the pgd entry before it asks whether the new one is
\* invalid, so it never goes deeper.
UpdatePagetable ==
    /\ copy # NoPage
    /\ mem' = [mem EXCEPT ![copy] = [i \in Index |->
                  IF i \in KernelHalf THEN mem[Root][i] ELSE mem[copy][i]]]
    /\ synced' = TRUE
    /\ UNCHANGED <<calls, copy, edits>>

UpdatePagetable2 ==
    /\ copy # NoPage
    /\ calls < MaxCopies
    /\ calls' = calls + 1
    /\ mem' = CopyPagetableHalf2(mem, calls', copy)
    /\ UNCHANGED <<copy, synced, edits>>

\* The permission walks, on the kernel's table or the copy.
Roots == {Root} \cup ({copy} \ {NoPage})
Protect(m) == mem' = m /\ UNCHANGED <<calls, copy, synced, edits>>
Edit(m)    == edits < MaxEdits /\ edits' = edits + 1 /\ mem' = m /\ UNCHANGED <<calls, copy>>

SetPgtableProt(root)  == Edit(WipeLeaves(mem, root)) /\ UNCHANGED synced
SetPgtableProt2(root) ==
    /\ Edit(OnPgd(mem, root, Wipe))
    /\ synced' = FALSE
SetPgtableProt3(root) == Protect(OnPgd(mem, root, MakeRw))
SetPgtableProt4(root) == Protect(OnValid(mem, PmdPages(mem, root), ClearRw))
SetPgtableProt5(root) == Protect(OnValid(mem, WritablePmds(mem, root), MakeRw))
SetPgtableProt6(root) == Protect(OnValid(mem, WritablePmds(mem, root), MakeRw))

\* The kernel unmaps a region of its own.
Unmap(p, i) ==
    /\ p \in PudPages(mem, Root) \cup PmdPages(mem, Root)
    /\ mem[p][i] # Null
    /\ Edit([mem EXCEPT ![p][i] = Null])
    /\ UNCHANGED synced

Walk(root) ==
    \/ SetPgtableProt3(root) \/ SetPgtableProt4(root)
    \/ SetPgtableProt5(root) \/ SetPgtableProt6(root)
Copying ==
    \/ \E a \in KernelAddress : SetPgdCp(a)
    \/ CpOldPgHalf \/ UpdatePagetable \/ UpdatePagetable2

Next ==
    \/ Copying
    \/ \E root \in Roots : Walk(root) \/ SetPgtableProt(root) \/ SetPgtableProt2(root)
    \/ \E p \in Page, i \in Index : Unmap(p, i)

Spec == Init /\ [][Next]_vars

-----------------------------------------------------------------------------
(* The reference: what the processor makes of a table.                     *)

\* A page is writable if the entry of every level says so.
Descend(m, e, i) ==
    IF Present(e) /\ ~IsLarge(e)
    THEN [m[e.to][i] EXCEPT !.bits = @ \ ({"rw"} \ e.bits)]
    ELSE e
Leaf(m, root, a) ==
    Descend(m, Descend(m, Descend(m, m[root][a[1]], a[2]), a[3]), a[4])

Translate(m, root, a) ==
    LET e == Leaf(m, root, a) IN IF Present(e) THEN e.to ELSE NoPage

TypeOK ==
    /\ mem \in [Page -> [Index -> Entry]]
    /\ calls \in 0 .. MaxCopies
    /\ copy \in {NoPage} \cup NewPgds
    /\ synced \in BOOLEAN
    /\ edits \in 0 .. MaxEdits

\* What a copy does not carry over: a pmd entry with the index of its pud, if
\* one behind it leads to a table too (set_pmd(pmd_new+i2, ...)), and a large page
\* at physical address 0 (pmd_new[i3].pmd = 0x0).
Lost(m, a) ==
    /\ IsTable(m[Root][a[1]])
    /\ IsTable(OldPud(m, a[1])[a[2]])
    /\ LET old == OldPmd(m, a[1], a[2])
       IN  \/ a[2] = a[3] /\ \E j \in Index : j > a[3] /\ IsTable(old[j])
           \/ IsLarge(old[a[3]]) /\ IsInvalid(old[a[3]])

\* A copy maps its addresses as the original does, with the same right to write
\* and not at all where the original does not, but for those.
MapsAsRoot(m, pgd, As) ==
    \A a \in As :
       ~Lost(mem, a)
       => /\ Translate(m, pgd, a) = Translate(mem, Root, a)
          /\ Translate(mem, Root, a) # NoPage
             => Leaf(m, pgd, a) = Leaf(mem, Root, a)

\* So does one made now, of the whole kernel half or of either half into a copy
\* there is, whatever has been unmapped, protected and copied before.
CopyTranslates ==
    LET n == calls + 1 IN
    calls < MaxCopies =>
       /\ MapsAsRoot(CopyPagetable(mem, n), NewRoot(n), KernelAddress)
       /\ copy # NoPage =>
          /\ MapsAsRoot(CopyPagetableHalf(mem, n, copy), copy, KernelAddress)
          /\ MapsAsRoot(CopyPagetableHalf2(mem, n, copy), copy, UserAddress)

\* After a deep copy the two tables share no page of the kernel half, so what
\* the kernel unmaps stays mapped in the copy; after update_pagetable they
\* agree on every kernel address, and go on agreeing as the kernel unmaps.
ApartOrInSync ==
    copy # NoPage =>
        IF synced
        THEN \A a \in KernelAddress : Translate(mem, copy, a) = Translate(mem, Root, a)
        ELSE KernelPages(mem, copy) \cap KernelPages(mem, Root) = {}

\* No function that copies changes what the kernel's own table maps.  The walk of
\* clear_newpgd_addr through it may set write bits (find), so a page can become
\* writable that was not; nothing else changes, and nothing at all in the
\* functions that go on with a copy there is.
OriginalKept ==
    [][Copying =>
          /\ \A a \in Address : Translate(mem', Root, a) = Translate(mem, Root, a)
          /\ \A p \in KernelPage, i \in Index :
                mem'[p][i] # mem[p][i] => copy = NoPage /\ mem'[p][i] = MakeRw(mem[p][i])]_vars

\* The walks that set or clear the write bit (set_pgtable_prot3 to 6) change no
\* translation, in the table they walk and in the other.
WalksKeepMappings ==
    [][(\E root \in Roots : Walk(root)) =>
          \A root \in Roots, a \in Address : Translate(mem', root, a) = Translate(mem, root, a)]_vars

-----------------------------------------------------------------------------
(* What the documents say of it, and the code does not do.                 *)

\* Paper, section III-C: "all address is mapped in HyperMI page table".
AllAddressIsMapped ==
    copy # NoPage => \A a \in KernelAddress :
        Translate(mem, Root, a) # NoPage
        => Translate(mem, copy, a) = Translate(mem, Root, a)

=============================================================================
