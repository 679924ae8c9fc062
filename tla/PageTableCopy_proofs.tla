------------------------ MODULE PageTableCopy_proofs ------------------------
(***************************************************************************)
(* Proofs about PageTableCopy, for tables of any even size, any number of  *)
(* copies and any kernel whose tables are well formed.                     *)
(*                                                                         *)
(* The invariant keeps the pages level by level: what an entry leads to is *)
(* a page of the next level, the kernel's own lead to the kernel's own,    *)
(* and those below the pgd of a copy to pages of the copy.                 *)
(***************************************************************************)
EXTENDS PageTableCopy, NaturalsInduction, WellFoundedInduction, TLAPS

SameButRw(e, f) == e.to = f.to /\ e.bits \ {"rw"} = f.bits \ {"rw"}

Memory == [Page -> [Index -> Entry]]

Linked(m) ==
    /\ KernelTables(m)
    /\ \A p \in NewPgds, i \in Index : ~IsLarge(m[p][i])
    /\ LeadTo(m, NewPgds, KernelPuds \cup NewPuds)
    /\ LeadTo(m, NewPuds, NewPmds)
    /\ LeadTo(m, NewPmds, NewPtes)

\* The kernel half of the copy is the original's after update_pagetable; else
\* it leads to pages of its own, but for a set_pgtable_prot2 that left the
\* original none.
InStep ==
    /\ copy = NoPage => ~synced
    /\ copy # NoPage =>
        IF synced
        THEN \A i \in KernelHalf : SameButRw(mem[copy][i], mem[Root][i])
        ELSE \/ \A i \in KernelHalf : IsInvalid(mem[Root][i])
             \/ \A i \in KernelHalf : ~IsInvalid(mem[copy][i]) => mem[copy][i].to \in NewPuds

\* The inductive invariant.
IInv == TypeOK /\ Linked(mem) /\ InStep

-----------------------------------------------------------------------------
(* The pages and their entries.                                            *)

LEMMA Halves == KernelHalf \subseteq Index /\ UserHalf \subseteq Index
BY DEF KernelHalf, UserHalf

LEMMA Levels ==
    /\ NewPgds \cap (NewPuds \cup NewPmds \cup NewPtes) = {}
    /\ NewPuds \cap (NewPmds \cup NewPtes) = {}
    /\ NewPmds \cap NewPtes = {}
    /\ Root \in KernelPage /\ Root \in Page
    /\ KernelPuds \cup KernelPmds \cup KernelPtes \subseteq Page
    /\ NewPgds \cup NewPuds \cup NewPmds \cup NewPtes \subseteq Page
    /\ Zero \notin Page /\ NoPage \notin Page
<1>1. K \notin Index
  BY SizeAssumption DEF Index
<1>2. /\ NewPgds \cap (NewPuds \cup NewPmds \cup NewPtes) = {}
      /\ NewPuds \cap (NewPmds \cup NewPtes) = {}
      /\ NewPmds \cap NewPtes = {}
  BY <1>1 DEF NewPgds, NewPuds, NewPmds, NewPtes
<1>. QED
  BY <1>2, PageAssumption DEF Page, NewPage, KernelPage

LEMMA Names ==
    ASSUME NEW n \in Call, NEW i1 \in Index, NEW i2 \in Index, NEW i3 \in Index
    PROVE  /\ NewRoot(n) \in NewPgds
           /\ <<n, i1, K, K>> \in NewPuds
           /\ <<n, i1, i2, K>> \in NewPmds
           /\ <<n, i1, i2, i3>> \in NewPtes
BY DEF NewRoot, NewPgds, NewPuds, NewPmds, NewPtes

LEMMA NullFacts == Null \in Entry /\ IsInvalid(Null) /\ ~Leads(Null) /\ ~IsLarge(Null)
BY PageAssumption DEF Null, Entry, IsInvalid, Leads, IsLarge, Present, Bit

LEMMA SameFacts ==
    ASSUME NEW e, NEW f, SameButRw(e, f)
    PROVE  /\ e.to = f.to
           /\ IsInvalid(e) <=> IsInvalid(f)
           /\ IsLarge(e) <=> IsLarge(f)
           /\ Present(e) <=> Present(f)
           /\ Leads(e) <=> Leads(f)
<1>1. "present" \in e.bits <=> "present" \in f.bits
  BY DEF SameButRw
<1>2. "large" \in e.bits <=> "large" \in f.bits
  BY DEF SameButRw
<1>. QED
  BY <1>1, <1>2 DEF SameButRw, IsInvalid, IsLarge, Present, Leads

LEMMA RwFacts ==
    ASSUME NEW e \in Entry
    PROVE  /\ MakeRw(e) \in Entry /\ SameButRw(e, MakeRw(e))
           /\ ClearRw(e) \in Entry /\ SameButRw(e, ClearRw(e))
           /\ SameButRw(e, e)
<1>1. /\ MakeRw(e) = [to |-> e.to, bits |-> e.bits \cup {"rw"}]
      /\ ClearRw(e) = [to |-> e.to, bits |-> e.bits \ {"rw"}]
  BY DEF Entry, MakeRw, ClearRw
<1>. QED
  BY <1>1 DEF Entry, Bit, SameButRw

LEMMA RedirectedFacts ==
    ASSUME NEW e \in Entry, NEW p \in Page
    PROVE  /\ Redirected(e, p) \in Entry
           /\ Redirected(e, p).to = p /\ Redirected(e, p).bits = e.bits
           /\ ~IsInvalid(Redirected(e, p))
BY PageAssumption DEF Entry, Redirected, GetFlag, IsInvalid

-----------------------------------------------------------------------------
(* Memories that differ in write permissions and wiped entries only.       *)

Weaker(m, m2) ==
    \A p \in Page, i \in Index : m2[p][i] = Null \/ SameButRw(m[p][i], m2[p][i])

LEMMA WeakerLinked ==
    ASSUME NEW m, NEW m2, Linked(m), Weaker(m, m2)
    PROVE  Linked(m2)
<1>1. ASSUME NEW p \in Page, NEW i \in Index
      PROVE  /\ Leads(m2[p][i]) => Leads(m[p][i]) /\ m2[p][i].to = m[p][i].to
             /\ IsLarge(m2[p][i]) => IsLarge(m[p][i])
             /\ IsLarge(m2[p][i]) /\ Present(m[p][i]) => Present(m2[p][i])
  BY SameFacts, NullFacts DEF Weaker
<1>2. ASSUME NEW P, NEW Q, P \subseteq Page, LeadTo(m, P, Q)
      PROVE  LeadTo(m2, P, Q)
  BY <1>1, <1>2 DEF LeadTo
<1>3. KernelTables(m2)
  BY <1>1, <1>2, Levels DEF Linked, KernelTables
<1>. QED
  BY <1>1, <1>2, <1>3, Levels DEF Linked

-----------------------------------------------------------------------------
(* The deep copy.                                                          *)

\* What CopyHalf leaves in each page, level by level.
IsCopy(c, m, n, pgd, half) ==
    /\ c = [p \in Page |-> c[p]]
    /\ \A p \in KernelPage : c[p] = m[p]
    /\ \A p \in NewPgds :
          c[p] = IF p = pgd
                 THEN [i \in Index |-> IF i \in half THEN CopiedPgd(m, n, i) ELSE m[p][i]]
                 ELSE m[p]
    /\ \A p \in NewPuds :
          c[p] = IF p \in FreshPuds(m, n, half)
                 THEN [i \in Index |-> CopiedPud(m, n, p[2], i)] ELSE m[p]
    /\ \A p \in NewPmds :
          c[p] = IF p \in FreshPmds(m, n, half)
                 THEN [i \in Index |-> CopiedPmd(m, n, p[2], p[3], i)] ELSE m[p]
    /\ \A p \in NewPtes :
          c[p] = IF p \in FreshPtes(m, n, half)
                 THEN OldPte(m, p[2], p[3], p[4]) ELSE m[p]

LEMMA CopyPages ==
    ASSUME NEW m, NEW n, NEW pgd \in NewPgds, NEW half
    PROVE  IsCopy(CopyHalf(m, n, pgd, half), m, n, pgd, half)
<1>. DEFINE c == CopyHalf(m, n, pgd, half)
<1>1. /\ FreshPuds(m, n, half) \subseteq NewPuds
      /\ FreshPmds(m, n, half) \subseteq NewPmds
      /\ FreshPtes(m, n, half) \subseteq NewPtes
  BY DEF FreshPuds, FreshPmds, FreshPtes
<1>2. NewPage \cap KernelPage = {} /\ NewPgds \cup NewPuds \cup NewPmds \cup NewPtes = NewPage
  BY PageAssumption DEF NewPage
<1>3. c = [p \in Page |-> c[p]]
  BY DEF CopyHalf
<1>4. \A p \in Page : c[p] =
        IF p = pgd
        THEN [i \in Index |-> IF i \in half THEN CopiedPgd(m, n, i) ELSE m[p][i]]
        ELSE IF p \in FreshPuds(m, n, half)
        THEN [i \in Index |-> CopiedPud(m, n, p[2], i)]
        ELSE IF p \in FreshPmds(m, n, half)
        THEN [i \in Index |-> CopiedPmd(m, n, p[2], p[3], i)]
        ELSE IF p \in FreshPtes(m, n, half)
        THEN OldPte(m, p[2], p[3], p[4])
        ELSE m[p]
  BY DEF CopyHalf
<1>. HIDE DEF c
<1>5. \A p \in KernelPage : c[p] = m[p]
  BY <1>1, <1>2, <1>4 DEF Page
<1>6. /\ \A p \in NewPgds :
          c[p] = IF p = pgd
                 THEN [i \in Index |-> IF i \in half THEN CopiedPgd(m, n, i) ELSE m[p][i]]
                 ELSE m[p]
      /\ \A p \in NewPuds :
          c[p] = IF p \in FreshPuds(m, n, half)
                 THEN [i \in Index |-> CopiedPud(m, n, p[2], i)] ELSE m[p]
      /\ \A p \in NewPmds :
          c[p] = IF p \in FreshPmds(m, n, half)
                 THEN [i \in Index |-> CopiedPmd(m, n, p[2], p[3], i)] ELSE m[p]
      /\ \A p \in NewPtes :
          c[p] = IF p \in FreshPtes(m, n, half)
                 THEN OldPte(m, p[2], p[3], p[4]) ELSE m[p]
  BY <1>1, <1>4, Levels
<1>7. IsCopy(c, m, n, pgd, half)
  BY <1>3, <1>5, <1>6 DEF IsCopy
<1>. QED
  BY <1>7 DEF c

\* What the indices in a fresh page's name lead to in the original.
LEMMA FreshPages ==
    ASSUME NEW m \in Memory, KernelTables(m), NEW n \in Call, NEW half, half \subseteq Index
    PROVE  /\ \A p \in FreshPuds(m, n, half) :
                 /\ p[2] \in half /\ ~IsInvalid(m[Root][p[2]])
                 /\ m[Root][p[2]].to \in KernelPuds
           /\ \A p \in FreshPmds(m, n, half) :
                 /\ p[2] \in half /\ p[3] \in Index /\ ~IsInvalid(m[Root][p[2]])
                 /\ m[Root][p[2]].to \in KernelPuds
                 /\ IsTable(OldPud(m, p[2])[p[3]])
                 /\ OldPud(m, p[2])[p[3]].to \in KernelPmds
           /\ \A p \in FreshPtes(m, n, half) :
                 /\ p[2] \in half /\ p[3] \in Index /\ p[4] \in Index
                 /\ OldPud(m, p[2])[p[3]].to \in KernelPmds
                 /\ OldPmd(m, p[2], p[3])[p[4]].to \in KernelPtes
<1>1. ASSUME NEW i \in half, ~IsInvalid(m[Root][i])
      PROVE  m[Root][i].to \in KernelPuds
  BY <1>1 DEF KernelTables, LeadTo, Leads
<1>2. ASSUME NEW i \in half, NEW j \in Index, ~IsInvalid(m[Root][i]), IsTable(OldPud(m, i)[j])
      PROVE  OldPud(m, i)[j].to \in KernelPmds
  BY <1>1, <1>2 DEF KernelTables, LeadTo, Leads, IsTable, OldPud
<1>3. ASSUME NEW i \in half, NEW j \in Index, NEW k \in Index, ~IsInvalid(m[Root][i]),
             IsTable(OldPud(m, i)[j]), IsTable(OldPmd(m, i, j)[k])
      PROVE  OldPmd(m, i, j)[k].to \in KernelPtes
  BY <1>2, <1>3 DEF KernelTables, LeadTo, Leads, IsTable, OldPmd
<1>4. \A p \in FreshPuds(m, n, half) : p[2] \in half /\ ~IsInvalid(m[Root][p[2]])
  BY DEF FreshPuds
<1>5. \A p \in FreshPmds(m, n, half) :
         /\ p[2] \in half /\ p[3] \in Index /\ ~IsInvalid(m[Root][p[2]])
         /\ IsTable(OldPud(m, p[2])[p[3]])
  BY DEF FreshPmds, FreshPuds, NewPmds
<1>6. \A p \in FreshPtes(m, n, half) :
         /\ p[2] \in half /\ p[3] \in Index /\ p[4] \in Index /\ ~IsInvalid(m[Root][p[2]])
         /\ IsTable(OldPud(m, p[2])[p[3]]) /\ IsTable(OldPmd(m, p[2], p[3])[p[4]])
  BY DEF FreshPmds, FreshPuds, FreshPtes, NewPtes, NewPmds
<1>7. \A p \in FreshPuds(m, n, half) : m[Root][p[2]].to \in KernelPuds
  BY <1>1, <1>4
<1>8. \A p \in FreshPmds(m, n, half) :
         m[Root][p[2]].to \in KernelPuds /\ OldPud(m, p[2])[p[3]].to \in KernelPmds
  BY <1>1, <1>2, <1>5
<1>9. \A p \in FreshPtes(m, n, half) :
         OldPud(m, p[2])[p[3]].to \in KernelPmds /\ OldPmd(m, p[2], p[3])[p[4]].to \in KernelPtes
  BY <1>2, <1>3, <1>6
<1>. QED
  BY <1>4, <1>5, <1>6, <1>7, <1>8, <1>9

\* A set of indices that is not empty has a greatest.
LEMMA GreatestExists ==
    ASSUME NEW S, S \subseteq Index, S # {}
    PROVE  \E j \in S : \A k \in S : k <= j
<1>. DEFINE T == {K - j : j \in S}
<1>1. T \subseteq Nat /\ T # {}
  <2>1. \A j \in S : K - j \in Nat
    BY SizeAssumption DEF Index
  <2>. QED
    BY <2>1
<1>2. IsWellFoundedOn({ss \in Nat \X Nat : ss[1] < ss[2]}, Nat)
  BY NatLessThanWellFounded DEF OpToRel
<1>. DEFINE R == {ss \in Nat \X Nat : ss[1] < ss[2]}
<1>. HIDE DEF T, R
<1>3. PICK x \in T : \A y \in T : ~(<<y, x>> \in R)
  BY <1>1, <1>2, WFMin DEF R
<1>4. PICK j \in S : x = K - j
  BY DEF T
<1>5. ASSUME NEW k \in S PROVE ~(K - k < K - j)
  <2>1. K - k \in T /\ K - k \in Nat /\ K - j \in Nat
    BY <1>1 DEF T
  <2>. QED
    BY <1>3, <1>4, <2>1 DEF R
<1>. QED
  BY <1>5, SizeAssumption DEF Index

LEMMA GreatestFacts ==
    ASSUME NEW S, S \subseteq Index, S # {}
    PROVE  Greatest(S) \in S /\ \A k \in S : k <= Greatest(S)
<1>1. \E j \in S : \A k \in S : k <= j
  BY GreatestExists
<1>. QED
  BY <1>1 DEF Greatest

LEMMA LastStoredFacts ==
    ASSUME NEW old, NEW i2 \in Index, NEW i3 \in Index
    PROVE  /\ LastStored(old, i2, i3) \in Index
           /\ i3 # i2 => LastStored(old, i2, i3) = i3
           /\ (\A j \in Index : j > i3 => ~IsTable(old[j])) => LastStored(old, i2, i3) = i3
<1>1. /\ StoresTo(old, i2, i3) \subseteq Index /\ i3 \in StoresTo(old, i2, i3)
      /\ i3 # i2 => StoresTo(old, i2, i3) = {i3}
  BY DEF StoresTo
<1>2. /\ LastStored(old, i2, i3) \in StoresTo(old, i2, i3)
      /\ i3 <= LastStored(old, i2, i3)
  BY <1>1, GreatestFacts DEF LastStored
<1>3. ASSUME \A j \in Index : j > i3 => ~IsTable(old[j])
      PROVE  LastStored(old, i2, i3) = i3
  <2>. DEFINE l == LastStored(old, i2, i3)
  <2>1. l \in Index /\ i3 <= l /\ (l = i3 \/ IsTable(old[l]))
    BY <1>1, <1>2 DEF StoresTo
  <2>2. ~(l > i3)
    <3>. HIDE DEF l
    <3>1. \A j \in Index : j > i3 => ~IsTable(old[j])
      BY <1>3
    <3>2. l > i3 => l # i3
      BY <2>1 DEF Index
    <3>. QED
      BY <2>1, <3>1, <3>2
  <2>. HIDE DEF l
  <2>3. l = i3
    BY <2>1, <2>2, SizeAssumption DEF Index
  <2>. QED
    BY <2>3 DEF l
<1>. QED
  BY <1>1, <1>2, <1>3

\* What an entry of a copy is.
LEMMA CopiedPgdFacts ==
    ASSUME NEW m \in Memory, KernelTables(m), NEW n \in Call, NEW i1 \in Index
    PROVE  LET c == CopiedPgd(m, n, i1) IN
           /\ c \in Entry /\ ~IsLarge(c)
           /\ ~IsInvalid(c) => c.to \in NewPuds
           /\ Leads(c) => c.to \in NewPuds
<1>. DEFINE e == m[Root][i1]
<1>1. e \in Entry /\ ~IsLarge(e) /\ (Leads(e) => e.to \in KernelPuds)
  BY Levels DEF Memory, KernelTables, LeadTo
<1>2. CASE IsInvalid(e)
  <2>1. CopiedPgd(m, n, i1) = e
    BY <1>2 DEF CopiedPgd
  <2>2. ~Leads(e)
    BY <1>1, <1>2, Levels DEF IsInvalid
  <2>. QED
    BY <1>1, <1>2, <2>1, <2>2
<1>3. CASE ~IsInvalid(e)
  <2>1. CopiedPgd(m, n, i1) = Redirected(e, <<n, i1, K, K>>)
    BY <1>3 DEF CopiedPgd
  <2>2. <<n, i1, K, K>> \in NewPuds /\ <<n, i1, K, K>> \in Page
    BY Names, Levels
  <2>. QED
    BY <1>1, <2>1, <2>2, RedirectedFacts DEF IsLarge
<1>. QED
  BY <1>2, <1>3

LEMMA CopiedPudFacts ==
    ASSUME NEW m \in Memory, KernelTables(m), NEW n \in Call, NEW i1 \in Index, NEW i2 \in Index,
           m[Root][i1].to \in KernelPuds
    PROVE  LET c == CopiedPud(m, n, i1, i2) IN
           c \in Entry /\ (Leads(c) => c.to \in NewPmds)
<1>. DEFINE e == OldPud(m, i1)[i2]
<1>1. e \in Entry /\ (Leads(e) => e.to \in KernelPmds)
  BY Levels DEF Memory, KernelTables, LeadTo, OldPud
<1>2. CASE IsTable(e)
  <2>1. CopiedPud(m, n, i1, i2) = Redirected(e, <<n, i1, i2, K>>)
    BY <1>2 DEF CopiedPud
  <2>2. <<n, i1, i2, K>> \in NewPmds /\ <<n, i1, i2, K>> \in Page
    BY Names, Levels
  <2>. QED
    BY <1>1, <2>1, <2>2, RedirectedFacts
<1>3. CASE ~IsTable(e)
  <2>1. CopiedPud(m, n, i1, i2) = e
    BY <1>3 DEF CopiedPud
  <2>2. ~Leads(e)
    BY <1>1, <1>3, Levels DEF IsInvalid, IsTable, Leads
  <2>. QED
    BY <1>1, <2>1, <2>2
<1>. QED
  BY <1>2, <1>3

LEMMA CopiedPmdFacts ==
    ASSUME NEW m \in Memory, KernelTables(m), NEW n \in Call,
           NEW i1 \in Index, NEW i2 \in Index, NEW i3 \in Index,
           OldPud(m, i1)[i2].to \in KernelPmds
    PROVE  LET c == CopiedPmd(m, n, i1, i2, i3) IN
           c \in Entry /\ (Leads(c) => c.to \in NewPtes)
<1>. DEFINE j == LastStored(OldPmd(m, i1, i2), i2, i3)
            e == OldPmd(m, i1, i2)[j]
            c == CopiedPmd(m, n, i1, i2, i3)
<1>1. j \in Index
  BY LastStoredFacts
<1>. HIDE DEF j
<1>2. e \in Entry
  BY <1>1, Levels DEF Memory, OldPmd
<1>3. c = IF IsInvalid(e) THEN Null ELSE IF IsLarge(e) THEN e
          ELSE Redirected(e, <<n, i1, i2, j>>)
  BY DEF CopiedPmd, j
<1>4. <<n, i1, i2, j>> \in NewPtes /\ <<n, i1, i2, j>> \in Page
  BY <1>1, Names, Levels
<1>. HIDE DEF e, c
<1>5. c \in Entry /\ (Leads(c) => c.to \in NewPtes)
  BY <1>2, <1>3, <1>4, NullFacts, RedirectedFacts DEF Leads
<1>. QED
  BY <1>5 DEF c

LEMMA CopyType ==
    ASSUME NEW m \in Memory, Linked(m), NEW n \in Call, NEW pgd \in NewPgds,
           NEW half, half \subseteq Index, NEW c, IsCopy(c, m, n, pgd, half)
    PROVE  c \in Memory
<1>1. KernelTables(m)
  BY DEF Linked
<1>2. ASSUME NEW p \in Page PROVE c[p] \in [Index -> Entry]
  <2>. m[p] \in [Index -> Entry]
    BY DEF Memory
  <2>1. CASE p \in KernelPage
    BY <2>1 DEF IsCopy
  <2>2. CASE p \in NewPgds
    <3>1. c[p] = m[p] \/ c[p] = [i \in Index |-> IF i \in half THEN CopiedPgd(m, n, i) ELSE m[p][i]]
      BY <2>2 DEF IsCopy
    <3>2. \A i \in Index : CopiedPgd(m, n, i) \in Entry
      BY <1>1, CopiedPgdFacts
    <3>. QED
      BY <3>1, <3>2
  <2>3. CASE p \in NewPuds
    <3>1. CASE p \in FreshPuds(m, n, half)
      <4>1. p[2] \in Index /\ m[Root][p[2]].to \in KernelPuds
        BY <1>1, <3>1, FreshPages
      <4>2. c[p] = [i \in Index |-> CopiedPud(m, n, p[2], i)]
        BY <2>3, <3>1 DEF IsCopy
      <4>3. \A i \in Index : CopiedPud(m, n, p[2], i) \in Entry
        BY <1>1, <4>1, CopiedPudFacts
      <4>. QED
        BY <4>2, <4>3
    <3>. QED
      BY <2>3, <3>1 DEF IsCopy
  <2>4. CASE p \in NewPmds
    <3>1. CASE p \in FreshPmds(m, n, half)
      <4>1. p[2] \in Index /\ p[3] \in Index /\ OldPud(m, p[2])[p[3]].to \in KernelPmds
        BY <1>1, <3>1, FreshPages
      <4>2. c[p] = [i \in Index |-> CopiedPmd(m, n, p[2], p[3], i)]
        BY <2>4, <3>1 DEF IsCopy
      <4>3. \A i \in Index : CopiedPmd(m, n, p[2], p[3], i) \in Entry
        BY <1>1, <4>1, CopiedPmdFacts
      <4>. QED
        BY <4>2, <4>3
    <3>. QED
      BY <2>4, <3>1 DEF IsCopy
  <2>5. CASE p \in NewPtes
    <3>1. CASE p \in FreshPtes(m, n, half)
      <4>1. OldPmd(m, p[2], p[3])[p[4]].to \in Page
        BY <1>1, <3>1, FreshPages, Levels
      <4>2. OldPte(m, p[2], p[3], p[4]) \in [Index -> Entry]
        BY <4>1 DEF OldPte, Memory
      <4>. QED
        BY <2>5, <3>1, <4>2 DEF IsCopy
    <3>. QED
      BY <2>5, <3>1 DEF IsCopy
  <2>. QED
    BY <2>1, <2>2, <2>3, <2>4, <2>5 DEF Page, NewPage
<1>3. c = [p \in Page |-> c[p]]
  BY DEF IsCopy
<1>. QED
  BY <1>2, <1>3 DEF Memory

LEMMA CopyLinked ==
    ASSUME NEW m \in Memory, Linked(m), NEW n \in Call, NEW pgd \in NewPgds,
           NEW half, half \subseteq Index, NEW c, IsCopy(c, m, n, pgd, half)
    PROVE  Linked(c)
<1>1. KernelTables(m)
  BY DEF Linked
<1>2. \A p \in KernelPage : c[p] = m[p]
  BY DEF Page, IsCopy
<1>3. KernelTables(c)
  BY <1>1, <1>2 DEF KernelTables, LeadTo, KernelPage
<1>4. ASSUME NEW p \in NewPgds, NEW i \in Index
      PROVE  ~IsLarge(c[p][i]) /\ (Leads(c[p][i]) => c[p][i].to \in KernelPuds \cup NewPuds)
  <2>1. ~IsLarge(m[p][i]) /\ (Leads(m[p][i]) => m[p][i].to \in KernelPuds \cup NewPuds)
    BY DEF Linked, LeadTo
  <2>2. c[p][i] = m[p][i] \/ c[p][i] = CopiedPgd(m, n, i)
    BY Levels DEF IsCopy
  <2>. QED
    BY <1>1, <2>1, <2>2, CopiedPgdFacts
<1>5. ASSUME NEW p \in NewPuds, NEW i \in Index, Leads(c[p][i])
      PROVE  c[p][i].to \in NewPmds
  <2>1. CASE p \in FreshPuds(m, n, half)
    <3>1. p[2] \in Index /\ m[Root][p[2]].to \in KernelPuds
      BY <1>1, <2>1, FreshPages
    <3>2. c[p][i] = CopiedPud(m, n, p[2], i)
      BY <2>1, Levels DEF IsCopy
    <3>. QED
      BY <1>1, <1>5, <3>1, <3>2, CopiedPudFacts
  <2>2. CASE p \notin FreshPuds(m, n, half)
    <3>1. c[p][i] = m[p][i]
      BY <2>2, Levels DEF IsCopy
    <3>. QED
      BY <1>5, <3>1 DEF Linked, LeadTo
  <2>. QED
    BY <2>1, <2>2
<1>6. ASSUME NEW p \in NewPmds, NEW i \in Index, Leads(c[p][i])
      PROVE  c[p][i].to \in NewPtes
  <2>1. CASE p \in FreshPmds(m, n, half)
    <3>1. p[2] \in Index /\ p[3] \in Index /\ OldPud(m, p[2])[p[3]].to \in KernelPmds
      BY <1>1, <2>1, FreshPages
    <3>2. c[p][i] = CopiedPmd(m, n, p[2], p[3], i)
      BY <2>1, Levels DEF IsCopy
    <3>. QED
      BY <1>1, <1>6, <3>1, <3>2, CopiedPmdFacts
  <2>2. CASE p \notin FreshPmds(m, n, half)
    <3>1. c[p][i] = m[p][i]
      BY <2>2, Levels DEF IsCopy
    <3>. QED
      BY <1>6, <3>1 DEF Linked, LeadTo
  <2>. QED
    BY <2>1, <2>2
<1>. QED
  BY <1>3, <1>4, <1>5, <1>6 DEF Linked, LeadTo

-----------------------------------------------------------------------------
(* The walks.                                                              *)

RwOnly(m, m2) ==
    m2 \in Memory /\ \A p \in Page, i \in Index : SameButRw(m[p][i], m2[p][i])

LEMMA FindRw ==
    ASSUME NEW m \in Memory, NEW a
    PROVE  RwOnly(m, Find(m, a))
<1>1. \A p \in Page, i \in Index : m[p][i] \in Entry
  BY DEF Memory
<1>2. \A p \in Page, i \in Index :
         Find(m, a)[p][i] \in Entry /\ SameButRw(m[p][i], Find(m, a)[p][i])
  BY <1>1, RwFacts DEF Find
<1>. QED
  BY <1>2 DEF RwOnly, Memory, Find

LEMMA OnValidRw ==
    ASSUME NEW m \in Memory, NEW P
    PROVE  RwOnly(m, OnValid(m, P, MakeRw)) /\ RwOnly(m, OnValid(m, P, ClearRw))
<1>1. \A p \in Page, i \in Index : m[p][i] \in Entry
  BY DEF Memory
<1>. DEFINE f == OnValid(m, P, MakeRw)
            g == OnValid(m, P, ClearRw)
<1>2. \A p \in Page, i \in Index : f[p][i] \in Entry /\ SameButRw(m[p][i], f[p][i])
  BY <1>1, RwFacts DEF OnValid
<1>3. \A p \in Page, i \in Index : g[p][i] \in Entry /\ SameButRw(m[p][i], g[p][i])
  BY <1>1, RwFacts DEF OnValid
<1>4. f = [p \in Page |-> [i \in Index |-> f[p][i]]] /\ g = [p \in Page |-> [i \in Index |-> g[p][i]]]
  BY DEF OnValid
<1>. HIDE DEF f, g
<1>5. RwOnly(m, f) /\ RwOnly(m, g)
  BY <1>2, <1>3, <1>4 DEF RwOnly, Memory
<1>. QED
  BY <1>5 DEF f, g

LEMMA OnPgdRw ==
    ASSUME NEW m \in Memory, NEW root \in Page
    PROVE  RwOnly(m, OnPgd(m, root, MakeRw))
<1>1. \A p \in Page, i \in Index : m[p][i] \in Entry
  BY DEF Memory
<1>. DEFINE f == OnPgd(m, root, MakeRw)
<1>2. \A p \in Page, i \in Index :
         f[p][i] = IF p = root /\ i \in KernelHalf /\ ~IsInvalid(m[root][i])
                   THEN MakeRw(m[root][i]) ELSE m[p][i]
  BY Halves DEF OnPgd, Memory
<1>3. f = [p \in Page |-> [i \in Index |-> f[p][i]]]
  BY DEF OnPgd, Memory
<1>. HIDE DEF f
<1>4. \A p \in Page, i \in Index : f[p][i] \in Entry /\ SameButRw(m[p][i], f[p][i])
  BY <1>1, <1>2, RwFacts
<1>5. RwOnly(m, f)
  BY <1>3, <1>4 DEF RwOnly, Memory
<1>. QED
  BY <1>5 DEF f

LEMMA RwWeaker ==
    ASSUME NEW m, NEW m2, RwOnly(m, m2)
    PROVE  Weaker(m, m2)
BY DEF RwOnly, Weaker

\* The pages below the pgds of the copies and of the kernel, level by level.
LEMMA PagesBelow ==
    ASSUME NEW m, Linked(m), NEW root \in {Root} \cup NewPgds
    PROVE  /\ PudPages(m, root) \subseteq KernelPuds \cup NewPuds
           /\ PmdPages(m, root) \subseteq KernelPmds \cup NewPmds
           /\ PtePages(m, root) \subseteq KernelPtes \cup NewPtes
           /\ root = Root =>
                 /\ PudPages(m, root) \subseteq KernelPuds
                 /\ PmdPages(m, root) \subseteq KernelPmds
                 /\ PtePages(m, root) \subseteq KernelPtes
           /\ (\A i \in KernelHalf : ~IsInvalid(m[root][i]) => m[root][i].to \in NewPuds) =>
                 /\ PudPages(m, root) \subseteq NewPuds
                 /\ PmdPages(m, root) \subseteq NewPmds
                 /\ PtePages(m, root) \subseteq NewPtes
<1>1. ASSUME NEW P, NEW Q, LeadTo(m, P, Q), NEW p \in P, NEW is, is \subseteq Index
      PROVE  TablesOf(m, p, is) \subseteq Q
  BY <1>1 DEF LeadTo, TablesOf, IsTable, Leads
<1>2. ASSUME NEW P2, NEW P3, NEW P4, LeadTo(m, P2, P3), LeadTo(m, P3, P4),
             PudPages(m, root) \subseteq P2
      PROVE  PmdPages(m, root) \subseteq P3 /\ PtePages(m, root) \subseteq P4
  <2>1. PmdPages(m, root) \subseteq P3
    BY <1>1, <1>2 DEF PmdPages
  <2>. QED
    BY <1>1, <1>2, <2>1 DEF PtePages
<1>3. /\ LeadTo(m, {Root}, KernelPuds) /\ LeadTo(m, KernelPuds, KernelPmds)
      /\ LeadTo(m, KernelPmds, KernelPtes) /\ LeadTo(m, NewPuds, NewPmds)
      /\ LeadTo(m, NewPmds, NewPtes) /\ LeadTo(m, NewPgds, KernelPuds \cup NewPuds)
  BY DEF Linked, KernelTables
<1>4. root = Root => PudPages(m, root) \subseteq KernelPuds
  <2>1. LeadTo(m, {Root}, KernelPuds) /\ Root \in {Root} /\ KernelHalf \subseteq Index
    BY <1>3, Halves
  <2>2. TablesOf(m, Root, KernelHalf) \subseteq KernelPuds
    BY <1>1, <2>1
  <2>. QED
    BY <2>2 DEF PudPages
<1>5. root \in NewPgds => PudPages(m, root) \subseteq KernelPuds \cup NewPuds
  BY <1>1, <1>3, Halves DEF PudPages
<1>6. /\ LeadTo(m, KernelPuds \cup NewPuds, KernelPmds \cup NewPmds)
      /\ LeadTo(m, KernelPmds \cup NewPmds, KernelPtes \cup NewPtes)
  BY <1>3 DEF LeadTo
<1>7. (\A i \in KernelHalf : ~IsInvalid(m[root][i]) => m[root][i].to \in NewPuds)
      => PudPages(m, root) \subseteq NewPuds
  BY DEF PudPages, TablesOf, IsTable
<1>8. PudPages(m, root) \subseteq KernelPuds \cup NewPuds
  BY <1>4, <1>5
<1>9. /\ PmdPages(m, root) \subseteq KernelPmds \cup NewPmds
      /\ PtePages(m, root) \subseteq KernelPtes \cup NewPtes
  BY <1>2, <1>6, <1>8
<1>10. root = Root => PmdPages(m, root) \subseteq KernelPmds /\ PtePages(m, root) \subseteq KernelPtes
  BY <1>2, <1>3, <1>4
<1>11. (\A i \in KernelHalf : ~IsInvalid(m[root][i]) => m[root][i].to \in NewPuds)
       => PmdPages(m, root) \subseteq NewPmds /\ PtePages(m, root) \subseteq NewPtes
  BY <1>2, <1>3, <1>7
<1>. QED
  BY <1>4, <1>7, <1>8, <1>9, <1>10, <1>11

LEMMA WipeFacts ==
    ASSUME NEW m \in Memory, NEW root
    PROVE  /\ WipeLeaves(m, root) \in Memory
           /\ Weaker(m, WipeLeaves(m, root))
           /\ \A p \in Page : p \notin KernelPages(m, root) => WipeLeaves(m, root)[p] = m[p]
<1>. DEFINE w == WipeLeaves(m, root)
            P == PudPages(m, root) \cup PmdPages(m, root)
            wipe(e) == IF IsLarge(e) THEN Wipe(e) ELSE e
            l == OnValid(m, P, wipe)
<1>1. \A p \in Page, i \in Index :
         l[p][i] = IF p \in P /\ ~IsInvalid(m[p][i]) /\ IsLarge(m[p][i]) THEN Null ELSE m[p][i]
  BY DEF OnValid, Wipe
<1>2. l = [p \in Page |-> [i \in Index |-> l[p][i]]]
  BY DEF OnValid
<1>. HIDE DEF l
<1>3. w = OnValid(l, PtePages(m, root), Wipe)
  BY DEF WipeLeaves, l
<1>4. \A p \in Page, i \in Index :
         w[p][i] = IF p \in PtePages(m, root) /\ ~IsInvalid(l[p][i]) THEN Null ELSE l[p][i]
  BY <1>3 DEF OnValid, Wipe
<1>5. w = [p \in Page |-> [i \in Index |-> w[p][i]]]
  BY <1>3 DEF OnValid
<1>. HIDE DEF w, P
<1>6. \A p \in Page, i \in Index : w[p][i] = m[p][i] \/ w[p][i] = Null
  BY <1>1, <1>4
<1>7. \A p \in Page, i \in Index : m[p][i] \in Entry
  BY DEF Memory
<1>8. \A p \in Page, i \in Index :
         w[p][i] \in Entry /\ (w[p][i] = Null \/ SameButRw(m[p][i], w[p][i]))
  BY <1>6, <1>7, NullFacts, RwFacts
<1>9. ASSUME NEW p \in Page, p \notin KernelPages(m, root) PROVE w[p] = m[p]
  <2>1. p \notin P /\ p \notin PtePages(m, root)
    BY <1>9 DEF P, KernelPages
  <2>2. \A i \in Index : w[p][i] = m[p][i]
    BY <1>1, <1>4, <2>1
  <2>3. w[p] = [i \in Index |-> w[p][i]] /\ m[p] \in [Index -> Entry]
    BY <1>5 DEF Memory
  <2>. QED
    BY <2>2, <2>3
<1>10. w \in Memory /\ Weaker(m, w) /\ \A p \in Page : p \notin KernelPages(m, root) => w[p] = m[p]
  BY <1>5, <1>8, <1>9 DEF Memory, Weaker
<1>. QED
  BY <1>10 DEF w

LEMMA OnPgdWipe ==
    ASSUME NEW m \in Memory, NEW root \in Page
    PROVE  /\ OnPgd(m, root, Wipe) \in Memory
           /\ Weaker(m, OnPgd(m, root, Wipe))
           /\ \A p \in Page : p # root => OnPgd(m, root, Wipe)[p] = m[p]
           /\ \A i \in KernelHalf : IsInvalid(OnPgd(m, root, Wipe)[root][i])
<1>. DEFINE f == OnPgd(m, root, Wipe)
<1>1. \A p \in Page, i \in Index :
         f[p][i] = IF p = root /\ i \in KernelHalf /\ ~IsInvalid(m[root][i]) THEN Null ELSE m[p][i]
  BY Halves DEF OnPgd, Memory, Wipe
<1>2. f = [p \in Page |-> [i \in Index |-> f[p][i]]]
  BY DEF OnPgd, Memory
<1>3. \A p \in Page : p # root => f[p] = m[p]
  BY DEF OnPgd, Memory
<1>. HIDE DEF f
<1>4. \A p \in Page, i \in Index : m[p][i] \in Entry
  BY DEF Memory
<1>5. \A p \in Page, i \in Index :
         f[p][i] \in Entry /\ (f[p][i] = Null \/ SameButRw(m[p][i], f[p][i]))
  BY <1>1, <1>4, NullFacts, RwFacts
<1>6. \A i \in KernelHalf : IsInvalid(f[root][i])
  BY <1>1, Halves, NullFacts
<1>7. f \in Memory /\ Weaker(m, f)
  BY <1>2, <1>5 DEF Memory, Weaker
<1>. QED
  BY <1>3, <1>6, <1>7 DEF f

-----------------------------------------------------------------------------
(* The invariant.                                                          *)

\* A step that changes no pgd, or write permissions only.
LEMMA InStepKept ==
    ASSUME TypeOK, InStep, UNCHANGED <<copy, synced>>,
           copy # NoPage =>
              \A r \in {Root, copy}, i \in Index : SameButRw(mem[r][i], mem'[r][i])
    PROVE  InStep'
<1>1. CASE copy = NoPage
  BY <1>1 DEF InStep
<1>2. CASE copy # NoPage
  <2>1. ASSUME NEW i \in KernelHalf
        PROVE  SameButRw(mem[Root][i], mem'[Root][i]) /\ SameButRw(mem[copy][i], mem'[copy][i])
    BY <1>2, Halves
  <2>2. CASE synced
    <3>1. \A i \in KernelHalf : SameButRw(mem[copy][i], mem[Root][i])
      BY <1>2, <2>2 DEF InStep
    <3>2. \A i \in KernelHalf : SameButRw(mem'[copy][i], mem'[Root][i])
      BY <2>1, <3>1 DEF SameButRw
    <3>. QED
      BY <1>2, <2>2, <3>2 DEF InStep
  <2>3. CASE ~synced
    <3>1. \A i \in KernelHalf :
             /\ IsInvalid(mem[Root][i]) <=> IsInvalid(mem'[Root][i])
             /\ IsInvalid(mem[copy][i]) <=> IsInvalid(mem'[copy][i])
             /\ mem[copy][i].to = mem'[copy][i].to
      BY <2>1, SameFacts
    <3>. QED
      BY <1>2, <2>3, <3>1 DEF InStep
  <2>. QED
    BY <2>2, <2>3
<1>. QED
  BY <1>1, <1>2

LEMMA RwStep ==
    ASSUME IInv, RwOnly(mem, mem'), UNCHANGED <<calls, copy, synced, edits>>
    PROVE  IInv'
<1>1. mem' \in Memory /\ Linked(mem')
  BY RwWeaker, WeakerLinked DEF IInv, RwOnly
<1>2. copy # NoPage => copy \in Page /\ Root \in Page
  BY Levels DEF IInv, TypeOK
<1>3. InStep'
  BY <1>2, InStepKept DEF IInv, RwOnly
<1>. QED
  BY <1>1, <1>3 DEF IInv, TypeOK, Memory

\* A step that wipes entries of pages below the pgds.
LEMMA WipeStep ==
    ASSUME IInv, mem' \in Memory, Weaker(mem, mem'), UNCHANGED <<calls, copy, synced>>,
           edits < MaxEdits, edits' = edits + 1,
           \A p \in {Root} \cup NewPgds : mem'[p] = mem[p]
    PROVE  IInv'
<1>1. Linked(mem')
  BY WeakerLinked DEF IInv
<1>2. ASSUME NEW r \in {Root, copy}, copy # NoPage, NEW i \in Index
      PROVE  SameButRw(mem[r][i], mem'[r][i])
  <2>1. mem'[r] = mem[r]
    BY <1>2 DEF IInv, TypeOK
  <2>. QED
    BY <2>1 DEF SameButRw
<1>3. InStep'
  BY <1>2, InStepKept DEF IInv
<1>4. edits' \in 0 .. MaxEdits
  BY BoundAssumption DEF IInv, TypeOK
<1>. QED
  BY <1>1, <1>3, <1>4 DEF IInv, TypeOK, Memory

LEMMA Initially == Init => IInv
<1>. SUFFICES ASSUME Init PROVE IInv
  OBVIOUS
<1>1. mem \in Memory /\ KernelTables(mem) /\ \A p \in NewPage, i \in Index : mem[p][i] = Null
  BY KernelsAssumption DEF Init, Memory
<1>2. Linked(mem)
  BY <1>1, NullFacts DEF Linked, LeadTo, NewPage
<1>3. 0 \in 0 .. MaxCopies /\ 0 \in 0 .. MaxEdits
  BY BoundAssumption
<1>4. calls = 0 /\ copy = NoPage /\ synced = FALSE /\ edits = 0
  BY DEF Init
<1>. QED
  BY <1>1, <1>2, <1>3, <1>4 DEF IInv, TypeOK, InStep, Memory

LEMMA CallStep ==
    ASSUME calls \in 0 .. MaxCopies, calls < MaxCopies
    PROVE  /\ calls + 1 \in Call /\ calls + 1 \in 0 .. MaxCopies
           /\ NewRoot(calls + 1) \in NewPgds
<1>1. calls + 1 \in Call /\ calls + 1 \in 0 .. MaxCopies
  BY BoundAssumption DEF Call
<1>. QED
  BY <1>1 DEF NewRoot, NewPgds

LEMMA SetPgdCpStep ==
    ASSUME IInv, NEW a \in KernelAddress, SetPgdCp(a)
    PROVE  IInv'
<1>. DEFINE n == calls + 1
            c == CopyPagetable(mem, n)
<1>1. n \in Call /\ n \in 0 .. MaxCopies /\ NewRoot(n) \in NewPgds
  BY CallStep DEF IInv, TypeOK, SetPgdCp
<1>2. IsCopy(c, mem, n, NewRoot(n), KernelHalf)
  BY <1>1, CopyPages DEF CopyPagetable
<1>3. mem \in Memory /\ Linked(mem) /\ KernelTables(mem)
  BY DEF IInv, TypeOK, Memory, Linked
<1>. HIDE DEF c
<1>4. c \in Memory /\ Linked(c)
  BY <1>1, <1>2, <1>3, CopyType, CopyLinked, Halves
<1>5. mem' = Find(c, a) /\ calls' = n /\ copy' = NewRoot(n) /\ UNCHANGED <<synced, edits>>
  BY DEF SetPgdCp, c
<1>. HIDE DEF n
<1>6. RwOnly(c, mem')
  BY <1>4, <1>5, FindRw
<1>7. mem' \in Memory /\ Linked(mem')
  BY <1>4, <1>6, RwWeaker, WeakerLinked DEF RwOnly
<1>8. ASSUME NEW i \in KernelHalf, ~IsInvalid(mem'[copy'][i])
      PROVE  mem'[copy'][i].to \in NewPuds
  <2>1. c[copy'][i] = CopiedPgd(mem, n, i) /\ i \in Index
    BY <1>1, <1>2, <1>5, Halves DEF IsCopy
  <2>2. SameButRw(c[copy'][i], mem'[copy'][i])
    BY <1>1, <1>5, <1>6, <2>1, Levels DEF RwOnly
  <2>3. ~IsInvalid(c[copy'][i]) /\ c[copy'][i].to = mem'[copy'][i].to
    BY <1>8, <2>2, SameFacts
  <2>4. ~IsInvalid(CopiedPgd(mem, n, i)) => CopiedPgd(mem, n, i).to \in NewPuds
    BY <1>1, <1>3, <2>1, CopiedPgdFacts
  <2>. QED
    BY <2>1, <2>3, <2>4
<1>9. ~synced' /\ copy' # NoPage
  BY <1>1, <1>5, Levels DEF IInv, InStep, SetPgdCp
<1>. QED
  BY <1>1, <1>5, <1>7, <1>8, <1>9 DEF IInv, TypeOK, InStep, Memory

LEMMA CpOldPgHalfStep ==
    ASSUME IInv, CpOldPgHalf
    PROVE  IInv'
<1>. DEFINE n == calls + 1
<1>1. n \in Call /\ n \in 0 .. MaxCopies /\ copy \in NewPgds
  BY CallStep DEF IInv, TypeOK, CpOldPgHalf
<1>2. /\ calls' = n /\ synced' = FALSE /\ copy # NoPage /\ UNCHANGED <<copy, edits>>
      /\ mem' = CopyHalf(mem, n, copy, KernelHalf)
  BY DEF CpOldPgHalf, CopyPagetableHalf
<1>. HIDE DEF n
<1>3. IsCopy(mem', mem, n, copy, KernelHalf)
  BY <1>1, <1>2, CopyPages
<1>4. mem \in Memory /\ Linked(mem) /\ KernelTables(mem)
  BY DEF IInv, TypeOK, Memory, Linked
<1>5. mem' \in Memory /\ Linked(mem')
  BY <1>1, <1>3, <1>4, CopyType, CopyLinked, Halves
<1>6. ASSUME NEW i \in KernelHalf, ~IsInvalid(mem'[copy][i])
      PROVE  mem'[copy][i].to \in NewPuds
  <2>1. mem'[copy][i] = CopiedPgd(mem, n, i) /\ i \in Index
    BY <1>1, <1>3, Halves DEF IsCopy
  <2>. QED
    BY <1>1, <1>4, <1>6, <2>1, CopiedPgdFacts
<1>. QED
  BY <1>1, <1>2, <1>5, <1>6 DEF IInv, TypeOK, InStep, Memory

LEMMA UpdatePagetableStep ==
    ASSUME IInv, UpdatePagetable
    PROVE  IInv'
<1>1. mem \in Memory /\ Linked(mem) /\ KernelTables(mem) /\ copy \in NewPgds /\ copy \in Page
  BY Levels DEF IInv, TypeOK, Memory, Linked, UpdatePagetable
<1>2. /\ \A p \in Page : p # copy => mem'[p] = mem[p]
      /\ mem'[copy] = [i \in Index |-> IF i \in KernelHalf THEN mem[Root][i] ELSE mem[copy][i]]
      /\ mem' = [p \in Page |-> mem'[p]]
  BY <1>1 DEF UpdatePagetable, Memory
<1>3. mem' \in Memory
  <2>1. mem'[copy] \in [Index -> Entry]
    BY <1>1, <1>2, Levels DEF Memory
  <2>. QED
    BY <1>1, <1>2, <2>1 DEF Memory
<1>4. Linked(mem')
  <2>1. \A p \in KernelPage : mem'[p] = mem[p]
    BY <1>1, <1>2, PageAssumption DEF Page, NewPage
  <2>2. KernelTables(mem')
    BY <1>1, <2>1 DEF KernelTables, LeadTo, KernelPage
  <2>3. ASSUME NEW p \in NewPgds, NEW i \in Index
        PROVE  mem'[p][i] = mem[p][i] \/ mem'[p][i] = mem[Root][i]
    BY <1>2, Levels
  <2>4. ASSUME NEW p \in NewPgds, NEW i \in Index
        PROVE  /\ ~IsLarge(mem'[p][i])
               /\ Leads(mem'[p][i]) => mem'[p][i].to \in KernelPuds \cup NewPuds
    BY <1>1, <2>3 DEF Linked, KernelTables, LeadTo
  <2>5. \A p \in NewPuds \cup NewPmds : mem'[p] = mem[p]
    BY <1>1, <1>2, Levels
  <2>. QED
    BY <1>1, <2>2, <2>4, <2>5 DEF Linked, LeadTo
<1>5. ASSUME NEW i \in KernelHalf PROVE SameButRw(mem'[copy][i], mem'[Root][i])
  <2>1. mem'[Root] = mem[Root] /\ mem'[copy][i] = mem[Root][i]
    BY <1>1, <1>2, Levels, Halves, PageAssumption DEF NewPage
  <2>. QED
    BY <2>1 DEF SameButRw
<1>. QED
  BY <1>1, <1>3, <1>4, <1>5 DEF IInv, TypeOK, InStep, Memory, UpdatePagetable

LEMMA UpdatePagetable2Step ==
    ASSUME IInv, UpdatePagetable2
    PROVE  IInv'
<1>. DEFINE n == calls + 1
<1>1. n \in Call /\ n \in 0 .. MaxCopies /\ copy \in NewPgds
  BY CallStep DEF IInv, TypeOK, UpdatePagetable2
<1>2. /\ calls' = n /\ copy # NoPage /\ UNCHANGED <<copy, synced, edits>>
      /\ mem' = CopyHalf(mem, n, copy, UserHalf)
  BY DEF UpdatePagetable2, CopyPagetableHalf2
<1>. HIDE DEF n
<1>3. IsCopy(mem', mem, n, copy, UserHalf)
  BY <1>1, <1>2, CopyPages
<1>4. mem \in Memory /\ Linked(mem) /\ KernelTables(mem)
  BY DEF IInv, TypeOK, Memory, Linked
<1>5. mem' \in Memory /\ Linked(mem')
  BY <1>1, <1>3, <1>4, CopyType, CopyLinked, Halves
<1>6. \A i \in KernelHalf : mem'[copy][i] = mem[copy][i] /\ mem'[Root][i] = mem[Root][i]
  <2>1. KernelHalf \cap UserHalf = {}
    BY SizeAssumption DEF KernelHalf, UserHalf, Index
  <2>. QED
    BY <1>1, <1>3, <2>1, Halves, Levels DEF IsCopy
<1>7. InStep'
  BY <1>2, <1>6 DEF IInv, InStep
<1>. QED
  BY <1>1, <1>2, <1>5, <1>7 DEF IInv, TypeOK, Memory

LEMMA RootsArePgds ==
    ASSUME TypeOK
    PROVE  Roots \subseteq {Root} \cup NewPgds /\ Roots \subseteq Page /\ Root \in Roots
BY Levels DEF TypeOK, Roots

LEMMA WalkRw ==
    ASSUME TypeOK, NEW root \in Roots, Walk(root)
    PROVE  RwOnly(mem, mem') /\ UNCHANGED <<calls, copy, synced, edits>>
<1>1. mem \in Memory /\ root \in Page
  BY RootsArePgds DEF TypeOK, Memory
<1>2. CASE SetPgtableProt3(root)
  BY <1>1, <1>2, OnPgdRw DEF SetPgtableProt3, Protect
<1>3. CASE SetPgtableProt4(root)
  BY <1>1, <1>3, OnValidRw DEF SetPgtableProt4, Protect
<1>4. CASE SetPgtableProt5(root)
  BY <1>1, <1>4, OnValidRw DEF SetPgtableProt5, Protect
<1>5. CASE SetPgtableProt6(root)
  BY <1>1, <1>5, OnValidRw DEF SetPgtableProt6, Protect
<1>. QED
  BY <1>2, <1>3, <1>4, <1>5 DEF Walk

\* Pages below the pgds are no pgds.
LEMMA BelowPgds ==
    /\ Root \notin KernelPuds \cup KernelPmds \cup KernelPtes
    /\ Root \notin NewPuds \cup NewPmds \cup NewPtes
    /\ NewPgds \cap (KernelPuds \cup KernelPmds \cup KernelPtes) = {}
    /\ NewPgds \cap (NewPuds \cup NewPmds \cup NewPtes) = {}
BY Levels, PageAssumption DEF NewPage, KernelPage

LEMMA SetPgtableProtStep ==
    ASSUME IInv, NEW root \in Roots, SetPgtableProt(root)
    PROVE  IInv'
<1>1. mem \in Memory /\ Linked(mem) /\ root \in {Root} \cup NewPgds
  BY RootsArePgds DEF IInv, TypeOK, Memory
<1>2. /\ mem' = WipeLeaves(mem, root) /\ UNCHANGED <<calls, copy, synced>>
      /\ edits < MaxEdits /\ edits' = edits + 1
  BY DEF SetPgtableProt, Edit
<1>3. ({Root} \cup NewPgds) \cap KernelPages(mem, root) = {}
  BY <1>1, PagesBelow, BelowPgds DEF KernelPages
<1>4. \A p \in {Root} \cup NewPgds : mem'[p] = mem[p]
  BY <1>1, <1>2, <1>3, WipeFacts, Levels
<1>5. mem' \in Memory /\ Weaker(mem, mem')
  BY <1>1, <1>2, WipeFacts
<1>. QED
  BY <1>2, <1>4, <1>5, WipeStep

LEMMA SetPgtableProt2Step ==
    ASSUME IInv, NEW root \in Roots, SetPgtableProt2(root)
    PROVE  IInv'
<1>1. mem \in Memory /\ Linked(mem) /\ root \in Page
  BY RootsArePgds DEF IInv, TypeOK, Memory
<1>2. /\ mem' = OnPgd(mem, root, Wipe) /\ synced' = FALSE /\ UNCHANGED <<calls, copy>>
      /\ edits < MaxEdits /\ edits' = edits + 1
  BY DEF SetPgtableProt2, Edit
<1>3. /\ mem' \in Memory /\ Weaker(mem, mem')
      /\ \A i \in KernelHalf : IsInvalid(mem'[root][i])
  BY <1>1, <1>2, OnPgdWipe
<1>4. Linked(mem')
  BY <1>1, <1>3, WeakerLinked
<1>5. edits' \in 0 .. MaxEdits
  BY <1>2, BoundAssumption DEF IInv, TypeOK
<1>6. InStep'
  BY <1>2, <1>3 DEF InStep, Roots
<1>. QED
  BY <1>2, <1>3, <1>4, <1>5, <1>6 DEF IInv, TypeOK, Memory

LEMMA UnmapStep ==
    ASSUME IInv, NEW p \in Page, NEW i \in Index, Unmap(p, i)
    PROVE  IInv'
<1>1. mem \in Memory /\ Linked(mem)
  BY DEF IInv, TypeOK, Memory
<1>2. /\ mem' = [mem EXCEPT ![p][i] = Null] /\ UNCHANGED <<calls, copy, synced>>
      /\ edits < MaxEdits /\ edits' = edits + 1
      /\ p \in PudPages(mem, Root) \cup PmdPages(mem, Root)
  BY DEF Unmap, Edit
<1>3. p \notin {Root} \cup NewPgds
  BY <1>1, <1>2, PagesBelow, BelowPgds
<1>4. \A q \in Page, j \in Index :
         mem'[q][j] = IF q = p /\ j = i THEN Null ELSE mem[q][j]
  BY <1>1, <1>2 DEF Memory
<1>5. mem' \in Memory
  BY <1>1, <1>2, NullFacts DEF Memory
<1>6. Weaker(mem, mem')
  BY <1>4 DEF Weaker, SameButRw
<1>7. \A q \in {Root} \cup NewPgds : mem'[q] = mem[q]
  BY <1>1, <1>2, <1>3, Levels DEF Memory
<1>. QED
  BY <1>2, <1>5, <1>6, <1>7, WipeStep

LEMMA Inductive == IInv /\ [Next]_vars => IInv'
<1>. SUFFICES ASSUME IInv, [Next]_vars PROVE IInv'
  OBVIOUS
<1>1. ASSUME NEW a \in KernelAddress, SetPgdCp(a) PROVE IInv'
  BY <1>1, SetPgdCpStep
<1>2. CASE CpOldPgHalf
  BY <1>2, CpOldPgHalfStep
<1>3. CASE UpdatePagetable
  BY <1>3, UpdatePagetableStep
<1>4. CASE UpdatePagetable2
  BY <1>4, UpdatePagetable2Step
<1>5. ASSUME NEW root \in Roots, Walk(root) PROVE IInv'
  BY <1>5, WalkRw, RwStep DEF IInv
<1>6. ASSUME NEW root \in Roots, SetPgtableProt(root) PROVE IInv'
  BY <1>6, SetPgtableProtStep
<1>7. ASSUME NEW root \in Roots, SetPgtableProt2(root) PROVE IInv'
  BY <1>7, SetPgtableProt2Step
<1>8. ASSUME NEW p \in Page, NEW i \in Index, Unmap(p, i) PROVE IInv'
  BY <1>8, UnmapStep
<1>9. CASE UNCHANGED vars
  BY <1>9 DEF vars, IInv, TypeOK, InStep
<1>. QED
  BY <1>1, <1>2, <1>3, <1>4, <1>5, <1>6, <1>7, <1>8, <1>9 DEF Next, Copying

THEOREM Invariance == Spec => []IInv
BY Initially, Inductive, PTL DEF Spec

\* The pages hold entries of pages, whatever was copied, protected and wiped:
\* no operation leaves flags or addresses that are none (TypeOK).
THEOREM TypeCorrect == Spec => []TypeOK
<1>1. IInv => TypeOK
  BY DEF IInv
<1>. QED
  BY <1>1, Invariance, PTL

-----------------------------------------------------------------------------
(* Translations.                                                           *)

\* One level of the walk through two memories, from entries e and f that
\* agree: the entries reached agree, and lead on to Q if they lead at all.
LEMMA SameDescend ==
    ASSUME NEW m, NEW m2, NEW e, NEW f, NEW i \in Index, NEW P, NEW Q,
           SameButRw(e, f),
           Present(e) /\ ~IsLarge(e) => e.to \in P,
           LeadTo(m, P, Q),
           \A p \in P : m[p][i] \in Entry /\ m2[p][i] \in Entry /\ SameButRw(m[p][i], m2[p][i])
    PROVE  /\ SameButRw(Descend(m, e, i), Descend(m2, f, i))
           /\ Present(Descend(m, e, i)) /\ ~IsLarge(Descend(m, e, i)) => Descend(m, e, i).to \in Q
<1>1. CASE ~(Present(e) /\ ~IsLarge(e))
  <2>1. Descend(m, e, i) = e /\ Descend(m2, f, i) = f
    BY <1>1, SameFacts DEF Descend
  <2>. QED
    BY <1>1, <2>1
<1>2. CASE Present(e) /\ ~IsLarge(e)
  <2>. DEFINE g == m[e.to][i]
              h == m2[f.to][i]
              d == [g EXCEPT !.bits = @ \ ({"rw"} \ e.bits)]
              k == [h EXCEPT !.bits = @ \ ({"rw"} \ f.bits)]
  <2>1. Descend(m, e, i) = d /\ Descend(m2, f, i) = k
    BY <1>2, SameFacts DEF Descend
  <2>2. e.to \in P /\ g \in Entry /\ h \in Entry /\ SameButRw(g, h)
    BY <1>2, SameFacts
  <2>3. Leads(g) => g.to \in Q
    BY <2>2 DEF LeadTo
  <2>. HIDE DEF g, h
  <2>4. /\ d.to = g.to /\ d.bits = g.bits \ ({"rw"} \ e.bits)
        /\ k.to = h.to /\ k.bits = h.bits \ ({"rw"} \ f.bits)
    BY <2>2 DEF Entry
  <2>. HIDE DEF d, k
  <2>5. SameButRw(d, k)
    BY <2>2, <2>4 DEF SameButRw
  <2>6. Present(d) /\ ~IsLarge(d) => d.to \in Q
    BY <2>3, <2>4 DEF Present, IsLarge, Leads
  <2>. QED
    BY <2>1, <2>5, <2>6
<1>. QED
  BY <1>1, <1>2

\* Two walks that meet entries equal but for the write bit translate alike.
LEMMA SameWalk ==
    ASSUME NEW m, NEW m2, NEW r, NEW s, NEW a \in Address, NEW P2, NEW P3, NEW P4,
           SameButRw(m[r][a[1]], m2[s][a[1]]),
           Present(m[r][a[1]]) /\ ~IsLarge(m[r][a[1]]) => m[r][a[1]].to \in P2,
           LeadTo(m, P2, P3), LeadTo(m, P3, P4),
           \A p \in P2 \cup P3 \cup P4, i \in Index :
              m[p][i] \in Entry /\ m2[p][i] \in Entry /\ SameButRw(m[p][i], m2[p][i])
    PROVE  Translate(m2, s, a) = Translate(m, r, a)
<1>. DEFINE e1 == m[r][a[1]]
            f1 == m2[s][a[1]]
            e2 == Descend(m, e1, a[2])
            f2 == Descend(m2, f1, a[2])
            e3 == Descend(m, e2, a[3])
            f3 == Descend(m2, f2, a[3])
            e4 == Descend(m, e3, a[4])
            f4 == Descend(m2, f3, a[4])
<1>1. a[2] \in Index /\ a[3] \in Index /\ a[4] \in Index
  BY DEF Address
<1>2. LeadTo(m, P4, Physical)
  BY DEF LeadTo, Entry
<1>. HIDE DEF e1, f1
<1>3. SameButRw(e1, f1) /\ (Present(e1) /\ ~IsLarge(e1) => e1.to \in P2)
  BY DEF e1, f1
<1>4. SameButRw(e2, f2) /\ (Present(e2) /\ ~IsLarge(e2) => e2.to \in P3)
  BY <1>1, <1>3, SameDescend
<1>. HIDE DEF e2, f2
<1>5. SameButRw(e3, f3) /\ (Present(e3) /\ ~IsLarge(e3) => e3.to \in P4)
  BY <1>1, <1>4, SameDescend
<1>. HIDE DEF e3, f3
<1>6. SameButRw(e4, f4)
  BY <1>1, <1>2, <1>5, SameDescend
<1>. HIDE DEF e4, f4
<1>7. Leaf(m, r, a) = e4 /\ Leaf(m2, s, a) = f4
  BY DEF Leaf, e1, f1, e2, f2, e3, f3, e4, f4
<1>8. Present(e4) <=> Present(f4)
  BY <1>6, SameFacts
<1>9. e4.to = f4.to
  BY <1>6, SameFacts
<1>. QED
  BY <1>7, <1>8, <1>9 DEF Translate

\* The walk through the kernel's own table stays in the kernel's pages.
LEMMA KernelWalk ==
    ASSUME NEW m \in Memory, NEW m2 \in Memory, KernelTables(m), NEW a \in Address, NEW s,
           SameButRw(m[Root][a[1]], m2[s][a[1]]),
           \A p \in KernelPuds \cup KernelPmds \cup KernelPtes, i \in Index :
              SameButRw(m[p][i], m2[p][i])
    PROVE  Translate(m2, s, a) = Translate(m, Root, a)
<1>1. LeadTo(m, {Root}, KernelPuds) /\ LeadTo(m, KernelPuds, KernelPmds) /\ LeadTo(m, KernelPmds, KernelPtes)
  BY DEF KernelTables
<1>2. Present(m[Root][a[1]]) /\ ~IsLarge(m[Root][a[1]]) => m[Root][a[1]].to \in KernelPuds
  BY <1>1 DEF LeadTo, Leads, Address
<1>3. \A p \in KernelPuds \cup KernelPmds \cup KernelPtes, i \in Index :
         m[p][i] \in Entry /\ m2[p][i] \in Entry /\ SameButRw(m[p][i], m2[p][i])
  BY Levels DEF Memory
<1>. QED
  BY <1>1, <1>2, <1>3, SameWalk

\* And that through any table, in the pages that Linked speaks of.
LEMMA AnyWalk ==
    ASSUME NEW m \in Memory, NEW m2, Linked(m), RwOnly(m, m2),
           NEW a \in Address, NEW r \in {Root} \cup NewPgds
    PROVE  Translate(m2, r, a) = Translate(m, r, a)
<1>1. /\ LeadTo(m, {Root} \cup NewPgds, KernelPuds \cup NewPuds)
      /\ LeadTo(m, KernelPuds \cup NewPuds, KernelPmds \cup NewPmds)
      /\ LeadTo(m, KernelPmds \cup NewPmds, KernelPtes \cup NewPtes)
  BY DEF Linked, KernelTables, LeadTo
<1>2. Present(m[r][a[1]]) /\ ~IsLarge(m[r][a[1]]) => m[r][a[1]].to \in KernelPuds \cup NewPuds
  BY <1>1 DEF LeadTo, Leads, Address
<1>3. \A p \in Page, i \in Index :
         m[p][i] \in Entry /\ m2[p][i] \in Entry /\ SameButRw(m[p][i], m2[p][i])
  BY DEF Memory, RwOnly
<1>4. SameButRw(m[r][a[1]], m2[r][a[1]])
  BY <1>3, Levels DEF Address
<1>. DEFINE P2 == KernelPuds \cup NewPuds
            P3 == KernelPmds \cup NewPmds
            P4 == KernelPtes \cup NewPtes
<1>5. P2 \cup P3 \cup P4 \subseteq Page
  BY Levels
<1>6. \A p \in P2 \cup P3 \cup P4, i \in Index :
         m[p][i] \in Entry /\ m2[p][i] \in Entry /\ SameButRw(m[p][i], m2[p][i])
  BY <1>3, <1>5
<1>. HIDE DEF P2, P3, P4
<1>. QED
  BY <1>1, <1>2, <1>4, <1>6, SameWalk DEF P2, P3, P4

\* update_pagetable keeps the two tables in step for as long as both are only
\* walked and the kernel only unmaps; a deep copy shares no page of the kernel
\* half with the original (ApartOrInSync).
THEOREM ApartOrSync == Spec => []ApartOrInSync
<1>1. IInv => ApartOrInSync
  <2>. SUFFICES ASSUME IInv, copy # NoPage PROVE ApartOrInSync
    BY DEF ApartOrInSync
  <2>1. mem \in Memory /\ Linked(mem) /\ KernelTables(mem) /\ copy \in NewPgds
    BY DEF IInv, TypeOK, Memory, Linked
  <2>2. CASE synced
    <3>1. ASSUME NEW a \in KernelAddress
          PROVE  Translate(mem, copy, a) = Translate(mem, Root, a)
      <4>1. a \in Address /\ a[1] \in KernelHalf
        BY DEF KernelAddress, KernelHalf, Address
      <4>2. SameButRw(mem[Root][a[1]], mem[copy][a[1]])
        BY <2>2, <4>1 DEF IInv, InStep, SameButRw
      <4>3. \A p \in KernelPuds \cup KernelPmds \cup KernelPtes, i \in Index :
               SameButRw(mem[p][i], mem[p][i])
        BY DEF SameButRw
      <4>. QED
        BY <2>1, <4>1, <4>2, <4>3, KernelWalk
    <3>. QED
      BY <2>2, <3>1 DEF ApartOrInSync
  <2>3. CASE ~synced
    <3>1. KernelPages(mem, Root) \subseteq KernelPuds \cup KernelPmds \cup KernelPtes
      BY <2>1, PagesBelow DEF KernelPages
    <3>2. CASE \A i \in KernelHalf : IsInvalid(mem[Root][i])
      <4>1. KernelPages(mem, Root) = {}
        <5>1. PudPages(mem, Root) = {}
          BY <3>2 DEF PudPages, TablesOf, IsTable
        <5>2. PmdPages(mem, Root) = {}
          BY <5>1 DEF PmdPages
        <5>3. PtePages(mem, Root) = {}
          BY <5>2 DEF PtePages
        <5>. QED
          BY <5>1, <5>2, <5>3 DEF KernelPages
      <4>. QED
        BY <2>3, <4>1 DEF ApartOrInSync
    <3>3. CASE \A i \in KernelHalf : ~IsInvalid(mem[copy][i]) => mem[copy][i].to \in NewPuds
      <4>1. KernelPages(mem, copy) \subseteq NewPuds \cup NewPmds \cup NewPtes
        BY <2>1, <3>3, PagesBelow DEF KernelPages
      <4>2. (NewPuds \cup NewPmds \cup NewPtes) \cap (KernelPuds \cup KernelPmds \cup KernelPtes) = {}
        BY PageAssumption DEF KernelPage, NewPage
      <4>. QED
        BY <2>3, <3>1, <4>1, <4>2 DEF ApartOrInSync
    <3>. QED
      BY <2>3, <3>2, <3>3 DEF IInv, InStep
  <2>. QED
    BY <2>2, <2>3
<1>. QED
  BY <1>1, Invariance, PTL

LEMMA CopyingKernelPages ==
    ASSUME IInv, Copying, NEW p \in KernelPage, NEW i \in Index
    PROVE  mem'[p][i] = mem[p][i] \/ (copy = NoPage /\ mem'[p][i] = MakeRw(mem[p][i]))
<1>1. mem \in Memory /\ Linked(mem) /\ calls \in 0 .. MaxCopies /\ p \in Page
  BY DEF IInv, TypeOK, Memory, Page
<1>2. ASSUME NEW a \in KernelAddress, SetPgdCp(a)
      PROVE  copy = NoPage /\ (mem'[p][i] = mem[p][i] \/ mem'[p][i] = MakeRw(mem[p][i]))
  <2>. DEFINE n == calls + 1
              c == CopyPagetable(mem, n)
  <2>1. n \in Call /\ NewRoot(n) \in NewPgds
    BY <1>1, <1>2, CallStep DEF SetPgdCp
  <2>2. IsCopy(c, mem, n, NewRoot(n), KernelHalf)
    BY <2>1, CopyPages DEF CopyPagetable
  <2>3. mem' = Find(c, a)
    BY <1>2 DEF SetPgdCp
  <2>. HIDE DEF n, c
  <2>4. mem'[p][i] = c[p][i] \/ mem'[p][i] = MakeRw(c[p][i])
    BY <1>1, <2>3 DEF Find
  <2>5. c[p] = mem[p]
    BY <2>2 DEF IsCopy
  <2>. QED
    BY <1>2, <2>4, <2>5 DEF SetPgdCp
<1>3. ASSUME copy # NoPage, NEW half,
             mem' = CopyHalf(mem, calls + 1, copy, half)
      PROVE  mem'[p] = mem[p]
  <2>1. copy \in NewPgds
    BY <1>3 DEF IInv, TypeOK
  <2>2. IsCopy(mem', mem, calls + 1, copy, half)
    BY <1>3, <2>1, CopyPages
  <2>. QED
    BY <2>2 DEF IsCopy
<1>4. CASE CpOldPgHalf
  BY <1>3, <1>4 DEF CpOldPgHalf, CopyPagetableHalf
<1>5. CASE UpdatePagetable2
  BY <1>3, <1>5 DEF UpdatePagetable2, CopyPagetableHalf2
<1>6. CASE UpdatePagetable
  <2>1. copy # p
    BY <1>6, PageAssumption DEF UpdatePagetable, IInv, TypeOK, NewPage
  <2>2. mem'[p] = mem[p]
    BY <1>1, <1>6, <2>1 DEF UpdatePagetable, Memory
  <2>. QED
    BY <2>2
<1>. QED
  BY <1>2, <1>4, <1>5, <1>6 DEF Copying

\* Making or updating a copy leaves every translation of the kernel's own table:
\* copy_pagetable and its halves write new pages and the copy's pgd, and find
\* sets write bits, in the call that makes the copy and in no other (OriginalKept).
THEOREM OriginalUntouched == Spec => OriginalKept
<1>. DEFINE Kept ==
       /\ \A a \in Address : Translate(mem', Root, a) = Translate(mem, Root, a)
       /\ \A p \in KernelPage, i \in Index :
             mem'[p][i] # mem[p][i] => copy = NoPage /\ mem'[p][i] = MakeRw(mem[p][i])
<1>1. IInv /\ IInv' /\ [Next]_vars => [Copying => Kept]_vars
  <2>. SUFFICES ASSUME IInv, IInv', Copying PROVE Kept
    OBVIOUS
  <2>1. mem \in Memory /\ mem' \in Memory /\ KernelTables(mem) /\ KernelPage \subseteq Page
    BY DEF IInv, TypeOK, Memory, Linked, Page
  <2>2. \A p \in KernelPage, i \in Index : SameButRw(mem[p][i], mem'[p][i])
    <3>1. \A p \in KernelPage, i \in Index : mem[p][i] \in Entry
      BY <2>1 DEF Memory
    <3>. QED
      BY <3>1, CopyingKernelPages, RwFacts
  <2>3. ASSUME NEW a \in Address PROVE Translate(mem', Root, a) = Translate(mem, Root, a)
    <3>1. a[1] \in Index
      BY DEF Address
    <3>. QED
      BY <2>1, <2>2, <3>1, KernelWalk DEF KernelPage
  <2>. QED
    BY <2>3, CopyingKernelPages
<1>. QED
  BY <1>1, Invariance, PTL DEF Spec, OriginalKept

\* set_pgtable_prot3 to 6 set and clear write bits and change no translation, in
\* the table they walk and in one that shares pages with it (WalksKeepMappings).
THEOREM WalksKeep == Spec => WalksKeepMappings
<1>1. IInv /\ [Next]_vars
      => [(\E root \in Roots : Walk(root)) =>
            \A root \in Roots, a \in Address :
               Translate(mem', root, a) = Translate(mem, root, a)]_vars
  <2>. SUFFICES ASSUME IInv, NEW walked \in Roots, Walk(walked),
                       NEW root \in Roots, NEW a \in Address
                PROVE  Translate(mem', root, a) = Translate(mem, root, a)
    OBVIOUS
  <2>1. mem \in Memory /\ Linked(mem) /\ root \in {Root} \cup NewPgds
    BY RootsArePgds DEF IInv, TypeOK, Memory
  <2>2. RwOnly(mem, mem')
    BY WalkRw DEF IInv
  <2>. QED
    BY <2>1, <2>2, AnyWalk
<1>. QED
  BY <1>1, Invariance, PTL DEF Spec, WalksKeepMappings

-----------------------------------------------------------------------------
(* What a copy translates to.                                              *)

\* The entry reached, less the right to write if the entry above has none.
Below(e, bits) == [e EXCEPT !.bits = @ \ ({"rw"} \ bits)]

LEMMA BelowFacts ==
    ASSUME NEW e \in Entry, NEW bits
    PROVE  /\ Below(e, bits).to = e.to
           /\ Below(e, bits).bits = e.bits \ ({"rw"} \ bits)
           /\ Present(Below(e, bits)) <=> Present(e)
           /\ IsLarge(Below(e, bits)) <=> IsLarge(e)
<1>1. Below(e, bits).to = e.to /\ Below(e, bits).bits = e.bits \ ({"rw"} \ bits)
  BY DEF Below, Entry
<1>. QED
  BY <1>1 DEF Present, IsLarge

LEMMA DescendFacts ==
    ASSUME NEW m, NEW e, NEW i
    PROVE  /\ Present(e) /\ ~IsLarge(e) => Descend(m, e, i) = Below(m[e.to][i], e.bits)
           /\ ~(Present(e) /\ ~IsLarge(e)) => Descend(m, e, i) = e
BY DEF Descend, Below

\* A walk that has come to an end stays there.
LEMMA LeafAt ==
    ASSUME NEW m, NEW r, NEW a
    PROVE  LET e1 == m[r][a[1]]
               e2 == Descend(m, e1, a[2])
               e3 == Descend(m, e2, a[3])
           IN  /\ Leaf(m, r, a) = Descend(m, e3, a[4])
               /\ ~(Present(e1) /\ ~IsLarge(e1)) => Leaf(m, r, a) = e1
               /\ ~(Present(e2) /\ ~IsLarge(e2)) => Leaf(m, r, a) = e2
               /\ ~(Present(e3) /\ ~IsLarge(e3)) => Leaf(m, r, a) = e3
<1>1. Leaf(m, r, a) = Descend(m, Descend(m, Descend(m, m[r][a[1]], a[2]), a[3]), a[4])
  BY DEF Leaf
<1>. QED
  BY <1>1, DescendFacts

\* The two ways for walks x and y to end alike.
Alike(x, y) == x = y \/ (~Present(x) /\ ~Present(y))

LEMMA AlikeTranslates ==
    ASSUME NEW m, NEW c, NEW r, NEW s, NEW a, Alike(Leaf(m, r, a), Leaf(c, s, a))
    PROVE  /\ Translate(c, s, a) = Translate(m, r, a)
           /\ Translate(m, r, a) # NoPage => Leaf(c, s, a) = Leaf(m, r, a)
BY DEF Alike, Translate

LEMMA CopyLeaf ==
    ASSUME NEW m \in Memory, Linked(m), NEW n \in Call, NEW new \in NewPgds, NEW c,
           NEW half, half \subseteq Index, IsCopy(c, m, n, new, half),
           NEW a \in Address, a[1] \in half, ~Lost(m, a)
    PROVE  Alike(Leaf(m, Root, a), Leaf(c, new, a))
<1>. DEFINE p2 == <<n, a[1], K, K>>
            p3 == <<n, a[1], a[2], K>>
            p4 == <<n, a[1], a[2], a[3]>>
            e1 == m[Root][a[1]]
            f1 == c[new][a[1]]
            e2 == OldPud(m, a[1])[a[2]]
            f2 == c[p2][a[2]]
            e3 == OldPmd(m, a[1], a[2])[a[3]]
            f3 == c[p3][a[3]]
            d2 == Descend(m, e1, a[2])
            g2 == Descend(c, f1, a[2])
            d3 == Descend(m, d2, a[3])
            g3 == Descend(c, g2, a[3])
<1>1. a[1] \in half /\ a[1] \in Index /\ a[2] \in Index /\ a[3] \in Index /\ a[4] \in Index
  BY DEF Address
<1>2. KernelTables(m) /\ c \in Memory
  BY CopyType DEF Linked
<1>3. p2 \in NewPuds /\ p3 \in NewPmds /\ p4 \in NewPtes
  BY <1>1, Names
<1>4. e1 \in Entry /\ ~IsLarge(e1) /\ (Leads(e1) => e1.to \in KernelPuds)
  BY <1>1, <1>2, Levels DEF Memory, KernelTables, LeadTo
<1>5. f1 = CopiedPgd(m, n, a[1])
  BY <1>1, <1>3 DEF IsCopy
<1>6. CASE IsInvalid(e1)
  <2>1. f1 = e1
    BY <1>5, <1>6 DEF CopiedPgd
  <2>2. ~Present(e1)
    BY <1>4, <1>6, Levels DEF Leads, IsInvalid
  <2>3. Leaf(m, Root, a) = e1 /\ Leaf(c, new, a) = f1
    BY <2>1, <2>2, LeafAt
  <2>. QED
    BY <2>1, <2>3 DEF Alike
<1>7. CASE ~IsInvalid(e1) /\ ~Present(e1)
  <2>1. f1.bits = e1.bits
    <3>1. f1 = Redirected(e1, p2) /\ p2 \in Page
      BY <1>3, <1>5, <1>7, Levels DEF CopiedPgd
    <3>. QED
      BY <1>4, <3>1, RedirectedFacts
  <2>2. ~Present(f1)
    BY <1>7, <2>1 DEF Present
  <2>3. Leaf(m, Root, a) = e1 /\ Leaf(c, new, a) = f1
    BY <1>7, <2>2, LeafAt
  <2>. QED
    BY <1>7, <2>2, <2>3 DEF Alike
<1>8. CASE ~IsInvalid(e1) /\ Present(e1)
  <2>1. f1.bits = e1.bits /\ f1.to = p2 /\ Present(f1) /\ ~IsLarge(f1)
    <3>1. f1 = Redirected(e1, p2) /\ p2 \in Page
      BY <1>3, <1>5, <1>8, Levels DEF CopiedPgd
    <3>2. f1.bits = e1.bits /\ f1.to = p2
      BY <1>4, <3>1, RedirectedFacts
    <3>. QED
      BY <1>4, <1>8, <3>2 DEF Present, IsLarge
  <2>2. e1.to \in KernelPuds
    BY <1>4, <1>8 DEF Leads
  <2>3. p2 \in FreshPuds(m, n, half)
    BY <1>1, <1>3, <1>8 DEF FreshPuds
  <2>4. f2 = CopiedPud(m, n, a[1], a[2])
    <3>1. c[p2] = [i \in Index |-> CopiedPud(m, n, p2[2], i)]
      BY <1>3, <2>3 DEF IsCopy
    <3>2. p2[2] = a[1]
      OBVIOUS
    <3>. QED
      BY <1>1, <3>1, <3>2
  <2>5. e2 = m[e1.to][a[2]] /\ e2 \in Entry /\ (Leads(e2) => e2.to \in KernelPmds)
    BY <1>1, <1>2, <2>2, Levels DEF Memory, KernelTables, LeadTo, OldPud
  <2>6. f2 \in Entry
    BY <1>1, <1>2, <1>3, Levels DEF Memory
  <2>7. d2 = Below(e2, e1.bits) /\ g2 = Below(f2, e1.bits)
    BY <1>4, <1>8, <2>1, <2>5, DescendFacts
  <2>. HIDE DEF e1, f1, e2, f2, d2, g2
  <2>8. CASE ~IsTable(e2)
    <3>1. f2 = e2
      BY <2>4, <2>8 DEF CopiedPud, e2
    <3>2. ~(Present(d2) /\ ~IsLarge(d2)) /\ d2 = g2
      <4>1. ~(Present(e2) /\ ~IsLarge(e2))
        BY <2>5, <2>8, Levels DEF IsTable, Leads, IsInvalid
      <4>. QED
        BY <2>5, <2>7, <3>1, <4>1, BelowFacts
    <3>3. Leaf(m, Root, a) = d2 /\ Leaf(c, new, a) = g2
      BY <3>2, LeafAt DEF d2, g2, e1, f1
    <3>. QED
      BY <3>2, <3>3 DEF Alike
  <2>9. CASE IsTable(e2)
    <3>1. f2 = Redirected(e2, p3)
      BY <2>4, <2>9 DEF CopiedPud, e2
    <3>2. f2.to = p3 /\ f2.bits = e2.bits
      BY <1>3, <2>5, <3>1, RedirectedFacts, Levels
    <3>3. /\ d2.to = e2.to /\ g2.to = p3 /\ g2.bits = d2.bits
          /\ ~IsLarge(d2) /\ ~IsLarge(g2)
          /\ Present(d2) <=> Present(e2)
          /\ Present(g2) <=> Present(e2)
      <4>1. /\ d2.to = e2.to /\ d2.bits = e2.bits \ ({"rw"} \ e1.bits)
            /\ g2.to = p3 /\ g2.bits = e2.bits \ ({"rw"} \ e1.bits)
        BY <2>5, <2>6, <2>7, <3>2, BelowFacts
      <4>. QED
        BY <2>9, <4>1 DEF IsTable, IsLarge, Present
    <3>4. CASE ~Present(e2)
      <4>1. Leaf(m, Root, a) = d2 /\ Leaf(c, new, a) = g2
        BY <3>3, <3>4, LeafAt DEF d2, g2, e1, f1
      <4>. QED
        BY <3>3, <3>4, <4>1 DEF Alike
    <3>5. CASE Present(e2)
      <4>1. e2.to \in KernelPmds
        BY <2>5, <3>5, <2>9 DEF Leads, IsTable
      <4>2. p3 \in FreshPmds(m, n, half)
        BY <1>3, <2>3, <2>9 DEF FreshPmds, e2
      <4>3. f3 = CopiedPmd(m, n, a[1], a[2], a[3])
        <5>1. c[p3] = [i \in Index |-> CopiedPmd(m, n, p3[2], p3[3], i)]
          BY <1>3, <4>2 DEF IsCopy
        <5>2. p3[2] = a[1] /\ p3[3] = a[2]
          OBVIOUS
        <5>. HIDE DEF p3
        <5>. QED
          BY <1>1, <5>1, <5>2 DEF f3
      <4>. DEFINE old == OldPmd(m, a[1], a[2])
      <4>13. /\ ~(a[2] = a[3] /\ \E j \in Index : j > a[3] /\ IsTable(old[j]))
             /\ ~(IsLarge(e3) /\ IsInvalid(e3))
        BY <1>4, <1>8, <2>9 DEF Lost, IsTable, e1, e2
      <4>4. LastStored(old, a[2], a[3]) = a[3]
        <5>1. a[2] = a[3] => \A j \in Index : j > a[3] => ~IsTable(old[j])
          BY <4>13
        <5>. HIDE DEF old
        <5>. QED
          BY <1>1, <5>1, LastStoredFacts
      <4>5. f3 = IF IsInvalid(e3) THEN Null ELSE IF IsLarge(e3) THEN e3 ELSE Redirected(e3, p4)
        BY <4>3, <4>4 DEF CopiedPmd
      <4>6. e3 = m[e2.to][a[3]] /\ e3 \in Entry /\ (Leads(e3) => e3.to \in KernelPtes)
        BY <1>1, <1>2, <4>1, Levels DEF Memory, KernelTables, LeadTo, OldPmd, e2
      <4>7. f3 \in Entry
        BY <1>1, <1>2, <1>3, Levels DEF Memory
      <4>8. d3 = Below(e3, d2.bits) /\ g3 = Below(f3, d2.bits)
        BY <3>3, <3>5, <4>6, DescendFacts
      <4>. DEFINE b == d2.bits
      <4>. HIDE DEF e3, f3, d3, g3, b
      <4>9. /\ d3.to = e3.to /\ d3.bits = e3.bits \ ({"rw"} \ b)
            /\ g3.to = f3.to /\ g3.bits = f3.bits \ ({"rw"} \ b)
            /\ Present(d3) <=> Present(e3)
            /\ IsLarge(d3) <=> IsLarge(e3)
            /\ Present(g3) <=> Present(f3)
            /\ IsLarge(g3) <=> IsLarge(f3)
        BY <4>6, <4>7, <4>8, BelowFacts DEF b
      <4>10. CASE IsInvalid(e3)
        <5>1. ~Present(f3)
          BY <4>5, <4>10 DEF Null, Present
        <5>2. Leaf(c, new, a) = g3 /\ ~Present(g3)
          BY <4>9, <5>1, LeafAt DEF g3, g2, f1
        <5>3. ~IsLarge(e3) /\ ~Present(e3)
          BY <4>6, <4>10, <4>13, Levels DEF Leads, IsInvalid
        <5>4. Leaf(m, Root, a) = d3 /\ ~Present(d3)
          BY <4>9, <5>3, LeafAt DEF d3, d2, e1
        <5>. QED
          BY <5>2, <5>4 DEF Alike
      <4>11. CASE ~IsInvalid(e3) /\ IsLarge(e3)
        <5>1. f3 = e3
          BY <4>5, <4>11
        <5>2. d3 = g3 /\ IsLarge(d3)
          BY <4>8, <4>9, <4>11, <5>1
        <5>3. Leaf(m, Root, a) = d3 /\ Leaf(c, new, a) = g3
          BY <5>2, LeafAt DEF d3, g3, d2, g2, e1, f1
        <5>. QED
          BY <5>2, <5>3 DEF Alike
      <4>12. CASE ~IsInvalid(e3) /\ ~IsLarge(e3)
        <5>1. f3.to = p4 /\ f3.bits = e3.bits
          BY <1>3, <4>5, <4>6, <4>12, RedirectedFacts, Levels
        <5>2. g3.to = p4 /\ g3.bits = d3.bits /\ d3.to = e3.to
          BY <4>9, <5>1
        <5>3. ~IsLarge(d3) /\ ~IsLarge(g3) /\ (Present(d3) <=> Present(g3))
          BY <4>9, <4>12, <5>2 DEF IsLarge, Present
        <5>4. CASE ~Present(d3)
          <6>1. Leaf(m, Root, a) = d3 /\ Leaf(c, new, a) = g3
            BY <5>3, <5>4, LeafAt DEF d3, g3, d2, g2, e1, f1
          <6>. QED
            BY <5>3, <5>4, <6>1 DEF Alike
        <5>5. CASE Present(d3)
          <6>1. p4 \in FreshPtes(m, n, half)
            BY <1>3, <4>2, <4>12 DEF FreshPtes, IsTable, e3
          <6>2. c[p4] = OldPte(m, a[1], a[2], a[3])
            BY <1>3, <6>1 DEF IsCopy
          <6>3. c[g3.to][a[4]] = m[d3.to][a[4]]
            BY <5>2, <6>2 DEF OldPte, e3
          <6>4. Descend(m, d3, a[4]) = Descend(c, g3, a[4])
            BY <5>2, <5>3, <5>5, <6>3, DescendFacts
          <6>5. Leaf(m, Root, a) = Descend(m, d3, a[4]) /\ Leaf(c, new, a) = Descend(c, g3, a[4])
            BY LeafAt DEF d3, g3, d2, g2, e1, f1
          <6>. QED
            BY <6>4, <6>5 DEF Alike
        <5>. QED
          BY <5>4, <5>5
      <4>. QED
        BY <4>10, <4>11, <4>12
    <3>. QED
      BY <3>4, <3>5
  <2>. QED
    BY <2>8, <2>9
<1>. QED
  BY <1>6, <1>7, <1>8

LEMMA CopyMaps ==
    ASSUME IInv, NEW n \in Call, NEW pgd \in NewPgds, NEW half, half \subseteq Index,
           NEW As, As \subseteq {a \in Address : a[1] \in half}
    PROVE  MapsAsRoot(CopyHalf(mem, n, pgd, half), pgd, As)
<1>. DEFINE c == CopyHalf(mem, n, pgd, half)
<1>1. mem \in Memory /\ Linked(mem)
  BY DEF IInv, TypeOK, Memory
<1>2. IsCopy(c, mem, n, pgd, half)
  BY CopyPages
<1>. HIDE DEF c
<1>3. ASSUME NEW a \in As, ~Lost(mem, a)
      PROVE  /\ Translate(c, pgd, a) = Translate(mem, Root, a)
             /\ Translate(mem, Root, a) # NoPage => Leaf(c, pgd, a) = Leaf(mem, Root, a)
  <2>1. Alike(Leaf(mem, Root, a), Leaf(c, pgd, a))
    BY <1>1, <1>2, <1>3, CopyLeaf
  <2>. QED
    BY <2>1, AlikeTranslates
<1>4. MapsAsRoot(c, pgd, As)
  BY <1>3 DEF MapsAsRoot
<1>. QED
  BY <1>4 DEF c

\* A copy made in any reachable memory maps every address of its half as the
\* original does and with the same bits, but for the pmd entries with the index of
\* their pud before another table, and large pages at physical address 0 (Lost).
THEOREM CopiesTranslate == Spec => []CopyTranslates
<1>1. IInv => CopyTranslates
  <2>. SUFFICES ASSUME IInv, calls < MaxCopies
                PROVE  CopyTranslates
    BY DEF CopyTranslates
  <2>. DEFINE n == calls + 1
  <2>1. n \in Call /\ NewRoot(n) \in NewPgds /\ (copy # NoPage => copy \in NewPgds)
    BY CallStep DEF IInv, TypeOK
  <2>2. /\ KernelAddress \subseteq {a \in Address : a[1] \in KernelHalf}
        /\ UserAddress \subseteq {a \in Address : a[1] \in UserHalf}
    BY DEF KernelAddress, UserAddress, KernelHalf, UserHalf, Address
  <2>. HIDE DEF n
  <2>3. MapsAsRoot(CopyPagetable(mem, n), NewRoot(n), KernelAddress)
    BY <2>1, <2>2, CopyMaps, Halves DEF CopyPagetable
  <2>4. copy # NoPage => MapsAsRoot(CopyPagetableHalf(mem, n, copy), copy, KernelAddress)
    BY <2>1, <2>2, CopyMaps, Halves DEF CopyPagetableHalf
  <2>5. copy # NoPage => MapsAsRoot(CopyPagetableHalf2(mem, n, copy), copy, UserAddress)
    BY <2>1, <2>2, CopyMaps, Halves DEF CopyPagetableHalf2
  <2>. QED
    BY <2>3, <2>4, <2>5 DEF CopyTranslates, n
<1>. QED
  BY <1>1, Invariance, PTL

=============================================================================
