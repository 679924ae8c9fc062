-------------------------- MODULE MCPageTableCopy --------------------------
(* Kernel tables of two entries a page, with large and huge pages between. *)
EXTENDS PageTableLoops, TLC

\* Page 1 is the pgd, 2 the kernel's pud page, 3 + i2 its pmd pages,
\* 5 + 2 * i2 + i3 its pte pages and 9 the pud page of the user half.  A page of
\* the kernel's is named as one of call 0, which there is not.
Old(n)     == <<0, n, 0, 0>>
Olds(S)    == {Old(n) : n \in S}
MCZero     == Old(0)
MCRoot     == Old(1)
MCPuds     == Olds({2, 9})
MCPmds     == Olds({3, 4})
MCPtes     == Olds(5 .. 8)
MCPhysical == Page \cup Olds({0} \cup 100 .. 140)

To(page, bits) == [to |-> Old(page), bits |-> {"present"} \cup bits]
Frame(n) == 100 + n

Pte(i, j)    == To(Frame(2 * i + j), IF j = 0 THEN {"rw"} ELSE {})
Table(p, rw) == To(p, IF rw THEN {"rw"} ELSE {})
Large(f)     == To(f, {"large", "rw"})

KernelMemory(pud1, pmd) ==
    [p \in 1 .. 9 |-> [i \in Index |->
        CASE p = 1 -> IF i = 0 THEN Table(9, TRUE) ELSE Table(2, TRUE)
          [] p = 2 -> IF i = 0 THEN Table(3, TRUE) ELSE pud1
          [] p \in {3, 4} -> pmd[<<p - 3, i>>]
          [] p \in 5 .. 8 -> Pte(p - 5, i)
          [] p = 9 -> IF i = 0 THEN Large(Frame(40)) ELSE Null]]
Memory(pud1, pmd) ==
    [p \in Page |-> IF p \in NewPage THEN [i \in Index |-> Null]
                    ELSE KernelMemory(pud1, pmd)[p[2]]]

\* The direct map begins with a large page at physical address 0 (low).
\* The pmd entries at <<0, 0>>, <<0, 1>> and <<1, 0>>; more holes come with
\* Unmap.
Pmds(a, b, c) ==
    (<<0, 0>> :> a) @@ (<<0, 1>> :> b) @@ (<<1, 0>> :> c) @@ (<<1, 1>> :> Table(8, FALSE))

AllTables == Pmds(Table(5, TRUE), Table(6, FALSE), Table(7, TRUE))
Mixed(low) == Pmds(Table(5, TRUE), Large(low), Large(Frame(21)))
LargeFirst == Pmds(Large(Frame(20)), Table(6, FALSE), Null)

Table1 == Table(4, FALSE)
Huge   == Large(Frame(30))

MCKernels ==
    {Memory(Table1, AllTables), Memory(Table1, Mixed(0)),
     Memory(Table1, LargeFirst), Memory(Huge, Mixed(0))}
MCKernelsHigh ==
    {Memory(Table1, AllTables), Memory(Table1, Mixed(Frame(22)))}

=============================================================================
