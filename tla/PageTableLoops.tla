---------------------------- MODULE PageTableLoops ----------------------------
(***************************************************************************)
(* The three nested loops of copy_pg.h, entry by entry and store by store; *)
(* PageTableCopy states what they leave behind.                            *)
(* Here m is the memory so far and call n's new pages are named as there.  *)
(***************************************************************************)
EXTENDS PageTableCopy

Put(m, p, i, e) == [m EXCEPT ![p][i] = e]

\* Mutant: flag_pud for flag_pmd.
LoopPmdFlags(m, old, n, i1, i2, i3) ==
    LET e   == m[old][i3]
        pte == <<n, i1, i2, i3>>
        new == <<n, i1, i2, K>>
        to  == Redirected(m[<<n, i1, K, K>>][i2], pte)
        two == Put(Put(m, new, i3, to), new, i2, to)
    IN  IF IsInvalid(e)    THEN Put(m, new, i3, Null)
        ELSE IF IsLarge(e) THEN Put(m, new, i3, e)
        ELSE [two EXCEPT ![pte] = m[e.to]]

\* set_pmd(pmd_new+i2, ...) follows the assignment to pmd_new[i3].
LoopPmd(m, old, n, i1, i2, i3) ==
    LET e   == m[old][i3]
        pte == <<n, i1, i2, i3>>
        new == <<n, i1, i2, K>>
        two == Put(Put(m, new, i3, Redirected(e, pte)), new, i2, Redirected(e, pte))
    IN  IF IsInvalid(e)    THEN Put(m, new, i3, Null)
        ELSE IF IsLarge(e) THEN Put(m, new, i3, e)
        ELSE [two EXCEPT ![pte] = m[e.to]]

\* for (i3 = 0; i3 < 512; i3++), and so on: f[j] is the memory before iteration j.
PmdLoop(m, old, n, i1, i2) ==
    LET f[j \in 0 .. K] == IF j = 0 THEN m ELSE LoopPmd(f[j - 1], old, n, i1, i2, j - 1)
    IN  f[K]

LoopPud(m, old, n, i1, i2) ==
    LET e   == m[old][i2]
        new == <<n, i1, K, K>>
        one == Put(m, new, i2, Redirected(e, <<n, i1, i2, K>>))
    IN  IF IsTable(e) THEN PmdLoop(one, e.to, n, i1, i2) ELSE Put(m, new, i2, e)

PudLoop(m, old, n, i1) ==
    LET f[j \in 0 .. K] == IF j = 0 THEN m ELSE LoopPud(f[j - 1], old, n, i1, j - 1)
    IN  f[K]

LoopPgd(m, n, pgd, i1) ==
    LET e   == m[Root][i1]
        one == Put(m, pgd, i1, Redirected(e, <<n, i1, K, K>>))
    IN  IF IsInvalid(e) THEN Put(m, pgd, i1, e) ELSE PudLoop(one, e.to, n, i1)

PgdLoop(m, n, pgd, lo, hi) ==
    LET f[j \in lo .. hi] == IF j = lo THEN m ELSE LoopPgd(f[j - 1], n, pgd, j - 1)
    IN  f[hi]

\* The loops leave the memory as PageTableCopy has it: of the several stores to
\* one entry the one it names is the last, no page is read after the call wrote
\* it, and what a call leaves of the old entries stays.
LoopsAgree ==
    LET n == calls + 1 IN
    calls < MaxCopies =>
       /\ PgdLoop(mem, n, NewRoot(n), K \div 2, K) = CopyPagetable(mem, n)
       /\ copy # NoPage =>
          /\ PgdLoop(mem, n, copy, K \div 2, K) = CopyPagetableHalf(mem, n, copy)
          /\ PgdLoop(mem, n, copy, 0, K \div 2) = CopyPagetableHalf2(mem, n, copy)

\* What the loops of copy_pagetable leave maps the kernel half as the original
\* does, and what those of its halves leave maps their half so, with the same
\* right to write and but for what Lost names: though they store to an entry more
\* than once and read tables between the stores, whatever has been unmapped,
\* protected and copied before.
LoopsTranslate ==
    LET n == calls + 1 IN
    calls < MaxCopies =>
       /\ MapsAsRoot(PgdLoop(mem, n, NewRoot(n), K \div 2, K), NewRoot(n), KernelAddress)
       /\ copy # NoPage =>
          /\ MapsAsRoot(PgdLoop(mem, n, copy, K \div 2, K), copy, KernelAddress)
          /\ MapsAsRoot(PgdLoop(mem, n, copy, 0, K \div 2), copy, UserAddress)

=============================================================================
