------------------------ MODULE PageTableLoops_proofs ------------------------
(***************************************************************************)
(* The loops of PageTableLoops compute what PageTableCopy states, for      *)
(* tables of any size.                                                     *)
(*                                                                         *)
(* The memory is followed from store to store: At is what it holds when    *)
(* given entries have been done.  An iteration adds its entry, so a loop   *)
(* adds them all; that the recursive function of a loop is the one found   *)
(* is an induction, by the least index where the two would differ.         *)
(***************************************************************************)
EXTENDS PageTableLoops, PageTableCopy_proofs

\* f is a function on S.
IsFcn(f, S) == f = [x \in S |-> f[x]]

-----------------------------------------------------------------------------
(* Loops.                                                                  *)

\* A set of numbers that is not empty has a least.
LEMMA LeastExists ==
    ASSUME NEW S, S \subseteq Nat, S # {}
    PROVE  \E j \in S : \A k \in S : j <= k
<1>. DEFINE R == {ss \in Nat \X Nat : ss[1] < ss[2]}
<1>1. IsWellFoundedOn({ss \in Nat \X Nat : ss[1] < ss[2]}, Nat)
  BY NatLessThanWellFounded DEF OpToRel
<1>. HIDE DEF R
<1>2. PICK j \in S : \A k \in S : ~(<<k, j>> \in R)
  BY <1>1, WFMin DEF R
<1>3. ASSUME NEW k \in S PROVE j <= k
  <2>1. ~(k < j) /\ k \in Nat /\ j \in Nat
    BY <1>2 DEF R
  <2>. QED
    BY <2>1
<1>. QED
  BY <1>3

\* Two functions that begin alike and go on alike are one.
LEMMA SameLoop ==
    ASSUME NEW lo \in Nat, NEW hi \in Nat, NEW F, NEW G,
           IsFcn(F, lo .. hi), IsFcn(G, lo .. hi), F[lo] = G[lo],
           \A j \in lo .. hi : j # lo /\ F[j - 1] = G[j - 1] => F[j] = G[j]
    PROVE  F = G
<1>. DEFINE T == {j \in lo .. hi : F[j] # G[j]}
<1>1. CASE T = {}
  <2>1. \A j \in lo .. hi : F[j] = G[j]
    BY <1>1
  <2>. QED
    BY <2>1 DEF IsFcn
<1>2. CASE T # {}
  <2>1. T \subseteq Nat
    OBVIOUS
  <2>. HIDE DEF T
  <2>2. PICK j \in T : \A k \in T : j <= k
    BY <1>2, <2>1, LeastExists
  <2>3. j \in lo .. hi /\ F[j] # G[j]
    BY DEF T
  <2>4. j # lo
    BY <2>3
  <2>5. j \in lo + 1 .. hi /\ j - 1 \in lo .. hi /\ ~(j <= j - 1)
    BY <2>3, <2>4
  <2>6. F[j - 1] = G[j - 1]
    BY <2>2, <2>5 DEF T
  <2>. QED
    BY <2>3, <2>5, <2>6
<1>. QED
  BY <1>1, <1>2

-----------------------------------------------------------------------------
(* The memory between two iterations.                                      *)

\* What the store of entry j of the old pmd page makes of it.
Stored(m, n, i1, i2, j) ==
    LET e == OldPmd(m, i1, i2)[j]
    IN  IF IsInvalid(e)    THEN Null
        ELSE IF IsLarge(e) THEN e
        ELSE Redirected(e, <<n, i1, i2, j>>)

\* The entries C done so far that stored to entry i of a new pmd page.
Stores(m, C, i1, i2, i) ==
    {j \in StoresTo(OldPmd(m, i1, i2), i2, i) : <<i1, i2, j>> \in C}

PmdAt(m, n, C, p) ==
    [i \in Index |->
        IF Stores(m, C, p[2], p[3], i) = {} THEN m[p][i]
        ELSE Stored(m, n, p[2], p[3], Greatest(Stores(m, C, p[2], p[3], i)))]

\* Call n has begun in memory m and done the entries A of the pgd, B of the puds
\* and C of the pmds.
At(m, n, pgd, A, B, C) ==
    [p \in Page |->
        IF p = pgd
        THEN [i \in Index |-> IF i \in A THEN CopiedPgd(m, n, i) ELSE m[p][i]]
        ELSE IF p \in NewPuds /\ p[1] = n
        THEN [i \in Index |-> IF <<p[2], i>> \in B THEN CopiedPud(m, n, p[2], i) ELSE m[p][i]]
        ELSE IF p \in NewPmds /\ p[1] = n
        THEN PmdAt(m, n, C, p)
        ELSE IF /\ p \in NewPtes /\ p[1] = n /\ <<p[2], p[3], p[4]>> \in C
                /\ IsTable(OldPmd(m, p[2], p[3])[p[4]])
        THEN OldPte(m, p[2], p[3], p[4])
        ELSE m[p]]

\* Page by page.
IsAt(u, m, n, pgd, A, B, C) ==
    /\ IsFcn(u, Page)
    /\ \A p \in KernelPage : u[p] = m[p]
    /\ \A p \in NewPgds :
          u[p] = IF p = pgd
                 THEN [i \in Index |-> IF i \in A THEN CopiedPgd(m, n, i) ELSE m[p][i]]
                 ELSE m[p]
    /\ \A p \in NewPuds :
          u[p] = IF p[1] = n
                 THEN [i \in Index |-> IF <<p[2], i>> \in B THEN CopiedPud(m, n, p[2], i) ELSE m[p][i]]
                 ELSE m[p]
    /\ \A p \in NewPmds : u[p] = IF p[1] = n THEN PmdAt(m, n, C, p) ELSE m[p]
    /\ \A p \in NewPtes :
          u[p] = IF /\ p[1] = n /\ <<p[2], p[3], p[4]>> \in C
                    /\ IsTable(OldPmd(m, p[2], p[3])[p[4]])
                 THEN OldPte(m, p[2], p[3], p[4]) ELSE m[p]

\* At, page by page.
LEMMA AtPages ==
    ASSUME NEW m, NEW n, NEW pgd \in NewPgds, NEW A, NEW B, NEW C
    PROVE  IsAt(At(m, n, pgd, A, B, C), m, n, pgd, A, B, C)
<1>. DEFINE u == At(m, n, pgd, A, B, C)
<1>1. NewPage \cap KernelPage = {} /\ NewPgds \cup NewPuds \cup NewPmds \cup NewPtes = NewPage
  BY PageAssumption DEF NewPage
<1>2. IsFcn(u, Page)
  BY DEF At, IsFcn
<1>3. \A p \in Page : u[p] =
        IF p = pgd
        THEN [i \in Index |-> IF i \in A THEN CopiedPgd(m, n, i) ELSE m[p][i]]
        ELSE IF p \in NewPuds /\ p[1] = n
        THEN [i \in Index |-> IF <<p[2], i>> \in B THEN CopiedPud(m, n, p[2], i) ELSE m[p][i]]
        ELSE IF p \in NewPmds /\ p[1] = n
        THEN PmdAt(m, n, C, p)
        ELSE IF /\ p \in NewPtes /\ p[1] = n /\ <<p[2], p[3], p[4]>> \in C
                /\ IsTable(OldPmd(m, p[2], p[3])[p[4]])
        THEN OldPte(m, p[2], p[3], p[4])
        ELSE m[p]
  BY DEF At
<1>. HIDE DEF u
<1>4. \A p \in KernelPage : u[p] = m[p]
  BY <1>1, <1>3 DEF Page
<1>5. \A p \in NewPgds :
         u[p] = IF p = pgd
                THEN [i \in Index |-> IF i \in A THEN CopiedPgd(m, n, i) ELSE m[p][i]]
                ELSE m[p]
  BY <1>3, Levels
<1>6. \A p \in NewPuds :
         u[p] = IF p[1] = n
                THEN [i \in Index |-> IF <<p[2], i>> \in B THEN CopiedPud(m, n, p[2], i) ELSE m[p][i]]
                ELSE m[p]
  BY <1>3, Levels
<1>7. \A p \in NewPmds : u[p] = IF p[1] = n THEN PmdAt(m, n, C, p) ELSE m[p]
  BY <1>3, Levels
<1>8. \A p \in NewPtes :
          u[p] = IF /\ p[1] = n /\ <<p[2], p[3], p[4]>> \in C
                    /\ IsTable(OldPmd(m, p[2], p[3])[p[4]])
                 THEN OldPte(m, p[2], p[3], p[4]) ELSE m[p]
  BY <1>3, Levels
<1>9. IsAt(u, m, n, pgd, A, B, C)
  BY <1>2, <1>4, <1>5, <1>6, <1>7, <1>8 DEF IsAt
<1>. QED
  BY <1>9 DEF u

\* It determines the memory.
LEMMA AtUnique ==
    ASSUME NEW m, NEW n, NEW pgd \in NewPgds, NEW A, NEW B, NEW C, NEW u, NEW v,
           IsAt(u, m, n, pgd, A, B, C), IsAt(v, m, n, pgd, A, B, C)
    PROVE  u = v
<1>1. \A p \in Page : u[p] = v[p]
  BY DEF IsAt, Page, NewPage
<1>2. u = [p \in Page |-> u[p]] /\ v = [p \in Page |-> v[p]]
  BY DEF IsAt, IsFcn
<1>. QED
  BY <1>1, <1>2


\* A store changes one entry.
LEMMA PutFacts ==
    ASSUME NEW u, IsFcn(u, Page), NEW p \in Page, IsFcn(u[p], Index), NEW i, NEW e
    PROVE  /\ IsFcn(Put(u, p, i, e), Page) /\ IsFcn(Put(u, p, i, e)[p], Index)
           /\ \A k \in Index : Put(u, p, i, e)[p][k] = IF k = i THEN e ELSE u[p][k]
           /\ \A q \in Page : q # p => Put(u, p, i, e)[q] = u[q]
<1>. DEFINE row == [u[p] EXCEPT ![i] = e]
<1>1. Put(u, p, i, e) = [u EXCEPT ![p] = row]
  BY DEF Put
<1>2. row = [k \in Index |-> IF k = i THEN e ELSE u[p][k]]
  BY DEF IsFcn
<1>3. IsFcn(row, Index) /\ \A k \in Index : row[k] = IF k = i THEN e ELSE u[p][k]
  BY <1>2 DEF IsFcn
<1>. HIDE DEF row
<1>4. /\ IsFcn(Put(u, p, i, e), Page) /\ Put(u, p, i, e)[p] = row
      /\ \A q \in Page : q # p => Put(u, p, i, e)[q] = u[q]
  BY <1>1 DEF IsFcn
<1>. QED
  BY <1>3, <1>4

\* The name of a new page.
LEMMA NameIs ==
    ASSUME NEW n
    PROVE  /\ \A p \in NewPuds, i1 \in Index : p = <<n, i1, K, K>> <=> p[1] = n /\ p[2] = i1
           /\ \A p \in NewPmds, i1 \in Index, i2 \in Index :
                 p = <<n, i1, i2, K>> <=> p[1] = n /\ p[2] = i1 /\ p[3] = i2
           /\ \A p \in NewPtes, i1 \in Index, i2 \in Index, i3 \in Index :
                 p = <<n, i1, i2, i3>> <=> p[1] = n /\ p[2] = i1 /\ p[3] = i2 /\ p[4] = i3
BY DEF NewPuds, NewPmds, NewPtes

\* The memory as it is when the call begins.
LEMMA AtStart ==
    ASSUME NEW m \in Memory, NEW n \in Call, NEW pgd \in NewPgds
    PROVE  At(m, n, pgd, {}, {}, {}) = m
<1>. DEFINE u == At(m, n, pgd, {}, {}, {})
<1>1. IsAt(u, m, n, pgd, {}, {}, {})
  BY AtPages
<1>2. m = [p \in Page |-> m[p]] /\ \A p \in Page : m[p] = [i \in Index |-> m[p][i]]
  BY DEF Memory
<1>. HIDE DEF u
<1>3. ASSUME NEW p \in NewPgds PROVE u[p] = m[p]
  BY <1>1, <1>2, Levels DEF IsAt
<1>4. ASSUME NEW p \in NewPuds PROVE u[p] = m[p]
  BY <1>1, <1>2, Levels DEF IsAt
<1>5. ASSUME NEW p \in NewPmds PROVE u[p] = m[p]
  <2>1. PmdAt(m, n, {}, p) = [i \in Index |-> m[p][i]]
    BY DEF PmdAt, Stores
  <2>. QED
    BY <1>1, <1>2, <2>1, Levels DEF IsAt
<1>6. ASSUME NEW p \in NewPtes PROVE u[p] = m[p]
  BY <1>1 DEF IsAt
<1>7. ASSUME NEW p \in KernelPage PROVE u[p] = m[p]
  BY <1>1 DEF IsAt
<1>8. \A p \in Page : u[p] = m[p]
  BY <1>3, <1>4, <1>5, <1>6, <1>7 DEF Page, NewPage
<1>9. u = m
  BY <1>1, <1>2, <1>8 DEF IsAt, IsFcn
<1>. QED
  BY <1>9 DEF u

\* The entries below those of the pgd, and those below them.
Below2(m, A) == {b \in Index \X Index : b[1] \in A /\ ~IsInvalid(m[Root][b[1]])}
Below3(m, B) == {c \in Index \X Index \X Index :
                   <<c[1], c[2]>> \in B /\ IsTable(OldPud(m, c[1])[c[2]])}

Done(m, n, pgd, A) == At(m, n, pgd, A, Below2(m, A), Below3(m, Below2(m, A)))

\* The memory when half is done is the copy.
LEMMA AtEnd ==
    ASSUME NEW m \in Memory, NEW n \in Call, NEW pgd \in NewPgds, NEW half, half \subseteq Index
    PROVE  Done(m, n, pgd, half) = CopyHalf(m, n, pgd, half)
<1>. DEFINE u == Done(m, n, pgd, half)
            c == CopyHalf(m, n, pgd, half)
            B == Below2(m, half)
            C == Below3(m, B)
<1>1. IsAt(u, m, n, pgd, half, B, C)
  BY AtPages DEF Done
<1>2. IsCopy(c, m, n, pgd, half)
  BY CopyPages
<1>3. m = [p \in Page |-> m[p]] /\ \A p \in Page : m[p] = [i \in Index |-> m[p][i]]
  BY DEF Memory
<1>4. c = [p \in Page |-> c[p]]
  BY DEF CopyHalf
<1>. HIDE DEF u, c
<1>5. ASSUME NEW p \in NewPgds PROVE u[p] = c[p]
  BY <1>1, <1>2 DEF IsAt, IsCopy
<1>6. ASSUME NEW p \in NewPuds PROVE u[p] = c[p]
  <2>1. p[2] \in Index /\ p[1] \in Call
    BY DEF NewPuds
  <2>2. \A i \in Index : <<p[2], i>> \in B <=> p[2] \in half /\ ~IsInvalid(m[Root][p[2]])
    BY <2>1 DEF Below2
  <2>3. CASE p \in FreshPuds(m, n, half)
    BY <1>1, <1>2, <2>2, <2>3 DEF IsAt, IsCopy, FreshPuds
  <2>4. CASE p \notin FreshPuds(m, n, half)
    <3>1. c[p] = m[p] /\ m[p] = [i \in Index |-> m[p][i]]
      BY <1>2, <1>3, <2>4, Levels DEF IsCopy
    <3>2. p[1] = n => \A i \in Index : <<p[2], i>> \notin B
      BY <2>2, <2>4 DEF FreshPuds
    <3>3. p[1] = n => u[p] = [i \in Index |-> IF <<p[2], i>> \in B THEN CopiedPud(m, n, p[2], i) ELSE m[p][i]]
      BY <1>1 DEF IsAt
    <3>4. p[1] = n => u[p] = [i \in Index |-> m[p][i]]
      <4>. HIDE DEF B
      <4>. QED
        BY <3>2, <3>3
    <3>5. p[1] # n => u[p] = m[p]
      BY <1>1 DEF IsAt
    <3>. QED
      BY <3>1, <3>4, <3>5
  <2>. QED
    BY <2>3, <2>4
<1>7. ASSUME NEW p \in NewPmds PROVE u[p] = c[p]
  <2>1. p[2] \in Index /\ p[3] \in Index /\ p[1] \in Call
    BY DEF NewPmds
  <2>2. p[1] = n => (p \in FreshPmds(m, n, half) <=>
                       <<p[2], p[3]>> \in B /\ IsTable(OldPud(m, p[2])[p[3]]))
    <3>1. <<n, p[2], K, K>> \in FreshPuds(m, n, half) <=>
             p[2] \in half /\ ~IsInvalid(m[Root][p[2]])
      BY <2>1, Names DEF FreshPuds
    <3>. QED
      BY <2>1, <3>1 DEF FreshPmds, Below2
  <2>3. \A j \in Index : <<p[2], p[3], j>> \in C <=>
             <<p[2], p[3]>> \in B /\ IsTable(OldPud(m, p[2])[p[3]])
    BY <2>1 DEF Below3
  <2>4. u[p] = IF p[1] = n THEN PmdAt(m, n, C, p) ELSE m[p]
    BY <1>1 DEF IsAt
  <2>5. c[p] = IF p \in FreshPmds(m, n, half)
               THEN [i \in Index |-> CopiedPmd(m, n, p[2], p[3], i)] ELSE m[p]
    BY <1>2 DEF IsCopy
  <2>. HIDE DEF B, C
  <2>6. CASE p \in FreshPmds(m, n, half)
    <3>1. p[1] = n
      BY <2>6 DEF FreshPmds
    <3>2. \A i \in Index : Stores(m, C, p[2], p[3], i) = StoresTo(OldPmd(m, p[2], p[3]), p[3], i)
      BY <2>2, <2>3, <2>6, <3>1 DEF Stores, StoresTo
    <3>3. \A i \in Index : StoresTo(OldPmd(m, p[2], p[3]), p[3], i) # {}
      BY DEF StoresTo
    <3>4. \A i \in Index :
             Stored(m, n, p[2], p[3], LastStored(OldPmd(m, p[2], p[3]), p[3], i))
             = CopiedPmd(m, n, p[2], p[3], i)
      BY DEF Stored, CopiedPmd
    <3>5. PmdAt(m, n, C, p) = [i \in Index |-> CopiedPmd(m, n, p[2], p[3], i)]
      BY <3>2, <3>3, <3>4 DEF PmdAt, LastStored
    <3>. QED
      BY <2>4, <2>5, <2>6, <3>1, <3>5
  <2>7. CASE p \notin FreshPmds(m, n, half) /\ p[1] = n
    <3>1. \A i \in Index : Stores(m, C, p[2], p[3], i) = {}
      BY <2>2, <2>3, <2>7 DEF Stores, StoresTo
    <3>2. PmdAt(m, n, C, p) = [i \in Index |-> m[p][i]]
      BY <3>1 DEF PmdAt
    <3>3. m[p] = [i \in Index |-> m[p][i]]
      BY <1>3, Levels
    <3>4. u[p] = PmdAt(m, n, C, p) /\ c[p] = m[p]
      BY <2>4, <2>5, <2>7
    <3>. QED
      BY <3>2, <3>3, <3>4
  <2>8. CASE p[1] # n
    BY <2>4, <2>5, <2>8 DEF FreshPmds
  <2>. QED
    BY <2>6, <2>7, <2>8
<1>8. ASSUME NEW p \in NewPtes PROVE u[p] = c[p]
  <2>1. p[2] \in Index /\ p[3] \in Index /\ p[4] \in Index /\ p[1] \in Call
    BY DEF NewPtes
  <2>2. <<n, p[2], p[3], K>> \in FreshPmds(m, n, half) <=>
           /\ p[2] \in half /\ ~IsInvalid(m[Root][p[2]])
           /\ IsTable(OldPud(m, p[2])[p[3]])
    <3>1. <<n, p[2], K, K>> \in FreshPuds(m, n, half) <=>
             p[2] \in half /\ ~IsInvalid(m[Root][p[2]])
      BY <2>1, Names DEF FreshPuds
    <3>. QED
      BY <2>1, <3>1, Names DEF FreshPmds
  <2>3. <<p[2], p[3], p[4]>> \in C <=>
           /\ p[2] \in half /\ ~IsInvalid(m[Root][p[2]])
           /\ IsTable(OldPud(m, p[2])[p[3]])
    BY <2>1 DEF Below2, Below3
  <2>4. p \in FreshPtes(m, n, half) <=>
           /\ p[1] = n /\ <<p[2], p[3], p[4]>> \in C
           /\ IsTable(OldPmd(m, p[2], p[3])[p[4]])
    BY <2>2, <2>3 DEF FreshPtes
  <2>. QED
    BY <1>1, <1>2, <2>4 DEF IsAt, IsCopy
<1>9. \A p \in KernelPage : u[p] = c[p]
  BY <1>1, <1>2 DEF IsAt, IsCopy
<1>10. \A p \in Page : u[p] = c[p]
  BY <1>5, <1>6, <1>7, <1>8, <1>9 DEF Page, NewPage
<1>11. u = c
  BY <1>1, <1>4, <1>10 DEF IsAt, IsFcn
<1>. QED
  BY <1>11 DEF u, c


-----------------------------------------------------------------------------
(* One iteration of each loop.                                             *)

\* Once entry i3 of an old pmd page is done, it is the last that stored to the
\* entries it stores to.
LEMMA LastOfStores ==
    ASSUME NEW m, NEW n, NEW i1 \in Index, NEW i2 \in Index, NEW i3 \in Index, NEW C,
           \A j \in Index : <<i1, i2, j>> \in C <=> j < i3, NEW i \in Index
    PROVE  LET D == C \cup {<<i1, i2, i3>>} IN
           /\ i3 \in StoresTo(OldPmd(m, i1, i2), i2, i) =>
                 Stores(m, D, i1, i2, i) # {} /\ Greatest(Stores(m, D, i1, i2, i)) = i3
           /\ i3 \notin StoresTo(OldPmd(m, i1, i2), i2, i) =>
                 Stores(m, D, i1, i2, i) = Stores(m, C, i1, i2, i)
<1>. DEFINE D == C \cup {<<i1, i2, i3>>}
            S == Stores(m, D, i1, i2, i)
            T == StoresTo(OldPmd(m, i1, i2), i2, i)
<1>1. T \subseteq Index /\ \A x \in Index : x \in Nat
  BY SizeAssumption DEF StoresTo, Index
<1>2. \A j \in Index : <<i1, i2, j>> \in D <=> j <= i3
  BY <1>1
<1>3. S = {j \in T : <<i1, i2, j>> \in D}
  BY DEF Stores
<1>4. Stores(m, C, i1, i2, i) = {j \in T : <<i1, i2, j>> \in C}
  BY DEF Stores
<1>. HIDE DEF S, T
<1>5. S = {j \in T : j <= i3}
  BY <1>1, <1>2, <1>3
<1>6. ASSUME i3 \in T PROVE S # {} /\ Greatest(S) = i3
  <2>1. i3 \in S /\ S \subseteq Index /\ \A j \in S : j <= i3
    BY <1>1, <1>5, <1>6
  <2>2. Greatest(S) \in S /\ \A k \in S : k <= Greatest(S)
    BY <2>1, GreatestFacts
  <2>. QED
    BY <1>1, <2>1, <2>2
<1>7. ASSUME i3 \notin T PROVE S = Stores(m, C, i1, i2, i)
  BY <1>1, <1>3, <1>4, <1>7
<1>. QED
  BY <1>6, <1>7 DEF S, T

\* PmdAt is a page.
LEMMA PmdAtRow ==
    ASSUME NEW m, NEW n, NEW C, NEW p
    PROVE  IsFcn(PmdAt(m, n, C, p), Index)
BY DEF PmdAt, IsFcn

\* The page of pmds that the iteration leaves.
RowWritten(m, n, C, i1, i2, i3) ==
    LET D == C \cup {<<i1, i2, i3>>}
        p == <<n, i1, i2, K>>
    IN  \A i \in Index :
           PmdAt(m, n, D, p)[i] = IF i = i3 \/ (i = i2 /\ IsTable(OldPmd(m, i1, i2)[i3]))
                                  THEN Stored(m, n, i1, i2, i3) ELSE PmdAt(m, n, C, p)[i]

LEMMA PmdRow ==
    ASSUME NEW m, NEW n, NEW i1 \in Index, NEW i2 \in Index, NEW i3 \in Index, NEW C,
           \A j \in Index : <<i1, i2, j>> \in C <=> j < i3
    PROVE  RowWritten(m, n, C, i1, i2, i3)
<1>. DEFINE e == OldPmd(m, i1, i2)[i3]
            p == <<n, i1, i2, K>>
            D == C \cup {<<i1, i2, i3>>}
<1>1. p[2] = i1 /\ p[3] = i2
  OBVIOUS
<1>2. \A i \in Index : i3 \in StoresTo(OldPmd(m, i1, i2), i2, i) <=> i = i3 \/ (i = i2 /\ IsTable(e))
  BY DEF StoresTo
<1>3. PmdAt(m, n, C, p) =
        [i \in Index |->
          IF Stores(m, C, i1, i2, i) = {} THEN m[p][i]
          ELSE Stored(m, n, i1, i2, Greatest(Stores(m, C, i1, i2, i)))]
  BY <1>1 DEF PmdAt
<1>4. PmdAt(m, n, D, p) =
        [i \in Index |->
          IF Stores(m, D, i1, i2, i) = {} THEN m[p][i]
          ELSE Stored(m, n, i1, i2, Greatest(Stores(m, D, i1, i2, i)))]
  BY <1>1 DEF PmdAt
<1>. HIDE DEF e, p
<1>5. ASSUME NEW i \in Index
      PROVE  (IF Stores(m, D, i1, i2, i) = {} THEN m[p][i]
              ELSE Stored(m, n, i1, i2, Greatest(Stores(m, D, i1, i2, i))))
             = IF i = i3 \/ (i = i2 /\ IsTable(e))
               THEN Stored(m, n, i1, i2, i3) ELSE PmdAt(m, n, C, p)[i]
  <2>1. PmdAt(m, n, C, p)[i] =
          IF Stores(m, C, i1, i2, i) = {} THEN m[p][i]
          ELSE Stored(m, n, i1, i2, Greatest(Stores(m, C, i1, i2, i)))
    BY <1>3
  <2>2. /\ i3 \in StoresTo(OldPmd(m, i1, i2), i2, i) =>
              Stores(m, D, i1, i2, i) # {} /\ Greatest(Stores(m, D, i1, i2, i)) = i3
        /\ i3 \notin StoresTo(OldPmd(m, i1, i2), i2, i) =>
              Stores(m, D, i1, i2, i) = Stores(m, C, i1, i2, i)
    BY LastOfStores
  <2>. QED
    BY <1>2, <2>1, <2>2
<1>6. \A i \in Index : PmdAt(m, n, D, p)[i] = IF i = i3 \/ (i = i2 /\ IsTable(e))
                               THEN Stored(m, n, i1, i2, i3) ELSE PmdAt(m, n, C, p)[i]
  BY <1>4, <1>5
<1>. QED
  BY <1>6 DEF e, p, RowWritten


\* What an iteration over an old pmd page writes: v from u.
Written(v, u, m, n, i1, i2, i3) ==
    LET e   == OldPmd(m, i1, i2)[i3]
        new == <<n, i1, i2, K>>
        pte == <<n, i1, i2, i3>>
    IN  /\ IsFcn(v, Page) /\ IsFcn(v[new], Index)
        /\ \A i \in Index : v[new][i] = IF i = i3 \/ (i = i2 /\ IsTable(e))
                                        THEN Stored(m, n, i1, i2, i3) ELSE u[new][i]
        /\ IsTable(e) => v[pte] = OldPte(m, i1, i2, i3)
        /\ \A p \in Page : p # new /\ (p # pte \/ ~IsTable(e)) => v[p] = u[p]

LEMMA LoopPmdWrites ==
    ASSUME NEW m, NEW n \in Call, NEW i1 \in Index, NEW i2 \in Index, NEW i3 \in Index,
           NEW u, IsFcn(u, Page), IsFcn(u[<<n, i1, i2, K>>], Index),
           u[OldPud(m, i1)[i2].to] = OldPmd(m, i1, i2),
           IsTable(OldPmd(m, i1, i2)[i3]) => u[OldPmd(m, i1, i2)[i3].to] = OldPte(m, i1, i2, i3)
    PROVE  Written(LoopPmd(u, OldPud(m, i1)[i2].to, n, i1, i2, i3), u, m, n, i1, i2, i3)
<1>. DEFINE new == <<n, i1, i2, K>>
            pte == <<n, i1, i2, i3>>
            old == OldPud(m, i1)[i2].to
            e   == OldPmd(m, i1, i2)[i3]
            v   == LoopPmd(u, old, n, i1, i2, i3)
            s   == Stored(m, n, i1, i2, i3)
            one == Put(u, new, i3, s)
            two == Put(one, new, i2, s)
<1>1. new \in Page /\ pte \in Page /\ new # pte
  BY Names, Levels
<1>2. u[old][i3] = e
  OBVIOUS
<1>3. /\ IsFcn(one, Page) /\ IsFcn(one[new], Index)
      /\ \A i \in Index : one[new][i] = IF i = i3 THEN s ELSE u[new][i]
      /\ \A p \in Page : p # new => one[p] = u[p]
  <2>. HIDE DEF new, s
  <2>. QED
    BY <1>1, PutFacts DEF new
<1>4. /\ IsFcn(two, Page) /\ IsFcn(two[new], Index)
      /\ \A i \in Index : two[new][i] = IF i = i2 THEN s ELSE one[new][i]
      /\ \A p \in Page : p # new => two[p] = one[p]
  <2>. HIDE DEF new, s, one
  <2>. QED
    BY <1>1, <1>3, PutFacts
<1>5. CASE IsInvalid(e)
  <2>1. s = Null /\ ~IsTable(e)
    BY <1>2, <1>5 DEF Stored, IsTable
  <2>2. v = one
    BY <1>2, <1>5, <2>1 DEF LoopPmd
  <2>. QED
    BY <1>3, <2>1, <2>2 DEF Written
<1>6. CASE ~IsInvalid(e) /\ IsLarge(e)
  <2>1. s = e /\ ~IsTable(e)
    BY <1>2, <1>6 DEF Stored, IsTable
  <2>2. v = one
    BY <1>2, <1>6, <2>1 DEF LoopPmd
  <2>. QED
    BY <1>3, <2>1, <2>2 DEF Written
<1>7. CASE IsTable(e)
  <2>1. ~IsInvalid(e) /\ ~IsLarge(e)
    BY <1>7 DEF IsTable
  <2>2. s = Redirected(e, pte)
    BY <1>2, <2>1 DEF Stored
  <2>3. v = [two EXCEPT ![pte] = OldPte(m, i1, i2, i3)]
    BY <1>2, <1>7, <2>1, <2>2 DEF LoopPmd
  <2>. HIDE DEF v, two, one, s, new, pte, e
  <2>4. /\ IsFcn(v, Page) /\ v[pte] = OldPte(m, i1, i2, i3)
        /\ \A p \in Page : p # pte => v[p] = two[p]
    BY <1>1, <1>4, <2>3 DEF IsFcn
  <2>5. v[new] = two[new]
    BY <1>1, <2>4
  <2>6. \A i \in Index : v[new][i] = IF i = i3 \/ (i = i2 /\ IsTable(e)) THEN s ELSE u[new][i]
    BY <1>3, <1>4, <1>7, <2>5
  <2>7. \A p \in Page : p # new /\ (p # pte \/ ~IsTable(e)) => v[p] = u[p]
    BY <1>3, <1>4, <1>7, <2>4
  <2>. QED
    BY <1>4, <2>4, <2>5, <2>6, <2>7 DEF v, s, new, pte, e, Written
<1>. QED
  BY <1>5, <1>6, <1>7 DEF IsTable

\* The iteration that does entry <<i1, i2, i3>>.
LEMMA StepPmd ==
    ASSUME NEW m \in Memory, KernelTables(m), NEW n \in Call, NEW pgd \in NewPgds,
           NEW A, NEW B, NEW C, NEW i1 \in Index, NEW i2 \in Index, NEW i3 \in Index,
           OldPud(m, i1)[i2].to \in KernelPmds,
           \A j \in Index : <<i1, i2, j>> \in C <=> j < i3
    PROVE  LoopPmd(At(m, n, pgd, A, B, C), OldPud(m, i1)[i2].to, n, i1, i2, i3)
           = At(m, n, pgd, A, B, C \cup {<<i1, i2, i3>>})
<1>. DEFINE u   == At(m, n, pgd, A, B, C)
            old == OldPud(m, i1)[i2].to
            e   == OldPmd(m, i1, i2)[i3]
            D   == C \cup {<<i1, i2, i3>>}
            v   == LoopPmd(u, old, n, i1, i2, i3)
            new == <<n, i1, i2, K>>
            pte == <<n, i1, i2, i3>>
<1>1. IsAt(u, m, n, pgd, A, B, C)
  BY AtPages
<1>2. new \in NewPmds /\ pte \in NewPtes /\ new[1] = n
  BY Names
<1>3. IsFcn(u, Page)
  BY <1>1 DEF IsAt
<1>4. u[new] = PmdAt(m, n, C, new)
  BY <1>1, <1>2 DEF IsAt
<1>5. IsFcn(u[new], Index)
  BY <1>4, PmdAtRow
<1>6. u[old] = OldPmd(m, i1, i2)
  BY <1>1 DEF IsAt, KernelPage, OldPmd
<1>7. IsTable(e) => e.to \in KernelPtes
  BY DEF KernelTables, LeadTo, Leads, IsTable, OldPmd
<1>8. IsTable(e) => u[e.to] = OldPte(m, i1, i2, i3)
  BY <1>1, <1>7 DEF IsAt, KernelPage, OldPte
<1>9. /\ IsFcn(v, Page) /\ IsFcn(v[new], Index)
      /\ \A i \in Index : v[new][i] = IF i = i3 \/ (i = i2 /\ IsTable(e))
                                      THEN Stored(m, n, i1, i2, i3) ELSE u[new][i]
      /\ IsTable(e) => v[pte] = OldPte(m, i1, i2, i3)
      /\ \A p \in Page : p # new /\ (p # pte \/ ~IsTable(e)) => v[p] = u[p]
  <2>1. Written(v, u, m, n, i1, i2, i3)
    <3>. HIDE DEF u
    <3>. QED
      BY <1>3, <1>5, <1>6, <1>8, LoopPmdWrites
  <2>. QED
    BY <2>1 DEF Written
<1>11. v[new] = PmdAt(m, n, D, new)
  <2>1. \A i \in Index : PmdAt(m, n, D, new)[i] = IF i = i3 \/ (i = i2 /\ IsTable(e))
                                   THEN Stored(m, n, i1, i2, i3) ELSE PmdAt(m, n, C, new)[i]
    <3>1. RowWritten(m, n, C, i1, i2, i3)
      BY PmdRow
    <3>. QED
      BY <3>1 DEF RowWritten
  <2>2. IsFcn(PmdAt(m, n, D, new), Index)
    BY PmdAtRow
  <2>. HIDE DEF v, u, new, D, e
  <2>. QED
    BY <1>4, <1>9, <2>1, <2>2 DEF IsFcn
<1>. HIDE DEF u, v, e, new, pte
<1>12. ASSUME NEW p \in NewPmds
       PROVE  v[p] = IF p[1] = n THEN PmdAt(m, n, D, p) ELSE m[p]
  <2>1. CASE p = new
    BY <1>2, <1>11, <2>1
  <2>2. CASE p # new
    <3>1. v[p] = u[p]
      BY <1>2, <1>9, <2>2, Levels
    <3>2. ASSUME p[1] = n PROVE PmdAt(m, n, D, p) = PmdAt(m, n, C, p)
      <4>1. ~(p[2] = i1 /\ p[3] = i2)
        BY <2>2, <3>2, NameIs DEF new
      <4>2. \A j : <<p[2], p[3], j>> \in D <=> <<p[2], p[3], j>> \in C
        BY <4>1
      <4>3. \A i : Stores(m, D, p[2], p[3], i) = Stores(m, C, p[2], p[3], i)
        BY <4>2 DEF Stores
      <4>. QED
        BY <4>3 DEF PmdAt
    <3>. QED
      BY <1>1, <3>1, <3>2 DEF IsAt
  <2>. QED
    BY <2>1, <2>2
<1>13. ASSUME NEW p \in NewPtes
       PROVE  v[p] = IF /\ p[1] = n /\ <<p[2], p[3], p[4]>> \in D
                        /\ IsTable(OldPmd(m, p[2], p[3])[p[4]])
                     THEN OldPte(m, p[2], p[3], p[4]) ELSE m[p]
  <2>0. p # new /\ p \in Page
    BY <1>2, Levels
  <2>1. CASE p = pte
    <3>1. p[1] = n /\ p[2] = i1 /\ p[3] = i2 /\ p[4] = i3 /\ <<i1, i2, i3>> \in D
      BY <2>1 DEF pte
    <3>2. <<i1, i2, i3>> \notin C
      BY SizeAssumption DEF Index
    <3>3. CASE IsTable(e)
      BY <1>9, <2>1, <3>1, <3>3 DEF e
    <3>4. CASE ~IsTable(e)
      <4>1. v[p] = u[p]
        BY <1>9, <2>0, <3>4
      <4>. QED
        BY <1>1, <3>1, <3>2, <3>4, <4>1 DEF IsAt, e
    <3>. QED
      BY <3>3, <3>4
  <2>2. CASE p # pte
    <3>1. p[1] = n => ~(p[2] = i1 /\ p[3] = i2 /\ p[4] = i3)
      BY <2>2, NameIs DEF pte
    <3>2. p[1] = n => (<<p[2], p[3], p[4]>> \in D <=> <<p[2], p[3], p[4]>> \in C)
      BY <3>1
    <3>3. v[p] = u[p]
      BY <1>9, <2>0, <2>2
    <3>. QED
      BY <1>1, <3>2, <3>3 DEF IsAt
  <2>. QED
    BY <2>1, <2>2
<1>14. \A p \in Page : p \notin NewPmds \cup NewPtes => v[p] = u[p]
  BY <1>2, <1>9
<1>15. \A p \in KernelPage \cup NewPgds \cup NewPuds : p \in Page /\ p \notin NewPmds \cup NewPtes
  BY Levels, PageAssumption DEF NewPage, Page
<1>16. IsAt(v, m, n, pgd, A, B, D)
  <2>. HIDE DEF D
  <2>1. \A p \in KernelPage \cup NewPgds \cup NewPuds : v[p] = u[p]
    BY <1>14, <1>15
  <2>. QED
    BY <1>1, <1>9, <1>12, <1>13, <2>1 DEF IsAt
<1>17. v = At(m, n, pgd, A, B, D)
  BY <1>16, AtPages, AtUnique
<1>. QED
  BY <1>17 DEF v, u


-----------------------------------------------------------------------------
(* The loops.  Each has the memories between its iterations for a function *)
(* that satisfies the recursion; the loop's own is therefore that one.     *)

\* The entries of one pmd page that come before entry j.
Pmds(i1, i2, j) == {i1} \X {i2} \X (0 .. j - 1)

\* C with all of them.
WithPmds(C, i1, i2) == C \cup Pmds(i1, i2, K)

\* The old page of pmds of entry <<i1, i2>>.
IsOldPmd(m, i1, i2, old) == old = OldPud(m, i1)[i2].to /\ old \in KernelPmds

\* None of its entries is done.
Untouched(C, i1, i2) == \A j \in Index : <<i1, i2, j>> \notin C

\* All iterations over an old page of pmds.
LEMMA PmdLoopDone ==
    ASSUME NEW m \in Memory, KernelTables(m), NEW n \in Call, NEW pgd \in NewPgds,
           NEW A, NEW B, NEW C, NEW i1 \in Index, NEW i2 \in Index,
           NEW old, IsOldPmd(m, i1, i2, old), Untouched(C, i1, i2)
    PROVE  PmdLoop(At(m, n, pgd, A, B, C), old, n, i1, i2)
           = At(m, n, pgd, A, B, WithPmds(C, i1, i2))
<1>. DEFINE u   == At(m, n, pgd, A, B, C)
            M(j) == At(m, n, pgd, A, B, C \cup Pmds(i1, i2, j))
            F == [j \in 0 .. K |-> M(j)]
            Go(f, j) == LoopPmd(f[j - 1], old, n, i1, i2, j - 1)
            g == CHOOSE f : f = [j \in 0 .. K |-> IF j = 0 THEN u ELSE Go(f, j)]
<1>1. PmdLoop(u, old, n, i1, i2) = g[K]
  BY DEF PmdLoop
<1>2. K \in Nat /\ 0 \in 0 .. K /\ K \in 0 .. K
  BY SizeAssumption
<1>3. M(0) = u
  <2>1. C \cup Pmds(i1, i2, 0) = C
    BY DEF Pmds
  <2>. QED
    BY <2>1
<1>4. ASSUME NEW j \in 1 .. K
      PROVE  j - 1 \in 0 .. K /\ M(j) = LoopPmd(M(j - 1), old, n, i1, i2, j - 1)
  <2>1. j - 1 \in Index /\ j - 1 \in 0 .. K
    BY <1>2 DEF Index
  <2>2. \A k \in Index : <<i1, i2, k>> \in C \cup Pmds(i1, i2, j - 1) <=> k < j - 1
    BY <2>1 DEF Pmds, Index, Untouched
  <2>3. C \cup Pmds(i1, i2, j) = (C \cup Pmds(i1, i2, j - 1)) \cup {<<i1, i2, j - 1>>}
    <3>1. 0 .. j - 1 = (0 .. (j - 1) - 1) \cup {j - 1}
      BY <1>2
    <3>. QED
      BY <3>1 DEF Pmds
  <2>. QED
    BY <2>1, <2>2, <2>3, StepPmd DEF IsOldPmd
<1>. HIDE DEF M, u
<1>5. F = [j \in 0 .. K |-> IF j = 0 THEN u ELSE Go(F, j)]
  <2>1. \A j \in 0 .. K : M(j) = IF j = 0 THEN u ELSE Go(F, j)
    <3>1. ASSUME NEW j \in 0 .. K, j # 0 PROVE M(j) = Go(F, j)
      <4>1. j \in 1 .. K
        BY <1>2, <3>1
      <4>2. F[j - 1] = M(j - 1)
        BY <1>4, <4>1
      <4>. QED
        BY <1>4, <4>1, <4>2
    <3>. QED
      BY <1>3, <3>1
  <2>. QED
    BY <2>1
<1>. HIDE DEF F
<1>6. g = [j \in 0 .. K |-> IF j = 0 THEN u ELSE Go(g, j)]
  BY <1>5
<1>7. F[0] = u /\ g[0] = u /\ IsFcn(F, 0 .. K) /\ IsFcn(g, 0 .. K)
  BY <1>2, <1>5, <1>6 DEF IsFcn
<1>8. \A j \in 0 .. K : j # 0 => F[j] = Go(F, j) /\ g[j] = Go(g, j)
  BY <1>5, <1>6
<1>. HIDE DEF g
<1>9. F = g
  BY <1>2, <1>7, <1>8, SameLoop
<1>10. F[K] = M(K)
  BY <1>2 DEF F
<1>. QED
  BY <1>1, <1>9, <1>10 DEF M, u, WithPmds


\* The store to an entry of a new page of puds.
LEMMA PutPud ==
    ASSUME NEW m, NEW n \in Call, NEW pgd \in NewPgds, NEW A, NEW B, NEW C,
           NEW i1 \in Index, NEW i2 \in Index, NEW new, new = <<n, i1, K, K>>
    PROVE  Put(At(m, n, pgd, A, B, C), new, i2, CopiedPud(m, n, i1, i2))
           = At(m, n, pgd, A, B \cup {<<i1, i2>>}, C)
<1>. DEFINE u   == At(m, n, pgd, A, B, C)
            e   == CopiedPud(m, n, i1, i2)
            D   == B \cup {<<i1, i2>>}
            v   == Put(u, new, i2, e)
            Row(E, p) == [i \in Index |-> IF <<p[2], i>> \in E THEN CopiedPud(m, n, p[2], i) ELSE m[p][i]]
<1>1. IsAt(u, m, n, pgd, A, B, C)
  BY AtPages
<1>2. new \in NewPuds /\ new \in Page /\ new[1] = n /\ new[2] = i1
  BY Names, Levels
<1>3. IsFcn(u, Page) /\ u[new] = Row(B, new)
  BY <1>1, <1>2 DEF IsAt
<1>4. IsFcn(u[new], Index)
  BY <1>3 DEF IsFcn
<1>5. /\ IsFcn(v, Page) /\ IsFcn(v[new], Index)
      /\ \A k \in Index : v[new][k] = IF k = i2 THEN e ELSE u[new][k]
      /\ \A q \in Page : q # new => v[q] = u[q]
  <2>. HIDE DEF u, e
  <2>. QED
    BY <1>2, <1>3, <1>4, PutFacts
<1>6. v[new] = Row(D, new)
  <2>1. \A k \in Index : v[new][k] = Row(D, new)[k]
    <3>. HIDE DEF v, u
    <3>. QED
      BY <1>2, <1>3, <1>5
  <2>2. IsFcn(Row(D, new), Index)
    BY DEF IsFcn
  <2>. HIDE DEF v, u, D, Row
  <2>. QED
    BY <1>5, <2>1, <2>2 DEF IsFcn
<1>. HIDE DEF u, v, e
<1>7. ASSUME NEW p \in NewPuds PROVE v[p] = IF p[1] = n THEN Row(D, p) ELSE m[p]
  <2>1. CASE p = new
    BY <1>2, <1>6, <2>1
  <2>2. CASE p # new
    <3>1. v[p] = u[p]
      BY <1>5, <2>2, Levels
    <3>2. ASSUME p[1] = n PROVE Row(D, p) = Row(B, p)
      <4>1. p[2] # i1
        BY <2>2, <3>2, NameIs
      <4>. QED
        BY <4>1
    <3>3. u[p] = IF p[1] = n THEN Row(B, p) ELSE m[p]
      BY <1>1 DEF IsAt
    <3>. HIDE DEF Row, D
    <3>. QED
      BY <3>1, <3>2, <3>3
  <2>. QED
    BY <2>1, <2>2
<1>8. \A p \in KernelPage \cup NewPgds \cup NewPmds \cup NewPtes : v[p] = u[p]
  <2>1. \A p \in KernelPage \cup NewPgds \cup NewPmds \cup NewPtes : p \in Page /\ p \notin NewPuds
    BY Levels, PageAssumption DEF NewPage, Page
  <2>. QED
    BY <1>2, <1>5, <2>1
<1>9. IsAt(v, m, n, pgd, A, D, C)
  BY <1>1, <1>5, <1>7, <1>8 DEF IsAt
<1>10. v = At(m, n, pgd, A, D, C)
  BY <1>9, AtPages, AtUnique
<1>. QED
  BY <1>10 DEF v, u, e

\* The store to an entry of the pgd.
LEMMA PutPgd ==
    ASSUME NEW m, NEW n \in Call, NEW pgd \in NewPgds, NEW A, NEW B, NEW C, NEW i1 \in Index
    PROVE  Put(At(m, n, pgd, A, B, C), pgd, i1, CopiedPgd(m, n, i1))
           = At(m, n, pgd, A \cup {i1}, B, C)
<1>. DEFINE u   == At(m, n, pgd, A, B, C)
            e   == CopiedPgd(m, n, i1)
            D   == A \cup {i1}
            v   == Put(u, pgd, i1, e)
            Row(E) == [i \in Index |-> IF i \in E THEN CopiedPgd(m, n, i) ELSE m[pgd][i]]
<1>1. IsAt(u, m, n, pgd, A, B, C)
  BY AtPages
<1>2. pgd \in Page
  BY Levels
<1>3. IsFcn(u, Page) /\ u[pgd] = Row(A)
  BY <1>1 DEF IsAt
<1>4. IsFcn(u[pgd], Index)
  BY <1>3 DEF IsFcn
<1>5. /\ IsFcn(v, Page) /\ IsFcn(v[pgd], Index)
      /\ \A k \in Index : v[pgd][k] = IF k = i1 THEN e ELSE u[pgd][k]
      /\ \A q \in Page : q # pgd => v[q] = u[q]
  <2>. HIDE DEF u, e
  <2>. QED
    BY <1>2, <1>3, <1>4, PutFacts
<1>6. v[pgd] = Row(D)
  <2>1. \A k \in Index : v[pgd][k] = Row(D)[k]
    <3>. HIDE DEF v, u
    <3>. QED
      BY <1>3, <1>5
  <2>2. IsFcn(Row(D), Index)
    BY DEF IsFcn
  <2>. HIDE DEF v, u, D, Row
  <2>. QED
    BY <1>5, <2>1, <2>2 DEF IsFcn
<1>. HIDE DEF u, v, e
<1>7. ASSUME NEW p \in NewPgds PROVE v[p] = IF p = pgd THEN Row(D) ELSE m[p]
  <2>1. p # pgd => v[p] = m[p]
    BY <1>1, <1>5, Levels DEF IsAt
  <2>. HIDE DEF Row
  <2>. QED
    BY <1>6, <2>1
<1>8. \A p \in KernelPage \cup NewPuds \cup NewPmds \cup NewPtes : v[p] = u[p]
  <2>1. \A p \in KernelPage \cup NewPuds \cup NewPmds \cup NewPtes : p \in Page /\ p \notin NewPgds
    BY Levels, PageAssumption DEF NewPage, Page
  <2>. QED
    BY <1>5, <2>1
<1>9. IsAt(v, m, n, pgd, D, B, C)
  <2>1. \A p \in NewPgds :
           v[p] = IF p = pgd
                  THEN [i \in Index |-> IF i \in D THEN CopiedPgd(m, n, i) ELSE m[p][i]]
                  ELSE m[p]
    BY <1>7
  <2>. HIDE DEF D
  <2>. QED
    BY <1>1, <1>5, <1>8, <2>1 DEF IsAt
<1>10. v = At(m, n, pgd, D, B, C)
  BY <1>9, AtPages, AtUnique
<1>. QED
  BY <1>10 DEF v, u, e


\* The entries below the first j of one page of puds.
BelowPuds(m, i1, j) ==
    {c \in Index \X Index \X Index :
       c[1] = i1 /\ c[2] \in 0 .. j - 1 /\ IsTable(OldPud(m, i1)[c[2]])}

\* B and C with all of them.
WithPuds(B, i1)     == B \cup ({i1} \X Index)
WithBelow(m, C, i1) == C \cup BelowPuds(m, i1, K)

\* The old page of puds of entry i1.
IsOldPud(m, i1, old) == old = m[Root][i1].to /\ old \in KernelPuds

\* The iteration that does entry <<i1, i2>> and all below it.
LEMMA StepPud ==
    ASSUME NEW m \in Memory, KernelTables(m), NEW n \in Call, NEW pgd \in NewPgds,
           NEW A, NEW B, NEW C, NEW i1 \in Index, NEW i2 \in Index,
           m[Root][i1].to \in KernelPuds, Untouched(C, i1, i2)
    PROVE  LoopPud(At(m, n, pgd, A, B, C), m[Root][i1].to, n, i1, i2)
           = At(m, n, pgd, A, B \cup {<<i1, i2>>},
                C \cup IF IsTable(OldPud(m, i1)[i2]) THEN Pmds(i1, i2, K) ELSE {})
<1>. DEFINE u   == At(m, n, pgd, A, B, C)
            old == m[Root][i1].to
            e   == OldPud(m, i1)[i2]
            new == <<n, i1, K, K>>
            D   == B \cup {<<i1, i2>>}
<1>1. u[old][i2] = e
  <2>1. IsAt(u, m, n, pgd, A, B, C)
    BY AtPages
  <2>2. u[old] = m[old]
    BY <2>1 DEF IsAt, KernelPage
  <2>. QED
    BY <2>2 DEF OldPud
<1>2. Put(u, new, i2, CopiedPud(m, n, i1, i2)) = At(m, n, pgd, A, D, C)
  <2>1. new = <<n, i1, K, K>>
    OBVIOUS
  <2>. HIDE DEF new
  <2>. QED
    BY <2>1, PutPud
<1>3. CASE IsTable(e)
  <2>1. CopiedPud(m, n, i1, i2) = Redirected(e, <<n, i1, i2, K>>)
    BY <1>3 DEF CopiedPud
  <2>2. LoopPud(u, old, n, i1, i2) = PmdLoop(At(m, n, pgd, A, D, C), e.to, n, i1, i2)
    <3>1. LoopPud(u, old, n, i1, i2) =
            LET f == u[old][i2] IN
            IF IsTable(f)
            THEN PmdLoop(Put(u, new, i2, Redirected(f, <<n, i1, i2, K>>)), f.to, n, i1, i2)
            ELSE Put(u, new, i2, f)
      BY DEF LoopPud
    <3>. HIDE DEF u, old, e, new, D
    <3>. QED
      BY <1>1, <1>2, <1>3, <2>1, <3>1
  <2>3. e.to \in KernelPmds
    BY <1>3 DEF KernelTables, LeadTo, Leads, IsTable, OldPud
  <2>4. PmdLoop(At(m, n, pgd, A, D, C), e.to, n, i1, i2)
        = At(m, n, pgd, A, D, C \cup Pmds(i1, i2, K))
    <3>. DEFINE t == e.to
    <3>1. IsOldPmd(m, i1, i2, t)
      BY <2>3 DEF IsOldPmd
    <3>. HIDE DEF D, t
    <3>2. PmdLoop(At(m, n, pgd, A, D, C), t, n, i1, i2)
          = At(m, n, pgd, A, D, WithPmds(C, i1, i2))
      BY <3>1, PmdLoopDone
    <3>. QED
      BY <3>2 DEF t, WithPmds
  <2>. QED
    BY <1>3, <2>2, <2>4
<1>4. CASE ~IsTable(e)
  <2>1. CopiedPud(m, n, i1, i2) = e
    BY <1>4 DEF CopiedPud
  <2>2. LoopPud(u, old, n, i1, i2) = At(m, n, pgd, A, D, C)
    <3>. HIDE DEF u, old, e
    <3>. QED
      BY <1>1, <1>2, <1>4, <2>1 DEF LoopPud
  <2>. QED
    BY <1>4, <2>2
<1>. QED
  BY <1>3, <1>4

\* All iterations over an old page of puds.
LEMMA PudLoopDone ==
    ASSUME NEW m \in Memory, KernelTables(m), NEW n \in Call, NEW pgd \in NewPgds,
           NEW A, NEW B, NEW C, NEW i1 \in Index,
           NEW old, IsOldPud(m, i1, old), \A i2 \in Index : Untouched(C, i1, i2)
    PROVE  PudLoop(At(m, n, pgd, A, B, C), old, n, i1)
           = At(m, n, pgd, A, WithPuds(B, i1), WithBelow(m, C, i1))
<1>. DEFINE u   == At(m, n, pgd, A, B, C)
            BB(j) == B \cup ({i1} \X (0 .. j - 1))
            CC(j) == C \cup BelowPuds(m, i1, j)
            M(j) == At(m, n, pgd, A, BB(j), CC(j))
            F == [j \in 0 .. K |-> M(j)]
            Go(f, j) == LoopPud(f[j - 1], old, n, i1, j - 1)
            g == CHOOSE f : f = [j \in 0 .. K |-> IF j = 0 THEN u ELSE Go(f, j)]
<1>1. PudLoop(u, old, n, i1) = g[K]
  BY DEF PudLoop
<1>2. K \in Nat /\ 0 \in 0 .. K /\ K \in 0 .. K
  BY SizeAssumption
<1>3. M(0) = u
  <2>1. BB(0) = B /\ CC(0) = C
    BY DEF BelowPuds
  <2>. QED
    BY <2>1
<1>4. ASSUME NEW j \in 1 .. K
      PROVE  j - 1 \in 0 .. K /\ M(j) = LoopPud(M(j - 1), old, n, i1, j - 1)
  <2>1. j - 1 \in Index /\ j - 1 \in 0 .. K
    BY <1>2 DEF Index
  <2>2. Untouched(CC(j - 1), i1, j - 1)
    BY <2>1 DEF BelowPuds, Index, Untouched
  <2>3. 0 .. j - 1 = (0 .. (j - 1) - 1) \cup {j - 1}
    BY <1>2
  <2>4. BB(j) = BB(j - 1) \cup {<<i1, j - 1>>}
    BY <2>3
  <2>5. CC(j) = CC(j - 1) \cup IF IsTable(OldPud(m, i1)[j - 1]) THEN Pmds(i1, j - 1, K) ELSE {}
    <3>1. \A c : c \in Pmds(i1, j - 1, K) <=>
                   c \in Index \X Index \X Index /\ c[1] = i1 /\ c[2] = j - 1
      BY <2>1 DEF Pmds, Index
    <3>. QED
      BY <2>3, <3>1 DEF BelowPuds
  <2>. HIDE DEF BB, CC
  <2>. QED
    BY <2>1, <2>2, <2>4, <2>5, StepPud DEF IsOldPud
<1>. HIDE DEF M, u
<1>5. F = [j \in 0 .. K |-> IF j = 0 THEN u ELSE Go(F, j)]
  <2>1. \A j \in 0 .. K : M(j) = IF j = 0 THEN u ELSE Go(F, j)
    <3>1. ASSUME NEW j \in 0 .. K, j # 0 PROVE M(j) = Go(F, j)
      <4>1. j \in 1 .. K
        BY <1>2, <3>1
      <4>2. F[j - 1] = M(j - 1)
        BY <1>4, <4>1
      <4>. QED
        BY <1>4, <4>1, <4>2
    <3>. QED
      BY <1>3, <3>1
  <2>. QED
    BY <2>1
<1>. HIDE DEF F
<1>6. g = [j \in 0 .. K |-> IF j = 0 THEN u ELSE Go(g, j)]
  BY <1>5
<1>7. F[0] = u /\ g[0] = u /\ IsFcn(F, 0 .. K) /\ IsFcn(g, 0 .. K)
  BY <1>2, <1>5, <1>6 DEF IsFcn
<1>8. \A j \in 0 .. K : j # 0 => F[j] = Go(F, j) /\ g[j] = Go(g, j)
  BY <1>5, <1>6
<1>. HIDE DEF g
<1>9. F = g
  BY <1>2, <1>7, <1>8, SameLoop
<1>10. F[K] = M(K)
  BY <1>2 DEF F
<1>11. BB(K) = WithPuds(B, i1) /\ CC(K) = WithBelow(m, C, i1)
  BY DEF Index, WithPuds, WithBelow
<1>. QED
  BY <1>1, <1>9, <1>10, <1>11 DEF M, u


\* The iteration that does entry i1 of the pgd and all below it.
LEMMA StepPgd ==
    ASSUME NEW m \in Memory, KernelTables(m), NEW n \in Call, NEW pgd \in NewPgds,
           NEW A, NEW i1 \in Index, i1 \notin A
    PROVE  LoopPgd(Done(m, n, pgd, A), n, pgd, i1) = Done(m, n, pgd, A \cup {i1})
<1>. DEFINE B == Below2(m, A)
            C == Below3(m, B)
            D == A \cup {i1}
            u == At(m, n, pgd, A, B, C)
            e == m[Root][i1]
            one == At(m, n, pgd, D, B, C)
<1>1. u[Root][i1] = e
  <2>1. IsAt(u, m, n, pgd, A, B, C)
    BY AtPages
  <2>. QED
    BY <2>1, Levels DEF IsAt
<1>2. Put(u, pgd, i1, CopiedPgd(m, n, i1)) = one
  BY PutPgd
<1>3. Done(m, n, pgd, A) = u
  BY DEF Done
<1>4. Done(m, n, pgd, D) = At(m, n, pgd, D, Below2(m, D), Below3(m, Below2(m, D)))
  BY DEF Done
<1>5. LoopPgd(u, n, pgd, i1) =
        LET f == u[Root][i1] IN
        IF IsInvalid(f) THEN Put(u, pgd, i1, f)
        ELSE PudLoop(Put(u, pgd, i1, Redirected(f, <<n, i1, K, K>>)), f.to, n, i1)
  BY DEF LoopPgd
<1>6. CASE IsInvalid(e)
  <2>1. CopiedPgd(m, n, i1) = e
    BY <1>6 DEF CopiedPgd
  <2>2. LoopPgd(u, n, pgd, i1) = one
    <3>. HIDE DEF u, e, one
    <3>. QED
      BY <1>1, <1>2, <1>5, <1>6, <2>1
  <2>3. Below2(m, D) = B
    BY <1>6 DEF Below2
  <2>. QED
    BY <1>3, <1>4, <2>2, <2>3
<1>7. CASE ~IsInvalid(e)
  <2>. DEFINE old == e.to
  <2>1. CopiedPgd(m, n, i1) = Redirected(e, <<n, i1, K, K>>)
    BY <1>7 DEF CopiedPgd
  <2>2. LoopPgd(u, n, pgd, i1) = PudLoop(one, old, n, i1)
    <3>. HIDE DEF u, e, one
    <3>. QED
      BY <1>1, <1>2, <1>5, <1>7, <2>1
  <2>3. IsOldPud(m, i1, old)
    BY <1>7 DEF KernelTables, LeadTo, Leads, IsOldPud
  <2>4. \A i2 \in Index : Untouched(C, i1, i2)
    BY DEF Below2, Below3, Untouched
  <2>5. PudLoop(one, old, n, i1) = At(m, n, pgd, D, WithPuds(B, i1), WithBelow(m, C, i1))
    <3>. HIDE DEF B, C, D, old
    <3>. QED
      BY <2>3, <2>4, PudLoopDone
  <2>6. Below2(m, D) = WithPuds(B, i1)
    BY <1>7 DEF Below2, WithPuds
  <2>7. Below3(m, WithPuds(B, i1)) = WithBelow(m, C, i1)
    <3>1. \A c \in Index \X Index \X Index :
             <<c[1], c[2]>> \in WithPuds(B, i1) <=> <<c[1], c[2]>> \in B \/ c[1] = i1
      BY DEF WithPuds
    <3>2. \A i \in Index : i \in 0 .. K - 1
      BY DEF Index
    <3>. QED
      BY <3>1, <3>2 DEF Below3, WithBelow, BelowPuds
  <2>. QED
    BY <1>3, <1>4, <2>2, <2>5, <2>6, <2>7
<1>. QED
  BY <1>6, <1>7

\* The iterations from lo to hi over the pgd: every entry between is done, and
\* all below it.
LEMMA PgdLoopDone ==
    ASSUME NEW m \in Memory, KernelTables(m), NEW n \in Call, NEW pgd \in NewPgds,
           NEW lo \in Nat, NEW hi \in Nat, lo <= hi, hi <= K
    PROVE  PgdLoop(m, n, pgd, lo, hi) = Done(m, n, pgd, lo .. hi - 1)
<1>. DEFINE M(j) == Done(m, n, pgd, lo .. j - 1)
            F == [j \in lo .. hi |-> M(j)]
            Go(f, j) == LoopPgd(f[j - 1], n, pgd, j - 1)
            g == CHOOSE f : f = [j \in lo .. hi |-> IF j = lo THEN m ELSE Go(f, j)]
<1>1. PgdLoop(m, n, pgd, lo, hi) = g[hi]
  BY DEF PgdLoop
<1>2. lo \in lo .. hi /\ hi \in lo .. hi /\ K \in Nat
  BY SizeAssumption
<1>3. M(lo) = m
  <2>1. lo .. lo - 1 = {} /\ Below2(m, {}) = {} /\ Below3(m, {}) = {}
    BY DEF Below2, Below3
  <2>. QED
    BY <2>1, AtStart DEF Done
<1>4. ASSUME NEW j \in lo + 1 .. hi
      PROVE  j - 1 \in lo .. hi /\ M(j) = LoopPgd(M(j - 1), n, pgd, j - 1)
  <2>1. j - 1 \in Index /\ j - 1 \in lo .. hi /\ j - 1 \notin lo .. (j - 1) - 1
    BY <1>2 DEF Index
  <2>2. lo .. j - 1 = (lo .. (j - 1) - 1) \cup {j - 1}
    BY <1>2
  <2>. DEFINE E == lo .. (j - 1) - 1
              i == j - 1
  <2>3. LoopPgd(Done(m, n, pgd, E), n, pgd, i) = Done(m, n, pgd, E \cup {i})
    <3>1. i \in Index /\ i \notin E
      BY <2>1
    <3>. HIDE DEF E, i
    <3>. QED
      BY <3>1, StepPgd
  <2>. QED
    BY <2>1, <2>2, <2>3
<1>. HIDE DEF M
<1>5. F = [j \in lo .. hi |-> IF j = lo THEN m ELSE Go(F, j)]
  <2>1. \A j \in lo .. hi : M(j) = IF j = lo THEN m ELSE Go(F, j)
    <3>1. ASSUME NEW j \in lo .. hi, j # lo PROVE M(j) = Go(F, j)
      <4>1. j \in lo + 1 .. hi
        BY <1>2, <3>1
      <4>2. F[j - 1] = M(j - 1)
        BY <1>4, <4>1
      <4>. QED
        BY <1>4, <4>1, <4>2
    <3>. QED
      BY <1>3, <3>1
  <2>. QED
    BY <2>1
<1>. HIDE DEF F
<1>6. g = [j \in lo .. hi |-> IF j = lo THEN m ELSE Go(g, j)]
  BY <1>5
<1>7. F[lo] = m /\ g[lo] = m /\ IsFcn(F, lo .. hi) /\ IsFcn(g, lo .. hi)
  BY <1>2, <1>5, <1>6 DEF IsFcn
<1>8. \A j \in lo .. hi : j # lo => F[j] = Go(F, j) /\ g[j] = Go(g, j)
  BY <1>5, <1>6
<1>. HIDE DEF g
<1>9. F = g
  BY <1>7, <1>8, SameLoop
<1>10. F[hi] = M(hi)
  BY <1>2 DEF F
<1>. QED
  BY <1>1, <1>9, <1>10 DEF M

-----------------------------------------------------------------------------
(* The functions.                                                          *)

\* The loops over either half make the copy of that half.
LEMMA HalfLoops ==
    ASSUME NEW m \in Memory, KernelTables(m), NEW n \in Call, NEW pgd \in NewPgds
    PROVE  /\ PgdLoop(m, n, pgd, K \div 2, K) = CopyHalf(m, n, pgd, KernelHalf)
           /\ PgdLoop(m, n, pgd, 0, K \div 2) = CopyHalf(m, n, pgd, UserHalf)
<1>. DEFINE h == K \div 2
<1>1. K \in Nat /\ h \in Nat /\ h <= K /\ 0 <= h
  BY SizeAssumption
<1>2. KernelHalf = h .. K - 1 /\ UserHalf = 0 .. h - 1
  <2>1. /\ \A i : i \in KernelHalf <=> i \in h .. K - 1
        /\ \A i : i \in UserHalf <=> i \in 0 .. h - 1
    <3>1. /\ KernelHalf = {i \in 0 .. K - 1 : i >= h}
          /\ UserHalf = {i \in 0 .. K - 1 : i < h}
      BY DEF KernelHalf, UserHalf, Index
    <3>. HIDE DEF h
    <3>. QED
      BY <1>1, <3>1
  <2>. QED
    BY <2>1
<1>. HIDE DEF h
<1>3. PgdLoop(m, n, pgd, h, K) = Done(m, n, pgd, h .. K - 1)
  BY <1>1, PgdLoopDone
<1>4. PgdLoop(m, n, pgd, 0, h) = Done(m, n, pgd, 0 .. h - 1)
  BY <1>1, PgdLoopDone
<1>5. PgdLoop(m, n, pgd, h, K) = CopyHalf(m, n, pgd, KernelHalf)
  BY <1>2, <1>3, AtEnd, Halves
<1>6. PgdLoop(m, n, pgd, 0, h) = CopyHalf(m, n, pgd, UserHalf)
  BY <1>2, <1>4, AtEnd, Halves
<1>. QED
  BY <1>5, <1>6 DEF h

\* The loops of copy_pg.h compute the copy that PageTableCopy states, in every
\* memory that can be reached (LoopsAgree).
THEOREM LoopsCompute == Spec => []LoopsAgree
<1>1. IInv => LoopsAgree
  <2>. SUFFICES ASSUME IInv, calls < MaxCopies
                PROVE  LET n == calls + 1 IN
                       /\ PgdLoop(mem, n, NewRoot(n), K \div 2, K) = CopyPagetable(mem, n)
                       /\ copy # NoPage =>
                          /\ PgdLoop(mem, n, copy, K \div 2, K) = CopyPagetableHalf(mem, n, copy)
                          /\ PgdLoop(mem, n, copy, 0, K \div 2) = CopyPagetableHalf2(mem, n, copy)
    BY DEF LoopsAgree
  <2>. DEFINE n == calls + 1
  <2>1. mem \in Memory /\ KernelTables(mem)
    BY DEF IInv, TypeOK, Memory, Linked
  <2>2. n \in Call /\ NewRoot(n) \in NewPgds
    BY CallStep DEF IInv, TypeOK
  <2>3. copy # NoPage => copy \in NewPgds
    BY DEF IInv, TypeOK
  <2>. HIDE DEF n
  <2>4. PgdLoop(mem, n, NewRoot(n), K \div 2, K) = CopyPagetable(mem, n)
    BY <2>1, <2>2, HalfLoops DEF CopyPagetable
  <2>5. copy # NoPage =>
           /\ PgdLoop(mem, n, copy, K \div 2, K) = CopyPagetableHalf(mem, n, copy)
           /\ PgdLoop(mem, n, copy, 0, K \div 2) = CopyPagetableHalf2(mem, n, copy)
    BY <2>1, <2>2, <2>3, HalfLoops DEF CopyPagetableHalf, CopyPagetableHalf2
  <2>. QED
    BY <2>4, <2>5 DEF n
<1>. QED
  BY <1>1, Invariance, PTL

\* What the loops leave maps the addresses as the original does, but for those
\* that Lost names: what is proved of the copy is true of the code's own stores
\* (LoopsTranslate).
THEOREM LoopsKeepTranslation == Spec => []LoopsTranslate
<1>1. LoopsAgree /\ CopyTranslates => LoopsTranslate
  BY DEF LoopsAgree, CopyTranslates, LoopsTranslate
<1>. QED
  BY <1>1, LoopsCompute, CopiesTranslate, PTL

=============================================================================
