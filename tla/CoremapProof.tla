---------------------------- MODULE CoremapProof ----------------------------
(***************************************************************************)
(* Proofs about Coremap, for any set of owners, any amount of RAM and any   *)
(* sequence of requests.                                                   *)
(***************************************************************************)
EXTENDS Coremap, TLAPS

\* Where the memory that the coremap describes lies, before and after boot.
Layout ==
    /\ stolen \subseteq Nat
    /\ vm_bootstrap_flag = 0 =>
         /\ firstaddr = 0 /\ lastaddr = 0
         /\ FirstFree <= firstpaddr /\ firstpaddr <= lastpaddr /\ lastpaddr = LastPage
         /\ stolen \subseteq FirstFree .. (firstpaddr - 1)
    /\ vm_bootstrap_flag = 1 =>
         /\ FirstFree <= firstaddr /\ firstaddr <= lastaddr /\ lastaddr = LastPage
         /\ stolen \subseteq FirstFree .. (firstaddr - 1)

\* A held block lies above the coremap and below the end of RAM, and the
\* entry of its first frame has its length.
BlocksCounted ==
    \A o \in Owners : held[o] # NoBlock =>
        /\ vm_bootstrap_flag = 1
        /\ held[o].npages > 0
        /\ firstaddr + num_of_coremap_pages <= held[o].addr
        /\ held[o].addr + held[o].npages <= lastaddr
        /\ coremap[held[o].addr - firstaddr].count = held[o].npages

\* No two owners hold the same frame.
Disjoint ==
    \A o, q \in Owners :
        (o # q /\ held[o] # NoBlock /\ held[q] # NoBlock) =>
            \/ held[o].addr + held[o].npages <= held[q].addr
            \/ held[q].addr + held[q].npages <= held[o].addr

IInv == TypeOK /\ Layout /\ BlocksCounted /\ Disjoint /\ UsedIffHeld

\* The size of the coremap is a number of pages.
LEMMA CoremapPagesNat == \A n \in Nat : CoremapPages(n) \in Nat
<1> SUFFICES ASSUME NEW n \in Nat PROVE CoremapPages(n) \in Nat
  OBVIOUS
<1>1. n + EntriesPerPage - 1 \in Nat
  BY RamAssumption
<1>2. EntriesPerPage \in Nat /\ EntriesPerPage > 0
  BY RamAssumption
<1> QED BY <1>1, <1>2 DEF CoremapPages

\* The index range and the size of the coremap are what TypeOK needs.
LEMMA SizesNat ==
    ASSUME TypeOK, Layout
    PROVE  num_of_pages \in Nat /\ num_of_coremap_pages \in Nat
<1>1. num_of_pages \in Nat
  BY RamAssumption DEF TypeOK, Layout, num_of_pages
<1> QED BY <1>1, CoremapPagesNat DEF num_of_coremap_pages

\* Nothing is allocated before vm_bootstrap.
LEMMA InitIInv == Init => IInv
<1> SUFFICES ASSUME Init PROVE IInv
  OBVIOUS
<1>1. Index = {}
  BY DEF Init, Index, num_of_pages
<1>2. TypeOK
  BY <1>1, RamAssumption DEF Init, TypeOK, NoBlock
<1>3. Layout
  BY RamAssumption DEF Init, Layout
<1>4. BlocksCounted /\ Disjoint
  BY DEF Init, BlocksCounted, Disjoint
<1>5. UsedIffHeld
  BY <1>1 DEF UsedIffHeld
<1> QED BY <1>2, <1>3, <1>4, <1>5 DEF IInv

\* ram_stealmem only moves the first free address up.
LEMMA StealStep ==
    ASSUME IInv, NEW npages \in 0 .. MaxRequest, ram_stealmem(npages)
    PROVE  IInv'
<1> USE RamAssumption DEF IInv
<1>1. Index' = Index /\ num_of_pages' = num_of_pages /\ num_of_coremap_pages' = num_of_coremap_pages
  BY DEF ram_stealmem, Index, num_of_pages, num_of_coremap_pages
<1>2. TypeOK'
  BY <1>1 DEF TypeOK, ram_stealmem
<1>3. Layout'
  BY DEF TypeOK, Layout, ram_stealmem
<1>4. BlocksCounted' /\ Disjoint'
  BY <1>1 DEF BlocksCounted, Disjoint, ram_stealmem
<1>5. UsedIffHeld'
  BY <1>1 DEF UsedIffHeld, ram_stealmem
<1> QED BY <1>2, <1>3, <1>4, <1>5

\* vm_bootstrap: the coremap starts with its own pages used and the rest free.
LEMMA BootstrapStep ==
    ASSUME IInv, vm_bootstrap
    PROVE  IInv'
<1> USE RamAssumption DEF IInv
<1> DEFINE n == lastpaddr - firstpaddr
<1>1. n \in Nat /\ n = num_of_pages' /\ CoremapPages(n) = num_of_coremap_pages'
  BY DEF TypeOK, Layout, vm_bootstrap, num_of_pages, num_of_coremap_pages
<1>2. Index' = 0 .. (n - 1)
  BY <1>1 DEF Index
<1>3. \A o \in Owners : held'[o] = NoBlock
  BY DEF BlocksCounted, vm_bootstrap
<1>4. TypeOK'
  BY <1>2 DEF TypeOK, vm_bootstrap, FreshCoremap
<1>5. Layout'
  BY DEF TypeOK, Layout, vm_bootstrap
<1>6. BlocksCounted' /\ Disjoint'
  BY <1>3 DEF BlocksCounted, Disjoint
<1>7. UsedIffHeld'
  <2> SUFFICES ASSUME NEW i \in Index'
               PROVE  coremap'[i].used = 1 <=> i < num_of_coremap_pages'
    BY <1>3 DEF UsedIffHeld
  <2> QED BY <1>1, <1>2, CoremapPagesNat DEF vm_bootstrap, FreshCoremap
<1> QED BY <1>4, <1>5, <1>6, <1>7

\* coremap_alloc: the run it finds belongs to nobody, and is marked and counted.
LEMMA AllocStep ==
    ASSUME IInv, NEW o \in Owners, NEW npages \in Nat,
           coremap_alloc(o, npages)
    PROVE  IInv'
<1> USE RamAssumption DEF IInv
<1>0. num_of_pages \in Nat /\ num_of_coremap_pages \in Nat
  BY SizesNat
<1>1. Index' = Index /\ num_of_pages' = num_of_pages /\ num_of_coremap_pages' = num_of_coremap_pages
  BY DEF coremap_alloc, Index, num_of_pages, num_of_coremap_pages
<1>2. PICK s \in Index :
        /\ FirstFit(s, npages)
        /\ coremap' = Filled(coremap, s, npages)
        /\ held' = [held EXCEPT ![o] = [addr |-> firstaddr + s, npages |-> npages]]
  BY DEF coremap_alloc
<1>3. /\ s \in Nat /\ npages \in Nat /\ npages > 0
      /\ num_of_coremap_pages <= s /\ s + npages <= num_of_pages
      /\ \A i \in s .. (s + npages - 1) : coremap[i].used = 0
  BY <1>0, <1>2 DEF FirstFit, FreeRun, Index
<1>4. /\ vm_bootstrap_flag = 1 /\ held[o] = NoBlock
      /\ firstaddr \in Nat /\ lastaddr \in Nat /\ num_of_pages = lastaddr - firstaddr
  BY DEF coremap_alloc, TypeOK, num_of_pages
<1>5. \A i \in Index : coremap'[i] =
        IF i = s THEN [used |-> 1, count |-> npages]
        ELSE IF i \in s .. (s + npages - 1) THEN [used |-> 1, count |-> 1]
        ELSE coremap[i]
  BY <1>2 DEF Filled, TypeOK
<1>6. TypeOK'
  <2>1. coremap' \in [Index' -> [used : {0, 1}, count : Nat]]
    BY <1>1, <1>2, <1>3 DEF Filled, TypeOK
  <2>2. held' \in [Owners -> [addr : Nat, npages : Nat]]
    BY <1>2, <1>3, <1>4 DEF TypeOK
  <2> QED BY <2>1, <2>2 DEF TypeOK, coremap_alloc
<1>7. Layout'
  BY DEF Layout, coremap_alloc
\* A block that was held before is marked used, so the run misses it.
<1>8. ASSUME NEW q \in Owners, q # o, held[q] # NoBlock
      PROVE  /\ held'[q] = held[q]
             /\ \/ firstaddr + s + npages <= held[q].addr
                \/ held[q].addr + held[q].npages <= firstaddr + s
             /\ coremap'[held[q].addr - firstaddr] = coremap[held[q].addr - firstaddr]
  <2>1. held'[q] = held[q]
    BY <1>2, <1>8 DEF TypeOK
  <2>2. /\ held[q].addr \in Nat /\ held[q].npages \in Nat /\ held[q].npages > 0
        /\ firstaddr + num_of_coremap_pages <= held[q].addr
        /\ held[q].addr + held[q].npages <= lastaddr
    BY <1>8 DEF BlocksCounted, TypeOK
  <2>3. \A i \in Index : firstaddr + i \in Frames(held[q]) => coremap[i].used = 1
    BY <1>8 DEF UsedIffHeld
  <2>4. \A i \in s .. (s + npages - 1) : i \in Index /\ ~(firstaddr + i \in Frames(held[q]))
    BY <1>0, <1>3, <2>3 DEF Index
  <2>5. \A i \in s .. (s + npages - 1) :
          ~(held[q].addr <= firstaddr + i /\ firstaddr + i <= held[q].addr + held[q].npages - 1)
    BY <1>3, <1>4, <2>2, <2>4 DEF Frames
  <2>6. \/ firstaddr + s + npages <= held[q].addr
        \/ held[q].addr + held[q].npages <= firstaddr + s
    <3> SUFFICES ASSUME held[q].addr < firstaddr + s + npages,
                        firstaddr + s < held[q].addr + held[q].npages
                 PROVE  FALSE
      BY <1>3, <1>4, <2>2
    <3>1. CASE held[q].addr <= firstaddr + s
      BY <3>1, <1>3, <1>4, <2>2, <2>5
    <3>2. CASE held[q].addr > firstaddr + s
      <4>1. held[q].addr - firstaddr \in s .. (s + npages - 1)
        BY <3>2, <1>3, <1>4, <2>2
      <4> QED BY <4>1, <1>3, <1>4, <2>2, <2>5
    <3> QED BY <3>1, <3>2, <1>3, <1>4, <2>2
  <2>7. held[q].addr - firstaddr \in Index /\ ~(held[q].addr - firstaddr \in s .. (s + npages - 1))
    BY <1>0, <1>3, <1>4, <2>2, <2>6 DEF Index
  <2>8. held[q].addr - firstaddr # s
    BY <1>3, <2>7
  <2>9. coremap'[held[q].addr - firstaddr] = coremap[held[q].addr - firstaddr]
    BY <1>5, <2>7, <2>8
  <2> QED BY <2>1, <2>6, <2>9
<1>9. /\ held'[o] = [addr |-> firstaddr + s, npages |-> npages]
      /\ held'[o].addr = firstaddr + s /\ held'[o].npages = npages
  BY <1>2 DEF TypeOK
<1>10. BlocksCounted'
  <2> SUFFICES ASSUME NEW q \in Owners, held'[q] # NoBlock
               PROVE  /\ vm_bootstrap_flag' = 1
                      /\ held'[q].npages > 0
                      /\ firstaddr' + num_of_coremap_pages' <= held'[q].addr
                      /\ held'[q].addr + held'[q].npages <= lastaddr'
                      /\ coremap'[held'[q].addr - firstaddr'].count = held'[q].npages
    BY DEF BlocksCounted, NoBlock
  <2>1. CASE q = o
    <3>1. held'[q].addr - firstaddr = s
      BY <2>1, <1>3, <1>4, <1>9
    <3> QED BY <2>1, <3>1, <1>0, <1>1, <1>3, <1>4, <1>5, <1>9 DEF coremap_alloc
  <2>2. CASE q # o
    <3>1. held'[q] = held[q] /\ held[q] # NoBlock
      BY <2>2, <1>2 DEF TypeOK
    <3> QED BY <2>2, <3>1, <1>1, <1>4, <1>8 DEF BlocksCounted, coremap_alloc
  <2> QED BY <2>1, <2>2
<1>11. Disjoint'
  <2> SUFFICES ASSUME NEW p \in Owners, NEW q \in Owners,
                      p # q, held'[p] # NoBlock, held'[q] # NoBlock
               PROVE  \/ held'[p].addr + held'[p].npages <= held'[q].addr
                      \/ held'[q].addr + held'[q].npages <= held'[p].addr
    BY DEF Disjoint, NoBlock
  <2>1. CASE p = o
    <3>1. held'[q] = held[q] /\ held[q] # NoBlock
      BY <2>1, <1>2 DEF TypeOK
    <3> QED BY <2>1, <3>1, <1>8, <1>9
  <2>2. CASE q = o
    <3>1. held'[p] = held[p] /\ held[p] # NoBlock
      BY <2>2, <1>2 DEF TypeOK
    <3> QED BY <2>2, <3>1, <1>8, <1>9
  <2>3. CASE p # o /\ q # o
    <3>1. held'[q] = held[q] /\ held'[p] = held[p]
      BY <2>3, <1>2 DEF TypeOK
    <3> QED BY <3>1 DEF Disjoint
  <2> QED BY <2>1, <2>2, <2>3
<1>12. UsedIffHeld'
  <2> SUFFICES ASSUME NEW i \in Index
               PROVE  coremap'[i].used = 1 <=>
                        \/ i < num_of_coremap_pages
                        \/ \E q \in Owners : held'[q] # NoBlock /\ firstaddr + i \in Frames(held'[q])
    BY <1>1 DEF UsedIffHeld, coremap_alloc, NoBlock, Frames
  <2>0. i \in Int
    BY DEF Index
  <2>1. CASE i \in s .. (s + npages - 1)
    <3>1. coremap'[i].used = 1
      BY <2>1, <1>5
    <3>2. firstaddr + i \in Frames(held'[o])
      BY <2>1, <1>3, <1>4, <1>9 DEF Frames
    <3>3. held'[o] # NoBlock
      BY <1>3, <1>9 DEF NoBlock
    <3> QED BY <3>1, <3>2, <3>3
  <2>2. CASE ~(i \in s .. (s + npages - 1))
    <3>1. coremap'[i] = coremap[i]
      BY <2>2, <1>3, <1>5
    <3>2. ~(firstaddr + i \in Frames(held'[o]))
      BY <2>0, <2>2, <1>3, <1>4, <1>9 DEF Frames
    <3>3. \A q \in Owners : q # o => held'[q] = held[q]
      BY <1>2 DEF TypeOK
    <3>4. (\E q \in Owners : held'[q] # NoBlock /\ firstaddr + i \in Frames(held'[q]))
          <=> (\E q \in Owners : held[q] # NoBlock /\ firstaddr + i \in Frames(held[q]))
      BY <3>2, <3>3, <1>4
    <3> QED BY <3>1, <3>4 DEF UsedIffHeld
  <2> QED BY <2>1, <2>2
<1> QED BY <1>6, <1>7, <1>10, <1>11, <1>12

\* coremap_dealloc: exactly the entries of the block are cleared.
LEMMA DeallocStep ==
    ASSUME IInv, NEW o \in Owners, coremap_dealloc(o)
    PROVE  IInv'
<1> USE RamAssumption DEF IInv
<1> DEFINE start == held[o].addr - firstaddr
           n == held[o].npages
<1>0. num_of_pages \in Nat /\ num_of_coremap_pages \in Nat
  BY SizesNat
<1>1. Index' = Index /\ num_of_pages' = num_of_pages /\ num_of_coremap_pages' = num_of_coremap_pages
  BY DEF coremap_dealloc, Index, num_of_pages, num_of_coremap_pages
<1>2. /\ held[o] # NoBlock /\ held[o].addr \in Nat /\ n \in Nat /\ n > 0
      /\ firstaddr \in Nat /\ lastaddr \in Nat /\ num_of_pages = lastaddr - firstaddr
      /\ firstaddr + num_of_coremap_pages <= held[o].addr
      /\ held[o].addr + n <= lastaddr
      /\ coremap[start].count = n
  BY DEF coremap_dealloc, BlocksCounted, TypeOK, num_of_pages
<1>3. \A i \in Index : coremap'[i] =
        IF i \in start .. (start + n - 1) THEN [used |-> 0, count |-> 0] ELSE coremap[i]
  BY <1>2 DEF coremap_dealloc, Emptied, TypeOK
<1>4. held'[o] = NoBlock /\ \A q \in Owners : q # o => held'[q] = held[q]
  BY DEF coremap_dealloc, TypeOK
<1>5. TypeOK'
  <2>1. coremap' \in [Index' -> [used : {0, 1}, count : Nat]]
    BY <1>1, <1>2 DEF coremap_dealloc, Emptied, TypeOK
  <2>2. held' \in [Owners -> [addr : Nat, npages : Nat]]
    BY DEF coremap_dealloc, TypeOK, NoBlock
  <2> QED BY <2>1, <2>2 DEF TypeOK, coremap_dealloc
<1>6. Layout'
  BY DEF Layout, coremap_dealloc
\* The entries of every other block are left alone.
<1>7. ASSUME NEW q \in Owners, q # o, held[q] # NoBlock
      PROVE  /\ held[q].addr \in Nat /\ held[q].npages \in Nat /\ held[q].npages > 0
             /\ firstaddr + num_of_coremap_pages <= held[q].addr
             /\ held[q].addr + held[q].npages <= lastaddr
             /\ \/ held[o].addr + n <= held[q].addr
                \/ held[q].addr + held[q].npages <= held[o].addr
  BY <1>2, <1>7 DEF BlocksCounted, Disjoint, TypeOK
<1>8. BlocksCounted'
  <2> SUFFICES ASSUME NEW q \in Owners, held'[q] # NoBlock
               PROVE  /\ vm_bootstrap_flag' = 1
                      /\ held'[q].npages > 0
                      /\ firstaddr' + num_of_coremap_pages' <= held'[q].addr
                      /\ held'[q].addr + held'[q].npages <= lastaddr'
                      /\ coremap'[held'[q].addr - firstaddr'].count = held'[q].npages
    BY DEF BlocksCounted, NoBlock
  <2>1. q # o /\ held'[q] = held[q] /\ held[q] # NoBlock
    BY <1>4
  <2>2. /\ held[q].addr - firstaddr \in Index
        /\ ~(held[q].addr - firstaddr \in start .. (start + n - 1))
    BY <2>1, <1>0, <1>2, <1>7 DEF Index
  <2>3. coremap'[held[q].addr - firstaddr] = coremap[held[q].addr - firstaddr]
    BY <2>2, <1>3
  <2> QED BY <2>1, <2>3, <1>1 DEF BlocksCounted, coremap_dealloc
<1>9. Disjoint'
  BY <1>4 DEF Disjoint, NoBlock
<1>10. UsedIffHeld'
  <2> SUFFICES ASSUME NEW i \in Index
               PROVE  coremap'[i].used = 1 <=>
                        \/ i < num_of_coremap_pages
                        \/ \E q \in Owners : held'[q] # NoBlock /\ firstaddr + i \in Frames(held'[q])
    BY <1>1 DEF UsedIffHeld, coremap_dealloc, NoBlock, Frames
  <2>0. i \in Int
    BY DEF Index
  <2>1. CASE i \in start .. (start + n - 1)
    <3>1. coremap'[i].used = 0
      BY <2>1, <1>3
    <3>2. ~(i < num_of_coremap_pages)
      BY <2>0, <2>1, <1>0, <1>2
    <3>3. ASSUME NEW q \in Owners, held'[q] # NoBlock, firstaddr + i \in Frames(held'[q])
          PROVE  FALSE
      <4>1. q # o /\ held'[q] = held[q] /\ held[q] # NoBlock
        BY <3>3, <1>4
      <4>2. held[q].addr <= firstaddr + i /\ firstaddr + i < held[q].addr + held[q].npages
        BY <3>3, <4>1, <1>7, <1>2, <2>0 DEF Frames
      <4> QED BY <4>1, <4>2, <1>7, <1>2, <2>0, <2>1
    <3> QED BY <3>1, <3>2, <3>3
  <2>2. CASE ~(i \in start .. (start + n - 1))
    <3>1. coremap'[i] = coremap[i]
      BY <2>2, <1>3
    <3>2. ~(firstaddr + i \in Frames(held[o]))
      BY <2>0, <2>2, <1>2 DEF Frames
    <3>3. (\E q \in Owners : held'[q] # NoBlock /\ firstaddr + i \in Frames(held'[q]))
          <=> (\E q \in Owners : held[q] # NoBlock /\ firstaddr + i \in Frames(held[q]))
      BY <3>2, <1>4
    <3> QED BY <3>1, <3>3 DEF UsedIffHeld
  <2> QED BY <2>1, <2>2
<1> QED BY <1>5, <1>6, <1>8, <1>9, <1>10

\* A step that changes nothing keeps the invariant.
LEMMA StutterStep ==
    ASSUME IInv, UNCHANGED vars
    PROVE  IInv'
<1>1. Index' = Index /\ num_of_pages' = num_of_pages /\ num_of_coremap_pages' = num_of_coremap_pages
  BY DEF vars, Index, num_of_pages, num_of_coremap_pages
<1>2. TypeOK' /\ Layout' /\ BlocksCounted' /\ Disjoint'
  BY <1>1 DEF vars, IInv, TypeOK, Layout, BlocksCounted, Disjoint
<1>3. UsedIffHeld'
  BY <1>1 DEF vars, IInv, UsedIffHeld
<1> QED BY <1>2, <1>3 DEF IInv

\* IInv is an invariant of physical memory allocation, from boot on.
THEOREM CoremapInvariant == Spec => []IInv
<1>1. IInv /\ [Next]_vars => IInv'
  <2> SUFFICES ASSUME IInv, [Next]_vars PROVE IInv'
    OBVIOUS
  <2>1. CASE \E n \in 0 .. MaxRequest : ram_stealmem(n)
    BY <2>1, StealStep
  <2>2. CASE vm_bootstrap
    BY <2>2, BootstrapStep
  <2>3. CASE \E o \in Owners, n \in 0 .. MaxRequest : coremap_alloc(o, n)
    BY <2>3, AllocStep
  <2>4. CASE \E o \in Owners : coremap_dealloc(o)
    BY <2>4, DeallocStep
  <2>5. CASE UNCHANGED vars
    BY <2>5, StutterStep
  <2> QED BY <2>1, <2>2, <2>3, <2>4, <2>5 DEF Next
<1> QED BY InitIInv, <1>1, PTL DEF Spec

\* Blocks that are apart, above the coremap and below the end of RAM share no frame.
LEMMA ExclusiveFromIInv == IInv => FramesExclusive
<1> SUFFICES ASSUME IInv, NEW o \in Owners, held[o] # NoBlock
             PROVE  /\ Frames(held[o]) \intersect (stolen \union CoremapFrames) = {}
                    /\ Frames(held[o]) \subseteq FirstFree .. (LastPage - 1)
                    /\ \A q \in Owners \ {o} : Frames(held[o]) \intersect Frames(held[q]) = {}
  BY DEF FramesExclusive
<1>0. num_of_pages \in Nat /\ num_of_coremap_pages \in Nat
  BY SizesNat DEF IInv
<1>1. /\ held[o].addr \in Nat /\ held[o].npages \in Nat
      /\ firstaddr \in Nat /\ firstaddr + num_of_coremap_pages <= held[o].addr
      /\ held[o].addr + held[o].npages <= lastaddr
      /\ FirstFree \in Nat /\ LastPage \in Nat
      /\ FirstFree <= firstaddr /\ lastaddr = LastPage
      /\ stolen \subseteq FirstFree .. (firstaddr - 1)
  BY RamAssumption DEF IInv, TypeOK, Layout, BlocksCounted
<1>2. Frames(held[o]) \intersect (stolen \union CoremapFrames) = {}
  BY <1>0, <1>1 DEF Frames, CoremapFrames
<1>3. Frames(held[o]) \subseteq FirstFree .. (LastPage - 1)
  BY <1>0, <1>1 DEF Frames
<1>4. ASSUME NEW q \in Owners \ {o}
      PROVE  Frames(held[o]) \intersect Frames(held[q]) = {}
  <2>1. CASE held[q] = NoBlock
    <3>1. Frames(held[q]) = {}
      BY <2>1 DEF Frames, NoBlock
    <3> QED BY <3>1
  <2>2. CASE held[q] # NoBlock
    <3>1. /\ held[q].addr \in Nat /\ held[q].npages \in Nat
          /\ \/ held[o].addr + held[o].npages <= held[q].addr
             \/ held[q].addr + held[q].npages <= held[o].addr
      BY <2>2 DEF IInv, Disjoint, TypeOK
    <3> QED BY <3>1, <1>1 DEF Frames
  <2> QED BY <2>1, <2>2
<1> QED BY <1>2, <1>3, <1>4

\* coremap_alloc (dumbvm.c:167-209) and coremap_dealloc (151-165): no frame
\* ever has two users, whatever the requests and the size of memory.
THEOREM FramesExclusiveThm == Spec => []FramesExclusive
BY CoremapInvariant, ExclusiveFromIInv, PTL

\* Frames are reclaimed exactly: the coremap marks as used what the coremap or
\* a live allocation occupies, and nothing else (dumbvm.c:151-209).
THEOREM UsedIffHeldThm == Spec => []UsedIffHeld
<1>1. IInv => UsedIffHeld
  BY DEF IInv
<1> QED BY CoremapInvariant, <1>1, PTL
=============================================================================
