--------------------------- MODULE AddrSpaceProof ---------------------------
(***************************************************************************)
(* Proofs about AddrSpace, for any number of processes, processors, address *)
(* spaces and pages: the frames, the TLBs and the contents of user memory.  *)
(***************************************************************************)
EXTENDS AddrSpace, CoremapProof, FiniteSetTheorems

Slot == Table \union Page

Label == {"none", "exec", "prepare", "load", "args", "free", "user", "copy", "spawn", "embryo"}
Content == {Zero, Image, Written, Junk}
MemFrame == FirstFree .. (LastPage - 1)

AsTypeOK ==
    /\ p_addrspace \in [Process -> As \union {NULL}]
    /\ loaded \in [Process -> BOOLEAN]
    /\ st \in [Process -> [pc : Label, as : As \union {NULL}, old : As \union {NULL},
                           child : Process \union {NULL}, k : Nat \ {0}]]
    /\ on \in [CPU -> Process \union {NULL}]
    /\ tlb \in [CPU -> [1 .. NUM_TLB ->
                  [valid : BOOLEAN, page : Page, frame : Nat, dirty : BOOLEAN]]]
    /\ mem \in [MemFrame -> Content]
    /\ image \in [Process -> [Page -> Content]]
    /\ leaked \subseteq As

-----------------------------------------------------------------------------
(* What a thread works on, by where it is *)

\* A program is being put into the process's own, new address space.
Loading(p) ==
    \/ st[p].pc \in {"load", "args"}
    \/ st[p].pc = "prepare" /\ st[p].child = NULL

\* sys_fork builds an address space for the child.
Copying(p) ==
    \/ st[p].pc = "copy"
    \/ st[p].pc = "prepare" /\ st[p].child # NULL

Shape(p) ==
    /\ st[p].pc \in {"none", "exec"} => p_addrspace[p] = NULL
    /\ st[p].pc \in {"none", "exec", "user", "embryo"} =>
         st[p].as = NULL /\ st[p].old = NULL /\ st[p].child = NULL
    /\ st[p].pc = "user" => p_addrspace[p] # NULL
    /\ Loading(p) =>
         /\ p_addrspace[p] # NULL /\ st[p].as = p_addrspace[p]
         /\ st[p].old # p_addrspace[p] /\ st[p].child = NULL
    /\ Copying(p) =>
         /\ p_addrspace[p] # NULL /\ st[p].as # NULL /\ st[p].as # p_addrspace[p]
         /\ st[p].old = NULL /\ st[p].child # NULL
    /\ st[p].pc = "spawn" =>
         /\ p_addrspace[p] # NULL /\ st[p].as = NULL
         /\ st[p].old = NULL /\ st[p].child # NULL
    /\ st[p].pc = "free" =>
         /\ st[p].as # NULL /\ st[p].as # p_addrspace[p]
         /\ st[p].old = NULL /\ st[p].child = NULL
    /\ st[p].pc = "prepare" => st[p].k <= Len(AllocOrder)
    /\ st[p].pc = "load" => st[p].k <= Len(LoadOrder) + 1
    /\ st[p].pc = "copy" => st[p].k <= Len(CopyOrder)
    /\ st[p].pc = "free" => st[p].k <= Len(FreeOrder)

\* Thread p can reach address space a.
Uses(p, a) == a = p_addrspace[p] \/ a = st[p].as \/ a = st[p].old

Complete(a) == \A s \in Slot : held[<<a, s>>] # NoBlock

\* Nobody reaches the address space of another thread, or one that was lost;
\* one that nothing refers to has no memory.
Ownership ==
    /\ \A a \in As : \A p, q \in Process : Uses(p, a) /\ Uses(q, a) => p = q
    /\ \A a \in leaked : \A p \in Process : ~Uses(p, a)
    /\ \A a \in As : ~InUse(a) => \A s \in Slot : held[<<a, s>>] = NoBlock

\* A thread has at most one CPU, and none before it starts and after it ends.
OnCpu ==
    /\ \A c \in CPU : on[c] # NULL => st[on[c]].pc \notin {"none", "embryo"}
    /\ \A c, d \in CPU : on[c] # NULL /\ on[c] = on[d] => c = d

-----------------------------------------------------------------------------
(* What is in memory *)

Holds(a, f) == \A v \in Page : mem[Frame(a, v)] = f[v]

Prepared(a, k) == \A j \in 1 .. Len(AllocOrder) : held[<<a, AllocOrder[j]>>] = NoBlock <=> j >= k
Freed(a, k) == \A j \in 1 .. Len(FreeOrder) : held[<<a, FreeOrder[j]>>] = NoBlock <=> j < k
Zeroes(a) == \A v \in Page : held[<<a, v>>] # NoBlock => mem[Frame(a, v)] = Zero
LoadedBefore(k) == [v \in Page |-> IF \E j \in 1 .. (k - 1) : LoadOrder[j] = v THEN Image ELSE Zero]
Copied(a, k, f) == \A j \in 1 .. (k - 1) : mem[Frame(a, CopyOrder[j])] = f[CopyOrder[j]]

\* The memory that thread p works on, by where it is.
Memory(p) ==
    /\ Settled(p) \/ (st[p].pc = "free" /\ p_addrspace[p] # NULL) =>
         Complete(p_addrspace[p]) /\ Holds(p_addrspace[p], image[p])
    /\ st[p].old # NULL => Complete(st[p].old) /\ Holds(st[p].old, image[p])
    /\ st[p].pc = "prepare" => Prepared(st[p].as, st[p].k) /\ Zeroes(st[p].as)
    /\ st[p].pc = "load" => Complete(st[p].as) /\ Holds(st[p].as, LoadedBefore(st[p].k))
    /\ st[p].pc = "args" =>
         Complete(st[p].as) /\ Holds(st[p].as, LoadedBefore(Len(LoadOrder) + 1))
    /\ st[p].pc = "copy" => Complete(st[p].as) /\ Copied(st[p].as, st[p].k, image[p])
    /\ st[p].pc = "free" => Freed(st[p].as, st[p].k)

\* The child of a fork waits for its parent, which alone refers to it; it has
\* its address space once that is a copy of the parent's.
Family ==
    /\ \A p, r \in Process : st[p].child # NULL /\ st[p].child = st[r].child => p = r
    /\ \A p \in Process : st[p].child # NULL =>
         /\ st[st[p].child].pc = "embryo"
         /\ st[p].pc # "spawn" => p_addrspace[st[p].child] = NULL
         /\ st[p].pc = "spawn" =>
              /\ p_addrspace[st[p].child] # NULL
              /\ Complete(p_addrspace[st[p].child])
              /\ Holds(p_addrspace[st[p].child], image[p])

\* Entries of a CPU's TLB, while its thread has an address space.
Translates(c) ==
    on[c] # NULL /\ p_addrspace[on[c]] # NULL =>
        \A i \in 1 .. NUM_TLB : tlb[c][i].valid =>
            /\ held[<<p_addrspace[on[c]], tlb[c][i].page>>] # NoBlock
            /\ tlb[c][i].frame = Frame(p_addrspace[on[c]], tlb[c][i].page)
            /\ tlb[c][i].page \in Text /\ loaded[on[c]] => ~tlb[c][i].dirty
            /\ \A j \in 1 .. NUM_TLB :
                 tlb[c][j].valid /\ tlb[c][j].page = tlb[c][i].page => i = j

Control == (\A p \in Process : Shape(p)) /\ Ownership /\ OnCpu
Contents == (\A p \in Process : Memory(p)) /\ Family
AsInv == IInv /\ AsTypeOK /\ Control /\ Contents /\ \A c \in CPU : Translates(c)

-----------------------------------------------------------------------------
(* The orders in which pages are allocated, loaded, copied and freed *)

\* Every page and every table of an address space is an owner of memory.
LEMMA SlotOwner == \A a \in As, s \in Slot : <<a, s>> \in Owners
BY AddrSpaceAssumption DEF Slot

\* Sequence s goes over the elements of X, each one once.
Enumerates(s, X) ==
    /\ s \in Seq(X)
    /\ \A i, j \in 1 .. Len(s) : s[i] = s[j] => i = j
    /\ \A x \in X : \E i \in 1 .. Len(s) : s[i] = x

\* The pages of one segment in order.
LEMMA EnumSegment ==
    ASSUME NEW name, NEW n \in Nat
    PROVE  Enumerates(Seq0(name, n), Segment(name, n)) /\ n = Len(Seq0(name, n))
<1> DEFINE s == Seq0(name, n)
<1>1. ASSUME NEW i \in 1 .. n PROVE <<name, i - 1>> \in Segment(name, n)
  <2>1. i - 1 \in 0 .. (n - 1)
    OBVIOUS
  <2> QED BY <2>1 DEF Segment
<1>2. s \in [1 .. n -> Segment(name, n)]
  BY <1>1 DEF Seq0
<1>3. s \in Seq(Segment(name, n)) /\ n = Len(s)
  BY <1>2
<1>4. \A i \in 1 .. n : s[i] = <<name, i - 1>>
  BY DEF Seq0
<1>5. \A i, j \in 1 .. n : s[i] = s[j] => i = j
  BY <1>4
<1>6. ASSUME NEW x \in Segment(name, n) PROVE \E i \in 1 .. n : s[i] = x
  <2>1. PICK m \in 0 .. (n - 1) : x = <<name, m>>
    BY DEF Segment
  <2>2. m + 1 \in 1 .. n /\ (m + 1) - 1 = m
    OBVIOUS
  <2> QED BY <2>1, <2>2, <1>4
<1> HIDE DEF s
<1> QED BY <1>3, <1>5, <1>6 DEF Enumerates, s

\* One enumeration after another, of different things.
LEMMA EnumConcat ==
    ASSUME NEW X, NEW Y, NEW A, NEW B, Enumerates(A, X), Enumerates(B, Y), X \intersect Y = {}
    PROVE  Enumerates(A \o B, X \union Y) /\ Len(A \o B) = Len(A) + Len(B)
<1> DEFINE Z == X \union Y
           C == A \o B
<1>1. A \in Seq(X) /\ B \in Seq(Y)
  BY DEF Enumerates
<1>2. A \in Seq(Z) /\ B \in Seq(Z)
  BY <1>1
<1>3. C \in Seq(Z) /\ Len(C) = Len(A) + Len(B)
  BY <1>2
<1>4. \A i \in 1 .. Len(A) : C[i] = A[i] /\ A[i] \in X
  BY <1>1
<1>5. \A i \in (Len(A) + 1) .. (Len(A) + Len(B)) : C[i] = B[i - Len(A)] /\ B[i - Len(A)] \in Y
  BY <1>1
<1>6. Len(A) \in Nat /\ Len(B) \in Nat
  BY <1>1
<1>7. ASSUME NEW i \in 1 .. Len(C), NEW j \in 1 .. Len(C), C[i] = C[j]
      PROVE  i = j
  <2>1. CASE i <= Len(A) /\ j <= Len(A)
    BY <2>1, <1>3, <1>4, <1>6, <1>7 DEF Enumerates
  <2>2. CASE i > Len(A) /\ j > Len(A)
    <3>1. i - Len(A) \in 1 .. Len(B) /\ j - Len(A) \in 1 .. Len(B)
      BY <2>2, <1>3, <1>6
    <3>2. B[i - Len(A)] = B[j - Len(A)]
      BY <2>2, <1>3, <1>5, <1>6, <1>7
    <3>3. i - Len(A) = j - Len(A)
      BY <3>1, <3>2 DEF Enumerates
    <3> QED BY <3>3, <1>3, <1>6
  <2>3. CASE i <= Len(A) /\ j > Len(A)
    <3>1. C[i] \in X /\ C[j] \in Y
      BY <2>3, <1>3, <1>4, <1>5, <1>6
    <3> QED BY <3>1, <1>7
  <2>4. CASE i > Len(A) /\ j <= Len(A)
    <3>1. C[i] \in Y /\ C[j] \in X
      BY <2>4, <1>3, <1>4, <1>5, <1>6
    <3> QED BY <3>1, <1>7
  <2> QED BY <2>1, <2>2, <2>3, <2>4, <1>3, <1>6
<1>8. ASSUME NEW z \in Z PROVE \E i \in 1 .. Len(C) : C[i] = z
  <2>1. CASE z \in X
    <3>1. PICK i \in 1 .. Len(A) : A[i] = z
      BY <2>1 DEF Enumerates
    <3>2. i \in 1 .. Len(C) /\ C[i] = z
      BY <3>1, <1>3, <1>4, <1>6
    <3> QED BY <3>2
  <2>2. CASE z \in Y
    <3>1. PICK i \in 1 .. Len(B) : B[i] = z
      BY <2>2 DEF Enumerates
    <3>2. i + Len(A) \in 1 .. Len(C) /\ (i + Len(A)) - Len(A) = i /\ i + Len(A) > Len(A)
      BY <1>3, <1>6
    <3>3. C[i + Len(A)] = z
      BY <3>1, <3>2, <1>3, <1>5, <1>6
    <3> QED BY <3>2, <3>3
  <2> QED BY <2>1, <2>2
<1> HIDE DEF C, Z
<1>9. Enumerates(C, Z)
  BY <1>3, <1>7, <1>8 DEF Enumerates
<1> QED BY <1>3, <1>9 DEF C, Z

FilePages == Text \union Segment("data", FilePages2)

\* The three segments, the tables and what the file fills are told apart.
LEMMA SegmentsDisjoint ==
    /\ Text \intersect Data = {} /\ Text \intersect Stack = {} /\ Data \intersect Stack = {}
    /\ Table \intersect Page = {}
    /\ Text \intersect Segment("data", FilePages2) = {}
    /\ Data = Segment("data", FilePages2) \union Bss
    /\ Segment("data", FilePages2) \intersect Bss = {}
    /\ ArgPage \in Stack
<1>0. NPages2 \in Nat /\ FilePages2 \in 0 .. NPages2 /\ DUMBVM_STACKPAGES \in Nat \ {0}
  BY AddrSpaceAssumption
<1>1. /\ Text \intersect Data = {} /\ Text \intersect Stack = {} /\ Data \intersect Stack = {}
      /\ Text \intersect Segment("data", FilePages2) = {}
  BY DEF Text, Data, Stack, Segment
<1>2. Table \intersect Page = {}
  BY DEF Table, Page, Text, Data, Stack, Segment
<1>3. Data = Segment("data", FilePages2) \union Bss
  <2>1. \A i : i \in 0 .. (NPages2 - 1) <=>
               i \in 0 .. (FilePages2 - 1) \/ i \in FilePages2 .. (NPages2 - 1)
    BY <1>0
  <2> QED BY <2>1 DEF Data, Segment, Bss
<1>4. Segment("data", FilePages2) \intersect Bss = {}
  BY <1>0 DEF Segment, Bss
<1>5. ArgPage \in Stack
  <2>1. DUMBVM_STACKPAGES - 1 \in 0 .. (DUMBVM_STACKPAGES - 1)
    BY <1>0
  <2> QED BY <2>1 DEF ArgPage, Stack, Segment
<1> QED BY <1>1, <1>2, <1>3, <1>4, <1>5

\* Each loop of dumbvm.c and loadelf.c visits what it should, once.
LEMMA Orders ==
    /\ Enumerates(CopyOrder, Page) /\ Enumerates(LoadOrder, FilePages)
    /\ Enumerates(AllocOrder, Slot) /\ Enumerates(FreeOrder, Slot)
    /\ Len(CopyOrder) \in Nat \ {0} /\ Len(LoadOrder) \in Nat
    /\ Len(AllocOrder) \in Nat \ {0} /\ Len(FreeOrder) \in Nat \ {0}
<1> DEFINE T == Seq0("text", NPages1)
           D == Seq0("data", NPages2)
           F == Seq0("data", FilePages2)
           S == Seq0("stack", DUMBVM_STACKPAGES)
<1>0. /\ NPages1 \in Nat \ {0} /\ NPages2 \in Nat /\ FilePages2 \in Nat
      /\ DUMBVM_STACKPAGES \in Nat
  BY AddrSpaceAssumption
<1>1. /\ Enumerates(T, Text) /\ NPages1 = Len(T)
      /\ Enumerates(D, Data) /\ NPages2 = Len(D)
      /\ Enumerates(S, Stack) /\ DUMBVM_STACKPAGES = Len(S)
      /\ Enumerates(F, Segment("data", FilePages2)) /\ FilePages2 = Len(F)
  BY <1>0, EnumSegment DEF Text, Data, Stack
<1>2. Enumerates(TableOrder, Table) /\ 3 = Len(TableOrder)
  <2> DEFINE a == <<"table", 1>>
             b == <<"table", 2>>
             c == <<"table", 3>>
  <2>1. a # b /\ a # c /\ b # c
    OBVIOUS
  <2>2. TableOrder = <<a, b, c>> /\ Table = {a, b, c}
    BY DEF TableOrder, Table
  <2> HIDE DEF a, b, c
  <2> QED BY <2>1, <2>2 DEF Enumerates
<1> HIDE DEF T, D, F, S
<1>3. Enumerates(T \o D, Text \union Data) /\ Len(T \o D) = Len(T) + Len(D)
  BY <1>1, SegmentsDisjoint, EnumConcat
<1>4. /\ Enumerates((T \o D) \o S, (Text \union Data) \union Stack)
      /\ Len((T \o D) \o S) = Len(T \o D) + Len(S)
  <2>1. (Text \union Data) \intersect Stack = {}
    BY SegmentsDisjoint
  <2> QED BY <2>1, <1>1, <1>3, EnumConcat
<1>5. CopyOrder = (T \o D) \o S /\ Page = (Text \union Data) \union Stack /\ LoadOrder = T \o F
  BY DEF CopyOrder, Page, LoadOrder, T, D, F, S
<1>6. Enumerates(CopyOrder, Page) /\ Len(CopyOrder) \in Nat \ {0}
  BY <1>0, <1>1, <1>3, <1>4, <1>5
<1>7. Enumerates(LoadOrder, FilePages) /\ Len(LoadOrder) = Len(T) + Len(F)
  <2>1. Text \intersect Segment("data", FilePages2) = {}
    BY SegmentsDisjoint
  <2>2. Enumerates(T \o F, Text \union Segment("data", FilePages2)) /\ Len(T \o F) = Len(T) + Len(F)
    BY <2>1, <1>1, EnumConcat
  <2> QED BY <2>2, <1>5 DEF FilePages
<1>8. Enumerates(AllocOrder, Slot) /\ Len(AllocOrder) = Len(TableOrder) + Len(CopyOrder)
  <2>1. Table \intersect Page = {}
    BY SegmentsDisjoint
  <2> QED BY <2>1, <1>2, <1>6, EnumConcat DEF AllocOrder, Slot
<1>9. Enumerates(FreeOrder, Slot) /\ Len(FreeOrder) = Len(CopyOrder) + Len(TableOrder)
  <2>1. Page \intersect Table = {} /\ Slot = Page \union Table
    BY SegmentsDisjoint DEF Slot
  <2> QED BY <2>1, <1>2, <1>6, EnumConcat DEF FreeOrder
<1> QED BY <1>0, <1>1, <1>2, <1>6, <1>7, <1>8, <1>9

\* An element of an enumeration.
LEMMA EnumAt ==
    ASSUME NEW s, NEW X, Enumerates(s, X), NEW j \in 1 .. Len(s)
    PROVE  s[j] \in X
BY DEF Enumerates

-----------------------------------------------------------------------------
(* Frames *)

\* A held block starts in RAM, and no two start at the same frame.
FramesApart ==
    /\ \A o \in Owners : held[o] # NoBlock => held[o].addr \in MemFrame
    /\ \A o, q \in Owners : o # q /\ held[o] # NoBlock /\ held[q] # NoBlock =>
         held[o].addr # held[q].addr

\* The coremap's invariant gives every held block frames of its own.
LEMMA FrameFacts == IInv => FramesApart
<1> SUFFICES ASSUME IInv PROVE FramesApart
  OBVIOUS
<1> USE RamAssumption
<1>0. num_of_pages \in Nat /\ num_of_coremap_pages \in Nat
  BY SizesNat DEF IInv
<1>1. ASSUME NEW o \in Owners, held[o] # NoBlock
      PROVE  /\ held[o].addr \in Nat /\ held[o].npages \in Nat /\ held[o].npages > 0
             /\ held[o].addr \in MemFrame
  <2>1. /\ held[o].addr \in Nat /\ held[o].npages \in Nat /\ held[o].npages > 0
        /\ firstaddr \in Nat /\ firstaddr + num_of_coremap_pages <= held[o].addr
        /\ held[o].addr + held[o].npages <= lastaddr
        /\ FirstFree <= firstaddr /\ lastaddr = LastPage
    BY <1>1 DEF IInv, TypeOK, BlocksCounted, Layout
  <2> QED BY <2>1, <1>0 DEF MemFrame
<1>2. ASSUME NEW o \in Owners, NEW q \in Owners, o # q, held[o] # NoBlock, held[q] # NoBlock
      PROVE  held[o].addr # held[q].addr
  BY <1>1, <1>2 DEF IInv, Disjoint
<1> QED BY <1>1, <1>2 DEF FramesApart

\* What an allocation gives and leaves alone.
LEMMA AllocEffect ==
    ASSUME IInv, NEW o \in Owners, NEW n \in Nat, coremap_alloc(o, n)
    PROVE  /\ held[o] = NoBlock /\ held'[o] # NoBlock
           /\ \A q \in Owners : q # o => held'[q] = held[q]
<1>1. PICK s \in Index :
        /\ n > 0
        /\ held' = [held EXCEPT ![o] = [addr |-> firstaddr + s, npages |-> n]]
  BY DEF coremap_alloc, FirstFit
<1>2. held \in [Owners -> [addr : Nat, npages : Nat]]
  BY DEF IInv, TypeOK
<1> QED BY <1>1, <1>2 DEF coremap_alloc, NoBlock

\* What a deallocation takes and leaves alone.
LEMMA DeallocEffect ==
    ASSUME IInv, NEW o \in Owners, coremap_dealloc(o)
    PROVE  held'[o] = NoBlock /\ \A q \in Owners : q # o => held'[q] = held[q]
BY DEF IInv, TypeOK, coremap_dealloc

\* A page table has at least one page.
LEMMA SlotPagesNat == \A s \in Slot : SlotPages(s) \in Nat
<1>1. \A n \in Nat : TablePages(n) \in Nat
  <2> SUFFICES ASSUME NEW n \in Nat PROVE TablePages(n) \in Nat
    OBVIOUS
  <2>1. n + PtePerPage - 1 \in Nat /\ PtePerPage \in Nat /\ PtePerPage > 0
    BY AddrSpaceAssumption
  <2> QED BY <2>1 DEF TablePages
<1>2. NPages1 \in Nat /\ NPages2 \in Nat /\ DUMBVM_STACKPAGES \in Nat
  BY AddrSpaceAssumption
<1>3. /\ TablePages(NPages1) \in Nat /\ TablePages(NPages2) \in Nat
      /\ TablePages(DUMBVM_STACKPAGES) \in Nat
  BY <1>1, <1>2
<1> QED BY <1>3 DEF SlotPages

\* Every step of the memory system is a step of the coremap or none.
LEMMA CoreStep ==
    ASSUME IInv, AsTypeOK, \A p \in Process : Shape(p), AsNext
    PROVE  IInv'
<1> USE RamAssumption
<1>1. CASE UNCHANGED vars
  BY <1>1, StutterStep
<1>2. CASE Boot
  <2>1. CASE vm_bootstrap
    BY <2>1, BootstrapStep
  <2>2. CASE \E n \in 1 .. MaxRequest : ram_stealmem(n)
    <3>1. PICK n \in 1 .. MaxRequest : ram_stealmem(n)
      BY <2>2
    <3>2. n \in 0 .. MaxRequest
      OBVIOUS
    <3> QED BY <3>1, <3>2, StealStep
  <2> QED BY <1>2, <2>1, <2>2 DEF Boot
<1>3. ASSUME NEW o \in KernelOwner, KernelPages(o) PROVE IInv'
  <2>1. o \in Owners
    BY DEF KernelOwner
  <2>2. CASE coremap_dealloc(o)
    BY <2>1, <2>2, DeallocStep
  <2>3. CASE \E n \in 0 .. MaxRequest : coremap_alloc(o, n)
    <3>1. PICK n \in 0 .. MaxRequest : coremap_alloc(o, n)
      BY <2>3
    <3>2. n \in Nat
      OBVIOUS
    <3> QED BY <2>1, <3>1, <3>2, AllocStep
  <2> QED BY <1>3, <2>2, <2>3 DEF KernelPages
<1>4. ASSUME NEW c \in CPU, NEW p \in Process, as_prepare_load(c, p) PROVE IInv'
  <2> DEFINE slot == AllocOrder[st[p].k]
  <2>1. st[p].pc = "prepare" /\ coremap_alloc(<<st[p].as, slot>>, SlotPages(slot))
    BY <1>4 DEF as_prepare_load, At
  <2>2. st[p].k \in 1 .. Len(AllocOrder) /\ st[p].as \in As
    <3>1. st[p].k \in Nat \ {0} /\ st[p].k <= Len(AllocOrder) /\ st[p].as \in As
      BY <2>1 DEF AsTypeOK, Shape, Loading, Copying
    <3> QED BY <3>1, Orders
  <2>3. slot \in Slot
    BY <2>2, Orders, EnumAt
  <2>4. <<st[p].as, slot>> \in Owners /\ SlotPages(slot) \in Nat
    BY <2>2, <2>3, SlotOwner, SlotPagesNat
  <2> QED BY <2>1, <2>4, AllocStep
<1>5. ASSUME NEW c \in CPU, NEW p \in Process, as_destroy(c, p) PROVE IInv'
  <2> DEFINE slot == FreeOrder[st[p].k]
  <2>1. st[p].pc = "free" /\ coremap_dealloc(<<st[p].as, slot>>)
    BY <1>5 DEF as_destroy, At
  <2>2. st[p].k \in 1 .. Len(FreeOrder) /\ st[p].as \in As
    <3>1. st[p].k \in Nat \ {0} /\ st[p].k <= Len(FreeOrder) /\ st[p].as \in As
      BY <2>1 DEF AsTypeOK, Shape
    <3> QED BY <3>1, Orders
  <2>3. slot \in Slot
    BY <2>2, Orders, EnumAt
  <2> QED BY <2>1, <2>2, <2>3, SlotOwner, DeallocStep
<1>6. CASE \/ \E p \in Process : StartProgram(p)
           \/ \E c \in CPU, p \in Process \union {NULL} : Switch(c, p)
  BY <1>1, <1>6 DEF StartProgram, Switch
<1>7. ASSUME NEW c \in CPU, NEW p \in Process,
             \/ ExecBegin(c, p) \/ BadProgram(c, p) \/ PrepareFails(c, p)
             \/ LoadPage(c, p) \/ LoadFault(c, p) \/ LoadReadonly(c, p)
             \/ as_complete_load(c, p) \/ ArgFault(c, p) \/ PassArguments(c, p)
             \/ ExecFails(c, p) \/ RunFails(c, p) \/ Exit(c, p) \/ BadAddress(c, p)
      PROVE  IInv'
  BY <1>1, <1>7 DEF ExecBegin, BadProgram, PrepareFails, LoadPage, LoadFault, LoadReadonly,
     as_complete_load, ArgFault, PassArguments, ExecFails, RunFails, Exit, BadAddress,
     vm_fault, Halt, sys__exit
<1>8. ASSUME NEW c \in CPU, NEW p \in Process,
             \/ CopyPage(c, p) \/ Spawn(c, p) \/ SpawnFails(c, p)
             \/ \E q \in Process : ForkBegin(c, p, q)
             \/ \E v \in Touched : UserFault(c, p, v) \/ UserWrite(c, p, v) \/ UserReadonly(c, p, v)
      PROVE  IInv'
  BY <1>1, <1>8 DEF CopyPage, Spawn, SpawnFails, ForkBegin, UserFault, UserWrite, UserReadonly,
     vm_fault, sys__exit
<1> QED BY <1>2, <1>3, <1>4, <1>5, <1>6, <1>7, <1>8 DEF AsNext

-----------------------------------------------------------------------------
(* Steps that leave an address space alone *)

\* A step changes neither the page tables nor the pages of a.
Kept(a) ==
    /\ \A s \in Slot : held'[<<a, s>>] = held[<<a, s>>]
    /\ \A v \in Page : held[<<a, v>>] # NoBlock => mem'[Frame(a, v)] = mem[Frame(a, v)]

\* Then all that is said about its memory stays true.
LEMMA SpaceKept ==
    ASSUME NEW a, Kept(a), NEW k \in Nat, NEW f
    PROVE  /\ Complete(a)' <=> Complete(a)
           /\ Prepared(a, k)' <=> Prepared(a, k)
           /\ Freed(a, k)' <=> Freed(a, k)
           /\ Zeroes(a)' <=> Zeroes(a)
           /\ Complete(a) => (Holds(a, f)' <=> Holds(a, f))
           /\ Complete(a) /\ k <= Len(CopyOrder) => (Copied(a, k, f)' <=> Copied(a, k, f))
<1>0. Page \subseteq Slot
  BY DEF Slot
<1>1. Complete(a)' <=> Complete(a)
  BY DEF Kept, Complete
<1>2. \A j \in 1 .. Len(AllocOrder) : held'[<<a, AllocOrder[j]>>] = held[<<a, AllocOrder[j]>>]
  BY Orders, EnumAt DEF Kept
<1>3. Prepared(a, k)' <=> Prepared(a, k)
  BY <1>2 DEF Prepared, NoBlock
<1>4. \A j \in 1 .. Len(FreeOrder) : held'[<<a, FreeOrder[j]>>] = held[<<a, FreeOrder[j]>>]
  BY Orders, EnumAt DEF Kept
<1>5. Freed(a, k)' <=> Freed(a, k)
  BY <1>4 DEF Freed, NoBlock
<1>6. \A v \in Page : /\ held'[<<a, v>>] = held[<<a, v>>]
                      /\ held[<<a, v>>] # NoBlock =>
                           mem'[held'[<<a, v>>].addr] = mem[held[<<a, v>>].addr]
  BY <1>0 DEF Kept, Frame
<1>7. Zeroes(a)' <=> Zeroes(a)
  BY <1>6 DEF Zeroes, Frame, NoBlock, Zero
<1>8. Complete(a) => \A v \in Page : mem'[held'[<<a, v>>].addr] = mem[held[<<a, v>>].addr]
  BY <1>0, <1>6 DEF Complete
<1>9. Complete(a) => (Holds(a, f)' <=> Holds(a, f))
  BY <1>8 DEF Holds, Frame
<1>10. ASSUME Complete(a), k <= Len(CopyOrder) PROVE Copied(a, k, f)' <=> Copied(a, k, f)
  <2>1. \A j \in 1 .. (k - 1) : j \in 1 .. Len(CopyOrder)
    BY <1>10, Orders
  <2>2. \A j \in 1 .. (k - 1) : CopyOrder[j] \in Page
    BY <2>1, Orders, EnumAt
  <2> QED BY <1>8, <1>10, <2>2 DEF Copied, Frame
<1> QED BY <1>1, <1>3, <1>5, <1>7, <1>9, <1>10

\* A thread that does nothing, and whose address spaces are left alone, finds
\* its memory as it was.
LEMMA MemoryKept ==
    ASSUME AsTypeOK, NEW r \in Process, Shape(r), Memory(r), st'[r] = st[r],
           p_addrspace'[r] = p_addrspace[r], image'[r] = image[r],
           \A a \in As : Uses(r, a) => Kept(a)
    PROVE  Memory(r)'
<1>0. /\ p_addrspace[r] \in As \union {NULL} /\ st[r].as \in As \union {NULL}
      /\ st[r].old \in As \union {NULL} /\ st[r].k \in Nat
  BY DEF AsTypeOK
<1>1. Loading(r)' = Loading(r) /\ Copying(r)' = Copying(r) /\ Settled(r)' = Settled(r)
  BY DEF Loading, Copying, Settled
<1>2. ASSUME NEW a \in As, Uses(r, a), NEW k \in Nat, NEW f
      PROVE  /\ Complete(a)' <=> Complete(a)
             /\ Prepared(a, k)' <=> Prepared(a, k)
             /\ Freed(a, k)' <=> Freed(a, k)
             /\ Zeroes(a)' <=> Zeroes(a)
             /\ Complete(a) => (Holds(a, f)' <=> Holds(a, f))
             /\ Complete(a) /\ k <= Len(CopyOrder) => (Copied(a, k, f)' <=> Copied(a, k, f))
  BY <1>2, SpaceKept
<1>3. p_addrspace[r] \in As => Uses(r, p_addrspace[r])
  BY DEF Uses
<1>4. (st[r].as \in As => Uses(r, st[r].as)) /\ (st[r].old \in As => Uses(r, st[r].old))
  BY DEF Uses
<1>5. Settled(r) \/ (st[r].pc = "free" /\ p_addrspace[r] # NULL) => p_addrspace[r] \in As
  BY <1>0 DEF Shape, Settled, Loading, Copying
<1>6. st[r].pc \in {"prepare", "load", "args", "copy", "free"} => st[r].as \in As
  BY <1>0 DEF Shape, Loading, Copying
<1>7. Len(LoadOrder) + 1 \in Nat
  BY Orders
<1>8. (Settled(r) \/ (st[r].pc = "free" /\ p_addrspace[r] # NULL) =>
         Complete(p_addrspace[r]) /\ Holds(p_addrspace[r], image[r]))'
  BY <1>1, <1>2, <1>3, <1>5 DEF Memory
<1>9. (st[r].old # NULL => Complete(st[r].old) /\ Holds(st[r].old, image[r]))'
  BY <1>0, <1>2, <1>4 DEF Memory
<1>10. (st[r].pc = "prepare" => Prepared(st[r].as, st[r].k) /\ Zeroes(st[r].as))'
  BY <1>0, <1>2, <1>4, <1>6 DEF Memory
<1>11. (st[r].pc = "load" => Complete(st[r].as) /\ Holds(st[r].as, LoadedBefore(st[r].k)))'
  BY <1>0, <1>2, <1>4, <1>6 DEF Memory
<1>12. (st[r].pc = "args" =>
          Complete(st[r].as) /\ Holds(st[r].as, LoadedBefore(Len(LoadOrder) + 1)))'
  BY <1>0, <1>2, <1>4, <1>6 DEF Memory
<1>13. (st[r].pc = "copy" => Complete(st[r].as) /\ Copied(st[r].as, st[r].k, image[r]))'
  BY <1>0, <1>2, <1>4, <1>6 DEF Memory, Shape
<1>14. (st[r].pc = "free" => Freed(st[r].as, st[r].k))'
  BY <1>0, <1>2, <1>4, <1>6 DEF Memory
<1> QED BY <1>8, <1>9, <1>10, <1>11, <1>12, <1>13, <1>14 DEF Memory

\* A step that changes neither page tables nor memory.
LEMMA NothingMoved ==
    ASSUME held' = held, mem' = mem
    PROVE  \A a \in As : Kept(a)
BY DEF Kept, Frame

\* A store to one page of an address space.
LEMMA StoreKeeps ==
    ASSUME IInv, AsTypeOK, NEW b \in As, NEW w \in Page, NEW x, held[<<b, w>>] # NoBlock,
           held' = held, mem' = [mem EXCEPT ![Frame(b, w)] = x]
    PROVE  /\ \A a \in As : a # b => Kept(a)
           /\ \A v \in Page : v # w /\ held[<<b, v>>] # NoBlock =>
                mem'[Frame(b, v)] = mem[Frame(b, v)]
           /\ mem'[Frame(b, w)] = x
<1>1. <<b, w>> \in Owners /\ Frame(b, w) \in MemFrame
  BY SlotOwner, FrameFacts DEF Slot, Frame, FramesApart
<1>2. ASSUME NEW a \in As, NEW v \in Page, <<a, v>> # <<b, w>>, held[<<a, v>>] # NoBlock
      PROVE  mem'[Frame(a, v)] = mem[Frame(a, v)]
  <2>1. <<a, v>> \in Owners
    BY SlotOwner DEF Slot
  <2>2. Frame(a, v) # Frame(b, w) /\ Frame(a, v) \in MemFrame
    BY <1>1, <1>2, <2>1, FrameFacts DEF Frame, FramesApart
  <2> QED BY <2>2 DEF AsTypeOK
<1>3. \A a \in As : a # b => Kept(a)
  BY <1>2 DEF Kept
<1>4. mem'[Frame(b, w)] = x
  BY <1>1 DEF AsTypeOK
<1> QED BY <1>2, <1>3, <1>4

\* as_prepare_load gets one more frame, or a table.
LEMMA AllocKeeps ==
    ASSUME IInv, IInv', AsTypeOK, NEW b \in As, NEW slot \in Slot, NEW n \in Nat,
           coremap_alloc(<<b, slot>>, n), mem' = Zeroed(slot, held'[<<b, slot>>].addr)
    PROVE  /\ \A a \in As : a # b => Kept(a)
           /\ \A s \in Slot : s # slot => held'[<<b, s>>] = held[<<b, s>>]
           /\ held[<<b, slot>>] = NoBlock /\ held'[<<b, slot>>] # NoBlock
           /\ \A v \in Page : held[<<b, v>>] # NoBlock =>
                mem'[held'[<<b, v>>].addr] = mem[held[<<b, v>>].addr]
           /\ slot \in Page => mem'[held'[<<b, slot>>].addr] = Zero
<1> DEFINE o == <<b, slot>>
           f == held'[o].addr
<1>0. o \in Owners
  BY SlotOwner
<1>1. /\ held[o] = NoBlock /\ held'[o] # NoBlock
      /\ \A q \in Owners : q # o => held'[q] = held[q]
  BY <1>0, AllocEffect
<1>2. /\ \A q \in Owners : held'[q] # NoBlock => held'[q].addr \in MemFrame
      /\ \A q, r \in Owners : q # r /\ held'[q] # NoBlock /\ held'[r] # NoBlock =>
           held'[q].addr # held'[r].addr
  <2>1. FramesApart'
    BY FrameFacts, PTL
  <2> QED BY <2>1 DEF FramesApart, NoBlock
<1>3. ASSUME NEW a \in As, NEW v \in Page, held[<<a, v>>] # NoBlock
      PROVE  mem'[held'[<<a, v>>].addr] = mem[held[<<a, v>>].addr] /\ held'[<<a, v>>] = held[<<a, v>>]
  <2>1. <<a, v>> \in Owners /\ <<a, v>> # o
    BY <1>1, <1>3, SlotOwner DEF Slot
  <2>2. held'[<<a, v>>] = held[<<a, v>>]
    BY <1>1, <2>1
  <2>3. held'[<<a, v>>].addr # f /\ held'[<<a, v>>].addr \in MemFrame
    BY <1>0, <1>1, <1>2, <1>3, <2>1, <2>2
  <2> QED BY <2>2, <2>3 DEF Zeroed, AsTypeOK
<1>4. \A a \in As : a # b => Kept(a)
  BY <1>1, <1>3, SlotOwner DEF Kept, Frame
<1>5. \A s \in Slot : s # slot => held'[<<b, s>>] = held[<<b, s>>]
  BY <1>1, SlotOwner
<1>6. slot \in Page => mem'[f] = Zero
  BY <1>0, <1>1, <1>2 DEF Zeroed, AsTypeOK
<1> QED BY <1>1, <1>3, <1>4, <1>5, <1>6

\* as_destroy gives one frame, or a table, back.
LEMMA FreeKeeps ==
    ASSUME IInv, AsTypeOK, NEW b \in As, NEW slot \in Slot, coremap_dealloc(<<b, slot>>),
           mem' = [mem EXCEPT ![held[<<b, slot>>].addr] = Junk]
    PROVE  /\ \A a \in As : a # b => Kept(a)
           /\ \A s \in Slot : s # slot => held'[<<b, s>>] = held[<<b, s>>]
           /\ held'[<<b, slot>>] = NoBlock
<1> DEFINE o == <<b, slot>>
<1>0. o \in Owners
  BY SlotOwner
<1>1. held[o] # NoBlock /\ held'[o] = NoBlock /\ \A q \in Owners : q # o => held'[q] = held[q]
  BY <1>0, DeallocEffect DEF coremap_dealloc
<1>2. ASSUME NEW a \in As, NEW v \in Page, a # b, held[<<a, v>>] # NoBlock
      PROVE  mem'[Frame(a, v)] = mem[Frame(a, v)]
  <2>1. <<a, v>> \in Owners /\ <<a, v>> # o
    BY <1>2, SlotOwner DEF Slot
  <2>2. Frame(a, v) # held[o].addr /\ Frame(a, v) \in MemFrame
    BY <1>0, <1>1, <1>2, <2>1, FrameFacts DEF Frame, FramesApart
  <2> QED BY <2>2 DEF AsTypeOK
<1>3. \A a \in As : a # b => Kept(a)
  BY <1>1, <1>2, SlotOwner DEF Kept
<1> QED BY <1>1, <1>3, SlotOwner

\* Pages of the kernel are no pages of an address space.
LEMMA KernelKeeps ==
    ASSUME IInv, NEW o \in KernelOwner, KernelPages(o)
    PROVE  \A a \in As : Kept(a)
<1>1. o \in Owners /\ \A a \in As, s \in Slot : <<a, s>> # o
  BY DEF KernelOwner, Slot
<1>2. \A q \in Owners : q # o => held'[q] = held[q]
  <2>1. CASE coremap_dealloc(o)
    BY <2>1, <1>1, DeallocEffect
  <2>2. CASE \E n \in 0 .. MaxRequest : coremap_alloc(o, n)
    <3>1. PICK n \in 0 .. MaxRequest : coremap_alloc(o, n)
      BY <2>2
    <3>2. n \in Nat
      BY RamAssumption
    <3> QED BY <1>1, <3>1, <3>2, AllocEffect
  <2> QED BY <2>1, <2>2 DEF KernelPages
<1>3. mem' = mem
  BY DEF KernelPages, asVars
<1> QED BY <1>1, <1>2, <1>3, SlotOwner DEF Kept, Frame

-----------------------------------------------------------------------------
(* Parts of the invariant that a step does not touch *)

\* Steps that move no thread and no page table.
LEMMA ControlSame ==
    ASSUME Control, UNCHANGED <<st, p_addrspace, on, leaked, held>>
    PROVE  Control'
<1>1. \A p \in Process : Shape(p)'
  BY DEF Control, Shape, Loading, Copying
<1>2. Ownership'
  BY DEF Control, Ownership, Uses, InUse, NoBlock
<1>3. OnCpu'
  BY DEF Control, OnCpu
<1> QED BY <1>1, <1>2, <1>3 DEF Control

\* Nobody moves, and no page of an address space changes.
LEMMA ContentsKept1 ==
    ASSUME AsInv, UNCHANGED <<st, p_addrspace, image>>, \A a \in As : Kept(a)
    PROVE  Contents'
<1>1. ASSUME NEW r \in Process PROVE Memory(r)'
  BY MemoryKept DEF AsInv, Control, Contents
<1>2. ASSUME NEW p \in Process, st[p].child # NULL, st[p].pc = "spawn"
      PROVE  (Complete(p_addrspace[st[p].child]) /\ Holds(p_addrspace[st[p].child], image[p]))'
  <2>1. p_addrspace[st[p].child] \in As
    BY <1>2 DEF AsInv, AsTypeOK, Contents, Family
  <2>2. Complete(p_addrspace[st[p].child]) /\ Holds(p_addrspace[st[p].child], image[p])
    BY <1>2 DEF AsInv, Contents, Family
  <2>3. 0 \in Nat
    OBVIOUS
  <2> QED BY <2>1, <2>2, <2>3, SpaceKept
<1>3. Family'
  BY <1>2 DEF AsInv, Contents, Family
<1> QED BY <1>1, <1>3 DEF Contents

\* The TLB of a CPU whose thread keeps its address space and its frames.
LEMMA TranslatesKept ==
    ASSUME AsTypeOK, NEW c \in CPU, Translates(c), on'[c] = on[c], tlb'[c] = tlb[c],
           on[c] # NULL =>
             /\ p_addrspace'[on[c]] = p_addrspace[on[c]]
             /\ loaded'[on[c]] = loaded[on[c]]
             /\ p_addrspace[on[c]] # NULL => \A v \in Page :
                  held[<<p_addrspace[on[c]], v>>] # NoBlock =>
                    held'[<<p_addrspace[on[c]], v>>] = held[<<p_addrspace[on[c]], v>>]
    PROVE  Translates(c)'
<1> SUFFICES ASSUME on[c] # NULL, p_addrspace[on[c]] # NULL, NEW i \in 1 .. NUM_TLB, tlb[c][i].valid
             PROVE  /\ held'[<<p_addrspace[on[c]], tlb[c][i].page>>] # NoBlock
                    /\ tlb[c][i].frame = held'[<<p_addrspace[on[c]], tlb[c][i].page>>].addr
                    /\ tlb[c][i].page \in Text /\ loaded[on[c]] => ~tlb[c][i].dirty
                    /\ \A j \in 1 .. NUM_TLB :
                         tlb[c][j].valid /\ tlb[c][j].page = tlb[c][i].page => i = j
  BY DEF Translates, Frame, NoBlock
<1>1. tlb[c][i].page \in Page
  BY DEF AsTypeOK
<1> QED BY <1>1 DEF Translates, Frame

\* as_activate leaves nothing that could be wrong.
LEMMA TranslatesEmpty ==
    ASSUME NEW c \in CPU, tlb'[c] = NoTLB
    PROVE  Translates(c)'
BY DEF Translates, NoTLB, Invalid

\* Halting, and every step that does nothing at all.
LEMMA SameState ==
    ASSUME AsInv, UNCHANGED <<vars, p_addrspace, loaded, st, on, tlb, mem, image, leaked>>
    PROVE  AsInv'
<1>1. IInv'
  BY StutterStep DEF AsInv
<1>2. AsTypeOK'
  BY DEF AsInv, AsTypeOK
<1>3. Control'
  BY ControlSame DEF AsInv, vars
<1>4. Contents'
  <2>1. \A a \in As : Kept(a)
    BY NothingMoved DEF vars
  <2> QED BY <2>1, ContentsKept1
<1>5. ASSUME NEW c \in CPU PROVE Translates(c)'
  BY TranslatesKept DEF AsInv, vars
<1> QED BY <1>1, <1>2, <1>3, <1>4, <1>5 DEF AsInv

-----------------------------------------------------------------------------
(* Steps, one by one *)

\* vm_fault for a page of a complete address space.
LEMMA FaultStep ==
    ASSUME AsInv, NEW c \in CPU, NEW p \in Process, NEW v \in Page, on[c] = p,
           p_addrspace[p] \in As, Complete(p_addrspace[p]), vm_fault(c, p, v)
    PROVE  AsInv'
<1>0. /\ UNCHANGED <<vars, p_addrspace, loaded, st, on, mem, image, leaked, halted>>
      /\ Hits(c, v) = {}
  BY DEF vm_fault
<1>1. PICK i \in 1 .. NUM_TLB : tlb' = [tlb EXCEPT ![c][i] = Entry(p, v)]
  BY DEF vm_fault
<1>2. /\ tlb \in [CPU -> [1 .. NUM_TLB ->
                    [valid : BOOLEAN, page : Page, frame : Nat, dirty : BOOLEAN]]]
      /\ loaded \in [Process -> BOOLEAN]
  BY DEF AsInv, AsTypeOK
<1>3. held[<<p_addrspace[p], v>>] # NoBlock /\ Frame(p_addrspace[p], v) \in Nat
  <2>1. <<p_addrspace[p], v>> \in Owners
    BY SlotOwner DEF Slot
  <2> QED BY <2>1 DEF Complete, Slot, Frame, AsInv, IInv, TypeOK
<1>4. /\ Entry(p, v) \in [valid : BOOLEAN, page : Page, frame : Nat, dirty : BOOLEAN]
      /\ Entry(p, v).page = v /\ Entry(p, v).frame = Frame(p_addrspace[p], v)
      /\ v \in Text /\ loaded[p] => ~Entry(p, v).dirty
  BY <1>2, <1>3 DEF Entry
<1>5. IInv'
  BY <1>0, StutterStep DEF AsInv
<1>6. AsTypeOK'
  BY <1>0, <1>1, <1>2, <1>4 DEF AsInv, AsTypeOK
<1>7. Control'
  BY <1>0, ControlSame DEF AsInv, vars
<1>8. Contents'
  <2>1. \A a \in As : Kept(a)
    BY <1>0, NothingMoved DEF vars
  <2> QED BY <1>0, <2>1, ContentsKept1
<1>9. ASSUME NEW d \in CPU, d # c PROVE Translates(d)'
  <2>1. tlb'[d] = tlb[d]
    BY <1>1, <1>2, <1>9
  <2> QED BY <1>0, <2>1, TranslatesKept DEF AsInv, vars
<1>10. Translates(c)'
  <2> DEFINE a == p_addrspace[p]
  <2>1. /\ tlb'[c][i] = Entry(p, v)
        /\ \A j \in 1 .. NUM_TLB : j # i => tlb'[c][j] = tlb[c][j]
    BY <1>1, <1>2
  <2>2. \A j \in 1 .. NUM_TLB : tlb[c][j].valid => tlb[c][j].page # v
    BY <1>0 DEF Hits
  <2>3. \A j \in 1 .. NUM_TLB : tlb[c][j].valid =>
          /\ held[<<a, tlb[c][j].page>>] # NoBlock
          /\ tlb[c][j].frame = Frame(a, tlb[c][j].page)
          /\ tlb[c][j].page \in Text /\ loaded[p] => ~tlb[c][j].dirty
          /\ \A l \in 1 .. NUM_TLB :
               tlb[c][l].valid /\ tlb[c][l].page = tlb[c][j].page => j = l
    BY AddrSpaceAssumption DEF AsInv, Translates
  <2>4. on'[c] = p /\ p_addrspace'[p] = a /\ loaded'[p] = loaded[p] /\ held' = held
    BY <1>0 DEF vars
  <2>5. ASSUME NEW j \in 1 .. NUM_TLB, tlb'[c][j].valid
        PROVE  /\ held[<<a, tlb'[c][j].page>>] # NoBlock
               /\ tlb'[c][j].frame = Frame(a, tlb'[c][j].page)
               /\ tlb'[c][j].page \in Text /\ loaded[p] => ~tlb'[c][j].dirty
               /\ \A l \in 1 .. NUM_TLB :
                    tlb'[c][l].valid /\ tlb'[c][l].page = tlb'[c][j].page => j = l
    <3>1. CASE j = i
      BY <3>1, <2>1, <2>2, <1>3, <1>4
    <3>2. CASE j # i
      BY <3>2, <2>1, <2>2, <2>3, <2>5, <1>4
    <3> QED BY <3>1, <3>2
  <2> QED BY <2>4, <2>5 DEF Translates, Frame, NoBlock
<1> QED BY <1>5, <1>6, <1>7, <1>8, <1>9, <1>10 DEF AsInv

\* Boot and the kernel's own pages.
LEMMA KernelStep ==
    ASSUME AsInv, IInv', Boot \/ \E o \in KernelOwner : KernelPages(o)
    PROVE  AsInv'
<1>1. UNCHANGED asVars
  BY DEF Boot, KernelPages
<1>2. /\ \A a \in As : Kept(a)
      /\ \A a \in As, s \in Slot : held'[<<a, s>>] = held[<<a, s>>]
  <2>1. CASE Boot
    <3>1. held' = held /\ mem' = mem
      BY <1>1, <2>1 DEF Boot, ram_stealmem, vm_bootstrap, asVars
    <3> QED BY <3>1, NothingMoved
  <2>2. CASE \E o \in KernelOwner : KernelPages(o)
    <3>1. \A a \in As : Kept(a)
      BY <2>2, KernelKeeps DEF AsInv
    <3> QED BY <3>1 DEF Kept
  <2> QED BY <2>1, <2>2
<1>3. AsTypeOK'
  BY <1>1 DEF asVars, AsInv, AsTypeOK
<1>4. Control'
  <2>1. \A p \in Process : Shape(p)'
    BY <1>1 DEF AsInv, Control, Shape, Loading, Copying, asVars
  <2>2. Ownership'
    BY <1>1, <1>2 DEF AsInv, Control, Ownership, Uses, InUse, NoBlock, asVars
  <2>3. OnCpu'
    BY <1>1 DEF AsInv, Control, OnCpu, asVars
  <2> QED BY <2>1, <2>2, <2>3 DEF Control
<1>5. Contents'
  BY <1>1, <1>2, ContentsKept1 DEF asVars
<1>6. ASSUME NEW c \in CPU PROVE Translates(c)'
  <2>1. p_addrspace[on[c]] # NULL /\ on[c] # NULL => p_addrspace[on[c]] \in As
    BY DEF AsInv, AsTypeOK
  <2> QED BY <1>1, <1>2, <2>1, TranslatesKept DEF asVars, AsInv, Slot
<1> QED BY <1>3, <1>4, <1>5, <1>6 DEF AsInv

\* The address spaces in use are the lost ones and those some thread uses.
LEMMA InUseUses == \A a : InUse(a) <=> a \in leaked \/ \E p \in Process : Uses(p, a)
BY DEF InUse, Uses

\* Only the thread of p moves.
OnlyMoves(p) ==
    \A r \in Process : r # p =>
        st'[r] = st[r] /\ p_addrspace'[r] = p_addrspace[r] /\ image'[r] = image[r]

\* p is not in the middle of a fork, or goes on preparing or copying.
SameChild(p) ==
    \/ st'[p].child = NULL
    \/ st'[p].child = st[p].child /\ st[p].pc # "spawn" /\ st'[p].pc # "spawn"

\* A step of one thread leaves the parents and children of others alone.
LEMMA FamilyKept ==
    ASSUME AsInv, NEW p \in Process, OnlyMoves(p), st[p].pc # "embryo", SameChild(p),
           \A r \in Process, a \in As : r # p /\ Uses(r, a) => Kept(a)
    PROVE  Family'
<1>0. Family /\ AsTypeOK
  BY DEF AsInv, Contents
<1>1. ASSUME NEW r \in Process, st'[r].child # NULL
      PROVE  /\ st[r].child = st'[r].child /\ st[r].child \in Process /\ st[r].child # p
             /\ st[st[r].child].pc = "embryo"
             /\ r = p => st[r].pc # "spawn" /\ st'[r].pc # "spawn"
  <2>1. st[r].child = st'[r].child /\ (r = p => st[r].pc # "spawn" /\ st'[r].pc # "spawn")
    BY <1>1 DEF OnlyMoves, SameChild
  <2> QED BY <2>1, <1>0, <1>1 DEF Family, AsTypeOK
<1>2. \A r, q \in Process : st'[r].child # NULL /\ st'[r].child = st'[q].child => r = q
  BY <1>0, <1>1 DEF Family
<1>3. ASSUME NEW r \in Process, st'[r].child # NULL
      PROVE  /\ st'[st'[r].child].pc = "embryo"
             /\ st'[r].pc # "spawn" => p_addrspace'[st'[r].child] = NULL
             /\ st'[r].pc = "spawn" =>
                  /\ p_addrspace'[st'[r].child] # NULL
                  /\ Complete(p_addrspace[st[r].child])'
                  /\ Holds(p_addrspace[st[r].child], image[r])'
  <2> DEFINE q == st[r].child
  <2>1. /\ q = st'[r].child /\ q \in Process /\ q # p /\ st[q].pc = "embryo"
        /\ st'[q] = st[q] /\ p_addrspace'[q] = p_addrspace[q]
    BY <1>1, <1>3 DEF OnlyMoves
  <2>2. CASE st'[r].pc # "spawn"
    <3>1. st[r].pc # "spawn"
      BY <2>2, <1>1, <1>3 DEF OnlyMoves
    <3> QED BY <2>1, <2>2, <3>1, <1>0, <1>3 DEF Family
  <2>3. CASE st'[r].pc = "spawn"
    <3>1. r # p /\ st[r].pc = "spawn" /\ image'[r] = image[r]
      BY <2>3, <1>1, <1>3 DEF OnlyMoves
    <3>2. /\ p_addrspace[q] # NULL /\ Complete(p_addrspace[q]) /\ Holds(p_addrspace[q], image[r])
      BY <2>1, <3>1, <1>0, <1>3 DEF Family
    <3>3. p_addrspace[q] \in As /\ Uses(q, p_addrspace[q])
      BY <2>1, <3>2, <1>0 DEF AsTypeOK, Uses
    <3>4. Kept(p_addrspace[q]) /\ 0 \in Nat
      BY <2>1, <3>3
    <3>5. Complete(p_addrspace[q])' /\ Holds(p_addrspace[q], image[r])'
      BY <2>1, <3>1, <3>2, <3>3, <3>4, SpaceKept
    <3> QED BY <2>1, <2>3, <3>2, <3>5
  <2> QED BY <2>2, <2>3
<1> QED BY <1>2, <1>3 DEF Family

\* A step of one thread that keeps to itself.
LEMMA MoverStep ==
    ASSUME AsInv, IInv', AsTypeOK', NEW p \in Process, OnlyMoves(p), st[p].pc # "embryo",
           SameChild(p), Shape(p)', Memory(p)',
           \A r \in Process, a \in As : r # p /\ Uses(r, a) => Kept(a),
           \A a \in As : Uses(p, a)' => Uses(p, a) \/ ~InUse(a),
           \A a \in leaked' : a \in leaked \/ (Uses(p, a) /\ ~Uses(p, a)'),
           \A a \in As : ~InUse(a)' => \A s \in Slot : held'[<<a, s>>] = NoBlock,
           OnCpu', \A c \in CPU : Translates(c)'
    PROVE  AsInv'
<1>1. ASSUME NEW r \in Process, r # p
      PROVE  Shape(r)' /\ Memory(r)' /\ \A a : Uses(r, a)' <=> Uses(r, a)
  <2>1. st'[r] = st[r] /\ p_addrspace'[r] = p_addrspace[r] /\ image'[r] = image[r]
    BY <1>1 DEF OnlyMoves
  <2>2. Shape(r) /\ Memory(r) /\ AsTypeOK
    BY DEF AsInv, Control, Contents
  <2>3. Shape(r)' /\ \A a : Uses(r, a)' <=> Uses(r, a)
    BY <2>1, <2>2 DEF Shape, Loading, Copying, Uses
  <2>4. Memory(r)'
    BY <1>1, <2>1, <2>2, MemoryKept
  <2> QED BY <2>3, <2>4
<1>2. Ownership'
  <2>0. /\ \A a \in As : \A q, r \in Process : Uses(q, a) /\ Uses(r, a) => q = r
        /\ \A a \in leaked : \A q \in Process : ~Uses(q, a)
        /\ leaked \subseteq As /\ leaked' \subseteq As
    BY DEF AsInv, Control, Ownership, AsTypeOK
  <2>1. \A a \in As : \A q, r \in Process : Uses(q, a)' /\ Uses(r, a)' => q = r
    BY <1>1, <2>0, InUseUses
  <2>2. \A a \in leaked' : \A q \in Process : ~Uses(q, a)'
    BY <1>1, <2>0, InUseUses
  <2> QED BY <2>1, <2>2 DEF Ownership, NoBlock
<1>3. Control'
  BY <1>1, <1>2 DEF Control
<1>4. Contents'
  BY <1>1, FamilyKept DEF Contents
<1> QED BY <1>3, <1>4 DEF AsInv

\* thread_switch: the TLB is flushed for the thread that comes, unless it has no
\* address space and cannot meet an entry.
LEMMA SwitchStep ==
    ASSUME AsInv, NEW c \in CPU, NEW p \in Process \union {NULL}, Switch(c, p)
    PROVE  AsInv'
<1>0. /\ UNCHANGED <<vars, p_addrspace, loaded, st, mem, image, leaked, halted>>
      /\ on' = [on EXCEPT ![c] = p]
      /\ tlb' = IF p # NULL /\ p_addrspace[p] # NULL THEN Flushed(c, p) ELSE tlb
      /\ p # NULL => st[p].pc \notin {"none", "embryo"} /\ \A d \in CPU : on[d] # p
      /\ AsTypeOK /\ on \in [CPU -> Process \union {NULL}]
  BY DEF Switch, AsInv, AsTypeOK
<1>1. NoTLB \in [1 .. NUM_TLB -> [valid : BOOLEAN, page : Page, frame : Nat, dirty : BOOLEAN]]
  BY SegmentsDisjoint DEF NoTLB, Invalid, Page
<1>2. /\ on'[c] = p /\ \A d \in CPU : d # c => on'[d] = on[d] /\ tlb'[d] = tlb[d]
      /\ p # NULL /\ p_addrspace[p] # NULL => tlb'[c] = NoTLB
  BY <1>0 DEF AsTypeOK, Flushed
<1>3. IInv'
  BY <1>0, StutterStep DEF AsInv
<1>4. AsTypeOK'
  BY <1>0, <1>1 DEF AsTypeOK, Flushed
<1>5. Control'
  <2>1. \A r \in Process : Shape(r)'
    BY <1>0 DEF AsInv, Control, Shape, Loading, Copying
  <2>2. Ownership'
    BY <1>0 DEF AsInv, Control, Ownership, Uses, InUse, vars, NoBlock
  <2>3. OnCpu'
    BY <1>0, <1>2 DEF AsInv, Control, OnCpu
  <2> QED BY <2>1, <2>2, <2>3 DEF Control
<1>6. Contents'
  <2>1. \A a \in As : Kept(a)
    BY <1>0, NothingMoved DEF vars
  <2> QED BY <1>0, <2>1, ContentsKept1
<1>7. ASSUME NEW d \in CPU PROVE Translates(d)'
  <2>1. CASE d # c
    BY <2>1, <1>0, <1>2, TranslatesKept DEF AsInv, vars
  <2>2. CASE d = c /\ p # NULL /\ p_addrspace[p] # NULL
    BY <2>2, <1>2, TranslatesEmpty
  <2>3. CASE d = c /\ ~(p # NULL /\ p_addrspace[p] # NULL)
    BY <2>3, <1>0, <1>2 DEF Translates
  <2> QED BY <2>1, <2>2, <2>3
<1> QED BY <1>3, <1>4, <1>5, <1>6, <1>7 DEF AsInv

\* common_prog: a process without memory begins.
LEMMA StartStep ==
    ASSUME AsInv, NEW p \in Process, StartProgram(p)
    PROVE  AsInv'
<1> DEFINE s == [Idle EXCEPT !.pc = "exec"]
<1>0. /\ UNCHANGED <<vars, p_addrspace, on, tlb, mem, image, leaked, halted>>
      /\ st' = [st EXCEPT ![p] = s] /\ loaded' = [loaded EXCEPT ![p] = FALSE]
      /\ st[p].pc = "none" /\ \A c \in CPU : on[c] # p
      /\ NULL \notin As /\ AsTypeOK
  BY AddrSpaceAssumption DEF StartProgram, Goto, AsInv
<1>1. /\ s \in [pc : Label, as : As \union {NULL}, old : As \union {NULL},
                child : Process \union {NULL}, k : Nat \ {0}]
      /\ s.pc = "exec" /\ s.as = NULL /\ s.old = NULL /\ s.child = NULL
  BY DEF Idle, Label
<1> HIDE DEF s
<1>2. st'[p] = s /\ \A r \in Process : r # p => st'[r] = st[r] /\ loaded'[r] = loaded[r]
  BY <1>0 DEF AsTypeOK
<1>3. st[p].as = NULL /\ st[p].old = NULL /\ p_addrspace[p] = NULL
  BY <1>0 DEF AsInv, Control, Shape
<1>4. IInv'
  BY <1>0, StutterStep DEF AsInv
<1>5. AsTypeOK'
  BY <1>0, <1>1 DEF AsTypeOK
<1>6. OnlyMoves(p) /\ SameChild(p)
  BY <1>0, <1>1, <1>2 DEF OnlyMoves, SameChild
<1>7. Shape(p)'
  BY <1>0, <1>1, <1>2, <1>3 DEF Shape, Loading, Copying
<1>8. Memory(p)'
  BY <1>1, <1>2 DEF Memory, Settled
<1>9. \A a \in As : Kept(a)
  BY <1>0, NothingMoved DEF vars
<1>10. \A a \in As : (Uses(p, a)' <=> Uses(p, a)) /\ (InUse(a)' <=> InUse(a))
  BY <1>0, <1>1, <1>2, <1>3 DEF Uses, InUse
<1>11. \A a \in As : ~InUse(a)' => \A t \in Slot : held'[<<a, t>>] = NoBlock
  BY <1>0, <1>10 DEF AsInv, Control, Ownership, vars
<1>12. OnCpu'
  BY <1>0, <1>2, AddrSpaceAssumption DEF AsInv, Control, OnCpu, AsTypeOK
<1>13. ASSUME NEW c \in CPU PROVE Translates(c)'
  <2>1. on[c] # NULL => on[c] \in Process /\ on[c] # p
    BY <1>0 DEF AsTypeOK
  <2> QED BY <2>1, <1>0, <1>2, TranslatesKept DEF AsInv, vars
<1>14. st[p].pc # "embryo" /\ \A a \in leaked' : a \in leaked
  BY <1>0
<1> QED BY <1>4, <1>5, <1>6, <1>7, <1>8, <1>9, <1>10, <1>11, <1>12, <1>13, <1>14, MoverStep

\* A thread that is nowhere.
LEMMA IdleType ==
    Idle \in [pc : Label, as : As \union {NULL}, old : As \union {NULL},
              child : Process \union {NULL}, k : Nat \ {0}]
BY DEF Idle, Label

\* as_create finds storage that nothing refers to.
LEMMA Created ==
    ASSUME CanCreate
    PROVE  as_create \in As /\ ~InUse(as_create)
BY DEF CanCreate, as_create

\* as_create and curproc_setas: the new address space has no frame yet, and the
\* old one is put aside unchanged.
LEMMA ExecBeginStep ==
    ASSUME AsInv, NEW c \in CPU, NEW p \in Process, ExecBegin(c, p)
    PROVE  AsInv'
<1>0. PICK a \in As, b \in As \union {NULL} :
        /\ UNCHANGED <<vars, loaded, on, mem, image, leaked, halted>>
        /\ st' = [st EXCEPT ![p] = [Idle EXCEPT !.pc = "prepare", !.as = a, !.old = b]]
        /\ p_addrspace' = [p_addrspace EXCEPT ![p] = a]
        /\ tlb' = [tlb EXCEPT ![c] = NoTLB]
        /\ st[p].pc \in {"exec", "user"} /\ on[c] = p
        /\ b = p_addrspace[p] /\ ~InUse(a)
        /\ NULL \notin As /\ NULL \notin Process /\ AsTypeOK
  BY Created, AddrSpaceAssumption DEF ExecBegin, At, Goto, AsInv, AsTypeOK, Flushed
<1> DEFINE s == [Idle EXCEPT !.pc = "prepare", !.as = a, !.old = b]
<1>1. /\ s \in [pc : Label, as : As \union {NULL}, old : As \union {NULL},
                child : Process \union {NULL}, k : Nat \ {0}]
      /\ s.pc = "prepare" /\ s.as = a /\ s.old = b /\ s.child = NULL /\ s.k = 1
  <2>1. s.pc = "prepare" /\ s.as = a /\ s.old = b /\ s.child = NULL /\ s.k = 1
    BY DEF Idle
  <2> QED BY <2>1, IdleType DEF Label
<1>s. st' = [st EXCEPT ![p] = s]
  BY <1>0
<1> HIDE DEF s
<1>2. /\ st'[p] = s /\ p_addrspace'[p] = a /\ tlb'[c] = NoTLB
      /\ \A r \in Process : r # p => st'[r] = st[r] /\ p_addrspace'[r] = p_addrspace[r]
      /\ \A d \in CPU : d # c => tlb'[d] = tlb[d]
  BY <1>0, <1>s DEF AsTypeOK
<1>3. /\ p_addrspace[p] # a
      /\ st[p].pc = "exec" => p_addrspace[p] = NULL
      /\ st[p].as = NULL /\ st[p].old = NULL /\ st[p].child = NULL
  BY <1>0 DEF AsInv, Control, Shape, InUse
<1>4. NoTLB \in [1 .. NUM_TLB -> [valid : BOOLEAN, page : Page, frame : Nat, dirty : BOOLEAN]]
  BY SegmentsDisjoint DEF NoTLB, Invalid, Page
<1>5. IInv'
  BY <1>0, StutterStep DEF AsInv
<1>6. AsTypeOK'
  <2>1. st' \in [Process -> [pc : Label, as : As \union {NULL}, old : As \union {NULL},
                             child : Process \union {NULL}, k : Nat \ {0}]]
    BY <1>0, <1>s, <1>1 DEF AsTypeOK
  <2>2. tlb' \in [CPU -> [1 .. NUM_TLB ->
                    [valid : BOOLEAN, page : Page, frame : Nat, dirty : BOOLEAN]]]
    BY <1>0, <1>4 DEF AsTypeOK
  <2>3. p_addrspace' \in [Process -> As \union {NULL}]
    BY <1>0 DEF AsTypeOK
  <2> QED BY <1>0, <2>1, <2>2, <2>3 DEF AsTypeOK
<1>7. OnlyMoves(p) /\ SameChild(p)
  BY <1>0, <1>1, <1>2 DEF OnlyMoves, SameChild
<1>8. Shape(p)'
  <2>1. 1 <= Len(AllocOrder)
    BY Orders
  <2> QED BY <1>0, <1>1, <1>2, <1>3, <2>1 DEF Shape, Loading, Copying
<1>9. \A x \in As : Kept(x)
  BY <1>0, NothingMoved DEF vars
<1>10. Memory(p)'
  <2>1. \A t \in Slot : held'[<<a, t>>] = NoBlock
    BY <1>0 DEF AsInv, Control, Ownership, vars
  <2>2. Prepared(a, 1)'
    <3>1. \A j \in 1 .. Len(AllocOrder) : AllocOrder[j] \in Slot /\ j >= 1
      BY Orders, EnumAt
    <3> QED BY <2>1, <3>1 DEF Prepared, NoBlock
  <2>3. Zeroes(a)'
    BY <2>1 DEF Zeroes, Slot, NoBlock
  <2>4. ASSUME b # NULL
        PROVE  Complete(b)' /\ Holds(b, image[p])' /\ image'[p] = image[p]
    <3>1. Complete(b) /\ Holds(b, image[p]) /\ b \in As
      BY <2>4, <1>0, <1>3 DEF AsInv, Contents, Memory, Settled
    <3>2. 0 \in Nat /\ Kept(b) /\ image'[p] = image[p]
      BY <1>0, <1>9, <3>1
    <3> QED BY <3>1, <3>2, SpaceKept
  <2> QED BY <1>1, <1>2, <2>2, <2>3, <2>4 DEF Memory, Settled
<1>11. \A x \in As : Uses(p, x)' => Uses(p, x) \/ ~InUse(x)
  BY <1>0, <1>1, <1>2 DEF Uses
<1>12. \A x \in As : ~InUse(x)' => \A t \in Slot : held'[<<x, t>>] = NoBlock
  <2>1. \A x \in As : Uses(p, x) => Uses(p, x)'
    BY <1>0, <1>1, <1>2, <1>3 DEF Uses
  <2>2. \A x \in As : InUse(x) => InUse(x)'
    BY <1>0, <1>2, <2>1 DEF InUse, Uses
  <2> QED BY <1>0, <2>2 DEF AsInv, Control, Ownership, vars
<1>13. OnCpu'
  BY <1>0, <1>1, <1>2 DEF AsInv, Control, OnCpu, AsTypeOK
<1>14. ASSUME NEW d \in CPU PROVE Translates(d)'
  <2>1. CASE d = c
    BY <2>1, <1>2, TranslatesEmpty
  <2>2. CASE d # c
    <3>1. on[d] # NULL => on[d] \in Process /\ on[d] # p
      BY <2>2, <1>0 DEF AsTypeOK, AsInv, Control, OnCpu
    <3> QED BY <2>2, <3>1, <1>0, <1>2, TranslatesKept DEF AsInv, vars
  <2> QED BY <2>1, <2>2
<1>15. st[p].pc # "embryo" /\ \A x \in leaked' : x \in leaked
  BY <1>0
<1> QED BY <1>5, <1>6, <1>7, <1>8, <1>9, <1>10, <1>11, <1>12, <1>13, <1>14, <1>15, MoverStep

\* as_prepare_load: one more table or zero-filled frame, which nobody else has.
LEMMA PrepareStep ==
    ASSUME AsInv, IInv', NEW c \in CPU, NEW p \in Process, as_prepare_load(c, p)
    PROVE  AsInv'
<1>0. /\ AsTypeOK /\ IInv /\ Shape(p) /\ Memory(p) /\ st[p].pc = "prepare"
      /\ NULL \notin As /\ NULL \notin Process
      /\ UNCHANGED <<p_addrspace, loaded, on, tlb, image, leaked, halted>>
  BY AddrSpaceAssumption DEF AsInv, Control, Contents, as_prepare_load, At
<1>1. PICK a \in As, k \in 1 .. Len(AllocOrder) : a = st[p].as /\ k = st[p].k
  <2>1. st[p].k \in Nat \ {0} /\ st[p].k <= Len(AllocOrder) /\ st[p].as \in As
    BY <1>0 DEF AsTypeOK, Shape, Loading, Copying
  <2> QED BY <2>1, Orders
<1>2. PICK slot \in Slot : slot = AllocOrder[k]
  BY Orders, EnumAt
<1>3. /\ coremap_alloc(<<a, slot>>, SlotPages(slot)) /\ SlotPages(slot) \in Nat
      /\ mem' = Zeroed(slot, held'[<<a, slot>>].addr)
      /\ st' = [st EXCEPT ![p] =
                  IF k < Len(AllocOrder) THEN [st[p] EXCEPT !.k = k + 1]
                  ELSE [st[p] EXCEPT !.k = 1, !.pc = IF st[p].child = NULL THEN "load" ELSE "copy"]]
  BY <1>1, <1>2, SlotPagesNat DEF as_prepare_load, Goto
<1>4. /\ \A x \in As : x # a => Kept(x)
      /\ \A s \in Slot : s # slot => held'[<<a, s>>] = held[<<a, s>>]
      /\ held[<<a, slot>>] = NoBlock /\ held'[<<a, slot>>] # NoBlock
      /\ \A v \in Page : held[<<a, v>>] # NoBlock =>
           mem'[held'[<<a, v>>].addr] = mem[held[<<a, v>>].addr]
      /\ slot \in Page => mem'[held'[<<a, slot>>].addr] = Zero
  BY <1>0, <1>3, AllocKeeps
<1>5. st[p] \in [pc : Label, as : As \union {NULL}, old : As \union {NULL},
                 child : Process \union {NULL}, k : Nat \ {0}]
  BY <1>0 DEF AsTypeOK
<1>6. /\ st'[p].as = a /\ st'[p].old = st[p].old /\ st'[p].child = st[p].child
      /\ k < Len(AllocOrder) => st'[p].pc = "prepare" /\ st'[p].k = k + 1
      /\ k >= Len(AllocOrder) =>
           st'[p].k = 1 /\ st'[p].pc = IF st[p].child = NULL THEN "load" ELSE "copy"
      /\ \A r \in Process : r # p => st'[r] = st[r]
  <2>1. st \in [Process -> [pc : Label, as : As \union {NULL}, old : As \union {NULL},
                            child : Process \union {NULL}, k : Nat \ {0}]]
    BY <1>0 DEF AsTypeOK
  <2>2. \A r \in Process : r # p => st'[r] = st[r]
    BY <1>3, <2>1
  <2>3. CASE k < Len(AllocOrder)
    <3>1. st'[p] = [st[p] EXCEPT !.k = k + 1]
      BY <1>3, <2>1, <2>3
    <3> QED BY <1>0, <1>1, <1>5, <2>2, <2>3, <3>1, Orders
  <2>4. CASE ~(k < Len(AllocOrder))
    <3>1. st'[p] = [st[p] EXCEPT !.k = 1, !.pc = IF st[p].child = NULL THEN "load" ELSE "copy"]
      BY <1>3, <2>1, <2>4
    <3> QED BY <1>1, <1>5, <2>2, <2>4, <3>1, Orders
  <2> QED BY <2>3, <2>4
<1>7. AsTypeOK'
  <2>1. st' \in [Process -> [pc : Label, as : As \union {NULL}, old : As \union {NULL},
                             child : Process \union {NULL}, k : Nat \ {0}]]
    <3>1. [st[p] EXCEPT !.k = k + 1] \in [pc : Label, as : As \union {NULL},
             old : As \union {NULL}, child : Process \union {NULL}, k : Nat \ {0}]
      BY <1>5
    <3>2. ASSUME NEW l \in Label
          PROVE  [st[p] EXCEPT !.k = 1, !.pc = l]
                   \in [pc : Label, as : As \union {NULL}, old : As \union {NULL},
                       child : Process \union {NULL}, k : Nat \ {0}]
      <4>1. [st[p] EXCEPT !.k = 1, !.pc = l] = [[st[p] EXCEPT !.k = 1] EXCEPT !.pc = l]
        OBVIOUS
      <4>2. [st[p] EXCEPT !.k = 1] \in [pc : Label, as : As \union {NULL},
              old : As \union {NULL}, child : Process \union {NULL}, k : Nat \ {0}]
        BY <1>5
      <4> QED BY <4>1, <4>2
    <3>3. (IF st[p].child = NULL THEN "load" ELSE "copy") \in Label
      BY DEF Label
    <3> QED BY <1>0, <1>3, <3>1, <3>2, <3>3 DEF AsTypeOK
  <2>2. mem' \in [MemFrame -> Content]
    BY <1>0, <1>3 DEF AsTypeOK, Zeroed, Content
  <2> QED BY <1>0, <2>1, <2>2 DEF AsTypeOK
<1>8. OnlyMoves(p) /\ SameChild(p)
  BY <1>0, <1>6 DEF OnlyMoves, SameChild
<1>9. Shape(p)'
  <2>1. 1 <= Len(LoadOrder) + 1 /\ 1 <= Len(CopyOrder) /\ Len(AllocOrder) \in Nat
    BY Orders
  <2> QED BY <1>0, <1>1, <1>6, <2>1 DEF Shape, Loading, Copying
<1>10. \A r \in Process, x \in As : r # p /\ Uses(r, x) => Kept(x)
  BY <1>1, <1>4 DEF AsInv, Control, Ownership, Uses
<1>11. \A j \in 1 .. Len(AllocOrder) : held'[<<a, AllocOrder[j]>>] = NoBlock <=> j >= k + 1
  <2> SUFFICES ASSUME NEW j \in 1 .. Len(AllocOrder)
               PROVE  held'[<<a, AllocOrder[j]>>] = NoBlock <=> j >= k + 1
    OBVIOUS
  <2>1. AllocOrder[j] \in Slot /\ (AllocOrder[j] = slot => j = k)
    BY <1>2, Orders, EnumAt DEF Enumerates
  <2>2. held[<<a, AllocOrder[j]>>] = NoBlock <=> j >= k
    BY <1>0, <1>1 DEF Memory, Prepared
  <2>3. CASE j = k
    BY <2>3, <1>2, <1>4
  <2>4. CASE j # k
    BY <2>1, <2>2, <2>4, <1>4
  <2> QED BY <2>3, <2>4
<1>12. Zeroes(a)'
  <2>1. Zeroes(a)
    BY <1>0, <1>1 DEF Memory
  <2>2. \A v \in Page : held[<<a, v>>] = NoBlock /\ held'[<<a, v>>] # NoBlock => v = slot
    BY <1>4 DEF Slot
  <2> QED BY <1>4, <2>1, <2>2 DEF Zeroes, Frame, NoBlock, Zero
<1>13. ASSUME k >= Len(AllocOrder) PROVE Complete(a)'
  <2>1. k = Len(AllocOrder)
    BY <1>13, Orders
  <2>2. \A s \in Slot : \E j \in 1 .. Len(AllocOrder) : AllocOrder[j] = s
    BY Orders DEF Enumerates
  <2>3. \A j \in 1 .. Len(AllocOrder) : ~(j >= k + 1)
    BY <2>1, Orders
  <2> QED BY <1>11, <2>2, <2>3 DEF Complete, NoBlock
<1>14. Memory(p)'
  <2>1. Settled(p)' => Complete(p_addrspace[p])' /\ Holds(p_addrspace[p], image[p])'
    <3> SUFFICES ASSUME Settled(p)'
                 PROVE  Complete(p_addrspace[p])' /\ Holds(p_addrspace[p], image[p])'
      OBVIOUS
    <3>1. st[p].child # NULL
      BY <1>6 DEF Settled
    <3>2. PICK b \in As : b = p_addrspace[p] /\ b # a
      BY <3>1, <1>0, <1>1 DEF Shape, Copying, AsTypeOK
    <3>3. Complete(b) /\ Holds(b, image[p]) /\ Kept(b) /\ 0 \in Nat
      BY <3>1, <3>2, <1>0, <1>4 DEF Memory, Settled
    <3> QED BY <1>0, <3>2, <3>3, SpaceKept
  <2>2. st[p].old # NULL => Complete(st[p].old)' /\ Holds(st[p].old, image[p])'
    <3> SUFFICES ASSUME st[p].old # NULL
                 PROVE  Complete(st[p].old)' /\ Holds(st[p].old, image[p])'
      OBVIOUS
    <3>1. PICK b \in As : b = st[p].old /\ b # a
      BY <1>0, <1>1 DEF Shape, Copying, Loading, AsTypeOK
    <3>2. Complete(b) /\ Holds(b, image[p]) /\ Kept(b) /\ 0 \in Nat
      BY <3>1, <1>0, <1>4 DEF Memory
    <3> QED BY <1>0, <1>6, <3>1, <3>2, SpaceKept
  <2>3. CASE k < Len(AllocOrder)
    <3>1. Prepared(a, k + 1)'
      BY <1>11 DEF Prepared, NoBlock
    <3> QED BY <2>1, <2>2, <2>3, <3>1, <1>6, <1>12 DEF Memory
  <2>4. CASE k >= Len(AllocOrder) /\ st[p].child = NULL
    <3>1. Holds(a, LoadedBefore(1))'
      <4>1. \A v \in Page : LoadedBefore(1)[v] = Zero
        BY DEF LoadedBefore
      <4> QED BY <4>1, <2>4, <1>12, <1>13 DEF Holds, Zeroes, Complete, Slot
    <3> QED BY <2>1, <2>2, <2>4, <3>1, <1>6, <1>13 DEF Memory
  <2>5. CASE k >= Len(AllocOrder) /\ st[p].child # NULL
    <3>1. Copied(a, 1, image[p])'
      BY DEF Copied
    <3> QED BY <2>1, <2>2, <2>5, <3>1, <1>6, <1>13 DEF Memory
  <2> QED BY <2>3, <2>4, <2>5, Orders
<1>15. \A x \in As : (Uses(p, x)' <=> Uses(p, x)) /\ (InUse(x)' <=> InUse(x))
  BY <1>0, <1>1, <1>6 DEF Uses, InUse
<1>16. \A x \in As : ~InUse(x)' => \A s \in Slot : held'[<<x, s>>] = NoBlock
  <2>1. InUse(a)
    BY <1>1 DEF InUse
  <2> QED BY <2>1, <1>4, <1>15 DEF AsInv, Control, Ownership, Kept
<1>17. OnCpu'
  <2>1. st'[p].pc \notin {"none", "embryo"}
    BY <1>6, Orders
  <2> QED BY <1>0, <1>6, <2>1 DEF AsInv, Control, OnCpu, AsTypeOK
<1>18. ASSUME NEW d \in CPU PROVE Translates(d)'
  <2>1. ASSUME NEW x \in As, NEW v \in Page, held[<<x, v>>] # NoBlock
        PROVE  held'[<<x, v>>] = held[<<x, v>>]
    BY <2>1, <1>4 DEF Kept, Slot
  <2>2. on[d] # NULL /\ p_addrspace[on[d]] # NULL => p_addrspace[on[d]] \in As
    BY <1>0 DEF AsTypeOK
  <2> QED BY <1>0, <2>1, <2>2, TranslatesKept DEF AsInv
<1>19. st[p].pc # "embryo" /\ \A x \in leaked' : x \in leaked
  BY <1>0
<1> QED BY <1>7, <1>8, <1>9, <1>10, <1>14, <1>15, <1>16, <1>17, <1>18, <1>19, MoverStep

\* A store that the TLB of its CPU lets through goes to the frame that the
\* page table of the running process has, and not to the text once it is loaded.
LEMMA StoreTo ==
    ASSUME AsInv, NEW c \in CPU, NEW p \in Process, NEW a \in As, NEW v \in Page, NEW x,
           on[c] = p, p_addrspace[p] = a, Store(c, v, x), x \in Content
    PROVE  /\ mem' = [mem EXCEPT ![Frame(a, v)] = x]
           /\ mem' \in [MemFrame -> Content]
           /\ held[<<a, v>>] # NoBlock
           /\ ~(v \in Text /\ loaded[p])
<1>1. PICK i \in 1 .. NUM_TLB :
        /\ tlb[c][i].valid /\ tlb[c][i].page = v /\ tlb[c][i].dirty
        /\ mem' = [mem EXCEPT ![tlb[c][i].frame] = x]
  BY DEF Store, Hits
<1>2. p # NULL /\ a # NULL
  BY AddrSpaceAssumption
<1>3. tlb[c][i].frame = Frame(a, v) /\ held[<<a, v>>] # NoBlock /\ ~(v \in Text /\ loaded[p])
  BY <1>1, <1>2 DEF AsInv, Translates
<1> QED BY <1>1, <1>3 DEF AsInv, AsTypeOK

\* The TLBs after a step of p on CPU c that changes no page table.
LEMMA TranslatesAll ==
    ASSUME AsInv, UNCHANGED <<held, p_addrspace, loaded, on, tlb>>
    PROVE  \A d \in CPU : Translates(d)'
BY TranslatesKept DEF AsInv

\* A store in user mode reaches the process's own frame and no other.
LEMMA UserWriteStep ==
    ASSUME AsInv, NEW c \in CPU, NEW p \in Process, NEW v \in Touched, UserWrite(c, p, v)
    PROVE  AsInv'
<1>0. /\ AsTypeOK /\ IInv /\ Shape(p) /\ Memory(p) /\ Ownership /\ st[p].pc = "user" /\ on[c] = p
      /\ v \in Page /\ Store(c, v, Written) /\ image' = [image EXCEPT ![p][v] = Written]
      /\ UNCHANGED <<vars, p_addrspace, loaded, st, on, tlb, leaked, halted>>
  BY AddrSpaceAssumption DEF AsInv, Control, Contents, UserWrite, At
<1>1. PICK a \in As : a = p_addrspace[p]
  BY <1>0 DEF Shape, AsTypeOK
<1>2. /\ mem' = [mem EXCEPT ![Frame(a, v)] = Written] /\ mem' \in [MemFrame -> Content]
      /\ held[<<a, v>>] # NoBlock /\ held' = held
  <2>1. Written \in Content
    BY DEF Content
  <2> QED BY <1>0, <1>1, <2>1, StoreTo DEF vars
<1>3. /\ \A x \in As : x # a => Kept(x)
      /\ \A w \in Page : w # v /\ held[<<a, w>>] # NoBlock => mem'[Frame(a, w)] = mem[Frame(a, w)]
      /\ mem'[Frame(a, v)] = Written
  BY <1>0, <1>2, StoreKeeps
<1>4. IInv'
  BY <1>0, StutterStep
<1>5. /\ image'[p] = [image[p] EXCEPT ![v] = Written] /\ image[p] \in [Page -> Content]
      /\ \A r \in Process : r # p => image'[r] = image[r]
  BY <1>0 DEF AsTypeOK
<1>6. AsTypeOK'
  <2>1. image' \in [Process -> [Page -> Content]]
    BY <1>0 DEF AsTypeOK, Content
  <2> QED BY <1>0, <1>2, <2>1 DEF AsTypeOK
<1>7. OnlyMoves(p) /\ SameChild(p)
  BY <1>0, <1>5 DEF OnlyMoves, SameChild, Shape
<1>8. Shape(p)'
  BY <1>0 DEF Shape, Loading, Copying
<1>9. Memory(p)'
  <2>1. Complete(a) /\ Holds(a, image[p])
    BY <1>0, <1>1 DEF Memory, Settled
  <2>2. Complete(a)'
    BY <1>2, <2>1 DEF Complete, NoBlock
  <2>3. \A w \in Page : mem'[held'[<<a, w>>].addr] = image'[p][w]
    BY <1>2, <1>3, <1>5, <2>1 DEF Complete, Holds, Frame, Slot
  <2>4. Holds(a, image[p])'
    BY <2>3 DEF Holds, Frame
  <2> QED BY <1>0, <1>1, <2>2, <2>4 DEF Memory, Settled, Shape
<1>10. \A r \in Process, x \in As : r # p /\ Uses(r, x) => Kept(x)
  BY <1>0, <1>1, <1>3 DEF Ownership, Uses
<1>11. \A x \in As : (Uses(p, x)' <=> Uses(p, x)) /\ (InUse(x)' <=> InUse(x))
  BY <1>0 DEF Uses, InUse
<1>12. \A x \in As : ~InUse(x)' => \A s \in Slot : held'[<<x, s>>] = NoBlock
  BY <1>0, <1>2, <1>11 DEF Ownership
<1>13. OnCpu'
  BY <1>0 DEF AsInv, Control, OnCpu
<1>14. \A d \in CPU : Translates(d)'
  BY <1>0, <1>2, TranslatesAll
<1>15. st[p].pc # "embryo" /\ \A x \in leaked' : x \in leaked
  BY <1>0
<1> QED BY <1>4, <1>6, <1>7, <1>8, <1>9, <1>10, <1>11, <1>12, <1>13, <1>14, <1>15, MoverStep

\* load_segment: one more page of the file is in the frame of its page.
LEMMA LoadPageStep ==
    ASSUME AsInv, NEW c \in CPU, NEW p \in Process, LoadPage(c, p)
    PROVE  AsInv'
<1>0. /\ AsTypeOK /\ IInv /\ Shape(p) /\ Memory(p) /\ Ownership /\ st[p].pc = "load" /\ on[c] = p
      /\ st[p].k <= Len(LoadOrder) /\ Store(c, LoadOrder[st[p].k], Image)
      /\ st' = [st EXCEPT ![p] = [st[p] EXCEPT !.k = st[p].k + 1]]
      /\ UNCHANGED <<vars, p_addrspace, loaded, on, tlb, image, leaked, halted>>
  BY DEF AsInv, Control, Contents, LoadPage, At, Goto
<1>1. PICK a \in As, k \in 1 .. Len(LoadOrder) : a = p_addrspace[p] /\ a = st[p].as /\ k = st[p].k
  <2>1. p_addrspace[p] \in As /\ st[p].as = p_addrspace[p] /\ st[p].k \in Nat \ {0}
    BY <1>0 DEF Shape, Loading, AsTypeOK
  <2> QED BY <1>0, <2>1, Orders
<1>2. PICK v \in Page : v = LoadOrder[k]
  <2>1. LoadOrder[k] \in FilePages
    BY Orders, EnumAt
  <2>2. FilePages \subseteq Page
    BY SegmentsDisjoint DEF FilePages, Page
  <2> QED BY <2>1, <2>2
<1>3. /\ mem' = [mem EXCEPT ![Frame(a, v)] = Image] /\ mem' \in [MemFrame -> Content]
      /\ held[<<a, v>>] # NoBlock /\ held' = held
  <2>1. Image \in Content
    BY DEF Content
  <2>2. Store(c, v, Image) /\ held' = held
    BY <1>0, <1>1, <1>2 DEF vars
  <2>3. on[c] = p /\ p_addrspace[p] = a
    BY <1>0, <1>1
  <2> QED BY <2>1, <2>2, <2>3, StoreTo
<1>4. /\ \A x \in As : x # a => Kept(x)
      /\ \A w \in Page : w # v /\ held[<<a, w>>] # NoBlock => mem'[Frame(a, w)] = mem[Frame(a, w)]
      /\ mem'[Frame(a, v)] = Image
  BY <1>0, <1>3, StoreKeeps
<1>5. IInv'
  BY <1>0, StutterStep
<1>6. st \in [Process -> [pc : Label, as : As \union {NULL}, old : As \union {NULL},
                          child : Process \union {NULL}, k : Nat \ {0}]]
  BY <1>0 DEF AsTypeOK
<1>7. /\ st'[p].pc = "load" /\ st'[p].as = a /\ st'[p].old = st[p].old
      /\ st'[p].child = st[p].child /\ st'[p].k = k + 1
      /\ \A r \in Process : r # p => st'[r] = st[r]
  BY <1>0, <1>1, <1>6
<1>8. AsTypeOK'
  <2>1. st' \in [Process -> [pc : Label, as : As \union {NULL}, old : As \union {NULL},
                             child : Process \union {NULL}, k : Nat \ {0}]]
    BY <1>0, <1>6
  <2> QED BY <1>0, <1>3, <2>1 DEF AsTypeOK
<1>9. OnlyMoves(p) /\ SameChild(p)
  BY <1>0, <1>7 DEF OnlyMoves, SameChild
<1>10. Shape(p)'
  <2>1. k + 1 <= Len(LoadOrder) + 1
    BY Orders
  <2> QED BY <1>0, <1>1, <1>7, <2>1 DEF Shape, Loading, Copying
<1>11. Memory(p)'
  <2>1. Complete(a) /\ Holds(a, LoadedBefore(k))
    BY <1>0, <1>1 DEF Memory
  <2>2. Complete(a)'
    BY <1>3, <2>1 DEF Complete, NoBlock
  <2>3. ASSUME NEW w \in Page PROVE mem'[held'[<<a, w>>].addr] = LoadedBefore(k + 1)[w]
    <3>1. CASE w = v
      <4>1. k \in 1 .. ((k + 1) - 1)
        BY Orders
      <4>2. LoadedBefore(k + 1)[w] = Image
        BY <1>2, <3>1, <4>1 DEF LoadedBefore
      <4> QED BY <3>1, <4>2, <1>3, <1>4 DEF Frame
    <3>2. CASE w # v
      <4>1. \A j \in 1 .. ((k + 1) - 1) : j # k => j \in 1 .. (k - 1)
        BY Orders
      <4>2. \A j \in 1 .. (k - 1) : j \in 1 .. ((k + 1) - 1)
        BY Orders
      <4>3. LoadedBefore(k + 1)[w] = LoadedBefore(k)[w]
        BY <1>2, <3>2, <4>1, <4>2 DEF LoadedBefore
      <4> QED BY <3>2, <4>3, <1>3, <1>4, <2>1 DEF Complete, Holds, Frame, Slot
    <3> QED BY <3>1, <3>2
  <2>4. Holds(a, LoadedBefore(k + 1))'
    BY <2>3 DEF Holds, Frame
  <2>5. st[p].old # NULL => Complete(st[p].old)' /\ Holds(st[p].old, image[p])'
    <3> SUFFICES ASSUME st[p].old # NULL
                 PROVE  Complete(st[p].old)' /\ Holds(st[p].old, image[p])'
      OBVIOUS
    <3>1. PICK b \in As : b = st[p].old /\ b # a
      BY <1>0, <1>1 DEF Shape, Loading, AsTypeOK
    <3>2. Complete(b) /\ Holds(b, image[p]) /\ Kept(b) /\ 0 \in Nat
      BY <3>1, <1>0, <1>4 DEF Memory
    <3> QED BY <1>0, <1>7, <3>1, <3>2, SpaceKept
  <2> QED BY <1>7, <2>2, <2>4, <2>5 DEF Memory, Settled
<1>12. \A r \in Process, x \in As : r # p /\ Uses(r, x) => Kept(x)
  BY <1>0, <1>1, <1>4 DEF Ownership, Uses
<1>13. \A x \in As : (Uses(p, x)' <=> Uses(p, x)) /\ (InUse(x)' <=> InUse(x))
  BY <1>0, <1>1, <1>7 DEF Uses, InUse
<1>14. \A x \in As : ~InUse(x)' => \A s \in Slot : held'[<<x, s>>] = NoBlock
  BY <1>0, <1>3, <1>13 DEF Ownership
<1>15. OnCpu'
  BY <1>0, <1>7 DEF AsInv, Control, OnCpu, AsTypeOK
<1>16. \A d \in CPU : Translates(d)'
  BY <1>0, <1>3, TranslatesAll
<1>17. st[p].pc # "embryo" /\ \A x \in leaked' : x \in leaked
  BY <1>0
<1> QED BY <1>5, <1>8, <1>9, <1>10, <1>11, <1>12, <1>13, <1>14, <1>15, <1>16, <1>17, MoverStep

\* The TLBs after a step of p on CPU c that flushes it and moves no page.
LEMMA TranslatesFlushed ==
    ASSUME AsInv, NEW c \in CPU, NEW p \in Process, on[c] = p, UNCHANGED <<held, on>>,
           tlb' = [tlb EXCEPT ![c] = NoTLB],
           \A r \in Process : r # p => p_addrspace'[r] = p_addrspace[r] /\ loaded'[r] = loaded[r]
    PROVE  \A d \in CPU : Translates(d)'
<1> SUFFICES ASSUME NEW d \in CPU PROVE Translates(d)'
  OBVIOUS
<1>0. AsTypeOK /\ tlb'[c] = NoTLB /\ (d # c => tlb'[d] = tlb[d])
  BY DEF AsInv, AsTypeOK
<1>1. CASE d = c
  BY <1>0, <1>1, TranslatesEmpty
<1>2. CASE d # c
  <2>1. on[d] # NULL => on[d] \in Process /\ on[d] # p
    BY <1>0, <1>2, AddrSpaceAssumption DEF AsTypeOK, AsInv, Control, OnCpu
  <2> QED BY <1>0, <1>2, <2>1, TranslatesKept DEF AsInv
<1> QED BY <1>1, <1>2

\* A flushed TLB.
LEMMA NoTLBType ==
    NoTLB \in [1 .. NUM_TLB -> [valid : BOOLEAN, page : Page, frame : Nat, dirty : BOOLEAN]]
BY SegmentsDisjoint DEF NoTLB, Invalid, Page

\* as_complete_load: with the flush, no writable entry for the text is left.
LEMMA CompleteLoadStep ==
    ASSUME AsInv, NEW c \in CPU, NEW p \in Process, as_complete_load(c, p)
    PROVE  AsInv'
<1>0. /\ AsTypeOK /\ IInv /\ Shape(p) /\ Memory(p) /\ Ownership /\ st[p].pc = "load" /\ on[c] = p
      /\ st[p].k > Len(LoadOrder)
      /\ st' = [st EXCEPT ![p] = [st[p] EXCEPT !.pc = "args", !.k = 1]]
      /\ loaded' = [loaded EXCEPT ![p] = TRUE] /\ tlb' = [tlb EXCEPT ![c] = NoTLB]
      /\ UNCHANGED <<vars, p_addrspace, on, mem, image, leaked, halted>>
  BY DEF AsInv, Control, Contents, as_complete_load, At, Goto, Flushed
<1>1. PICK a \in As : a = p_addrspace[p] /\ a = st[p].as
  BY <1>0 DEF Shape, Loading, AsTypeOK
<1>2. st[p].k = Len(LoadOrder) + 1
  BY <1>0, Orders DEF Shape, AsTypeOK
<1>3. IInv'
  BY <1>0, StutterStep
<1>4. /\ st[p] \in [pc : Label, as : As \union {NULL}, old : As \union {NULL},
                    child : Process \union {NULL}, k : Nat \ {0}]
      /\ st'[p] = [st[p] EXCEPT !.pc = "args", !.k = 1]
      /\ \A r \in Process : r # p => st'[r] = st[r] /\ loaded'[r] = loaded[r]
  BY <1>0 DEF AsTypeOK
<1>5. /\ st'[p].pc = "args" /\ st'[p].as = a /\ st'[p].old = st[p].old
      /\ st'[p].child = st[p].child /\ st'[p].k = 1
  BY <1>1, <1>4
<1>6. AsTypeOK'
  <2>1. [st[p] EXCEPT !.pc = "args", !.k = 1]
          \in [pc : Label, as : As \union {NULL}, old : As \union {NULL},
               child : Process \union {NULL}, k : Nat \ {0}]
    <3>1. PICK t : t = [st[p] EXCEPT !.pc = "args"]
      OBVIOUS
    <3>2. t \in [pc : Label, as : As \union {NULL}, old : As \union {NULL},
                 child : Process \union {NULL}, k : Nat \ {0}]
      BY <1>4, <3>1 DEF Label
    <3>3. [t EXCEPT !.k = 1] \in [pc : Label, as : As \union {NULL}, old : As \union {NULL},
                                 child : Process \union {NULL}, k : Nat \ {0}]
      BY <3>2
    <3>4. [st[p] EXCEPT !.pc = "args", !.k = 1] = [t EXCEPT !.k = 1]
      BY <3>1
    <3> QED BY <3>3, <3>4
  <2>2. st' \in [Process -> [pc : Label, as : As \union {NULL}, old : As \union {NULL},
                             child : Process \union {NULL}, k : Nat \ {0}]]
    BY <1>0, <2>1 DEF AsTypeOK
  <2>3. tlb' \in [CPU -> [1 .. NUM_TLB ->
                    [valid : BOOLEAN, page : Page, frame : Nat, dirty : BOOLEAN]]]
    BY <1>0, NoTLBType DEF AsTypeOK
  <2>4. loaded' \in [Process -> BOOLEAN]
    BY <1>0 DEF AsTypeOK
  <2> QED BY <1>0, <2>2, <2>3, <2>4 DEF AsTypeOK
<1>7. OnlyMoves(p) /\ SameChild(p)
  BY <1>0, <1>4, <1>5 DEF OnlyMoves, SameChild
<1>8. Shape(p)'
  BY <1>0, <1>1, <1>5 DEF Shape, Loading, Copying
<1>9. \A x \in As : Kept(x)
  BY <1>0, NothingMoved DEF vars
<1>10. Memory(p)'
  <2>1. Complete(a) /\ Holds(a, LoadedBefore(Len(LoadOrder) + 1)) /\ 0 \in Nat /\ Kept(a)
    BY <1>0, <1>1, <1>2, <1>9 DEF Memory
  <2>2. Complete(a)' /\ Holds(a, LoadedBefore(Len(LoadOrder) + 1))'
    BY <2>1, SpaceKept
  <2>3. st[p].old # NULL => Complete(st[p].old)' /\ Holds(st[p].old, image[p])'
    <3> SUFFICES ASSUME st[p].old # NULL
                 PROVE  Complete(st[p].old)' /\ Holds(st[p].old, image[p])'
      OBVIOUS
    <3>1. PICK b \in As : b = st[p].old
      BY <1>0 DEF AsTypeOK
    <3>2. Complete(b) /\ Holds(b, image[p]) /\ Kept(b) /\ 0 \in Nat
      BY <3>1, <1>0, <1>9 DEF Memory
    <3>3. Complete(b)' /\ Holds(b, image[p])' /\ st'[p].old = b
      BY <1>0, <1>5, <3>1, <3>2, SpaceKept
    <3> QED BY <3>3
  <2> QED BY <1>5, <2>2, <2>3 DEF Memory, Settled
<1>11. \A x \in As : (Uses(p, x)' <=> Uses(p, x)) /\ (InUse(x)' <=> InUse(x))
  BY <1>0, <1>1, <1>4, <1>5 DEF Uses, InUse
<1>12. \A x \in As : ~InUse(x)' => \A s \in Slot : held'[<<x, s>>] = NoBlock
  BY <1>0, <1>11 DEF Ownership, vars
<1>13. OnCpu'
  BY <1>0, <1>4, <1>5 DEF AsInv, Control, OnCpu, AsTypeOK
<1>14. \A d \in CPU : Translates(d)'
  BY <1>0, <1>4, TranslatesFlushed DEF vars
<1>15. st[p].pc # "embryo" /\ \A x \in leaked' : x \in leaked
  BY <1>0
<1> QED BY <1>3, <1>6, <1>7, <1>8, <1>9, <1>10, <1>11, <1>12, <1>13, <1>14, <1>15, MoverStep

\* as_destroy starts with everything allocated.
LEMMA FreedFirst ==
    ASSUME NEW a \in As, Complete(a)
    PROVE  Freed(a, 1)
<1>1. \A j \in 1 .. Len(FreeOrder) : FreeOrder[j] \in Slot /\ ~(j < 1)
  BY Orders, EnumAt
<1> QED BY <1>1 DEF Complete, Freed

\* A failing execv: the process is back in its old, untouched address space.
LEMMA ExecFailsStep ==
    ASSUME AsInv, NEW c \in CPU, NEW p \in Process, ExecFails(c, p)
    PROVE  AsInv'
<1>0. PICK a \in As, b \in As :
        /\ AsTypeOK /\ IInv /\ Shape(p) /\ Memory(p) /\ Ownership
        /\ st[p].pc \in {"load", "args"} /\ on[c] = p
        /\ a = p_addrspace[p] /\ a = st[p].as /\ b = st[p].old /\ b # a
        /\ st' = [st EXCEPT ![p] = [Idle EXCEPT !.pc = "free", !.as = a]]
        /\ p_addrspace' = [p_addrspace EXCEPT ![p] = b] /\ tlb' = [tlb EXCEPT ![c] = NoTLB]
        /\ UNCHANGED <<vars, loaded, on, mem, image, leaked, halted>>
        /\ NULL \notin As /\ NULL \notin Process
  <2>1. /\ AsTypeOK /\ IInv /\ Shape(p) /\ Memory(p) /\ Ownership
        /\ st[p].pc \in {"load", "args"} /\ on[c] = p /\ st[p].old # NULL
        /\ st' = [st EXCEPT ![p] = [Idle EXCEPT !.pc = "free", !.as = st[p].as]]
        /\ p_addrspace' = [p_addrspace EXCEPT ![p] = st[p].old] /\ tlb' = [tlb EXCEPT ![c] = NoTLB]
        /\ UNCHANGED <<vars, loaded, on, mem, image, leaked, halted>>
    BY DEF AsInv, Control, Contents, ExecFails, At, Goto, Flushed
  <2>2. /\ p_addrspace[p] \in As /\ st[p].as = p_addrspace[p]
        /\ st[p].old \in As /\ st[p].old # p_addrspace[p]
    BY <2>1 DEF Shape, Loading, AsTypeOK
  <2> QED BY <2>1, <2>2, AddrSpaceAssumption
<1> DEFINE s == [Idle EXCEPT !.pc = "free", !.as = a]
<1>1. /\ s.pc = "free" /\ s.as = a /\ s.old = NULL /\ s.child = NULL /\ s.k = 1
      /\ s \in [pc : Label, as : As \union {NULL}, old : As \union {NULL},
                child : Process \union {NULL}, k : Nat \ {0}]
  BY IdleType DEF Idle, Label
<1>s. st' = [st EXCEPT ![p] = s]
  BY <1>0
<1> HIDE DEF s
<1>2. /\ st'[p] = s /\ p_addrspace'[p] = b
      /\ \A r \in Process : r # p => st'[r] = st[r] /\ p_addrspace'[r] = p_addrspace[r]
  BY <1>0, <1>s DEF AsTypeOK
<1>3. IInv'
  BY <1>0, StutterStep
<1>4. AsTypeOK'
  <2>1. st' \in [Process -> [pc : Label, as : As \union {NULL}, old : As \union {NULL},
                             child : Process \union {NULL}, k : Nat \ {0}]]
    BY <1>0, <1>s, <1>1 DEF AsTypeOK
  <2>2. tlb' \in [CPU -> [1 .. NUM_TLB ->
                    [valid : BOOLEAN, page : Page, frame : Nat, dirty : BOOLEAN]]]
    BY <1>0, NoTLBType DEF AsTypeOK
  <2>3. p_addrspace' \in [Process -> As \union {NULL}]
    BY <1>0 DEF AsTypeOK
  <2> QED BY <1>0, <2>1, <2>2, <2>3 DEF AsTypeOK
<1>5. OnlyMoves(p) /\ SameChild(p)
  BY <1>0, <1>1, <1>2 DEF OnlyMoves, SameChild
<1>6. Shape(p)'
  <2>1. 1 <= Len(FreeOrder)
    BY Orders
  <2> QED BY <1>0, <1>1, <1>2, <2>1 DEF Shape, Loading, Copying
<1>7. \A x \in As : Kept(x)
  BY <1>0, NothingMoved DEF vars
<1>8. Memory(p)'
  <2>1. Complete(a) /\ Complete(b) /\ Holds(b, image[p]) /\ 1 \in Nat /\ image'[p] = image[p]
    BY <1>0 DEF Memory
  <2>2. Freed(a, 1)'
    BY <2>1, <1>7, FreedFirst, SpaceKept
  <2>3. Complete(b)' /\ Holds(b, image[p])'
    BY <2>1, <1>7, SpaceKept
  <2> QED BY <1>1, <1>2, <2>2, <2>3 DEF Memory, Settled
<1>9. \A x \in As : (Uses(p, x)' <=> Uses(p, x)) /\ (InUse(x)' <=> InUse(x))
  <2>1. \A x \in As : Uses(p, x)' <=> Uses(p, x)
    BY <1>0, <1>1, <1>2 DEF Uses
  <2>2. ASSUME NEW r \in Process, r # p PROVE \A x \in As : Uses(r, x)' <=> Uses(r, x)
    BY <2>2, <1>2 DEF Uses
  <2>3. \A x \in As : InUse(x)' <=> x \in leaked' \/ \E r \in Process : Uses(r, x)'
    BY DEF InUse, Uses
  <2> QED BY <2>1, <2>2, <2>3, <1>0, InUseUses
<1>10. \A x \in As : ~InUse(x)' => \A t \in Slot : held'[<<x, t>>] = NoBlock
  BY <1>0, <1>9 DEF Ownership, vars
<1>11. OnCpu'
  BY <1>0, <1>1, <1>2 DEF AsInv, Control, OnCpu, AsTypeOK
<1>12. \A d \in CPU : Translates(d)'
  BY <1>0, <1>2, TranslatesFlushed DEF vars
<1>13. st[p].pc # "embryo" /\ \A x \in leaked' : x \in leaked
  BY <1>0
<1> QED BY <1>3, <1>4, <1>5, <1>6, <1>7, <1>8, <1>9, <1>10, <1>11, <1>12, <1>13, MoverStep

\* The pages that load_segment did not fill, but for the one with the arguments,
\* are still zero.
LEMMA FreshIs ==
    \A v \in Page : Fresh[v] = IF v = ArgPage THEN Image ELSE LoadedBefore(Len(LoadOrder) + 1)[v]
<1> SUFFICES ASSUME NEW v \in Page
             PROVE  Fresh[v] = IF v = ArgPage THEN Image ELSE LoadedBefore(Len(LoadOrder) + 1)[v]
  OBVIOUS
<1>1. (Len(LoadOrder) + 1) - 1 = Len(LoadOrder)
  BY Orders
<1>2. (\E j \in 1 .. Len(LoadOrder) : LoadOrder[j] = v) <=> v \in FilePages
  <2>1. \A j \in 1 .. Len(LoadOrder) : LoadOrder[j] \in FilePages
    BY Orders, EnumAt
  <2>2. v \in FilePages => \E j \in 1 .. Len(LoadOrder) : LoadOrder[j] = v
    BY Orders DEF Enumerates
  <2> QED BY <2>1, <2>2
<1>3. LoadedBefore(Len(LoadOrder) + 1)[v] = IF v \in FilePages THEN Image ELSE Zero
  BY <1>1, <1>2 DEF LoadedBefore
<1>4. v \in FilePages \/ v \in Bss \/ v \in Stack
  BY SegmentsDisjoint DEF Page, FilePages
<1>5. v \in FilePages => v \notin Bss /\ v \notin Stack
  <2>1. \A w \in Bss : w \in Data /\ w \notin Segment("data", FilePages2)
    BY SegmentsDisjoint
  <2>2. \A w \in Segment("data", FilePages2) : w \in Data
    BY SegmentsDisjoint
  <2> QED BY <2>1, <2>2, SegmentsDisjoint DEF FilePages
<1>6. ArgPage \in Stack /\ ArgPage \notin Bss
  BY SegmentsDisjoint
<1> QED BY <1>3, <1>4, <1>5, <1>6 DEF Fresh

\* PassArguments: the last store before user mode, or before the old address
\* space goes.
LEMMA PassArgumentsStep ==
    ASSUME AsInv, NEW c \in CPU, NEW p \in Process, PassArguments(c, p)
    PROVE  AsInv'
<1>0. /\ AsTypeOK /\ IInv /\ Shape(p) /\ Memory(p) /\ Ownership /\ st[p].pc = "args" /\ on[c] = p
      /\ Store(c, ArgPage, Image) /\ image' = [image EXCEPT ![p] = Fresh]
      /\ st' = [st EXCEPT ![p] = IF st[p].old = NULL THEN [Idle EXCEPT !.pc = "user"]
                                 ELSE [Idle EXCEPT !.pc = "free", !.as = st[p].old]]
      /\ UNCHANGED <<vars, p_addrspace, loaded, on, tlb, leaked, halted>>
      /\ NULL \notin As /\ ArgPage \in Page
  BY AddrSpaceAssumption, SegmentsDisjoint
     DEF AsInv, Control, Contents, PassArguments, At, Goto, Page
<1>1. PICK a \in As, b \in As \union {NULL} :
        a = p_addrspace[p] /\ a = st[p].as /\ b = st[p].old /\ b # a
  BY <1>0 DEF Shape, Loading, AsTypeOK
<1> DEFINE s == IF b = NULL THEN [Idle EXCEPT !.pc = "user"]
                ELSE [Idle EXCEPT !.pc = "free", !.as = b]
<1>2. /\ s.pc = (IF b = NULL THEN "user" ELSE "free") /\ s.as = b
      /\ s.old = NULL /\ s.child = NULL /\ s.k = 1
      /\ s \in [pc : Label, as : As \union {NULL}, old : As \union {NULL},
                child : Process \union {NULL}, k : Nat \ {0}]
  BY IdleType DEF Idle, Label
<1>s. st' = [st EXCEPT ![p] = s]
  BY <1>0, <1>1
<1> HIDE DEF s
<1>3. /\ st'[p] = s /\ image'[p] = Fresh
      /\ \A r \in Process : r # p => st'[r] = st[r] /\ image'[r] = image[r]
  BY <1>0, <1>s DEF AsTypeOK
<1>4. /\ mem' = [mem EXCEPT ![Frame(a, ArgPage)] = Image] /\ mem' \in [MemFrame -> Content]
      /\ held[<<a, ArgPage>>] # NoBlock /\ held' = held
  <2>1. Image \in Content
    BY DEF Content
  <2>2. on[c] = p /\ p_addrspace[p] = a
    BY <1>0, <1>1
  <2> QED BY <1>0, <2>1, <2>2, StoreTo DEF vars
<1>5. /\ \A x \in As : x # a => Kept(x)
      /\ \A w \in Page : w # ArgPage /\ held[<<a, w>>] # NoBlock =>
           mem'[Frame(a, w)] = mem[Frame(a, w)]
      /\ mem'[Frame(a, ArgPage)] = Image
  BY <1>0, <1>4, StoreKeeps
<1>6. IInv'
  BY <1>0, StutterStep
<1>7. AsTypeOK'
  <2>1. st' \in [Process -> [pc : Label, as : As \union {NULL}, old : As \union {NULL},
                             child : Process \union {NULL}, k : Nat \ {0}]]
    BY <1>0, <1>s, <1>2 DEF AsTypeOK
  <2>2. Fresh \in [Page -> Content]
    BY DEF Fresh, Content
  <2>3. image' \in [Process -> [Page -> Content]]
    BY <1>0, <2>2 DEF AsTypeOK
  <2> QED BY <1>0, <1>4, <2>1, <2>3 DEF AsTypeOK
<1>8. OnlyMoves(p) /\ SameChild(p)
  BY <1>0, <1>2, <1>3 DEF OnlyMoves, SameChild
<1>9. Shape(p)'
  <2>1. 1 <= Len(FreeOrder)
    BY Orders
  <2>2. CASE b = NULL
    <3>1. /\ st'[p].pc = "user" /\ st'[p].as = NULL /\ st'[p].old = NULL
          /\ st'[p].child = NULL /\ p_addrspace'[p] # NULL
      BY <2>2, <1>0, <1>1, <1>2, <1>3
    <3> QED BY <3>1 DEF Shape, Loading, Copying
  <2>3. CASE b # NULL
    <3>1. /\ st'[p].pc = "free" /\ st'[p].as # NULL /\ st'[p].as # p_addrspace'[p]
          /\ st'[p].old = NULL /\ st'[p].child = NULL /\ st'[p].k = 1
      BY <2>3, <1>0, <1>1, <1>2, <1>3
    <3> QED BY <2>1, <3>1 DEF Shape, Loading, Copying
  <2> QED BY <2>2, <2>3
<1>10. Memory(p)'
  <2>1. Complete(a) /\ Holds(a, LoadedBefore(Len(LoadOrder) + 1))
    BY <1>0, <1>1 DEF Memory
  <2>2. Complete(a)'
    BY <1>4, <2>1 DEF Complete, NoBlock
  <2>3. ASSUME NEW w \in Page PROVE mem'[held'[<<a, w>>].addr] = Fresh[w]
    <3>1. CASE w = ArgPage
      BY <3>1, <1>4, <1>5, FreshIs DEF Frame
    <3>2. CASE w # ArgPage
      BY <3>2, <1>4, <1>5, <2>1, FreshIs DEF Complete, Holds, Frame, Slot
    <3> QED BY <3>1, <3>2
  <2>4. Holds(a, image[p])'
    BY <1>3, <2>3 DEF Holds, Frame
  <2>5. ASSUME b # NULL PROVE Freed(b, 1)'
    <3>1. Complete(b) /\ b \in As /\ Kept(b) /\ 1 \in Nat
      BY <2>5, <1>0, <1>1, <1>5 DEF Memory
    <3> QED BY <3>1, FreedFirst, SpaceKept
  <2>6. /\ p_addrspace'[p] = a /\ st'[p].as = b /\ st'[p].old = NULL /\ st'[p].k = 1
        /\ b = NULL => st'[p].pc = "user"
        /\ b # NULL => st'[p].pc = "free"
    BY <1>0, <1>1, <1>2, <1>3
  <2>7. CASE b = NULL
    BY <2>2, <2>4, <2>6, <2>7 DEF Memory
  <2>8. CASE b # NULL
    BY <2>2, <2>4, <2>5, <2>6, <2>8 DEF Memory
  <2> QED BY <2>7, <2>8
<1>11. \A r \in Process, x \in As : r # p /\ Uses(r, x) => Kept(x)
  BY <1>0, <1>1, <1>5 DEF Ownership, Uses
<1>12. \A x \in As : (Uses(p, x)' <=> Uses(p, x)) /\ (InUse(x)' <=> InUse(x))
  <2>1. \A x \in As : Uses(p, x)' <=> Uses(p, x)
    BY <1>0, <1>1, <1>2, <1>3 DEF Uses
  <2>2. ASSUME NEW r \in Process, r # p PROVE \A x \in As : Uses(r, x)' <=> Uses(r, x)
    BY <2>2, <1>0, <1>3 DEF Uses
  <2>3. \A x \in As : InUse(x)' <=> x \in leaked' \/ \E r \in Process : Uses(r, x)'
    BY DEF InUse, Uses
  <2> QED BY <2>1, <2>2, <2>3, <1>0, InUseUses
<1>13. \A x \in As : ~InUse(x)' => \A t \in Slot : held'[<<x, t>>] = NoBlock
  BY <1>0, <1>4, <1>12 DEF Ownership
<1>14. OnCpu'
  BY <1>0, <1>2, <1>3 DEF AsInv, Control, OnCpu, AsTypeOK
<1>15. \A d \in CPU : Translates(d)'
  BY <1>0, <1>4, TranslatesAll
<1>16. st[p].pc # "embryo" /\ \A x \in leaked' : x \in leaked
  BY <1>0
<1> QED BY <1>6, <1>7, <1>8, <1>9, <1>10, <1>11, <1>12, <1>13, <1>14, <1>15, <1>16, MoverStep

\* sys__exit up to as_destroy, from user mode or from a load that met a
\* read-only page: the address space execv had put aside is lost.
LEMMA ExitStep ==
    ASSUME AsInv, NEW c \in CPU, NEW p \in Process, on[c] = p, st[p].pc \in {"user", "load"},
           sys__exit(p)
    PROVE  AsInv'
<1>0. /\ AsTypeOK /\ IInv /\ Shape(p) /\ Memory(p) /\ Ownership
      /\ p_addrspace' = [p_addrspace EXCEPT ![p] = NULL]
      /\ st' = [st EXCEPT ![p] = [Idle EXCEPT !.pc = "free", !.as = p_addrspace[p]]]
      /\ leaked' = leaked \union Abandoned(p) /\ image' = [image EXCEPT ![p] = Unknown]
      /\ UNCHANGED <<vars, loaded, on, tlb, mem, halted>>
      /\ NULL \notin As
  BY AddrSpaceAssumption DEF AsInv, Control, Contents, sys__exit, Goto
<1>1. PICK a \in As, b \in As \union {NULL} :
        a = p_addrspace[p] /\ b = st[p].old /\ b # a /\ (st[p].as = a \/ st[p].as = NULL)
  BY <1>0 DEF Shape, Loading, AsTypeOK
<1> DEFINE s == [Idle EXCEPT !.pc = "free", !.as = a]
<1>2. /\ s.pc = "free" /\ s.as = a /\ s.old = NULL /\ s.child = NULL /\ s.k = 1
      /\ s \in [pc : Label, as : As \union {NULL}, old : As \union {NULL},
                child : Process \union {NULL}, k : Nat \ {0}]
  BY IdleType DEF Idle, Label
<1>s. st' = [st EXCEPT ![p] = s]
  BY <1>0, <1>1
<1> HIDE DEF s
<1>3. /\ st'[p] = s /\ p_addrspace'[p] = NULL /\ image'[p] = Unknown
      /\ \A r \in Process : r # p =>
           st'[r] = st[r] /\ image'[r] = image[r] /\ p_addrspace'[r] = p_addrspace[r]
  BY <1>0, <1>s DEF AsTypeOK
<1>4. leaked' = leaked \union (IF b = NULL THEN {} ELSE {b})
  BY <1>0, <1>1 DEF Abandoned
<1>5. IInv'
  BY <1>0, StutterStep
<1>6. AsTypeOK'
  <2>1. st' \in [Process -> [pc : Label, as : As \union {NULL}, old : As \union {NULL},
                             child : Process \union {NULL}, k : Nat \ {0}]]
    BY <1>0, <1>s, <1>2 DEF AsTypeOK
  <2>2. Unknown \in [Page -> Content]
    BY DEF Unknown, Content
  <2>3. image' \in [Process -> [Page -> Content]]
    BY <1>0, <2>2 DEF AsTypeOK
  <2>4. p_addrspace' \in [Process -> As \union {NULL}] /\ leaked' \subseteq As
    BY <1>0, <1>1, <1>4 DEF AsTypeOK
  <2> QED BY <1>0, <2>1, <2>3, <2>4 DEF AsTypeOK
<1>7. OnlyMoves(p) /\ SameChild(p)
  BY <1>0, <1>2, <1>3 DEF OnlyMoves, SameChild
<1>8. Shape(p)'
  <2>1. 1 <= Len(FreeOrder)
    BY Orders
  <2> QED BY <1>0, <1>1, <1>2, <1>3, <2>1 DEF Shape, Loading, Copying
<1>9. \A x \in As : Kept(x)
  BY <1>0, NothingMoved DEF vars
<1>10. Memory(p)'
  <2>1. Complete(a) /\ Kept(a) /\ 1 \in Nat
    BY <1>0, <1>1, <1>9 DEF Memory, Settled, Shape, Loading
  <2>2. Freed(a, 1)'
    BY <2>1, FreedFirst, SpaceKept
  <2> QED BY <1>2, <1>3, <2>2 DEF Memory, Settled
<1>11. \A x \in As : Uses(p, x) <=> x = a \/ x = b
  BY <1>0, <1>1 DEF Uses
<1>12. \A x \in As : Uses(p, x)' <=> x = a
  BY <1>0, <1>1, <1>2, <1>3 DEF Uses
<1>13. \A x \in As : InUse(x)' <=> InUse(x)
  <2>1. ASSUME NEW r \in Process, r # p PROVE \A x \in As : Uses(r, x)' <=> Uses(r, x)
    BY <2>1, <1>3 DEF Uses
  <2>2. \A x \in As : InUse(x)' <=> x \in leaked' \/ \E r \in Process : Uses(r, x)'
    BY DEF InUse, Uses
  <2> QED BY <2>1, <2>2, <1>0, <1>4, <1>11, <1>12, InUseUses
<1>14. \A x \in As : ~InUse(x)' => \A t \in Slot : held'[<<x, t>>] = NoBlock
  BY <1>0, <1>13 DEF Ownership, vars
<1>15. OnCpu'
  BY <1>0, <1>2, <1>3 DEF AsInv, Control, OnCpu, AsTypeOK
<1>16. ASSUME NEW d \in CPU PROVE Translates(d)'
  <2>1. CASE on[d] = p
    BY <2>1, <1>0, <1>3 DEF Translates
  <2>2. CASE on[d] # p
    <3>1. on[d] # NULL => on[d] \in Process
      BY <1>0 DEF AsTypeOK
    <3> QED BY <2>2, <3>1, <1>0, <1>3, TranslatesKept DEF AsInv, vars
  <2> QED BY <2>1, <2>2
<1>17. st[p].pc # "embryo" /\ \A x \in leaked' : x \in leaked \/ (Uses(p, x) /\ ~Uses(p, x)')
  BY <1>0, <1>1, <1>4, <1>6, <1>11, <1>12 DEF AsTypeOK
<1> QED BY <1>5, <1>6, <1>7, <1>8, <1>9, <1>10, <1>11, <1>12, <1>14, <1>15, <1>16, <1>17, MoverStep

\* as_destroy: one more block of an address space that no TLB translates for;
\* after the last one nothing of it is left.
LEMMA DestroyStep ==
    ASSUME AsInv, IInv', NEW c \in CPU, NEW p \in Process, as_destroy(c, p)
    PROVE  AsInv'
<1>0. /\ AsTypeOK /\ IInv /\ Shape(p) /\ Memory(p) /\ Ownership /\ st[p].pc = "free" /\ on[c] = p
      /\ NULL \notin As /\ NULL \notin Process
      /\ UNCHANGED <<p_addrspace, loaded, tlb, image, leaked, halted>>
  BY AddrSpaceAssumption DEF AsInv, Control, Contents, as_destroy, At
<1>1. PICK a \in As, k \in 1 .. Len(FreeOrder) :
        a = st[p].as /\ k = st[p].k /\ a # p_addrspace[p] /\ st[p].old = NULL
  <2>1. /\ st[p].k \in Nat \ {0} /\ st[p].k <= Len(FreeOrder) /\ st[p].as \in As
        /\ st[p].as # p_addrspace[p] /\ st[p].old = NULL
    BY <1>0 DEF AsTypeOK, Shape
  <2> QED BY <2>1, Orders
<1>2. PICK slot \in Slot : slot = FreeOrder[k]
  BY Orders, EnumAt
<1>3. /\ coremap_dealloc(<<a, slot>>) /\ mem' = [mem EXCEPT ![held[<<a, slot>>].addr] = Junk]
      /\ k < Len(FreeOrder) => st' = [st EXCEPT ![p] = [st[p] EXCEPT !.k = k + 1]] /\ on' = on
      /\ ~(k < Len(FreeOrder)) /\ p_addrspace[p] = NULL =>
           st' = [st EXCEPT ![p] = Idle] /\ on' = [on EXCEPT ![c] = NULL]
      /\ ~(k < Len(FreeOrder)) /\ p_addrspace[p] # NULL =>
           st' = [st EXCEPT ![p] = [Idle EXCEPT !.pc = "user"]] /\ on' = on
  BY <1>1, <1>2 DEF as_destroy, Goto
<1>4. /\ \A x \in As : x # a => Kept(x)
      /\ \A t \in Slot : t # slot => held'[<<a, t>>] = held[<<a, t>>]
      /\ held'[<<a, slot>>] = NoBlock
  BY <1>0, <1>3, FreeKeeps
<1>5. /\ st \in [Process -> [pc : Label, as : As \union {NULL}, old : As \union {NULL},
                             child : Process \union {NULL}, k : Nat \ {0}]]
      /\ on \in [CPU -> Process \union {NULL}]
  BY <1>0 DEF AsTypeOK
<1>6. PICK s \in [pc : Label, as : As \union {NULL}, old : As \union {NULL},
                  child : Process \union {NULL}, k : Nat \ {0}] :
        /\ st' = [st EXCEPT ![p] = s]
        /\ s.old = NULL /\ s.child = NULL
        /\ k < Len(FreeOrder) => s.pc = "free" /\ s.as = a /\ s.k = k + 1
        /\ ~(k < Len(FreeOrder)) => s.as = NULL
        /\ ~(k < Len(FreeOrder)) /\ p_addrspace[p] = NULL => s.pc = "none"
        /\ ~(k < Len(FreeOrder)) /\ p_addrspace[p] # NULL => s.pc = "user"
  <2>1. CASE k < Len(FreeOrder)
    <3> DEFINE s == [st[p] EXCEPT !.k = k + 1]
    <3>1. st[p].child = NULL
      BY <1>0 DEF Shape
    <3>2. /\ s \in [pc : Label, as : As \union {NULL}, old : As \union {NULL},
                    child : Process \union {NULL}, k : Nat \ {0}]
          /\ s.pc = "free" /\ s.as = a /\ s.k = k + 1 /\ s.old = NULL /\ s.child = NULL
      BY <1>0, <1>1, <1>5, <3>1
    <3>3. st' = [st EXCEPT ![p] = s]
      BY <1>3, <2>1
    <3> HIDE DEF s
    <3> QED BY <2>1, <3>2, <3>3
  <2>2. CASE ~(k < Len(FreeOrder)) /\ p_addrspace[p] = NULL
    <3>1. /\ Idle.pc = "none" /\ Idle.as = NULL /\ Idle.old = NULL /\ Idle.child = NULL
      BY DEF Idle
    <3> QED BY <2>2, <3>1, <1>3, IdleType
  <2>3. CASE ~(k < Len(FreeOrder)) /\ p_addrspace[p] # NULL
    <3> DEFINE s == [Idle EXCEPT !.pc = "user"]
    <3>1. /\ s \in [pc : Label, as : As \union {NULL}, old : As \union {NULL},
                    child : Process \union {NULL}, k : Nat \ {0}]
          /\ s.pc = "user" /\ s.as = NULL /\ s.old = NULL /\ s.child = NULL
      BY IdleType DEF Idle, Label
    <3>2. st' = [st EXCEPT ![p] = s]
      BY <1>3, <2>3
    <3> HIDE DEF s
    <3> QED BY <2>3, <3>1, <3>2
  <2> QED BY <2>1, <2>2, <2>3
<1>7. st'[p] = s /\ \A r \in Process : r # p => st'[r] = st[r]
  BY <1>5, <1>6
<1>8. AsTypeOK'
  <2>1. st' \in [Process -> [pc : Label, as : As \union {NULL}, old : As \union {NULL},
                             child : Process \union {NULL}, k : Nat \ {0}]]
    BY <1>5, <1>6
  <2>2. mem' \in [MemFrame -> Content]
    BY <1>0, <1>3 DEF AsTypeOK, Content
  <2>3. on' \in [CPU -> Process \union {NULL}]
    BY <1>3, <1>5
  <2> QED BY <1>0, <2>1, <2>2, <2>3 DEF AsTypeOK
<1>9. OnlyMoves(p) /\ SameChild(p)
  BY <1>0, <1>6, <1>7 DEF OnlyMoves, SameChild
<1>10. Shape(p)'
  <2>0. k \in Nat /\ Len(FreeOrder) \in Nat
    BY Orders
  <2>1. CASE k < Len(FreeOrder)
    <3>1. /\ st'[p].pc = "free" /\ st'[p].as # NULL /\ st'[p].as # p_addrspace'[p]
          /\ st'[p].old = NULL /\ st'[p].child = NULL /\ st'[p].k <= Len(FreeOrder)
      BY <2>0, <2>1, <1>0, <1>1, <1>6, <1>7
    <3> QED BY <3>1 DEF Shape, Loading, Copying
  <2>2. CASE ~(k < Len(FreeOrder))
    <3>1. /\ \/ st'[p].pc = "none" /\ p_addrspace'[p] = NULL
             \/ st'[p].pc = "user" /\ p_addrspace'[p] # NULL
          /\ st'[p].as = NULL /\ st'[p].old = NULL /\ st'[p].child = NULL
      BY <2>2, <1>0, <1>6, <1>7
    <3> QED BY <3>1 DEF Shape, Loading, Copying
  <2> QED BY <2>1, <2>2
<1>11. \A j \in 1 .. Len(FreeOrder) : held'[<<a, FreeOrder[j]>>] = NoBlock <=> j < k + 1
  <2> SUFFICES ASSUME NEW j \in 1 .. Len(FreeOrder)
               PROVE  held'[<<a, FreeOrder[j]>>] = NoBlock <=> j < k + 1
    OBVIOUS
  <2>1. FreeOrder[j] \in Slot /\ (FreeOrder[j] = slot => j = k)
    BY <1>2, Orders, EnumAt DEF Enumerates
  <2>2. held[<<a, FreeOrder[j]>>] = NoBlock <=> j < k
    BY <1>0, <1>1 DEF Memory, Freed
  <2>3. CASE j = k
    BY <2>3, <1>2, <1>4
  <2>4. CASE j # k
    BY <2>1, <2>2, <2>4, <1>4
  <2> QED BY <2>3, <2>4
<1>12. ASSUME ~(k < Len(FreeOrder)) PROVE \A t \in Slot : held'[<<a, t>>] = NoBlock
  <2>1. \A t \in Slot : \E j \in 1 .. Len(FreeOrder) : FreeOrder[j] = t
    BY Orders DEF Enumerates
  <2>2. \A j \in 1 .. Len(FreeOrder) : j < k + 1
    BY <1>12, Orders
  <2> QED BY <1>11, <2>1, <2>2
<1>13. Memory(p)'
  <2>1. ASSUME p_addrspace[p] # NULL
        PROVE  Complete(p_addrspace[p])' /\ Holds(p_addrspace[p], image[p])'
    <3>1. PICK b \in As : b = p_addrspace[p] /\ b # a
      BY <2>1, <1>0, <1>1 DEF AsTypeOK
    <3>2. Complete(b) /\ Holds(b, image[p]) /\ Kept(b) /\ 0 \in Nat
      BY <3>1, <2>1, <1>0, <1>4 DEF Memory
    <3> QED BY <1>0, <3>1, <3>2, SpaceKept
  <2>2. CASE k < Len(FreeOrder)
    <3>1. Freed(a, k + 1)'
      BY <1>11 DEF Freed, NoBlock
    <3>2. st'[p].pc = "free" /\ st'[p].as = a /\ st'[p].k = k + 1 /\ st'[p].old = NULL
      BY <2>2, <1>6, <1>7
    <3> QED BY <2>1, <3>1, <3>2, <1>0 DEF Memory, Settled
  <2>3. CASE ~(k < Len(FreeOrder))
    <3>1. /\ st'[p].pc = "none" \/ (st'[p].pc = "user" /\ p_addrspace[p] # NULL)
          /\ st'[p].old = NULL
      BY <2>3, <1>6, <1>7
    <3> QED BY <2>1, <3>1, <1>0 DEF Memory, Settled
  <2> QED BY <2>2, <2>3
<1>14. \A r \in Process, x \in As : r # p /\ Uses(r, x) => Kept(x)
  BY <1>0, <1>1, <1>4 DEF Ownership, Uses
<1>15. \A x \in As : /\ Uses(p, x) <=> x = p_addrspace[p] \/ x = a
                     /\ Uses(p, x)' <=> x = p_addrspace[p] \/ (x = a /\ k < Len(FreeOrder))
  <2>1. s.as = IF k < Len(FreeOrder) THEN a ELSE NULL
    BY <1>6
  <2> QED BY <2>1, <1>0, <1>1, <1>6, <1>7 DEF Uses
<1>16. \A x \in As : ~InUse(x)' => \A t \in Slot : held'[<<x, t>>] = NoBlock
  <2> SUFFICES ASSUME NEW x \in As, ~InUse(x)', NEW t \in Slot PROVE held'[<<x, t>>] = NoBlock
    OBVIOUS
  <2>1. ASSUME NEW r \in Process, r # p PROVE Uses(r, x)' <=> Uses(r, x)
    BY <2>1, <1>0, <1>7 DEF Uses
  <2>2. x \notin leaked /\ \A r \in Process : ~Uses(r, x)'
    BY <1>0 DEF InUse, Uses
  <2>3. CASE x = a
    BY <2>2, <2>3, <1>12, <1>15
  <2>4. CASE x # a
    <3>1. ~InUse(x)
      BY <2>1, <2>2, <2>4, <1>15, InUseUses
    <3> QED BY <2>4, <3>1, <1>0, <1>4 DEF Ownership, Kept
  <2> QED BY <2>3, <2>4
<1>17. OnCpu'
  <2>1. OnCpu
    BY DEF AsInv, Control
  <2>2. CASE k < Len(FreeOrder)
    BY <2>1, <2>2, <1>0, <1>3, <1>5, <1>6, <1>7 DEF OnCpu
  <2>3. CASE ~(k < Len(FreeOrder)) /\ p_addrspace[p] # NULL
    BY <2>1, <2>3, <1>0, <1>3, <1>5, <1>6, <1>7 DEF OnCpu
  <2>4. CASE ~(k < Len(FreeOrder)) /\ p_addrspace[p] = NULL
    <3>1. on'[c] = NULL /\ \A d \in CPU : d # c => on'[d] = on[d]
      BY <2>4, <1>3, <1>5
    <3>2. \A d \in CPU : d # c => on[d] # p
      BY <2>1, <1>0 DEF OnCpu
    <3> QED BY <2>1, <3>1, <3>2, <1>5, <1>7 DEF OnCpu
  <2> QED BY <2>2, <2>3, <2>4
<1>18. ASSUME NEW d \in CPU PROVE Translates(d)'
  <2>1. on'[d] = NULL \/ on'[d] = on[d]
    BY <1>3, <1>5
  <2>2. CASE on'[d] = NULL
    BY <2>2 DEF Translates
  <2>3. CASE on'[d] = on[d] /\ on[d] # NULL
    <3>1. on[d] \in Process
      BY <2>3, <1>5
    <3>2. p_addrspace[on[d]] # NULL => p_addrspace[on[d]] \in As /\ p_addrspace[on[d]] # a
      BY <3>1, <1>0, <1>1 DEF AsTypeOK, Ownership, Uses
    <3>3. p_addrspace[on[d]] # NULL => \A v \in Page :
            held'[<<p_addrspace[on[d]], v>>] = held[<<p_addrspace[on[d]], v>>]
      BY <3>2, <1>4 DEF Kept, Slot
    <3> QED BY <2>3, <3>3, <1>0, TranslatesKept DEF AsInv
  <2> QED BY <2>1, <2>2, <2>3
<1>19. st[p].pc # "embryo" /\ \A x \in leaked' : x \in leaked
  BY <1>0
<1>20. \A x \in As : Uses(p, x)' => Uses(p, x)
  BY <1>15
<1> QED BY <1>8, <1>9, <1>10, <1>13, <1>14, <1>16, <1>17, <1>18, <1>19, <1>20, MoverStep

-----------------------------------------------------------------------------
(* fork: steps of a parent and its child *)

\* Only the threads of p and q move.
PairMoves(p, q) ==
    \A r \in Process : r # p /\ r # q =>
        st'[r] = st[r] /\ p_addrspace'[r] = p_addrspace[r] /\ image'[r] = image[r]

\* After a step of p, q is its child, or p has none.
PairFamily(p, q) ==
    \/ st'[p].child = NULL
    \/ /\ st'[p].child = q /\ st'[q].pc = "embryo"
       /\ st'[p].pc # "spawn" => p_addrspace'[q] = NULL
       /\ st'[p].pc = "spawn" =>
            p_addrspace'[q] # NULL /\ Complete(p_addrspace[q])' /\ Holds(p_addrspace[q], image[p])'

\* Parents and children other than p and q stay what they were.
LEMMA FamilyPair ==
    ASSUME AsInv, NEW p \in Process, NEW q \in Process, p # q, PairMoves(p, q),
           st[p].pc # "embryo", st[p].child = q \/ st[q].pc # "embryo",
           st'[q].child = NULL, PairFamily(p, q),
           \A r \in Process, a \in As : r # p /\ r # q /\ Uses(r, a) => Kept(a)
    PROVE  Family'
<1>0. Family /\ AsTypeOK /\ NULL \notin Process
  BY AddrSpaceAssumption DEF AsInv, Contents
<1>1. ASSUME NEW r \in Process, r # p, r # q, st'[r].child # NULL
      PROVE  /\ st[r].child = st'[r].child /\ st[r].child \in Process
             /\ st[r].child # p /\ st[r].child # q /\ st[st[r].child].pc = "embryo"
             /\ st'[r].pc = st[r].pc /\ image'[r] = image[r]
  <2>1. st'[r] = st[r] /\ image'[r] = image[r]
    BY <1>1 DEF PairMoves
  <2> QED BY <2>1, <1>0, <1>1 DEF Family, AsTypeOK
<1>2. st'[q].child = NULL /\ (st'[p].child = NULL \/ st'[p].child = q)
  BY DEF PairFamily
<1>3. \A r, x \in Process : st'[r].child # NULL /\ st'[r].child = st'[x].child => r = x
  <2> SUFFICES ASSUME NEW r \in Process, NEW x \in Process,
                      st'[r].child # NULL, st'[r].child = st'[x].child
               PROVE  r = x
    OBVIOUS
  <2>1. r # q /\ x # q
    BY <1>2
  <2>2. CASE r = p \/ x = p
    BY <1>1, <1>2, <2>1, <2>2
  <2>3. CASE r # p /\ x # p
    BY <1>0, <1>1, <2>1, <2>3 DEF Family
  <2> QED BY <2>2, <2>3
<1>4. ASSUME NEW r \in Process, r # p, r # q, st'[r].child # NULL
      PROVE  /\ st'[st'[r].child].pc = "embryo"
             /\ st'[r].pc # "spawn" => p_addrspace'[st'[r].child] = NULL
             /\ st'[r].pc = "spawn" =>
                  /\ p_addrspace'[st'[r].child] # NULL
                  /\ Complete(p_addrspace[st[r].child])'
                  /\ Holds(p_addrspace[st[r].child], image[r])'
  <2>1. PICK x \in Process :
          /\ x = st[r].child /\ x = st'[r].child /\ x # p /\ x # q /\ st[x].pc = "embryo"
          /\ st'[x] = st[x] /\ p_addrspace'[x] = p_addrspace[x]
          /\ st'[r].pc = st[r].pc /\ image'[r] = image[r]
    BY <1>1, <1>4 DEF PairMoves
  <2>2. CASE st'[r].pc # "spawn"
    BY <2>1, <2>2, <1>0, <1>4 DEF Family
  <2>3. CASE st'[r].pc = "spawn"
    <3>1. /\ p_addrspace[x] # NULL /\ Complete(p_addrspace[x]) /\ Holds(p_addrspace[x], image[r])
      BY <2>1, <2>3, <1>0, <1>4 DEF Family
    <3>2. PICK a \in As : a = p_addrspace[x] /\ Uses(x, a)
      BY <2>1, <3>1, <1>0 DEF AsTypeOK, Uses
    <3>3. Kept(a) /\ 0 \in Nat
      BY <2>1, <3>2
    <3>4. Complete(a)' /\ Holds(a, image[r])' /\ p_addrspace'[x] = a
      BY <2>1, <3>1, <3>2, <3>3, SpaceKept
    <3> QED BY <2>1, <2>3, <3>1, <3>4
  <2> QED BY <2>2, <2>3
<1>5. \A r \in Process : st'[r].child # NULL /\ r # p /\ r # q =>
         /\ st'[st'[r].child].pc = "embryo"
         /\ st'[r].pc # "spawn" => p_addrspace'[st'[r].child] = NULL
         /\ st'[r].pc = "spawn" =>
              /\ p_addrspace'[st'[r].child] # NULL
              /\ Complete(p_addrspace[st[r].child])'
              /\ Holds(p_addrspace[st[r].child], image[r])'
  BY <1>4
<1> QED BY <1>2, <1>3, <1>5 DEF Family, PairFamily

\* A step of a parent and its child that leaves everybody else alone.
LEMMA PairStep ==
    ASSUME AsInv, IInv', AsTypeOK', NEW p \in Process, NEW q \in Process, p # q, PairMoves(p, q),
           st[p].pc # "embryo", st[p].child = q \/ st[q].pc # "embryo",
           st'[q].child = NULL, PairFamily(p, q),
           Shape(p)', Memory(p)', Shape(q)', Memory(q)',
           \A r \in Process, a \in As : r # p /\ r # q /\ Uses(r, a) => Kept(a),
           \A a \in As : ~(Uses(p, a)' /\ Uses(q, a)'),
           \A a \in As : Uses(p, a)' \/ Uses(q, a)' => Uses(p, a) \/ Uses(q, a) \/ ~InUse(a),
           \A a \in leaked' : \/ a \in leaked
                              \/ (Uses(p, a) \/ Uses(q, a)) /\ ~Uses(p, a)' /\ ~Uses(q, a)',
           \A a \in As : ~InUse(a)' => \A s \in Slot : held'[<<a, s>>] = NoBlock,
           OnCpu', \A c \in CPU : Translates(c)'
    PROVE  AsInv'
<1>1. ASSUME NEW r \in Process, r # p, r # q
      PROVE  Shape(r)' /\ Memory(r)' /\ \A a : Uses(r, a)' <=> Uses(r, a)
  <2>1. st'[r] = st[r] /\ p_addrspace'[r] = p_addrspace[r] /\ image'[r] = image[r]
    BY <1>1 DEF PairMoves
  <2>2. Shape(r) /\ Memory(r) /\ AsTypeOK
    BY DEF AsInv, Control, Contents
  <2>3. Shape(r)' /\ \A a : Uses(r, a)' <=> Uses(r, a)
    BY <2>1, <2>2 DEF Shape, Loading, Copying, Uses
  <2>4. Memory(r)'
    BY <1>1, <2>1, <2>2, MemoryKept
  <2> QED BY <2>3, <2>4
<1>2. Ownership'
  <2>0. /\ \A a \in As : \A x, r \in Process : Uses(x, a) /\ Uses(r, a) => x = r
        /\ \A a \in leaked : \A x \in Process : ~Uses(x, a)
        /\ leaked \subseteq As /\ leaked' \subseteq As
    BY DEF AsInv, Control, Ownership, AsTypeOK
  <2>1. \A a \in As : \A x, r \in Process : Uses(x, a)' /\ Uses(r, a)' => x = r
    <3> SUFFICES ASSUME NEW a \in As, NEW x \in Process, NEW r \in Process,
                        Uses(x, a)', Uses(r, a)', x # r
                 PROVE  FALSE
      OBVIOUS
    <3>1. CASE x \in {p, q} /\ r \in {p, q}
      BY <3>1
    <3>2. CASE x \notin {p, q} /\ r \notin {p, q}
      BY <3>2, <1>1, <2>0
    <3>3. CASE x \in {p, q} /\ r \notin {p, q}
      BY <3>3, <1>1, <2>0, InUseUses
    <3>4. CASE x \notin {p, q} /\ r \in {p, q}
      BY <3>4, <1>1, <2>0, InUseUses
    <3> QED BY <3>1, <3>2, <3>3, <3>4
  <2>2. \A a \in leaked' : \A x \in Process : ~Uses(x, a)'
    <3> SUFFICES ASSUME NEW a \in leaked', NEW x \in Process, Uses(x, a)' PROVE FALSE
      OBVIOUS
    <3>1. CASE x \in {p, q}
      BY <3>1, <2>0, InUseUses
    <3>2. CASE x \notin {p, q}
      BY <3>2, <1>1, <2>0
    <3> QED BY <3>1, <3>2
  <2> QED BY <2>1, <2>2 DEF Ownership, NoBlock
<1>3. Control'
  BY <1>1, <1>2 DEF Control
<1>4. Contents'
  BY <1>1, FamilyPair DEF Contents
<1> QED BY <1>3, <1>4 DEF AsInv

\* A step of a pair changes what is in use only through them.
LEMMA PairInUse ==
    ASSUME NEW p \in Process, NEW q \in Process, PairMoves(p, q), NEW a
    PROVE  InUse(a)' <=> \/ a \in leaked' \/ Uses(p, a)' \/ Uses(q, a)'
                         \/ \E r \in Process : r # p /\ r # q /\ Uses(r, a)
<1>1. \A r \in Process : r # p /\ r # q => (Uses(r, a)' <=> Uses(r, a))
  BY DEF PairMoves, Uses
<1>2. InUse(a)' <=> a \in leaked' \/ \E r \in Process : Uses(r, a)'
  BY DEF InUse, Uses
<1> QED BY <1>1, <1>2

\* ForkBegin: a process and an address space that nobody uses.
LEMMA ForkBeginStep ==
    ASSUME AsInv, NEW c \in CPU, NEW p \in Process, NEW q \in Process, ForkBegin(c, p, q)
    PROVE  AsInv'
<1>0. PICK a \in As :
        /\ AsTypeOK /\ IInv /\ Shape(p) /\ Shape(q) /\ Memory(p) /\ Ownership
        /\ st[p].pc = "user" /\ on[c] = p /\ st[q].pc = "none" /\ \A d \in CPU : on[d] # q
        /\ ~InUse(a) /\ p # q /\ loaded' = [loaded EXCEPT ![q] = FALSE]
        /\ st' = [st EXCEPT ![p] = [Idle EXCEPT !.pc = "prepare", !.as = a, !.child = q],
                            ![q] = [Idle EXCEPT !.pc = "embryo"]]
        /\ UNCHANGED <<vars, p_addrspace, on, tlb, mem, image, leaked, halted>>
        /\ NULL \notin As /\ NULL \notin Process
  BY Created, AddrSpaceAssumption DEF AsInv, Control, Contents, ForkBegin, At
<1>1. PICK b \in As : b = p_addrspace[p] /\ st[p].as = NULL /\ st[p].old = NULL
  BY <1>0 DEF Shape, AsTypeOK
<1>2. p_addrspace[q] = NULL /\ st[q].as = NULL /\ st[q].old = NULL
  BY <1>0 DEF Shape
<1>3. PICK s, t \in [pc : Label, as : As \union {NULL}, old : As \union {NULL},
                     child : Process \union {NULL}, k : Nat \ {0}] :
        /\ s.pc = "prepare" /\ s.as = a /\ s.old = NULL /\ s.child = q /\ s.k = 1
        /\ t.pc = "embryo" /\ t.as = NULL /\ t.old = NULL /\ t.child = NULL
        /\ st' = [st EXCEPT ![p] = s, ![q] = t]
  <2> DEFINE s == [Idle EXCEPT !.pc = "prepare", !.as = a, !.child = q]
             t == [Idle EXCEPT !.pc = "embryo"]
  <2>1. s.pc = "prepare" /\ s.as = a /\ s.old = NULL /\ s.child = q /\ s.k = 1
    BY DEF Idle
  <2>2. s \in [pc : Label, as : As \union {NULL}, old : As \union {NULL},
               child : Process \union {NULL}, k : Nat \ {0}]
    <3>1. PICK u : u = [Idle EXCEPT !.pc = "prepare"]
      OBVIOUS
    <3>2. u \in [pc : Label, as : As \union {NULL}, old : As \union {NULL},
                 child : Process \union {NULL}, k : Nat \ {0}]
      BY <3>1, IdleType DEF Label
    <3>3. PICK w : w = [u EXCEPT !.as = a]
      OBVIOUS
    <3>4. w \in [pc : Label, as : As \union {NULL}, old : As \union {NULL},
                 child : Process \union {NULL}, k : Nat \ {0}]
      BY <3>2, <3>3
    <3>5. [w EXCEPT !.child = q] \in [pc : Label, as : As \union {NULL},
             old : As \union {NULL}, child : Process \union {NULL}, k : Nat \ {0}]
      BY <3>4
    <3>6. s = [w EXCEPT !.child = q]
      BY <3>1, <3>3
    <3> QED BY <3>5, <3>6
  <2>3. /\ t.pc = "embryo" /\ t.as = NULL /\ t.old = NULL /\ t.child = NULL
        /\ t \in [pc : Label, as : As \union {NULL}, old : As \union {NULL},
                  child : Process \union {NULL}, k : Nat \ {0}]
    BY IdleType DEF Idle, Label
  <2>4. st' = [st EXCEPT ![p] = s, ![q] = t]
    BY <1>0
  <2> HIDE DEF s, t
  <2> QED BY <2>1, <2>2, <2>3, <2>4
<1>4. st'[p] = s /\ st'[q] = t /\ \A r \in Process : r # p /\ r # q => st'[r] = st[r]
  BY <1>0, <1>3 DEF AsTypeOK
<1>5. IInv'
  BY <1>0, StutterStep
<1>6. AsTypeOK'
  <2>1. st' \in [Process -> [pc : Label, as : As \union {NULL}, old : As \union {NULL},
                             child : Process \union {NULL}, k : Nat \ {0}]]
    <3>1. PICK w : w = [st EXCEPT ![p] = s]
      OBVIOUS
    <3>2. w \in [Process -> [pc : Label, as : As \union {NULL}, old : As \union {NULL},
                             child : Process \union {NULL}, k : Nat \ {0}]]
      BY <1>0, <3>1 DEF AsTypeOK
    <3>3. st' = [w EXCEPT ![q] = t]
      BY <1>3, <3>1
    <3> QED BY <3>2, <3>3
  <2>2. loaded' \in [Process -> BOOLEAN]
    BY <1>0 DEF AsTypeOK
  <2> QED BY <1>0, <2>1, <2>2 DEF AsTypeOK
<1>7. PairMoves(p, q) /\ PairFamily(p, q) /\ st'[q].child = NULL
  BY <1>0, <1>2, <1>3, <1>4 DEF PairMoves, PairFamily
<1>8. \A x \in As : Kept(x)
  BY <1>0, NothingMoved DEF vars
<1>9. Shape(p)' /\ Shape(q)'
  <2>1. 1 <= Len(AllocOrder)
    BY Orders
  <2>2. a # b
    BY <1>0, <1>1 DEF InUse
  <2>3. Shape(p)'
    BY <1>0, <1>1, <1>3, <1>4, <2>1, <2>2 DEF Shape, Loading, Copying
  <2>4. Shape(q)'
    BY <1>3, <1>4 DEF Shape, Loading, Copying
  <2> QED BY <2>3, <2>4
<1>10. Memory(p)' /\ Memory(q)'
  <2>1. \A x \in Slot : held'[<<a, x>>] = NoBlock
    BY <1>0 DEF Ownership, vars
  <2>2. Prepared(a, 1)'
    <3>1. \A j \in 1 .. Len(AllocOrder) : AllocOrder[j] \in Slot /\ j >= 1
      BY Orders, EnumAt
    <3> QED BY <2>1, <3>1 DEF Prepared, NoBlock
  <2>3. Zeroes(a)'
    BY <2>1 DEF Zeroes, Slot, NoBlock
  <2>4. Complete(b) /\ Holds(b, image[p]) /\ 0 \in Nat /\ Kept(b)
    BY <1>0, <1>1, <1>8 DEF Memory, Settled
  <2>5. Complete(b)' /\ Holds(b, image[p])' /\ p_addrspace'[p] = b /\ image'[p] = image[p]
    BY <1>0, <1>1, <2>4, SpaceKept
  <2>6. Memory(p)'
    BY <1>3, <1>4, <2>2, <2>3, <2>5 DEF Memory
  <2>7. Memory(q)'
    BY <1>3, <1>4 DEF Memory, Settled
  <2> QED BY <2>6, <2>7
<1>11. \A x \in As : /\ Uses(p, x)' <=> x = a \/ x = b
                     /\ Uses(p, x) <=> x = b
                     /\ ~Uses(q, x)' /\ ~Uses(q, x)
  <2>1. /\ p_addrspace'[p] = b /\ st'[p].as = a /\ st'[p].old = NULL
        /\ p_addrspace'[q] = NULL /\ st'[q].as = NULL /\ st'[q].old = NULL
    BY <1>0, <1>1, <1>2, <1>3, <1>4
  <2> QED BY <1>0, <1>1, <1>2, <2>1 DEF Uses
<1>12. \A x \in As : ~InUse(x)' => \A y \in Slot : held'[<<x, y>>] = NoBlock
  <2>1. \A x \in As : InUse(x) => InUse(x)'
    BY <1>0, <1>7, <1>11, PairInUse, InUseUses
  <2> QED BY <1>0, <2>1 DEF Ownership, vars
<1>13. OnCpu'
  <2>1. OnCpu /\ on' = on /\ st'[p].pc = "prepare"
    BY <1>0, <1>3, <1>4 DEF AsInv, Control
  <2>2. \A d \in CPU : on[d] # NULL => on[d] \in Process /\ on[d] # q
    BY <1>0 DEF AsTypeOK
  <2> QED BY <1>4, <2>1, <2>2 DEF OnCpu
<1>14. ASSUME NEW d \in CPU PROVE Translates(d)'
  <2>1. on[d] # NULL => on[d] \in Process /\ loaded'[on[d]] = loaded[on[d]]
    BY <1>0 DEF AsTypeOK
  <2> QED BY <1>0, <2>1, TranslatesKept DEF AsInv, vars
<1>15. /\ st[p].pc # "embryo" /\ st[q].pc # "embryo" /\ p # q /\ \A x \in leaked' : x \in leaked
       /\ ~InUse(a)
  BY <1>0
<1> QED BY <1>5, <1>6, <1>7, <1>8, <1>9, <1>10, <1>11, <1>12, <1>13, <1>14, <1>15, PairStep

\* as_copy: one more page of the child holds what the parent's holds; after the
\* last one the child has the address space.
LEMMA CopyPageStep ==
    ASSUME AsInv, NEW c \in CPU, NEW p \in Process, CopyPage(c, p)
    PROVE  AsInv'
<1>0. /\ AsTypeOK /\ IInv /\ Shape(p) /\ Memory(p) /\ Ownership /\ OnCpu /\ Family
      /\ st[p].pc = "copy" /\ on[c] = p
      /\ UNCHANGED <<vars, loaded, on, tlb, image, leaked, halted>>
      /\ NULL \notin As /\ NULL \notin Process
  BY AddrSpaceAssumption DEF AsInv, Control, Contents, CopyPage, At
<1>1. PICK a \in As, b \in As, q \in Process, k \in 1 .. Len(CopyOrder) :
        /\ a = st[p].as /\ b = p_addrspace[p] /\ a # b /\ q = st[p].child /\ k = st[p].k
        /\ st[p].old = NULL
  <2>1. /\ st[p].k \in Nat \ {0} /\ st[p].k <= Len(CopyOrder) /\ st[p].as \in As
        /\ p_addrspace[p] \in As /\ st[p].as # p_addrspace[p] /\ st[p].child \in Process
        /\ st[p].old = NULL
    BY <1>0 DEF AsTypeOK, Shape, Copying
  <2> QED BY <2>1, Orders
<1>2. PICK v \in Page : v = CopyOrder[k]
  BY Orders, EnumAt
<1>3. PICK x \in Content : x = image[p][v]
  BY <1>0 DEF AsTypeOK
<1>4. /\ Complete(b) /\ Holds(b, image[p]) /\ Complete(a) /\ Copied(a, k, image[p])
      /\ held[<<a, v>>] # NoBlock
  BY <1>0, <1>1 DEF Memory, Settled, Complete, Slot
<1>5. /\ mem' = [mem EXCEPT ![Frame(a, v)] = x] /\ held' = held
      /\ k < Len(CopyOrder) =>
           st' = [st EXCEPT ![p] = [st[p] EXCEPT !.k = k + 1]] /\ p_addrspace' = p_addrspace
      /\ ~(k < Len(CopyOrder)) =>
           /\ st' = [st EXCEPT ![p] = [st[p] EXCEPT !.pc = "spawn", !.as = NULL]]
           /\ p_addrspace' = [p_addrspace EXCEPT ![q] = a]
  <2>1. mem[Frame(b, v)] = x
    BY <1>3, <1>4 DEF Holds
  <2> QED BY <1>0, <1>1, <1>2, <2>1 DEF CopyPage, Goto, CopySource, vars
<1>6. /\ \A y \in As : y # a => Kept(y)
      /\ \A w \in Page : w # v /\ held[<<a, w>>] # NoBlock => mem'[Frame(a, w)] = mem[Frame(a, w)]
      /\ mem'[Frame(a, v)] = x
  BY <1>0, <1>4, <1>5, StoreKeeps
<1>7. IInv'
  BY <1>0, StutterStep
<1>8. /\ st \in [Process -> [pc : Label, as : As \union {NULL}, old : As \union {NULL},
                             child : Process \union {NULL}, k : Nat \ {0}]]
      /\ p_addrspace \in [Process -> As \union {NULL}] /\ mem' \in [MemFrame -> Content]
  BY <1>0, <1>5 DEF AsTypeOK
<1>9. /\ Complete(a)' /\ Complete(b)' /\ Holds(b, image[p])'
  <2>1. Kept(b) /\ 0 \in Nat /\ image'[p] = image[p]
    BY <1>0, <1>1, <1>6
  <2>2. Complete(b)' /\ Holds(b, image[p])'
    BY <1>4, <2>1, SpaceKept
  <2>3. Complete(a)'
    BY <1>4, <1>5 DEF Complete, NoBlock
  <2> QED BY <2>2, <2>3
<1>10. Copied(a, k + 1, image[p])'
  <2>1. ASSUME NEW j \in 1 .. ((k + 1) - 1)
        PROVE  mem'[held'[<<a, CopyOrder[j]>>].addr] = image[p][CopyOrder[j]]
    <3>0. j \in 1 .. Len(CopyOrder) /\ (j # k => j \in 1 .. (k - 1))
      BY Orders
    <3>1. CopyOrder[j] \in Page
      BY <3>0, Orders, EnumAt
    <3>2. CASE j = k
      BY <3>2, <1>2, <1>3, <1>5, <1>6 DEF Frame
    <3>3. CASE j # k
      <4>1. CopyOrder[j] # v
        BY <3>0, <3>3, <1>2, Orders DEF Enumerates
      <4>2. mem[Frame(a, CopyOrder[j])] = image[p][CopyOrder[j]]
        BY <3>0, <3>3, <1>4 DEF Copied
      <4>3. held[<<a, CopyOrder[j]>>] # NoBlock
        BY <3>1, <1>4 DEF Complete, Slot
      <4> QED BY <4>1, <4>2, <4>3, <3>1, <1>5, <1>6 DEF Frame
    <3> QED BY <3>2, <3>3
  <2> QED BY <2>1, <1>0 DEF Copied, Frame
<1>11. CASE k < Len(CopyOrder)
  <2>1. /\ st'[p].pc = "copy" /\ st'[p].as = a /\ st'[p].old = NULL /\ st'[p].child = q
        /\ st'[p].k = k + 1 /\ p_addrspace' = p_addrspace
        /\ \A r \in Process : r # p => st'[r] = st[r]
    BY <1>0, <1>1, <1>5, <1>8, <1>11
  <2>2. st' \in [Process -> [pc : Label, as : As \union {NULL}, old : As \union {NULL},
                             child : Process \union {NULL}, k : Nat \ {0}]]
    BY <1>5, <1>8, <1>11
  <2>3. AsTypeOK'
    BY <1>0, <1>8, <2>1, <2>2 DEF AsTypeOK
  <2>4. OnlyMoves(p) /\ SameChild(p)
    BY <1>0, <1>1, <2>1 DEF OnlyMoves, SameChild
  <2>5. Shape(p)'
    <3>1. k + 1 <= Len(CopyOrder)
      BY <1>11, Orders
    <3> QED BY <1>0, <1>1, <2>1, <3>1 DEF Shape, Loading, Copying
  <2>6. Memory(p)'
    BY <1>1, <1>9, <1>10, <2>1 DEF Memory, Settled
  <2>7. \A r \in Process, y \in As : r # p /\ Uses(r, y) => Kept(y)
    BY <1>0, <1>1, <1>6 DEF Ownership, Uses
  <2>8. \A y \in As : (Uses(p, y)' <=> Uses(p, y)) /\ (InUse(y)' <=> InUse(y))
    BY <1>0, <1>1, <2>1 DEF Uses, InUse
  <2>9. \A y \in As : ~InUse(y)' => \A t \in Slot : held'[<<y, t>>] = NoBlock
    BY <1>0, <1>5, <2>8 DEF Ownership
  <2>10. OnCpu'
    BY <1>0, <2>1 DEF OnCpu, AsTypeOK
  <2>11. \A d \in CPU : Translates(d)'
    BY <1>0, <1>5, <2>1, TranslatesAll
  <2>12. st[p].pc # "embryo" /\ \A y \in leaked' : y \in leaked
    BY <1>0
  <2> QED BY <1>7, <2>3, <2>4, <2>5, <2>6, <2>7, <2>8, <2>9, <2>10, <2>11, <2>12, MoverStep
<1>12. CASE ~(k < Len(CopyOrder))
  <2>0. st[q].pc = "embryo" /\ p_addrspace[q] = NULL /\ q # p /\ Shape(q)
    BY <1>0, <1>1 DEF Family, AsInv, Control
  <2>1. PICK s \in [pc : Label, as : As \union {NULL}, old : As \union {NULL},
                    child : Process \union {NULL}, k : Nat \ {0}] :
          /\ st' = [st EXCEPT ![p] = s]
          /\ s.pc = "spawn" /\ s.as = NULL /\ s.old = NULL /\ s.child = q
    <3>1. PICK u : u = [st[p] EXCEPT !.pc = "spawn"]
      OBVIOUS
    <3>2. /\ u \in [pc : Label, as : As \union {NULL}, old : As \union {NULL},
                    child : Process \union {NULL}, k : Nat \ {0}]
          /\ u.pc = "spawn" /\ u.old = NULL /\ u.child = q
      BY <1>1, <1>8, <3>1 DEF Label
    <3>3. PICK w : w = [u EXCEPT !.as = NULL]
      OBVIOUS
    <3>4. /\ w \in [pc : Label, as : As \union {NULL}, old : As \union {NULL},
                    child : Process \union {NULL}, k : Nat \ {0}]
          /\ w.pc = "spawn" /\ w.as = NULL /\ w.old = NULL /\ w.child = q
      BY <3>2, <3>3
    <3>5. w = [st[p] EXCEPT !.pc = "spawn", !.as = NULL]
      BY <3>1, <3>3
    <3> QED BY <3>4, <3>5, <1>5, <1>12
  <2>2. /\ st'[p].pc = "spawn" /\ st'[p].as = NULL /\ st'[p].old = NULL /\ st'[p].child = q
        /\ \A r \in Process : r # p => st'[r] = st[r]
        /\ p_addrspace'[q] = a /\ \A r \in Process : r # q => p_addrspace'[r] = p_addrspace[r]
    BY <1>5, <1>8, <1>12, <2>1
  <2>3. AsTypeOK'
    <3>1. st' \in [Process -> [pc : Label, as : As \union {NULL}, old : As \union {NULL},
                               child : Process \union {NULL}, k : Nat \ {0}]]
      BY <1>8, <2>1
    <3>2. p_addrspace' \in [Process -> As \union {NULL}]
      BY <1>5, <1>8, <1>12
    <3> QED BY <1>0, <1>8, <3>1, <3>2 DEF AsTypeOK
  <2>4. Holds(a, image[p])'
    <3>1. \A w \in Page : \E j \in 1 .. Len(CopyOrder) : CopyOrder[j] = w
      BY Orders DEF Enumerates
    <3>2. \A j \in 1 .. Len(CopyOrder) : j \in 1 .. ((k + 1) - 1)
      BY <1>12, Orders
    <3> QED BY <1>10, <3>1, <3>2 DEF Copied, Holds
  <2>5. PairMoves(p, q) /\ PairFamily(p, q) /\ st'[q].child = NULL
    <3>1. PairFamily(p, q)
      BY <1>0, <1>9, <2>0, <2>2, <2>4 DEF PairFamily
    <3>2. st'[q].child = NULL
      BY <2>0, <2>2 DEF Shape
    <3> QED BY <1>0, <2>2, <3>1, <3>2 DEF PairMoves
  <2>6. Shape(p)' /\ Shape(q)'
    <3>1. p_addrspace'[p] = b
      BY <1>1, <2>0, <2>2
    <3>2. Shape(p)'
      BY <1>0, <2>2, <3>1 DEF Shape, Loading, Copying
    <3>3. Shape(q)'
      BY <2>0, <2>2 DEF Shape, Loading, Copying
    <3> QED BY <3>2, <3>3
  <2>7. Memory(p)' /\ Memory(q)'
    <3>1. p_addrspace'[p] = b
      BY <1>1, <2>0, <2>2
    <3>2. Memory(p)'
      BY <1>9, <2>2, <3>1 DEF Memory, Settled
    <3>3. st'[q].pc = "embryo" /\ st'[q].old = NULL
      BY <2>0, <2>2 DEF Shape
    <3>4. Memory(q)'
      BY <3>3 DEF Memory, Settled
    <3> QED BY <3>2, <3>4
  <2>8. \A y \in As : /\ Uses(p, y) <=> y = a \/ y = b
                      /\ Uses(p, y)' <=> y = b
                      /\ Uses(q, y)' <=> y = a
                      /\ ~Uses(q, y)
    <3>1. p_addrspace'[p] = b /\ st[q].as = NULL /\ st[q].old = NULL /\ st'[q] = st[q]
      BY <1>1, <2>0, <2>2 DEF Shape
    <3> QED BY <1>0, <1>1, <2>0, <2>2, <3>1 DEF Uses
  <2>9. \A r \in Process, y \in As : r # p /\ r # q /\ Uses(r, y) => Kept(y)
    BY <1>0, <1>1, <1>6 DEF Ownership, Uses
  <2>10. \A y \in As : ~InUse(y)' => \A t \in Slot : held'[<<y, t>>] = NoBlock
    <3>1. \A y \in As : InUse(y) => InUse(y)'
      BY <1>0, <2>5, <2>8, PairInUse, InUseUses
    <3> QED BY <1>0, <1>5, <3>1 DEF Ownership
  <2>11. OnCpu'
    BY <1>0, <2>2 DEF OnCpu, AsTypeOK
  <2>12. ASSUME NEW d \in CPU PROVE Translates(d)'
    <3>1. on[d] # NULL => on[d] \in Process /\ on[d] # q
      BY <1>0, <2>0 DEF AsTypeOK, OnCpu
    <3> QED BY <1>0, <1>5, <2>2, <3>1, TranslatesKept DEF AsInv
  <2>13. /\ st[p].pc # "embryo" /\ st[p].child = q /\ p # q /\ \A y \in leaked' : y \in leaked
         /\ a # b
    BY <1>0, <1>1, <2>0
  <2> QED BY <1>7, <2>3, <2>5, <2>6, <2>7, <2>8, <2>9, <2>10, <2>11, <2>12, <2>13, PairStep
<1> QED BY <1>11, <1>12

\* thread_fork succeeds, and parent and child have the same memory, twice; or it
\* fails, and the copy is lost.
LEMMA SpawnStep ==
    ASSUME AsInv, NEW c \in CPU, NEW p \in Process, Spawn(c, p) \/ SpawnFails(c, p)
    PROVE  AsInv'
<1>0. /\ AsTypeOK /\ IInv /\ Shape(p) /\ Memory(p) /\ Ownership /\ OnCpu /\ Family
      /\ st[p].pc = "spawn" /\ on[c] = p
      /\ UNCHANGED <<vars, loaded, on, tlb, mem, halted>>
      /\ NULL \notin As /\ NULL \notin Process
  BY AddrSpaceAssumption DEF AsInv, Control, Contents, Spawn, SpawnFails, At
<1>1. PICK b \in As, q \in Process :
        /\ b = p_addrspace[p] /\ q = st[p].child /\ st[p].as = NULL /\ st[p].old = NULL
  BY <1>0 DEF AsTypeOK, Shape
<1>2. PICK a \in As :
        /\ a = p_addrspace[q] /\ Complete(a) /\ Holds(a, image[p])
        /\ st[q].pc = "embryo" /\ q # p /\ st[q].as = NULL /\ st[q].old = NULL /\ a # b
  <2>1. /\ p_addrspace[q] \in As /\ Complete(p_addrspace[q]) /\ Holds(p_addrspace[q], image[p])
        /\ st[q].pc = "embryo" /\ q # p
    BY <1>0, <1>1 DEF Family, AsTypeOK
  <2>2. p_addrspace[q] # b
    BY <1>0, <1>1, <2>1 DEF Ownership, Uses
  <2>3. st[q].as = NULL /\ st[q].old = NULL
    BY <2>1 DEF AsInv, Control, Shape
  <2> QED BY <2>1, <2>2, <2>3
<1>3. PICK s, t \in [pc : Label, as : As \union {NULL}, old : As \union {NULL},
                     child : Process \union {NULL}, k : Nat \ {0}] :
        /\ s.pc = "user" /\ s.as = NULL /\ s.old = NULL /\ s.child = NULL
        /\ Spawn(c, p) => t.pc = "user"
        /\ ~Spawn(c, p) => t.pc = "none"
        /\ t.as = NULL /\ t.old = NULL /\ t.child = NULL
        /\ st' = [st EXCEPT ![p] = s, ![q] = t]
  <2> DEFINE s == [Idle EXCEPT !.pc = "user"]
  <2>1. /\ s.pc = "user" /\ s.as = NULL /\ s.old = NULL /\ s.child = NULL
        /\ s \in [pc : Label, as : As \union {NULL}, old : As \union {NULL},
                  child : Process \union {NULL}, k : Nat \ {0}]
    BY IdleType DEF Idle, Label
  <2>2. /\ Idle.pc = "none" /\ Idle.as = NULL /\ Idle.old = NULL /\ Idle.child = NULL
    BY DEF Idle
  <2>3. CASE Spawn(c, p)
    <3>1. st' = [st EXCEPT ![p] = s, ![q] = s]
      BY <1>1, <2>3 DEF Spawn
    <3> HIDE DEF s
    <3> QED BY <2>1, <2>3, <3>1
  <2>4. CASE ~Spawn(c, p)
    <3>1. st' = [st EXCEPT ![p] = s, ![q] = Idle]
      BY <1>1, <2>4 DEF SpawnFails
    <3> HIDE DEF s
    <3> QED BY <2>1, <2>2, <2>4, <3>1, IdleType
  <2> QED BY <2>3, <2>4
<1>4. /\ st'[p] = s /\ st'[q] = t /\ \A r \in Process : r # p /\ r # q => st'[r] = st[r]
      /\ st' \in [Process -> [pc : Label, as : As \union {NULL}, old : As \union {NULL},
                              child : Process \union {NULL}, k : Nat \ {0}]]
  <2>1. PICK w : w = [st EXCEPT ![p] = s]
    OBVIOUS
  <2>2. w \in [Process -> [pc : Label, as : As \union {NULL}, old : As \union {NULL},
                           child : Process \union {NULL}, k : Nat \ {0}]]
    BY <1>0, <2>1 DEF AsTypeOK
  <2>3. st' = [w EXCEPT ![q] = t]
    BY <1>3, <2>1
  <2>4. w[p] = s /\ \A r \in Process : r # p => w[r] = st[r]
    BY <1>0, <2>1 DEF AsTypeOK
  <2> QED BY <1>2, <2>2, <2>3, <2>4
<1>5. IInv'
  BY <1>0, StutterStep
<1>6. \A x \in As : Kept(x)
  BY <1>0, NothingMoved DEF vars
<1>7. CASE Spawn(c, p)
  <2>1. /\ image' = [image EXCEPT ![q] = image[p]]
        /\ UNCHANGED <<p_addrspace, leaked>>
    BY <1>1, <1>7 DEF Spawn
  <2>2. image'[q] = image[p] /\ \A r \in Process : r # q => image'[r] = image[r]
    BY <1>0, <2>1 DEF AsTypeOK
  <2>3. AsTypeOK'
    <3>1. image' \in [Process -> [Page -> Content]]
      BY <1>0, <2>1 DEF AsTypeOK
    <3> QED BY <1>0, <1>4, <2>1, <3>1 DEF AsTypeOK
  <2>4. PairMoves(p, q) /\ PairFamily(p, q) /\ st'[q].child = NULL
    BY <1>0, <1>3, <1>4, <2>1, <2>2 DEF PairMoves, PairFamily
  <2>5. Shape(p)' /\ Shape(q)'
    <3>1. /\ p_addrspace'[p] # NULL /\ p_addrspace'[q] # NULL
          /\ st'[p].pc = "user" /\ st'[q].pc = "user"
      BY <1>0, <1>1, <1>2, <1>3, <1>4, <1>7, <2>1
    <3> QED BY <1>3, <1>4, <3>1 DEF Shape, Loading, Copying
  <2>6. Memory(p)' /\ Memory(q)'
    <3>1. /\ Complete(b) /\ Holds(b, image[p]) /\ Kept(a) /\ Kept(b) /\ 0 \in Nat
      BY <1>0, <1>1, <1>6 DEF Memory, Settled
    <3>2. /\ p_addrspace'[p] = b /\ p_addrspace'[q] = a
          /\ image'[p] = image[p] /\ image'[q] = image[p]
          /\ st'[p].pc = "user" /\ st'[q].pc = "user" /\ st'[p].old = NULL /\ st'[q].old = NULL
      BY <1>1, <1>2, <1>3, <1>4, <1>7, <2>1, <2>2
    <3>3. Complete(b)' /\ Holds(b, image[p])' /\ Complete(a)' /\ Holds(a, image[p])'
      BY <1>2, <3>1, <3>2, SpaceKept
    <3>4. Holds(a, image[q])'
      BY <3>2, <3>3
    <3> QED BY <3>2, <3>3, <3>4 DEF Memory
  <2>7. \A x \in As : /\ Uses(p, x)' <=> x = b
                      /\ Uses(p, x) <=> x = b
                      /\ Uses(q, x)' <=> x = a
                      /\ Uses(q, x) <=> x = a
    <3>1. st'[p].as = NULL /\ st'[p].old = NULL /\ st'[q].as = NULL /\ st'[q].old = NULL
      BY <1>3, <1>4
    <3> QED BY <1>0, <1>1, <1>2, <2>1, <3>1 DEF Uses
  <2>8. \A x \in As : ~InUse(x)' => \A y \in Slot : held'[<<x, y>>] = NoBlock
    <3>1. \A x \in As : InUse(x) => InUse(x)'
      BY <2>1, <2>4, <2>7, PairInUse, InUseUses
    <3> QED BY <1>0, <3>1 DEF Ownership, vars
  <2>9. OnCpu'
    <3>1. \A d \in CPU : on[d] # NULL => on[d] \in Process /\ on[d] # q
      BY <1>0, <1>2 DEF AsTypeOK, OnCpu
    <3>2. st'[p].pc = "user"
      BY <1>3, <1>4
    <3> QED BY <1>0, <1>4, <3>1, <3>2 DEF OnCpu
  <2>10. \A d \in CPU : Translates(d)'
    BY <1>0, <2>1, TranslatesAll DEF vars
  <2>11. /\ st[p].pc # "embryo" /\ st[p].child = q /\ p # q /\ \A x \in leaked' : x \in leaked
         /\ a # b
    BY <1>0, <1>1, <1>2, <2>1
  <2> QED BY <1>5, <1>6, <2>3, <2>4, <2>5, <2>6, <2>7, <2>8, <2>9, <2>10, <2>11, PairStep
<1>8. CASE ~Spawn(c, p)
  <2>1. /\ leaked' = leaked \union {a} /\ p_addrspace' = [p_addrspace EXCEPT ![q] = NULL]
        /\ image' = image
    BY <1>1, <1>2, <1>8 DEF SpawnFails
  <2>2. p_addrspace'[q] = NULL /\ \A r \in Process : r # q => p_addrspace'[r] = p_addrspace[r]
    BY <1>0, <2>1 DEF AsTypeOK
  <2>3. AsTypeOK'
    <3>1. p_addrspace' \in [Process -> As \union {NULL}] /\ leaked' \subseteq As
      BY <1>0, <2>1 DEF AsTypeOK
    <3> QED BY <1>0, <1>4, <2>1, <3>1 DEF AsTypeOK
  <2>4. PairMoves(p, q) /\ PairFamily(p, q) /\ st'[q].child = NULL
    BY <1>0, <1>3, <1>4, <2>1, <2>2 DEF PairMoves, PairFamily
  <2>5. Shape(p)' /\ Shape(q)'
    <3>1. /\ p_addrspace'[p] # NULL /\ p_addrspace'[q] = NULL
          /\ st'[p].pc = "user" /\ st'[q].pc = "none"
      BY <1>0, <1>1, <1>2, <1>3, <1>4, <1>8, <2>2
    <3> QED BY <1>3, <1>4, <3>1 DEF Shape, Loading, Copying
  <2>6. Memory(p)' /\ Memory(q)'
    <3>1. /\ Complete(b) /\ Holds(b, image[p]) /\ Kept(b) /\ 0 \in Nat
      BY <1>0, <1>1, <1>6 DEF Memory, Settled
    <3>2. /\ p_addrspace'[p] = b /\ image'[p] = image[p]
          /\ st'[p].pc = "user" /\ st'[q].pc = "none" /\ st'[p].old = NULL /\ st'[q].old = NULL
      BY <1>1, <1>2, <1>3, <1>4, <1>8, <2>1, <2>2
    <3>3. Complete(b)' /\ Holds(b, image[p])'
      BY <3>1, <3>2, SpaceKept
    <3> QED BY <3>2, <3>3 DEF Memory, Settled
  <2>7. \A x \in As : /\ Uses(p, x)' <=> x = b
                      /\ Uses(p, x) <=> x = b
                      /\ ~Uses(q, x)'
                      /\ Uses(q, x) <=> x = a
    <3>1. /\ st'[p].as = NULL /\ st'[p].old = NULL /\ st'[q].as = NULL /\ st'[q].old = NULL
          /\ p_addrspace'[p] = b
      BY <1>1, <1>2, <1>3, <1>4, <2>2
    <3> QED BY <1>0, <1>1, <1>2, <2>2, <3>1 DEF Uses
  <2>8. \A x \in As : ~InUse(x)' => \A y \in Slot : held'[<<x, y>>] = NoBlock
    <3>1. \A x \in As : InUse(x) => InUse(x)'
      BY <2>1, <2>4, <2>7, PairInUse, InUseUses
    <3> QED BY <1>0, <3>1 DEF Ownership, vars
  <2>9. \A d \in CPU : on[d] # NULL => on[d] \in Process /\ on[d] # q
    BY <1>0, <1>2 DEF AsTypeOK, OnCpu
  <2>10. OnCpu'
    <3>1. st'[p].pc = "user"
      BY <1>3, <1>4
    <3> QED BY <1>0, <1>4, <2>9, <3>1 DEF OnCpu
  <2>11. ASSUME NEW d \in CPU PROVE Translates(d)'
    BY <1>0, <2>2, <2>9, TranslatesKept DEF AsInv, vars
  <2>12. /\ st[p].pc # "embryo" /\ st[p].child = q /\ p # q /\ a # b
         /\ leaked' = leaked \union {a}
    BY <1>0, <1>1, <1>2, <2>1
  <2> QED BY <1>5, <1>6, <2>3, <2>4, <2>5, <2>6, <2>7, <2>8, <2>10, <2>11, <2>12, PairStep
<1> QED BY <1>7, <1>8

-----------------------------------------------------------------------------
(* The invariant *)

\* A machine that has just started.
LEMMA InitAsInv == AsInit => AsInv
<1> SUFFICES ASSUME AsInit PROVE AsInv
  OBVIOUS
<1>0. /\ IInv /\ NULL \notin As /\ NULL \notin Process
      /\ \A o \in Owners : held[o] = NoBlock
  BY InitIInv, AddrSpaceAssumption DEF AsInit, Init
<1>1. /\ Idle.pc = "none" /\ Idle.as = NULL /\ Idle.old = NULL /\ Idle.child = NULL
  BY DEF Idle
<1>2. /\ \A p \in Process : st[p] = Idle /\ p_addrspace[p] = NULL
      /\ \A c \in CPU : on[c] = NULL
  BY DEF AsInit
<1>3. AsTypeOK
  <2>1. Unknown \in [Page -> Content] /\ Junk \in Content
    BY DEF Unknown, Content
  <2>2. st \in [Process -> [pc : Label, as : As \union {NULL}, old : As \union {NULL},
                            child : Process \union {NULL}, k : Nat \ {0}]]
    BY IdleType DEF AsInit
  <2>3. tlb \in [CPU -> [1 .. NUM_TLB ->
                   [valid : BOOLEAN, page : Page, frame : Nat, dirty : BOOLEAN]]]
    BY NoTLBType DEF AsInit
  <2>4. mem \in [MemFrame -> Content] /\ image \in [Process -> [Page -> Content]]
    BY <2>1 DEF AsInit, MemFrame
  <2> QED BY <2>2, <2>3, <2>4 DEF AsTypeOK, AsInit
<1>4. \A p \in Process : Shape(p)
  BY <1>1, <1>2 DEF Shape, Loading, Copying
<1>5. Ownership
  <2>1. \A p \in Process, a \in As : ~Uses(p, a)
    BY <1>0, <1>1, <1>2 DEF Uses
  <2> QED BY <1>0, <2>1, SlotOwner DEF Ownership, AsInit
<1>6. OnCpu
  BY <1>2 DEF OnCpu
<1>7. \A p \in Process : Memory(p)
  BY <1>1, <1>2 DEF Memory, Settled
<1>8. Family
  BY <1>1, <1>2 DEF Family
<1>9. \A c \in CPU : Translates(c)
  BY <1>2 DEF Translates
<1> QED BY <1>0, <1>3, <1>4, <1>5, <1>6, <1>7, <1>8, <1>9 DEF AsInv, Control, Contents

\* vm_fault, wherever it is met: in the loader, in copyout or in user mode.
LEMMA AnyFaultStep ==
    ASSUME AsInv, NEW c \in CPU, NEW p \in Process,
           LoadFault(c, p) \/ ArgFault(c, p) \/ \E v \in Touched : UserFault(c, p, v)
    PROVE  AsInv'
<1>0. AsTypeOK /\ Shape(p) /\ Memory(p)
  BY DEF AsInv, Control, Contents
<1>1. st[p].pc \in {"load", "args", "user"} /\ on[c] = p
  BY DEF LoadFault, ArgFault, UserFault, At
<1>2. p_addrspace[p] \in As /\ Complete(p_addrspace[p])
  BY <1>0, <1>1 DEF Shape, Loading, Memory, Settled, AsTypeOK
<1>3. PICK v : vm_fault(c, p, v) /\ v \in Page
  <2>1. CASE LoadFault(c, p)
    <3>1. st[p].k \in 1 .. Len(LoadOrder) /\ vm_fault(c, p, LoadOrder[st[p].k])
      BY <2>1, <1>0, Orders DEF LoadFault, AsTypeOK
    <3>2. LoadOrder[st[p].k] \in FilePages
      BY <3>1, Orders, EnumAt
    <3>3. FilePages \subseteq Page
      BY SegmentsDisjoint DEF FilePages, Page
    <3> QED BY <3>1, <3>2, <3>3
  <2>2. CASE ArgFault(c, p)
    BY <2>2, SegmentsDisjoint DEF ArgFault, Page
  <2>3. CASE \E v \in Touched : UserFault(c, p, v)
    BY <2>3, AddrSpaceAssumption DEF UserFault
  <2> QED BY <2>1, <2>2, <2>3
<1> QED BY <1>1, <1>2, <1>3, FaultStep

\* Every step of the memory system keeps the invariant.
LEMMA AsInvStep ==
    ASSUME AsInv, AsNext
    PROVE  AsInv'
<1>0. IInv'
  BY CoreStep DEF AsInv, Control
<1>1. CASE Boot \/ \E o \in KernelOwner : KernelPages(o)
  BY <1>0, <1>1, KernelStep
<1>2. CASE \E p \in Process : StartProgram(p)
  BY <1>2, StartStep
<1>3. CASE \E c \in CPU, p \in Process \union {NULL} : Switch(c, p)
  BY <1>3, SwitchStep
<1>4. ASSUME NEW c \in CPU, NEW p \in Process,
             BadProgram(c, p) \/ PrepareFails(c, p) \/ RunFails(c, p) \/ BadAddress(c, p)
      PROVE  AsInv'
  BY <1>4, SameState DEF BadProgram, PrepareFails, RunFails, BadAddress, Halt
<1>5. ASSUME NEW c \in CPU, NEW p \in Process,
             \/ ExecBegin(c, p) \/ as_prepare_load(c, p) \/ LoadPage(c, p)
             \/ as_complete_load(c, p) \/ PassArguments(c, p) \/ ExecFails(c, p)
             \/ as_destroy(c, p) \/ CopyPage(c, p) \/ Spawn(c, p) \/ SpawnFails(c, p)
             \/ \E q \in Process : ForkBegin(c, p, q)
             \/ \E v \in Touched : UserWrite(c, p, v)
      PROVE  AsInv'
  BY <1>0, <1>5, ExecBeginStep, PrepareStep, LoadPageStep, CompleteLoadStep, PassArgumentsStep,
     ExecFailsStep, DestroyStep, CopyPageStep, SpawnStep, ForkBeginStep, UserWriteStep
<1>6. ASSUME NEW c \in CPU, NEW p \in Process,
             LoadFault(c, p) \/ ArgFault(c, p) \/ \E v \in Touched : UserFault(c, p, v)
      PROVE  AsInv'
  BY <1>6, AnyFaultStep
<1>7. ASSUME NEW c \in CPU, NEW p \in Process,
             LoadReadonly(c, p) \/ Exit(c, p) \/ \E v \in Touched : UserReadonly(c, p, v)
      PROVE  AsInv'
  <2>1. on[c] = p /\ st[p].pc \in {"user", "load"} /\ sys__exit(p)
    BY <1>7 DEF LoadReadonly, Exit, UserReadonly, At
  <2> QED BY <2>1, ExitStep
<1> QED BY <1>1, <1>2, <1>3, <1>4, <1>5, <1>6, <1>7 DEF AsNext

\* The invariant holds for every number of processes, processors, address
\* spaces, pages and frames (dumbvm.c, loadelf.c, runprogram.c and the memory
\* side of proc_syscalls.c).
THEOREM AsInvariant == AsSpec => []AsInv
<1>1. AsInv /\ [AsNext]_allVars => AsInv'
  <2> SUFFICES ASSUME AsInv, [AsNext]_allVars PROVE AsInv'
    OBVIOUS
  <2>1. CASE AsNext
    BY <2>1, AsInvStep
  <2>2. CASE UNCHANGED allVars
    BY <2>2, SameState DEF allVars, asVars
  <2> QED BY <2>1, <2>2
<1> QED BY <1>1, InitAsInv, PTL DEF AsSpec

\* Under fork, execv, exit and their failures no frame has two owners, and none
\* is outside the RAM that vm_bootstrap handed out (dumbvm.c:151-209).
THEOREM AsFramesExclusive == AsSpec => []FramesExclusive
<1>1. AsInv => FramesExclusive
  BY ExclusiveFromIInv DEF AsInv
<1> QED BY <1>1, AsInvariant, PTL

\* Under fork, execv, exit and their failures an entry of the coremap is marked
\* used when, and only when, somebody has its frame (dumbvm.c:151-209).
THEOREM AsUsedIffHeld == AsSpec => []UsedIffHeld
<1>1. AsInv => UsedIffHeld
  BY DEF AsInv, IInv
<1> QED BY <1>1, AsInvariant, PTL

\* A processor translates with the page table that its process has now: every
\* switch, execv and failed execv activates the right address space
\* (dumbvm.c:491-513 and its callers).
THEOREM TLBCoherentThm == AsSpec => []TLBCoherent
<1>1. AsInv => TLBCoherent
  <2> SUFFICES ASSUME AsInv, NEW c \in CPU, on[c] # NULL, p_addrspace[on[c]] # NULL,
                      NEW i \in 1 .. NUM_TLB, tlb[c][i].valid
               PROVE  /\ held[<<p_addrspace[on[c]], tlb[c][i].page>>] # NoBlock
                      /\ tlb[c][i].frame = Frame(p_addrspace[on[c]], tlb[c][i].page)
                      /\ \A j \in 1 .. NUM_TLB :
                           tlb[c][j].valid /\ tlb[c][j].page = tlb[c][i].page => i = j
    BY DEF TLBCoherent
  <2> QED BY DEF AsInv, Translates
<1> QED BY <1>1, AsInvariant, PTL

\* Every process has a complete address space of its own and finds in it what
\* its program file held, zeroes, or what it wrote last; a child of fork finds
\* what its parent had (dumbvm.c:593-743, under every interleaving).
THEOREM MemoryPrivateThm == AsSpec => []MemoryPrivate
<1>1. AsInv => ContentsKept
  BY DEF AsInv, Contents, Memory, Holds, ContentsKept
<1>2. AsInv => AddressSpacesOwned
  <2> SUFFICES ASSUME AsInv PROVE AddressSpacesOwned
    OBVIOUS
  <2>0. NULL \notin As /\ Ownership
    BY AddrSpaceAssumption DEF AsInv, Control
  <2>1. \A p \in Process, a \in As : a \in Mine(p) <=> Uses(p, a)
    BY <2>0 DEF Mine, Uses
  <2>2. ASSUME NEW a \in As, \E s \in Table \union Page : held[<<a, s>>] # NoBlock
        PROVE  \/ a \in leaked /\ \A p \in Process : a \notin Mine(p)
               \/ a \notin leaked /\ Cardinality({p \in Process : a \in Mine(p)}) = 1
    <3>1. InUse(a)
      BY <2>0, <2>2 DEF Ownership, Slot
    <3>2. CASE a \in leaked
      BY <3>2, <2>0, <2>1 DEF Ownership
    <3>3. CASE a \notin leaked
      <4>1. PICK p \in Process : Uses(p, a)
        BY <3>1, <3>3, InUseUses
      <4>2. {r \in Process : a \in Mine(r)} = {p}
        BY <4>1, <2>0, <2>1 DEF Ownership
      <4>3. Cardinality({p}) = 1
        BY FS_Singleton
      <4> QED BY <3>3, <4>2, <4>3
    <3> QED BY <3>2, <3>3
  <2>3. \A p \in Process : Settled(p) =>
          \A s \in Table \union Page : held[<<p_addrspace[p], s>>] # NoBlock
    BY DEF AsInv, Contents, Memory, Complete, Slot
  <2> QED BY <2>2, <2>3 DEF AddressSpacesOwned
<1> QED BY <1>1, <1>2, AsInvariant, PTL DEF MemoryPrivate

\* A step that stores something does so in one address space, which the thread
\* that takes it can reach.
LEMMA WriterKeeps ==
    ASSUME AsInv, IInv', NEW c \in CPU, NEW r \in Process,
           \/ as_prepare_load(c, r) \/ LoadPage(c, r) \/ PassArguments(c, r)
           \/ as_destroy(c, r) \/ CopyPage(c, r) \/ \E v \in Touched : UserWrite(c, r, v)
    PROVE  \E a \in As : Uses(r, a) /\ \A x \in As : x # a => Kept(x)
<1>0. AsTypeOK /\ IInv /\ Shape(r) /\ Memory(r)
  BY DEF AsInv, Control, Contents
<1>1. CASE as_prepare_load(c, r)
  <2>1. PICK a \in As, k \in 1 .. Len(AllocOrder) : a = st[r].as /\ k = st[r].k
    <3>1. st[r].k \in Nat \ {0} /\ st[r].k <= Len(AllocOrder) /\ st[r].as \in As
      BY <1>0, <1>1 DEF as_prepare_load, At, AsTypeOK, Shape, Loading, Copying
    <3> QED BY <3>1, Orders
  <2>2. PICK slot \in Slot : slot = AllocOrder[k]
    BY Orders, EnumAt
  <2>3. /\ coremap_alloc(<<a, slot>>, SlotPages(slot)) /\ SlotPages(slot) \in Nat
        /\ mem' = Zeroed(slot, held'[<<a, slot>>].addr)
    BY <1>1, <2>1, <2>2, SlotPagesNat DEF as_prepare_load
  <2> QED BY <1>0, <2>1, <2>3, AllocKeeps DEF Uses
<1>2. CASE as_destroy(c, r)
  <2>1. PICK a \in As, k \in 1 .. Len(FreeOrder) : a = st[r].as /\ k = st[r].k
    <3>1. st[r].k \in Nat \ {0} /\ st[r].k <= Len(FreeOrder) /\ st[r].as \in As
      BY <1>0, <1>2 DEF as_destroy, At, AsTypeOK, Shape
    <3> QED BY <3>1, Orders
  <2>2. PICK slot \in Slot : slot = FreeOrder[k]
    BY Orders, EnumAt
  <2>3. /\ coremap_dealloc(<<a, slot>>) /\ mem' = [mem EXCEPT ![held[<<a, slot>>].addr] = Junk]
    BY <1>2, <2>1, <2>2 DEF as_destroy
  <2> QED BY <1>0, <2>1, <2>3, FreeKeeps DEF Uses
<1>3. CASE CopyPage(c, r)
  <2>1. PICK a \in As, k \in 1 .. Len(CopyOrder) : a = st[r].as /\ k = st[r].k /\ st[r].pc = "copy"
    <3>1. /\ st[r].k \in Nat \ {0} /\ st[r].k <= Len(CopyOrder) /\ st[r].as \in As
          /\ st[r].pc = "copy"
      BY <1>0, <1>3 DEF CopyPage, At, AsTypeOK, Shape, Copying
    <3> QED BY <3>1, Orders
  <2>2. PICK v \in Page : v = CopyOrder[k]
    BY Orders, EnumAt
  <2>3. PICK x : held' = held /\ mem' = [mem EXCEPT ![Frame(a, v)] = x]
    BY <1>3, <2>1, <2>2 DEF CopyPage, vars
  <2>4. held[<<a, v>>] # NoBlock
    BY <1>0, <2>1 DEF Memory, Complete, Slot
  <2> QED BY <1>0, <2>1, <2>3, <2>4, StoreKeeps DEF Uses
<1>4. CASE LoadPage(c, r) \/ PassArguments(c, r) \/ \E v \in Touched : UserWrite(c, r, v)
  <2>1. /\ st[r].pc \in {"load", "args", "user"} /\ on[c] = r /\ held' = held
    BY <1>4 DEF LoadPage, PassArguments, UserWrite, At, vars
  <2>2. PICK a \in As : a = p_addrspace[r]
    BY <1>0, <2>1 DEF Shape, Loading, AsTypeOK
  <2>3. PICK v \in Page, x \in Content : Store(c, v, x)
    <3>0. Image \in Content /\ Written \in Content
      BY DEF Content
    <3>1. CASE LoadPage(c, r)
      <4>1. st[r].k \in 1 .. Len(LoadOrder) /\ Store(c, LoadOrder[st[r].k], Image)
        BY <1>0, <3>1, Orders DEF LoadPage, AsTypeOK
      <4>2. LoadOrder[st[r].k] \in FilePages
        BY <4>1, Orders, EnumAt
      <4>3. FilePages \subseteq Page
        BY SegmentsDisjoint DEF FilePages, Page
      <4> QED BY <3>0, <4>1, <4>2, <4>3
    <3>2. CASE PassArguments(c, r)
      BY <3>0, <3>2, SegmentsDisjoint DEF PassArguments, Page
    <3>3. CASE \E v \in Touched : UserWrite(c, r, v)
      BY <3>0, <3>3, AddrSpaceAssumption DEF UserWrite
    <3> QED BY <1>4, <3>1, <3>2, <3>3
  <2>4. mem' = [mem EXCEPT ![Frame(a, v)] = x] /\ held[<<a, v>>] # NoBlock
    BY <2>1, <2>2, <2>3, StoreTo
  <2> QED BY <1>0, <2>1, <2>2, <2>4, StoreKeeps DEF Uses
<1> QED BY <1>1, <1>2, <1>3, <1>4

\* No program changes its text once it is loaded: the only thread that can reach
\* the frames finds read-only entries for them (vm_fault, dumbvm.c:407-426).
THEOREM TextIntactThm == AsSpec => TextIntact
<1> DEFINE A == \A p \in Process : st[p].pc = "user" /\ st'[p].pc = "user" /\ loaded[p] =>
                  \A v \in Text : mem'[Frame(p_addrspace[p], v)] = mem[Frame(p_addrspace[p], v)]
<1>1. AsInv /\ AsInv' /\ [AsNext]_allVars => A
  <2> SUFFICES ASSUME AsInv, AsInv', [AsNext]_allVars, NEW p \in Process,
                      st[p].pc = "user", loaded[p], NEW v \in Text
               PROVE  mem'[Frame(p_addrspace[p], v)] = mem[Frame(p_addrspace[p], v)]
    OBVIOUS
  <2>0. AsTypeOK /\ Shape(p) /\ Memory(p) /\ Ownership /\ v \in Page
    BY DEF AsInv, Control, Contents, Page
  <2>1. PICK a \in As : a = p_addrspace[p] /\ Uses(p, a) /\ held[<<a, v>>] # NoBlock
    BY <2>0 DEF Shape, AsTypeOK, Uses, Memory, Settled, Complete, Slot
  <2>2. CASE mem' = mem
    BY <2>2
  <2>3. ASSUME NEW c \in CPU, NEW r \in Process,
               \/ as_prepare_load(c, r) \/ LoadPage(c, r) \/ PassArguments(c, r)
               \/ as_destroy(c, r) \/ CopyPage(c, r) \/ \E w \in Touched : UserWrite(c, r, w)
        PROVE  mem'[Frame(a, v)] = mem[Frame(a, v)]
    <3>1. CASE r # p
      <4>1. PICK b \in As : Uses(r, b) /\ \A x \in As : x # b => Kept(x)
        BY <2>3, WriterKeeps DEF AsInv
      <4>2. a # b
        BY <2>0, <2>1, <3>1, <4>1 DEF Ownership
      <4> QED BY <2>0, <2>1, <4>1, <4>2 DEF Kept
    <3>2. CASE r = p
      <4>1. PICK w \in Page : UserWrite(c, p, w)
        BY <2>3, <3>2, AddrSpaceAssumption
           DEF as_prepare_load, LoadPage, PassArguments, as_destroy, CopyPage, At
      <4>2. on[c] = p /\ Store(c, w, Written) /\ held' = held /\ Written \in Content
        BY <4>1 DEF UserWrite, At, vars, Content
      <4>3. /\ mem' = [mem EXCEPT ![Frame(a, w)] = Written]
            /\ held[<<a, w>>] # NoBlock /\ w # v
        BY <2>1, <4>2, StoreTo
      <4> QED BY <2>0, <2>1, <4>2, <4>3, StoreKeeps DEF AsInv
    <3> QED BY <3>1, <3>2
  <2>4. CASE Boot \/ \E o \in KernelOwner : KernelPages(o)
    BY <2>2, <2>4 DEF Boot, KernelPages, asVars
  <2>5. CASE \/ \E r \in Process : StartProgram(r)
             \/ \E c \in CPU, r \in Process \union {NULL} : Switch(c, r)
    BY <2>2, <2>5 DEF StartProgram, Switch
  <2>6. ASSUME NEW c \in CPU, NEW r \in Process,
               \/ ExecBegin(c, r) \/ BadProgram(c, r) \/ PrepareFails(c, r)
               \/ LoadFault(c, r) \/ LoadReadonly(c, r)
               \/ as_complete_load(c, r) \/ ArgFault(c, r)
               \/ ExecFails(c, r) \/ RunFails(c, r) \/ Exit(c, r) \/ BadAddress(c, r)
               \/ Spawn(c, r) \/ SpawnFails(c, r) \/ \E q \in Process : ForkBegin(c, r, q)
               \/ \E w \in Touched : UserFault(c, r, w) \/ UserReadonly(c, r, w)
        PROVE  mem' = mem
    BY <2>6 DEF ExecBegin, BadProgram, PrepareFails, LoadFault, LoadReadonly, as_complete_load,
       ArgFault, ExecFails, RunFails, Exit, BadAddress, Spawn, SpawnFails, ForkBegin, UserFault,
       UserReadonly, vm_fault, Halt, sys__exit
  <2>7. CASE UNCHANGED allVars
    BY <2>2, <2>7 DEF allVars, asVars
  <2> QED BY <2>1, <2>2, <2>3, <2>4, <2>5, <2>6, <2>7 DEF AsNext
<1>2. AsInv /\ AsInv' /\ [AsNext]_allVars => [A]_allVars
  BY <1>1
<1> HIDE DEF A
<1>3. AsSpec => [][A]_allVars
  BY <1>2, AsInvariant, PTL DEF AsSpec
<1> QED BY <1>3 DEF TextIntact, A
=============================================================================
