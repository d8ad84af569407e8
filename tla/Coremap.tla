------------------------------- MODULE Coremap -------------------------------
(***************************************************************************)
(* Physical memory of Toy-OS: kern/arch/mips/vm/ram.c before the VM system  *)
(* is up, the coremap of kern/arch/mips/vm/dumbvm.c afterwards.             *)
(*                                                                         *)
(* Addresses are counted in pages.  coremap_alloc and coremap_dealloc hold  *)
(* coremap_lock from their first to their last access, so each is one step  *)
(* here; CoremapScan has the loops and the spinlock and implements this     *)
(* module.                                                                 *)
(***************************************************************************)
EXTENDS Integers

CONSTANTS
    Owners,         \* whoever holds the result of an allocation
    FirstFree,      \* ram_bootstrap: first physical page after the kernel
    LastPage,       \* ram_bootstrap: one past the last physical page
    EntriesPerPage, \* coremap entries that fit in one page
    MaxRequest      \* the largest request that is made (bound)

\* Physical page 0 holds the exception handlers (ram.c:87-89), so FirstFree > 0.
ASSUME RamAssumption ==
    /\ FirstFree \in Nat \ {0}
    /\ LastPage \in Nat
    /\ FirstFree < LastPage
    /\ EntriesPerPage \in Nat \ {0}
    /\ MaxRequest \in Nat

VARIABLES
    firstpaddr,         \* ram.c: next page ram_stealmem hands out
    lastpaddr,          \* ram.c: end of what ram_stealmem may hand out
    vm_bootstrap_flag,  \* dumbvm.c: has vm_bootstrap finished?
    firstaddr,          \* dumbvm.c: page that coremap[0] describes
    lastaddr,           \* dumbvm.c: end of the memory the coremap describes
    coremap,            \* dumbvm.c: index -> [used, count]
    held,               \* history: the block each owner was given, or NoBlock
    stolen              \* history: pages handed out before vm_bootstrap

vars == <<firstpaddr, lastpaddr, vm_bootstrap_flag, firstaddr, lastaddr,
          coremap, held, stolen>>

NoBlock == [addr |-> 0, npages |-> 0]

\* The frames of a block, as physical page numbers.
Frames(b) == b.addr .. (b.addr + b.npages - 1)

num_of_pages == lastaddr - firstaddr

\* ROUNDUP(num_of_pages * sizeof(struct coremap_entry), PAGE_SIZE) / PAGE_SIZE
CoremapPages(n) == (n + EntriesPerPage - 1) \div EntriesPerPage

num_of_coremap_pages == CoremapPages(num_of_pages)

Index == 0 .. (num_of_pages - 1)

Init ==
    /\ firstpaddr = FirstFree
    /\ lastpaddr = LastPage
    /\ vm_bootstrap_flag = 0
    /\ firstaddr = 0
    /\ lastaddr = 0
    /\ coremap = [i \in {} |-> [used |-> 0, count |-> 0]]
    /\ held = [o \in Owners |-> NoBlock]
    /\ stolen = {}

\* getppages before vm_bootstrap: ram_stealmem under stealmem_lock.  What it
\* hands out is never reported to the coremap.
ram_stealmem(npages) ==
    /\ vm_bootstrap_flag = 0
    /\ firstpaddr + npages <= lastpaddr
    /\ firstpaddr' = firstpaddr + npages
    /\ stolen' = stolen \union firstpaddr .. (firstpaddr + npages - 1)
    /\ UNCHANGED <<lastpaddr, vm_bootstrap_flag, firstaddr, lastaddr, coremap, held>>

\* The coremap that vm_bootstrap builds for n pages: its own pages are taken.
FreshCoremap(n) ==
    [i \in 0 .. (n - 1) |-> IF i < CoremapPages(n) THEN [used |-> 1, count |-> 1]
                                                  ELSE [used |-> 0, count |-> 0]]

vm_bootstrap ==
    /\ vm_bootstrap_flag = 0
    /\ firstaddr' = firstpaddr                  \* ram_getsize
    /\ lastaddr' = lastpaddr
    /\ firstpaddr' = 0
    /\ lastpaddr' = 0
    /\ coremap' = FreshCoremap(lastpaddr - firstpaddr)
    /\ vm_bootstrap_flag' = 1
    /\ UNCHANGED <<held, stolen>>

\* A run of npages free entries that starts at index s, above the coremap.
FreeRun(s, npages) ==
    /\ s >= num_of_coremap_pages
    /\ s + npages <= num_of_pages
    /\ \A i \in s .. (s + npages - 1) : coremap[i].used = 0

\* The loop of coremap_alloc stops at the first place where npages free
\* entries end: the lowest such run.  It compares after counting a free entry,
\* so a request for no page at all is never satisfied.
FirstFit(s, npages) ==
    /\ npages > 0
    /\ s \in Index
    /\ FreeRun(s, npages)
    /\ \A r \in Index : r < s => ~FreeRun(r, npages)

\* Mutant: every entry of the run gets count 1, the first one too.
FilledWithoutLength(cm, s, npages) ==
    [i \in DOMAIN cm |->
        IF i \in s .. (s + npages - 1) THEN [used |-> 1, count |-> 1] ELSE cm[i]]

\* The entries of a run marked as taken: the first one has the length.
Filled(cm, s, npages) ==
    [i \in DOMAIN cm |->
        IF i = s THEN [used |-> 1, count |-> npages]
        ELSE IF i \in s .. (s + npages - 1) THEN [used |-> 1, count |-> 1]
        ELSE cm[i]]

coremap_alloc(o, npages) ==
    /\ vm_bootstrap_flag = 1
    /\ held[o] = NoBlock
    /\ \E s \in Index :
         /\ FirstFit(s, npages)
         /\ coremap' = Filled(coremap, s, npages)
         /\ held' = [held EXCEPT ![o] = [addr |-> firstaddr + s, npages |-> npages]]
    /\ UNCHANGED <<firstpaddr, lastpaddr, vm_bootstrap_flag, firstaddr, lastaddr, stolen>>

\* Mutant: the loop runs to i <= end.
EmptiedOneMore(cm, start) ==
    [i \in DOMAIN cm |->
        IF i \in start .. (start + cm[start].count)
        THEN [used |-> 0, count |-> 0]
        ELSE cm[i]]

\* The entries from `start` on, as many as its count says, marked as free.
Emptied(cm, start) ==
    [i \in DOMAIN cm |->
        IF i \in start .. (start + cm[start].count - 1)
        THEN [used |-> 0, count |-> 0]
        ELSE cm[i]]

\* free_kpages of a block that coremap_alloc handed out.
coremap_dealloc(o) ==
    /\ vm_bootstrap_flag = 1
    /\ held[o] # NoBlock
    /\ coremap' = Emptied(coremap, held[o].addr - firstaddr)
    /\ held' = [held EXCEPT ![o] = NoBlock]
    /\ UNCHANGED <<firstpaddr, lastpaddr, vm_bootstrap_flag, firstaddr, lastaddr, stolen>>

Next ==
    \/ \E n \in 0 .. MaxRequest : ram_stealmem(n)
    \/ vm_bootstrap
    \/ \E o \in Owners, n \in 0 .. MaxRequest : coremap_alloc(o, n)
    \/ \E o \in Owners : coremap_dealloc(o)

Spec == Init /\ [][Next]_vars

-----------------------------------------------------------------------------
\* Every variable keeps its type.
TypeOK ==
    /\ firstpaddr \in Nat /\ lastpaddr \in Nat
    /\ vm_bootstrap_flag \in {0, 1}
    /\ firstaddr \in Nat /\ lastaddr \in Nat
    /\ coremap \in [Index -> [used : {0, 1}, count : Nat]]
    /\ held \in [Owners -> [addr : Nat, npages : Nat]]
    /\ stolen \subseteq Nat

\* The pages the coremap itself lies in.
CoremapFrames == firstaddr .. (firstaddr + num_of_coremap_pages - 1)

\* No frame has two users: coremap_alloc (lines 177-201) never gives out a frame
\* that another allocation holds, that holds the coremap, that the kernel
\* stole while it booted, or that does not exist.
FramesExclusive ==
    \A o \in Owners : held[o] # NoBlock =>
        /\ Frames(held[o]) \intersect (stolen \union CoremapFrames) = {}
        /\ Frames(held[o]) \subseteq FirstFree .. (LastPage - 1)
        /\ \A q \in Owners \ {o} : Frames(held[o]) \intersect Frames(held[q]) = {}

\* Memory is reclaimed exactly: an entry is marked used when, and only when,
\* its frame belongs to the coremap or to a live allocation, so what
\* coremap_dealloc (lines 157-162) frees is what coremap_alloc took.
UsedIffHeld ==
    \A i \in Index :
        coremap[i].used = 1 <=>
            \/ i < num_of_coremap_pages
            \/ \E o \in Owners : held[o] # NoBlock /\ firstaddr + i \in Frames(held[o])
=============================================================================
