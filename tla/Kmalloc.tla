------------------------------- MODULE Kmalloc -------------------------------
(***************************************************************************)
(* The kernel heap, kern/vm/kmalloc.c: pages cut into blocks of one size,   *)
(* each described by a pageref from a fixed pool, and whole pages for large *)
(* requests.  kmalloc_spinlock covers every access to the lists, so what is *)
(* done under it is one step; it is not held around alloc_kpages and        *)
(* free_kpages (Coremap), which are steps of their own.                     *)
(***************************************************************************)
EXTENDS Integers, Sequences, FiniteSets

CONSTANTS
    KThread,        \* threads that call kmalloc and kfree
    KPage,          \* the pages alloc_kpages can hand out: 1 .. n
    PAGE_SIZE,
    sizes,          \* block sizes, increasing
    NPAGEREFS,      \* pagerefs in the pool
    Requests,       \* sizes that are asked for
    MaxLive         \* blocks in use at a time (bound)

LARGEST_SUBPAGE_SIZE == sizes[Len(sizes)]
BlkType == DOMAIN sizes
PageRef == 1 .. NPAGEREFS

\* Blocks are not empty and smaller than a page, the last size is the largest.
ASSUME KmAssumption ==
    /\ PAGE_SIZE \in Nat \ {0} /\ NPAGEREFS \in Nat
    /\ KPage \subseteq Nat \ {0} /\ Requests \subseteq Nat
    /\ sizes \in Seq(Nat \ {0}) /\ sizes # <<>>
    /\ \A b \in BlkType : sizes[b] < PAGE_SIZE /\ sizes[b] <= LARGEST_SUBPAGE_SIZE

VARIABLES
    pageref,        \* pageref -> [page, blktype, free]: free is the free list
    inuse,          \* pagerefs_inuse
    sizebases,      \* block type -> list of pagerefs
    allbase,        \* list of all pagerefs
    kpages,         \* free pages
    kcount,         \* page -> pages of the allocation that starts there, 0: none
    kpc,            \* thread -> where it is, with the page it carries
    live            \* history: [page, offset, size] of the blocks in use

kmVars == <<pageref, inuse, sizebases, allbase, kpages, kcount, kpc, live>>

NoRef == [page |-> 0, blktype |-> 1, free |-> <<>>]
AtHome == [at |-> "idle", page |-> 0, blktype |-> 1]

KmInit ==
    /\ pageref = [r \in PageRef |-> NoRef]
    /\ inuse = {}
    /\ sizebases = [b \in BlkType |-> <<>>]
    /\ allbase = <<>>
    /\ kpages = KPage
    /\ kcount = [p \in KPage |-> 0]
    /\ kpc = [t \in KThread |-> AtHome]
    /\ live = {}

Lowest(S) == CHOOSE x \in S : \A y \in S : x <= y
RangeOf(s) == {s[i] : i \in DOMAIN s}
Blocks(b) == PAGE_SIZE \div sizes[b]

\* blocktype: the smallest block that is large enough.
blocktype(sz) == Lowest({b \in BlkType : sz <= sizes[b]})

\* alloc_kpages: the lowest run of n free pages, starting at p.
TakenPages(p, n) ==
    /\ kpages' = kpages \ (p .. (p + n - 1))
    /\ kcount' = [kcount EXCEPT ![p] = n]

Run(n) == {p \in KPage : p .. (p + n - 1) \subseteq kpages}

alloc_kpages(n, p) == Run(n) # {} /\ p = Lowest(Run(n)) /\ TakenPages(p, n)

free_kpages(p) ==
    /\ kpages' = kpages \union p .. (p + kcount[p] - 1)
    /\ kcount' = [kcount EXCEPT ![p] = 0]

-----------------------------------------------------------------------------
(* subpage_kmalloc *)

\* Where the list of a size has a page with a free block; the first is used.
WithSpace(b) == {i \in DOMAIN sizebases[b] : pageref[sizebases[b][i]].free # <<>>}

\* doalloc: the head of the free list of pageref r is handed out.
Taken(refs, r) == [refs EXCEPT ![r].free = Tail(@)]
Block(ref, sz) == [page |-> ref.page, offset |-> Head(ref.free), size |-> sz]

\* A block of an existing page.
KmallocHit(t, sz) ==
    LET b == blocktype(sz)
        r == sizebases[b][Lowest(WithSpace(b))]
    IN /\ kpc[t] = AtHome /\ sz < LARGEST_SUBPAGE_SIZE /\ Cardinality(live) < MaxLive
       /\ WithSpace(b) # {}
       /\ pageref' = Taken(pageref, r)
       /\ live' = live \union {Block(pageref[r], sizes[b])}
       /\ UNCHANGED <<inuse, sizebases, allbase, kpages, kcount, kpc>>

\* No page of this size has room: the lock is released.
KmallocMiss(t, sz) ==
    /\ kpc[t] = AtHome /\ sz < LARGEST_SUBPAGE_SIZE /\ Cardinality(live) < MaxLive
    /\ WithSpace(blocktype(sz)) = {}
    /\ kpc' = [kpc EXCEPT ![t] = [at |-> "getpage", page |-> 0, blktype |-> blocktype(sz)]]
    /\ UNCHANGED <<pageref, inuse, sizebases, allbase, kpages, kcount, live>>

\* alloc_kpages(1), or NULL to the caller when there is none.
GetPage(t) ==
    /\ kpc[t].at = "getpage"
    /\ \/ \E p \in KPage : /\ alloc_kpages(1, p)
                           /\ kpc' = [kpc EXCEPT ![t].at = "gotpage", ![t].page = p]
       \/ /\ Run(1) = {}
          /\ kpc' = [kpc EXCEPT ![t] = AtHome]
          /\ UNCHANGED <<kpages, kcount>>
    /\ UNCHANGED <<pageref, inuse, sizebases, allbase, live>>

\* The free list of a fresh page: the last block comes first.
FreshList(b) == [i \in 1 .. Blocks(b) |-> (Blocks(b) - i) * sizes[b]]

\* Under the lock again: a pageref for the page, both lists, and doalloc.
AddPage(t) ==
    LET b == kpc[t].blktype
        r == Lowest(PageRef \ inuse)
        ref == [page |-> kpc[t].page, blktype |-> b, free |-> FreshList(b)]
    IN /\ kpc[t].at = "gotpage"
       /\ inuse # PageRef
       /\ inuse' = inuse \union {r}
       /\ pageref' = Taken([pageref EXCEPT ![r] = ref], r)
       /\ sizebases' = [sizebases EXCEPT ![b] = <<r>> \o @]
       /\ allbase' = <<r>> \o allbase
       /\ live' = live \union {Block(ref, sizes[b])}
       /\ kpc' = [kpc EXCEPT ![t] = AtHome]
       /\ UNCHANGED <<kpages, kcount>>

\* Mutant: the page is not given back.
NoPageRefKeeps(t) ==
    /\ kpc[t].at = "gotpage" /\ inuse = PageRef
    /\ kpc' = [kpc EXCEPT ![t] = AtHome]
    /\ UNCHANGED <<pageref, inuse, sizebases, allbase, kpages, kcount, live>>

\* The pool is used up: unlock, free_kpages, NULL.
NoPageRef(t) ==
    /\ kpc[t].at = "gotpage" /\ inuse = PageRef
    /\ kpc' = [kpc EXCEPT ![t].at = "freepage"]
    /\ UNCHANGED <<pageref, inuse, sizebases, allbase, kpages, kcount, live>>

-----------------------------------------------------------------------------
(* subpage_kfree, and the large requests *)

\* remove_lists, for one list: what follows r takes its place.
Without(r, list) ==
    LET k == Lowest({i \in DOMAIN list : list[i] = r})
    IN IF r \in RangeOf(list)
       THEN [i \in 1 .. (Len(list) - 1) |-> IF i < k THEN list[i] ELSE list[i + 1]]
       ELSE list

\* Where the list of all pages has page p.
On(p) == {i \in DOMAIN allbase : pageref[allbase[i]].page = p}

WholePage(b, free) == Len(free) = Blocks(b)

\* A block of a page in the lists: onto the free list of its page, and when
\* that is full again the page leaves the lists.
KfreeBlock(t, blk) ==
    LET r == allbase[Lowest(On(blk.page))]
        b == pageref[r].blktype
        free == <<blk.offset>> \o pageref[r].free
    IN /\ kpc[t] = AtHome /\ On(blk.page) # {}
       /\ live' = live \ {blk}
       /\ IF WholePage(b, free)
          THEN /\ sizebases' = [sizebases EXCEPT ![b] = Without(r, @)]
               /\ allbase' = Without(r, allbase)
               /\ inuse' = inuse \ {r}
               /\ pageref' = [pageref EXCEPT ![r] = NoRef]
               /\ kpc' = [kpc EXCEPT ![t] = [at |-> "freepage", page |-> blk.page, blktype |-> b]]
          ELSE /\ pageref' = [pageref EXCEPT ![r].free = free]
               /\ UNCHANGED <<sizebases, allbase, inuse, kpc>>
       /\ UNCHANGED <<kpages, kcount>>

\* free_kpages of a page that no list has any more.
FreePage(t) ==
    /\ kpc[t].at = "freepage"
    /\ free_kpages(kpc[t].page)
    /\ kpc' = [kpc EXCEPT ![t] = AtHome]
    /\ UNCHANGED <<pageref, inuse, sizebases, allbase, live>>

KmallocPages(t, sz) ==
    LET n == (sz + PAGE_SIZE - 1) \div PAGE_SIZE
    IN /\ kpc[t] = AtHome /\ sz >= LARGEST_SUBPAGE_SIZE /\ Cardinality(live) < MaxLive
       /\ \E p \in KPage : /\ alloc_kpages(n, p)
                           /\ live' = live \union {[page |-> p, offset |-> 0, size |-> n * PAGE_SIZE]}
       /\ UNCHANGED <<pageref, inuse, sizebases, allbase, kpc>>

\* subpage_kfree finds no page of its own: a large block.
KfreePages(t, blk) ==
    /\ kpc[t] = AtHome /\ On(blk.page) = {}
    /\ free_kpages(blk.page)
    /\ live' = live \ {blk}
    /\ UNCHANGED <<pageref, inuse, sizebases, allbase, kpc>>

KmNext ==
    \E t \in KThread :
        \/ \E sz \in Requests : KmallocHit(t, sz) \/ KmallocMiss(t, sz) \/ KmallocPages(t, sz)
        \/ GetPage(t) \/ AddPage(t) \/ NoPageRef(t) \/ FreePage(t)
        \/ \E blk \in live : KfreeBlock(t, blk) \/ KfreePages(t, blk)

KmSpec == KmInit /\ [][KmNext]_kmVars

-----------------------------------------------------------------------------
\* The bytes of a block, as addresses.
Bytes(blk) == (blk.page * PAGE_SIZE + blk.offset) .. (blk.page * PAGE_SIZE + blk.offset + blk.size - 1)

\* No byte belongs to two callers of kmalloc, nor to a caller and to the page
\* allocator (subpage_kmalloc, lines 424-450, subpage_kfree, lines 566-584),
\* although pages move between the two without the lock.
BlocksDisjoint ==
    \A blk \in live :
        /\ \A other \in live \ {blk} : Bytes(blk) \intersect Bytes(other) = {}
        /\ \A a \in Bytes(blk) : a \div PAGE_SIZE \in KPage \ kpages

\* What the checks assert that a kernel built with SLOWER runs at every call: a
\* free list stays in its page, on block boundaries, and the two kinds of list
\* have as many pagerefs, never more than the pool.
checksubpage(r) ==
    \A o \in RangeOf(pageref[r].free) : o \in 0 .. (PAGE_SIZE - 1) /\ o % sizes[pageref[r].blktype] = 0
checksubpages ==
    /\ \A r \in RangeOf(allbase) \union UNION {RangeOf(sizebases[b]) : b \in BlkType} : checksubpage(r)
    /\ Len(allbase) <= NPAGEREFS
    /\ Len(allbase) = Cardinality(UNION {{<<b, i>> : i \in DOMAIN sizebases[b]} : b \in BlkType})

\* The lists agree with each other and with the pool, as checksubpages, line
\* 252, asserts, and beyond: a pageref is in use when it is on the list of all pages,
\* once, and on the list of its size, once; the blocks of its page are on its
\* free list or in use, never both, and a page without blocks in use is gone.
ListsExact ==
    /\ checksubpages
    /\ RangeOf(allbase) = inuse /\ Cardinality(inuse) = Len(allbase)
    /\ \A b \in BlkType :
         /\ RangeOf(sizebases[b]) = {r \in inuse : pageref[r].blktype = b}
         /\ Cardinality(RangeOf(sizebases[b])) = Len(sizebases[b])
    /\ \A r \in inuse :
         LET used == {blk.offset : blk \in {x \in live : x.page = pageref[r].page}}
             free == RangeOf(pageref[r].free)
         IN /\ Cardinality(free) = Len(pageref[r].free)
            /\ used # {} /\ used \intersect free = {}
            /\ Cardinality(used) + Cardinality(free) = Blocks(pageref[r].blktype)

\* No page is lost, whatever fails half way (lines 462-478 and 577-584): every
\* page is free, under a pageref, part of a large block, or carried by exactly
\* one thread between the two allocators.
NoPageLost ==
    \A p \in KPage :
        Cardinality({<<"free", q>> : q \in {p} \intersect kpages}
            \union {<<"ref", r>> : r \in {x \in inuse : pageref[x].page = p}}
            \union {<<"big", blk>> : blk \in {x \in live : x.size >= PAGE_SIZE
                                                /\ p * PAGE_SIZE \in Bytes(x)}}
            \union {<<"thread", t>> : t \in {x \in KThread : kpc[x].page = p}}) = 1

\* The kernel heap (kmalloc.c) is sound between any two critical sections of
\* its spinlock, although pages change hands outside it: no byte has two
\* users, the lists agree, and no page is lost.
KernelHeapSound == BlocksDisjoint /\ ListsExact /\ NoPageLost
=============================================================================
