------------------------------ MODULE UserMalloc ------------------------------
(***************************************************************************)
(* malloc and free of the C library, user/lib/libc/stdlib/malloc.c: a heap  *)
(* of blocks with a header each, first fit, split on allocation, merged     *)
(* with both neighbours on free.                                           *)
(*                                                                         *)
(* Addresses count MBLOCKSIZE units from __heapbase.  The program runs in   *)
(* one thread, so each call is one step.                                   *)
(***************************************************************************)
EXTENDS Integers, FiniteSets

CONSTANTS
    MBLOCKSIZE,     \* bytes of a header, and unit of allocation
    HeapMax,        \* units sbrk can give
    Sizes,          \* requests, in bytes
    MaxBlocks       \* blocks in use at a time (bound)

ASSUME UmAssumption == MBLOCKSIZE \in Nat \ {0} /\ HeapMax \in Nat /\ Sizes \subseteq Nat

VARIABLES
    hdr,        \* unit -> the header that is stored there, or Blank
    heaptop,    \* __heaptop
    userBlocks  \* history: data address -> bytes asked for

umVars == <<hdr, heaptop, userBlocks>>

Unit == 0 .. (HeapMax - 1)
Blank == [prev |-> 0, next |-> 0, inuse |-> FALSE]

UmInit ==
    /\ hdr = [a \in Unit |-> Blank]
    /\ heaptop = 0
    /\ userBlocks = [x \in {} |-> 0]

\* M_SIZE, in units.
M_SIZE(h, a) == h[a].next - 1

\* The size of a request in units.
Rounded(size) == (size + MBLOCKSIZE - 1) \div MBLOCKSIZE

\* Mutant: the header above the new block keeps its old mh_prevblock.
SplitNoBackLink(h, a, size) ==
    LET next == a + size + 1
        above == a + h[a].next
    IN IF M_SIZE(h, a) - size < 2 THEN h
       ELSE [h EXCEPT ![next] = [prev |-> size + 1, next |-> above - next, inuse |-> FALSE],
                      ![a].next = size + 1]

\* __malloc_split: the rest of the block becomes a free block, if there is
\* room for a header and one unit of data.
Split(h, a, size) ==
    LET next == a + size + 1
        above == a + h[a].next
        cut == [h EXCEPT ![next] = [prev |-> size + 1, next |-> above - next, inuse |-> FALSE],
                         ![a].next = size + 1]
    IN IF M_SIZE(h, a) - size < 2 THEN h
       ELSE IF above = heaptop THEN cut
       ELSE [cut EXCEPT ![above].prev = above - next]

\* The headers that the loop of malloc visits, from address a upwards.
WalkFrom[a \in 0 .. HeapMax] ==
    IF a >= heaptop \/ hdr[a].next = 0 THEN {a}
    ELSE {a} \union (IF a + hdr[a].next <= HeapMax THEN WalkFrom[a + hdr[a].next] ELSE {})
Walk == WalkFrom[0] \ {heaptop}

\* What the loop checks of each header: the magic bits and the back link.
Consistent ==
    \A a \in Walk :
        /\ hdr[a].next > 0
        /\ a + hdr[a].next <= heaptop
        /\ IF a = 0 THEN hdr[a].prev = 0
                    ELSE hdr[a - hdr[a].prev].next = hdr[a].prev /\ hdr[a].prev > 0

Fits(size) == {a \in Walk : ~hdr[a].inuse /\ M_SIZE(hdr, a) >= size}
Bottom(S) == CHOOSE a \in S : \A b \in S : a <= b

\* The last header before __heaptop, as rightprevblock.
LastSize ==
    LET below == {a \in Walk : a + hdr[a].next = heaptop}
    IN IF below = {} THEN 0 ELSE hdr[Bottom(below)].next

Given(a, bytes) == userBlocks' = [x \in DOMAIN userBlocks \union {a + 1} |->
                                    IF x = a + 1 THEN bytes ELSE userBlocks[x]]

\* malloc from a free block.
MallocFit(bytes) ==
    LET size == Rounded(bytes)
        a == Bottom(Fits(size))
    IN /\ Consistent /\ Fits(size) # {}
       /\ hdr' = [Split(hdr, a, size) EXCEPT ![a].inuse = TRUE]
       /\ Given(a, bytes)
       /\ UNCHANGED heaptop

\* malloc from new memory.
MallocSbrk(bytes) ==
    LET size == Rounded(bytes)
    IN /\ Consistent /\ Fits(size) = {}
       /\ heaptop + size + 1 <= HeapMax
       /\ hdr' = [hdr EXCEPT ![heaptop] = [prev |-> LastSize, next |-> size + 1, inuse |-> TRUE]]
       /\ heaptop' = heaptop + size + 1
       /\ Given(heaptop, bytes)

\* sbrk fails: the result is NULL.
MallocNull(bytes) ==
    LET size == Rounded(bytes)
    IN Consistent /\ Fits(size) = {} /\ heaptop + size + 1 > HeapMax /\ UNCHANGED umVars

\* __malloc_trymerge of the block at a with the one above it.
Merge(h, a) ==
    LET b == a + h[a].next
        above == b + h[b].next
        joined == [h EXCEPT ![a].next = h[a].next + h[b].next, ![b] = Blank]
    IN IF h[a].inuse \/ h[b].inuse THEN h
       ELSE IF above = heaptop THEN joined
       ELSE [joined EXCEPT ![above].prev = joined[a].next]

\* The end of free: merge above, then below.
Merged(h, a) ==
    LET up == IF a + h[a].next = heaptop THEN h ELSE Merge(h, a)
    IN IF a = 0 THEN up ELSE Merge(up, a - up[a].prev)

\* free.  Its checks end the program (errx) if they fail, as the first one does
\* for a block of no bytes at the top of the heap: its data address is __heaptop.
Free(x) ==
    /\ x < heaptop /\ hdr[x - 1].inuse
    /\ hdr' = Merged([hdr EXCEPT ![x - 1].inuse = FALSE], x - 1)
    /\ userBlocks' = [y \in DOMAIN userBlocks \ {x} |-> userBlocks[y]]
    /\ UNCHANGED heaptop

UmNext ==
    \/ /\ Cardinality(DOMAIN userBlocks) < MaxBlocks
       /\ \E bytes \in Sizes : MallocFit(bytes) \/ MallocSbrk(bytes) \/ MallocNull(bytes)
    \/ \E x \in DOMAIN userBlocks : Free(x)

UmSpec == UmInit /\ [][UmNext]_umVars

-----------------------------------------------------------------------------
\* malloc's own checks never fail and the headers tile the heap: the walk ends
\* at __heaptop, every back link is right, there is no stray header, and no two
\* free blocks are neighbours, so free space is never out of reach of a request
\* that would fit (__malloc_split, lines 290-327; __malloc_trymerge, 450-476).
HeapTiled ==
    /\ Consistent
    /\ Walk = {a \in Unit : hdr[a] # Blank}
    /\ \A a \in Walk : a + hdr[a].next # heaptop /\ ~hdr[a].inuse => hdr[a + hdr[a].next].inuse

\* Every block in use is at least as large as the caller asked for, and holds
\* no header and no byte of another block, however the heap was split and
\* merged before.
UserBlocksSound ==
    \A x \in DOMAIN userBlocks :
        /\ hdr[x - 1].inuse
        /\ M_SIZE(hdr, x - 1) * MBLOCKSIZE >= userBlocks[x]
        /\ \A a \in x .. (x + M_SIZE(hdr, x - 1) - 1) : a \in Unit /\ hdr[a] = Blank

\* The C library's heap (malloc.c) is sound after any sequence of calls and of
\* failing sbrks: its headers tile it and its blocks are their users' own.
UserHeapSound == HeapTiled /\ UserBlocksSound
=============================================================================
