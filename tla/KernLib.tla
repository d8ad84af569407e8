------------------------------- MODULE KernLib -------------------------------
(***************************************************************************)
(* The kernel's library: the data structures of kern/lib/array.c, queue.c,    *)
(* bitmap.c and kern/thread/threadlist.c, the moving of data by uio.c, the     *)
(* line editor kgets.c, and the arithmetic of copyinout.c, bswap.c,           *)
(* as_define_region and the arguments of a new program.                      *)
(*                                                                         *)
(* `lib` says which one runs.  A data structure's representation is `obj`,     *)
(* what it stands for is `mdl` (a sequence or a set, changed by the meaning    *)
(* of the operation), and `answers` whether every answer was the one the       *)
(* meaning asks for.  An argument of the arithmetic is chosen at the start.   *)
(***************************************************************************)
EXTENDS Integers, Sequences, FiniteSets, SequencesExt

CONSTANTS
    Value,          \* what arrays and queues hold
    Thread3,        \* threads that may be on a thread list
    ArrayFirst,     \* the size of an array's first block (4 in the code)
    BITS_PER_WORD,
    LINE,           \* kgets's maxlen
    WORD,           \* addresses and lengths are 0..WORD - 1 (2^32 in the code)
    USERSPACETOP,   \* where user addresses end; also USERSTACK
    PAGE,           \* PAGE_SIZE
    MaxLib          \* bound: operations in a run

ASSUME LibAssumption ==
    /\ ArrayFirst \in Nat \ {0} /\ BITS_PER_WORD \in Nat \ {0} /\ LINE \in Nat \ {0}
    /\ USERSPACETOP \in 1..(WORD - 1) /\ PAGE \in Nat \ {0} /\ WORD % PAGE = 0

VARIABLES lib, obj, mdl, answers, lops

libVars == <<lib, obj, mdl, answers, lops>>

Smallest(S) == CHOOSE x \in S : \A y \in S : x <= y

\* An operation of `which`: the new representation, what it then stands for,
\* and whether the answer given is the right one.
Does(which, o, m, ok) ==
    /\ lib = which /\ lops < MaxLib
    /\ obj' = o /\ mdl' = m /\ answers' = (answers /\ ok)
    /\ lops' = lops + 1 /\ UNCHANGED lib

-----------------------------------------------------------------------------
(* array.c *)

array_init == [num |-> 0, max |-> 0, v |-> <<>>]

\* The loop that doubles max until num fits.
newmax(max, num) == Smallest({n \in {(IF max = 0 THEN ArrayFirst ELSE max) * 2^k : k \in 0..4} : n >= num})

\* Without memory the array is as it was.  v is the block, max long.
array_setsize(a, num) ==
    IF num <= a.max THEN [a EXCEPT !.num = num]
    ELSE LET n == newmax(a.max, num)
         IN  [num |-> num, max |-> n, v |-> [i \in 1..n |-> IF i <= a.num THEN a.v[i] ELSE "unset"]]

array_add(x) ==
    \/ LET a == array_setsize(obj, obj.num + 1)
       IN  Does("array", [a EXCEPT !.v[a.num] = x], Append(mdl, x), TRUE)
    \/ obj.num = obj.max /\ Does("array", obj, mdl, TRUE)           \* ENOMEM

\* memmove of the entries behind the one that goes.
array_remove(i) ==
    Does("array", [obj EXCEPT !.num = @ - 1,
                              !.v = [k \in 1..obj.max |-> IF k >= i /\ k < obj.num THEN @[k + 1] ELSE @[k]]],
         RemoveAt(mdl, i), TRUE)

ArrayStep == \/ \E x \in Value : array_add(x)
             \/ \E i \in 1..Len(mdl) : array_remove(i)
             \/ \E n \in 0..Len(mdl) : Does("array", array_setsize(obj, n), SubSeq(mdl, 1, n), TRUE)

ArrayOk == obj.num <= obj.max /\ SubSeq(obj.v, 1, obj.num) = mdl

-----------------------------------------------------------------------------
(* queue.c: a ring with one slot kept empty, copied to a larger one when full *)

q_create(size) == [size |-> size, data |-> [i \in 0..(size - 1) |-> "unset"], nextread |-> 0, nextwrite |-> 0]
q_empty(q) == q.nextread = q.nextwrite
q_len(q) == (q.nextwrite - q.nextread) % q.size
\* What the ring holds: the reference it is compared with.
Queued(q) == [i \in 1..q_len(q) |-> q.data[(q.nextread + i - 1) % q.size]]

Added(q, x) == [q EXCEPT !.data[q.nextwrite] = x, !.nextwrite = (@ + 1) % q.size]

\* The entries are added to the new ring one by one, from nextread round to
\* nextwrite.
q_grow(q, target) ==
    LET n == Smallest({s \in {q.size * 2^k : k \in 0..4} : s >= target})
        Copy(acc, k) == IF acc.i = q.nextwrite THEN acc
                            ELSE [i |-> (acc.i + 1) % q.size, ring |-> Added(acc.ring, q.data[acc.i])]
    IN  FoldLeft(Copy, [i |-> q.nextread, ring |-> q_create(n)], [k \in 1..q.size |-> k]).ring

\* Mutant: the last free slot is used too.
Room_all(q) == q
Room(q) == IF (q.nextwrite + 1) % q.size = q.nextread THEN q_grow(q, q.size + 1) ELSE q

q_addtail(x) ==
    \/ Does("queue", Added(Room(obj), x), Append(mdl, x), TRUE)
    \/ Room(obj) # obj /\ Does("queue", obj, mdl, TRUE)             \* ENOMEM

q_remhead == /\ ~q_empty(obj)
             /\ Does("queue", [obj EXCEPT !.nextread = (@ + 1) % obj.size], Tail(mdl),
                     obj.data[obj.nextread] = Head(mdl))

q_preallocate(n) == n > obj.size /\ n <= MaxLib /\ Does("queue", q_grow(obj, n), mdl, TRUE)

QueueStep == (\E x \in Value : q_addtail(x)) \/ (mdl # <<>> /\ q_remhead) \/ (\E n \in 2..4 : q_preallocate(n))

QueueOk == obj.size > 0 /\ Queued(obj) = mdl

-----------------------------------------------------------------------------
(* bitmap.c: words of bits, a word being the set of offsets that are set *)

Words(n) == (n + BITS_PER_WORD - 1) \div BITS_PER_WORD

\* The bits of the last word that are beyond nbits are in use for ever.
Leftover(n, ix) == {j \in 0..(BITS_PER_WORD - 1) : ix * BITS_PER_WORD + j >= n}

bitmap_create(n) == [nbits |-> n, v |-> [ix \in 0..(Words(n) - 1) |-> Leftover(n, ix)]]

bitmap_isset(b, i) == (i % BITS_PER_WORD) \in b.v[i \div BITS_PER_WORD]
bitmap_mark(b, i) == [b EXCEPT !.v[i \div BITS_PER_WORD] = @ \cup {i % BITS_PER_WORD}]
bitmap_unmark(b, i) == [b EXCEPT !.v[i \div BITS_PER_WORD] = @ \ {i % BITS_PER_WORD}]

bitmap_alloc ==
    LET open == {ix \in DOMAIN obj.v : obj.v[ix] # 0..(BITS_PER_WORD - 1)}
        ix == Smallest(open)
        i == ix * BITS_PER_WORD + Smallest((0..(BITS_PER_WORD - 1)) \ obj.v[ix])
        free == (0..(obj.nbits - 1)) \ mdl
    IN  IF open = {} THEN Does("bitmap", obj, mdl, free = {})       \* ENOSPC
        ELSE Does("bitmap", bitmap_mark(obj, i), mdl \cup {i}, free # {} /\ i = Smallest(free))

BitmapStep == \/ bitmap_alloc
              \/ \E i \in 0..(obj.nbits - 1) :
                   \/ ~bitmap_isset(obj, i) /\ Does("bitmap", bitmap_mark(obj, i), mdl \cup {i}, i \notin mdl)
                   \/ bitmap_isset(obj, i) /\ Does("bitmap", bitmap_unmark(obj, i), mdl \ {i}, i \in mdl)

BitmapOk == \A i \in 0..(obj.nbits - 1) : bitmap_isset(obj, i) <=> i \in mdl

-----------------------------------------------------------------------------
(* threadlist.c: doubly linked between two sentinels *)

tl_head == "head"
tl_tail == "tail"
NoNode == "null"

threadlist_init == [next |-> [t \in Thread3 \cup {tl_head, tl_tail} |-> IF t = tl_head THEN tl_tail ELSE NoNode],
                    prev |-> [t \in Thread3 \cup {tl_head, tl_tail} |-> IF t = tl_tail THEN tl_head ELSE NoNode],
                    count |-> 0]

threadlist_insertafternode(l, on, t) ==
    [next |-> [l.next EXCEPT ![t] = l.next[on], ![on] = t], count |-> l.count + 1,
     prev |-> [l.prev EXCEPT ![t] = on, ![l.next[on]] = t]]

threadlist_insertbeforenode(l, t, on) ==
    [next |-> [l.next EXCEPT ![t] = on, ![l.prev[on]] = t], count |-> l.count + 1,
     prev |-> [l.prev EXCEPT ![t] = l.prev[on], ![on] = t]]

threadlist_removenode(l, t) ==
    [next |-> [l.next EXCEPT ![l.prev[t]] = l.next[t], ![t] = NoNode], count |-> l.count - 1,
     prev |-> [l.prev EXCEPT ![l.next[t]] = l.prev[t], ![t] = NoNode]]

ListStep ==
    LET L == "threadlist"
    IN  \/ \E t \in Thread3 \ Range(mdl) :
             \/ Does(L, threadlist_insertafternode(obj, tl_head, t), <<t>> \o mdl, TRUE)
             \/ Does(L, threadlist_insertbeforenode(obj, t, tl_tail), Append(mdl, t), TRUE)
             \/ \E i \in DOMAIN mdl :
                  \/ Does(L, threadlist_insertafternode(obj, mdl[i], t), InsertAt(mdl, i + 1, t), TRUE)
                  \/ Does(L, threadlist_insertbeforenode(obj, t, mdl[i]), InsertAt(mdl, i, t), TRUE)
        \/ \E i \in DOMAIN mdl : Does(L, threadlist_removenode(obj, mdl[i]), RemoveAt(mdl, i), TRUE)
        \/ LET t == obj.next[tl_head]
           IN  IF obj.next[t] = NoNode THEN Does(L, obj, mdl, mdl = <<>>)
               ELSE Does(L, threadlist_removenode(obj, t), Tail(mdl), mdl # <<>> /\ t = Head(mdl))
        \/ LET t == obj.prev[tl_tail]
           IN  IF obj.prev[t] = NoNode THEN Does(L, obj, mdl, mdl = <<>>)
               ELSE Does(L, threadlist_removenode(obj, t), Front(mdl), mdl # <<>> /\ t = Last(mdl))

ListOk ==
    LET chain == <<tl_head>> \o mdl \o <<tl_tail>>
    IN  /\ \A i \in 1..(Len(chain) - 1) : obj.next[chain[i]] = chain[i + 1] /\ obj.prev[chain[i + 1]] = chain[i]
        /\ \A t \in Thread3 \ Range(mdl) : obj.next[t] = NoNode /\ obj.prev[t] = NoNode
        /\ obj.count = Len(mdl)

-----------------------------------------------------------------------------
(* kgets.c: what is in buf before pos, and what stands on the screen's line *)

kgets_init == [buf |-> [i \in 1..LINE |-> "unset"], pos |-> 0]

\* ^W: blanks, then a word.
WordStart(o) ==
    LET blanks == Smallest({p \in 0..o.pos : \A i \in (p + 1)..o.pos : o.buf[i] = " "})
    IN  Smallest({p \in 0..blanks : \A i \in (p + 1)..blanks : o.buf[i] # " "})

\* backsp moves back over, blanks, and moves back again: one column less.
kgets(ch) ==
    LET back(n) == Does("kgets", [obj EXCEPT !.pos = n], SubSeq(mdl, 1, Len(mdl) - (obj.pos - n)), TRUE)
        none == Does("kgets", obj, mdl, TRUE)
    IN  CASE ch \in {"a", " "} -> IF obj.pos < LINE - 1
                                  THEN Does("kgets", [buf |-> [obj.buf EXCEPT ![obj.pos + 1] = ch], pos |-> obj.pos + 1],
                                            Append(mdl, ch), TRUE)
                                  ELSE none                          \* beep
          [] ch = "backspace" -> IF obj.pos > 0 THEN back(obj.pos - 1) ELSE none
          [] ch = "^R" -> Does("kgets", obj, SubSeq(obj.buf, 1, obj.pos), TRUE)
          [] ch = "^U" -> back(0)
          [] ch = "^W" -> back(WordStart(obj))
          [] ch \in {"newline", "^C"} -> Does("kgets", [obj EXCEPT !.pos = 0], <<>>, TRUE)   \* and the next line

KgetsStep == \E ch \in {"a", " ", "backspace", "^R", "^U", "^W", "newline", "^C"} : kgets(ch)

KgetsOk == obj.pos < LINE /\ SubSeq(obj.buf, 1, obj.pos) = mdl

-----------------------------------------------------------------------------
(* uio.c: obj has the buffers left, the bytes left, and how far the source is; *)
(* mdl is the memory behind the buffers, as the source bytes that arrived.      *)

uio_init(lens) == [iov |-> lens, resid |-> lens[1] + lens[2] + lens[3], n |-> 0, ptr |-> 0, at |-> 0, panicked |-> FALSE]

uiomove(n) == lib = "uio" /\ obj.n = 0 /\ Does("uio", [obj EXCEPT !.n = n], mdl, TRUE)

\* One turn of its loop; a fault in user memory ends the call.
UioTurn ==
    LET size == IF Head(obj.iov) > obj.n THEN obj.n ELSE Head(obj.iov)
    IN  /\ lib = "uio" /\ obj.n > 0 /\ obj.resid > 0 /\ ~obj.panicked
        /\ UNCHANGED <<lib, answers, lops>>
        /\ IF size = 0
           THEN /\ obj' = [obj EXCEPT !.iov = Tail(@), !.panicked = Len(obj.iov) = 1]
                /\ UNCHANGED mdl
           ELSE \/ /\ obj' = [obj EXCEPT !.iov = <<Head(@) - size>> \o Tail(@), !.resid = @ - size,
                                         !.n = @ - size, !.ptr = @ + size, !.at = @ + size]
                   /\ mdl' = mdl \o [i \in 1..size |-> obj.ptr + i]
                \/ obj' = [obj EXCEPT !.n = 0] /\ UNCHANGED mdl

UioEnds == /\ lib = "uio" /\ obj.n > 0 /\ obj.resid = 0
           /\ obj' = [obj EXCEPT !.n = 0] /\ UNCHANGED <<lib, mdl, answers, lops>>

UioStep == (\E n \in 1..3 : uiomove(n)) \/ UioTurn \/ UioEnds

\* Every byte that was accepted is in the buffers, once and in order, and the
\* buffers left are as long as the bytes left.
UioOk == /\ ~obj.panicked /\ mdl = [i \in 1..obj.at |-> i]
         /\ obj.resid = FoldFunction(LAMBDA x, y : x + y, 0, obj.iov)

-----------------------------------------------------------------------------
(* copyinout.c; obj is the argument *)

\* Sums wrap.  The answer is "EFAULT" (-1) or stoplen.
copycheck(bot, len) ==
    LET top == (bot + len - 1) % WORD
    IN  IF top < bot \/ bot >= USERSPACETOP THEN -1
        ELSE IF top >= USERSPACETOP THEN USERSPACETOP - bot ELSE len

\* copyin, copyout: all of it or nothing.
CopyBlock(bot, len) == copycheck(bot, len) = len

\* copystr: nul is the index of the terminator.
copystr(nul, maxlen, stoplen) ==
    IF nul < maxlen /\ nul < stoplen THEN nul + 1 ELSE IF stoplen < maxlen THEN -1 ELSE -2

\* A block is copied when it is not empty and all of it is below the kernel; a
\* string when its terminator comes before the kernel and before maxlen, and the
\* error says which of the two it met.
CopyOk ==
    LET stop == copycheck(obj.bot, obj.len)
        inside == obj.bot + obj.len <= USERSPACETOP
    IN  /\ obj.len > 0 => (CopyBlock(obj.bot, obj.len) <=> inside)
        /\ obj.len > 0 /\ stop >= 0 =>
             LET got == copystr(obj.nul, obj.len, stop)
             IN  /\ got > 0 <=> obj.nul < obj.len /\ obj.bot + obj.nul < USERSPACETOP
                 /\ got > 0 => got = obj.nul + 1
                 /\ got = -1 <=> obj.nul >= stop /\ ~inside

-----------------------------------------------------------------------------
(* as_define_region, and the stack of a new program *)

as_define_region(vaddr, sz) ==
    LET size == (((sz + (vaddr % PAGE) + PAGE - 1) % WORD) \div PAGE) * PAGE
    IN  [vbase |-> vaddr - (vaddr % PAGE), npages |-> size \div PAGE]

\* The pages are the fewest that hold the segment, unless it is empty or its
\* end wraps.
RegionOk ==
    LET r == as_define_region(obj.bot, obj.len)
    IN  obj.len > 0 /\ obj.bot + obj.len + PAGE <= WORD =>
          \A a \in 0..(WORD - 1) :
            (a >= r.vbase /\ a < r.vbase + r.npages * PAGE) <=>
              \E b \in obj.bot..(obj.bot + obj.len - 1) : b \div PAGE = a \div PAGE

ROUNDUP(n, m) == ((n + m - 1) \div m) * m

\* sys_execv and runprogram: strings from the top of the stack down (the last
\* one first in sys_execv), then the pointers; lens are the strings' lengths.
Arguments(lens, top) ==
    LET ptr[i \in 1..(Len(lens) + 1)] == IF i = Len(lens) + 1 THEN top ELSE ptr[i + 1] - ROUNDUP(lens[i] + 1, 4)
        argv == ptr[1] - 4 * (Len(lens) + 1)
    IN  [ptr |-> ptr, argv |-> argv, sp |-> argv - (argv % 8)]

\* The strings, the pointers and the stack below them do not overlap, pointers
\* are aligned to 4 and the stack to 8.
ArgumentsOk ==
    LET top == 64
        a == Arguments(obj.lens, top)
        n == Len(obj.lens)
    IN  /\ \A i \in 1..n : a.ptr[i] + obj.lens[i] + 1 <= a.ptr[i + 1]
        /\ a.argv + 4 * (n + 1) <= a.ptr[1] /\ a.argv % 4 = 0
        /\ a.sp % 8 = 0 /\ a.sp <= a.argv /\ a.argv - a.sp < 8

-----------------------------------------------------------------------------
(* bswap.c on bytes of one bit: byte k of a value is its digit k in base 2 *)

byte(val, k) == (val \div 2^k) % 2

bswap16(val) == byte(val, 0) * 2 + byte(val, 1)
bswap32(val) == byte(val, 0) * 8 + byte(val, 1) * 4 + byte(val, 2) * 2 + byte(val, 3)

\* Eight shifts; bits shifted out on the left are lost, equal places are ORed.
bswap64(val) ==
    LET at(p) == {k \in 0..7 : byte(val, k) = 1 /\ p = <<7, 6, 5, 4, 5, 8, 1, 0>>[k + 1]}
    IN  FoldFunction(LAMBDA x, y : x + y, 0, [p \in 0..7 |-> IF at(p) = {} THEN 0 ELSE 2^p])

Reversed(val, n) == FoldFunction(LAMBDA x, y : x + y, 0, [k \in 0..(n - 1) |-> byte(val, k) * 2^(n - 1 - k)])

\* What the comment says of bswap64: it swaps the byte order of its argument.
SwapOk == obj.val < 4 => bswap16(obj.val) = Reversed(obj.val, 2)
Swap32Ok == obj.val < 16 => bswap32(obj.val) = Reversed(obj.val, 4)

-----------------------------------------------------------------------------
LibInit ==
    /\ answers = TRUE /\ lops = 0
    /\ \/ lib = "array" /\ obj = array_init /\ mdl = <<>>
       \/ lib = "queue" /\ (\E size \in 1..2 : obj = q_create(size)) /\ mdl = <<>>
       \/ lib = "bitmap" /\ (\E n \in 1..(2 * BITS_PER_WORD) : obj = bitmap_create(n)) /\ mdl = {}
       \/ lib = "threadlist" /\ obj = threadlist_init /\ mdl = <<>>
       \/ lib = "kgets" /\ obj = kgets_init /\ mdl = <<>>
       \/ lib = "uio" /\ (\E lens \in [1..3 -> 0..2] : obj = uio_init(lens)) /\ mdl = <<>>
       \/ /\ lib = "copy" /\ mdl = <<>>
          /\ \E bot, len \in 0..(WORD - 1), nul \in 0..USERSPACETOP : obj = [bot |-> bot, len |-> len, nul |-> nul]
       \/ lib = "region" /\ mdl = <<>> /\ \E bot, len \in 0..(WORD - 1) : obj = [bot |-> bot, len |-> len]
       \/ lib = "arguments" /\ mdl = <<>> /\ \E n \in 0..3 : \E lens \in [1..n -> 0..7] : obj = [lens |-> lens]
       \/ lib = "bswap" /\ mdl = <<>> /\ \E val \in 0..255 : obj = [val |-> val]

LibNext ==
    \/ lib = "array" /\ ArrayStep
    \/ lib = "queue" /\ QueueStep
    \/ lib = "bitmap" /\ BitmapStep
    \/ lib = "threadlist" /\ ListStep
    \/ lib = "kgets" /\ KgetsStep
    \/ lib = "uio" /\ UioStep

LibSpec == LibInit /\ [][LibNext]_libVars

-----------------------------------------------------------------------------
(* Properties *)

\* Every structure is what its operations mean, after any sequence of them and
\* of failed allocations, at every size; the edited line is the one that is
\* seen; data moved in pieces arrives whole; address arithmetic is right up to
\* the last address.
LibCorrect ==
    /\ answers
    /\ CASE lib = "array" -> ArrayOk [] lib = "queue" -> QueueOk [] lib = "bitmap" -> BitmapOk
         [] lib = "threadlist" -> ListOk [] lib = "kgets" -> KgetsOk [] lib = "uio" -> UioOk
         [] lib = "copy" -> CopyOk [] lib = "region" -> RegionOk [] lib = "arguments" -> ArgumentsOk
         [] lib = "bswap" -> SwapOk /\ Swap32Ok

\* "bswap16, 32, and 64 unconditionally swap byte order of integers of the
\* respective bitsize" (bswap.c): bswap64 reverses the eight bytes.
Swap64Ok == lib = "bswap" => bswap64(obj.val) = Reversed(obj.val, 8)
=============================================================================
