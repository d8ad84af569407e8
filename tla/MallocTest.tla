------------------------------ MODULE MallocTest ------------------------------
(***************************************************************************)
(* malloctest (user/testbin/malloctest), run on the heap of UserMalloc: the   *)
(* tests of one session, in any order and as often as the user likes.        *)
(*                                                                         *)
(* A test is a sequence of steps, each up to its next call of malloc or free.  *)
(* What markblock writes into a unit is the bias; a header or free's 0xdeadbeef *)
(* written over it is a mismatch.                                           *)
(***************************************************************************)
EXTENDS UserMalloc, Sequences

CONSTANTS
    SMALLSIZE, MEDIUMSIZE, BIGSIZE, HUGESIZE, OVERHEAD, ABSURD_OVERHEAD,
    Slots,          \* ptrs[32]
    StressSizes,    \* sizes[8]
    MaxStress,      \* iterations of the stress test (100000)
    MaxTests        \* tests in a session (bound)

VARIABLES
    test,           \* the test that runs, 0 at the prompt
    at,             \* its next step
    ptr,            \* the variables x, y and z: address, or NULL
    ptrs,           \* test 5: slot -> address and size (ptrs, psizes)
    list,           \* test 3: the blocks, last one first
    want,           \* size of the block of test 2, iterations left in test 5
    bad,            \* the local variable failed
    mem,            \* unit -> the last bias, or Deadbeef
    verdict,        \* what the last test printed
    excused,        \* history: has malloc refused a test a block, or test 4 met a used heap
                    \* whose blocks are not where it expects them?
    tests           \* tests so far

mtestVars == <<test, at, ptr, ptrs, list, want, bad, mem, verdict, excused, tests>>
mtVars == <<umVars, mtestVars>>

NULL == 0
Deadbeef == -1
Var == {"x", "y", "z"}
EmptySlot == [p |-> NULL, size |-> 0]

MtInit ==
    /\ UmInit
    /\ test = 0 /\ at = "prompt" /\ ptr = [v \in Var |-> NULL]
    /\ ptrs = [n \in Slots |-> EmptySlot] /\ list = <<>> /\ want = 0 /\ bad = FALSE
    /\ mem = [u \in Unit |-> Deadbeef]
    /\ verdict = "none" /\ excused = FALSE /\ tests = 0

-----------------------------------------------------------------------------
\* malloc and its result; free with its wiping of the block.
Result(bytes) ==
    LET size == Rounded(bytes)
    IN IF Fits(size) # {} THEN Bottom(Fits(size)) + 1
       ELSE IF heaptop + size + 1 <= HeapMax THEN heaptop + 1 ELSE NULL

malloc(bytes) == MallocFit(bytes) \/ MallocSbrk(bytes) \/ MallocNull(bytes)

BlockUnits(x, bytes) == x .. (x + Rounded(bytes) - 1)

free(x) ==
    /\ Free(x)
    /\ mem' = [u \in Unit |-> IF u \in x .. (x + M_SIZE(hdr, x - 1) - 1) THEN Deadbeef ELSE mem[u]]

markblock(x, bytes, bias) == mem' = [u \in Unit |-> IF u \in BlockUnits(x, bytes) THEN bias ELSE mem[u]]
checkblock(x, bytes, bias) == \A u \in BlockUnits(x, bytes) : mem[u] = bias /\ hdr[u] = Blank

Goes(step) == at' = step /\ UNCHANGED <<test, verdict>>
Returns(v) == verdict' = v /\ test' = 0 /\ at' = "prompt"
Passes == Returns("passed")
Fails == Returns("failed")

\* A step that calls malloc: it fails the test, or goes on with the block.
Needs(bytes, v, step) ==
    /\ malloc(bytes)
    /\ ptr' = [ptr EXCEPT ![v] = Result(bytes)]
    /\ excused' = (excused \/ Result(bytes) = NULL)
    /\ IF Result(bytes) = NULL THEN Fails ELSE Goes(step)

\* dotest: the variables of the test are new ones.
dotest(t) ==
    /\ test = 0 /\ tests < MaxTests
    /\ test' = t /\ at' = "start" /\ tests' = tests + 1
    /\ ptr' = [v \in Var |-> NULL] /\ ptrs' = [n \in Slots |-> EmptySlot]
    /\ list' = <<>> /\ bad' = FALSE
    /\ want' = CASE t = 2 -> HUGESIZE [] t = 5 -> MaxStress [] OTHER -> 0
    /\ UNCHANGED <<umVars, mem, verdict, excused>>

-----------------------------------------------------------------------------
test1 ==
    /\ test = 1
    /\ \/ /\ at = "start" /\ Needs(BIGSIZE, "x", "mark") /\ UNCHANGED mem
       \/ /\ at = "mark" /\ markblock(ptr["x"], BIGSIZE, 0) /\ Goes("check")
          /\ UNCHANGED <<umVars, ptr, excused>>
       \/ /\ at = "check" /\ UNCHANGED <<ptr, excused>>
          /\ IF checkblock(ptr["x"], BIGSIZE, 0) THEN free(ptr["x"]) /\ Passes
                                                ELSE Fails /\ UNCHANGED <<umVars, mem>>
    /\ UNCHANGED <<ptrs, list, want, bad>>

\* The largest power of two that malloc gives, twice.
test2 ==
    /\ test = 2
    /\ \/ /\ at = "start" /\ malloc(want)
          /\ ptr' = [ptr EXCEPT !["x"] = Result(want)]
          /\ IF Result(want) = NULL THEN Goes("start") /\ want' = want \div 2
                                    ELSE Goes("mark") /\ UNCHANGED want
          /\ UNCHANGED <<mem, excused>>
       \/ /\ at = "mark" /\ markblock(ptr["x"], want, 0) /\ Goes("check")
          /\ UNCHANGED <<umVars, ptr, want, excused>>
       \/ /\ at = "check" /\ UNCHANGED <<ptr, want, excused>>
          /\ IF checkblock(ptr["x"], want, 0) THEN free(ptr["x"]) /\ Goes("again")
                                             ELSE Fails /\ UNCHANGED <<umVars, mem>>
       \/ /\ at = "again" /\ malloc(want)
          /\ ptr' = [ptr EXCEPT !["x"] = Result(want)]
          /\ IF Result(want) = NULL THEN Fails ELSE Goes("last")
          /\ UNCHANGED <<mem, want, excused>>
       \/ /\ at = "last" /\ free(ptr["x"]) /\ Passes /\ UNCHANGED <<ptr, want, excused>>
    /\ UNCHANGED <<ptrs, list, bad>>

\* All memory in small blocks; then no request may succeed until they are freed.
test3 ==
    /\ test = 3
    /\ \/ /\ at = "start" /\ malloc(SMALLSIZE)
          /\ LET p == Result(SMALLSIZE)
             IN IF p = NULL THEN Goes("small") /\ UNCHANGED <<list, mem>>
                ELSE Goes("start") /\ list' = <<p>> \o list /\ markblock(p, SMALLSIZE, p)
          /\ UNCHANGED bad
       \/ \E e \in {<<"small", SMALLSIZE, "medium">>, <<"medium", MEDIUMSIZE, "big">>,
                    <<"big", BIGSIZE, "freeing">>} :
             /\ at = e[1] /\ malloc(e[2])
             /\ IF Result(e[2]) # NULL THEN Fails ELSE Goes(e[3])
             /\ UNCHANGED <<list, mem, bad>>
       \/ /\ at = "freeing" /\ list # <<>>
          /\ bad' = (bad \/ ~checkblock(Head(list), SMALLSIZE, Head(list)))
          /\ free(Head(list)) /\ list' = Tail(list) /\ Goes("freeing")
       \/ /\ at = "freeing" /\ list = <<>>
          /\ IF bad THEN Fails ELSE Goes("more")
          /\ UNCHANGED <<umVars, list, mem, bad>>
    /\ UNCHANGED <<ptr, ptrs, excused, want>>

\* The end of test 3: one block more.
test3_more ==
    /\ test = 3
    /\ \/ /\ at = "more" /\ Needs(MEDIUMSIZE, "x", "last") /\ UNCHANGED mem
       \/ /\ at = "last" /\ free(ptr["x"]) /\ Passes /\ UNCHANGED <<ptr, excused>>
    /\ UNCHANGED <<ptrs, list, want, bad>>

\* What test 4 finds of two new blocks, in bytes.
overhead == MBLOCKSIZE * ptr["y"] - (MBLOCKSIZE * ptr["x"] + SMALLSIZE)
Overlap ==
    \/ ptr["x"] = ptr["y"]
    \/ ptr["x"] < ptr["y"] /\ overhead < 0
    \/ ptr["y"] < ptr["x"] /\ MBLOCKSIZE * ptr["y"] + MEDIUMSIZE > MBLOCKSIZE * ptr["x"]

test4 ==
    /\ test = 4
    /\ \/ /\ at = "start" /\ Needs(SMALLSIZE, "x", "y") /\ UNCHANGED mem
       \/ /\ at = "y" /\ Needs(MEDIUMSIZE, "y", "compare") /\ UNCHANGED mem
       \/ /\ at = "compare"
          /\ IF Overlap THEN Fails
             ELSE IF ptr["y"] < ptr["x"] \/ overhead > ABSURD_OVERHEAD THEN Returns("unsuitable")
             ELSE IF overhead > OVERHEAD THEN Fails ELSE Goes("freex")
          /\ excused' = (excused \/ (tests > 1 /\ ~Overlap /\ test' = 0))
          /\ UNCHANGED <<umVars, mem, ptr>>
       \/ /\ at = "freex" /\ free(ptr["x"]) /\ Goes("freey") /\ UNCHANGED <<ptr, excused>>
       \/ /\ at = "freey" /\ free(ptr["y"]) /\ Goes("z") /\ UNCHANGED <<ptr, excused>>
       \/ /\ at = "z" /\ Needs(SMALLSIZE + MEDIUMSIZE + overhead, "z", "last") /\ UNCHANGED mem
       \/ /\ at = "last" /\ free(ptr["z"]) /\ UNCHANGED <<ptr, excused>>
          /\ IF ptr["z"] = ptr["x"] THEN Passes ELSE Fails
    /\ UNCHANGED <<ptrs, list, want, bad>>

\* Tests 5, 6 and 7 differ in their seeds: random gives any slot and any size.
\* want counts the iterations that are left.
test567 ==
    /\ test = 5 /\ at = "start" /\ want > 0 /\ want' = want - 1
    /\ \E n \in Slots :
         \/ /\ ptrs[n].p = NULL
            /\ \E size \in StressSizes :
                 LET p == Result(size)
                 IN /\ malloc(size) /\ ptrs' = [ptrs EXCEPT ![n] = [p |-> p, size |-> size]]
                    /\ bad' = (p = NULL) /\ excused' = (excused \/ p = NULL)
                    /\ IF p = NULL THEN Goes("ends") /\ UNCHANGED mem
                                   ELSE Goes("start") /\ markblock(p, size, n)
         \/ /\ ptrs[n].p # NULL /\ UNCHANGED excused
            /\ IF checkblock(ptrs[n].p, ptrs[n].size, n)
               THEN /\ free(ptrs[n].p) /\ ptrs' = [ptrs EXCEPT ![n] = EmptySlot]
                    /\ Goes("start") /\ UNCHANGED bad
               ELSE bad' = TRUE /\ Goes("ends") /\ UNCHANGED <<umVars, mem, ptrs>>
    /\ UNCHANGED <<ptr, list>>

\* The loop is over: what is left is freed in order.
test567_ends ==
    /\ test = 5 /\ (at = "ends" \/ (at = "start" /\ want = 0))
    /\ \/ \E n \in Slots :
            /\ ptrs[n].p # NULL /\ \A m \in Slots : m < n => ptrs[m].p = NULL
            /\ free(ptrs[n].p) /\ ptrs' = [ptrs EXCEPT ![n] = EmptySlot] /\ Goes("ends")
       \/ /\ \A n \in Slots : ptrs[n].p = NULL
          /\ IF bad THEN Fails ELSE Passes
          /\ UNCHANGED <<umVars, mem, ptrs>>
    /\ UNCHANGED <<ptr, list, want, bad, excused>>

MtNext ==
    \/ \E t \in 1 .. 5 : dotest(t)
    \/ (test1 \/ test2 \/ test3 \/ test3_more \/ test4 \/ test567 \/ test567_ends) /\ UNCHANGED tests

MtSpec == MtInit /\ [][MtNext]_mtVars

-----------------------------------------------------------------------------
(* Properties *)

\* Every test passes, in whatever order a session runs them (malloctest.c:161-573
\* on malloc.c), unless malloc refused a block; only the test of coalescing may
\* give up on a heap that others have used, as it says itself, and even then its
\* blocks do not overlap.
TestsPass == verdict = "failed" => excused

\* A session whose tests all ran to their ends leaks nothing: back at the prompt no block
\* is in use, and all that sbrk ever gave is one free block again.
NothingLeaks ==
    tests > 0 /\ test = 0 /\ ~excused =>
        /\ userBlocks = [x \in {} |-> 0]
        /\ heaptop > 0 => Walk = {0} /\ hdr[0].next = heaptop /\ ~hdr[0].inuse

\* malloctest passes on this heap, and the heap stays sound under it.
UserHeapTested == UserHeapSound /\ TestsPass /\ NothingLeaks
=============================================================================
