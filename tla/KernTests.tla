------------------------------ MODULE KernTests ------------------------------
(***************************************************************************)
(* The kernel's own thread tests: synchtest.c (sy1, sy2, sy3), uw-tests.c        *)
(* (uw1, uw2, with kern/vm/uw-vmstats.c), threadtest.c (tt1, tt2) and tt3.c, on   *)
(* top of what semaphores, locks, condition variables and wait channels promise. *)
(*                                                                         *)
(* A test makes its objects when their pointers are NULL, forks its threads,     *)
(* waits on the done semaphore once for each, and destroys the objects.  Does    *)
(* the test itself judge right, whatever the schedule?                          *)
(***************************************************************************)
EXTENDS Integers, Sequences, FiniteSets, SequencesExt

CONSTANTS
    Test,           \* which of "sem", "lock", "cv", "add", "stats", "loud", "sleep"
    NTHREADS,       \* bound: threads of a test
    NTESTTHREADS,   \* bound: threads of a kind in uw-tests.c
    NLOOPS,         \* bound: turns of a thread (a multiple of 4)
    ADDLOOPS,       \* bound: turns of an add_thread or sub_thread
    MaxTests        \* bound: tests run one after the other

VARIABLES
    test, left,             \* the test under way, tests left
    object,                 \* each file's objects: "null", "made" or "destroyed"
    tstate, turn, tmp,      \* each thread: what it does next, its turns left, a register
    main, joined,           \* the menu thread, and how many threads it has heard of
    testsem, donesem, testlock, testcv,
    val,                    \* testval1, testval2, testval3
    test_value, stats,
    chan, wakerdone,        \* tt3: where each thread sleeps (0: nowhere)
    output,                 \* what was printed (history)
    verdict                 \* "ok", or what went wrong

testVars == <<test, left, object, tstate, turn, tmp, main, joined, testsem, donesem, testlock, testcv, val, test_value,
              stats, chan, wakerdone, output, verdict>>
harness == <<test, left, object, main, joined>>
toys == <<testsem, testlock, testcv, val, test_value, stats, chan, wakerdone>>

-----------------------------------------------------------------------------
(* The tests: whose objects they use, how many threads they fork, with which first *)
(* step, and what becomes of the objects                                         *)

semtest == [file |-> "synchtest", threads |-> NTHREADS, first |-> "P", after |-> "destroyed"]
locktest == [file |-> "synchtest", threads |-> NTHREADS, first |-> "acquire", after |-> "destroyed"]
cvtest == [file |-> "synchtest", threads |-> NTHREADS, first |-> "acquire", after |-> "destroyed"]
uwlocktest1 == [file |-> "uw-tests", threads |-> 2 * NTESTTHREADS, first |-> "acquire", after |-> "null"]
uwvmstatstest == [file |-> "uw-tests", threads |-> NTESTTHREADS, first |-> "inc", after |-> "null"]
runthreads == [file |-> "threadtest", threads |-> NTHREADS, first |-> "print", after |-> "made"]
runtest3 == [file |-> "tt3", threads |-> NTHREADS, first |-> "sleep", after |-> "made"]

TestOf == [sem |-> semtest, lock |-> locktest, cv |-> cvtest, add |-> uwlocktest1, stats |-> uwvmstatstest,
           loud |-> runthreads, sleep |-> runtest3]
File(t) == TestOf[t].file
Workers(t) == TestOf[t].threads

Most == IF 2 * NTESTTHREADS > NTHREADS THEN 2 * NTESTTHREADS ELSE NTHREADS
Tid == 0..(Most - 1)
Nothread == Most
waker == NTHREADS - 1       \* the last thread of tt3

NoStats == [s \in 0..9 |-> 0]

TestsInit ==
    /\ test = "none" /\ left = MaxTests /\ object = [f \in {File(t) : t \in Test} |-> "null"]
    /\ tstate = [k \in Tid |-> "none"] /\ turn = [k \in Tid |-> 0] /\ tmp = [k \in Tid |-> 0]
    /\ main = "menu" /\ joined = 0
    /\ testsem = 0 /\ donesem = 0 /\ testlock = Nothread /\ testcv = {} /\ val = <<0, 0, 0>>
    /\ test_value = 0 /\ stats = NoStats /\ chan = [k \in Tid |-> 0] /\ wakerdone = FALSE
    /\ output = <<>> /\ verdict = "ok"

-----------------------------------------------------------------------------
(* The menu thread *)

\* inititems, setup, init_sem, vmstats_init.  Objects that exist are used again.
inititems(t) ==
    /\ main = "menu" /\ left > 0 /\ t \in Test
    /\ left' = left - 1 /\ test' = t /\ joined' = 0
    /\ main' = IF object[File(t)] = "destroyed" THEN "undefined" ELSE "fork"
    /\ object' = [object EXCEPT ![File(t)] = IF @ = "null" THEN "made" ELSE @]
    /\ verdict' = IF object[File(t)] = "destroyed" THEN "destroyed object" ELSE verdict
    /\ testsem' = IF object[File(t)] = "null" THEN 2 ELSE testsem
    /\ donesem' = IF object[File(t)] = "null" THEN 0 ELSE donesem
    /\ val' = IF t = "cv" THEN [val EXCEPT ![1] = NTHREADS - 1] ELSE val
    /\ stats' = IF t = "stats" THEN NoStats ELSE stats
    /\ wakerdone' = FALSE /\ output' = <<>>
    /\ UNCHANGED <<tstate, turn, tmp, testlock, testcv, test_value, chan>>

\* make_sleepalots forks the waker last.
FirstStep(k) == IF k >= Workers(test) THEN "none" ELSE IF test = "sleep" /\ k = waker THEN "waker" ELSE TestOf[test].first

\* Mutant: semtest leaves the two units where they are.
Forks_keepsunits ==
    /\ main = "fork"
    /\ main' = IF test = "sem" THEN "V" ELSE "P"
    /\ testsem' = testsem
    /\ tstate' = [k \in Tid |-> FirstStep(k)]
    /\ turn' = [k \in Tid |-> IF test = "add" THEN ADDLOOPS ELSE NLOOPS] /\ tmp' = [k \in Tid |-> 0]
    /\ UNCHANGED <<test, left, object, joined, donesem, testlock, testcv, val, test_value, stats, chan, wakerdone,
                   output, verdict>>

\* semtest takes both units first, so that it hands them out one by one.
Forks ==
    /\ main = "fork"
    /\ main' = IF test = "sem" THEN "V" ELSE "P"
    /\ testsem' = IF test = "sem" THEN testsem - 2 ELSE testsem
    /\ tstate' = [k \in Tid |-> FirstStep(k)]
    /\ turn' = [k \in Tid |-> IF test = "add" THEN ADDLOOPS ELSE NLOOPS] /\ tmp' = [k \in Tid |-> 0]
    /\ UNCHANGED <<test, left, object, joined, donesem, testlock, testcv, val, test_value, stats, chan, wakerdone,
                   output, verdict>>

MainV ==
    /\ main = "V" /\ testsem' = testsem + 1 /\ main' = "P"
    /\ UNCHANGED <<test, left, object, tstate, turn, tmp, joined, donesem, testlock, testcv, val, test_value, stats, chan,
                   wakerdone, output, verdict>>

\* tt3's finish waits for everyone but the waker first.
MainP ==
    /\ main = "P" /\ donesem > 0 /\ donesem' = donesem - 1 /\ joined' = joined + 1
    /\ main' = IF joined' = Workers(test) THEN "judge" ELSE IF test = "sem" THEN "V" ELSE "P"
    /\ wakerdone' = (wakerdone \/ (test = "sleep" /\ joined' = NTHREADS - 1))
    /\ UNCHANGED <<test, left, object, tstate, turn, tmp, testsem, testlock, testcv, val, test_value, stats, chan,
                   output, verdict>>

\* vmstats_print's three comparisons.
Balanced ==
    /\ stats[0] = stats[1] + stats[2]
    /\ stats[0] = stats[4] + stats[5] + stats[6]
    /\ stats[6] = stats[7] + stats[8]

\* cleanitems of uw-tests.c: the pointers become NULL and the value START_VALUE.
ResetValue == IF File(test) = "uw-tests" THEN 0 ELSE test_value

\* The test's last look, then the cleanitems of its file, if it has one: synchtest
\* keeps its pointers, tt1, tt2 and tt3 keep their objects.
cleanitems ==
    /\ main = "judge"
    /\ verdict' = IF test = "add" /\ test_value # 0 THEN "TEST FAILED"
                  ELSE IF test = "stats" /\ ~Balanced THEN "WARNING"
                  ELSE verdict
    /\ object' = [object EXCEPT ![File(test)] = TestOf[test].after]
    /\ test_value' = ResetValue
    /\ testsem' = IF test = "sem" THEN testsem + 2 ELSE testsem
    /\ main' = "menu"
    /\ UNCHANGED <<test, left, tstate, turn, tmp, joined, donesem, testlock, testcv, val, stats, chan, wakerdone, output>>

-----------------------------------------------------------------------------
(* The threads *)

Goes(k, to) == tstate' = [tstate EXCEPT ![k] = to]
Is(k, at) == tstate[k] = at

\* V(donesem), and the thread ends.
ThreadDone(k) ==
    /\ Is(k, "V") /\ Goes(k, "gone") /\ donesem' = donesem + 1
    /\ UNCHANGED <<harness, turn, tmp, toys, output, verdict>>

\* One turn is over.
NextTurn(k, first) ==
    /\ turn' = [turn EXCEPT ![k] = @ - 1]
    /\ Goes(k, IF turn[k] = 1 THEN "V" ELSE first)

\* semtestthread: P, print the line's start and its end.
semtestthread(k) ==
    /\ \/ Is(k, "P") /\ testsem > 0 /\ testsem' = testsem - 1 /\ Goes(k, "begin") /\ UNCHANGED output
       \/ Is(k, "begin") /\ Goes(k, "end") /\ output' = Append(output, k) /\ UNCHANGED testsem
       \/ Is(k, "end") /\ Goes(k, "V") /\ output' = Append(output, k) /\ UNCHANGED testsem
    /\ UNCHANGED <<harness, turn, tmp, donesem, testlock, testcv, val, test_value, stats, chan, wakerdone, verdict>>

\* lock_acquire, alone and inside cv_wait.
Acquires(k) ==
    /\ tstate[k] \in {"acquire", "woken"} /\ testlock = Nothread /\ testlock' = k
    /\ Goes(k, CASE Is(k, "woken") -> "measure" [] test = "lock" -> "val1" [] test = "cv" -> "while" [] OTHER -> "load")
    /\ UNCHANGED <<harness, turn, tmp, testsem, donesem, testcv, val, test_value, stats, chan, wakerdone, output, verdict>>

Releases(k) ==
    /\ Is(k, "release") /\ testlock' = Nothread /\ NextTurn(k, "acquire")
    /\ UNCHANGED <<harness, tmp, testsem, donesem, testcv, val, test_value, stats, chan, wakerdone, output, verdict>>

\* locktestthread: three assignments, then the six comparisons; fail stops the
\* thread.
Matches(k) == val[1] = k /\ val[2] = k * k /\ val[3] = k % 3
locktestthread(k) ==
    /\ \/ Is(k, "val1") /\ val' = [val EXCEPT ![1] = k] /\ Goes(k, "val2") /\ UNCHANGED <<testlock, verdict>>
       \/ Is(k, "val2") /\ val' = [val EXCEPT ![2] = k * k] /\ Goes(k, "val3") /\ UNCHANGED <<testlock, verdict>>
       \/ Is(k, "val3") /\ val' = [val EXCEPT ![3] = k % 3] /\ Goes(k, "compare") /\ UNCHANGED <<testlock, verdict>>
       \/ /\ Is(k, "compare") /\ UNCHANGED val
          /\ IF Matches(k) THEN Goes(k, "release") /\ UNCHANGED <<testlock, verdict>>
             ELSE Goes(k, "V") /\ testlock' = Nothread /\ verdict' = "Test failed"
    /\ UNCHANGED <<harness, turn, tmp, testsem, donesem, testcv, test_value, stats, chan, wakerdone, output>>

\* cvtestthread: while (testval1 != num) cv_wait; print, count down, broadcast.
\* What the clock says of the time in cv_wait is a choice; a thread that finds
\* it too short leaves at once and keeps testlock.
cvtestthread(k) ==
    /\ \/ /\ Is(k, "while") /\ val[1] # k
          /\ testcv' = testcv \cup {k} /\ testlock' = Nothread /\ Goes(k, "waiting")
          /\ UNCHANGED <<val, output, verdict>>
       \/ Is(k, "measure") /\ Goes(k, "while") /\ UNCHANGED <<testcv, testlock, val, output, verdict>>
       \/ /\ Is(k, "measure") /\ Goes(k, "V") /\ verdict' = "too fast"
          /\ UNCHANGED <<testcv, testlock, val, output>>
       \/ /\ Is(k, "while") /\ val[1] = k
          /\ output' = Append(output, k)
          /\ val' = [val EXCEPT ![1] = (@ + NTHREADS - 1) % NTHREADS]
          /\ Goes(k, "broadcast") /\ UNCHANGED <<testcv, testlock, verdict>>
       \/ /\ Is(k, "broadcast")
          /\ tstate' = [j \in Tid |-> IF j = k THEN "release" ELSE IF j \in testcv THEN "woken" ELSE tstate[j]]
          /\ testcv' = {} /\ UNCHANGED <<testlock, val, output, verdict>>
    /\ UNCHANGED <<harness, turn, tmp, testsem, donesem, test_value, stats, chan, wakerdone>>

\* add_thread (even numbers) and sub_thread (odd): one of the five additions.
add_thread(k) ==
    /\ \/ Is(k, "load") /\ tmp' = [tmp EXCEPT ![k] = test_value] /\ Goes(k, "store") /\ UNCHANGED test_value
       \/ /\ Is(k, "store") /\ Goes(k, "release") /\ UNCHANGED tmp
          /\ test_value' = tmp[k] + (IF k % 2 = 0 THEN 1 ELSE -1)
    /\ UNCHANGED <<harness, turn, donesem, testsem, testlock, testcv, val, stats, chan, wakerdone, output, verdict>>

\* vmstats_thread: in its turn i every counter moves as the switch says, each
\* vmstats_inc under stats_lock.
Counts(i, s) ==
    CASE s = 0 -> 2 [] s \in {1, 2, 4} -> 1
      [] s \in {3, 5, 6} -> IF i % 2 = 0 THEN 1 ELSE 0
      [] s \in {7, 8} -> IF i % 4 = 0 THEN 1 ELSE 0
      [] OTHER -> IF i % 8 = 0 THEN 1 ELSE 0
vmstats_inc(index, times) == stats' = [stats EXCEPT ![index] = @ + times]
vmstats_thread(k) ==
    /\ Is(k, "inc")
    /\ vmstats_inc(tmp[k], Counts(NLOOPS - turn[k], tmp[k]))
    /\ tmp' = [tmp EXCEPT ![k] = (@ + 1) % 10]
    /\ IF tmp[k] = 9 THEN NextTurn(k, "inc") ELSE UNCHANGED <<tstate, turn>>
    /\ UNCHANGED <<harness, testsem, donesem, testlock, testcv, val, test_value, chan, wakerdone, output, verdict>>

\* loudthread and quietthread.
loudthread(k) ==
    /\ Is(k, "print") /\ NextTurn(k, "print")
    /\ UNCHANGED <<harness, tmp, donesem, toys, output, verdict>>

\* sleepalot_thread sleeps on any channel; waker_thread wakes all of one, again
\* and again until wakerdone.
sleepalot_thread(k) ==
    /\ \/ Is(k, "sleep") /\ (\E w \in 1..2 : chan' = [chan EXCEPT ![k] = w]) /\ Goes(k, "asleep") /\ UNCHANGED turn
       \/ Is(k, "asleep") /\ chan[k] = 0 /\ NextTurn(k, "sleep") /\ UNCHANGED chan
    /\ UNCHANGED <<harness, tmp, testsem, donesem, testlock, testcv, val, test_value, stats, wakerdone, output, verdict>>

waker_thread(k) ==
    /\ Is(k, "waker")
    /\ IF wakerdone THEN Goes(k, "V") /\ UNCHANGED chan
       ELSE \E w \in 1..2 : chan' = [j \in Tid |-> IF chan[j] = w THEN 0 ELSE chan[j]] /\ UNCHANGED tstate
    /\ UNCHANGED <<harness, turn, tmp, testsem, donesem, testlock, testcv, val, test_value, stats, wakerdone, output, verdict>>

TestsNext ==
    \/ \E t \in Test : inititems(t)
    \/ Forks \/ MainV \/ MainP \/ cleanitems
    \/ \E k \in Tid : \/ ThreadDone(k) \/ semtestthread(k) \/ Acquires(k) \/ Releases(k) \/ locktestthread(k)
                      \/ cvtestthread(k) \/ add_thread(k) \/ vmstats_thread(k) \/ loudthread(k)
                      \/ sleepalot_thread(k) \/ waker_thread(k)

-----------------------------------------------------------------------------
(* Correctness *)

Blocked(k) ==
    \/ tstate[k] \in {"none", "gone", "waiting"}
    \/ tstate[k] = "P" /\ testsem = 0
    \/ tstate[k] \in {"acquire", "woken"} /\ testlock # Nothread
    \/ tstate[k] = "asleep" /\ chan[k] # 0

\* On correct primitives no test reports a failure: the lock test never sees
\* another thread's values, the sum of the adders and subtracters and the sums
\* vmstats_print compares come out even, the lines of the semaphore test are
\* whole and the threads of the CV test print in reverse order; no test hangs;
\* and when it destroys its objects none of its threads is still using them.
\* That much is true until a test begins with objects that the test before it
\* destroyed, or a thread of the CV test takes its wait for too short: see
\* TestsRunAgain and TooFastEnds.
TestsSound ==
    verdict \notin {"destroyed object", "too fast"} =>
        /\ verdict = "ok"
        /\ test = "sem" => \A i \in 1..(Len(output) \div 2) : output[2 * i] = output[2 * i - 1]
        /\ test = "cv" => \A i \in 1..Len(output) : output[i] = NTHREADS - 1 - ((i - 1) % NTHREADS)
        /\ main = "P" /\ donesem = 0 => \E k \in Tid : ~Blocked(k)
        /\ main \in {"judge", "menu"} => \A k \in Tid : tstate[k] \in {"none", "gone"}

\* synchtest.c:158 gives the semaphore its two units back "so we can run it
\* again".  It does not hold.
TestsRunAgain == main # "undefined"

\* A CV test that says "you must be busy-looping" (synchtest.c:289) ends all the
\* same.  It does not hold: the thread left with testlock held.
TooFastEnds ==
    (verdict = "too fast" /\ main = "P" /\ donesem = 0) => \E k \in Tid : ~Blocked(k)
=============================================================================
