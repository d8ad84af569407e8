------------------------------- MODULE FsTests -------------------------------
(***************************************************************************)
(* The file system tests of the kernel menu, kern/test/fstest.c (fs1 to fs5),     *)
(* over what open, read, write and remove promise.                              *)
(*                                                                         *)
(* A test is what the menu thread calls before it forks its threads, what each   *)
(* thread calls, and what the menu thread calls when it has heard of them all.    *)
(* A file is what its lines hold: the number by which the slogan was rotated,    *)
(* or Hole.                                                                  *)
(***************************************************************************)
EXTENDS Integers, Sequences, FiniteSets

CONSTANTS
    FsTest,         \* which of "fstest", "readstress", "writestress", "writestress2", "createstress"
    NCHUNKS,        \* bound: lines of a test file
    FsThreads,      \* bound: NTHREADS of this file
    NCREATES        \* bound: files a thread creates

VARIABLES
    fs,                     \* each file name: Absent or its lines
    fstest, fmain, fwaited, threadsem,
    fpc, fstep, fi, ffile,  \* each worker (0: the menu thread): its place, call, line, file
    ffailed,                \* workers that reported a failure
    fsfails                 \* calls of the file system may fail in this run

fsVars == <<fs, fstest, fmain, fwaited, threadsem, fpc, fstep, fi, ffile, ffailed, fsfails>>
fsRest == <<fstest, fmain, fwaited, threadsem, ffailed, fsfails>>

Hole == -1
SLOGAN == 0     \* a line is the slogan rotated by that much
Absent == <<-2>>
Worker == 0..FsThreads
Forked == 1..FsThreads

-----------------------------------------------------------------------------
(* The tests *)

Whole == <<"write", "read", "remove">>
NoStress == [before |-> <<>>, thread |-> <<>>, after |-> <<>>, files |-> 1, stridesize |-> 1, suffix |-> "none"]

dofstest == [NoStress EXCEPT !.before = Whole]
doreadstress == [NoStress EXCEPT !.before = <<"write">>, !.thread = <<"read">>, !.after = <<"remove">>]
writestress_thread == [NoStress EXCEPT !.thread = Whole, !.suffix = "num"]
dowritestress2 == [NoStress EXCEPT !.before = <<"create">>, !.thread = <<"write">>, !.after = <<"read", "remove">>,
                                   !.stridesize = FsThreads]
createstress_thread == [NoStress EXCEPT !.thread = Whole, !.files = NCREATES, !.suffix = "num-i"]

T == CASE fstest = "readstress" -> doreadstress [] fstest = "writestress" -> writestress_thread
       [] fstest = "writestress2" -> dowritestress2 [] fstest = "createstress" -> createstress_thread
       [] OTHER -> dofstest

Script(k) == IF k # 0 THEN T.thread ELSE IF fmain = "before" THEN T.before ELSE T.after

\* The file a worker works on, by its name's suffix.
fstest_makename(k) == CASE T.suffix = "num" -> k [] T.suffix = "num-i" -> k * 10 + ffile[k] [] OTHER -> 0
Names == {0} \cup Forked \cup {k * 10 + j : k \in Forked, j \in 0..(NCREATES - 1)}
File1(k) == fs[fstest_makename(k)]

FsInit ==
    /\ fs = [n \in Names |-> Absent] /\ fstest = "none" /\ fmain = "menu" /\ fwaited = 0 /\ threadsem = 0
    /\ fpc = [k \in Worker |-> "none"] /\ fi = [k \in Worker |-> 0] /\ ffile = [k \in Worker |-> 0] /\ ffailed = {}
    /\ fstep = [k \in Worker |-> 1] /\ fsfails \in BOOLEAN

-----------------------------------------------------------------------------
(* The calls of one worker *)

Calls(k, call, at) == fpc[k] = at /\ Script(k)[fstep[k]] = call
FsGoes(k, to) == fpc' = [fpc EXCEPT ![k] = to]
Sets(k, file) == fs' = [fs EXCEPT ![fstest_makename(k)] = file]

\* On to the next call, of the next file after the last one.
Returns(k) ==
    LET last == fstep[k] = Len(Script(k))
        more == ffile[k] + 1 < T.files
    IN  /\ fstep' = [fstep EXCEPT ![k] = IF last THEN 1 ELSE @ + 1]
        /\ ffile' = [ffile EXCEPT ![k] = IF last /\ more THEN @ + 1 ELSE @]
        /\ FsGoes(k, IF last /\ ~more THEN "done" ELSE "call")

Fails1(k) == FsGoes(k, "failed") /\ UNCHANGED <<fstep, ffile>>

\* rotate shifts every letter; nothing in a hole is a letter.
rotate(line, amt) == IF line = Hole THEN Hole ELSE (line + amt + 2600) % 26

\* A file grows to hold the line written; what was skipped is a hole.
Written(file, i, data) ==
    LET size == IF i > Len(file) THEN i ELSE Len(file)
    IN  [j \in 1..size |-> IF j = i THEN data ELSE IF j <= Len(file) THEN file[j] ELSE Hole]

Truncates == T.stridesize = 1

\* Open the file, created if need be; then for each line skip it, or rotate(buf, i)
\* and VOP_WRITE it at its place.  A file removed meanwhile is written where
\* nobody looks.
fstest_write(k) ==
    /\ \/ /\ Calls(k, "write", "call")
          /\ Sets(k, IF Truncates \/ File1(k) = Absent THEN <<>> ELSE File1(k))
          /\ fi' = [fi EXCEPT ![k] = 0] /\ FsGoes(k, "loop") /\ UNCHANGED <<fstep, ffile>>
       \/ /\ Calls(k, "write", "loop") /\ fi[k] < NCHUNKS
          /\ fi' = [fi EXCEPT ![k] = @ + 1] /\ UNCHANGED <<fpc, fstep, ffile>>
          /\ IF fi[k] % T.stridesize # (k - 1) % T.stridesize \/ File1(k) = Absent THEN fs' = fs
             ELSE Sets(k, Written(File1(k), fi[k] + 1, rotate(SLOGAN, fi[k])))
       \/ Calls(k, "write", "loop") /\ fi[k] = NCHUNKS /\ Returns(k) /\ UNCHANGED <<fs, fi>>
    /\ UNCHANGED fsRest

\* VOP_READ of each line and the comparison after rotate(buf, -i).
fstest_read(k) ==
    /\ LET file == File1(k)
           i == fi[k] + 1
       IN  \/ /\ Calls(k, "read", "call") /\ fi' = [fi EXCEPT ![k] = 0]
              /\ FsGoes(k, IF file = Absent THEN "failed" ELSE "loop") /\ UNCHANGED <<fstep, ffile>>
           \/ /\ Calls(k, "read", "loop") /\ fi[k] < NCHUNKS
              /\ IF file = Absent \/ i > Len(file) \/ rotate(file[i], -fi[k]) # SLOGAN THEN Fails1(k) /\ UNCHANGED fi
                 ELSE fi' = [fi EXCEPT ![k] = i] /\ UNCHANGED <<fpc, fstep, ffile>>
           \/ Calls(k, "read", "loop") /\ fi[k] = NCHUNKS /\ Returns(k) /\ UNCHANGED fi
    /\ UNCHANGED <<fs, fsRest>>

fstest_remove(k) ==
    /\ Calls(k, "remove", "call") /\ Sets(k, Absent)
    /\ IF File1(k) = Absent THEN Fails1(k) ELSE Returns(k)
    /\ UNCHANGED <<fi, fsRest>>

\* dowritestress2 creates its file, empty.
Creates(k) ==
    /\ Calls(k, "create", "call") /\ Sets(k, <<>>) /\ Returns(k)
    /\ UNCHANGED <<fi, fsRest>>

\* Any of the calls may fail; a write that fails removes the file.
CallFails(k) ==
    /\ fsfails /\ fpc[k] \in {"call", "loop"}
    /\ IF Calls(k, "write", "loop") THEN Sets(k, Absent) ELSE fs' = fs
    /\ Fails1(k)
    /\ UNCHANGED <<fi, fsRest>>

\* A thread reports its failure and signals all the same.
ThreadEnds(k) ==
    /\ k # 0 /\ fpc[k] \in {"done", "failed"}
    /\ ffailed' = IF fpc[k] = "failed" THEN ffailed \cup {k} ELSE ffailed
    /\ threadsem' = threadsem + 1 /\ FsGoes(k, "gone")
    /\ UNCHANGED <<fs, fstest, fmain, fwaited, fstep, fi, ffile, fsfails>>

-----------------------------------------------------------------------------
(* The menu thread *)

Starts(script) == IF script = <<>> THEN "done" ELSE "call"

DoTest(t) ==
    /\ fmain = "menu" /\ fstest' = t /\ fmain' = "before"
    /\ fpc' = [fpc EXCEPT ![0] = Starts(T'.before)]
    /\ UNCHANGED <<fs, fwaited, threadsem, fstep, fi, ffile, ffailed, fsfails>>

\* The menu thread's calls are over; it goes on only if they all succeeded.
SelfEnds ==
    /\ fmain \in {"before", "after"} /\ fpc[0] \in {"failed", "done"}
    /\ LET forks == fmain = "before" /\ fpc[0] = "done" /\ T.thread # <<>>
       IN  /\ fmain' = IF forks THEN "P" ELSE "end"
           /\ fpc' = [k \in Worker |-> IF k = 0 THEN "none" ELSE IF forks THEN "call" ELSE fpc[k]]
    /\ ffailed' = IF fpc[0] = "failed" THEN ffailed \cup {0} ELSE ffailed
    /\ UNCHANGED <<fs, fstest, fwaited, threadsem, fstep, fi, ffile, fsfails>>

MainPs ==
    /\ fmain = "P" /\ threadsem > 0 /\ threadsem' = threadsem - 1 /\ fwaited' = fwaited + 1
    /\ fmain' = IF fwaited' < FsThreads THEN "P" ELSE "after"
    /\ fpc' = [fpc EXCEPT ![0] = IF fwaited' < FsThreads THEN @ ELSE Starts(T.after)]
    /\ UNCHANGED <<fs, fstest, fstep, fi, ffile, ffailed, fsfails>>

FsNext ==
    \/ \E t \in FsTest : DoTest(t)
    \/ SelfEnds \/ MainPs
    \/ \E k \in Worker : \/ fstest_write(k) \/ fstest_read(k) \/ fstest_remove(k) \/ Creates(k)
                         \/ CallFails(k) \/ ThreadEnds(k)

-----------------------------------------------------------------------------
(* Correctness *)

\* On a file system that keeps its promises no test fails, whatever the
\* interleaving of its threads: files of different threads do not meet, and the
\* strides of writestress2 fill one file between them.  Even if calls fail, the
\* test ends, and one that reported no failure has left no file behind.
FsTestsSound ==
    /\ ~fsfails => ffailed = {}
    /\ fmain = "end" /\ ffailed = {} => \A n \in Names : fs[n] = Absent
    /\ fmain = "P" => \/ threadsem > 0
                      \/ \E k \in Forked : fpc[k] \notin {"none", "gone"}
    /\ fmain \in {"after", "end"} => \A k \in Forked : fpc[k] \in {"none", "gone"}
=============================================================================
