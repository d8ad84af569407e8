------------------------------ MODULE MCKernel ------------------------------
(***************************************************************************)
(* The rest of the kernel, two of its programs and a part of the C library, *)
(* each on its own: `part` says which one runs.                             *)
(***************************************************************************)
EXTENDS VnodeOps, KernLib, Traps, Menu, Panic, KernTests, FsTests, Shell, Psort, Random

VARIABLE part

kernelVars == <<vopsVars, libVars, trapVars, menuVars, panicVars, testVars, fsVars, shVars, psortVars, randVars, part>>

\* The initial states of a part are told apart only where it runs.
KernelInit ==
    /\ part \in {"vnodes", "lib", "traps", "menu", "panic", "tests", "fstests", "shell", "psort", "random"}
    /\ LibInit /\ (part # "lib" => lib = "array")
    /\ TrapInit
    /\ part # "traps" => curthread = (CHOOSE run \in [TCpu -> TThread] : \A c, d \in TCpu : c # d => run[c] # run[d])
    /\ PanicInit /\ (part # "panic" => \A c \in PCpu : ~pirq[c])
    /\ FsInit /\ (part # "fstests" => ~fsfails)
    /\ VopsInit /\ MenuInit /\ TestsInit /\ ShInit /\ PsortInit /\ RandInit

KernelNext ==
    /\ \/ /\ part = "vnodes" /\ VopsNext
          /\ UNCHANGED <<libVars, trapVars, menuVars, panicVars, testVars, fsVars, shVars, psortVars, randVars>>
       \/ /\ part = "lib" /\ LibNext
          /\ UNCHANGED <<vopsVars, trapVars, menuVars, panicVars, testVars, fsVars, shVars, psortVars, randVars>>
       \/ /\ part = "traps" /\ TrapNext
          /\ UNCHANGED <<vopsVars, libVars, menuVars, panicVars, testVars, fsVars, shVars, psortVars, randVars>>
       \/ /\ part = "menu" /\ MenuNext
          /\ UNCHANGED <<vopsVars, libVars, trapVars, panicVars, testVars, fsVars, shVars, psortVars, randVars>>
       \/ /\ part = "panic" /\ PanicNext
          /\ UNCHANGED <<vopsVars, libVars, trapVars, menuVars, testVars, fsVars, shVars, psortVars, randVars>>
       \/ /\ part = "tests" /\ TestsNext
          /\ UNCHANGED <<vopsVars, libVars, trapVars, menuVars, panicVars, fsVars, shVars, psortVars, randVars>>
       \/ /\ part = "fstests" /\ FsNext
          /\ UNCHANGED <<vopsVars, libVars, trapVars, menuVars, panicVars, testVars, shVars, psortVars, randVars>>
       \/ /\ part = "shell" /\ ShNext
          /\ UNCHANGED <<vopsVars, libVars, trapVars, menuVars, panicVars, testVars, fsVars, psortVars, randVars>>
       \/ /\ part = "psort" /\ PsortNext
          /\ UNCHANGED <<vopsVars, libVars, trapVars, menuVars, panicVars, testVars, fsVars, shVars, randVars>>
       \/ /\ part = "random" /\ RandNext
          /\ UNCHANGED <<vopsVars, libVars, trapVars, menuVars, panicVars, testVars, fsVars, shVars, psortVars>>
    /\ UNCHANGED part

KernelSpec == KernelInit /\ [][KernelNext]_kernelVars

-----------------------------------------------------------------------------
(* Constants *)

LinesOf(S, n) == UNION {[1..k -> S] : k \in 0..n}

\* Every short line of a word, blanks and semicolons, and lines for the commands.
MCBootLine == LinesOf({"p", " ", ";"}, 3) \cup {<<"m", " ", "f", " ", "l", ";", "c", " ", "l">>}
MCTypedLine ==
    LinesOf({"p", " ", ";"}, 5) \cup
    { <<"m", " ", "f", " ", "l", ":">>, <<"m", " ", "x", " ", "l">>, <<"u", " ", "l", ":", ";", "b", " ", "l">>,
      <<"c", " ", "l", ":">>, <<"t", ";", "?", ";", "x">>, <<"w", ";", "y">>, <<"!", ";", "?">>, <<"s", " ", ";", "s", ";", "s", ";", "q">>,
      <<"s", " ", "s">>, <<"p", " ", "x", " ", "y", " ", "z">> }

\* Before, at, inside and after the blocks of the disk.
MCPosition == {-2, -1, 0, 1, 2, 3, 4, 6}

\* Three types of generator: linear congruential, and tables of 3 and of 4 words.
MCDegrees == [t \in 0..2 |-> CASE t = 0 -> 0 [] t = 1 -> 3 [] t = 2 -> 4]
MCSeps == [t \in 0..2 |-> CASE t = 0 -> 0 [] t = 1 -> 2 [] t = 2 -> 1]

-----------------------------------------------------------------------------
(* Properties *)

\* The kernel's library, its tables of vnode operations and the C library's
\* random numbers do what their users rely on: see LibCorrect, TablesAgree and
\* RandomSound.
LibrarySound == LibCorrect /\ TablesAgree /\ RandomSound

\* The machine starts, takes commands and stops as it should, by shutdown or by
\* panic: see MenuSound and PanicSound.
StartStopSound == MenuSound /\ PanicSound

\* The kernel's own tests pass on correct primitives and a correct file system,
\* under every interleaving of their threads: see TestsSound and FsTestsSound.
KernelTestsSound == TestsSound /\ FsTestsSound

\* The shell and the parallel sort keep account of their children and their
\* files: see ShellSound and PsortSound.
ProgramsSound == ShellSound /\ PsortSound
=============================================================================
