-------------------------------- MODULE Panic --------------------------------
(***************************************************************************)
(* kprintf and panic (kern/lib/kprintf.c), thread_panic (kern/thread/thread.c)  *)
(* and what IPI_PANIC does to the other CPUs.                                   *)
(*                                                                         *)
(* panic goes through five stages, each entered by a test of the global         *)
(* `evil' and an assignment to it, neither atomic.  Anything a stage does can    *)
(* panic again: the nested panic starts from the tests, deeper on the stack.     *)
(***************************************************************************)
EXTENDS Integers

CONSTANTS
    PCpu,
    Panicker,       \* the CPUs that meet a fatal error
    MaxNested       \* bound: panics inside panic that the model adds by itself

VARIABLES
    evil,
    pat,        \* each CPU: <<what, stage>>: run, test, set, do, printing, idle, spin, halted
    pirq,       \* each CPU takes interrupts
    ipi,        \* CPUs with IPI_PANIC pending
    blatted,    \* CPUs whose run queue thread_panic has dropped
    klock,      \* the holder of kprintf_spinlock, or NoCpu
    done,       \* stages completed (history)
    nested, poweroff

panicVars == <<evil, pat, pirq, ipi, blatted, klock, done, nested, poweroff>>

NoCpu == "none"
LastStage == 4
PanicGoTo(c, what, stage) == pat' = [pat EXCEPT ![c] = <<what, stage>>]
Runs(c, what) == pat[c][1] = what /\ ~poweroff

PanicInit ==
    /\ evil = 0 /\ pat = [c \in PCpu |-> <<"run", 0>>] /\ pirq \in [PCpu -> BOOLEAN]
    /\ ipi = {} /\ blatted = {} /\ klock = NoCpu /\ done = {} /\ nested = 0 /\ poweroff = FALSE

\* Ordinary work, with its sections that run with interrupts off and its kprintf
\* inside them.
Works(c) ==
    /\ Runs(c, "run")
    /\ \/ klock # c /\ pirq' = [pirq EXCEPT ![c] = ~@] /\ UNCHANGED klock
       \/ klock = NoCpu /\ ~pirq[c] /\ klock' = c /\ UNCHANGED pirq
       \/ klock = c /\ klock' = NoCpu /\ UNCHANGED pirq
    /\ UNCHANGED <<evil, pat, ipi, blatted, done, nested, poweroff>>

\* panic is called, from ordinary work or from inside kprintf.
Panics(c) ==
    /\ c \in Panicker /\ Runs(c, "run")
    /\ PanicGoTo(c, "test", 0)
    /\ UNCHANGED <<evil, pirq, ipi, blatted, klock, done, nested, poweroff>>

\* if (evil == stage)
TestEvil(c) ==
    /\ Runs(c, "test")
    /\ LET stage == pat[c][2]
       IN  IF evil = stage THEN PanicGoTo(c, "set", stage)
           ELSE IF stage < LastStage THEN PanicGoTo(c, "test", stage + 1)
           ELSE PanicGoTo(c, "spin", 0)
    /\ UNCHANGED <<evil, pirq, ipi, blatted, klock, done, nested, poweroff>>

\* evil = stage + 1
SetEvil(c) ==
    /\ Runs(c, "set")
    /\ evil' = pat[c][2] + 1
    /\ PanicGoTo(c, "do", pat[c][2])
    /\ UNCHANGED <<pirq, ipi, blatted, klock, done, nested, poweroff>>

After(c, stage) == PanicGoTo(c, "test", stage + 1) /\ done' = done \cup {stage}

StageSpl(c) ==
    /\ Runs(c, "do") /\ pat[c][2] = 0
    /\ pirq' = [pirq EXCEPT ![c] = FALSE] /\ After(c, 0)
    /\ UNCHANGED <<evil, ipi, blatted, klock, nested, poweroff>>

\* Mutant: the run queue is left alone.
thread_panic_keeps(c) == ipi' = ipi \cup (PCpu \ {c}) /\ UNCHANGED blatted
thread_panic(c) == ipi' = ipi \cup (PCpu \ {c}) /\ blatted' = blatted \cup {c}

StageOthers(c) ==
    /\ Runs(c, "do") /\ pat[c][2] = 1
    /\ thread_panic(c) /\ After(c, 1)
    /\ UNCHANGED <<evil, pirq, klock, nested, poweroff>>

\* Sleeping means to look for another thread.  On a dropped run queue that is a
\* fault, hence a panic; otherwise the CPU idles and takes interrupts.
Sleeps(c, stage) == PanicGoTo(c, IF c \in blatted THEN "test" ELSE "idle", IF c \in blatted THEN 0 ELSE stage)

\* kprintf with interrupts off: the spinlock, which panics when this CPU holds it
\* already and otherwise spins.  (A CPU that joins a panic of another late has
\* interrupts on and takes kprintf_lock, here free.)
kprintf(c) ==
    /\ Runs(c, "do") /\ pat[c][2] = 2
    /\ klock \in {NoCpu, c} \/ pirq[c]
    /\ klock' = IF klock = NoCpu /\ ~pirq[c] THEN c ELSE klock
    /\ IF klock = c /\ ~pirq[c] THEN PanicGoTo(c, "test", 0) ELSE PanicGoTo(c, "printing", 2)
    /\ UNCHANGED <<evil, pirq, ipi, blatted, done, nested, poweroff>>

Printed(c) ==
    /\ Runs(c, "printing") /\ klock' = (IF klock = c THEN NoCpu ELSE klock) /\ After(c, 2)
    /\ UNCHANGED <<evil, pirq, ipi, blatted, nested, poweroff>>

\* vfs_sync returns, perhaps after a sleep that somebody ended.
StageSync(c) ==
    /\ (Runs(c, "do") \/ Runs(c, "idle")) /\ pat[c][2] = 3
    /\ After(c, 3)
    /\ UNCHANGED <<evil, pirq, ipi, blatted, klock, nested, poweroff>>

\* vfs_sync sleeps: for a lock some thread will never give back, or a disk.
SyncSleeps(c) ==
    /\ Runs(c, "do") /\ pat[c][2] = 3
    /\ Sleeps(c, 3)
    /\ UNCHANGED <<evil, pirq, ipi, blatted, klock, done, nested, poweroff>>

\* Something else goes wrong in the console or the file systems.
PanicsAgain(c) ==
    /\ Runs(c, "printing") \/ (Runs(c, "do") /\ pat[c][2] = 3)
    /\ nested < MaxNested /\ nested' = nested + 1
    /\ PanicGoTo(c, "test", 0)
    /\ UNCHANGED <<evil, pirq, ipi, blatted, klock, done, poweroff>>

mainbus_panic(c) ==
    /\ Runs(c, "do") /\ pat[c][2] = 4
    /\ poweroff' = TRUE
    /\ UNCHANGED <<evil, pat, pirq, ipi, blatted, klock, done, nested>>

\* interprocessor_interrupt: IPI_PANIC stops the CPU, interrupts off.
IpiPanic(c) ==
    /\ c \in ipi /\ ~poweroff /\ pat[c][1] # "halted"
    /\ pirq[c] \/ pat[c][1] = "idle"
    /\ PanicGoTo(c, "halted", 0) /\ ipi' = ipi \ {c} /\ pirq' = [pirq EXCEPT ![c] = FALSE]
    /\ UNCHANGED <<evil, blatted, klock, done, nested, poweroff>>

PanicNext == \E c \in PCpu :
    \/ Works(c) \/ Panics(c) \/ TestEvil(c) \/ SetEvil(c)
    \/ StageSpl(c) \/ StageOthers(c) \/ kprintf(c) \/ Printed(c) \/ StageSync(c) \/ SyncSleeps(c)
    \/ PanicsAgain(c) \/ mainbus_panic(c) \/ IpiPanic(c)

-----------------------------------------------------------------------------
(* Correctness *)

Stuck(c) == pat[c][1] \in {"spin", "idle", "halted"}

\* panic "prints the printf arguments it's passed and then halts the system":
\* whatever goes wrong on the way, the panicking CPU does not come to rest before
\* the power is off; and when nothing went wrong, the other CPUs were told to
\* stop and the message was out before.
PanicSound ==
    /\ (\E c \in Panicker : pat[c][1] # "run") /\ ~poweroff => \E c \in Panicker : ~Stuck(c)
    /\ poweroff /\ nested = 0 /\ (\A c \in Panicker : klock # c) => {1, 2} \subseteq done
=============================================================================
