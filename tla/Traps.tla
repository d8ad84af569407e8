-------------------------------- MODULE Traps --------------------------------
(***************************************************************************)
(* Entering and leaving the kernel: exception-mips1.S, mips_trap and           *)
(* mips_usermode (kern/arch/mips/locore), the system call dispatcher            *)
(* (kern/arch/mips/syscall/syscall.c) and the recovery of copyin and copyout    *)
(* from bad user memory (kern/vm/copyinout.c).                                  *)
(*                                                                         *)
(* A thread's kernel stack is the sequence of its trap frames, innermost last,  *)
(* each with the place its handler has come to.  On entry from user mode the    *)
(* stack and curthread are whatever cpustacks and cputhreads of the CPU say.    *)
(* A switch to another thread may happen inside an interrupt or a call; what     *)
(* a call computes is left out, its accesses to user memory are kept.           *)
(***************************************************************************)
EXTENDS Integers, Sequences

CONSTANTS
    TCpu, TThread,
    MaxTraps        \* bound: traps in a run

VARIABLES
    curthread, irqon, usermode,     \* each CPU: register s7, the two status bits IEc and KUc
    cputhreads, cpustacks,
    frames,                         \* each thread: its kernel stack
    t_curspl, t_iplhigh_count, t_in_interrupt,
    tm_badfaultfunc,                \* each thread: set
    t_pc, made,                     \* user program counter; where its program has made calls (history)
    trappanic, traps

trapVars == <<curthread, irqon, usermode, cputhreads, cpustacks, frames, t_curspl, t_iplhigh_count, t_in_interrupt,
              tm_badfaultfunc, t_pc, made, trappanic, traps>>
splVars == <<t_curspl, t_iplhigh_count>>
cpuArrays == <<cputhreads, cpustacks>>
progress == <<t_pc, made>>

Frame(why, user, ie) == [why |-> why, user |-> user, ie |-> ie, at |-> "entry", adjust |-> FALSE, old |-> 0, back |-> "entry"]
NewThread(why) == [Frame(why, FALSE, FALSE) EXCEPT !.at = "start"]

Top(t) == frames[t][Len(frames[t])]
SetTop(t, f) == [frames EXCEPT ![t][Len(frames[t])] = f]
GoTo(t, at) == frames' = SetTop(t, [Top(t) EXCEPT !.at = at])

\* Every CPU has a thread that is about to start its program; the others do
\* not exist yet.
TrapInit ==
    /\ \E run \in [TCpu -> TThread] :
         /\ \A c, d \in TCpu : c # d => run[c] # run[d]
         /\ curthread = run
         /\ frames = [t \in TThread |-> IF \E c \in TCpu : run[c] = t THEN <<NewThread("runprogram")>> ELSE <<>>]
         /\ cputhreads = run /\ cpustacks = run
    /\ irqon = [c \in TCpu |-> FALSE] /\ usermode = [c \in TCpu |-> FALSE]
    /\ t_curspl = [t \in TThread |-> 1] /\ t_iplhigh_count = [t \in TThread |-> 1]
    /\ t_in_interrupt = [t \in TThread |-> 0] /\ tm_badfaultfunc = [t \in TThread |-> FALSE]
    /\ t_pc = [t \in TThread |-> 0] /\ made = [t \in TThread |-> {}]
    /\ trappanic = "no" /\ traps = 0

\* The CPU runs kernel code of its thread, whose innermost frame is at `at`.
In(c, at) == ~usermode[c] /\ trappanic = "no" /\ Top(curthread[c]).at = at

-----------------------------------------------------------------------------
(* Traps *)

common_exception(c, why) ==
    LET stack == IF usermode[c] THEN cpustacks[c] ELSE curthread[c]
    IN  /\ traps < MaxTraps /\ trappanic = "no"
        /\ traps' = traps + 1
        /\ frames' = [frames EXCEPT ![stack] = Append(@, Frame(why, usermode[c], irqon[c]))]
        /\ curthread' = [curthread EXCEPT ![c] = IF usermode[c] THEN cputhreads[c] ELSE @]
        /\ irqon' = [irqon EXCEPT ![c] = FALSE] /\ usermode' = [usermode EXCEPT ![c] = FALSE]
        /\ made' = IF why = "sys" THEN [made EXCEPT ![stack] = @ \cup {t_pc[stack]}] ELSE made
        /\ UNCHANGED <<cpuArrays, splVars, t_in_interrupt, tm_badfaultfunc, t_pc, trappanic>>

\* The kernel touches user memory inside a copy, or directly (sys_execv).
TouchesUser(c) == ~usermode[c] /\ Top(curthread[c]).at \in {"copy", "touch"}

Trap(c) == \/ irqon[c] /\ common_exception(c, "irq")
           \/ usermode[c] /\ common_exception(c, "sys")
           \/ (usermode[c] \/ TouchesUser(c)) /\ common_exception(c, "fault")

-----------------------------------------------------------------------------
(* mips_trap: interrupts *)

IrqBegins(c) ==
    LET t == curthread[c]
        adjust == t_curspl[t] = 0
    IN  /\ In(c, "entry") /\ Top(t).why = "irq"
        /\ frames' = SetTop(t, [Top(t) EXCEPT !.at = "handler", !.adjust = adjust, !.old = t_in_interrupt[t]])
        /\ t_in_interrupt' = [t_in_interrupt EXCEPT ![t] = 1]
        /\ t_curspl' = [t_curspl EXCEPT ![t] = 1]
        /\ t_iplhigh_count' = [t_iplhigh_count EXCEPT ![t] = IF adjust THEN @ + 1 ELSE @]
        /\ trappanic' = IF adjust /\ t_iplhigh_count[t] # 0 THEN "assertion" ELSE trappanic
        /\ UNCHANGED <<curthread, irqon, usermode, cpuArrays, tm_badfaultfunc, progress, traps>>

IrqEnds(c) ==
    LET t == curthread[c]
        adjust == Top(t).adjust
    IN  /\ In(c, "handler")
        /\ GoTo(t, "return")
        /\ t_in_interrupt' = [t_in_interrupt EXCEPT ![t] = Top(t).old]
        /\ t_curspl' = [t_curspl EXCEPT ![t] = IF adjust THEN 0 ELSE @]
        /\ t_iplhigh_count' = [t_iplhigh_count EXCEPT ![t] = IF adjust THEN @ - 1 ELSE @]
        /\ trappanic' = IF adjust /\ (t_curspl[t] # 1 \/ t_iplhigh_count[t] # 1) THEN "assertion" ELSE trappanic
        /\ UNCHANGED <<curthread, irqon, usermode, cpuArrays, tm_badfaultfunc, progress, traps>>

-----------------------------------------------------------------------------
(* mips_trap: faults and calls *)

\* splhigh and splx bring the processor in line with t_curspl.
TrapBegins(c) ==
    LET t == curthread[c]
        call == Top(t).why = "sys"
    IN  /\ In(c, "entry") /\ Top(t).why # "irq"
        /\ irqon' = [irqon EXCEPT ![c] = t_curspl[t] = 0]
        /\ GoTo(t, IF call THEN "body" ELSE "vm_fault")
        /\ trappanic' = IF call /\ (t_curspl[t] # 0 \/ t_iplhigh_count[t] # 0) THEN "assertion" ELSE trappanic
        /\ UNCHANGED <<curthread, usermode, cpuArrays, splVars, t_in_interrupt, tm_badfaultfunc, progress, traps>>

\* vm_fault succeeds or not; other exceptions are as if it did not.  A fatal
\* fault of a program is the end of the kernel; one inside a copy goes on in
\* copyfail.
FaultEnds(c) ==
    LET t == curthread[c]
        n == Len(frames[t])
    IN  /\ In(c, "vm_fault")
        /\ \/ GoTo(t, "done") /\ UNCHANGED trappanic
           \/ /\ Top(t).user
              /\ trappanic' = "kill_curthread" /\ UNCHANGED frames
           \/ /\ ~Top(t).user /\ tm_badfaultfunc[t]
              /\ frames' = [frames EXCEPT ![t][n].at = "done", ![t][n - 1].at = "copyfail"]
              /\ UNCHANGED trappanic
           \/ /\ ~Top(t).user /\ ~tm_badfaultfunc[t]
              /\ trappanic' = "kernel fault" /\ UNCHANGED frames
        /\ UNCHANGED <<curthread, irqon, usermode, cpuArrays, splVars, t_in_interrupt, tm_badfaultfunc, progress, traps>>

\* cpu_irqoff
TrapDone(c) ==
    /\ In(c, "done")
    /\ irqon' = [irqon EXCEPT ![c] = FALSE]
    /\ GoTo(curthread[c], "return")
    /\ UNCHANGED <<curthread, usermode, cpuArrays, splVars, t_in_interrupt, tm_badfaultfunc, progress, trappanic, traps>>

\* Mutant: an interrupt leaves the arrays as they are.
SetsArrays_notirq(f) == f.why # "irq"
SetsArrays(f) == TRUE

\* The arrays, then exception_return.
TrapReturns(c) ==
    LET t == curthread[c]
        f == Top(t)
    IN  /\ In(c, "return")
        /\ cputhreads' = IF SetsArrays(f) THEN [cputhreads EXCEPT ![c] = t] ELSE cputhreads
        /\ cpustacks' = IF SetsArrays(f) THEN [cpustacks EXCEPT ![c] = t] ELSE cpustacks
        /\ frames' = [frames EXCEPT ![t] = SubSeq(@, 1, Len(@) - 1)]
        /\ irqon' = [irqon EXCEPT ![c] = f.ie] /\ usermode' = [usermode EXCEPT ![c] = f.user]
        /\ UNCHANGED <<curthread, splVars, t_in_interrupt, tm_badfaultfunc, progress, trappanic, traps>>

-----------------------------------------------------------------------------
(* Calls *)

\* copyin, copyout and the string copies: set the function, copy, clear it.
CopyBegins(c) ==
    /\ In(c, "body")
    /\ GoTo(curthread[c], "copy")
    /\ tm_badfaultfunc' = [tm_badfaultfunc EXCEPT ![curthread[c]] = TRUE]
    /\ UNCHANGED <<curthread, irqon, usermode, cpuArrays, splVars, t_in_interrupt, progress, trappanic, traps>>

\* The end of the copy, or EFAULT after setjmp's second return.
CopyEnds(c) ==
    /\ In(c, "copy") \/ In(c, "copyfail")
    /\ GoTo(curthread[c], "body")
    /\ tm_badfaultfunc' = [tm_badfaultfunc EXCEPT ![curthread[c]] = FALSE]
    /\ UNCHANGED <<curthread, irqon, usermode, cpuArrays, splVars, t_in_interrupt, progress, trappanic, traps>>

\* sys_execv reads its argument pointers without a copy.
Touch(c) ==
    /\ \/ In(c, "body") /\ GoTo(curthread[c], "touch")
       \/ In(c, "touch") /\ GoTo(curthread[c], "body")
    /\ UNCHANGED <<curthread, irqon, usermode, cpuArrays, splVars, t_in_interrupt, tm_badfaultfunc, progress, trappanic,
                   traps>>

\* sys_fork, with a copy of the trap frame.
Fork(c, u) ==
    /\ In(c, "body") /\ frames[u] = <<>> /\ \A d \in TCpu : curthread[d] # u
    /\ frames' = [frames EXCEPT ![u] = <<NewThread("fork")>>]
    /\ t_pc' = [t_pc EXCEPT ![u] = t_pc[curthread[c]]] /\ made' = [made EXCEPT ![u] = made[curthread[c]]]
    /\ UNCHANGED <<curthread, irqon, usermode, cpuArrays, splVars, t_in_interrupt, tm_badfaultfunc, trappanic, traps>>

\* The end of syscall: v0, a3 and the next instruction.
SyscallEnds(c) ==
    LET t == curthread[c]
    IN  /\ In(c, "body")
        /\ GoTo(t, "done")
        /\ t_pc' = [t_pc EXCEPT ![t] = @ + 1]
        /\ trappanic' = IF t_curspl[t] # 0 \/ t_iplhigh_count[t] # 0 THEN "assertion" ELSE trappanic
        /\ UNCHANGED <<curthread, irqon, usermode, cpuArrays, splVars, t_in_interrupt, tm_badfaultfunc, made, traps>>

\* Where the program goes on: enter_new_process starts at the entry point,
\* enter_forked_process behind the fork.
NewPc(f, pc) == IF f.why = "fork" THEN pc + 1 ELSE 0

\* mips_usermode, which gives up the trap frames on the stack.
mips_usermode(c) ==
    LET t == curthread[c]
    IN  /\ In(c, "run") \/ In(c, "body")
        /\ t_curspl' = [t_curspl EXCEPT ![t] = 0]
        /\ t_iplhigh_count' = [t_iplhigh_count EXCEPT ![t] = IF t_curspl[t] = 0 THEN @ ELSE @ - 1]
        /\ cputhreads' = [cputhreads EXCEPT ![c] = t] /\ cpustacks' = [cpustacks EXCEPT ![c] = t]
        /\ frames' = [frames EXCEPT ![t] = <<>>]
        /\ irqon' = [irqon EXCEPT ![c] = TRUE] /\ usermode' = [usermode EXCEPT ![c] = TRUE]
        /\ t_pc' = [t_pc EXCEPT ![t] = NewPc(Top(t), @)]
        /\ made' = [made EXCEPT ![t] = IF Top(t).why = "fork" THEN @ ELSE {}]
        /\ UNCHANGED <<curthread, t_in_interrupt, tm_badfaultfunc, trappanic, traps>>

-----------------------------------------------------------------------------
(* Other threads *)

\* thread_startup: spl0.
thread_startup(c) ==
    LET t == curthread[c]
    IN  /\ In(c, "start")
        /\ GoTo(t, "run")
        /\ t_curspl' = [t_curspl EXCEPT ![t] = 0] /\ t_iplhigh_count' = [t_iplhigh_count EXCEPT ![t] = @ - 1]
        /\ irqon' = [irqon EXCEPT ![c] = TRUE]
        /\ UNCHANGED <<curthread, usermode, cpuArrays, t_in_interrupt, tm_badfaultfunc, progress, trappanic, traps>>

\* The thread idles: an interrupt that comes then does not yield.
Idling(t) == \E k \in 1..(Len(frames[t]) - 1) : frames[t][k].at = "switched"
Ready(u) == frames[u] # <<>> /\ Top(u).at \in {"switched", "start"} /\ \A d \in TCpu : curthread[d] # u

\* thread_switch, from a call that sleeps or an interrupt that yields: splhigh,
\* then another thread, or none.
thread_switch(c) ==
    LET t == curthread[c]
        raise == t_curspl[t] = 0
    IN  /\ In(c, "body") \/ (In(c, "handler") /\ ~Idling(t))
        /\ frames' = SetTop(t, [Top(t) EXCEPT !.at = "switched", !.back = Top(t).at])
        /\ t_curspl' = [t_curspl EXCEPT ![t] = 1]
        /\ t_iplhigh_count' = [t_iplhigh_count EXCEPT ![t] = IF raise THEN @ + 1 ELSE @]
        /\ curthread' \in {curthread} \cup {[curthread EXCEPT ![c] = u] : u \in {v \in TThread : Ready(v)}}
        /\ irqon' = [irqon EXCEPT ![c] = FALSE]
        /\ UNCHANGED <<usermode, cpuArrays, t_in_interrupt, tm_badfaultfunc, progress, trappanic, traps>>

\* cpu_irqonoff between two looks at the run queue, or the thread is the next
\* one again and splx takes it back to where it was.
SwitchEnds(c) ==
    LET t == curthread[c]
        lower == Top(t).back = "body"
    IN  /\ In(c, "switched")
        /\ \/ /\ ~irqon[c] /\ irqon' = [irqon EXCEPT ![c] = TRUE]
              /\ UNCHANGED <<frames, splVars>>
           \/ /\ GoTo(t, Top(t).back)
              /\ t_curspl' = [t_curspl EXCEPT ![t] = IF lower THEN 0 ELSE @]
              /\ t_iplhigh_count' = [t_iplhigh_count EXCEPT ![t] = IF lower THEN @ - 1 ELSE @]
              /\ irqon' = [irqon EXCEPT ![c] = lower]
        /\ UNCHANGED <<curthread, usermode, cpuArrays, t_in_interrupt, tm_badfaultfunc, progress, trappanic, traps>>

TrapNext ==
    \E c \in TCpu :
        \/ Trap(c) \/ IrqBegins(c) \/ IrqEnds(c) \/ TrapBegins(c) \/ FaultEnds(c) \/ TrapDone(c) \/ TrapReturns(c)
        \/ CopyBegins(c) \/ CopyEnds(c) \/ Touch(c) \/ SyscallEnds(c) \/ mips_usermode(c)
        \/ thread_startup(c) \/ thread_switch(c) \/ SwitchEnds(c)
        \/ \E u \in TThread : Fork(c, u)

TrapSpec == TrapInit /\ [][TrapNext]_trapVars

-----------------------------------------------------------------------------
(* Properties *)

\* A program runs with interrupts on, nothing on its kernel stack and nothing
\* left of its calls, and its CPU will find its own stack at the next trap.
UserModeClean ==
    \A c \in TCpu : usermode[c] =>
        LET t == curthread[c]
        IN  /\ irqon[c] /\ frames[t] = <<>>
            /\ t_curspl[t] = 0 /\ t_iplhigh_count[t] = 0 /\ t_in_interrupt[t] = 0 /\ ~tm_badfaultfunc[t]
            /\ cputhreads[c] = t /\ cpustacks[c] = t
            /\ made[t] = 0..(t_pc[t] - 1)           \* every call made, and once

\* A thread runs on one CPU, on a stack nobody else uses.
OneCpu == \A c, d \in TCpu : c # d => curthread[c] # curthread[d]

\* Faults are forgiven inside copies and nowhere else.
CopiesOnly ==
    \A t \in TThread :
        tm_badfaultfunc[t] <=> \E k \in 1..Len(frames[t]) : frames[t][k].at \in {"copy", "copyfail"}

\* What the kernel believes of interrupts is what the processor does, except
\* that traps are entered and left with interrupts off, and the idle loop
\* lets them in.
SplTrue ==
    \A c \in TCpu : trappanic = "no" /\ irqon[c] /\ ~usermode[c] =>
        t_curspl[curthread[c]] = 0 \/ Top(curthread[c]).at = "switched"

\* The panics: a fatal fault of a program, and of sys_execv's direct reads.
TrapPanics ==
    /\ trappanic # "assertion"
    /\ trappanic = "kernel fault" => \E t \in TThread : Len(frames[t]) > 1 /\ frames[t][Len(frames[t]) - 1].at = "touch"

\* Whatever traps interrupt each other on whatever CPUs, every one returns to
\* where it came from with the interrupt state it found, no assertion of
\* mips_trap and syscall fails, and a system call is made once.
TrapSound == UserModeClean /\ OneCpu /\ CopiesOnly /\ SplTrue /\ TrapPanics
=============================================================================
