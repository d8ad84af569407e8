---------------------------- MODULE ThreadSched ----------------------------
(***************************************************************************)
(* The scheduler, kern/thread/thread.c, with the interrupt entry of trap.c,  *)
(* the interrupt levels of spl.c, the clock and the CPU's idle loop.         *)
(*                                                                           *)
(* A CPU executes the top frame of its current thread; an interrupt pushes a *)
(* frame.  Run queue locks, wait channel lock and ipi locks are their holding*)
(* CPU; what is done between taking and releasing one of them is one step    *)
(* unless another lock is taken in between.                                  *)
(***************************************************************************)
EXTENDS Integers, Sequences, FiniteSets

CONSTANTS
    NCPU,                   \* CPUs 0 .. NCPU-1; 0 is the boot CPU
    NTHREAD,                \* thread structures; c + 1 is the boot thread of CPU c
    MIGRATE_HARDCLOCKS

ASSUME SchedAssumption == NCPU \in Nat \ {0} /\ NTHREAD \in Nat /\ NTHREAD >= NCPU

CPU == 0 .. (NCPU - 1)
Thr == 1 .. NTHREAD
NoCPU == -1
BootThread(c) == c + 1

VARIABLES
    curthread,      \* cpu -> thread whose stack it is on
    mode,           \* cpu -> off, thread, pick, resume, idle, unidle, halted
    c_isidle, c_runqueue, c_zombies, c_hardclocks,
    c_ipi_pending,  \* cpu -> codes sent and not handled
    ipiline,        \* cpu -> the interrupt line of the bus controller
    rqlock, ipilock, \* cpu -> holder of c_runqueue_lock, of c_ipi_lock
    irq,            \* cpu -> interrupts enabled in the processor
    wc, wclock,     \* a wait channel: wc_threads and the holder of wc_lock
    t_cpu, t_state,
    t_curspl,       \* thread -> recorded level: 0 or 1 (IPL_HIGH)
    t_iplhigh_count,
    stack,          \* thread -> frames, top first
    closing         \* the system is being stopped

cpuVars == <<curthread, mode, c_isidle, c_hardclocks, irq>>
queueVars == <<c_runqueue, c_zombies, wc, t_cpu, t_state>>
lockVars == <<rqlock, ipilock, wclock>>
ipiVars == <<c_ipi_pending, ipiline, closing>>
splVars == <<t_curspl, t_iplhigh_count>>
tsVars == <<cpuVars, queueVars, lockVars, ipiVars, splVars, stack>>

NoMig == [i |-> 0, my |-> 0, total |-> 0, send |-> 0]
Frame(at) == [pc |-> at, carry |-> <<>>, m |-> NoMig]

\* thread_bootstrap, cpu_create for every CPU, and mainbus_bootstrap's spl0:
\* the boot thread runs, the other CPUs wait to be started.
TsInit ==
    /\ curthread = [c \in CPU |-> BootThread(c)]
    /\ mode = [c \in CPU |-> IF c = 0 THEN "thread" ELSE "off"]
    /\ c_isidle = [c \in CPU |-> FALSE]
    /\ c_runqueue = [c \in CPU |-> <<>>] /\ c_zombies = [c \in CPU |-> <<>>]
    /\ c_hardclocks = [c \in CPU |-> 0]
    /\ c_ipi_pending = [c \in CPU |-> {}] /\ ipiline = [c \in CPU |-> FALSE]
    /\ rqlock = [c \in CPU |-> NoCPU] /\ ipilock = [c \in CPU |-> NoCPU]
    /\ irq = [c \in CPU |-> c = 0]
    /\ wc = <<>> /\ wclock = NoCPU
    /\ t_cpu = [t \in Thr |-> IF t <= NCPU THEN t - 1 ELSE 0]
    /\ t_state = [t \in Thr |-> IF t = 1 THEN "S_RUN" ELSE IF t <= NCPU THEN "S_READY" ELSE "free"]
    /\ t_curspl = [t \in Thr |-> IF t = 1 THEN 0 ELSE 1]
    /\ t_iplhigh_count = [t \in Thr |-> IF t = 1 THEN 0 ELSE 1]
    /\ stack = [t \in Thr |-> <<Frame("run")>>]
    /\ closing = FALSE

Top(c) == stack[curthread[c]][1]
Executes(c, at) == mode[c] = "thread" /\ Top(c).pc = at
InInterrupt(t) == Len(stack[t]) > 1
\* Where a finished call continues: in the thread, or at the end of the interrupt.
Back(t) == IF InInterrupt(t) THEN "iret" ELSE "run"
SetTop(t, f) == stack' = [stack EXCEPT ![t][1] = f]
Goto(c, at) == SetTop(curthread[c], Frame(at))

-----------------------------------------------------------------------------
(* spl.c: interrupt levels *)

Raised(t, n) == t_iplhigh_count' = [t_iplhigh_count EXCEPT ![t] = @ + n]

\* A spinlock that is taken, or released, by CPU c, and held across the step:
\* splraise or spllower of its thread.
SpinTaken(c) == Raised(curthread[c], 1) /\ irq' = [irq EXCEPT ![c] = FALSE]

-----------------------------------------------------------------------------
(* Interrupts: mips_trap and mainbus_interrupt *)

\* The processor takes an interrupt when they are on, or in cpu_idle, which
\* turns them on for a moment; the bus comes first, then IPIs, then the timer.
Interrupt(c, source) ==
    LET t == curthread[c]
    IN /\ (mode[c] = "thread" /\ irq[c]) \/ mode[c] = "idle"
       /\ source = "device" => c = 0
       /\ source = "ipi" => ipiline[c]
       /\ source = "timer" => ~ipiline[c]
       /\ stack' = [stack EXCEPT ![t] = <<Frame(source)>> \o @]
       /\ irq' = [irq EXCEPT ![c] = FALSE]
       /\ mode' = [mode EXCEPT ![c] = "thread"]
       /\ IF t_curspl[t] = 0
          THEN t_curspl' = [t_curspl EXCEPT ![t] = 1] /\ Raised(t, 1)
          ELSE UNCHANGED splVars
       /\ UNCHANGED <<curthread, c_isidle, c_hardclocks, queueVars, lockVars, ipiVars>>

\* The end of mips_trap: the recorded level is restored; an idle CPU goes on in
\* thread_switch.
Iret(c) ==
    LET t == curthread[c]
    IN /\ Executes(c, "iret")
       /\ stack' = [stack EXCEPT ![t] = Tail(@)]
       /\ IF c_isidle[c]
          THEN mode' = [mode EXCEPT ![c] = "unidle"] /\ UNCHANGED <<splVars, irq>>
          ELSE /\ t_curspl' = [t_curspl EXCEPT ![t] = 0] /\ Raised(t, -1)
               /\ irq' = [irq EXCEPT ![c] = TRUE]
               /\ UNCHANGED mode
       /\ UNCHANGED <<curthread, c_isidle, c_hardclocks, queueVars, lockVars, ipiVars>>

\* interprocessor_interrupt, as far as c_ipi_lock.
IpiLock(c) ==
    /\ Executes(c, "ipi") /\ ipilock[c] = NoCPU
    /\ ipilock' = [ipilock EXCEPT ![c] = c]
    /\ Raised(curthread[c], 1)
    /\ Goto(c, "ipibits")
    /\ UNCHANGED <<cpuVars, queueVars, rqlock, wclock, ipiVars, t_curspl>>

\* A request to stop: cpu_halt, with c_ipi_lock held, after a look at c_isidle
\* under the run queue lock.  (IPI_PANIC is in Panic.)
IpiHalt(c) ==
    /\ Executes(c, "ipibits") /\ "offline" \in c_ipi_pending[c] /\ rqlock[c] = NoCPU
    /\ mode' = [mode EXCEPT ![c] = "halted"]
    /\ UNCHANGED <<curthread, c_isidle, c_hardclocks, irq, queueVars, lockVars, ipiVars, splVars, stack>>

\* IPI_UNIDLE needs nothing.
IpiHandled(c) ==
    /\ Executes(c, "ipibits") /\ "offline" \notin c_ipi_pending[c]
    /\ c_ipi_pending' = [c_ipi_pending EXCEPT ![c] = {}]
    /\ ipilock' = [ipilock EXCEPT ![c] = NoCPU]
    /\ Raised(curthread[c], -1)
    /\ Goto(c, "ipiclear")
    /\ UNCHANGED <<cpuVars, queueVars, rqlock, wclock, ipiline, closing, t_curspl>>

lamebus_clear_ipi(c) ==
    /\ Executes(c, "ipiclear")
    /\ ipiline' = [ipiline EXCEPT ![c] = FALSE]
    /\ Goto(c, "iret")
    /\ UNCHANGED <<cpuVars, queueVars, lockVars, c_ipi_pending, closing, splVars>>

\* ipi_send, under the sender's other locks.
ipi_send(target, code) ==
    /\ ipilock[target] = NoCPU
    /\ c_ipi_pending' = [c_ipi_pending EXCEPT ![target] = @ \union {code}]
    /\ ipiline' = [ipiline EXCEPT ![target] = TRUE]

-----------------------------------------------------------------------------
(* thread_switch *)

\* The current thread is put away under the run queue lock, which the next
\* thread will release.
Away(c, state) ==
    /\ rqlock[c] = NoCPU
    /\ rqlock' = [rqlock EXCEPT ![c] = c]
    /\ t_state' = [t_state EXCEPT ![curthread[c]] = state]
    /\ mode' = [mode EXCEPT ![c] = "pick"]
    /\ irq' = [irq EXCEPT ![c] = FALSE]
    /\ t_curspl' = [t_curspl EXCEPT ![curthread[c]] = 1]
    /\ UNCHANGED <<curthread, c_isidle, c_hardclocks, ipilock, ipiVars, t_cpu>>

\* splhigh and the spinlock: one each, unless the level was high already.
SwitchRaise(t) == 2 - t_curspl[t]

\* S_READY, voluntarily or from hardclock.  It does nothing on an idle CPU or
\* when nobody else is ready.
thread_yield(c) ==
    LET t == curthread[c]
    IN /\ Executes(c, "yield") \/ (Executes(c, "run") /\ ~c_isidle[c])
       /\ IF c_isidle[c] \/ c_runqueue[c] = <<>>
          THEN /\ c_isidle[c] \/ rqlock[c] = NoCPU
               /\ Goto(c, Back(t))
               /\ Top(c).pc = "yield"
               /\ UNCHANGED <<cpuVars, queueVars, lockVars, ipiVars, splVars>>
          ELSE /\ Away(c, "S_READY")
               /\ c_runqueue' = [c_runqueue EXCEPT ![c] = Append(@, t)]
               /\ Raised(t, SwitchRaise(t))
               /\ Goto(c, Back(t))
               /\ UNCHANGED <<c_zombies, wc, wclock>>

\* wchan_lock, and wchan_sleep.
wchan_lock(c) ==
    /\ Executes(c, "run") /\ wclock = NoCPU
    /\ wclock' = c /\ SpinTaken(c)
    /\ Goto(c, "sleep")
    /\ UNCHANGED <<curthread, mode, c_isidle, c_hardclocks, queueVars, rqlock, ipilock, ipiVars, t_curspl>>

wchan_sleep(c) ==
    LET t == curthread[c]
    IN /\ Executes(c, "sleep")
       /\ Away(c, "S_SLEEP")
       /\ wc' = Append(wc, t) /\ wclock' = NoCPU
       /\ Raised(t, SwitchRaise(t) - 1)
       /\ Goto(c, "run")
       /\ UNCHANGED <<c_runqueue, c_zombies>>

\* thread_exit: splhigh, then S_ZOMBIE.  The menu thread does not exit.
thread_exit(c) ==
    LET t == curthread[c]
    IN /\ Executes(c, "run") /\ t # BootThread(0)
       /\ Away(c, "S_ZOMBIE")
       /\ c_zombies' = [c_zombies EXCEPT ![c] = Append(@, t)]
       /\ Raised(t, SwitchRaise(t))
       /\ Goto(c, "dead")
       /\ UNCHANGED <<c_runqueue, wc, wclock>>

\* The loop of thread_switch: the head of the run queue, or idle.
PickNext(c) ==
    /\ mode[c] = "pick" /\ c_runqueue[c] # <<>>
    /\ curthread' = [curthread EXCEPT ![c] = Head(c_runqueue[c])]
    /\ c_runqueue' = [c_runqueue EXCEPT ![c] = Tail(@)]
    /\ c_isidle' = [c_isidle EXCEPT ![c] = FALSE]
    /\ mode' = [mode EXCEPT ![c] = "resume"]
    /\ UNCHANGED <<c_hardclocks, irq, c_zombies, wc, t_cpu, t_state, lockVars, ipiVars, splVars, stack>>

PickIdle(c) ==
    /\ mode[c] = "pick" /\ c_runqueue[c] = <<>>
    /\ c_isidle' = [c_isidle EXCEPT ![c] = TRUE]
    /\ rqlock' = [rqlock EXCEPT ![c] = NoCPU]
    /\ Raised(curthread[c], -1)
    /\ mode' = [mode EXCEPT ![c] = "idle"]
    /\ UNCHANGED <<curthread, c_hardclocks, irq, queueVars, ipilock, wclock, ipiVars, t_curspl, stack>>

\* Mutant: the loop goes on only when the interrupt is still marked pending.
UnidleWaitsForFlag(c) ==
    /\ mode[c] = "unidle" /\ rqlock[c] = NoCPU /\ c_ipi_pending[c] # {}
    /\ rqlock' = [rqlock EXCEPT ![c] = c]
    /\ Raised(curthread[c], 1)
    /\ mode' = [mode EXCEPT ![c] = "pick"]
    /\ UNCHANGED <<curthread, c_isidle, c_hardclocks, irq, queueVars, ipilock, wclock, ipiVars, t_curspl, stack>>

\* After cpu_idle the run queue is locked again.
Unidle(c) ==
    /\ mode[c] = "unidle" /\ rqlock[c] = NoCPU
    /\ rqlock' = [rqlock EXCEPT ![c] = c]
    /\ Raised(curthread[c], 1)
    /\ mode' = [mode EXCEPT ![c] = "pick"]
    /\ UNCHANGED <<curthread, c_isidle, c_hardclocks, irq, queueVars, ipilock, wclock, ipiVars, t_curspl, stack>>

Members(s) == {s[i] : i \in DOMAIN s}

\* exorcise: the zombies of this CPU.
exorcise(c) == Members(c_zombies[c])

\* The end of thread_switch, or the beginning of thread_startup, in the next
\* thread: the run queue is unlocked, zombies are destroyed, and the level goes
\* back to where this thread had it.
Resume(c) ==
    LET t == curthread[c]
        high == InInterrupt(t)
    IN /\ mode[c] = "resume"
       /\ rqlock' = [rqlock EXCEPT ![c] = NoCPU]
       /\ c_zombies' = [c_zombies EXCEPT ![c] = <<>>]
       /\ t_state' = [z \in Thr |-> IF z \in exorcise(c) THEN "free"
                                    ELSE IF z = t THEN "S_RUN" ELSE t_state[z]]
       /\ mode' = [mode EXCEPT ![c] = "thread"]
       /\ t_curspl' = [t_curspl EXCEPT ![t] = IF high THEN 1 ELSE 0]
       /\ t_iplhigh_count' = [z \in Thr |-> IF z \in exorcise(c) THEN 1
                                ELSE IF z = t THEN t_iplhigh_count[t] - (IF high THEN 1 ELSE 2)
                                ELSE t_iplhigh_count[z]]
       /\ irq' = [irq EXCEPT ![c] = t_iplhigh_count'[t] = 0]
       /\ t_cpu' = [z \in Thr |-> IF z \in exorcise(c) THEN 0 ELSE t_cpu[z]]
       /\ stack' = [z \in Thr |-> IF z \in exorcise(c) THEN <<Frame("run")>> ELSE stack[z]]
       /\ UNCHANGED <<curthread, c_isidle, c_hardclocks, c_runqueue, wc, ipilock, wclock, ipiVars>>

-----------------------------------------------------------------------------
(* Making threads runnable *)

\* Mutant: the new thread does not account for the lock it will release.
ForkedCountOne == 1

\* t_iplhigh_count of a new thread: for t_curspl, and for the run queue lock.
ForkedCount == 2

\* thread_fork, up to thread_make_runnable.
thread_fork(c, new) ==
    /\ Executes(c, "run") /\ t_state[new] = "free" /\ \A t \in 1 .. (new - 1) : t_state[t] # "free"
    /\ t_state' = [t_state EXCEPT ![new] = "S_READY"]
    /\ t_cpu' = [t_cpu EXCEPT ![new] = c]
    /\ t_curspl' = [t_curspl EXCEPT ![new] = 1]
    /\ t_iplhigh_count' = [t_iplhigh_count EXCEPT ![new] = ForkedCount]
    /\ stack' = [stack EXCEPT ![new] = <<Frame("run")>>,
                              ![curthread[c]][1] = [Frame("wake") EXCEPT !.carry = <<new>>]]
    /\ UNCHANGED <<cpuVars, c_runqueue, c_zombies, wc, lockVars, ipiVars>>

\* wchan_wakeone and wchan_wakeall, by a thread or a device interrupt.
Woken(c, n) ==
    /\ wclock = NoCPU
    /\ wc' = SubSeq(wc, n + 1, Len(wc))
    /\ SetTop(curthread[c], IF n = 0 THEN Frame(Back(curthread[c]))
                            ELSE [Frame("wake") EXCEPT !.carry = SubSeq(wc, 1, n)])
    /\ UNCHANGED <<cpuVars, c_runqueue, c_zombies, t_cpu, t_state, lockVars, ipiVars, splVars>>

wchan_wakeone(c) == Executes(c, "device") /\ Woken(c, IF wc = <<>> THEN 0 ELSE 1)
wchan_wakeall(c) ==
    /\ Executes(c, "device") \/ (Executes(c, "run") /\ wc # <<>>)
    /\ Woken(c, Len(wc))

\* The thread that the top frame of c hands over next, and the frame after it.
InHand(c) == Head(Top(c).carry)
HandedOver(c) == IF Len(Top(c).carry) = 1 THEN Frame(Back(curthread[c]))
                 ELSE [Top(c) EXCEPT !.pc = "wake", !.carry = Tail(@)]

\* Mutant: an idle CPU is not told.
TellsNobody(c) == FALSE

Tells(c) == c_isidle[c]

\* thread_make_runnable: onto the run queue of its CPU; an idle CPU is sent
\* an interrupt under the same lock.
thread_make_runnable(c) ==
    LET target == t_cpu[InHand(c)]
    IN /\ Executes(c, "wake") /\ rqlock[target] = NoCPU
       /\ c_runqueue' = [c_runqueue EXCEPT ![target] = Append(@, InHand(c))]
       /\ IF Tells(target)
          THEN /\ rqlock' = [rqlock EXCEPT ![target] = c]
               /\ SpinTaken(c)
               /\ SetTop(curthread[c], [Top(c) EXCEPT !.pc = "send"])
          ELSE SetTop(curthread[c], HandedOver(c)) /\ UNCHANGED <<rqlock, irq, splVars>>
       /\ UNCHANGED <<curthread, mode, c_isidle, c_hardclocks, c_zombies, wc, t_cpu, t_state,
                      ipilock, wclock, ipiVars, t_curspl>>

SendUnidle(c) ==
    LET target == t_cpu[InHand(c)]
        t == curthread[c]
    IN /\ Executes(c, "send")
       /\ ipi_send(target, "unidle")
       /\ rqlock' = [rqlock EXCEPT ![target] = NoCPU]
       /\ Raised(t, -1)
       /\ irq' = [irq EXCEPT ![c] = t_iplhigh_count'[t] = 0]
       /\ SetTop(t, HandedOver(c))
       /\ UNCHANGED <<curthread, mode, c_isidle, c_hardclocks, queueVars, ipilock, wclock, closing, t_curspl>>

-----------------------------------------------------------------------------
(* The clock and migration *)

hardclock(c) ==
    LET n == (c_hardclocks[c] + 1) % MIGRATE_HARDCLOCKS
    IN /\ Executes(c, "timer")
       /\ c_hardclocks' = [c_hardclocks EXCEPT ![c] = n]
       /\ Goto(c, IF n = 0 THEN "migcount" ELSE "yield")
       /\ UNCHANGED <<curthread, mode, c_isidle, irq, queueVars, lockVars, ipiVars, splVars>>

OneShare(total) == (total + NCPU - 1) \div NCPU

\* thread_consider_migration: the run queues are counted one at a time.
MigrateCount(c) ==
    LET m == Top(c).m
        n == Len(c_runqueue[m.i])
        sum == [m EXCEPT !.i = @ + 1, !.total = @ + n, !.my = IF m.i = c THEN n ELSE @]
        share == OneShare(sum.total)
    IN /\ Executes(c, "migcount") /\ rqlock[m.i] = NoCPU
       /\ SetTop(curthread[c],
            IF m.i < NCPU - 1 THEN [Top(c) EXCEPT !.m = sum]
            ELSE IF sum.my < share THEN Frame("yield")
            ELSE [Top(c) EXCEPT !.pc = "migtake",
                                !.m = [sum EXCEPT !.i = 0, !.send = sum.my - share]])
       /\ UNCHANGED <<cpuVars, queueVars, lockVars, ipiVars, splVars>>

\* The victims come from the tail of the own queue.
MigrateTake(c) ==
    LET q == c_runqueue[c]
        keep == Len(q) - Top(c).m.send
    IN /\ Executes(c, "migtake") /\ rqlock[c] = NoCPU
       /\ c_runqueue' = [c_runqueue EXCEPT ![c] = SubSeq(q, 1, keep)]
       /\ SetTop(curthread[c], [Top(c) EXCEPT !.pc = "migsend", !.carry = SubSeq(q, keep + 1, Len(q))])
       /\ UNCHANGED <<cpuVars, c_zombies, wc, t_cpu, t_state, lockVars, ipiVars, splVars>>

\* Mutant: curthread is sent like any other thread.
SentEvenCurrent(c, victims) == victims

\* The victims that may go: the current thread of an idle CPU may be among them.
Sent(c, victims) ==
    IF curthread[c] \notin Members(victims) THEN victims
    ELSE LET k == CHOOSE i \in DOMAIN victims : victims[i] = curthread[c]
         IN SubSeq(victims, 1, k - 1) \o SubSeq(victims, k + 1, Len(victims))

\* CPU i takes victims until it has its share.
MigrateSend(c) ==
    LET f == Top(c)
        i == f.m.i
        room == OneShare(f.m.total) - Len(c_runqueue[i])
        \* one victim more is looked at while there is room and something to send
        looked == Cardinality({k \in 1 .. f.m.send :
                     Len(Sent(c, SubSeq(f.carry, 1, k - 1))) < room})
        seen == SubSeq(f.carry, 1, looked)
        goes == Sent(c, seen)
        stays == SubSeq(f.carry, looked + 1, Len(f.carry))
        mine == IF curthread[c] \in Members(seen) THEN <<curthread[c]>> ELSE <<>>
    IN /\ Executes(c, "migsend") /\ i < NCPU /\ f.m.send > 0
       /\ i # c => rqlock[i] = NoCPU
       /\ LET none == i = c \/ looked = 0
          IN IF none THEN /\ SetTop(curthread[c], [f EXCEPT !.m.i = @ + 1])
                          /\ UNCHANGED <<c_runqueue, t_cpu, c_ipi_pending, ipiline>>
             ELSE /\ SetTop(curthread[c], [f EXCEPT !.carry = stays \o mine, !.m.i = @ + 1,
                                                    !.m.send = @ - looked])
                  /\ c_runqueue' = [c_runqueue EXCEPT ![i] = @ \o goes]
                  /\ t_cpu' = [t \in Thr |-> IF t \in Members(goes) THEN i ELSE t_cpu[t]]
                  /\ IF goes # <<>> /\ c_isidle[i] THEN ipi_send(i, "unidle")
                     ELSE UNCHANGED <<c_ipi_pending, ipiline>>
       /\ UNCHANGED <<cpuVars, c_zombies, wc, t_state, lockVars, closing, splVars>>

\* What is left goes back.
MigrateBack(c) ==
    LET f == Top(c)
    IN /\ Executes(c, "migsend") /\ (f.m.i = NCPU \/ f.m.send = 0)
       /\ f.carry # <<>> => rqlock[c] = NoCPU
       /\ c_runqueue' = [c_runqueue EXCEPT ![c] = @ \o f.carry]
       /\ Goto(c, "yield")
       /\ UNCHANGED <<cpuVars, c_zombies, wc, t_cpu, t_state, lockVars, ipiVars, splVars>>

-----------------------------------------------------------------------------
(* Starting and stopping CPUs *)

\* thread_start_cpus: a secondary CPU reaches cpu_hatch and turns interrupts
\* on; its startup thread will exit.
cpu_hatch(c) ==
    LET t == curthread[c]
    IN /\ mode[c] = "off"
       /\ mode' = [mode EXCEPT ![c] = "thread"]
       /\ irq' = [irq EXCEPT ![c] = TRUE]
       /\ t_state' = [t_state EXCEPT ![t] = "S_RUN"]
       /\ t_curspl' = [t_curspl EXCEPT ![t] = 0]
       /\ Raised(t, -1)
       /\ UNCHANGED <<curthread, c_isidle, c_hardclocks, c_runqueue, c_zombies, wc, t_cpu, lockVars, ipiVars, stack>>

\* thread_shutdown: the others are told one by one, then this CPU stops.
ShutdownBegin(c) ==
    /\ Executes(c, "run") /\ ~closing /\ \A d \in CPU : mode[d] # "off"
    /\ closing' = TRUE
    /\ Goto(c, "close")
    /\ UNCHANGED <<cpuVars, queueVars, lockVars, c_ipi_pending, ipiline, splVars>>

ipi_broadcast(c) ==
    LET i == Top(c).m.i
    IN /\ Executes(c, "close") /\ i < NCPU
       /\ IF i = c THEN UNCHANGED <<c_ipi_pending, ipiline>> ELSE ipi_send(i, "offline")
       /\ SetTop(curthread[c], [Top(c) EXCEPT !.m.i = @ + 1])
       /\ UNCHANGED <<cpuVars, queueVars, lockVars, closing, splVars>>

ShutdownEnd(c) ==
    /\ Executes(c, "close") /\ Top(c).m.i = NCPU
    /\ mode' = [mode EXCEPT ![c] = "halted"]
    /\ irq' = [irq EXCEPT ![c] = FALSE]
    /\ UNCHANGED <<curthread, c_isidle, c_hardclocks, queueVars, lockVars, ipiVars, splVars, stack>>

-----------------------------------------------------------------------------
\* What a CPU does once it has begun; it does not include what threads choose
\* to do next and what interrupts it.
Continue(c) ==
    \/ (Interrupt(c, "ipi") \/ IpiLock(c) \/ IpiHandled(c) \/ IpiHalt(c) \/ lamebus_clear_ipi(c))
    \/ Iret(c) \/ (thread_yield(c) /\ Top(c).pc = "yield") \/ wchan_sleep(c)
    \/ PickNext(c) \/ PickIdle(c) \/ Unidle(c) \/ Resume(c)
    \/ wchan_wakeone(c) \/ thread_make_runnable(c) \/ SendUnidle(c)
    \/ hardclock(c) \/ MigrateCount(c) \/ MigrateTake(c) \/ MigrateSend(c) \/ MigrateBack(c)
    \/ ipi_broadcast(c) \/ ShutdownEnd(c)

\* Bound: once the system is being stopped nothing new is begun.
Choose(c) ==
    /\ ~closing
    /\ \/ Interrupt(c, "timer") \/ Interrupt(c, "device")
       \/ (thread_yield(c) /\ Top(c).pc = "run") \/ wchan_lock(c) \/ thread_exit(c) \/ wchan_wakeall(c)
       \/ \E t \in Thr : thread_fork(c, t)
       \/ cpu_hatch(c)
       \/ ShutdownBegin(c)

TsNext == \E c \in CPU : Continue(c) \/ Choose(c)

TsSpec == TsInit /\ [][TsNext]_tsVars /\ \A c \in CPU : SF_tsVars(Continue(c))

-----------------------------------------------------------------------------
\* The threads a frame is handing over.
Carried(f) == IF f.pc = "send" THEN Tail(f.carry) ELSE f.carry
Places(t) ==
    (UNION {{<<"runqueue", c, i>> : i \in {j \in DOMAIN c_runqueue[c] : c_runqueue[c][j] = t}}
            \union {<<"zombies", c, i>> : i \in {j \in DOMAIN c_zombies[c] : c_zombies[c][j] = t}} : c \in CPU})
    \union {<<"wchan", i>> : i \in {j \in DOMAIN wc : wc[j] = t}}
    \union (UNION {{<<"frame", u, k>> : k \in {j \in DOMAIN stack[u] : t \in Members(Carried(stack[u][j]))}}
                   : u \in {x \in Thr : t_state[x] # "free"}})

\* CPUs that stand on the stack of thread t, and have put it away already.
On(t) == {c \in CPU : curthread[c] = t}
Leaving(c) == mode[c] = "pick" \/ c_isidle[c]

\* No thread is lost and none is queued twice (thread_switch, lines 569-645,
\* thread_consider_migration, lines 845-958): each one is current on a CPU, or
\* in exactly one place: a run queue, the wait channel, a zombie list, or the
\* hands of a thread that is about to queue it.  And no stack is used by two
\* CPUs, or freed while a CPU stands on it: a thread that an idle CPU has not
\* left yet is on no other CPU's run queue (line 920), and zombies are destroyed
\* only from another stack (exorcise, line 278).
ThreadsAccounted ==
    \A t \in Thr :
        /\ Cardinality(Places(t)) =
              IF t_state[t] = "free" \/ \E c \in On(t) : ~Leaving(c) THEN 0 ELSE 1
        /\ Cardinality(On(t)) <= 1
        /\ \A c \in On(t) : /\ t_state[t] # "free"
                            /\ \A d \in CPU \ {c} : t \notin Members(c_runqueue[d])

\* The interrupt level adds up although a lock is taken by one thread and
\* released by the next (thread_fork, line 526; thread_switch, line 709): the
\* count of the thread on a CPU is its recorded level plus the spinlocks that
\* the CPU holds, a thread that is off its CPU has counted the run queue lock
\* that it will release, and interrupts are on only when the count is zero.
IplExact ==
    /\ \A c \in CPU : mode[c] \notin {"off", "halted"} =>
         LET t == curthread[c]
             held == Cardinality({d \in CPU : rqlock[d] = c}) + Cardinality({d \in CPU : ipilock[d] = c})
                     + (IF wclock = c THEN 1 ELSE 0)
         IN /\ t_iplhigh_count[t] = t_curspl[t] + held
            /\ irq[c] => t_iplhigh_count[t] = 0
            /\ mode[c] = "thread" /\ ~irq[c] => t_iplhigh_count[t] > 0
    /\ \A t \in Thr : t_state[t] = "S_READY" /\ On(t) = {} => t_iplhigh_count[t] = 2

\* A CPU that waits for an interrupt although a thread is on its run queue is
\* going to get one (thread_make_runnable, lines 452-460; lines 932-937).
IdleTold ==
    \A c \in CPU : mode[c] = "idle" /\ c_runqueue[c] # <<>> => ipiline[c] \/ rqlock[c] # NoCPU

\* So a thread that is made runnable on an idle CPU gets the CPU, with no help
\* from the clock, unless the system is being stopped.
IdleServes ==
    \A c \in CPU : c_isidle[c] /\ c_runqueue[c] # <<>> ~> ~c_isidle[c] \/ closing
=============================================================================
