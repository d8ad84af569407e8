-------------------------------- MODULE Proc --------------------------------
(***************************************************************************)
(* The process table of Toy-OS and the system calls that work on it:        *)
(* kern/proc/proc.c, fork, _exit and waitpid of                             *)
(* kern/syscall/proc_syscalls.c, and common_prog of kern/startup/menu.c.    *)
(*                                                                         *)
(* A thread is the kernel menu thread or the one thread of a process, named *)
(* by the storage of its struct proc.  What a thread does while it holds    *)
(* global_mutex (a sleep lock, see Monitor) is one step, except that the    *)
(* search of add_to_active_proc_list and its store are two, because a fork  *)
(* that fails calls proc_destroy without the lock, in several steps.        *)
(* _exit's address space work comes before the lock and is not seen here.   *)
(***************************************************************************)
EXTENDS Integers, FiniteSets

CONSTANTS
    Proc,       \* storage for struct proc; kfree makes it available again
    Menu,       \* the kernel menu thread
    NULL,
    PID_MAX,    \* active_proc_list has the indices 0 .. PID_MAX
    Faults,     \* which rare events happen: see the assumption
    MaxSignals  \* the menu's thread_fork fails only below this count of
                \* no_proc_sem (bound)

PID_MIN == 2

\* "fork": as_copy, kmalloc or thread_fork fails in sys_fork.
\* "menu": thread_fork fails in common_prog.
\* "badpid": a program passes waitpid a number outside PID_MIN .. PID_MAX.
ASSUME ProcAssumption ==
    /\ PID_MAX \in Nat /\ PID_MAX >= PID_MIN
    /\ Faults \subseteq {"fork", "menu", "badpid"}
    /\ MaxSignals \in Nat
    /\ NULL \notin Proc /\ Menu \notin Proc /\ Menu # NULL

Thread == Proc \union {Menu}
Slot == PID_MIN .. PID_MAX

VARIABLES
    proc,               \* struct proc storage -> its fields
    active_proc_list,   \* pid -> storage or NULL
    current_largest_pid,
    proc_count,
    no_proc_sem,        \* count of the semaphore the menu thread waits on
    global_mutex,       \* the thread that holds it, or NULL
    pc,                 \* where each thread is in the kernel
    loc,                \* its local variables
    panicked,           \* a KASSERT failed, the machine stops
    overrun             \* an index beyond active_proc_list was written

vars == <<proc, active_proc_list, current_largest_pid, proc_count, no_proc_sem,
          global_mutex, pc, loc, panicked, overrun>>

\* realparent is history: the process that forked this one, while it exists.
Unallocated == [live |-> FALSE, pid |-> 0, parent_pid |-> -1, exit |-> 0,
                realparent |-> NULL]

\* new: new_proc or child of the system call; slot: the index found by the
\* search, 0 for none; largest: the value proc_destroy compared with.
NoLocals == [new |-> NULL, slot |-> 0, largest |-> 0]

Init ==
    /\ proc = [p \in Proc |-> Unallocated]
    /\ active_proc_list = [i \in Slot |-> NULL]
    /\ current_largest_pid = PID_MIN
    /\ proc_count = 0
    /\ no_proc_sem = 0
    /\ global_mutex = NULL
    /\ pc = [t \in Thread |-> IF t = Menu THEN "prompt" ELSE "none"]
    /\ loc = [t \in Thread |-> NoLocals]
    /\ panicked = FALSE
    /\ overrun = FALSE

Goto(t, label) == pc' = [pc EXCEPT ![t] = label]

Locked == global_mutex # NULL

-----------------------------------------------------------------------------
(* proc_destroy: the pieces, and the whole for a set of processes. *)

\* kfree(proc); a process that outlives its parent has none from then on.
Freed(S) ==
    [q \in Proc |-> IF q \in S THEN Unallocated
                    ELSE IF proc[q].realparent \in S
                    THEN [proc[q] EXCEPT !.realparent = NULL]
                    ELSE proc[q]]

\* Mutant: the menu is signalled for every process that goes.
UncountSignalsAlways(n) ==
    /\ proc_count' = proc_count - n
    /\ no_proc_sem' = no_proc_sem + 1

\* The end of proc_destroy: proc_count drops, and the menu is told at zero.
Uncount(n) ==
    /\ proc_count' = proc_count - n
    /\ no_proc_sem' = IF n > 0 /\ proc_count = n THEN no_proc_sem + 1 ELSE no_proc_sem

\* active_proc_list[proc->pid] = NULL for every process of S.
Removed(S) ==
    [i \in Slot |-> IF \E q \in S : proc[q].pid = i THEN NULL ELSE active_proc_list[i]]

\* Mutant: current_largest_pid is lowered whatever pid is freed.
LoweredAlways(largest, S) == IF S = {} THEN largest ELSE largest - 1

\* --current_largest_pid when a process of S has that pid.
Lowered(largest, S) ==
    IF \E q \in S : proc[q].pid = largest THEN largest - 1 ELSE largest

-----------------------------------------------------------------------------
(* sys_fork and common_prog *)

\* check_proc_limit lets the fork begin.
ForkBegin(p) ==
    /\ pc[p] = "user"
    /\ proc_count # PID_MAX - PID_MIN + 1
    /\ Goto(p, "create")
    /\ UNCHANGED <<proc, active_proc_list, current_largest_pid, proc_count,
                   no_proc_sem, global_mutex, loc, panicked, overrun>>

\* A command of the menu that runs a program.
MenuBegin ==
    /\ pc[Menu] = "prompt"
    /\ Goto(Menu, "create")
    /\ UNCHANGED <<proc, active_proc_list, current_largest_pid, proc_count,
                   no_proc_sem, global_mutex, loc, panicked, overrun>>

\* Back in the program, or at the prompt.
Home(t) == IF t = Menu THEN "prompt" ELSE "user"

\* proc_create_runprogram up to proc_count++.
Create(t, new) ==
    /\ pc[t] = "create"
    /\ ~proc[new].live /\ pc[new] = "none"
    /\ proc' = [proc EXCEPT ![new].live = TRUE]
    /\ proc_count' = proc_count + 1
    /\ loc' = [loc EXCEPT ![t].new = new]
    /\ Goto(t, "add")
    /\ UNCHANGED <<active_proc_list, current_largest_pid, no_proc_sem,
                   global_mutex, panicked, overrun>>

\* kmalloc fails in proc_create_runprogram: ENOMEM, and nothing to undo.
CreateFail(t) ==
    /\ pc[t] = "create"
    /\ Goto(t, Home(t))
    /\ UNCHANGED <<proc, active_proc_list, current_largest_pid, proc_count,
                   no_proc_sem, global_mutex, loc, panicked, overrun>>

\* The lowest free index up to current_largest_pid, 0 when there is none.
FreeSlot ==
    LET free == {i \in Slot : i <= current_largest_pid /\ active_proc_list[i] = NULL}
    IN IF free = {} THEN 0 ELSE CHOOSE i \in free : \A j \in free : i <= j

\* lock_acquire(global_mutex) and the search of add_to_active_proc_list.
AddSearch(t) ==
    /\ pc[t] = "add" /\ ~Locked
    /\ global_mutex' = t
    /\ loc' = [loc EXCEPT ![t].slot = FreeSlot]
    /\ Goto(t, "store")
    /\ UNCHANGED <<proc, active_proc_list, current_largest_pid, proc_count,
                   no_proc_sem, panicked, overrun>>

\* The store, and lock_release: in the free slot, or in a new one above.
AddStore(t) ==
    LET new == loc[t].new
        pid == IF loc[t].slot # 0 THEN loc[t].slot ELSE current_largest_pid + 1
    IN /\ pc[t] = "store"
       /\ current_largest_pid' = IF loc[t].slot # 0 THEN current_largest_pid ELSE pid
       /\ proc' = [proc EXCEPT ![new].pid = pid]
       /\ active_proc_list' = [i \in Slot |-> IF i = pid THEN new ELSE active_proc_list[i]]
       /\ overrun' = (overrun \/ pid > PID_MAX)
       /\ global_mutex' = NULL
       /\ Goto(t, "start")
       /\ UNCHANGED <<proc_count, no_proc_sem, loc, panicked>>

\* new_proc->parent_pid is assigned by sys_fork alone.
Adopted(t, new) ==
    IF t = Menu THEN proc
    ELSE [proc EXCEPT ![new].parent_pid = proc[t].pid, ![new].realparent = t]

\* as_copy and thread_fork succeed: the new process runs.
Start(t) ==
    /\ pc[t] = "start"
    /\ proc' = Adopted(t, loc[t].new)
    /\ pc' = [pc EXCEPT ![loc[t].new] = "user",
                        ![t] = IF t = Menu THEN "P" ELSE "return"]
    /\ loc' = IF t = Menu THEN [loc EXCEPT ![t] = NoLocals] ELSE loc
    /\ UNCHANGED <<active_proc_list, current_largest_pid, proc_count, no_proc_sem,
                   global_mutex, panicked, overrun>>

\* *retval = new_proc->pid, after the child may have run.
ForkReturn(p) ==
    /\ pc[p] = "return"
    /\ loc' = [loc EXCEPT ![p] = NoLocals]
    /\ Goto(p, "user")
    /\ UNCHANGED <<proc, active_proc_list, current_largest_pid, proc_count,
                   no_proc_sem, global_mutex, panicked, overrun>>

\* One of them fails: proc_destroy(new_proc), without global_mutex, begins.
StartFail(t) ==
    /\ pc[t] = "start"
    /\ IF t = Menu THEN "menu" \in Faults /\ no_proc_sem < MaxSignals
                   ELSE "fork" \in Faults
    /\ proc' = Adopted(t, loc[t].new)
    /\ active_proc_list' = [active_proc_list EXCEPT ![proc[loc[t].new].pid] = NULL]
    /\ Goto(t, "compare")
    /\ UNCHANGED <<current_largest_pid, proc_count, no_proc_sem, global_mutex,
                   loc, panicked, overrun>>

\* current_largest_pid is loaded for the comparison ...
UndoCompare(t) ==
    /\ pc[t] = "compare"
    /\ loc' = [loc EXCEPT ![t].largest = current_largest_pid]
    /\ Goto(t, "lower")
    /\ UNCHANGED <<proc, active_proc_list, current_largest_pid, proc_count,
                   no_proc_sem, global_mutex, panicked, overrun>>

\* ... and stored one lower; the struct is freed and the process uncounted.
\* The menu then returns to its prompt without P(no_proc_sem).
UndoLower(t) ==
    /\ pc[t] = "lower"
    /\ current_largest_pid' = IF proc[loc[t].new].pid = loc[t].largest
                              THEN loc[t].largest - 1 ELSE current_largest_pid
    /\ proc' = Freed({loc[t].new})
    /\ Uncount(1)
    /\ loc' = [loc EXCEPT ![t] = NoLocals]
    /\ Goto(t, Home(t))
    /\ UNCHANGED <<active_proc_list, global_mutex, panicked, overrun>>

\* common_prog: P(no_proc_sem), then the prompt again.
MenuP ==
    /\ pc[Menu] = "P" /\ no_proc_sem > 0
    /\ no_proc_sem' = no_proc_sem - 1
    /\ Goto(Menu, "prompt")
    /\ UNCHANGED <<proc, active_proc_list, current_largest_pid, proc_count,
                   global_mutex, loc, panicked, overrun>>

-----------------------------------------------------------------------------
(* sys__exit *)

\* Mutant: the loop stops one short of current_largest_pid.
ExitedChildrenShort(pid) ==
    {q \in Proc : /\ \E i \in Slot : i < current_largest_pid /\ active_proc_list[i] = q
                  /\ proc[q].parent_pid = pid /\ proc[q].exit = 1}

\* exited_children_cleanup(pid): the processes it destroys.
ExitedChildren(pid) ==
    {q \in Proc : /\ \E i \in Slot : i <= current_largest_pid /\ active_proc_list[i] = q
                  /\ proc[q].parent_pid = pid /\ proc[q].exit = 1}

\* parent_checker(parent_pid) = 1: somebody has that pid and has not exited.
HasParent(p) ==
    /\ proc[p].parent_pid # -1
    /\ active_proc_list[proc[p].parent_pid] # NULL
    /\ proc[active_proc_list[proc[p].parent_pid]].exit # 1

\* No parent is left: the exited children go, then the process itself.
ExitOrphan(p) ==
    LET children == ExitedChildren(proc[p].pid)
        gone == children \union {p}
    IN /\ pc[p] = "user" /\ ~Locked
       /\ ~HasParent(p)
       /\ active_proc_list' = Removed(gone)
       /\ current_largest_pid' = Lowered(Lowered(current_largest_pid, children), {p})
       /\ proc' = Freed(gone)
       /\ Uncount(Cardinality(gone))
       /\ Goto(p, "none")
       /\ UNCHANGED <<global_mutex, loc, panicked, overrun>>

\* Mutant: the process signals its own wait_child.
SignalledSelf(q) == pc

\* cv_signal(parent->wait_child): the parent's thread, if it sleeps there.
Signalled(q) == [pc EXCEPT ![q] = IF @ = "sleep" THEN "woken" ELSE @]

\* A parent may still ask: record the exit, wake it, drop the exited children.
ExitChild(p) ==
    LET parent == active_proc_list[proc[p].parent_pid]
        children == ExitedChildren(proc[p].pid)
    IN /\ pc[p] = "user" /\ ~Locked
       /\ HasParent(p)
       /\ proc' = [Freed(children) EXCEPT ![p].exit = 1]
       /\ pc' = [Signalled(parent) EXCEPT ![p] = "none"]
       /\ active_proc_list' = Removed(children)
       /\ current_largest_pid' = Lowered(current_largest_pid, children)
       /\ Uncount(Cardinality(children))
       /\ UNCHANGED <<global_mutex, loc, panicked, overrun>>

-----------------------------------------------------------------------------
(* sys_waitpid *)

\* The child has not exited: cv_wait(curproc->wait_child).
Sleep(p, child) ==
    /\ proc[child].exit # 1
    /\ loc' = [loc EXCEPT ![p].new = child]
    /\ Goto(p, "sleep")
    /\ UNCHANGED <<proc, active_proc_list, current_largest_pid, proc_count, no_proc_sem>>

\* It has: copy the exit code out and destroy it.
Reap(p, child) ==
    /\ proc[child].exit = 1
    /\ active_proc_list' = Removed({child})
    /\ current_largest_pid' = Lowered(current_largest_pid, {child})
    /\ proc' = Freed({child})
    /\ Uncount(1)
    /\ loc' = [loc EXCEPT ![p] = NoLocals]
    /\ Goto(p, "user")

\* It has, and the program's status pointer is bad: EFAULT, the child stays.
ReapFault(p, child) ==
    /\ proc[child].exit = 1
    /\ loc' = [loc EXCEPT ![p] = NoLocals]
    /\ Goto(p, "user")
    /\ UNCHANGED <<proc, active_proc_list, current_largest_pid, proc_count, no_proc_sem>>

WaitLoop(p, child) ==
    /\ ~Locked
    /\ Sleep(p, child) \/ Reap(p, child) \/ ReapFault(p, child)
    /\ UNCHANGED <<global_mutex, panicked, overrun>>

\* waitpid(pid).  An unused pid (ESRCH) and the pid of another's child
\* (ECHILD) change nothing.
Waitpid(p, pid) ==
    /\ pc[p] = "user"
    /\ active_proc_list[pid] # NULL
    /\ proc[active_proc_list[pid]].parent_pid = proc[p].pid
    /\ WaitLoop(p, active_proc_list[pid])

\* cv_wait returns and the loop looks at child->exit again.
WaitAgain(p) ==
    /\ pc[p] = "woken"
    /\ WaitLoop(p, loc[p].new)

\* find_proc asserts that the number is in range.
WaitpidBad(p) ==
    /\ "badpid" \in Faults
    /\ pc[p] = "user" /\ ~Locked
    /\ panicked' = TRUE
    /\ UNCHANGED <<proc, active_proc_list, current_largest_pid, proc_count,
                   no_proc_sem, global_mutex, pc, loc, overrun>>

-----------------------------------------------------------------------------
\* Steps a thread takes on its own once it is inside the kernel.
Kernel(t) ==
    \/ \E new \in Proc : Create(t, new)
    \/ CreateFail(t)
    \/ AddSearch(t) \/ AddStore(t) \/ Start(t)
    \/ StartFail(t) \/ UndoCompare(t) \/ UndoLower(t)

\* System calls and commands; which ones, programs and people decide.
Request(p) ==
    \/ ForkBegin(p)
    \/ ExitOrphan(p)
    \/ ExitChild(p)
    \/ \E pid \in Slot : Waitpid(p, pid)
    \/ WaitpidBad(p)

Running == ~panicked /\ ~overrun

Next ==
    /\ Running
    /\ \/ \E t \in Thread : Kernel(t)
       \/ \E p \in Proc : Request(p) \/ ForkReturn(p) \/ WaitAgain(p)
       \/ MenuBegin \/ MenuP

\* The scheduler runs every runnable thread: a thread inside the kernel that
\* can go on does.
Spec ==
    /\ Init /\ [][Next]_vars
    /\ \A t \in Thread : WF_vars(Running /\ Kernel(t))
    /\ WF_vars(Running /\ MenuP)

-----------------------------------------------------------------------------
Label == {"none", "user", "create", "add", "store", "start", "return",
          "compare", "lower", "sleep", "woken", "prompt", "P"}

\* Every variable keeps its type.
TypeOK ==
    /\ proc \in [Proc -> [live : BOOLEAN, pid : Nat, parent_pid : Int, exit : {0, 1},
                          realparent : Proc \union {NULL}]]
    /\ active_proc_list \in [Slot -> Proc \union {NULL}]
    /\ current_largest_pid \in Int
    /\ proc_count \in Nat
    /\ no_proc_sem \in Nat
    /\ global_mutex \in Thread \union {NULL}
    /\ pc \in [Thread -> Label]
    /\ loc \in [Thread -> [new : Proc \union {NULL}, slot : Nat, largest : Int]]
    /\ panicked \in BOOLEAN
    /\ overrun \in BOOLEAN

\* A fork that failed is giving the process up.
Dying(p) == \E t \in Thread : loc[t].new = p /\ pc[t] \in {"compare", "lower"}

\* The processes that belong in the table: allocated, with a pid, not dying.
Listed == {p \in Proc : proc[p].live /\ proc[p].pid # 0 /\ ~Dying(p)}

\* Process ids are unique and the table is exact (add_to_active_proc_list and
\* proc_destroy, proc.c:186-189 and 448-461): every process is found under its
\* pid, every entry is a process, and nothing lies beyond current_largest_pid,
\* where no search would find it.
TableExact ==
    ~overrun =>
        /\ \A p \in Listed : proc[p].pid \in Slot /\ active_proc_list[proc[p].pid] = p
        /\ \A i \in Slot : active_proc_list[i] # NULL =>
             /\ active_proc_list[i] \in Listed
             /\ proc[active_proc_list[i]].pid = i
             /\ i <= current_largest_pid

\* No thread keeps a pointer to a struct proc that was freed: neither the
\* child that waitpid sleeps for (proc_syscalls.c:158-163), nor the new_proc
\* that fork reads after the child may have run and exited (line 244).
NoDanglingPointer ==
    \A t \in Thread : loc[t].new # NULL => proc[loc[t].new].live

\* The process table can be trusted by everybody who goes through it or keeps
\* an entry of it: pids and entries are exact and no pointer outlives its
\* process (proc.c, sys_fork and sys_waitpid).
TableSound == TableExact /\ NoDanglingPointer

\* No wake-up is lost: a process sleeps in waitpid only for a child that has
\* not exited (proc_syscalls.c:69-74 against 158-160).
NoLostWakeup ==
    \A p \in Proc : pc[p] = "sleep" => proc[loc[p].new].exit = 0

\* Every zombie can still be collected: some process with the pid of its parent
\* runs, so a waitpid or that process's own _exit will destroy it
\* (exited_children_cleanup, proc.c:486-494).  A zombie nobody can collect
\* would keep proc_count above zero and the menu thread asleep for ever.
ZombieHasReaper ==
    \A p \in Listed : proc[p].exit = 1 =>
        \E q \in Listed : proc[q].pid = proc[p].parent_pid /\ proc[q].exit = 0

\* The menu is at its prompt only when no user process is left (menu.c:158-160).
PromptMeansIdle == pc[Menu] = "prompt" => \A p \in Proc : ~proc[p].live

\* Pids stay within the table of PID_MAX + 1 entries (proc.c:78-82).
NoOverrun == ~overrun

\* A process waits only for a process it forked itself (proc_syscalls.c:148).
\* It also excludes that two processes wait for each other.
WaitsForOwnChild ==
    \A p \in Proc : pc[p] \in {"sleep", "woken"} => proc[loc[p].new].realparent = p

\* A fork or a menu command that fails and calls proc_destroy without
\* global_mutex does no harm while nobody comes between its steps or relies on
\* the process it gives up: its slot is neither searched out nor filled again,
\* current_largest_pid does not move between its load and its store
\* (proc.c:186-189), and no process that exited meanwhile took the pid for its
\* parent's (proc_syscalls.c:58).  The code enforces none of this.
UndoHarmless ==
    \A t \in Thread : pc[t] \in {"compare", "lower"} =>
        LET pid == proc[loc[t].new].pid
        IN /\ active_proc_list[pid] = NULL
           /\ \A u \in Thread : pc[u] = "store" => loc[u].slot # pid
           /\ pc[t] = "lower" => current_largest_pid = loc[t].largest
           /\ \A q \in Proc : proc[q].exit = 1 => proc[q].parent_pid # pid

\* When every process has exited, waited for or not, the menu thread comes back
\* to its prompt (menu.c:158-160), as long as no failing fork was overtaken
\* while it undid its work: a process lost from the table, or an exited one
\* whose parent never came to be, keeps proc_count above zero for ever.
MenuReturns ==
    []UndoHarmless =>
        ((pc[Menu] = "P" /\ \A p \in Proc : pc[p] = "none") ~> pc[Menu] = "prompt")
=============================================================================
