# A TLA+ model of Toy-OS

Toy-OS is a teaching kernel in the OS/161 family: a small multiprocessor kernel
for the System/161 MIPS machine with kernel threads, sleep locks, a physical
page allocator, user address spaces, `fork`, `_exit`, `waitpid` and `execv`, a
VFS layer with a simple file system, device drivers and user programs.  This
directory holds TLA+ modules that model it, TLC configurations that check them
on small instances, and TLAPS proofs for instances of any size.

Paths below are relative to the repository; `dumbvm.c` is
`kern/arch/mips/vm/dumbvm.c`.

## 1. Inventory

| Part | State | Operations | Works with |
|---|---|---|---|
| Physical memory (`ram.c`, `dumbvm.c`) | `firstpaddr`, `lastpaddr`, `coremap[]` of (used, count), `vm_bootstrap_flag`, `coremap_lock` | `ram_stealmem`, `vm_bootstrap`, `coremap_alloc`, `coremap_dealloc` | kmalloc, address spaces, thread stacks |
| Address spaces, TLB, loading (`dumbvm.c`, `loadelf.c`, `runprogram.c`, `sys_execv`) | page tables of three segments, TLB, `loaded` | `vm_fault`, `as_create/copy/destroy/activate/prepare_load/complete_load`, `load_elf`, `runprogram`, `execv` | physical memory, processes, VFS |
| Kernel heap (`kern/vm/kmalloc.c`) | `sizebases`, `allbase`, pagerefs, free lists in pages | `kmalloc`, `kfree` | physical memory |
| C library heap and its test (`user/lib/libc/stdlib/malloc.c`, `user/testbin/malloctest`) | headers, heap bounds; the tests' pointers and marks | `malloc`, `free`, `sbrk`; seven tests | — |
| Random numbers (`user/lib/libc/stdlib/random.c`) | state arrays, front and rear pointers | `random`, `srandom`, `initstate`, `setstate` | — |
| Threads (`kern/thread`, `spl.c`, `clock.c`) | run queue per CPU, wait channels, zombies, interrupt level | `thread_fork`, `thread_switch`, `thread_exit`, `wchan_*`, `thread_consider_migration`, `hardclock`, IPIs | interrupts of timer, devices and other CPUs |
| Locks, condition variables, semaphores (`synch.c`) | `lk_holder`, `lk_lock`, wait channels, `sem_count` | `lock_acquire/release`, `cv_wait/signal/broadcast`, `P`, `V` | spinlocks, wait channels |
| Cats and mice (`kern/synchprobs`) | bowl locks, two condition variables, five counters | before and after eating, the driver | locks, condition variables, semaphores |
| Process table and system calls (`proc.c`, `proc_syscalls.c`) | `active_proc_list[]`, `current_largest_pid`, `proc_count`, `no_proc_sem`, `global_mutex`; per process `pid`, `parent_pid`, `exit` | `fork`, `_exit`, `waitpid` and the table operations under them | menu, threads, address spaces |
| Traps and copies (`locore`, `syscall.c`, `copyinout.c`) | trap frames, `cpustacks`, `cputhreads`, interrupt state, `tm_badfaultfunc` | `mips_trap`, `syscall`, `mips_usermode`, `copyin/out/str` | everything a program asks for |
| SFS, `mksfs`, `sfsck` | volume, free map, loaded inodes | open, close, read, write, truncate, link, remove, rename, sync, mount, unmount; repair | VFS, disk |
| VFS (`kern/vfs`) | `knowndevs`, vnode reference and open counts, current directories, boot volume | `vfs_*` | file systems, devices |
| Drivers (`kern/dev`) | disk card and its semaphores; emulator handles and vnode table; console ring and serial line; bus slots, masks and clock | I/O calls, interrupt handlers, attachment | semaphores, locks, VFS |
| Kernel library (`kern/lib`) | arrays, rings, bitmaps, thread lists, `uio` | pure data structures | everything |
| Boot, menu, shutdown, panic (`kern/startup`, `kprintf.c`) | line buffer, `evil` | boot order, cutting of lines, commands, five stages of `panic` | everything |
| Kernel tests, VM statistics (`kern/test`, `uw-vmstats.c`) | test objects, counters | `sy1`..`sy3`, `uw1`, `uw2`, `tt1`..`tt3`, `fs1`..`fs5` | primitives, VFS |
| Shell, parallel sort (`user/bin/sh`, `user/testbin/psort`) | job table; files of keys | commands, `wait`; phases of `fork` and `waitpid` | system calls |

What is hard here: system calls of several processes interleave around
`global_mutex`, `wait_child` and `no_proc_sem`; pids and `struct proc` storage
are reused while numbers and pointers to them are kept; `fork`, `execv`, mounts
and device probes fail after part of their work; wake-ups race with going to
sleep at three levels; a run queue lock is taken by one thread and released by
the next; TLB entries outlive the address space that made them; the machine
stops between two block writes; a request is retried after it was consumed;
interrupts meet code that polls the same card; rings, tables and pools have
ends.  `PROJECT.json` lists every part under `components` and every hazard, at
its line, under `hazards`.

What makes the parts correct:

* memory: a frame, a heap byte has one user; freeing returns exactly what was
  allocated; a process finds in its memory what it put there, and nobody else's;
* scheduler: no thread is lost or on two CPUs, the interrupt level adds up, an
  idle CPU with work wakes;
* lock, condition variable, semaphore: one holder, no lost wake-up; together, an
  ordinary monitor;
* process table: pids find their process, every zombie is collected, the prompt
  comes back when, and only when, the programs are gone;
* storage: a block has one use, what was written is read, what was synced
  survives a crash and the repair, no volume goes away under a user;
* drivers: an answer reaches the thread that asked, locks have an order, no
  interrupt arrives before its handler;
* traps: every trap returns to where it came from, with the state it found;
* the rest: reference definitions hold, tests judge right under every schedule,
  programs account for their children and files.

## 2. Modules

| Module | Models | Granularity |
|---|---|---|
| `Coremap` | boot-time and run-time page allocation | one step per call, as the code holds `coremap_lock` throughout |
| `CoremapScan` | the loops of `coremap_alloc` and `coremap_dealloc` | one step per iteration |
| `AddrSpace` (on `Coremap`) | address spaces, TLB, loading, and the memory side of `fork`, `execv`, `_exit` | one step per `as_*` call or page; a process may lose its CPU in between |
| `Kmalloc` | `kmalloc`, `kfree` | one step per section under `kmalloc_spinlock` |
| `UserMalloc`, `MallocTest` | the C library's heap; the program that tests it | one step per call (one thread) |
| `ThreadSched` | scheduler, interrupt entry, `spl`, clock, IPIs | one step per lock section of a CPU |
| `Monitor` | abstract lock with condition variable | one step per operation |
| `Synch` | lock and condition variable of `synch.c` | one step per spinlock operation or shared access |
| `Semaphore` | `P` and `V` | as `Synch` |
| `CatMouse` | creatures, their synchronisation, the driver | one step per section under `set_catmouse_eat` or `mutex` |
| `Proc` | process table, `fork`, `_exit`, `waitpid`, `common_prog` | one step per section under `global_mutex`; finer where no lock is held |
| `SfsDisk`, `Sfs`, `Sfsck` | on-disk format and `mksfs`; the file system; the checker | one step per section under `vfs_biglock`; a stop may fall after any block write inside it |
| `Vfs` | device table, names, reference counts, current directories | one step per section under `vfs_biglock` |
| `Disk`, `Emu`, `Console`, `Lamebus` | `lhd.c` with `sfs_rwblock`; `emu.c`; `console.c` on `lser.c`; bus, `autoconf.c` and clock | one step between two points where an interrupt or another thread can matter |
| `VnodeOps` | the tables of vnode operations | one step per call |
| `KernLib` | library against reference definitions | one step per call |
| `Traps` | kernel entry and exit, system call dispatch, recovery of copies | one step per point where another trap can arrive |
| `Menu`, `Panic` | boot, menu, shutdown; `kprintf`, `panic`, `IPI_PANIC` | one step per command or program read; one per test or assignment of `evil` |
| `KernTests`, `FsTests` | the kernel's own tests | one step per call of a primitive |
| `Random` | `random.c` | one step per call, one per iteration of `srandom` |
| `Shell`, `Psort` | the shell; the parallel sort | one step per command or exit; one per read or write of a work buffer |
| `CoremapProof`, `CoremapScanProof`, `AddrSpaceProof`, `ThreadSchedProof`, `SynchProof`, `ProcProof`, `DevicesProof`, `VfsProof` | theorems | — |
| `MCMemory`, `MCHeap`, `MCSync`, `MCProc`, `MCStorage`, `MCDevices`, `MCKernel` | instances for TLC | — |

Composition.  `AddrSpace` calls the actions of `Coremap` for every page it takes
or returns.  `Sfs` goes through the path operations of `vfspath.c` and ends in
`Sfsck` after a crash.  `Proc`, `CatMouse`, `KernTests` and the drivers use
locks, condition variables and semaphores as `Monitor` and `Semaphore` describe
them; `Synch` shows that `synch.c` is such a monitor.  An `MC` module with a
variable `part` runs parts that share nothing next to each other: `part` is
chosen at the start, so each part is explored by itself and no interleaving is
claimed between them.

Variables and actions carry the names of the C code where they can;
`PROJECT.json` ("map") gives the lines of each definition.  A definition whose
comment starts with "Mutant" is a faulty variant of the one after it.  It is not
part of any specification; it is used to confirm that a property notices that
fault.

### How state and actions correspond

The comment at the head of each module says what its state stands for.  Beyond
that:

*Coremap.*  Addresses are counted in pages.  `held` and `stolen` are history: the
block each owner was given and the pages taken before boot is complete.  An
owner frees what it was given, once, which the guard of `coremap_dealloc` says.
A free of a page taken before `vm_bootstrap` is not enabled: the stacks that
CPUs start on are of that kind, and `coremap_dealloc` would compute an index
below zero for them (`dumbvm.c:157`).

*CoremapScan.*  The refinement mapping shows the coremap as it was when the lock
was taken until the operation ends.

*AddrSpace.*  A page table entry is `held[<<as, page>>]` of `Coremap`.  `image` is
history: what the process should find in each page.  `PreemptAt` names the
places at which a process may lose its CPU, `MaxStolen` bounds the pages taken
before boot is complete.  A program that cannot be loaded stops the machine
(`thread_exit` asserts at `thread.c:790` that the process went through `_exit`).
So does running out of memory while the pages of an address space are
allocated: what `as_destroy` then frees is a null table, or whatever the unset
entries say, and nothing useful can be said of the states after it
(`fork_enomem` shows that it happens).

*UserMalloc, MallocTest.*  Addresses are counted in units.  A program of
`MallocTest` marks the units of its blocks, and the heap writes its headers over
what it is given, so a test reports exactly what it would see.

*Random.*  A word has `W` values instead of 2^32; degrees and separations are
small.

*Kmalloc.*  Sizes and pages are small numbers; a page's free list is a list of the
offsets of its free blocks.  `MaxLive` bounds what is allocated at one time.

*ThreadSched.*  A stack is named by its thread.  `cpu_idle` is a mode in which
only an interrupt continues; an IPI is a line that stays raised until
`lamebus_clear_ipi`.  The line is cleared after `c_ipi_pending` was read, so an IPI
that is sent in between stays pending without an interrupt; `IdleTold` holds
because the CPU is then inside the handler and looks at its run queue before it
idles again.

*Monitor and Synch.*  A spinlock is its holder, a wait channel its list and its
`wc_lock`.  `private` holds threads taken off a channel and not yet runnable.
`Standing` maps a place in the code to a monitor state: `lock_acquire` takes
effect when `lk_holder` is set, `lock_release` and `cv_wait` when it is cleared,
`cv_signal` and `cv_broadcast` when sleepers leave the list.

*Proc.*  A thread is the menu thread or the one thread of a process, named by
the storage of its `struct proc`; storage returns to the pool at `kfree`.
`realparent` is history.  The constant `Faults` says which rare events can
happen.  Exit codes, names, file descriptors and address spaces are left out.

*CatMouse.*  The mouse functions are the cat functions with the names exchanged,
so one definition takes the species as a parameter.  A failed check of
`cat_eat` or `mouse_eat` stops the machine (`panicked`).

*Sfs, Sfsck.*  A step computes with a store (`Then`, `Fail`, `Return`): the disk,
the memory, the error so far and the fault to come.  A read error is permanent
for one step, a crash strikes after `fuel` block writes.  `content` and `durable`
are history.  `Sfsck` is one operator from volumes to repaired volumes.  The
operator is taken not to mount a volume that `sfsck` says it could not repair;
`Mount` itself asks nothing.  `sfsck` says it has repaired two things that it has
not, a link count and a direct block after the end of a file (`Spoiled`): from
the mount of such a volume on (`spoiled`), `SfsSound`, `ReadBack` and
`SyncedSurvives` claim nothing, and the kernel can panic at `sfs_vnode.c:777-779`
or use a block twice.  `sfs_sync` writes the loaded inodes in any order, as the
array of vnodes can have any.

*Vfs.*  A name is a sequence of words, so that a raw name is a device name with a
word added.  `Attach` is the set of devices that the drivers register, `Label`
the volumes' own names, which differ.

*Disk, Emu, Console, Lamebus.*  The card is the environment: it finishes, fails
or interrupts when it likes.  `MaxIo`, `MaxMedia`, `MaxCalls`, `MaxErrors`,
`MaxOut`, `MaxTyped`, `MaxIrqs` and `MaxTime` bound what it and the callers do in
one run.  `Emu` keeps in `gaveup` the handles that `emu_close` could not close in
`RETRIES` + 1 attempts: `emufs_loadvnode` and `emufs_reclaim` ignore its result and
free the vnode, so the hardware keeps such a handle open for good.  `MaxErrors` is 3
there so that this happens; it takes one error more than there are retries.

*KernLib.*  `obj` is the representation, `mdl` its meaning, `answers` whether
every call answered as the meaning says.  Integers keep their width where they
can wrap (`WORD`).

*Traps.*  `frames` is a thread's kernel stack.  Which handler runs is a choice;
what it computes is left out.

*Menu.*  A line is a sequence of one-letter words and separators in one buffer
that `strtok_r` cuts in place; a program's arguments are positions in it.  The menu
(`curdir`) and every program have a current directory of their own, which with
`bootfs` decides whether the one SFS volume is busy.  Where a `thread_fork` of
`common_prog` has failed (`forkfailed`), `no_proc_sem` is one too high and the next
program may find anything in place of its words, since `args` is in a stack frame
the menu has left.  Two threads in `shutdown` at once, which needs such a failure,
are left out.

*KernTests, FsTests.*  A test is a script of calls for the menu thread and for
each of its threads.  Whether the clock finds a turn of `cvtestthread` too fast is a
choice.  `TestsSound` is about the first test of a session and leaves out the two
verdicts listed below under "Other behaviour", which it names.  `FsTests` assumes the
open, read, write and remove that `Sfs` shows.

## 3. Runs

Every passing run finishes within five minutes on two cores.

| Run | Instance | Checks |
|---|---|---|
| `memory` | 2 processes, 3 address spaces, one CPU with 2 TLB entries, 13 pages | `FramesExclusive`, `UsedIffHeld`: the coremap is exact; `TLBCoherent`: no translation of another address space; `MemoryPrivate`: contents are kept, no address space is lost or shared; `TextIntact`: loaded text is read-only |
| `heap` | coremap loops of 2 threads over 7 pages; `kmalloc` with 2 threads, 4 pages, 2 pagerefs; a user heap of 12 units under any calls, and under `malloctest` | `FailureIsReal`, `LockReleased`, `ImplementsCoremap`; `KernelHeapSound`; `UserHeapTested`: the heap is exact, and a test reports a failure only when it was refused memory or has met a used heap |
| `sched` | 2 CPUs, 3 threads | `ThreadsAccounted`, `IplExact`, `IdleTold`, `IdleServes` |
| `sync` | 4 threads at a lock and condition variable; 4 at a semaphore; 2 cats, 1 mouse, 2 bowls | `MutualExclusion`, `WakeupsKept`, `ImplementsMonitor`, `LockProgress`; `Drained`; `CatMouseSound` |
| `proc` | 4 processes, 4 pids | `TableSound`, `NoLostWakeup`, `ZombieHasReaper`, `PromptMeansIdle` |
| `proc_live` | 3 processes, every fault | `MenuReturns`: the menu gets its prompt back, unless an unlocked undo was overtaken (`UndoHarmless`) |
| `storage` | a volume of 8 blocks, 2 names, 2 users, two faults; 3 devices, 2 processes | `SfsSound`, `ReadBack`, `SyncedSurvives`, `SfsckSound`; `VfsSound` |
| `devices` | disk, emulator and console with 2 threads each, a bus of 3 slots | `DiskSound`, `EmuSound`, `ConsoleSound`, `BusSound` |
| `kernel` | library, vnode tables, traps of 3 threads on 2 CPUs, menu, panic, tests, shell, sort, random numbers | `LibrarySound`, `TrapSound`, `StartStopSound`, `KernelTestsSound`, `ProgramsSound` |

Runs that show the code disagree with a comment or manual page of the
repository (details under `findings`):

| Run | Property violated | What happens |
|---|---|---|
| `fork_enomem` | `NoWildFree` | a `fork` that runs out of memory frees page table entries that were never set |
| `proc_adopt` | `WaitsForOwnChild` | a process that got a dead process's pid waits for that process's orphan |
| `catmouse_two_bowls` | `Finishes` | a broadcast falls between counting oneself as sleeping and `cv_wait` |

Other behaviour of this kind is in the modules, and no run keeps it.  To see
one, add the property named to the configuration named, or change the constant.

* `Proc` (`MCProc.cfg`) with `Faults = {"fork"}`: a failing fork lowers
  `current_largest_pid` without the lock, and `TableExact` fails.  Three processes
  (`MCProcAdopt.cfg`) are enough for `ZombieHasReaper`: an orphan that exits while
  a fork that will fail owns its parent's pid is never collected, and the menu
  sleeps for ever.  `MenuReturns` therefore has the premise `UndoHarmless`, which
  names each of these overtakings; without it `proc_live` fails.  With
  `{"menu"}`, a failed `thread_fork` in `common_prog` raises `no_proc_sem` all the
  same, and `PromptMeansIdle` fails.  `{"badpid"}` stops the machine: `waitpid` on a
  number outside the table fails the assertion at `proc.c:477` where the manual
  page promises `ESRCH`.
* `Proc` (`MCProc.cfg`) with `PID_MAX = 4`, `NoOverrun`: two forks pass
  `check_proc_limit` together and the second finds the table full.
* `Sfs` (`MCStorage.cfg`), `LinksRepaired`: `addmemory` in `sfsck.c` never counts
  the inodes it remembers, so no link count is ever corrected, and the second
  name of a file looks like a second use of its inode.  A file whose entry was
  written and whose inode was not has a name and no links; the volume mounts,
  and the first lookup of the name panics (`sfs_vnode.c:777-779`).
* `Sfs` (`MCStorage.cfg`), `FreedUnnamed`: a write that fails after its direct
  block was allocated leaves the block after the end of the file; after a crash
  `sfsck` marks it free (`sfsck.c:654-657`), says so, and leaves its number in the
  inode, so the block gets a second use.
* A fresh volume of `mksfs` has no `.` and no `..`, and no room for them, which
  `sfsck` reports as an error it cannot repair.
* `Disk` (`MCDevices.cfg`), `WriteErrorsReported`: a failed block write has
  consumed its `uio`; the retry of `sfs_rwblock` transfers nothing and reports
  success.
* `Emu` with `LoadFails` containing `"kmalloc"`: `emufs_loadvnode` returns `ENOMEM`
  with `vfs_biglock` held.
* `Menu` (`MCKernel.cfg`), `NoPanicAtPrompt`: a wrong program name typed at the
  prompt panics, through the assertion in `thread_exit`.
* `Menu` (`MCKernel.cfg`), `AllUnmounted`: a program's `reboot` clears its own
  `p_cwd` only (`vfscwd.c:107-109`), so the menu's directory keeps the volume busy, and
  `vfs_unmountall` skips it (`vfslist.c:637-640`) before the power goes off.  A program
  that the menu has overtaken, because a failed `thread_fork` (`menu.c:151-155`)
  signalled `no_proc_sem`, does the same to the menu's `q`, and may have read words
  that are not its own; `MenuSound` says so only while no `thread_fork` has failed.
* `KernTests` (`MCKernel.cfg`), `TestsRunAgain`: `cleanitems` destroys the objects
  of `synchtest.c` and keeps the pointers, so a second test uses freed memory.
* `KernTests` (`MCKernel.cfg`), `TooFastEnds`: the "too fast" exit of `cvtestthread`
  leaves `testlock` held (`synchtest.c:286-292`), so the test never ends.
* `KernLib` (`MCKernel.cfg`), `Swap64Ok`: `bswap64` does not reverse its bytes.
* `Panic` with `Panicker = {c1, c2}`: two CPUs race through the tests of `evil`.
* `Vfs` with two volumes of one label: the name leads to either.

Read in the code while modelling, and in the model as the code has it: `setstate`
with the array already in use takes its type and rear position from word 0
before they are saved there, so the generator goes back to where it was at the
last save, although the comment above it says "it is OK to call setstate() with
the same state"; `free` of a block of no bytes at the end of the heap stops the
program with "out of range", because the block's data begins at `__heaptop`;
test 4 of `malloctest` can report a failure on a heap that other tests used, as
it warns, and test 2 never ends when `sbrk` gives nothing; `copycheck`
refuses a range of length 0; any fault of a program panics the kernel
(`kill_curthread`); `sys_execv` reads the arguments in user memory directly;
`vfs_setbootfs` refuses every name with a colon; `vfs_doadd` leaks its names on
`EEXIST`; `vfs_getcurdir` can sleep with the spinlock `p_lock`; `config_random` and
`config_con` set their globals before `vfs_adddev` may fail; `sys_waitpid` refuses
`WNOHANG`, so the shell never hears of a background job until `wait`; in `psort` the
largest key can be sent to a bin numbered `numprocs`, `validate` never updates
`prev_largest`, and fewer keys than processes fail its own validation; a CPU that
is told to stop takes `c_runqueue_lock` inside `c_ipi_lock`, everybody else takes
them in the other order.

### Bounds and why they suffice

* `memory`: with three address spaces a process can be inside `execv`, with its
  old and its new one, while the other forks; a TLB of two entries is full and
  replaced; with thirteen pages an allocation fails in every function that makes
  one.  One CPU is enough for stale entries, which need a switch only.
* `heap`: seven pages leave runs that are too short, exact and too long for first
  fit; two pagerefs and four pages let either pool be used up while the other
  thread is between two lock sections; twelve units hold four blocks, so that a
  free merges with none, one or both neighbours.
* `sched`: a third thread on two CPUs is what a CPU can send away, wake or
  collect while both are busy.  `MIGRATE_HARDCLOCKS = 1` lets every tick migrate.
* `sync`: four threads give a holder, a sleeper on each channel and a thread on
  its way between two spinlocks; for the semaphore, two sleepers, one `V` and one
  latecomer that takes the unit first.  `MaxV` bounds the calls of `V`.  Two meals
  let stale counts of the first meet the second.
* `proc`: four processes and four pids: grandparent, parent, child and a stranger
  that reuses a pid.  `MaxSignals` bounds how far failed menu commands can run
  `no_proc_sem` up.
* `proc_live`: three processes let a failing fork race with a fork that succeeds
  and with an orphan's exit; with two neither race exists.
* `storage`: eight blocks are fewer than two files with indirect blocks need, so
  the volume gets full; writes reach from the direct into the indirect blocks
  (`Extents`); `MaxOps` bounds the operations, `MaxFaults` the faults (two: a read
  error in a write and a crash after it), and
  `MaxFuel` the block accesses that succeed before one in the same lock section.
* `devices`: two threads at each card; a third adds nobody new to a semaphore of
  one unit.  Bus time runs over the end of a second (`Second = 4`).
* `kernel`: rings and bitmaps wrap within `MaxLib` calls; three traps nest in
  each other and across a switch; the boot loader's line and one typed; tests with the
  fewest threads that show an order; job tables and pids that are used up.

Storage, owners, users, names and processes are interchangeable where a
configuration has `SYMMETRY`; runs with a liveness property have none, except
that `memory` checks an action property of single steps.

### Deadlock checking

It is off because each of these systems may rest: every thread may be asleep with
nobody left to signal it, creatures have finished, the machine was halted or has
panicked, a bound was reached, an owner need not allocate.

### Fairness

Run queues are FIFO and the timer preempts (`thread.c:829`, `clock.c`), so a
runnable thread runs: weak fairness for each thread's steps inside the kernel
(`Synch`, `Semaphore`, `Proc`, `CatMouse`, `CoremapScan`).  What a program does next
(system calls, lock calls, `V`) has no fairness: it may stop.  No fairness is
assumed for who gets a sleep lock, and no property claims it: `LockProgress`
says that somebody gets the lock, `Drained` that units do not stay unused while
threads wait.  In `ThreadSched` a CPU waits for other CPUs' spinlocks; strong
fairness of its own steps says that the test-and-set loop gets a lock that is
free again and again, which the hardware gives and the code relies on.  Timer
and device interrupts have no fairness there: `IdleServes` does not need them.

## 4. Proofs

TLAPS checks these for every value of the constants that satisfies the named
assumptions.  Each inductive invariant was checked by TLC on a small instance
before it was proved.

**Physical memory.**  `CoremapProof` (`RamAssumption`: the layout of memory):
`CoremapInvariant`, `FramesExclusiveThm`, `UsedIffHeldThm`.  `FramesExclusive` is
not inductive: that two blocks are disjoint after `coremap_alloc` depends on every
frame of a live block being marked, and that freeing clears only one block
depends on the first entry's `count` being the block's length.  The inductive
invariant adds the layout of memory before and after boot (`Layout`), the counts
(`BlocksCounted`), pairwise disjointness (`Disjoint`) and `UsedIffHeld`.

**The allocation loops.**  `CoremapScanProof` (also `NoOwnerAssumption`):
`ScanInvariant`, `ImplementsCoremapThm`, `FailureIsRealThm`, `ScanFramesExclusive`.
`ScanInv` says that `coremap_lock` is held exactly while a call is under way
(`LockExact`) and, for each place in the loops, what the indices mean
(`CallsExact`): the search has passed no run of the wanted length, the run it is
in is free from `start` on, and the entries rewritten so far are those of one
block.  An allocation takes effect when the first entry is rewritten, a release
when it has the lock; `AbsMap` is the coremap with the rest of the pending
rewriting done.  Between those points every step leaves `AbsMap` alone, so each
step is one of `Coremap` or a stutter.  A failing search has seen every run, which
is `FailureIsReal`.  `ScanFramesExclusive` carries the theorem about `Coremap`
through the refinement.

**Address spaces.**  `AddrSpaceProof` (`AddrSpaceAssumption`: segments, tables and
TLB are not empty, and every page and table of an address space is an owner of
frames): `AsInvariant`,
`AsFramesExclusive`, `AsUsedIffHeld`, `TLBCoherentThm`, `MemoryPrivateThm`,
`TextIntactThm`.  A step of `AddrSpace` that moves a page is a step of `Coremap`, so
the coremap part follows from `CoremapProof`.  Nothing else is inductive alone,
and `AsInv` has a part for each thing a step relies on: the shape of each address
space in each place (`Shape`), that an address space and a page have one owner
(`Ownership`), which process is on which CPU (`OnCpu`), what is in a frame
(`Memory`), who copies from whom in `fork` and `execv` (`Family`), and that every
TLB entry of a CPU is a translation of the address space that it runs
(`Translates`).  The steps fall into three kinds (lemmas `SpaceKept`, `MoverStep`,
`PairStep`): those that leave address spaces alone, those of one process and its
address space, and those of `fork` and `execv`, in which two address spaces change
hands.

**The scheduler.**  `ThreadSchedProof` (`SchedAssumption`: every CPU has its boot
thread): `SchedInvariant`, `ThreadsAccountedThm`, `IplExactThm`, `IdleToldThm`, for
any number of CPUs and threads and any migration interval.  None of the three is
inductive: where a thread is depends on what every CPU is in the middle of.
`SchedInv` has four parts.  `ShapeInv` gives, for every mode of a CPU, the frames on
the stack it is on, the state, the recorded level and the count of that thread;
a thread that no CPU is on is parked in `thread_switch`, or in an interrupt that
preempted it, and has counted the run queue lock that it will release.  `LocksOk`
derives the spinlocks a CPU holds from the place it is at: the run queue lock that
passes from one thread to the next is held in modes `pick` and `resume`, and that of
another CPU while it is told.  `ListInv` treats run queues, zombie lists, the wait
channel and the threads that a frame is handing over alike, as lists: a thread
that exists is executed by a CPU or is on exactly one list, once, and `t_cpu` names
the CPU of that list.  The current thread of an idle CPU is the exception that the
code has to treat specially in migration: a CPU stands on it although it is on
a list.  `HandsOk` says what a CPU knows of other CPUs between two lock sections:
the thread whose CPU it is telling stays on that run queue, and the counts of
`thread_consider_migration` are not larger than its own queue.  `LocksOk` gives
`IplExact`, `ListInv` gives `ThreadsAccounted`.  `IdleTold` is kept by every step
given `SchedInv`: the queue of an idle CPU stays locked, or its interrupt line
raised, from the moment a thread is added.

**Locks and condition variables.**  `SynchProof` (`ThreadAssumption`):
`SynchInvariant`, `MutualExclusionThm`.  The invariant says which places in the
code own `lk_lock` and `lk_holder`, that the lock is free at the place that takes
it, and that lists hold sleeping threads only, each once and on one list: without
the last part a wake-up could move a thread out of the lock.  In the same module,
`ImplementsMonitorThm`, that `Synch` implements `Monitor`.  It adds that a thread in
`cv_wait` keeps `wc_lock` from before it releases the lock until it is on the list
(`WcOwner`): a `cv_signal` that finds the list empty really has no waiter.
`WakeupsKeptThm` (also `SemaphoreAssumption`) is the theorem about lost wake-ups.  For
the lock: whoever goes to sleep has had `lk_wc_lock` since a moment at which the
lock was held (`LkWcOwner`, `HeldWhenBusy`), so a free lock with sleepers always has
somebody on the way to it (`SomebodyComes`).  For the semaphore: the same for the
channel (`SemWcOwner`, `SemSleepers`), and while somebody sleeps there are at least
as many threads on the way to the count as there are units in it (`UnitsExact`).

**Cats and mice.**  Also in `SynchProof` (`CatMouseAssumption`): `CatMouseSoundThm`, for
any number of creatures, bowls and loops.  `CmInv` makes the counters exact: each
of the five counters is the number of creatures in certain places.  That cats
and mice never eat together follows from the counters, that a bowl feeds one
creature from the bowl locks; the variable that says whose turn it is plays no
part in it.

**Processes.**  `ProcProof` (`ProcAssumption`, and the hypothesis `ForksSucceed`: no
`fork` and no command of the menu fails after its process was created):
`ProcInvariant`, `TableSoundThm`, `NoLostWakeupThm`, `ZombieHasReaperThm`,
`PromptMeansIdleThm`.  The hypothesis is needed: the undo of a failed `fork` runs
without `global_mutex`, and section 3 says what breaks.  `PInv` ties the three
records that a process leaves: its slot in the table, its pid and the pid its
children keep.  `parent_pid` of a child is the pid of the process that keeps it as
long as that one runs; pids are unique among processes in the table; a zombie's
reaper is whoever owns `parent_pid` now, which may be a new process that was given
the pid of the dead parent and has not started yet.

**The disk.**  `DevicesProof` (`DiskAssumption`): `DiskSoundThm`, for any number of
threads, sectors, requests, retries and media errors.  `DiskInv` adds to
`DiskSound` that `lh_clear` is up exactly when nobody is inside (`OneInside`), how
much is left of a request at each place (`RequestsExact`; it bounds the sector that
a retry of `sfs_rwblock` computes from what is left, hence no `EINVAL`), and what
the card, its line and `lh_done` look like to the one thread that waits
(`CardExact`): working, asserting its line, or done and reported, never two of
them.

**The console.**  Also in `DevicesProof` (`ConsoleAssumption`): `ConsoleSoundThm`,
for any number of writers, readers and CPUs that poll, and any size of the input
buffer.  `ConInv` has two parts that share no variable.  `LineInv` says who has
`ls_lock`, that a character is under way or its interrupt is pending
exactly when `ls_wbusy` is set or a CPU polls (`LineExact`), and that the right to
write is in exactly one of four places (`TokenExact`): in `cs_wsem`, with one
writer, on the busy line, or with the interrupt handler that is about to return
it.  `ReadInv` says that the ring from tail to head, cyclically, is what was accepted
and not yet read (`RingExact`): the wrap of the two indices, and the slot that stays
empty to tell a full ring from an empty one, are in that equation.

**The bus.**  Also in `DevicesProof` (`BusAssumption`): `BusSoundThm`, for any cards in
any number of slots, any finite set of CPUs and interrupts at any moment.  `BusInv`
adds to `BusSound` what the boot thread knows of the slot it has found at each step
(`FoundSlot`), that the slots of a class are taken from the lowest on
(`SlotsInOrder`; it is why units are numbered in slot order although a
configuration may fail), that only a slot whose handler is installed may assert its
line (`LinesDriven`; the order of `lamebus_attach_interrupt` before the
configuration), and at which moments `ltimer_gettime` read its registers
(`ReadingsTimed`).  The proof needs `2 * Small <= Second`: the choice between the two
readings of the seconds is right because twice the 5 ms fits into a second.  That a
finite set of CPUs has an ascending list, on which `lamebus_find_cpus` and
`lamebus_start_cpus` agree, is `CanBeListed`: the least counterexample cannot be.

**The emulator.**  Also in `DevicesProof` (`EmuAssumption`): `EmuSoundThm` and
`HandlesExactThm`, for any threads, handles, calls, errors and retries.  A call is a
list of steps still to do, so `EmuInv` says which lists fit which call, that
`e_lock` is held by exactly the thread between its `eP` and its `eV`, that the
hardware works for that thread only, and that a handle the hardware has open
belongs to one vnode, to one thread on its way, or to `gaveup`.  `EmuDeep` adds how
deep a thread holds `vfs_biglock` at the head of each list.  `EmuSoundThm` has
the hypothesis that only the growing of the table fails in `emufs_loadvnode`
(`LoadFails` a subset of `{"array"}`): after the failed `kmalloc` the lock is not
released (section 3).  `HandlesExactThm` needs no such hypothesis.

**The VFS layer.**  `VfsProof` (`VfsAssumption`; `LabelsDiffer`: the volumes' own names
differ from each other and from the names of devices): `VfsSoundThm`, for any
processes and devices and every interleaving of mounts, unmounts, lookups, opens,
closes and changes of directory.  The reference counts are not inductive by
themselves: a lookup returns with a reference that is nobody's but the calling
thread's.  The invariant says what every unfinished call has in hand, that the
table knows every device that anything refers to, and that each count is the
number of open files, current directories, mounts and calls that hold the vnode.

**Traps.**  Also in `ProcProof`, without assumptions: `TrapSoundThm`, for any CPUs,
threads, calls and traps.  `TrapInv` describes a thread by the stack of handlers
it is in: which handler can be at which place, and on top of what (`StackFits`: an
interrupt only where interrupts are on, a fault only in user mode or in a copy,
nothing but one interrupt on top of an interrupt, a thread's first frame its entry
from user mode or its start).  `t_curspl` and `t_iplhigh_count`, `t_in_interrupt`
and `tm_badfaultfunc` are then functions of that stack (`RaisedTo`, `HandlingTo`,
`CopyingTo`), and so is the number of system calls made (`Account`).  `CpuFits` and
`OneCpu` say that what the CPU itself keeps, `cpustacks`, `cputhreads` and its status
register, is what its current thread needs.  A step pushes, rewrites or pops the
top of one stack; only `thread_switch` and `fork` touch two.

**The kernel heap.**  In `CoremapScanProof` (`KmAssumption`: blocks are not empty, smaller
than a page, and the last size is the largest): `KernelHeapSoundThm`, for any threads,
pages, pagerefs and requests.  `KernelHeapSound` is not inductive, since `kmalloc` and
`kfree` leave `kmalloc_spinlock` with a page in hand.  `KmInv` says that `allbase` and
`sizebases` are duplicate-free lists of the pagerefs in use (`ListsFit`), that the free
list of a page holds the offsets its blocks do not use (`RefsFit`), that a block is some
whole pages or a block of a listed page (`LiveFit`), what a thread carries outside the
lock (`ThreadsFit`), and that every page has exactly one owner, the page allocator
included (`Covered`, `PagesApart`).

**The C library's heap.**  Also in `CoremapScanProof` (`UmAssumption`): `UserHeapSoundThm`,
for any unit, any size of the heap and any requests.  `malloc` walks the heap by a
recursive function, so the proof first shows that the function exists (links go
upwards, so the least address at which it would not be defined cannot be) and that in a
tiled heap it visits exactly the headers (`WalkDefined`, `WalkIs`, both by a least
counterexample).  `UmInv` then speaks of headers only: `Tiled` (a header's end is the
next header or `__heaptop`, nothing is in between, back links agree), no free
neighbours, and that the data of each block handed out follows a header in use.
`CutTiled` and `JoinTiled` are `__malloc_split` and `__malloc_trymerge`; `free` may have
two free neighbours in between, on both sides of the freed block, and
`MergedOk` shows that its two merges remove both.

Only model-checked, and why:

* liveness (`LockProgress`, `Drained`, `MenuReturns`, `IdleServes`, `LockReleased`,
  `Finishes`): the prover does not treat fairness;
* `SfsSound`, `ReadBack`, `SyncedSurvives`, `SfsckSound`, `LibrarySound` and
  `StartStopSound`: they are about what recursive definitions compute, in `Sfs`,
  `Sfsck`, `KernLib`, `Menu` and `Random`;
* of `UserHeapTested`, the verdicts of `malloctest` (`TestsPass`, `NothingLeaks`): they
  depend on the sizes the tests ask for.  Its first part, `UserHeapSound`, is proved
  for any calls;
* `KernelTestsSound` and `ProgramsSound`, which join the tests and programs of several
  modules: each is about a fixed script, which the run explores completely.

## 5. Not modelled

* Parts: the network and screen cards (in no configured kernel), the whale mating
  problem (its functions are empty), user programs other than the shell,
  `psort`, `malloctest`, `mksfs` and `sfsck` (mostly single-threaded tests of the
  system call interface), the C library except `malloc` and `random`, build files
  and manual pages.
* Within modelled parts: the create and destroy functions of `synch.c`; `p_threads`
  and `p_lock`; `sys_write` and `sys___time`; `sfsck`'s repairs of damage that SFS
  never writes; subdirectories, which SFS does not have; the single-threaded
  tests of arrays, bitmaps and `kmalloc`; the computing threads of `tt3`;
  formatting, messages, statistics and option parsing; register saving in
  `switch.S`.

## 6. Plan

The model covers the core of the kernel.  What is left is theorems about
the parts of `SfsSound` that do not depend on what the recursive definitions compute.
