------------------------------ MODULE AddrSpace ------------------------------
(***************************************************************************)
(* Address spaces, the TLB and the system calls that replace memory:        *)
(* vm_fault and as_* of kern/arch/mips/vm/dumbvm.c, load_elf, runprogram,   *)
(* and the memory side of execv, fork and _exit, on top of Coremap.         *)
(*                                                                         *)
(* A user process has one thread, so a process is its thread.  Every page   *)
(* of an address space, and every page table, is an owner <<as, slot>> of   *)
(* Coremap: held[<<as, page>>] is the page table entry.  A thread takes a   *)
(* step only while it is on a CPU, and may lose the CPU between any two.    *)
(* The contents of a frame are one value; free frames hold junk.            *)
(***************************************************************************)
EXTENDS Coremap, Sequences, FiniteSets

CONSTANTS
    Process,            \* user processes
    As,                 \* storage for struct addrspace
    CPU,
    NULL,
    NUM_TLB,            \* entries of a TLB
    NPages1,            \* pages of the text region of every program
    NPages2,            \* pages of the data region
    DUMBVM_STACKPAGES,
    PtePerPage,         \* page table entries that fit in a page
    PreemptAt,          \* where a thread may lose its CPU (bound)
    FilePages2,         \* data pages that the program file has contents for
    Touched,            \* the pages that programs use (bound)
    MaxStolen           \* pages stolen before vm_bootstrap (bound)

Segment(name, n) == {<<name, i>> : i \in 0 .. (n - 1)}
Text == Segment("text", NPages1)
Data == Segment("data", NPages2)
Stack == Segment("stack", DUMBVM_STACKPAGES)
Page == Text \union Data \union Stack
Table == {<<"table", 1>>, <<"table", 2>>, <<"table", 3>>}

\* p_memsz > p_filesz: the end of the data region, which stays zero-filled.
Bss == {<<"data", i>> : i \in FilePages2 .. (NPages2 - 1)}

\* Owners of memory: the pages and tables of address spaces, and the kernel.
ASSUME AddrSpaceAssumption ==
    /\ NPages1 \in Nat \ {0} /\ NPages2 \in Nat \ {0}
    /\ DUMBVM_STACKPAGES \in Nat \ {0} /\ PtePerPage \in Nat \ {0}
    /\ NUM_TLB \in Nat \ {0} /\ MaxStolen \in Nat
    /\ NULL \notin Process /\ NULL \notin As
    /\ Touched \subseteq Page /\ FilePages2 \in 0 .. NPages2
    /\ As \X (Table \union Page) \subseteq Owners

KernelOwner == Owners \ (As \X (Table \union Page))

Seq0(name, n) == [i \in 1 .. n |-> <<name, i - 1>>]

TableOrder == <<<<"table", 1>>, <<"table", 2>>, <<"table", 3>>>>

\* as_copy: every page.
CopyOrder == Seq0("text", NPages1) \o Seq0("data", NPages2)
             \o Seq0("stack", DUMBVM_STACKPAGES)

\* as_prepare_load: the three tables, then the frames they list.
AllocOrder == TableOrder \o CopyOrder

\* load_segment, twice: the pages that get their contents from the file.
LoadOrder == Seq0("text", NPages1) \o Seq0("data", FilePages2)

\* as_destroy: the frames, then the tables that list them.
FreeOrder == CopyOrder \o TableOrder

\* The page that the arguments of a program go to.
ArgPage == <<"stack", DUMBVM_STACKPAGES - 1>>

\* pagetable_alloc: pages a table needs (USERSTACK and regions fit).
TablePages(n) == (n + PtePerPage - 1) \div PtePerPage
SlotPages(slot) ==
    CASE slot = <<"table", 1>> -> TablePages(NPages1)
      [] slot = <<"table", 2>> -> TablePages(NPages2)
      [] slot = <<"table", 3>> -> TablePages(DUMBVM_STACKPAGES)
      [] OTHER -> 1

VARIABLES
    p_addrspace,    \* struct proc: address space, or NULL
    loaded,         \* struct proc: has as_complete_load run for this process?
    st,             \* where each thread is, and its local variables
    on,             \* CPU -> the process whose thread runs there, or NULL
    tlb,            \* CPU -> index -> [valid, page, frame, dirty]
    mem,            \* frame -> contents
    image,          \* history: what each process must find in its memory
    leaked,         \* history: address spaces that nothing refers to any more
    halted          \* "no", or why the machine stopped

asVars == <<p_addrspace, loaded, st, on, tlb, mem, image, leaked, halted>>
allVars == <<vars, asVars>>

\* Contents: zero-filled, what the program file holds, what the program wrote.
Zero == 0
Image == 1
Written == 2
Junk == 3

Idle == [pc |-> "none", as |-> NULL, old |-> NULL, child |-> NULL, k |-> 1]
Invalid == [valid |-> FALSE, page |-> ArgPage, frame |-> 0, dirty |-> FALSE]
Unknown == [v \in Page |-> Junk]
NoTLB == [i \in 1 .. NUM_TLB |-> Invalid]

AsInit ==
    /\ Init
    /\ p_addrspace = [p \in Process |-> NULL]
    /\ loaded = [p \in Process |-> FALSE]
    /\ st = [p \in Process |-> Idle]
    /\ on = [c \in CPU |-> NULL]
    /\ tlb = [c \in CPU |-> NoTLB]
    /\ mem = [f \in FirstFree .. (LastPage - 1) |-> Junk]
    /\ image = [p \in Process |-> Unknown]
    /\ leaked = {}
    /\ halted = "no"

Frame(a, v) == held[<<a, v>>].addr

-----------------------------------------------------------------------------
(* Pieces *)

InUse(a) ==
    \/ a \in leaked
    \/ \E p \in Process : a \in {p_addrspace[p], st[p].as, st[p].old}

\* as_create: kmalloc of a struct addrspace; which one does not matter.
CanCreate == \E a \in As : ~InUse(a)
as_create == CHOOSE a \in As : ~InUse(a)

\* as_activate on the CPU the thread is on: every entry is invalidated.
Flushed(c, p) == [tlb EXCEPT ![c] = NoTLB]

\* The entry vm_fault builds: read-only for text once the program is loaded.
Entry(p, v) ==
    [valid |-> TRUE, page |-> v, frame |-> Frame(p_addrspace[p], v),
     dirty |-> ~(v \in Text /\ loaded[p])]

Hits(c, v) == {i \in 1 .. NUM_TLB : tlb[c][i].valid /\ tlb[c][i].page = v}
Free(c) == {i \in 1 .. NUM_TLB : ~tlb[c][i].valid}

\* vm_fault for a page of the address space: the first invalid entry, or one
\* that tlb_random picks.
vm_fault(c, p, v) ==
    /\ Hits(c, v) = {}
    /\ \E i \in 1 .. NUM_TLB :
         /\ Free(c) # {} => i \in Free(c) /\ \A j \in Free(c) : i <= j
         /\ tlb' = [tlb EXCEPT ![c][i] = Entry(p, v)]
    /\ UNCHANGED <<vars, p_addrspace, loaded, st, on, mem, image, leaked, halted>>

\* A store to page v that the TLB lets through.
Store(c, v, x) ==
    \E i \in Hits(c, v) : tlb[c][i].dirty /\ mem' = [mem EXCEPT ![tlb[c][i].frame] = x]

StoreRefused(c, v) == \E i \in Hits(c, v) : ~tlb[c][i].dirty

Goto(p, s) == st' = [st EXCEPT ![p] = s]
At(c, p, label) == halted = "no" /\ on[c] = p /\ st[p].pc = label

Halt(why) ==
    /\ halted' = why
    /\ UNCHANGED <<vars, p_addrspace, loaded, st, on, tlb, mem, image, leaked>>

-----------------------------------------------------------------------------
(* Scheduling *)

\* thread_switch and thread_startup end with as_activate; a kernel thread has
\* no address space and leaves the TLB as it is.
Switch(c, p) ==
    /\ halted = "no" /\ vm_bootstrap_flag = 1
    /\ on[c] # p
    /\ on[c] # NULL => st[on[c]].pc \in PreemptAt
    /\ p # NULL => st[p].pc \notin {"none", "embryo"} /\ \A d \in CPU : on[d] # p
    /\ on' = [on EXCEPT ![c] = p]
    /\ tlb' = IF p # NULL /\ p_addrspace[p] # NULL THEN Flushed(c, p) ELSE tlb
    /\ UNCHANGED <<vars, p_addrspace, loaded, st, mem, image, leaked, halted>>

-----------------------------------------------------------------------------
(* runprogram and execv *)

\* common_prog: proc_create_runprogram, and a thread that calls runprogram.
StartProgram(p) ==
    /\ halted = "no" /\ vm_bootstrap_flag = 1
    /\ st[p].pc = "none" /\ \A c \in CPU : on[c] # p
    /\ loaded' = [loaded EXCEPT ![p] = FALSE]
    /\ Goto(p, [Idle EXCEPT !.pc = "exec"])
    /\ UNCHANGED <<vars, p_addrspace, on, tlb, mem, image, leaked, halted>>

\* as_create, curproc_setas and as_activate, in runprogram or in execv.
ExecBegin(c, p) ==
    /\ At(c, p, "exec") \/ At(c, p, "user")
    /\ CanCreate
    /\ p_addrspace' = [p_addrspace EXCEPT ![p] = as_create]
    /\ Goto(p, [Idle EXCEPT !.pc = "prepare", !.as = as_create, !.old = p_addrspace[p]])
    /\ tlb' = Flushed(c, p)
    /\ UNCHANGED <<vars, loaded, on, mem, image, leaked, halted>>

\* The file cannot be opened, or the program is no executable, before
\* as_prepare_load.  runprogram returns into thread_exit, which asserts that
\* curproc is the kernel; execv's as_destroy reads its stack table through NULL.
BadProgram(c, p) ==
    /\ At(c, p, "exec") \/ (At(c, p, "prepare") /\ st[p].k = 1 /\ st[p].child = NULL)
    /\ Halt("panic")

\* as_zero_region for a frame; a table is left as it is.
Zeroed(slot, f) == IF slot \in Page THEN [mem EXCEPT ![f] = Zero] ELSE mem

\* as_prepare_load: one table, or one zero-filled frame, at a time.
as_prepare_load(c, p) ==
    LET s == st[p]
        slot == AllocOrder[s.k]
        more == s.k < Len(AllocOrder)
    IN /\ At(c, p, "prepare")
       /\ coremap_alloc(<<s.as, slot>>, SlotPages(slot))
       /\ mem' = Zeroed(slot, held'[<<s.as, slot>>].addr)
       /\ Goto(p, IF more THEN [s EXCEPT !.k = s.k + 1]
                  ELSE [s EXCEPT !.k = 1, !.pc = IF s.child = NULL THEN "load" ELSE "copy"])
       /\ UNCHANGED <<p_addrspace, loaded, on, tlb, image, leaked, halted>>

\* ENOMEM.  runprogram ends in thread_exit's assertion.  execv and as_copy call
\* as_destroy: the text table is missing and is read through NULL, or it is
\* there and entries that were never set, or set to 0, are freed.
PrepareFails(c, p) ==
    LET s == st[p]
        newborn == s.child = NULL /\ s.old = NULL
    IN /\ At(c, p, "prepare")
       /\ ~\E i \in Index : FirstFit(i, SlotPages(AllocOrder[s.k]))
       /\ Halt(IF newborn \/ s.k = 1 THEN "panic" ELSE "wild")

\* load_segment writes the next page, through the TLB.
LoadPage(c, p) ==
    /\ At(c, p, "load") /\ st[p].k <= Len(LoadOrder)
    /\ Store(c, LoadOrder[st[p].k], Image)
    /\ Goto(p, [st[p] EXCEPT !.k = st[p].k + 1])
    /\ UNCHANGED <<vars, p_addrspace, loaded, on, tlb, image, leaked, halted>>

LoadFault(c, p) ==
    /\ At(c, p, "load") /\ st[p].k <= Len(LoadOrder)
    /\ vm_fault(c, p, LoadOrder[st[p].k])

\* Mutant: the entries made while loading stay in the TLB.
as_complete_load_noflush(c, p) ==
    /\ At(c, p, "load") /\ st[p].k > Len(LoadOrder)
    /\ loaded' = [loaded EXCEPT ![p] = TRUE]
    /\ Goto(p, [st[p] EXCEPT !.pc = "args", !.k = 1])
    /\ UNCHANGED <<vars, p_addrspace, on, tlb, mem, image, leaked, halted>>

as_complete_load(c, p) ==
    /\ At(c, p, "load") /\ st[p].k > Len(LoadOrder)
    /\ loaded' = [loaded EXCEPT ![p] = TRUE]
    /\ tlb' = Flushed(c, p)
    /\ Goto(p, [st[p] EXCEPT !.pc = "args", !.k = 1])
    /\ UNCHANGED <<vars, p_addrspace, on, mem, image, leaked, halted>>

ArgFault(c, p) == At(c, p, "args") /\ vm_fault(c, p, ArgPage)

Fresh == [v \in Page |-> IF v \in Bss \union (Stack \ {ArgPage}) THEN Zero ELSE Image]

\* The arguments are copied out; execv destroys the old address space and
\* both enter user mode.
PassArguments(c, p) ==
    /\ At(c, p, "args")
    /\ Store(c, ArgPage, Image)
    /\ image' = [image EXCEPT ![p] = Fresh]
    /\ Goto(p, IF st[p].old = NULL THEN [Idle EXCEPT !.pc = "user"]
               ELSE [Idle EXCEPT !.pc = "free", !.as = st[p].old])
    /\ UNCHANGED <<vars, p_addrspace, loaded, on, tlb, leaked, halted>>

\* Mutant: the TLB keeps the translations of the abandoned address space.
ExecFailsNoActivate(c, p) ==
    /\ At(c, p, "load") \/ At(c, p, "args")
    /\ st[p].old # NULL
    /\ p_addrspace' = [p_addrspace EXCEPT ![p] = st[p].old]
    /\ Goto(p, [Idle EXCEPT !.pc = "free", !.as = st[p].as])
    /\ UNCHANGED <<vars, loaded, on, tlb, mem, image, leaked, halted>>

\* The file is short or the arguments do not fit: execv restores the old
\* address space, activates it and destroys the new one.
ExecFails(c, p) ==
    /\ At(c, p, "load") \/ At(c, p, "args")
    /\ st[p].old # NULL
    /\ p_addrspace' = [p_addrspace EXCEPT ![p] = st[p].old]
    /\ tlb' = Flushed(c, p)
    /\ Goto(p, [Idle EXCEPT !.pc = "free", !.as = st[p].as])
    /\ UNCHANGED <<vars, loaded, on, mem, image, leaked, halted>>

\* The same in runprogram: it returns into thread_exit's assertion.
RunFails(c, p) ==
    /\ At(c, p, "load") \/ At(c, p, "args")
    /\ st[p].old = NULL
    /\ Halt("panic")

-----------------------------------------------------------------------------
(* as_destroy *)

\* One block of the address space is freed; after the last one the thread goes
\* back to its program, or ends if it has no address space any more.
as_destroy(c, p) ==
    LET s == st[p]
        slot == FreeOrder[s.k]
        f == held[<<s.as, slot>>].addr
        exiting == p_addrspace[p] = NULL
    IN /\ At(c, p, "free")
       /\ coremap_dealloc(<<s.as, slot>>)
       /\ mem' = [mem EXCEPT ![f] = Junk]
       /\ IF s.k < Len(FreeOrder)
          THEN Goto(p, [s EXCEPT !.k = s.k + 1]) /\ UNCHANGED on
          ELSE /\ Goto(p, IF exiting THEN Idle ELSE [Idle EXCEPT !.pc = "user"])
               /\ on' = IF exiting THEN [on EXCEPT ![c] = NULL] ELSE on
       /\ UNCHANGED <<p_addrspace, loaded, tlb, image, leaked, halted>>

-----------------------------------------------------------------------------
(* User mode, _exit and the read-only fault *)

UserFault(c, p, v) == At(c, p, "user") /\ vm_fault(c, p, v)

UserWrite(c, p, v) ==
    /\ At(c, p, "user")
    /\ Store(c, v, Written)
    /\ image' = [image EXCEPT ![p][v] = Written]
    /\ UNCHANGED <<vars, p_addrspace, loaded, st, on, tlb, leaked, halted>>

\* An address in no region: vm_fault returns EFAULT, kill_curthread panics.
BadAddress(c, p) == At(c, p, "user") /\ Halt("panic")

Abandoned(p) == IF st[p].old = NULL THEN {} ELSE {st[p].old}

\* sys__exit up to proc_remthread: the address space is detached, then
\* destroyed.  The one execv has put aside is forgotten.
sys__exit(p) ==
    /\ p_addrspace' = [p_addrspace EXCEPT ![p] = NULL]
    /\ Goto(p, [Idle EXCEPT !.pc = "free", !.as = p_addrspace[p]])
    /\ leaked' = leaked \union Abandoned(p)
    /\ image' = [image EXCEPT ![p] = Unknown]
    /\ UNCHANGED <<vars, loaded, on, tlb, mem, halted>>

Exit(c, p) == At(c, p, "user") /\ sys__exit(p)

\* A store to a read-only page in user mode: VM_FAULT_READONLY, sys__exit.
UserReadonly(c, p, v) == At(c, p, "user") /\ StoreRefused(c, v) /\ sys__exit(p)

\* The same while load_segment writes the text of a program: this process has
\* loaded a program before, so `loaded` is already set.
LoadReadonly(c, p) ==
    /\ At(c, p, "load") /\ st[p].k <= Len(LoadOrder)
    /\ StoreRefused(c, LoadOrder[st[p].k])
    /\ sys__exit(p)

-----------------------------------------------------------------------------
(* fork *)

\* proc_create_runprogram for the child, and as_create in as_copy.
ForkBegin(c, p, q) ==
    /\ At(c, p, "user")
    /\ st[q].pc = "none" /\ \A d \in CPU : on[d] # q
    /\ CanCreate
    /\ loaded' = [loaded EXCEPT ![q] = FALSE]
    /\ st' = [st EXCEPT ![p] = [Idle EXCEPT !.pc = "prepare", !.as = as_create, !.child = q],
                        ![q] = [Idle EXCEPT !.pc = "embryo"]]
    /\ UNCHANGED <<vars, p_addrspace, on, tlb, mem, image, leaked, halted>>

\* Mutant: the loop over the data segment copies the text again.
CopySourceTextTwice(v) == IF v[1] = "data" THEN <<"text", v[2]>> ELSE v

\* The page of the old address space that page v of the new one is copied from.
CopySource(v) == v

\* as_copy: one memmove.
CopyPage(c, p) ==
    LET s == st[p]
        v == CopyOrder[s.k]
    IN /\ At(c, p, "copy")
       /\ mem' = [mem EXCEPT ![Frame(s.as, v)] = mem[Frame(p_addrspace[p], CopySource(v))]]
       /\ IF s.k < Len(CopyOrder)
          THEN Goto(p, [s EXCEPT !.k = s.k + 1]) /\ UNCHANGED p_addrspace
          ELSE /\ Goto(p, [s EXCEPT !.pc = "spawn", !.as = NULL])
               /\ p_addrspace' = [p_addrspace EXCEPT ![s.child] = s.as]
       /\ UNCHANGED <<vars, loaded, on, tlb, image, leaked, halted>>

\* thread_fork succeeds: the child enters user mode with the parent's memory.
Spawn(c, p) ==
    LET q == st[p].child
    IN /\ At(c, p, "spawn")
       /\ st' = [st EXCEPT ![p] = [Idle EXCEPT !.pc = "user"], ![q] = [Idle EXCEPT !.pc = "user"]]
       /\ image' = [image EXCEPT ![q] = image[p]]
       /\ UNCHANGED <<vars, p_addrspace, loaded, on, tlb, mem, leaked, halted>>

\* kmalloc or thread_fork fails: proc_destroy leaves the address space alone.
SpawnFails(c, p) ==
    LET q == st[p].child
    IN /\ At(c, p, "spawn")
       /\ st' = [st EXCEPT ![p] = [Idle EXCEPT !.pc = "user"], ![q] = Idle]
       /\ leaked' = leaked \union {p_addrspace[q]}
       /\ p_addrspace' = [p_addrspace EXCEPT ![q] = NULL]
       /\ UNCHANGED <<vars, loaded, on, tlb, mem, image, halted>>

-----------------------------------------------------------------------------
(* Boot, and the other users of kernel pages *)

Boot ==
    /\ \/ \E n \in 1 .. MaxRequest :
            Cardinality(stolen) + n <= MaxStolen /\ ram_stealmem(n)
       \/ vm_bootstrap
    /\ UNCHANGED asVars

\* A kernel thread that has a CPU allocates or frees pages.
KernelPages(o) ==
    /\ halted = "no" /\ \E c \in CPU : on[c] = NULL
    /\ (\E n \in 0 .. MaxRequest : coremap_alloc(o, n)) \/ coremap_dealloc(o)
    /\ UNCHANGED asVars

AsNext ==
    \/ Boot
    \/ \E o \in KernelOwner : KernelPages(o)
    \/ \E p \in Process : StartProgram(p)
    \/ \E c \in CPU, p \in Process \union {NULL} : Switch(c, p)
    \/ \E c \in CPU, p \in Process :
         \/ ExecBegin(c, p) \/ BadProgram(c, p)
         \/ as_prepare_load(c, p) \/ PrepareFails(c, p)
         \/ LoadPage(c, p) \/ LoadFault(c, p) \/ LoadReadonly(c, p)
         \/ as_complete_load(c, p)
         \/ ArgFault(c, p) \/ PassArguments(c, p)
         \/ ExecFails(c, p) \/ RunFails(c, p)
         \/ as_destroy(c, p)
         \/ Exit(c, p) \/ BadAddress(c, p)
         \/ CopyPage(c, p) \/ Spawn(c, p) \/ SpawnFails(c, p)
         \/ \E q \in Process : ForkBegin(c, p, q)
         \/ \E v \in Touched : UserFault(c, p, v) \/ UserWrite(c, p, v) \/ UserReadonly(c, p, v)

AsSpec == AsInit /\ [][AsNext]_allVars

-----------------------------------------------------------------------------
\* The TLB translates for the process on its CPU and for nobody else
\* (as_activate, lines 491-513, in every switch, execv and failed execv): each
\* entry names the frame that the page table of the current address space has
\* now, and no page has two entries.
TLBCoherent ==
    \A c \in CPU : on[c] # NULL =>
        LET a == p_addrspace[on[c]]
            valid == {i \in 1 .. NUM_TLB : tlb[c][i].valid}
        IN a # NULL => \A i \in valid :
             /\ held[<<a, tlb[c][i].page>>] # NoBlock
             /\ tlb[c][i].frame = Frame(a, tlb[c][i].page)
             /\ \A j \in valid : tlb[c][j].page = tlb[c][i].page => i = j

\* Processes whose memory is their own business: in user mode, or in a system
\* call that does not replace the address space.
Settled(p) == st[p].pc \in {"user", "copy", "spawn"} \/ (st[p].pc = "prepare" /\ st[p].child # NULL)

\* Memory is exact: a process finds in every page what its program
\* file held, zeroes, or what it wrote last; a forked child finds what its
\* parent had (as_prepare_load, lines 593-630; as_copy, lines 715-743), whoever
\* had the frames before and whatever other processes do.
ContentsKept ==
    \A p \in Process : Settled(p) => \A v \in Page : mem[Frame(p_addrspace[p], v)] = image[p][v]

\* A process that has loaded a program cannot change its text any more
\* (vm_fault, lines 407-409 and 424-426; as_complete_load, line 672): no entry
\* made while the loader wrote the text survives in the TLB.
TextIntact ==
    [][\A p \in Process : st[p].pc = "user" /\ st'[p].pc = "user" /\ loaded[p] =>
         \A v \in Text : mem'[Frame(p_addrspace[p], v)] = mem[Frame(p_addrspace[p], v)]]_allVars

\* The address space that thread p works on, besides its own.
Mine(p) == {p_addrspace[p], st[p].as, st[p].old} \ {NULL}

\* No address space is lost or shared: each one that holds memory belongs to
\* exactly one process, or was dropped by one of the two paths that forget it (a
\* failing thread_fork in sys_fork, a read-only fault inside execv); each one
\* that a settled process has is complete.
AddressSpacesOwned ==
    /\ \A a \in As :
         (\E s \in Table \union Page : held[<<a, s>>] # NoBlock) =>
            \/ a \in leaked /\ \A p \in Process : a \notin Mine(p)
            \/ a \notin leaked /\ Cardinality({p \in Process : a \in Mine(p)}) = 1
    /\ \A p \in Process : Settled(p) =>
         \A s \in Table \union Page : held[<<p_addrspace[p], s>>] # NoBlock

\* Memory is private: every process has an address space that is its own and
\* complete, and finds in it exactly what it put there (as_create to
\* as_destroy, dumbvm.c, under fork, execv, exit and their failures).
MemoryPrivate == ContentsKept /\ AddressSpacesOwned

\* fork reports ENOMEM when memory runs out (as_copy, line 704): nothing that
\* was not allocated is ever freed.
NoWildFree == halted # "wild"
=============================================================================
