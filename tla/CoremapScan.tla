----------------------------- MODULE CoremapScan -----------------------------
(***************************************************************************)
(* coremap_alloc and coremap_dealloc of kern/arch/mips/vm/dumbvm.c, loop    *)
(* iteration by loop iteration, called by several threads that contend for  *)
(* coremap_lock.  The module implements Coremap: a call takes effect when   *)
(* its first entry is rewritten.                                           *)
(***************************************************************************)
EXTENDS Coremap

CONSTANT NoOwner        \* coremap_lock is free

ASSUME NoOwnerAssumption == NoOwner \notin Owners

VARIABLES
    coremap_lock,   \* the owner inside the spinlock, or NoOwner
    pc,             \* where each owner's call stands
    loc             \* its local variables

ramVars == <<firstpaddr, lastpaddr, vm_bootstrap_flag, firstaddr, lastaddr, stolen>>
scanVars == <<vars, coremap_lock, pc, loc>>

NoLocals == [npages |-> 0, i |-> 0, length |-> 0, start |-> 0, end |-> 0]

Goto(o, label) == pc' = [pc EXCEPT ![o] = label]

ScanInit ==
    /\ Init
    /\ coremap_lock = NoOwner
    /\ pc = [o \in Owners |-> "idle"]
    /\ loc = [o \in Owners |-> NoLocals]

\* One CPU runs until vm_bootstrap is done, so the boot steps are atomic.
Boot ==
    /\ \/ \E n \in 0 .. MaxRequest : ram_stealmem(n)
       \/ vm_bootstrap
    /\ UNCHANGED <<coremap_lock, pc, loc>>

-----------------------------------------------------------------------------
(* coremap_alloc(npages), lines 168-209 *)

AllocLock(o, npages) ==
    /\ vm_bootstrap_flag = 1
    /\ pc[o] = "idle" /\ held[o] = NoBlock
    /\ coremap_lock = NoOwner
    /\ coremap_lock' = o
    /\ loc' = [loc EXCEPT ![o] =
                 [NoLocals EXCEPT !.npages = npages, !.i = num_of_coremap_pages]]
    /\ Goto(o, "scan")
    /\ UNCHANGED <<ramVars, coremap, held>>

\* Mutant: a used entry does not interrupt the run that is being counted.
LengthNeverReset(o) == loc[o].length + (1 - coremap[loc[o].i].used)

\* The length of the free run that ends at entry i.
LengthAt(o) == IF coremap[loc[o].i].used = 0 THEN loc[o].length + 1 ELSE 0

\* Mutant: the comparison comes before the entry is counted.
RunCompleteLate(o) == coremap[loc[o].i].used = 0 /\ loc[o].length = loc[o].npages

\* Entry i is free and completes a run of npages.
RunComplete(o) == coremap[loc[o].i].used = 0 /\ LengthAt(o) = loc[o].npages

\* One iteration of the search: count a free entry, or start counting again.
AllocScan(o) ==
    /\ pc[o] = "scan" /\ loc[o].i < num_of_pages
    /\ \/ /\ RunComplete(o)
          /\ loc' = [loc EXCEPT ![o].length = LengthAt(o),
                                ![o].start = loc[o].i - LengthAt(o) + 1]
          /\ Goto(o, "fill")
       \/ /\ ~RunComplete(o)
          /\ loc' = [loc EXCEPT ![o].length = LengthAt(o), ![o].i = @ + 1]
          /\ UNCHANGED pc
    /\ UNCHANGED <<ramVars, coremap, held, coremap_lock>>

\* Mutant: the early return forgets spinlock_release.
AllocFailKeepsLock(o) ==
    /\ pc[o] = "scan" /\ loc[o].i = num_of_pages
    /\ loc' = [loc EXCEPT ![o] = NoLocals]
    /\ Goto(o, "idle")
    /\ UNCHANGED <<ramVars, coremap, held, coremap_lock>>

\* The search ran off the end: release the lock and return 0.
AllocFail(o) ==
    /\ pc[o] = "scan" /\ loc[o].i = num_of_pages
    /\ coremap_lock' = NoOwner
    /\ loc' = [loc EXCEPT ![o] = NoLocals]
    /\ Goto(o, "idle")
    /\ UNCHANGED <<ramVars, coremap, held>>

\* The first entry of the run, with the length; end is the loop variable j.
AllocFillFirst(o) ==
    /\ pc[o] = "fill"
    /\ coremap' = [coremap EXCEPT ![loc[o].start] =
                     [used |-> 1, count |-> loc[o].npages]]
    /\ held' = [held EXCEPT ![o] = [addr |-> firstaddr + loc[o].start,
                                    npages |-> loc[o].npages]]
    /\ loc' = [loc EXCEPT ![o].end = loc[o].start + 1]
    /\ Goto(o, "fillrest")
    /\ UNCHANGED <<ramVars, coremap_lock>>

AllocFillRest(o) ==
    /\ pc[o] = "fillrest" /\ loc[o].end <= loc[o].i
    /\ coremap' = [coremap EXCEPT ![loc[o].end] = [used |-> 1, count |-> 1]]
    /\ loc' = [loc EXCEPT ![o].end = @ + 1]
    /\ UNCHANGED <<ramVars, held, coremap_lock, pc>>

AllocDone(o) ==
    /\ pc[o] = "fillrest" /\ loc[o].end > loc[o].i
    /\ coremap_lock' = NoOwner
    /\ loc' = [loc EXCEPT ![o] = NoLocals]
    /\ Goto(o, "idle")
    /\ UNCHANGED <<ramVars, coremap, held>>

-----------------------------------------------------------------------------
(* coremap_dealloc(pa), lines 152-165 *)

\* Take the lock, compute start and end, and give the block up.
DeallocLock(o) ==
    /\ vm_bootstrap_flag = 1
    /\ pc[o] = "idle" /\ held[o] # NoBlock
    /\ coremap_lock = NoOwner
    /\ coremap_lock' = o
    /\ LET start == held[o].addr - firstaddr
       IN loc' = [loc EXCEPT ![o] = [NoLocals EXCEPT !.i = start,
                                       !.end = start + coremap[start].count]]
    /\ held' = [held EXCEPT ![o] = NoBlock]
    /\ Goto(o, "free")
    /\ UNCHANGED <<ramVars, coremap>>

DeallocEntry(o) ==
    /\ pc[o] = "free" /\ loc[o].i < loc[o].end
    /\ coremap' = [coremap EXCEPT ![loc[o].i] = [used |-> 0, count |-> 0]]
    /\ loc' = [loc EXCEPT ![o].i = @ + 1]
    /\ UNCHANGED <<ramVars, held, coremap_lock, pc>>

DeallocDone(o) ==
    /\ pc[o] = "free" /\ loc[o].i = loc[o].end
    /\ coremap_lock' = NoOwner
    /\ loc' = [loc EXCEPT ![o] = NoLocals]
    /\ Goto(o, "idle")
    /\ UNCHANGED <<ramVars, coremap, held>>

-----------------------------------------------------------------------------
Step(o) ==
    \/ AllocScan(o) \/ AllocFail(o)
    \/ AllocFillFirst(o) \/ AllocFillRest(o) \/ AllocDone(o)
    \/ DeallocEntry(o) \/ DeallocDone(o)

ScanNext ==
    \/ Boot
    \/ \E o \in Owners, n \in 0 .. MaxRequest : AllocLock(o, n)
    \/ \E o \in Owners : DeallocLock(o)
    \/ \E o \in Owners : Step(o)

\* A thread that holds a spinlock runs with interrupts off: it cannot be
\* descheduled and always takes its next step.
ScanSpec == ScanInit /\ [][ScanNext]_scanVars /\ \A o \in Owners : WF_scanVars(Step(o))

-----------------------------------------------------------------------------
\* The abstract coremap: the rest of a run that is being marked is already
\* marked, the rest of a block that is being freed is already free.
AbsEntry(k) ==
    IF \E o \in Owners : pc[o] = "fillrest" /\ k \in loc[o].end .. loc[o].i
    THEN [used |-> 1, count |-> 1]
    ELSE IF \E o \in Owners : pc[o] = "free" /\ k \in loc[o].i .. (loc[o].end - 1)
    THEN [used |-> 0, count |-> 0]
    ELSE coremap[k]

Abs == INSTANCE Coremap WITH coremap <- [k \in DOMAIN coremap |-> AbsEntry(k)]

\* The loops, under coremap_lock, implement the one-step first-fit allocator of
\* Coremap whichever threads contend for the lock.
ImplementsCoremap == Abs!Spec

\* coremap_alloc returns 0 (line 204) only when no npages contiguous frames
\* are free above the coremap, or when no page was asked for.
FailureIsReal ==
    \A o \in Owners :
        (pc[o] = "scan" /\ loc[o].i = num_of_pages /\ loc[o].npages > 0) =>
            \A s \in Index : ~FreeRun(s, loc[o].npages)

\* The spinlock is always given back: no call keeps it forever.
LockReleased == \A o \in Owners : (coremap_lock = o) ~> (coremap_lock # o)
=============================================================================
