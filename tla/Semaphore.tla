------------------------------ MODULE Semaphore ------------------------------
(***************************************************************************)
(* The counting semaphore of kern/thread/synch.c, at the grain of Synch:    *)
(* sem_lock and the channel's spinlock are their holders, and P bridges from *)
(* one to the other before it sleeps.                                       *)
(***************************************************************************)
EXTENDS Naturals, Sequences, FiniteSets

CONSTANTS SemThread, NoThread,
          InitialCount,     \* initial_count of sem_create
          MaxV              \* bound: calls of V that are made in a run

ASSUME SemaphoreAssumption ==
    NoThread \notin SemThread /\ InitialCount \in Nat /\ MaxV \in Nat

VARIABLES
    sem_count, sem_lock,
    sem_wc_lock,        \* the spinlock of sem_wchan
    sem_wchan,      \* threads asleep in P, first come first
    starget,         \* the thread a V took off sem_wchan and has yet to make runnable
    spc,
    vcalls           \* calls of V so far

semVars == <<sem_count, sem_lock, sem_wc_lock, sem_wchan, starget, spc, vcalls>>

\* sem_create
SemInit ==
    /\ sem_count = InitialCount
    /\ sem_lock = NoThread
    /\ sem_wc_lock = NoThread /\ sem_wchan = <<>>
    /\ starget = [t \in SemThread |-> NoThread]
    /\ spc = [t \in SemThread |-> "out"]
    /\ vcalls = 0

SemGoto(t, label) == spc' = [spc EXCEPT ![t] = label]

-----------------------------------------------------------------------------
PCall(t) ==
    /\ spc[t] = "out"
    /\ SemGoto(t, "P")
    /\ UNCHANGED <<sem_count, sem_lock, sem_wc_lock, sem_wchan, starget, vcalls>>

\* spinlock_acquire(&sem->sem_lock), also after a sleep
PSpin(t) ==
    /\ spc[t] = "P" /\ sem_lock = NoThread
    /\ sem_lock' = t
    /\ SemGoto(t, "test")
    /\ UNCHANGED <<sem_count, sem_wc_lock, sem_wchan, starget, vcalls>>

\* The loop ends: sem_count--, spinlock_release.
PTake(t) ==
    /\ spc[t] = "test" /\ sem_count > 0
    /\ sem_count' = sem_count - 1
    /\ sem_lock' = NoThread
    /\ SemGoto(t, "out")
    /\ UNCHANGED <<sem_wc_lock, sem_wchan, starget, vcalls>>

\* "Bridge to the wchan lock": wchan_lock, ...
PBridge(t) ==
    /\ spc[t] = "test" /\ sem_count = 0 /\ sem_wc_lock = NoThread
    /\ sem_wc_lock' = t
    /\ SemGoto(t, "bridge")
    /\ UNCHANGED <<sem_count, sem_lock, sem_wchan, starget, vcalls>>

\* ... spinlock_release(&sem->sem_lock), ...
PUnspin(t) ==
    /\ spc[t] = "bridge"
    /\ sem_lock' = NoThread
    /\ SemGoto(t, "gosleep")
    /\ UNCHANGED <<sem_count, sem_wc_lock, sem_wchan, starget, vcalls>>

\* ... wchan_sleep: thread_switch puts the thread on the list, then drops sem_wc_lock.
PSleep(t) ==
    /\ spc[t] = "gosleep"
    /\ sem_wchan' = Append(sem_wchan, t)
    /\ sem_wc_lock' = NoThread
    /\ SemGoto(t, "asleep")
    /\ UNCHANGED <<sem_count, sem_lock, starget, vcalls>>

-----------------------------------------------------------------------------
\* From a thread or, since V does not sleep, from an interrupt handler.
VCall(t) ==
    /\ spc[t] = "out" /\ vcalls < MaxV
    /\ vcalls' = vcalls + 1
    /\ SemGoto(t, "V")
    /\ UNCHANGED <<sem_count, sem_lock, sem_wc_lock, sem_wchan, starget>>

\* spinlock_acquire, sem_count++
VCount(t) ==
    /\ spc[t] = "V" /\ sem_lock = NoThread
    /\ sem_lock' = t
    /\ sem_count' = sem_count + 1
    /\ SemGoto(t, "wakeone")
    /\ UNCHANGED <<sem_wc_lock, sem_wchan, starget, vcalls>>

\* Mutant: wakes a thread only when the count was zero before.
VPickFirstOnly(t) ==
    /\ spc[t] = "wakeone" /\ sem_wc_lock = NoThread
    /\ IF sem_wchan = <<>> \/ sem_count > 1
         THEN SemGoto(t, "unspin") /\ UNCHANGED <<sem_wchan, starget>>
         ELSE /\ starget' = [starget EXCEPT ![t] = Head(sem_wchan)]
              /\ sem_wchan' = Tail(sem_wchan)
              /\ SemGoto(t, "wake")
    /\ UNCHANGED <<sem_count, sem_lock, sem_wc_lock, vcalls>>

\* wchan_wakeone: take the first sleeper off the list, under sem_wc_lock.
VPick(t) ==
    /\ spc[t] = "wakeone" /\ sem_wc_lock = NoThread
    /\ IF sem_wchan = <<>>
         THEN SemGoto(t, "unspin") /\ UNCHANGED <<sem_wchan, starget>>
         ELSE /\ starget' = [starget EXCEPT ![t] = Head(sem_wchan)]
              /\ sem_wchan' = Tail(sem_wchan)
              /\ SemGoto(t, "wake")
    /\ UNCHANGED <<sem_count, sem_lock, sem_wc_lock, vcalls>>

\* thread_make_runnable: the sleeper goes for sem_lock again.
VWake(t) ==
    /\ spc[t] = "wake"
    /\ spc' = [spc EXCEPT ![starget[t]] = "P", ![t] = "unspin"]
    /\ starget' = [starget EXCEPT ![t] = NoThread]
    /\ UNCHANGED <<sem_count, sem_lock, sem_wc_lock, sem_wchan, vcalls>>

VReturn(t) ==
    /\ spc[t] = "unspin"
    /\ sem_lock' = NoThread
    /\ SemGoto(t, "out")
    /\ UNCHANGED <<sem_count, sem_wc_lock, sem_wchan, starget, vcalls>>

-----------------------------------------------------------------------------
SemKernel(t) ==
    \/ PSpin(t) \/ PTake(t) \/ PBridge(t) \/ PUnspin(t) \/ PSleep(t)
    \/ VCount(t) \/ VPick(t) \/ VWake(t) \/ VReturn(t)

SemNext == \E t \in SemThread : SemKernel(t) \/ PCall(t) \/ VCall(t)

\* A thread inside P or V that can go on does.
SemSpec == SemInit /\ [][SemNext]_semVars /\ \A t \in SemThread : WF_semVars(SemKernel(t))

-----------------------------------------------------------------------------
\* Threads that will take a unit, or wake one that will, without any help.
OnTheWay == {t \in SemThread : spc[t] \in {"P", "test", "wakeone", "wake"}}

\* While threads sleep in P, every unit of the semaphore has somebody coming
\* for it (synch.c:104-124 against 136-143).  V wakes one thread per unit, so
\* one lost wake-up among several is enough to break this.
UnitsSpokenFor == sem_wchan # <<>> => sem_count <= Cardinality(OnTheWay)

Wants(t) == spc[t] \in {"P", "test", "bridge", "gosleep", "asleep"}

\* Once the calls of V have ended, no thread waits in P for ever while units
\* are left.
Drained == <>[](sem_count = 0 \/ ~ \E t \in SemThread : Wants(t))
=============================================================================
