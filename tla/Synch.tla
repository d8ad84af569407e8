-------------------------------- MODULE Synch --------------------------------
(***************************************************************************)
(* Locks and condition variables of kern/thread/synch.c on the spinlocks of *)
(* kern/thread/spinlock.c and the wait channels of kern/thread/thread.c:    *)
(* one lock, one condition variable, any number of threads that use them.   *)
(*                                                                         *)
(* A spinlock is its holder.  A wait channel is its list of sleepers and    *)
(* its wc_lock.  What a thread does to a wait channel between taking and    *)
(* dropping wc_lock is one step; where wc_lock is kept across other steps   *)
(* (the bridge from lk_lock to sleep) it is a variable.  thread_switch puts *)
(* the sleeper on the list before it drops wc_lock.                         *)
(***************************************************************************)
EXTENDS Naturals, Sequences

CONSTANTS Thread, None

ASSUME ThreadAssumption == None \notin Thread

VARIABLES
    lk_holder,      \* the thread that holds the sleep lock, or None
    lk_lock,        \* the spinlock of struct lock: its holder, or None
    lk_wc_lock,     \* the spinlock of lk_wchan
    lk_wchan,       \* threads asleep in lock_acquire, first come first
    cv_wc_lock,     \* the spinlock of cv_wchan
    cv_wchan,       \* threads asleep in cv_wait
    pc,             \* where each thread is
    in_wait,        \* is its lock_release the one of cv_wait?
    private         \* threads it took off a channel and has yet to make runnable

vars == <<lk_holder, lk_lock, lk_wc_lock, lk_wchan, cv_wc_lock, cv_wchan,
          pc, in_wait, private>>

Init ==
    /\ lk_holder = None
    /\ lk_lock = None
    /\ lk_wc_lock = None /\ lk_wchan = <<>>
    /\ cv_wc_lock = None /\ cv_wchan = <<>>
    /\ pc = [t \in Thread |-> "out"]
    /\ in_wait = [t \in Thread |-> FALSE]
    /\ private = [t \in Thread |-> <<>>]

\* A spinlock is free or has a holder; acquiring it spins until it is free.
spinlock_acquire(lk, t) == lk = None /\ lk' = t
spinlock_release(lk) == lk' = None

Goto(t, label) == pc' = [pc EXCEPT ![t] = label]

\* wchan_wakeone and wchan_wakeall: what they take off the channel.
First(list) == IF list = <<>> THEN <<>> ELSE <<Head(list)>>
ButFirst(list) == IF list = <<>> THEN <<>> ELSE Tail(list)

\* thread_make_runnable for the next thread taken off a channel: it comes back
\* from wchan_sleep, and in both callers goes for lk_lock.
Wake(t, label) ==
    /\ private[t] # <<>>
    /\ private' = [private EXCEPT ![t] = Tail(@)]
    /\ pc' = [pc EXCEPT ![Head(private[t])] = "acquire",
                        ![t] = IF Tail(private[t]) = <<>> THEN label ELSE @]

-----------------------------------------------------------------------------
(* lock_acquire *)

AcquireCall(t) ==
    /\ pc[t] = "out"
    /\ Goto(t, "acquire")
    /\ UNCHANGED <<lk_holder, lk_lock, lk_wc_lock, lk_wchan, cv_wc_lock, cv_wchan,
                   in_wait, private>>

\* Mutant: lk_holder is tested and set without lk_lock.
AcquireSpinNot(t) ==
    /\ pc[t] = "acquire"
    /\ Goto(t, "test")
    /\ UNCHANGED <<lk_holder, lk_lock, lk_wc_lock, lk_wchan, cv_wc_lock, cv_wchan,
                   in_wait, private>>

\* spinlock_acquire(&lock->lk_lock), also after a sleep
AcquireSpin(t) ==
    /\ pc[t] = "acquire"
    /\ spinlock_acquire(lk_lock, t)
    /\ Goto(t, "test")
    /\ UNCHANGED <<lk_holder, lk_wc_lock, lk_wchan, cv_wc_lock, cv_wchan,
                   in_wait, private>>

\* while (lock->lk_holder != NULL)
AcquireTest(t) ==
    /\ pc[t] = "test"
    /\ Goto(t, IF lk_holder = None THEN "take" ELSE "busy")
    /\ UNCHANGED <<lk_holder, lk_lock, lk_wc_lock, lk_wchan, cv_wc_lock, cv_wchan,
                   in_wait, private>>

AcquireTake(t) ==
    /\ pc[t] = "take"
    /\ lk_holder' = t
    /\ Goto(t, "taken")
    /\ UNCHANGED <<lk_lock, lk_wc_lock, lk_wchan, cv_wc_lock, cv_wchan,
                   in_wait, private>>

AcquireReturn(t) ==
    /\ pc[t] = "taken"
    /\ spinlock_release(lk_lock)
    /\ Goto(t, "in")
    /\ UNCHANGED <<lk_holder, lk_wc_lock, lk_wchan, cv_wc_lock, cv_wchan,
                   in_wait, private>>

\* Mutant: lk_lock is dropped before wchan_lock is taken.
AcquireBridgeLate(t) ==
    /\ pc[t] = "busy"
    /\ spinlock_release(lk_lock)
    /\ Goto(t, "gosleep")
    /\ UNCHANGED <<lk_holder, lk_wc_lock, lk_wchan, cv_wc_lock, cv_wchan,
                   in_wait, private>>

\* The lock is held: wchan_lock while lk_lock is still held ...
AcquireBridge(t) ==
    /\ pc[t] = "busy"
    /\ spinlock_acquire(lk_wc_lock, t)
    /\ Goto(t, "bridge")
    /\ UNCHANGED <<lk_holder, lk_lock, lk_wchan, cv_wc_lock, cv_wchan,
                   in_wait, private>>

\* ... then spinlock_release(&lock->lk_lock) ...
AcquireUnspin(t) ==
    /\ pc[t] = "bridge"
    /\ spinlock_release(lk_lock)
    /\ Goto(t, "gosleep")
    /\ UNCHANGED <<lk_holder, lk_wc_lock, lk_wchan, cv_wc_lock, cv_wchan,
                   in_wait, private>>

\* ... then wchan_sleep.
AcquireSleep(t) ==
    /\ pc[t] = "gosleep"
    /\ lk_wchan' = Append(lk_wchan, t)
    /\ spinlock_release(lk_wc_lock)
    /\ Goto(t, "asleep")
    /\ UNCHANGED <<lk_holder, lk_lock, cv_wc_lock, cv_wchan, in_wait, private>>

-----------------------------------------------------------------------------
(* lock_release, called by a program of locks or by cv_wait *)

ReleaseCall(t) ==
    /\ pc[t] = "in"
    /\ Goto(t, "release")
    /\ UNCHANGED <<lk_holder, lk_lock, lk_wc_lock, lk_wchan, cv_wc_lock, cv_wchan,
                   in_wait, private>>

ReleaseSpin(t) ==
    /\ pc[t] = "release"
    /\ spinlock_acquire(lk_lock, t)
    /\ Goto(t, "clear")
    /\ UNCHANGED <<lk_holder, lk_wc_lock, lk_wchan, cv_wc_lock, cv_wchan,
                   in_wait, private>>

ReleaseClear(t) ==
    /\ pc[t] = "clear"
    /\ lk_holder' = None
    /\ Goto(t, "wakeone")
    /\ UNCHANGED <<lk_lock, lk_wc_lock, lk_wchan, cv_wc_lock, cv_wchan,
                   in_wait, private>>

\* wchan_wakeone(lock->lk_wchan): take the first sleeper off the list.
ReleasePick(t) ==
    /\ pc[t] = "wakeone" /\ lk_wc_lock = None
    /\ private' = [private EXCEPT ![t] = First(lk_wchan)]
    /\ lk_wchan' = ButFirst(lk_wchan)
    /\ Goto(t, IF lk_wchan = <<>> THEN "unspin" ELSE "wake")
    /\ UNCHANGED <<lk_holder, lk_lock, lk_wc_lock, cv_wc_lock, cv_wchan, in_wait>>

ReleaseWake(t) ==
    /\ pc[t] = "wake"
    /\ Wake(t, "unspin")
    /\ UNCHANGED <<lk_holder, lk_lock, lk_wc_lock, lk_wchan, cv_wc_lock, cv_wchan, in_wait>>

\* Mutant: spinlock_release(&lock->lk_lock) is missing.
ReleaseReturnSpun(t) ==
    /\ pc[t] = "unspin"
    /\ Goto(t, IF in_wait[t] THEN "cvsleep" ELSE "out")
    /\ UNCHANGED <<lk_holder, lk_lock, lk_wc_lock, lk_wchan, cv_wc_lock, cv_wchan,
                   in_wait, private>>

ReleaseReturn(t) ==
    /\ pc[t] = "unspin"
    /\ spinlock_release(lk_lock)
    /\ Goto(t, IF in_wait[t] THEN "cvsleep" ELSE "out")
    /\ UNCHANGED <<lk_holder, lk_wc_lock, lk_wchan, cv_wc_lock, cv_wchan,
                   in_wait, private>>

-----------------------------------------------------------------------------
(* cv_wait, cv_signal, cv_broadcast *)

\* Mutant: lock_release comes before wchan_lock.
WaitLockLate(t) ==
    /\ pc[t] = "in"
    /\ in_wait' = [in_wait EXCEPT ![t] = TRUE]
    /\ Goto(t, "release")
    /\ UNCHANGED <<lk_holder, lk_lock, lk_wc_lock, lk_wchan, cv_wc_lock, cv_wchan, private>>

\* wchan_lock(cv->cv_wchan), then lock_release, then wchan_sleep.
WaitLock(t) ==
    /\ pc[t] = "in"
    /\ spinlock_acquire(cv_wc_lock, t)
    /\ in_wait' = [in_wait EXCEPT ![t] = TRUE]
    /\ Goto(t, "release")
    /\ UNCHANGED <<lk_holder, lk_lock, lk_wc_lock, lk_wchan, cv_wchan, private>>

WaitSleep(t) ==
    /\ pc[t] = "cvsleep"
    /\ cv_wchan' = Append(cv_wchan, t)
    /\ spinlock_release(cv_wc_lock)
    /\ in_wait' = [in_wait EXCEPT ![t] = FALSE]
    /\ Goto(t, "cvasleep")
    /\ UNCHANGED <<lk_holder, lk_lock, lk_wc_lock, lk_wchan, private>>

NotifyCall(t, op) ==
    /\ pc[t] = "in"
    /\ Goto(t, op)
    /\ UNCHANGED <<lk_holder, lk_lock, lk_wc_lock, lk_wchan, cv_wc_lock, cv_wchan,
                   in_wait, private>>

SignalPick(t) ==
    /\ pc[t] = "signal" /\ cv_wc_lock = None
    /\ private' = [private EXCEPT ![t] = First(cv_wchan)]
    /\ cv_wchan' = ButFirst(cv_wchan)
    /\ Goto(t, IF cv_wchan = <<>> THEN "in" ELSE "notify")
    /\ UNCHANGED <<lk_holder, lk_lock, lk_wc_lock, lk_wchan, cv_wc_lock, in_wait>>

BroadcastPick(t) ==
    /\ pc[t] = "broadcast" /\ cv_wc_lock = None
    /\ private' = [private EXCEPT ![t] = cv_wchan]
    /\ cv_wchan' = <<>>
    /\ Goto(t, IF cv_wchan = <<>> THEN "in" ELSE "notify")
    /\ UNCHANGED <<lk_holder, lk_lock, lk_wc_lock, lk_wchan, cv_wc_lock, in_wait>>

NotifyWake(t) ==
    /\ pc[t] = "notify"
    /\ Wake(t, "in")
    /\ UNCHANGED <<lk_holder, lk_lock, lk_wc_lock, lk_wchan, cv_wc_lock, cv_wchan, in_wait>>

-----------------------------------------------------------------------------
\* Steps inside synch.c; a thread there is runnable or spins.
Kernel(t) ==
    \/ AcquireSpin(t) \/ AcquireTest(t) \/ AcquireTake(t) \/ AcquireReturn(t)
    \/ AcquireBridge(t) \/ AcquireUnspin(t) \/ AcquireSleep(t)
    \/ ReleaseSpin(t) \/ ReleaseClear(t) \/ ReleasePick(t)
    \/ ReleaseWake(t) \/ ReleaseReturn(t)
    \/ WaitSleep(t) \/ SignalPick(t) \/ BroadcastPick(t) \/ NotifyWake(t)

\* Calls; which ones a thread makes, and when, is up to it.
Use(t) ==
    \/ AcquireCall(t) \/ ReleaseCall(t) \/ WaitLock(t)
    \/ NotifyCall(t, "signal") \/ NotifyCall(t, "broadcast")

Next == \E t \in Thread : Kernel(t) \/ Use(t)

\* The scheduler is round-robin with a timer, so a runnable thread runs.
Spec == Init /\ [][Next]_vars /\ \A t \in Thread : WF_vars(Kernel(t))

-----------------------------------------------------------------------------
Label == {"out", "acquire", "test", "take", "taken", "busy", "bridge", "gosleep", "asleep", "in",
          "release", "clear", "wakeone", "wake", "unspin", "cvsleep", "cvasleep",
          "signal", "broadcast", "notify"}

\* Every variable keeps its type.
TypeOK ==
    /\ lk_holder \in Thread \union {None}
    /\ lk_lock \in Thread \union {None}
    /\ lk_wc_lock \in Thread \union {None}
    /\ cv_wc_lock \in Thread \union {None}
    /\ lk_wchan \in Seq(Thread)
    /\ cv_wchan \in Seq(Thread)
    /\ pc \in [Thread -> Label]
    /\ in_wait \in [Thread -> BOOLEAN]
    /\ private \in [Thread -> Seq(Thread)]

\* Between the return of lock_acquire and the clearing of lk_holder.
Inside == {"in", "signal", "broadcast", "notify", "release"}

\* Mutual exclusion: two threads are never both between lock_acquire
\* (synch.c:202-231) and lock_release (234-253), also after one of them came
\* back from cv_wait.
MutualExclusion ==
    \A t, u \in Thread : (pc[t] \in Inside /\ pc[u] \in Inside) => t = u

\* No wake-up of the lock is lost (synch.c:214-219 against 242-247): while
\* threads sleep for a free lock, some thread is on its way to take it or to
\* wake one of them.
NoLostWakeup ==
    (lk_wchan # <<>> /\ lk_holder = None) =>
        \E t \in Thread : pc[t] \in {"acquire", "test", "take", "wakeone", "wake"}

\* Threads that are after the lock, asleep or not.
Entering == {"acquire", "test", "take", "busy", "bridge", "gosleep", "asleep"}

\* A free lock that somebody wants is taken: spinlocks, wait channels and
\* wake-ups never stop each other.  (Which thread gets it is not promised.)
LockProgress ==
    (lk_holder = None /\ \E t \in Thread : pc[t] \in Entering) ~> lk_holder # None

Members(list) == {list[i] : i \in DOMAIN list}

\* The state of the monitor that a thread's place in synch.c stands for.
\* lock_acquire takes effect when lk_holder is set, lock_release and cv_wait
\* when it is cleared, cv_signal and cv_broadcast when sleepers leave the list.
Standing(t) ==
    CASE pc[t] \in Entering -> "enter"
      [] pc[t] \in {"taken", "in", "release", "clear", "notify"} -> "in"
      [] pc[t] = "signal" -> "sig"
      [] pc[t] = "broadcast" -> "bcast"
      [] pc[t] = "cvasleep" -> IF t \in Members(cv_wchan) THEN "wait" ELSE "enter"
      [] pc[t] = "cvsleep" -> "wait"
      [] pc[t] \in {"wakeone", "wake", "unspin"} -> IF in_wait[t] THEN "wait" ELSE "out"
      [] OTHER -> "out"

Abs == INSTANCE Monitor WITH holder <- lk_holder,
                             st <- [t \in Thread |-> Standing(t)]

\* synch.c implements the lock and the condition variable of Monitor; in
\* particular cv_wait is atomic for every cv_signal and cv_broadcast
\* ("wchan_lock and lock_release orders matter", synch.c:319).
ImplementsMonitor == Abs!Spec
=============================================================================
