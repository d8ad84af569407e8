------------------------------- MODULE Monitor -------------------------------
(***************************************************************************)
(* What kern/include/synch.h promises of a lock and a condition variable    *)
(* used with it: one holder at a time; cv_wait releases the lock and joins  *)
(* the waiters in one step; cv_signal lets one waiter go on if there is     *)
(* one, cv_broadcast all of them; a waiter that goes on takes the lock      *)
(* again first.  Synch has the spinlocks, wait channels and steps of        *)
(* kern/thread/synch.c and implements this module.                          *)
(***************************************************************************)
CONSTANTS Thread, None

VARIABLES
    holder,     \* the thread that holds the lock, or None
    st          \* where each thread stands

\* out: does not use the lock; enter: wants it; in: has it; sig, bcast: has it
\* and is in cv_signal or cv_broadcast; wait: waits on the condition variable.
Status == {"out", "enter", "in", "sig", "bcast", "wait"}

vars == <<holder, st>>

Init ==
    /\ holder = None
    /\ st = [t \in Thread |-> "out"]

Waiters == {t \in Thread : st[t] = "wait"}

Call(t) ==
    /\ st[t] = "out"
    /\ st' = [st EXCEPT ![t] = "enter"]
    /\ UNCHANGED holder

Acquire(t) ==
    /\ st[t] = "enter" /\ holder = None
    /\ holder' = t
    /\ st' = [st EXCEPT ![t] = "in"]

Release(t) ==
    /\ st[t] = "in" /\ holder = t
    /\ holder' = None
    /\ st' = [st EXCEPT ![t] = "out"]

Wait(t) ==
    /\ st[t] = "in" /\ holder = t
    /\ holder' = None
    /\ st' = [st EXCEPT ![t] = "wait"]

Begin(t, op) ==
    /\ st[t] = "in" /\ holder = t
    /\ st' = [st EXCEPT ![t] = op]
    /\ UNCHANGED holder

Signal(t) ==
    /\ st[t] = "sig" /\ holder = t
    /\ \/ /\ Waiters = {}
          /\ st' = [st EXCEPT ![t] = "in"]
       \/ \E w \in Waiters : st' = [st EXCEPT ![w] = "enter", ![t] = "in"]
    /\ UNCHANGED holder

Broadcast(t) ==
    /\ st[t] = "bcast" /\ holder = t
    /\ st' = [u \in Thread |-> IF u = t THEN "in"
                               ELSE IF u \in Waiters THEN "enter" ELSE st[u]]
    /\ UNCHANGED holder

Next ==
    \E t \in Thread :
        \/ Call(t) \/ Acquire(t) \/ Release(t) \/ Wait(t)
        \/ Begin(t, "sig") \/ Begin(t, "bcast")
        \/ Signal(t) \/ Broadcast(t)

Spec == Init /\ [][Next]_vars
=============================================================================
