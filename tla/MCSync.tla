------------------------------- MODULE MCSync -------------------------------
(***************************************************************************)
(* Locks and condition variables, semaphores, and the cat and mouse problem *)
(* side by side.  They share nothing; `part` says which one runs.           *)
(***************************************************************************)
EXTENDS Synch, Semaphore, CatMouse

VARIABLE part

syncVars == <<vars, semVars, cmVars, part>>

SyncInit ==
    /\ part \in {"lock", "semaphore", "catmouse"}
    /\ Init /\ SemInit /\ CmInit

SyncNext ==
    /\ \/ part = "lock" /\ Next /\ UNCHANGED <<semVars, cmVars>>
       \/ part = "semaphore" /\ SemNext /\ UNCHANGED <<vars, cmVars>>
       \/ part = "catmouse" /\ CmNext /\ UNCHANGED <<vars, semVars>>
    /\ UNCHANGED part

\* A thread inside a lock, condition variable or semaphore operation that can
\* go on does: see Synch and Semaphore.
SyncSpec ==
    /\ SyncInit /\ [][SyncNext]_syncVars
    /\ \A t \in Thread : WF_syncVars(part = "lock" /\ Kernel(t)
                                     /\ UNCHANGED <<semVars, cmVars, part>>)
    /\ \A t \in SemThread : WF_syncVars(part = "semaphore" /\ SemKernel(t)
                                        /\ UNCHANGED <<vars, cmVars, part>>)

\* No wake-up is lost, of a lock or of a semaphore, between the test that makes
\* a thread sleep and its sleep: see NoLostWakeup and UnitsSpokenFor.
WakeupsKept == NoLostWakeup /\ UnitsSpokenFor
=============================================================================
