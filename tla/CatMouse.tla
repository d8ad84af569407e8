------------------------------ MODULE CatMouse ------------------------------
(***************************************************************************)
(* The cat and mouse problem of kern/synchprobs: the simulation threads and *)
(* their driver (catmouse.c) and the synchronisation that lets them eat     *)
(* (catmouse_synch.c).  The code for mice is the code for cats with the     *)
(* names exchanged, so one definition, with the species of the creature as  *)
(* a parameter, stands for both.                                            *)
(*                                                                         *)
(* Locks and condition variables are those of Monitor.  A section under     *)
(* set_catmouse_eat, or between P(mutex) and V(mutex), blocks nowhere       *)
(* inside and is one step.  The bowl locks are kept while a creature eats   *)
(* and while it goes to sleep, so they are state.                           *)
(***************************************************************************)
EXTENDS Naturals, FiniteSets

CONSTANTS Cat, Mouse, NumBowls, NumLoops, NoOne

ASSUME CatMouseAssumption ==
    /\ IsFiniteSet(Cat) /\ IsFiniteSet(Mouse) /\ Cat \intersect Mouse = {}
    /\ NoOne \notin Cat \union Mouse \union {"cat", "mouse"}
    /\ NumBowls \in Nat \ {0} /\ NumLoops \in Nat \ {0}

Creature == Cat \union Mouse
Bowl == 1..NumBowls
Species == {"cat", "mouse"}
Kind(x) == IF x \in Cat THEN "cat" ELSE "mouse"
Other(s) == IF s = "cat" THEN "mouse" ELSE "cat"

VARIABLES
    lk_for_bowls,       \* holder of each bowl's lock, or NoOne
    eating,             \* catsEating and mouseEating
    sleeping,           \* catsSleeping and mouseSleeping
    cat_mouse_turn,     \* "cat" (1), "mouse" (0) or NoOne (-1)
    bowls,              \* who eats at each bowl, as catmouse.c records it
    cpc,                \* where each creature is
    bowl,               \* the bowl it chose
    loops,              \* meals it still has to take
    CatMouseWait,       \* the count of the semaphore
    waited,             \* how many times catmouse() came back from P
    wait_count,         \* cat_wait_count and mouse_wait_count
    cleaned,            \* has catmouse() destroyed what the creatures share?
    panicked            \* has a check of cat_eat or mouse_eat failed?

cmVars == <<lk_for_bowls, eating, sleeping, cat_mouse_turn, bowls, cpc, bowl, loops,
          CatMouseWait, waited, wait_count, cleaned, panicked>>
sync == <<eating, sleeping, cat_mouse_turn>>
driver == <<loops, CatMouseWait, waited, wait_count, cleaned>>

catmouse_sync_init ==
    /\ lk_for_bowls = [b \in Bowl |-> NoOne]
    /\ eating = [s \in Species |-> 0]
    /\ sleeping = [s \in Species |-> 0]
    /\ cat_mouse_turn = NoOne

initialize_bowls ==
    /\ bowls = [b \in Bowl |-> NoOne]
    /\ wait_count = [s \in Species |-> 0]

CmInit ==
    /\ catmouse_sync_init /\ initialize_bowls
    /\ cpc = [x \in Creature |-> "unborn"]
    /\ bowl = [x \in Creature |-> 1]     \* not read before it is chosen
    /\ loops = [x \in Creature |-> NumLoops]
    /\ CatMouseWait = 0 /\ waited = 0
    /\ cleaned = FALSE /\ panicked = FALSE

Running == ~ panicked
CmGoto(x, label) == cpc' = [cpc EXCEPT ![x] = label]

\* cat_sleep, then a random bowl
ChooseBowl(x) ==
    /\ Running /\ cpc[x] = "sleep"
    /\ \E b \in Bowl : bowl' = [bowl EXCEPT ![x] = b]
    /\ CmGoto(x, "turn")
    /\ UNCHANGED <<lk_for_bowls, sync, bowls, driver, panicked>>

-----------------------------------------------------------------------------
(* cat_before_eating and mouse_before_eating *)

\* The first section under set_catmouse_eat: if it is nobody's turn, it is mine.
TakeTurn(x) ==
    /\ Running /\ cpc[x] = "turn"
    /\ cat_mouse_turn' = IF cat_mouse_turn = NoOne THEN Kind(x) ELSE cat_mouse_turn
    /\ CmGoto(x, "bowl")
    /\ UNCHANGED <<lk_for_bowls, eating, sleeping, bowls, bowl, driver, panicked>>

\* lock_acquire of the bowl's lock, in before_eating and at the end of cv_wait
LockBowl(x) ==
    /\ Running /\ cpc[x] \in {"bowl", "woken"}
    /\ lk_for_bowls[bowl[x]] = NoOne
    /\ lk_for_bowls' = [lk_for_bowls EXCEPT ![bowl[x]] = x]
    /\ CmGoto(x, IF cpc[x] = "bowl" THEN "look" ELSE "again")
    /\ UNCHANGED <<sync, bowls, bowl, driver, panicked>>

\* Mutant: the creatures that still eat are not looked at.
MayNotEatTurnOnly(s) == cat_mouse_turn = Other(s)

\* The condition of the while loop.
MayNotEat(s) == cat_mouse_turn = Other(s) \/ eating[Other(s)] > 0

\* The second section under set_catmouse_eat, entered from above or after
\* cv_wait: wait (again), or eat.
Look(x) ==
    LET s == Kind(x)
        awake == IF cpc[x] = "again" THEN sleeping[s] - 1 ELSE sleeping[s]
    IN  /\ Running /\ cpc[x] \in {"look", "again"}
        /\ \/ /\ MayNotEat(s)
              /\ sleeping' = [sleeping EXCEPT ![s] = awake + 1]
              /\ CmGoto(x, "wait")
              /\ UNCHANGED eating
           \/ /\ ~ MayNotEat(s)
              /\ sleeping' = [sleeping EXCEPT ![s] = awake]
              /\ eating' = [eating EXCEPT ![s] = @ + 1]
              /\ CmGoto(x, "eat")
        /\ UNCHANGED <<lk_for_bowls, cat_mouse_turn, bowls, bowl, driver, panicked>>

\* cv_wait, after set_catmouse_eat is released: gives up the bowl's lock only.
Wait(x) ==
    /\ Running /\ cpc[x] = "wait"
    /\ lk_for_bowls' = [lk_for_bowls EXCEPT ![bowl[x]] = NoOne]
    /\ CmGoto(x, "asleep")
    /\ UNCHANGED <<sync, bowls, bowl, driver, panicked>>

-----------------------------------------------------------------------------
(* cat_eat and mouse_eat *)

StartMeal(x) ==
    LET s == Kind(x)
    IN  /\ Running /\ cpc[x] = "eat"
        /\ IF bowls[bowl[x]] # NoOne \/ \E b \in Bowl : bowls[b] = Other(s)
             THEN panicked' = TRUE /\ UNCHANGED <<bowls, cpc>>
             ELSE /\ bowls' = [bowls EXCEPT ![bowl[x]] = s]
                  /\ CmGoto(x, "eating")
                  /\ UNCHANGED panicked
        /\ UNCHANGED <<lk_for_bowls, sync, bowl, driver>>

EndMeal(x) ==
    /\ Running /\ cpc[x] = "eating"
    /\ IF bowls[bowl[x]] # Kind(x)
         THEN panicked' = TRUE /\ UNCHANGED <<bowls, cpc>>
         ELSE /\ bowls' = [bowls EXCEPT ![bowl[x]] = NoOne]
              /\ CmGoto(x, "after")
              /\ UNCHANGED panicked
    /\ UNCHANGED <<lk_for_bowls, sync, bowl, driver>>

-----------------------------------------------------------------------------
(* cat_after_eating and mouse_after_eating *)

\* cv_broadcast: every creature asleep on the condition variable of species s
\* goes for its bowl's lock.
Broadcast(s, label) ==
    [y \in Creature |-> IF cpc[y] = "asleep" /\ Kind(y) = s THEN label ELSE cpc[y]]

\* The section under set_catmouse_eat: the last one to eat hands the turn over.
After(x) ==
    LET s == Kind(x)
        o == Other(s)
        left == eating[s] - 1
    IN  /\ Running /\ cpc[x] = "after"
        /\ eating' = [eating EXCEPT ![s] = left]
        /\ \/ /\ left = 0 /\ sleeping[o] > 0
              /\ cat_mouse_turn' = o
              /\ cpc' = [Broadcast(o, "woken") EXCEPT ![x] = "leave"]
           \/ /\ left = 0 /\ sleeping[o] = 0 /\ sleeping[s] = 0
              /\ cat_mouse_turn' = NoOne
              /\ CmGoto(x, "leave")
           \/ /\ left > 0 \/ (sleeping[o] = 0 /\ sleeping[s] > 0)
              /\ cpc' = [Broadcast(s, "woken") EXCEPT ![x] = "leave"]
              /\ UNCHANGED cat_mouse_turn
        /\ UNCHANGED <<lk_for_bowls, sleeping, bowls, bowl, driver, panicked>>

\* lock_release of the bowl's lock.
Leave(x) ==
    /\ Running /\ cpc[x] = "leave"
    /\ lk_for_bowls' = [lk_for_bowls EXCEPT ![bowl[x]] = NoOne]
    /\ CmGoto(x, "stats")
    /\ UNCHANGED <<sync, bowls, bowl, driver, panicked>>

\* The end of the loop: the statistics, between P(perf_mutex) and V(perf_mutex),
\* and the next turn of the loop if there is one.
UpdateStats(x) ==
    /\ Running /\ cpc[x] = "stats"
    /\ wait_count' = [wait_count EXCEPT ![Kind(x)] = @ + 1]
    /\ loops' = [loops EXCEPT ![x] = @ - 1]
    /\ CmGoto(x, IF loops[x] = 1 THEN "done" ELSE "sleep")
    /\ UNCHANGED <<lk_for_bowls, sync, bowls, bowl, CatMouseWait, waited, cleaned, panicked>>

\* V(CatMouseWait).  Its last access to the semaphore releases the spinlock
\* that the driver's P has to take, and the thread only exits after it.
Finish(x) ==
    /\ Running /\ cpc[x] = "done"
    /\ CatMouseWait' = CatMouseWait + 1
    /\ CmGoto(x, "finished")
    /\ UNCHANGED <<lk_for_bowls, sync, bowls, bowl, loops, waited, wait_count, cleaned, panicked>>

-----------------------------------------------------------------------------
before_eating(x) == TakeTurn(x) \/ LockBowl(x) \/ Look(x) \/ Wait(x)
after_eating(x) == After(x) \/ Leave(x)

cat_before_eating(x) == x \in Cat /\ before_eating(x)
mouse_before_eating(x) == x \in Mouse /\ before_eating(x)
cat_after_eating(x) == x \in Cat /\ after_eating(x)
mouse_after_eating(x) == x \in Mouse /\ after_eating(x)
cat_eat(x) == x \in Cat /\ (StartMeal(x) \/ EndMeal(x))
mouse_eat(x) == x \in Mouse /\ (StartMeal(x) \/ EndMeal(x))

cat_simulation(x) ==
    \/ ChooseBowl(x) \/ cat_before_eating(x) \/ cat_eat(x) \/ cat_after_eating(x)
    \/ UpdateStats(x) \/ Finish(x)
mouse_simulation(x) ==
    \/ ChooseBowl(x) \/ mouse_before_eating(x) \/ mouse_eat(x) \/ mouse_after_eating(x)
    \/ UpdateStats(x) \/ Finish(x)

-----------------------------------------------------------------------------
(* catmouse *)

\* thread_fork, a cat and a mouse in turn as long as there are both.
Unborn(S) == {x \in S : cpc[x] = "unborn"}
ForkCreature(x) ==
    LET cats == Cardinality(Cat \ Unborn(Cat))
        mice == Cardinality(Mouse \ Unborn(Mouse))
        catNext == Unborn(Cat) # {} /\ (cats <= mice \/ Unborn(Mouse) = {})
    IN  /\ Running /\ x \in IF catNext THEN Unborn(Cat) ELSE Unborn(Mouse)
        /\ CmGoto(x, "sleep")
        /\ UNCHANGED <<lk_for_bowls, sync, bowls, bowl, driver, panicked>>

\* for(i=0;i<(NumCats+NumMice);i++) P(CatMouseWait)
AllFinished == waited = Cardinality(Creature)

WaitForOne ==
    /\ Running /\ Unborn(Creature) = {} /\ CatMouseWait > 0
    /\ CatMouseWait' = CatMouseWait - 1
    /\ waited' = waited + 1
    /\ UNCHANGED <<lk_for_bowls, sync, bowls, cpc, bowl, loops, wait_count, cleaned, panicked>>

\* sem_destroy(CatMouseWait), catmouse_sync_cleanup and cleanup_bowls.
cleanup_bowls ==
    /\ Running /\ AllFinished /\ ~ cleaned
    /\ cleaned' = TRUE
    /\ UNCHANGED <<lk_for_bowls, sync, bowls, cpc, bowl, loops, CatMouseWait, waited, wait_count, panicked>>

catmouse == (\E x \in Creature : ForkCreature(x)) \/ WaitForOne \/ cleanup_bowls

Creatures(x) == IF x \in Cat THEN cat_simulation(x) ELSE mouse_simulation(x)

CmNext == catmouse \/ \E x \in Creature : Creatures(x)

\* A thread that can go on does: the scheduler is round-robin with a timer.
CmSpec ==
    /\ CmInit /\ [][CmNext]_cmVars
    /\ WF_cmVars(catmouse)
    /\ \A x \in Creature : WF_cmVars(Creatures(x))

-----------------------------------------------------------------------------
\* The rules of the problem, as cat_eat and mouse_eat check them
\* (catmouse.c:270-281, 357-368): no cat eats while a mouse does, one creature
\* eats at a bowl.
NeverPanics == ~ panicked

\* The counters of catmouse_synch.c count what they are named for: sleeping
\* counts every creature between its decision to sleep and its taking note
\* that it was woken, eating every creature between before_ and after_eating.
CountersExact ==
    \A s \in Species :
        /\ eating[s] = Cardinality({x \in Creature : Kind(x) = s /\ cpc[x] \in {"eat", "eating", "after"}})
        /\ sleeping[s] = Cardinality({x \in Creature : Kind(x) = s /\ cpc[x] \in {"wait", "asleep", "woken", "again"}})

\* catmouse_sync_cleanup and cleanup_bowls (catmouse.c:702-705) free locks,
\* condition variables and bowls only when no creature uses them any more and
\* no lock is held, and the mean waits that follow are over all meals.
CleanupSafe ==
    AllFinished =>
        /\ \A x \in Creature : cpc[x] = "finished"
        /\ \A b \in Bowl : lk_for_bowls[b] = NoOne
        /\ wait_count["cat"] = NumLoops * Cardinality(Cat)
        /\ wait_count["mouse"] = NumLoops * Cardinality(Mouse)

\* The simulation keeps the rules of the problem, its counters are right under
\* every interleaving, and nothing is freed that a creature still uses.
CatMouseSound == NeverPanics /\ CountersExact /\ CleanupSafe

\* Every simulation ends: whoever blocks in cat_before_eating or
\* mouse_before_eating gets to eat, and the driver comes to its end.
Finishes == <>cleaned
=============================================================================
