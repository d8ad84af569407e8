------------------------------ MODULE ProcProof ------------------------------
(***************************************************************************)
(* Proof of the four safety properties of the process table, for any number *)
(* of processes and any PID_MAX, when no fork fails half-way: Faults has     *)
(* neither "fork" nor "menu".  With them the properties do not hold: the      *)
(* undo of a failed fork runs without global_mutex.                          *)
(*                                                                         *)
(* Nobody owns a child for good, because pids are used again.  What makes a   *)
(* pointer to a child safe is weaker: the child's parent_pid is the pid of    *)
(* the process that keeps the pointer, pids are unique while their processes  *)
(* run, and only a process with that pid collects the child.                 *)
(*                                                                         *)
(* At the end, the proof that traps return to where they came from, for any   *)
(* number of CPUs, threads and traps.                                         *)
(***************************************************************************)
EXTENDS Proc, Traps, FiniteSetTheorems, TLAPS

ForksSucceed == "fork" \notin Faults /\ "menu" \notin Faults

\* A thread between proc_create_runprogram and thread_fork has a new process
\* of its own; one in waitpid, or at the end of fork, keeps a child.
Makes == {"add", "store", "start"}
Keeps == {"return", "sleep", "woken"}

Places ==
    /\ pc[Menu] \in {"prompt", "create", "P"} \union Makes
    /\ \A p \in Proc : pc[p] \in {"none", "user", "create"} \union Makes \union Keeps

\* What a struct proc holds: freed, of a running process, of a zombie.
Fields ==
    \A p \in Proc :
        /\ ~proc[p].live =>
             pc[p] = "none" /\ proc[p].pid = 0 /\ proc[p].parent_pid = -1 /\ proc[p].exit = 0
        /\ pc[p] # "none" => proc[p].live /\ proc[p].pid # 0 /\ proc[p].exit = 0
        /\ proc[p].parent_pid \in Slot \union {-1} /\ proc[p].parent_pid # proc[p].pid
        /\ proc[p].pid = 0 => proc[p].parent_pid = -1 /\ proc[p].exit = 0

NewOnes ==
    \A t \in Thread : pc[t] \in Makes =>
        /\ loc[t].new \in Proc
        /\ proc[loc[t].new].live /\ pc[loc[t].new] = "none"
        /\ proc[loc[t].new].exit = 0 /\ proc[loc[t].new].parent_pid = -1
        /\ pc[t] = "start" <=> proc[loc[t].new].pid # 0
        /\ \A u \in Thread : loc[u].new = loc[t].new => u = t

NoOnes == \A t \in Thread : pc[t] \notin Makes \union Keeps => loc[t].new = NULL

KeptOnes ==
    \A p \in Proc : pc[p] \in Keeps =>
        /\ loc[p].new \in Proc
        /\ proc[loc[p].new].live /\ proc[loc[p].new].parent_pid = proc[p].pid

Zombies ==
    \A p \in Proc : proc[p].exit = 1 =>
        \E q \in Proc : proc[q].live /\ proc[q].exit = 0 /\ proc[q].pid # 0 /\ proc[q].pid = proc[p].parent_pid

\* Only the search and the store of add_to_active_proc_list hold global_mutex
\* across a step, and the slot they found stays free.
Mutex ==
    /\ \A t \in Thread : pc[t] = "store" <=> global_mutex = t
    /\ \A t \in Thread : pc[t] = "store" /\ loc[t].slot # 0 =>
          loc[t].slot \in Slot /\ loc[t].slot <= current_largest_pid /\ active_proc_list[loc[t].slot] = NULL

Table ==
    ~overrun =>
        /\ current_largest_pid >= PID_MIN - 1
        /\ \A p \in Proc : proc[p].live /\ proc[p].pid # 0 =>
             proc[p].pid \in Slot /\ active_proc_list[proc[p].pid] = p
        /\ \A i \in Slot : active_proc_list[i] # NULL =>
             /\ proc[active_proc_list[i]].live
             /\ proc[active_proc_list[i]].pid = i
             /\ i <= current_largest_pid

Live(pr) == {p \in Proc : pr[p].live}

\* proc_count is exact, and no_proc_sem is raised exactly when the last process
\* goes while the menu waits.
Counts ==
    /\ IsFiniteSet(Live(proc)) /\ proc_count = Cardinality(Live(proc))
    /\ pc[Menu] \in {"prompt", "create"} => Live(proc) = {} /\ no_proc_sem = 0
    /\ pc[Menu] \in Makes => Live(proc) = {loc[Menu].new} /\ no_proc_sem = 0
    /\ pc[Menu] = "P" => (Live(proc) = {} /\ no_proc_sem = 1) \/ (Live(proc) # {} /\ no_proc_sem = 0)

PInv ==
    /\ TypeOK /\ Places /\ Fields /\ NewOnes /\ NoOnes /\ KeptOnes /\ NoLostWakeup
    /\ Zombies /\ Mutex /\ Table /\ Counts

-----------------------------------------------------------------------------
(* Facts of a state *)

\* The threads are the menu and the processes, and NULL is neither.
LEMMA Threads ==
  /\ Menu \in Thread /\ Proc \subseteq Thread /\ NULL \notin Thread /\ NULL \notin Proc /\ Menu \notin Proc
  /\ \A t \in Thread : t # Menu => t \in Proc
  /\ \A i \in Slot : i \in Nat /\ i >= 2 /\ i <= PID_MAX
  /\ PID_MAX \in Nat
  BY ProcAssumption DEF Thread, Slot, PID_MIN

\* A process is one thing to the type of its fields.
LEMMA FieldTypes ==
  ASSUME TypeOK, NEW p \in Proc
  PROVE  /\ proc[p].live \in BOOLEAN /\ proc[p].pid \in Nat /\ proc[p].parent_pid \in Int
         /\ proc[p].exit \in {0, 1}
  BY DEF TypeOK

\* Two processes in the table have different pids.
LEMMA PidsUnique ==
  ASSUME TypeOK, Table, ~overrun, NEW p \in Proc, NEW q \in Proc,
         proc[p].live, proc[q].live, proc[p].pid # 0, proc[p].pid = proc[q].pid
  PROVE  p = q
  BY DEF Table

\* The pid of a process in the table is the index of an entry.
LEMMA PidInSlot ==
  ASSUME Table, ~overrun, NEW p \in Proc, proc[p].live, proc[p].pid # 0
  PROVE  /\ proc[p].pid \in Slot /\ active_proc_list[proc[p].pid] = p
         /\ proc[p].pid <= current_largest_pid /\ proc[p].pid # -1
  <1>1. proc[p].pid \in Slot /\ active_proc_list[proc[p].pid] = p
    BY DEF Table
  <1>2. p # NULL
    BY Threads
  <1>3. proc[p].pid <= current_largest_pid
    BY <1>1, <1>2 DEF Table
  <1> QED
    BY <1>1, <1>3, Threads

-----------------------------------------------------------------------------
(* Steps that leave the processes and the table alone *)

LEMMA Stays ==
  ASSUME PInv, NEW t \in Thread, NEW l,
         pc[t] # "none", l # "none", pc' = [pc EXCEPT ![t] = l],
         l \in IF t = Menu THEN {"prompt", "create", "P"} \union Makes
                           ELSE {"user", "create"} \union Makes \union Keeps,
         loc' \in [Thread -> [new : Proc \union {NULL}, slot : Nat, largest : Int]],
         no_proc_sem' \in Nat, global_mutex' \in Thread \union {NULL},
         UNCHANGED <<proc, active_proc_list, current_largest_pid, proc_count, panicked, overrun>>
  PROVE  TypeOK' /\ Places' /\ Fields' /\ Zombies' /\ Table'
  <1> USE DEF PInv
  <1>1. l \in Label
    BY DEF Label, Makes, Keeps
  <1>2. pc' \in [Thread -> Label]
    BY <1>1 DEF TypeOK
  <1>3. TypeOK'
    BY <1>2 DEF TypeOK
  <1>4. pc'[t] = l /\ \A u \in Thread \ {t} : pc'[u] = pc[u]
    BY DEF TypeOK
  <1>5. Places'
    BY <1>4, Threads DEF Places
  <1>6. Fields'
    <2>1. \A p \in Proc : (pc'[p] = "none") <=> (pc[p] = "none")
      BY <1>4, Threads
    <2> QED
      BY <2>1 DEF Fields
  <1>7. Zombies' /\ Table'
    BY DEF Zombies, Table
  <1> QED
    BY <1>3, <1>5, <1>6, <1>7

\* What the threads know of their new processes and children, when thread t
\* moves from one place where it knows of none to another.
LEMMA NothingLearned ==
  ASSUME PInv, NEW t \in Thread, NEW l,
         pc[t] \notin Makes \union Keeps, l \notin Makes \union Keeps, pc[t] # "none", l # "none",
         pc' = [pc EXCEPT ![t] = l], UNCHANGED <<proc, loc>>
  PROVE  NewOnes' /\ NoOnes' /\ KeptOnes' /\ NoLostWakeup'
  <1> USE DEF PInv
  <1>1. pc'[t] = l /\ \A u \in Thread \ {t} : pc'[u] = pc[u]
    BY DEF TypeOK
  <1>2. \A p \in Proc : (pc'[p] = "none") <=> (pc[p] = "none")
    BY <1>1, Threads
  <1>3. NewOnes'
    BY <1>1, <1>2 DEF NewOnes
  <1>4. NoOnes'
    BY <1>1 DEF NoOnes
  <1>5. KeptOnes'
    BY <1>1, Threads DEF KeptOnes
  <1>6. NoLostWakeup'
    BY <1>1, Threads DEF NoLostWakeup, Keeps
  <1> QED
    BY <1>3, <1>4, <1>5, <1>6

\* check_proc_limit lets a fork begin, or kmalloc fails at its start.
LEMMA ForkBeginKeeps ==
  ASSUME PInv, NEW p \in Proc, ForkBegin(p)
  PROVE  PInv'
  <1> USE DEF PInv
  <1>1. /\ pc[p] = "user" /\ pc' = [pc EXCEPT ![p] = "create"]
        /\ UNCHANGED <<proc, active_proc_list, current_largest_pid, proc_count, no_proc_sem,
                       global_mutex, loc, panicked, overrun>>
    BY DEF ForkBegin, Goto
  <1>2. p \in Thread /\ p # Menu
    BY Threads
  <1>3. TypeOK' /\ Places' /\ Fields' /\ Zombies' /\ Table'
    BY <1>1, <1>2, Stays DEF TypeOK
  <1>4. NewOnes' /\ NoOnes' /\ KeptOnes' /\ NoLostWakeup'
    BY <1>1, <1>2, NothingLearned DEF Makes, Keeps
  <1>5. pc'[p] = "create" /\ \A u \in Thread \ {p} : pc'[u] = pc[u]
    BY <1>1, <1>2 DEF TypeOK
  <1>6. Mutex'
    BY <1>1, <1>5 DEF Mutex
  <1>7. Counts'
    BY <1>1, <1>2, <1>5, Threads DEF Counts
  <1> QED
    BY <1>3, <1>4, <1>6, <1>7

LEMMA MenuBeginKeeps ==
  ASSUME PInv, MenuBegin
  PROVE  PInv'
  <1> USE DEF PInv
  <1>1. /\ pc[Menu] = "prompt" /\ pc' = [pc EXCEPT ![Menu] = "create"]
        /\ UNCHANGED <<proc, active_proc_list, current_largest_pid, proc_count, no_proc_sem,
                       global_mutex, loc, panicked, overrun>>
    BY DEF MenuBegin, Goto
  <1>2. Menu \in Thread
    BY Threads
  <1>3. TypeOK' /\ Places' /\ Fields' /\ Zombies' /\ Table'
    BY <1>1, <1>2, Stays DEF TypeOK
  <1>4. NewOnes' /\ NoOnes' /\ KeptOnes' /\ NoLostWakeup'
    BY <1>1, <1>2, NothingLearned DEF Makes, Keeps
  <1>5. pc'[Menu] = "create" /\ \A u \in Thread \ {Menu} : pc'[u] = pc[u]
    BY <1>1, <1>2 DEF TypeOK
  <1>6. Mutex'
    BY <1>1, <1>5 DEF Mutex
  <1>7. Counts'
    BY <1>1, <1>5 DEF Counts, Makes
  <1> QED
    BY <1>3, <1>4, <1>6, <1>7

LEMMA CreateFailKeeps ==
  ASSUME PInv, NEW t \in Thread, CreateFail(t)
  PROVE  PInv'
  <1> USE DEF PInv
  <1>1. /\ pc[t] = "create" /\ pc' = [pc EXCEPT ![t] = Home(t)]
        /\ UNCHANGED <<proc, active_proc_list, current_largest_pid, proc_count, no_proc_sem,
                       global_mutex, loc, panicked, overrun>>
    BY DEF CreateFail, Goto
  <1>2. PICK l \in {"prompt", "user"} : l = Home(t) /\ (t = Menu <=> l = "prompt")
    BY DEF Home
  <1>3. TypeOK' /\ Places' /\ Fields' /\ Zombies' /\ Table'
    BY <1>1, <1>2, Stays DEF TypeOK
  <1>4. NewOnes' /\ NoOnes' /\ KeptOnes' /\ NoLostWakeup'
    BY <1>1, <1>2, NothingLearned DEF Makes, Keeps
  <1>5. pc'[t] = l /\ \A u \in Thread \ {t} : pc'[u] = pc[u]
    BY <1>1, <1>2 DEF TypeOK
  <1>6. Mutex'
    BY <1>1, <1>2, <1>5 DEF Mutex
  <1>7. Counts'
    BY <1>1, <1>2, <1>5, Threads DEF Counts, Makes
  <1> QED
    BY <1>3, <1>4, <1>6, <1>7

\* P(no_proc_sem): it was raised because no process was left.
LEMMA MenuPKeeps ==
  ASSUME PInv, MenuP
  PROVE  PInv'
  <1> USE DEF PInv
  <1>1. /\ pc[Menu] = "P" /\ pc' = [pc EXCEPT ![Menu] = "prompt"]
        /\ no_proc_sem > 0 /\ no_proc_sem' = no_proc_sem - 1 /\ no_proc_sem' \in Nat
        /\ UNCHANGED <<proc, active_proc_list, current_largest_pid, proc_count,
                       global_mutex, loc, panicked, overrun>>
    BY DEF MenuP, Goto, TypeOK
  <1>2. Menu \in Thread
    BY Threads
  <1>3. TypeOK' /\ Places' /\ Fields' /\ Zombies' /\ Table'
    BY <1>1, <1>2, Stays DEF TypeOK
  <1>4. NewOnes' /\ NoOnes' /\ KeptOnes' /\ NoLostWakeup'
    BY <1>1, <1>2, NothingLearned DEF Makes, Keeps
  <1>5. pc'[Menu] = "prompt" /\ \A u \in Thread \ {Menu} : pc'[u] = pc[u]
    BY <1>1, <1>2 DEF TypeOK
  <1>6. Mutex'
    BY <1>1, <1>5 DEF Mutex
  <1>7. Counts'
    BY <1>1, <1>5 DEF Counts, Makes
  <1> QED
    BY <1>3, <1>4, <1>6, <1>7

\* A set of natural numbers has a least one.
LEMMA LeastOne ==
  ASSUME NEW S \in SUBSET Nat, S # {}
  PROVE  \E i \in S : \A j \in S : i <= j
  <1> DEFINE R == OpToRel(<, Nat)
  <1>1. \E i \in S : \A j \in S : ~ (<<j, i>> \in R)
    <2>1. IsWellFoundedOn(R, Nat)
      BY NatLessThanWellFounded
    <2> HIDE DEF R
    <2> QED
      BY <2>1, WFMin
  <1>2. \A i, j \in Nat : <<j, i>> \notin R => i <= j
    BY DEF OpToRel
  <1> HIDE DEF R
  <1> QED
    BY <1>1, <1>2

\* The search of add_to_active_proc_list finds nothing or a free slot.
LEMMA FreeSlotFound ==
  ASSUME TypeOK
  PROVE  /\ FreeSlot \in Nat
         /\ FreeSlot # 0 => /\ FreeSlot \in Slot /\ FreeSlot <= current_largest_pid
                            /\ active_proc_list[FreeSlot] = NULL
  <1> DEFINE free == {i \in Slot : i <= current_largest_pid /\ active_proc_list[i] = NULL}
  <1>1. CASE free = {}
    BY <1>1 DEF FreeSlot
  <1>2. CASE free # {}
    <2>1. free \in SUBSET Nat
      BY Threads
    <2>2. \E i \in free : \A j \in free : i <= j
      <3> HIDE DEF free
      <3> QED
        BY <1>2, <2>1, LeastOne
    <2>3. FreeSlot = CHOOSE i \in free : \A j \in free : i <= j
      BY <1>2 DEF FreeSlot
    <2>4. FreeSlot \in free
      <3> HIDE DEF free
      <3> QED
        BY <2>2, <2>3
    <2> QED
      BY <2>1, <2>4
  <1> QED
    BY <1>1, <1>2

\* lock_acquire and the search.
LEMMA AddSearchKeeps ==
  ASSUME PInv, NEW t \in Thread, AddSearch(t)
  PROVE  PInv'
  <1> USE DEF PInv
  <1>0. PICK s \in Nat : s = FreeSlot
    BY FreeSlotFound
  <1>1. /\ pc[t] = "add" /\ pc' = [pc EXCEPT ![t] = "store"] /\ global_mutex = NULL /\ global_mutex' = t
        /\ loc' = [loc EXCEPT ![t].slot = s]
        /\ UNCHANGED <<proc, active_proc_list, current_largest_pid, proc_count, no_proc_sem, panicked, overrun>>
    BY <1>0 DEF AddSearch, Goto, Locked
  <1>2. /\ loc' \in [Thread -> [new : Proc \union {NULL}, slot : Nat, largest : Int]]
        /\ loc'[t].slot = s /\ \A u \in Thread : loc'[u].new = loc[u].new
        /\ \A u \in Thread \ {t} : loc'[u] = loc[u]
    BY <1>1 DEF TypeOK
  <1>3. TypeOK' /\ Places' /\ Fields' /\ Zombies' /\ Table'
    BY <1>1, <1>2, Stays DEF TypeOK, Makes
  <1>4. pc'[t] = "store" /\ \A u \in Thread \ {t} : pc'[u] = pc[u]
    BY <1>1 DEF TypeOK
  <1>5. \A p \in Proc : (pc'[p] = "none") <=> (pc[p] = "none")
    BY <1>1, <1>4, Threads
  <1>6. \A u \in Thread : /\ (pc'[u] \in Makes) <=> (pc[u] \in Makes)
                          /\ (pc'[u] \in Keeps) <=> (pc[u] \in Keeps)
                          /\ (pc'[u] = "start") <=> (pc[u] = "start")
                          /\ (pc'[u] = "sleep") <=> (pc[u] = "sleep")
    BY <1>1, <1>4 DEF Makes, Keeps
  <1>7. NewOnes'
    BY <1>1, <1>2, <1>5, <1>6 DEF NewOnes
  <1>8. NoOnes' /\ KeptOnes' /\ NoLostWakeup'
    BY <1>1, <1>2, <1>6, Threads DEF NoOnes, KeptOnes, NoLostWakeup
  <1>9. Mutex'
    <2>1. \A u \in Thread : pc[u] # "store"
      BY <1>1, Threads DEF Mutex
    <2>2. \A u \in Thread : pc'[u] = "store" <=> global_mutex' = u
      BY <1>1, <1>4, <2>1
    <2>3. s # 0 => s \in Slot /\ s <= current_largest_pid /\ active_proc_list[s] = NULL
      BY <1>0, FreeSlotFound
    <2> QED
      BY <1>1, <1>2, <1>4, <2>1, <2>2, <2>3 DEF Mutex
  <1>10. Counts'
    BY <1>1, <1>2, <1>4, <1>6, Threads DEF Counts, Makes
  <1> QED
    BY <1>3, <1>7, <1>8, <1>9, <1>10

\* The end of fork, and of a waitpid whose status pointer is bad: the thread
\* keeps no pointer.
LEMMA Forgets ==
  ASSUME PInv, NEW p \in Proc, pc[p] \in {"return", "user", "woken"},
         pc' = [pc EXCEPT ![p] = "user"], loc' = [loc EXCEPT ![p] = NoLocals],
         UNCHANGED <<proc, active_proc_list, current_largest_pid, proc_count, no_proc_sem,
                     global_mutex, panicked, overrun>>
  PROVE  PInv'
  <1> USE DEF PInv
  <1>1. p \in Thread /\ p # Menu
    BY Threads
  <1>2. /\ loc' \in [Thread -> [new : Proc \union {NULL}, slot : Nat, largest : Int]]
        /\ loc'[p].new = NULL /\ \A u \in Thread \ {p} : loc'[u] = loc[u]
    BY <1>1 DEF TypeOK, NoLocals
  <1>3. TypeOK' /\ Places' /\ Fields' /\ Zombies' /\ Table'
    BY <1>1, <1>2, Stays DEF TypeOK
  <1>4. pc'[p] = "user" /\ \A u \in Thread \ {p} : pc'[u] = pc[u]
    BY <1>1 DEF TypeOK
  <1>5. \A q \in Proc : (pc'[q] = "none") <=> (pc[q] = "none")
    BY <1>4, Threads
  <1>6. NewOnes'
    BY <1>2, <1>4, <1>5, Threads DEF NewOnes, Makes
  <1>7. NoOnes'
    BY <1>2, <1>4 DEF NoOnes
  <1>8. KeptOnes' /\ NoLostWakeup'
    BY <1>2, <1>4, Threads DEF KeptOnes, NoLostWakeup, Keeps
  <1>9. Mutex'
    BY <1>1, <1>2, <1>4 DEF Mutex
  <1>10. Counts'
    BY <1>1, <1>2, <1>4, Threads DEF Counts
  <1> QED
    BY <1>3, <1>6, <1>7, <1>8, <1>9, <1>10

\* cv_wait: the child has not exited, and is a child by its parent_pid.
LEMMA Sleeps ==
  ASSUME PInv, NEW p \in Proc, pc[p] \in {"user", "woken"},
         NEW c \in Proc, proc[c].live, proc[c].parent_pid = proc[p].pid, proc[c].exit # 1,
         pc' = [pc EXCEPT ![p] = "sleep"], loc' = [loc EXCEPT ![p].new = c],
         UNCHANGED <<proc, active_proc_list, current_largest_pid, proc_count, no_proc_sem,
                     global_mutex, panicked, overrun>>
  PROVE  PInv'
  <1> USE DEF PInv
  <1>1. p \in Thread /\ p # Menu
    BY Threads
  <1>2. /\ loc' \in [Thread -> [new : Proc \union {NULL}, slot : Nat, largest : Int]]
        /\ loc'[p].new = c /\ \A u \in Thread \ {p} : loc'[u] = loc[u]
    BY <1>1 DEF TypeOK
  <1>3. TypeOK' /\ Places' /\ Fields' /\ Zombies' /\ Table'
    BY <1>1, <1>2, Stays DEF TypeOK, Keeps
  <1>4. pc'[p] = "sleep" /\ \A u \in Thread \ {p} : pc'[u] = pc[u]
    BY <1>1 DEF TypeOK
  <1>5. \A q \in Proc : (pc'[q] = "none") <=> (pc[q] = "none")
    BY <1>4, Threads
  <1>6. proc[c].parent_pid # -1 /\ proc[c].exit = 0
    BY FieldTypes
  <1>7. NewOnes'
    <2>1. \A t \in Thread : pc'[t] \in Makes => t # p /\ pc[t] \in Makes /\ loc'[t] = loc[t] /\ loc[t].new # c
      BY <1>2, <1>4, <1>6 DEF NewOnes, Makes
    <2> QED
      BY <1>2, <1>4, <1>5, <2>1 DEF NewOnes
  <1>8. NoOnes'
    BY <1>2, <1>4 DEF NoOnes, Keeps
  <1>9. KeptOnes'
    BY <1>2, <1>4, Threads DEF KeptOnes
  <1>10. NoLostWakeup'
    BY <1>2, <1>4, <1>6, Threads DEF NoLostWakeup
  <1>11. Mutex'
    BY <1>1, <1>2, <1>4 DEF Mutex
  <1>12. Counts'
    BY <1>1, <1>2, <1>4, Threads DEF Counts
  <1> QED
    BY <1>3, <1>7, <1>8, <1>9, <1>10, <1>11, <1>12

-----------------------------------------------------------------------------
(* Steps that make a process *)

\* proc_create_runprogram: the storage is nobody's.
LEMMA CreateKeeps ==
  ASSUME PInv, NEW t \in Thread, NEW new \in Proc, Create(t, new)
  PROVE  PInv'
  <1> USE DEF PInv
  <1>1. /\ pc[t] = "create" /\ ~proc[new].live /\ pc[new] = "none"
        /\ proc' = [proc EXCEPT ![new].live = TRUE] /\ proc_count' = proc_count + 1
        /\ loc' = [loc EXCEPT ![t].new = new] /\ pc' = [pc EXCEPT ![t] = "add"]
        /\ UNCHANGED <<active_proc_list, current_largest_pid, no_proc_sem, global_mutex, panicked, overrun>>
    BY DEF Create, Goto
  <1>2. /\ proc' \in [Proc -> [live : BOOLEAN, pid : Nat, parent_pid : Int, exit : {0, 1},
                               realparent : Proc \union {NULL}]]
        /\ proc'[new].live
        /\ \A q \in Proc : /\ proc'[q].pid = proc[q].pid /\ proc'[q].parent_pid = proc[q].parent_pid
                           /\ proc'[q].exit = proc[q].exit
        /\ \A q \in Proc \ {new} : proc'[q] = proc[q]
    BY <1>1 DEF TypeOK
  <1>3. proc[new].pid = 0 /\ proc[new].parent_pid = -1 /\ proc[new].exit = 0
    BY <1>1 DEF Fields
  <1>4. pc' \in [Thread -> Label] /\ pc'[t] = "add" /\ \A u \in Thread \ {t} : pc'[u] = pc[u]
    BY <1>1 DEF TypeOK, Label
  <1>5. /\ loc' \in [Thread -> [new : Proc \union {NULL}, slot : Nat, largest : Int]]
        /\ loc'[t].new = new /\ \A u \in Thread \ {t} : loc'[u] = loc[u]
    BY <1>1 DEF TypeOK
  <1>6. TypeOK'
    BY <1>1, <1>2, <1>4, <1>5 DEF TypeOK
  <1>7. Places'
    BY <1>4, Threads DEF Places, Makes
  <1>8. new # t /\ \A p \in Proc : (pc'[p] = "none") <=> (pc[p] = "none")
    BY <1>1, <1>4, Threads
  <1>9. Fields'
    BY <1>2, <1>8 DEF Fields
  <1>10. \A u \in Thread : loc[u].new # new
    <2>1. ASSUME NEW u \in Thread, pc[u] \in Makes PROVE loc[u].new # new
      BY <1>1, <2>1 DEF NewOnes
    <2>2. ASSUME NEW u \in Thread, pc[u] \in Keeps PROVE loc[u].new # new
      <3>1. u \in Proc
        BY <2>2, Threads DEF Places, Makes, Keeps
      <3> QED
        BY <1>1, <2>2, <3>1 DEF KeptOnes
    <2>3. ASSUME NEW u \in Thread, pc[u] \notin Makes \union Keeps PROVE loc[u].new # new
      BY <2>3, Threads DEF NoOnes
    <2> QED
      BY <2>1, <2>2, <2>3
  <1>11. NewOnes'
    <2>1. ASSUME NEW u \in Thread, u # t, pc'[u] \in Makes
          PROVE  /\ loc'[u].new \in Proc
                 /\ proc'[loc'[u].new].live /\ pc'[loc'[u].new] = "none"
                 /\ proc'[loc'[u].new].exit = 0 /\ proc'[loc'[u].new].parent_pid = -1
                 /\ (pc'[u] = "start") <=> (proc'[loc'[u].new].pid # 0)
                 /\ \A v \in Thread : loc'[v].new = loc'[u].new => v = u
      <3>1. pc[u] \in Makes /\ loc'[u] = loc[u] /\ pc'[u] = pc[u]
        BY <1>4, <1>5, <2>1
      <3>2. PICK n \in Proc : n = loc[u].new
        BY <3>1 DEF NewOnes
      <3>3. /\ proc[n].live /\ pc[n] = "none" /\ proc[n].exit = 0 /\ proc[n].parent_pid = -1
            /\ (pc[u] = "start") <=> (proc[n].pid # 0)
            /\ \A v \in Thread : loc[v].new = n => v = u
        BY <3>1, <3>2 DEF NewOnes
      <3>4. n # new /\ proc'[n] = proc[n] /\ pc'[n] = "none"
        BY <1>1, <1>2, <1>8, <3>3
      <3>5. \A v \in Thread : loc'[v].new = n => v = u
        BY <1>5, <3>3, <3>4
      <3> QED
        BY <3>1, <3>2, <3>3, <3>4, <3>5
    <2>2. /\ loc'[t].new \in Proc
          /\ proc'[loc'[t].new].live /\ pc'[loc'[t].new] = "none"
          /\ proc'[loc'[t].new].exit = 0 /\ proc'[loc'[t].new].parent_pid = -1
          /\ (pc'[t] = "start") <=> (proc'[loc'[t].new].pid # 0)
          /\ \A v \in Thread : loc'[v].new = loc'[t].new => v = t
      BY <1>1, <1>2, <1>3, <1>4, <1>5, <1>8, <1>10
    <2> QED
      BY <2>1, <2>2 DEF NewOnes
  <1>12. NoOnes'
    BY <1>4, <1>5 DEF NoOnes, Makes
  <1>13. KeptOnes'
    <2>1. SUFFICES ASSUME NEW p \in Proc, pc'[p] \in Keeps
                   PROVE  /\ loc'[p].new \in Proc
                          /\ proc'[loc'[p].new].live /\ proc'[loc'[p].new].parent_pid = proc'[p].pid
      BY DEF KeptOnes
    <2>2. pc[p] \in Keeps /\ loc'[p] = loc[p]
      BY <1>4, <1>5, <2>1, Threads DEF Keeps
    <2>3. PICK c \in Proc : c = loc[p].new /\ proc[c].live /\ proc[c].parent_pid = proc[p].pid
      BY <2>2 DEF KeptOnes
    <2>4. proc'[c] = proc[c]
      BY <1>1, <1>2, <2>3
    <2> QED
      BY <1>2, <2>2, <2>3, <2>4
  <1>14. NoLostWakeup'
    <2>1. \A p \in Proc : pc'[p] = "sleep" => pc[p] = "sleep" /\ loc'[p] = loc[p] /\ loc[p].new \in Proc
      BY <1>4, <1>5, Threads DEF KeptOnes, Keeps
    <2> QED
      BY <1>2, <2>1 DEF NoLostWakeup
  <1>15. Zombies'
    BY <1>2 DEF Zombies
  <1>16. Mutex'
    BY <1>1, <1>4, <1>5 DEF Mutex
  <1>17. Table'
    <2>1. \A i \in Slot : active_proc_list[i] # NULL => active_proc_list[i] \in Proc
      BY DEF TypeOK
    <2>2. \A p \in Proc : proc'[p].live /\ proc'[p].pid # 0 => proc[p].live /\ proc[p].pid # 0
      BY <1>2, <1>3
    <2> QED
      BY <1>1, <1>2, <2>1, <2>2 DEF Table
  <1>18. Counts'
    <2>1. new \notin Live(proc) /\ Live(proc') = Live(proc) \union {new}
      BY <1>1, <1>2 DEF Live
    <2>2. IsFiniteSet(Live(proc')) /\ Cardinality(Live(proc')) = Cardinality(Live(proc)) + 1
      BY <2>1, FS_AddElement DEF Counts
    <2>3. CASE t = Menu
      <3>1. Live(proc) = {} /\ no_proc_sem = 0
        BY <1>1, <2>3 DEF Counts
      <3> QED
        BY <1>1, <1>4, <1>5, <2>1, <2>2, <2>3, <3>1 DEF Counts, Makes
    <2>4. CASE t # Menu
      <3>1. t \in Proc /\ proc[t].live
        BY <1>1, <2>4, Threads DEF Fields
      <3>2. t \in Live(proc) /\ Live(proc') # {}
        BY <2>1, <3>1 DEF Live
      <3>3. pc[Menu] = "P"
        <4>1. pc[Menu] \notin Makes
          BY <1>1, <3>1, <3>2, Threads DEF Counts, NewOnes, Makes
        <4> QED
          BY <3>2, <4>1 DEF Counts, Places
      <3>4. pc'[Menu] = "P"
        BY <1>4, <2>4, <3>3, Threads
      <3> QED
        BY <1>1, <2>2, <3>2, <3>3, <3>4 DEF Counts, Makes
    <2> QED
      BY <2>3, <2>4
  <1> QED
    BY <1>6, <1>7, <1>9, <1>11, <1>12, <1>13, <1>14, <1>15, <1>16, <1>17, <1>18

\* The store of add_to_active_proc_list: the pid is nobody else's, whether the
\* slot was found by the search or lies above all others.
LEMMA AddStoreKeeps ==
  ASSUME PInv, ~overrun, NEW t \in Thread, AddStore(t)
  PROVE  PInv'
  <1> USE DEF PInv
  <1>0. pc[t] = "store" /\ pc[t] \in Makes
    BY DEF AddStore, Makes
  <1>1. PICK new \in Proc : new = loc[t].new
    BY <1>0 DEF NewOnes
  <1>2. /\ proc[new].live /\ pc[new] = "none" /\ proc[new].exit = 0 /\ proc[new].parent_pid = -1
        /\ proc[new].pid = 0 /\ \A u \in Thread : loc[u].new = new => u = t
    BY <1>0, <1>1 DEF NewOnes
  <1>3. PICK pid : pid = IF loc[t].slot # 0 THEN loc[t].slot ELSE current_largest_pid + 1
    OBVIOUS
  <1>4. /\ current_largest_pid' = (IF loc[t].slot # 0 THEN current_largest_pid ELSE pid)
        /\ proc' = [proc EXCEPT ![new].pid = pid]
        /\ active_proc_list' = [i \in Slot |-> IF i = pid THEN new ELSE active_proc_list[i]]
        /\ overrun' = (overrun \/ pid > PID_MAX)
        /\ global_mutex' = NULL /\ pc' = [pc EXCEPT ![t] = "start"]
        /\ UNCHANGED <<proc_count, no_proc_sem, loc, panicked>>
    BY <1>1, <1>3 DEF AddStore, Goto
  <1>5. /\ pid \in Nat /\ pid >= 2 /\ current_largest_pid' \in Int /\ pid <= current_largest_pid'
        /\ current_largest_pid <= current_largest_pid' /\ current_largest_pid >= 1 /\ current_largest_pid' >= 1
        /\ pid \in Slot => active_proc_list[pid] = NULL
    <2>1. current_largest_pid \in Int /\ current_largest_pid >= 1
      BY DEF Table, TypeOK, PID_MIN
    <2>2. CASE loc[t].slot # 0
      <3>1. loc[t].slot \in Slot /\ loc[t].slot <= current_largest_pid /\ active_proc_list[loc[t].slot] = NULL
        BY <1>0, <2>2 DEF Mutex
      <3> QED
        BY <1>3, <1>4, <2>1, <2>2, <3>1, Threads
    <2>3. CASE loc[t].slot = 0
      <3>1. pid = current_largest_pid + 1 /\ current_largest_pid' = pid
        BY <1>3, <1>4, <2>3
      <3>2. pid \in Slot => active_proc_list[pid] = NULL
        BY <2>1, <3>1 DEF Table
      <3> QED
        BY <2>1, <3>1, <3>2
    <2> QED
      BY <2>2, <2>3
  <1>6. /\ proc' \in [Proc -> [live : BOOLEAN, pid : Nat, parent_pid : Int, exit : {0, 1},
                               realparent : Proc \union {NULL}]]
        /\ proc'[new].pid = pid
        /\ \A q \in Proc : /\ proc'[q].live = proc[q].live /\ proc'[q].parent_pid = proc[q].parent_pid
                           /\ proc'[q].exit = proc[q].exit
        /\ \A q \in Proc \ {new} : proc'[q] = proc[q]
    BY <1>4, <1>5 DEF TypeOK
  <1>7. pc' \in [Thread -> Label] /\ pc'[t] = "start" /\ \A u \in Thread \ {t} : pc'[u] = pc[u]
    BY <1>4 DEF TypeOK, Label
  <1>8. active_proc_list' \in [Slot -> Proc \union {NULL}]
    BY <1>4 DEF TypeOK
  <1>9. TypeOK'
    <2>1. overrun' \in BOOLEAN
      BY <1>4
    <2> QED
      BY <1>4, <1>5, <1>6, <1>7, <1>8, <2>1 DEF TypeOK
  <1>10. Places'
    BY <1>7, Threads DEF Places, Makes
  <1>11. t # new /\ \A p \in Proc : (pc'[p] = "none") <=> (pc[p] = "none")
    BY <1>0, <1>2, <1>7, Threads
  <1>12. Fields'
    <2>1. ASSUME NEW p \in Proc
          PROVE  /\ ~proc'[p].live =>
                      pc'[p] = "none" /\ proc'[p].pid = 0 /\ proc'[p].parent_pid = -1 /\ proc'[p].exit = 0
                 /\ pc'[p] # "none" => proc'[p].live /\ proc'[p].pid # 0 /\ proc'[p].exit = 0
                 /\ proc'[p].parent_pid \in Slot \union {-1} /\ proc'[p].parent_pid # proc'[p].pid
                 /\ proc'[p].pid = 0 => proc'[p].parent_pid = -1 /\ proc'[p].exit = 0
      <3>1. CASE p = new
        BY <1>2, <1>5, <1>6, <1>11, <3>1 DEF Fields
      <3>2. CASE p # new
        BY <1>6, <1>11, <3>2 DEF Fields
      <3> QED
        BY <3>1, <3>2
    <2> QED
      BY <2>1 DEF Fields
  <1>13. NewOnes'
    <2>1. ASSUME NEW u \in Thread, pc'[u] \in Makes
          PROVE  /\ loc'[u].new \in Proc
                 /\ proc'[loc'[u].new].live /\ pc'[loc'[u].new] = "none"
                 /\ proc'[loc'[u].new].exit = 0 /\ proc'[loc'[u].new].parent_pid = -1
                 /\ (pc'[u] = "start") <=> (proc'[loc'[u].new].pid # 0)
                 /\ \A v \in Thread : loc'[v].new = loc'[u].new => v = u
      <3>1. CASE u = t
        BY <1>1, <1>2, <1>4, <1>5, <1>6, <1>7, <1>11, <3>1
      <3>2. CASE u # t
        <4>1. pc[u] \in Makes /\ pc'[u] = pc[u]
          BY <1>7, <2>1, <3>2
        <4>2. PICK n \in Proc : n = loc[u].new
          BY <4>1 DEF NewOnes
        <4>3. /\ proc[n].live /\ pc[n] = "none" /\ proc[n].exit = 0 /\ proc[n].parent_pid = -1
              /\ (pc[u] = "start") <=> (proc[n].pid # 0)
              /\ \A v \in Thread : loc[v].new = n => v = u
          BY <4>1, <4>2 DEF NewOnes
        <4>4. n # new /\ proc'[n] = proc[n] /\ pc'[n] = "none"
          BY <1>1, <1>6, <1>11, <3>2, <4>3
        <4> QED
          BY <1>4, <4>1, <4>2, <4>3, <4>4
      <3> QED
        BY <3>1, <3>2
    <2> QED
      BY <2>1 DEF NewOnes
  <1>14. NoOnes'
    BY <1>4, <1>7 DEF NoOnes, Makes
  <1>15. KeptOnes'
    <2>1. SUFFICES ASSUME NEW p \in Proc, pc'[p] \in Keeps
                   PROVE  /\ loc'[p].new \in Proc
                          /\ proc'[loc'[p].new].live /\ proc'[loc'[p].new].parent_pid = proc'[p].pid
      BY DEF KeptOnes
    <2>2. pc[p] \in Keeps /\ p # new
      BY <1>2, <1>7, <1>11, <2>1, Threads DEF Keeps
    <2>3. PICK c \in Proc : c = loc[p].new /\ proc[c].live /\ proc[c].parent_pid = proc[p].pid
      BY <2>2 DEF KeptOnes
    <2> QED
      BY <1>4, <1>6, <2>2, <2>3
  <1>16. NoLostWakeup'
    <2>1. \A p \in Proc : pc'[p] = "sleep" => pc[p] = "sleep" /\ loc'[p] = loc[p] /\ loc[p].new \in Proc
      BY <1>4, <1>7, Threads DEF KeptOnes, Keeps
    <2> QED
      BY <1>6, <2>1 DEF NoLostWakeup
  <1>17. Zombies'
    <2>1. ASSUME NEW p \in Proc, proc'[p].exit = 1
          PROVE  \E q \in Proc : proc'[q].live /\ proc'[q].exit = 0 /\ proc'[q].pid # 0 /\ proc'[q].pid = proc'[p].parent_pid
      <3>1. PICK q \in Proc : proc[q].live /\ proc[q].exit = 0 /\ proc[q].pid # 0 /\ proc[q].pid = proc[p].parent_pid
        BY <1>6, <2>1 DEF Zombies
      <3>2. q # new /\ proc'[q] = proc[q] /\ proc'[p].parent_pid = proc[p].parent_pid
        BY <1>2, <1>6, <3>1
      <3> QED
        BY <3>1, <3>2
    <2> QED
      BY <2>1 DEF Zombies
  <1>18. Mutex'
    <2>1. \A u \in Thread : pc'[u] # "store"
      BY <1>0, <1>7 DEF Mutex
    <2> QED
      BY <1>4, <2>1, Threads DEF Mutex
  <1>19. Table'
    <2>1. SUFFICES ASSUME ~overrun'
                   PROVE  /\ current_largest_pid' >= PID_MIN - 1
                          /\ \A p \in Proc : proc'[p].live /\ proc'[p].pid # 0 =>
                               proc'[p].pid \in Slot /\ active_proc_list'[proc'[p].pid] = p
                          /\ \A i \in Slot : active_proc_list'[i] # NULL =>
                               /\ proc'[active_proc_list'[i]].live
                               /\ proc'[active_proc_list'[i]].pid = i
                               /\ i <= current_largest_pid'
      BY DEF Table
    <2>0. ~(pid > PID_MAX)
      BY <1>4, <2>1
    <2>2. pid \in Slot
      BY <1>5, <2>0, Threads DEF Slot, PID_MIN
    <2>3. active_proc_list'[pid] = new /\ \A i \in Slot \ {pid} : active_proc_list'[i] = active_proc_list[i]
      BY <1>4, <2>2
    <2>4. ASSUME NEW p \in Proc, proc'[p].live, proc'[p].pid # 0
          PROVE  proc'[p].pid \in Slot /\ active_proc_list'[proc'[p].pid] = p
      <3>1. CASE p = new
        BY <1>6, <2>2, <2>3, <3>1
      <3>2. CASE p # new
        <4>1. proc'[p] = proc[p] /\ proc[p].pid \in Slot /\ active_proc_list[proc[p].pid] = p
          BY <1>6, <2>4, <3>2, PidInSlot
        <4>2. proc[p].pid # pid
          BY <1>5, <2>2, <4>1, Threads
        <4> QED
          BY <2>3, <4>1, <4>2
      <3> QED
        BY <3>1, <3>2
    <2>5. ASSUME NEW i \in Slot, active_proc_list'[i] # NULL
          PROVE  /\ proc'[active_proc_list'[i]].live
                 /\ proc'[active_proc_list'[i]].pid = i
                 /\ i <= current_largest_pid'
      <3>1. CASE i = pid
        BY <1>2, <1>5, <1>6, <2>3, <3>1
      <3>2. CASE i # pid
        <4>1. PICK q \in Proc : q = active_proc_list[i] /\ q = active_proc_list'[i]
          BY <2>3, <2>5, <3>2 DEF TypeOK
        <4>2. proc[q].live /\ proc[q].pid = i /\ i <= current_largest_pid
          BY <4>1, Threads DEF Table
        <4>3. q # new /\ proc'[q] = proc[q]
          BY <1>2, <1>6, <4>2, Threads
        <4> QED
          BY <1>5, <4>1, <4>2, <4>3, Threads DEF TypeOK
      <3> QED
        BY <3>1, <3>2
    <2> QED
      BY <1>5, <2>4, <2>5 DEF PID_MIN
  <1>20. Counts'
    <2>1. Live(proc') = Live(proc)
      BY <1>6 DEF Live
    <2>2. \A u \in Thread : (pc'[u] \in Makes) <=> (pc[u] \in Makes)
      BY <1>0, <1>7 DEF Makes
    <2>3. pc'[Menu] \notin Makes => pc'[Menu] = pc[Menu]
      BY <1>7, Threads DEF Makes
    <2> QED
      BY <1>4, <2>1, <2>2, <2>3, Threads DEF Counts, Makes
  <1> QED
    BY <1>9, <1>10, <1>12, <1>13, <1>14, <1>15, <1>16, <1>17, <1>18, <1>19, <1>20

\* thread_fork: the new process runs, and its parent_pid is the pid of the
\* process that goes on to keep the pointer.
LEMMA StartKeeps ==
  ASSUME PInv, ~overrun, NEW t \in Thread, Start(t)
  PROVE  PInv'
  <1> USE DEF PInv
  <1>0. pc[t] = "start" /\ pc[t] \in Makes
    BY DEF Start, Makes
  <1>1. PICK new \in Proc : new = loc[t].new
    BY <1>0 DEF NewOnes
  <1>2. /\ proc[new].live /\ pc[new] = "none" /\ proc[new].exit = 0 /\ proc[new].parent_pid = -1
        /\ proc[new].pid # 0 /\ new # t /\ new \in Thread /\ new # Menu
        /\ \A u \in Thread : loc[u].new = new => u = t
    BY <1>0, <1>1, Threads DEF NewOnes
  <1>3. PICK l \in {"P", "return"} : (t = Menu /\ l = "P") \/ (t # Menu /\ l = "return")
    OBVIOUS
  <1>4. /\ pc' = [pc EXCEPT ![new] = "user", ![t] = l]
        /\ UNCHANGED <<active_proc_list, current_largest_pid, proc_count, no_proc_sem, global_mutex, panicked, overrun>>
    BY <1>1, <1>3 DEF Start
  <1>5. /\ proc' \in [Proc -> [live : BOOLEAN, pid : Nat, parent_pid : Int, exit : {0, 1},
                               realparent : Proc \union {NULL}]]
        /\ \A q \in Proc : proc'[q].live = proc[q].live /\ proc'[q].pid = proc[q].pid /\ proc'[q].exit = proc[q].exit
        /\ \A q \in Proc \ {new} : proc'[q] = proc[q]
        /\ t = Menu => proc' = proc
        /\ t # Menu => t \in Proc /\ proc'[new].parent_pid = proc[t].pid /\ proc[t].pid \in Slot
    <2>1. CASE t = Menu
      <3>1. proc' = proc
        BY <1>1, <2>1 DEF Start, Adopted
      <3> QED
        BY <2>1, <3>1 DEF TypeOK
    <2>2. CASE t # Menu
      <3>1. t \in Proc /\ proc' = [proc EXCEPT ![new].parent_pid = proc[t].pid, ![new].realparent = t]
        BY <1>1, <2>2, Threads DEF Start, Adopted
      <3>2. proc[t].pid \in Slot /\ proc[t].pid \in Nat
        BY <1>0, <3>1, PidInSlot, FieldTypes DEF Fields
      <3>a. PICK v \in Nat, r0 \in [live : BOOLEAN, pid : Nat, parent_pid : Int, exit : {0, 1},
                                   realparent : Proc \union {NULL}] : v = proc[t].pid /\ r0 = proc[new]
        BY <3>2 DEF TypeOK
      <3>b. PICK r1 : r1 = [r0 EXCEPT !.parent_pid = v]
        OBVIOUS
      <3>c. /\ r1 \in [live : BOOLEAN, pid : Nat, parent_pid : Int, exit : {0, 1}, realparent : Proc \union {NULL}]
            /\ r1.live = r0.live /\ r1.pid = r0.pid /\ r1.exit = r0.exit /\ r1.parent_pid = v
        BY <3>b
      <3>3. PICK r : r = [r1 EXCEPT !.realparent = t]
        OBVIOUS
      <3>d. /\ r \in [live : BOOLEAN, pid : Nat, parent_pid : Int, exit : {0, 1}, realparent : Proc \union {NULL}]
            /\ r.live = r1.live /\ r.pid = r1.pid /\ r.exit = r1.exit /\ r.parent_pid = r1.parent_pid
        BY <3>1, <3>3, <3>c
      <3>4. /\ r \in [live : BOOLEAN, pid : Nat, parent_pid : Int, exit : {0, 1}, realparent : Proc \union {NULL}]
            /\ r.live = proc[new].live /\ r.pid = proc[new].pid /\ r.exit = proc[new].exit
            /\ r.parent_pid = proc[t].pid
        BY <3>a, <3>c, <3>d
      <3>5. proc' = [proc EXCEPT ![new] = r]
        BY <3>1, <3>3, <3>a, <3>b DEF TypeOK
      <3>6. /\ proc' \in [Proc -> [live : BOOLEAN, pid : Nat, parent_pid : Int, exit : {0, 1},
                                   realparent : Proc \union {NULL}]]
            /\ proc'[new] = r /\ \A q \in Proc \ {new} : proc'[q] = proc[q]
        BY <3>4, <3>5 DEF TypeOK
      <3> QED
        BY <2>2, <3>1, <3>2, <3>4, <3>6
    <2> QED
      BY <2>1, <2>2
  <1>6. /\ pc' \in [Thread -> Label] /\ pc'[t] = l /\ pc'[new] = "user"
        /\ \A u \in Thread \ {t, new} : pc'[u] = pc[u]
    BY <1>2, <1>4 DEF TypeOK, Label
  <1>7. /\ loc' \in [Thread -> [new : Proc \union {NULL}, slot : Nat, largest : Int]]
        /\ \A u \in Thread \ {t} : loc'[u] = loc[u]
        /\ t = Menu => loc'[t].new = NULL
        /\ t # Menu => loc' = loc
    <2>1. CASE t = Menu
      <3>1. loc' = [loc EXCEPT ![t] = NoLocals]
        BY <2>1 DEF Start
      <3> QED
        BY <2>1, <3>1 DEF TypeOK, NoLocals
    <2>2. CASE t # Menu
      <3>1. loc' = loc
        BY <2>2 DEF Start
      <3> QED
        BY <2>2, <3>1 DEF TypeOK
    <2> QED
      BY <2>1, <2>2
  <1>8. TypeOK'
    BY <1>4, <1>5, <1>6, <1>7 DEF TypeOK
  <1>9. Places'
    BY <1>2, <1>3, <1>6, Threads DEF Places, Keeps
  <1>10. Fields'
    <2>1. ASSUME NEW p \in Proc
          PROVE  /\ ~proc'[p].live =>
                      pc'[p] = "none" /\ proc'[p].pid = 0 /\ proc'[p].parent_pid = -1 /\ proc'[p].exit = 0
                 /\ pc'[p] # "none" => proc'[p].live /\ proc'[p].pid # 0 /\ proc'[p].exit = 0
                 /\ proc'[p].parent_pid \in Slot \union {-1} /\ proc'[p].parent_pid # proc'[p].pid
                 /\ proc'[p].pid = 0 => proc'[p].parent_pid = -1 /\ proc'[p].exit = 0
      <3>1. CASE p = new
        <4>1. t # Menu => proc[t].pid # proc[new].pid
          BY <1>0, <1>2, <1>5, PidsUnique DEF Fields
        <4> QED
          BY <1>2, <1>5, <3>1, <4>1 DEF Fields
      <3>2. CASE p # new
        <4>1. proc'[p] = proc[p] /\ ((pc'[p] = "none") <=> (pc[p] = "none"))
          BY <1>0, <1>3, <1>5, <1>6, <3>2, Threads
        <4> QED
          BY <4>1 DEF Fields
      <3> QED
        BY <3>1, <3>2
    <2> QED
      BY <2>1 DEF Fields
  <1>11. NewOnes'
    <2>1. ASSUME NEW u \in Thread, pc'[u] \in Makes
          PROVE  /\ loc'[u].new \in Proc
                 /\ proc'[loc'[u].new].live /\ pc'[loc'[u].new] = "none"
                 /\ proc'[loc'[u].new].exit = 0 /\ proc'[loc'[u].new].parent_pid = -1
                 /\ (pc'[u] = "start") <=> (proc'[loc'[u].new].pid # 0)
                 /\ \A v \in Thread : loc'[v].new = loc'[u].new => v = u
      <3>1. u # t /\ u # new /\ pc[u] \in Makes /\ pc'[u] = pc[u] /\ loc'[u] = loc[u]
        BY <1>3, <1>6, <1>7, <2>1 DEF Makes
      <3>2. PICK n \in Proc : n = loc[u].new
        BY <3>1 DEF NewOnes
      <3>3. /\ proc[n].live /\ pc[n] = "none" /\ proc[n].exit = 0 /\ proc[n].parent_pid = -1
            /\ (pc[u] = "start") <=> (proc[n].pid # 0)
            /\ \A v \in Thread : loc[v].new = n => v = u
        BY <3>1, <3>2 DEF NewOnes
      <3>4. n # new /\ n # t /\ n \in Thread
        BY <1>0, <1>2, <3>1, <3>2, <3>3, Threads
      <3>5. proc'[n] = proc[n] /\ pc'[n] = "none"
        BY <1>5, <1>6, <3>3, <3>4
      <3>6. \A v \in Thread : loc'[v].new = n => v = u
        BY <1>7, <3>2, <3>3, Threads
      <3> QED
        BY <3>1, <3>2, <3>3, <3>5, <3>6
    <2> QED
      BY <2>1 DEF NewOnes
  <1>12. NoOnes'
    <2>1. ASSUME NEW u \in Thread, pc'[u] \notin Makes \union Keeps PROVE loc'[u].new = NULL
      <3>1. CASE u = t
        BY <1>3, <1>6, <1>7, <2>1, <3>1 DEF Keeps
      <3>2. CASE u = new
        BY <1>2, <1>7, <3>2 DEF NoOnes, Makes, Keeps
      <3>3. CASE u # t /\ u # new
        BY <1>6, <1>7, <2>1, <3>3 DEF NoOnes
      <3> QED
        BY <3>1, <3>2, <3>3
    <2> QED
      BY <2>1 DEF NoOnes
  <1>13. KeptOnes'
    <2>1. SUFFICES ASSUME NEW p \in Proc, pc'[p] \in Keeps
                   PROVE  /\ loc'[p].new \in Proc
                          /\ proc'[loc'[p].new].live /\ proc'[loc'[p].new].parent_pid = proc'[p].pid
      BY DEF KeptOnes
    <2>2. CASE p = t
      <3>1. t # Menu /\ loc'[t].new = new
        BY <1>1, <1>7, <2>2, Threads
      <3> QED
        BY <1>2, <1>5, <2>2, <3>1
    <2>3. CASE p # t
      <3>1. p # new /\ pc[p] \in Keeps /\ loc'[p] = loc[p] /\ p \in Thread
        BY <1>6, <1>7, <2>1, <2>3, Threads DEF Keeps
      <3>2. PICK c \in Proc : c = loc[p].new /\ proc[c].live /\ proc[c].parent_pid = proc[p].pid
        BY <3>1 DEF KeptOnes
      <3>3. c # new
        BY <1>2, <2>3, <3>1, <3>2
      <3> QED
        BY <1>5, <3>1, <3>2, <3>3
    <2> QED
      BY <2>2, <2>3
  <1>14. NoLostWakeup'
    <2>1. \A p \in Proc : pc'[p] = "sleep" => pc[p] = "sleep" /\ loc'[p] = loc[p] /\ loc[p].new \in Proc
      BY <1>3, <1>6, <1>7, Threads DEF KeptOnes, Keeps
    <2> QED
      BY <1>5, <2>1 DEF NoLostWakeup
  <1>15. Zombies'
    <2>1. ASSUME NEW p \in Proc, proc'[p].exit = 1
          PROVE  \E q \in Proc : proc'[q].live /\ proc'[q].exit = 0 /\ proc'[q].pid # 0 /\ proc'[q].pid = proc'[p].parent_pid
      <3>1. p # new /\ proc[p].exit = 1 /\ proc'[p] = proc[p]
        BY <1>2, <1>5, <2>1
      <3>2. PICK q \in Proc : proc[q].live /\ proc[q].exit = 0 /\ proc[q].pid # 0 /\ proc[q].pid = proc[p].parent_pid
        BY <3>1 DEF Zombies
      <3> QED
        BY <1>5, <3>1, <3>2
    <2> QED
      BY <2>1 DEF Zombies
  <1>16. Mutex'
    <2>1. \A u \in Thread : pc'[u] = "store" <=> pc[u] = "store"
      BY <1>0, <1>2, <1>3, <1>6
    <2>2. \A u \in Thread : pc'[u] = "store" => loc'[u] = loc[u]
      BY <1>3, <1>6, <1>7
    <2> QED
      BY <1>4, <2>1, <2>2 DEF Mutex
  <1>17. Table'
    <2>1. \A i \in Slot : active_proc_list[i] # NULL => active_proc_list[i] \in Proc
      BY DEF TypeOK
    <2> QED
      BY <1>4, <1>5, <2>1 DEF Table
  <1>18. Counts'
    <2>1. Live(proc') = Live(proc)
      BY <1>5 DEF Live
    <2>2. CASE t = Menu
      <3>1. Live(proc) # {} /\ no_proc_sem = 0
        BY <1>0, <2>2 DEF Counts
      <3> QED
        BY <1>3, <1>4, <1>6, <2>1, <2>2, <3>1 DEF Counts, Makes
    <2>3. CASE t # Menu
      BY <1>2, <1>4, <1>6, <1>7, <2>1, <2>3, Threads DEF Counts
    <2> QED
      BY <2>2, <2>3
  <1> QED
    BY <1>8, <1>9, <1>10, <1>11, <1>12, <1>13, <1>14, <1>15, <1>16, <1>17, <1>18

-----------------------------------------------------------------------------
(* Steps that free processes *)

\* kfree: the freed processes are as new, the others keep their fields.
LEMMA FreedFields ==
  ASSUME TypeOK, NEW S \in SUBSET Proc
  PROVE  /\ Freed(S) \in [Proc -> [live : BOOLEAN, pid : Nat, parent_pid : Int, exit : {0, 1},
                                   realparent : Proc \union {NULL}]]
         /\ \A q \in S : /\ ~Freed(S)[q].live /\ Freed(S)[q].pid = 0
                         /\ Freed(S)[q].parent_pid = -1 /\ Freed(S)[q].exit = 0
         /\ \A q \in Proc \ S : /\ Freed(S)[q].live = proc[q].live /\ Freed(S)[q].pid = proc[q].pid
                                /\ Freed(S)[q].parent_pid = proc[q].parent_pid
                                /\ Freed(S)[q].exit = proc[q].exit
  <1>1. ASSUME NEW q \in S
        PROVE  /\ Freed(S)[q] \in [live : BOOLEAN, pid : Nat, parent_pid : Int, exit : {0, 1},
                                   realparent : Proc \union {NULL}]
               /\ ~Freed(S)[q].live /\ Freed(S)[q].pid = 0
               /\ Freed(S)[q].parent_pid = -1 /\ Freed(S)[q].exit = 0
    <2>1. Freed(S)[q] = Unallocated
      BY DEF Freed
    <2> QED
      BY <2>1 DEF Unallocated
  <1>2. ASSUME NEW q \in Proc \ S
        PROVE  /\ Freed(S)[q] \in [live : BOOLEAN, pid : Nat, parent_pid : Int, exit : {0, 1},
                                   realparent : Proc \union {NULL}]
               /\ Freed(S)[q].live = proc[q].live /\ Freed(S)[q].pid = proc[q].pid
               /\ Freed(S)[q].parent_pid = proc[q].parent_pid
               /\ Freed(S)[q].exit = proc[q].exit
    <2>0. PICK r \in [live : BOOLEAN, pid : Nat, parent_pid : Int, exit : {0, 1},
                      realparent : Proc \union {NULL}] : r = proc[q]
      BY DEF TypeOK
    <2>1. Freed(S)[q] = [r EXCEPT !.realparent = NULL] \/ Freed(S)[q] = r
      BY <2>0 DEF Freed
    <2>2. CASE Freed(S)[q] = r
      BY <2>0, <2>2
    <2>3. CASE Freed(S)[q] = [r EXCEPT !.realparent = NULL]
      <3>1. PICK r1 : r1 = [r EXCEPT !.realparent = NULL]
        OBVIOUS
      <3>2. /\ r1 \in [live : BOOLEAN, pid : Nat, parent_pid : Int, exit : {0, 1},
                       realparent : Proc \union {NULL}]
            /\ r1.live = r.live /\ r1.pid = r.pid /\ r1.parent_pid = r.parent_pid /\ r1.exit = r.exit
        BY <3>1
      <3> QED
        BY <2>0, <2>3, <3>1, <3>2
    <2> QED
      BY <2>1, <2>2, <2>3
  <1>3. PICK f : f = Freed(S)
    OBVIOUS
  <1>4. f = [q \in Proc |-> f[q]]
    BY <1>3 DEF Freed
  <1>5. \A q \in Proc : f[q] \in [live : BOOLEAN, pid : Nat, parent_pid : Int, exit : {0, 1},
                                  realparent : Proc \union {NULL}]
    BY <1>1, <1>2, <1>3
  <1>6. Freed(S) \in [Proc -> [live : BOOLEAN, pid : Nat, parent_pid : Int, exit : {0, 1},
                               realparent : Proc \union {NULL}]]
    BY <1>3, <1>4, <1>5
  <1> QED
    BY <1>1, <1>2, <1>6

\* --current_largest_pid keeps every process that stays within reach of a
\* search, when D are gone already and S go now.
LEMMA LoweredBounds ==
  ASSUME TypeOK, Table, ~overrun, NEW L \in Int, L >= 1,
         NEW D \in SUBSET Proc, NEW S \in SUBSET Proc,
         \A q \in S : proc[q].live /\ proc[q].pid # 0,
         \A q \in Proc \ D : proc[q].live /\ proc[q].pid # 0 => proc[q].pid <= L
  PROVE  /\ Lowered(L, S) \in Int /\ Lowered(L, S) >= 1
         /\ \A q \in Proc \ (D \union S) : proc[q].live /\ proc[q].pid # 0 => proc[q].pid <= Lowered(L, S)
  <1>1. CASE \E q \in S : proc[q].pid = L
    <2>1. PICK o \in S : proc[o].pid = L
      BY <1>1
    <2>2. Lowered(L, S) = L - 1
      BY <1>1 DEF Lowered
    <2>3. L >= 2
      BY <2>1, PidInSlot, Threads
    <2>4. ASSUME NEW q \in Proc \ (D \union S), proc[q].live, proc[q].pid # 0 PROVE proc[q].pid <= L - 1
      <3>1. proc[q].pid # L
        BY <2>1, <2>4, PidsUnique
      <3> QED
        BY <2>4, <3>1, FieldTypes
    <2> QED
      BY <2>2, <2>3, <2>4
  <1>2. CASE ~ \E q \in S : proc[q].pid = L
    <2>1. Lowered(L, S) = L
      BY <1>2 DEF Lowered
    <2> QED
      BY <2>1
  <1> QED
    BY <1>1, <1>2

\* The table is exact after proc_destroy has taken processes out of it.
LEMMA TableFreed ==
  ASSUME TypeOK, Table, ~overrun, NEW gone \in SUBSET Proc,
         \A q \in gone : proc[q].live /\ proc[q].pid # 0,
         \A q \in gone : ~proc'[q].live,
         \A q \in Proc \ gone : proc'[q].live = proc[q].live /\ proc'[q].pid = proc[q].pid,
         active_proc_list' = Removed(gone),
         current_largest_pid' \in Int, current_largest_pid' >= 1,
         \A q \in Proc \ gone : proc[q].live /\ proc[q].pid # 0 => proc[q].pid <= current_largest_pid'
  PROVE  Table' /\ active_proc_list' \in [Slot -> Proc \union {NULL}]
  <1>1. active_proc_list' \in [Slot -> Proc \union {NULL}]
    BY DEF Removed, TypeOK
  <1>2. ASSUME NEW p \in Proc, proc'[p].live, proc'[p].pid # 0
        PROVE  proc'[p].pid \in Slot /\ active_proc_list'[proc'[p].pid] = p
    <2>1. p \notin gone /\ proc[p].live /\ proc[p].pid # 0 /\ proc'[p].pid = proc[p].pid
      BY <1>2
    <2>2. proc[p].pid \in Slot /\ active_proc_list[proc[p].pid] = p
      BY <2>1, PidInSlot
    <2>3. ~ \E q \in gone : proc[q].pid = proc[p].pid
      BY <2>1, PidsUnique
    <2> QED
      BY <2>1, <2>2, <2>3 DEF Removed
  <1>3. ASSUME NEW i \in Slot, active_proc_list'[i] # NULL
        PROVE  /\ proc'[active_proc_list'[i]].live
               /\ proc'[active_proc_list'[i]].pid = i
               /\ i <= current_largest_pid'
    <2>1. active_proc_list'[i] = active_proc_list[i] /\ ~ \E q \in gone : proc[q].pid = i
      BY <1>3 DEF Removed
    <2>2. PICK q \in Proc : q = active_proc_list[i]
      BY <1>3, <2>1 DEF TypeOK
    <2>3. proc[q].live /\ proc[q].pid = i
      BY <1>3, <2>1, <2>2 DEF Table
    <2>4. q \notin gone /\ proc[q].pid # 0
      BY <2>1, <2>3, Threads
    <2> QED
      BY <2>1, <2>2, <2>3, <2>4
  <1> QED
    BY <1>1, <1>2, <1>3 DEF Table, PID_MIN

\* The menu is told when the last process goes, and only then.
LEMMA CountsFreed ==
  ASSUME Counts, TypeOK, NEW gone, gone \subseteq Live(proc), Live(proc) # {}, pc[Menu] = "P", pc'[Menu] = "P",
         Live(proc') = Live(proc) \ gone, Uncount(Cardinality(gone))
  PROVE  Counts' /\ proc_count' \in Nat /\ no_proc_sem' \in Nat
  <1>1. PICK L, K, n, m : L = Live(proc) /\ K = Live(proc') /\ n = Cardinality(gone) /\ m = Cardinality(L)
    OBVIOUS
  <1>2. IsFiniteSet(L) /\ m = proc_count /\ no_proc_sem = 0 /\ L # {}
    BY <1>1 DEF Counts
  <1>3. IsFiniteSet(gone) /\ IsFiniteSet(K) /\ n \in Nat /\ m \in Nat /\ n <= m /\ Cardinality(K) \in Nat
    BY <1>1, <1>2, FS_Subset, FS_CardinalityType
  <1>4. Cardinality(K) = m - n
    <2>1. L \cap gone = gone /\ K = L \ gone
      BY <1>1
    <2>2. Cardinality(L \ gone) = Cardinality(L) - Cardinality(L \cap gone)
      BY <1>2, FS_Difference
    <2> QED
      BY <1>1, <2>1, <2>2
  <1>5. K = {} <=> m = n
    <2>1. K = {} <=> Cardinality(K) = 0
      BY <1>3, FS_EmptySet
    <2> QED
      BY <1>3, <1>4, <2>1
  <1>6. m # 0
    BY <1>1, <1>2, FS_EmptySet
  <1>7. /\ proc_count' = m - n
        /\ no_proc_sem' = IF n > 0 /\ m = n THEN 1 ELSE 0
    BY <1>1, <1>2 DEF Uncount
  <1>8. (K = {} /\ no_proc_sem' = 1) \/ (K # {} /\ no_proc_sem' = 0)
    BY <1>3, <1>5, <1>6, <1>7
  <1> QED
    BY <1>1, <1>3, <1>4, <1>7, <1>8 DEF Counts, Makes

\* exited_children_cleanup finds every zombie with the parent's pid.
LEMMA Children ==
  ASSUME PInv, ~overrun, NEW pid
  PROVE  ExitedChildren(pid) = {q \in Proc : proc[q].exit = 1 /\ proc[q].parent_pid = pid}
  <1> USE DEF PInv
  <1>1. ASSUME NEW q \in Proc, proc[q].exit = 1
        PROVE  \E i \in Slot : i <= current_largest_pid /\ active_proc_list[i] = q
    <2>1. proc[q].live /\ proc[q].pid # 0
      BY <1>1 DEF Fields
    <2> QED
      BY <2>1, PidInSlot
  <1> QED
    BY <1>1 DEF ExitedChildren

\* A process that runs: the menu waits, and the lock is free of searches.
LEMMA SomeoneRuns ==
  ASSUME PInv, NEW p \in Proc, pc[p] # "none"
  PROVE  pc[Menu] = "P" /\ Live(proc) # {} /\ p \in Live(proc)
  <1> USE DEF PInv
  <1>1. p \in Live(proc)
    BY DEF Fields, Live
  <1>2. pc[Menu] \notin Makes
    BY <1>1, Threads DEF Counts, NewOnes
  <1> QED
    BY <1>1, <1>2 DEF Counts, Places

\* What the threads and the zombies know of processes that are not freed.  The
\* process p collects the processes of gone: zombies with its pid as
\* parent_pid, and perhaps itself when no parent is left.
LEMMA FreeKeeps ==
  ASSUME PInv, ~overrun, ~Locked, NEW p \in Proc, pc[p] \in {"user", "woken"},
         NEW gone \in SUBSET Proc,
         \A q \in gone : q = p \/ (proc[q].exit = 1 /\ proc[q].parent_pid = proc[p].pid),
         p \in gone => ~HasParent(p) /\ pc'[p] = "none",
         \A q \in gone : /\ ~proc'[q].live /\ proc'[q].pid = 0
                         /\ proc'[q].parent_pid = -1 /\ proc'[q].exit = 0,
         \A q \in Proc \ gone : /\ proc'[q].live = proc[q].live /\ proc'[q].pid = proc[q].pid
                                /\ proc'[q].parent_pid = proc[q].parent_pid,
         \A q \in Proc \ (gone \union {p}) : proc'[q].exit = proc[q].exit,
         p \notin gone => \/ proc'[p].exit = 0 /\ pc'[p] = "user"
                          \/ proc'[p].exit = 1 /\ pc'[p] = "none" /\ HasParent(p),
         pc' \in [Thread -> Label], pc'[p] \in {"user", "none"},
         \A q \in Thread \ {p} : pc'[q] = pc[q] \/ (pc[q] = "sleep" /\ pc'[q] = "woken"),
         pc'[p] = "none" => \A q \in Proc : proc[q].exit = 1 /\ proc[q].parent_pid = proc[p].pid => q \in gone,
         proc'[p].exit = 1 => \A q \in Proc : pc'[q] = "sleep" => proc[q].pid # proc[p].parent_pid,
         \A u \in Thread \ {p} : loc'[u] = loc[u], loc'[p].new = NULL,
         global_mutex' = global_mutex
  PROVE  Places' /\ Fields' /\ NewOnes' /\ NoOnes' /\ KeptOnes' /\ NoLostWakeup' /\ Zombies' /\ Mutex'
  <1> USE DEF PInv
  <1>1. /\ p \in Thread /\ p # Menu /\ proc[p].live /\ proc[p].pid # 0 /\ proc[p].exit = 0 /\ proc[p].pid # -1
        /\ proc[p].pid \in Nat
    BY Threads, FieldTypes DEF Fields
  <1>2. ASSUME NEW q \in Proc, q # p, pc[q] # "none" PROVE q \notin gone
    BY <1>2 DEF Fields
  <1>3. ASSUME NEW q \in Proc, proc[q].parent_pid = -1, q # p PROVE q \notin gone
    BY <1>1, <1>3
  <1>4. Places'
    <2>1. pc'[Menu] = pc[Menu]
      BY <1>1, Threads DEF Places, Makes
    <2>2. \A q \in Proc : pc'[q] \in {"none", "user", "create"} \union Makes \union Keeps
      BY <1>1, Threads DEF Places, Keeps
    <2> QED
      BY <2>1, <2>2 DEF Places
  <1>5. Fields'
    <2>1. ASSUME NEW q \in Proc
          PROVE  /\ ~proc'[q].live =>
                      pc'[q] = "none" /\ proc'[q].pid = 0 /\ proc'[q].parent_pid = -1 /\ proc'[q].exit = 0
                 /\ pc'[q] # "none" => proc'[q].live /\ proc'[q].pid # 0 /\ proc'[q].exit = 0
                 /\ proc'[q].parent_pid \in Slot \union {-1} /\ proc'[q].parent_pid # proc'[q].pid
                 /\ proc'[q].pid = 0 => proc'[q].parent_pid = -1 /\ proc'[q].exit = 0
      <3>1. CASE q \in gone
        <4>1. pc'[q] = "none"
          BY <1>1, <1>2, <3>1, Threads
        <4> QED
          BY <3>1, <4>1
      <3>2. CASE q \notin gone /\ q = p
        BY <1>1, <3>2 DEF Fields
      <3>3. CASE q \notin gone /\ q # p
        <4>1. (pc'[q] = "none") <=> (pc[q] = "none")
          BY <3>3, Threads
        <4> QED
          BY <3>3, <4>1 DEF Fields
      <3> QED
        BY <3>1, <3>2, <3>3
    <2> QED
      BY <2>1 DEF Fields
  <1>6. NewOnes'
    <2>1. ASSUME NEW u \in Thread, pc'[u] \in Makes
          PROVE  /\ loc'[u].new \in Proc
                 /\ proc'[loc'[u].new].live /\ pc'[loc'[u].new] = "none"
                 /\ proc'[loc'[u].new].exit = 0 /\ proc'[loc'[u].new].parent_pid = -1
                 /\ (pc'[u] = "start") <=> (proc'[loc'[u].new].pid # 0)
                 /\ \A v \in Thread : loc'[v].new = loc'[u].new => v = u
      <3>1. u # p /\ pc[u] \in Makes /\ pc'[u] = pc[u] /\ loc'[u] = loc[u]
        BY <2>1 DEF Makes
      <3>2. PICK n \in Proc : n = loc[u].new
        BY <3>1 DEF NewOnes
      <3>3. /\ proc[n].live /\ pc[n] = "none" /\ proc[n].exit = 0 /\ proc[n].parent_pid = -1
            /\ (pc[u] = "start") <=> (proc[n].pid # 0)
            /\ \A v \in Thread : loc[v].new = n => v = u
        BY <3>1, <3>2 DEF NewOnes
      <3>4. n # p /\ n \notin gone /\ n \in Thread
        BY <1>3, <3>3, Threads
      <3>5. pc'[n] = "none"
        BY <3>3, <3>4
      <3>6. \A v \in Thread : loc'[v].new = n => v = u
        BY <3>3, Threads
      <3>7. /\ proc'[n].live /\ proc'[n].exit = 0 /\ proc'[n].parent_pid = -1
            /\ (pc'[u] = "start") <=> (proc'[n].pid # 0)
        BY <3>1, <3>3, <3>4
      <3> QED
        BY <3>1, <3>2, <3>5, <3>6, <3>7
    <2> QED
      BY <2>1 DEF NewOnes
  <1>7. NoOnes'
    <2>1. ASSUME NEW u \in Thread, pc'[u] \notin Makes \union Keeps PROVE loc'[u].new = NULL
      <3>1. CASE u = p
        BY <3>1
      <3>2. CASE u # p
        <4>1. pc[u] \notin Makes \union Keeps
          BY <2>1, <3>2 DEF Makes, Keeps
        <4> QED
          BY <3>2, <4>1 DEF NoOnes
      <3> QED
        BY <3>1, <3>2
    <2> QED
      BY <2>1 DEF NoOnes
  <1>8. ASSUME NEW q \in Proc, pc'[q] \in Keeps
        PROVE  /\ q # p /\ q \notin gone /\ pc[q] \in Keeps /\ loc'[q] = loc[q] /\ proc'[q].pid = proc[q].pid
               /\ proc[q].live /\ proc[q].exit = 0 /\ proc[q].pid # 0
               /\ loc[q].new \in Proc \ gone /\ proc[loc[q].new].live
               /\ proc[loc[q].new].parent_pid = proc[q].pid
    <2>1. q # p /\ q \in Thread /\ pc[q] \in Keeps /\ loc'[q] = loc[q] /\ pc[q] # "none"
      BY <1>8, Threads DEF Keeps
    <2>2. proc[q].live /\ proc[q].exit = 0 /\ proc[q].pid # 0 /\ q \notin gone /\ proc'[q].pid = proc[q].pid
      BY <1>2, <2>1 DEF Fields
    <2>3. PICK c \in Proc : c = loc[q].new /\ proc[c].live /\ proc[c].parent_pid = proc[q].pid
      BY <2>1 DEF KeptOnes
    <2>4. proc[q].pid # proc[p].pid
      BY <1>1, <2>1, <2>2, PidsUnique
    <2>5. c \notin gone
      <3>1. SUFFICES ASSUME c \in gone PROVE FALSE
        OBVIOUS
      <3>2. c = p
        BY <2>3, <2>4, <3>1
      <3>3. active_proc_list[proc[q].pid] = q /\ proc[q].pid # -1 /\ q # NULL
        BY <2>2, PidInSlot, Threads
      <3>4. HasParent(p)
        BY <2>2, <2>3, <3>2, <3>3 DEF HasParent
      <3> QED
        BY <3>1, <3>2, <3>4
    <2> QED
      BY <2>1, <2>2, <2>3, <2>5
  <1>9. KeptOnes'
    <2>1. ASSUME NEW q \in Proc, pc'[q] \in Keeps
          PROVE  /\ loc'[q].new \in Proc
                 /\ proc'[loc'[q].new].live /\ proc'[loc'[q].new].parent_pid = proc'[q].pid
      <3>1. PICK c \in Proc : c = loc[q].new
        BY <1>8, <2>1
      <3>2. /\ loc'[q] = loc[q] /\ proc'[q].pid = proc[q].pid /\ c \notin gone /\ proc[c].live
            /\ proc[c].parent_pid = proc[q].pid
        BY <1>8, <2>1, <3>1
      <3> QED
        BY <3>1, <3>2
    <2> QED
      BY <2>1 DEF KeptOnes
  <1>10. NoLostWakeup'
    <2>1. ASSUME NEW q \in Proc, pc'[q] = "sleep" PROVE proc'[loc'[q].new].exit = 0
      <3>0. pc'[q] \in Keeps
        BY <2>1 DEF Keeps
      <3>1. PICK c \in Proc : c = loc[q].new
        BY <1>8, <3>0
      <3>2. q # p /\ loc'[q] = loc[q] /\ c \notin gone /\ proc[c].parent_pid = proc[q].pid
        BY <1>8, <3>0, <3>1
      <3>3. pc[q] = "sleep"
        BY <2>1, <3>2, Threads
      <3>4. proc[c].exit = 0
        BY <3>1, <3>3 DEF NoLostWakeup
      <3>5. CASE c # p
        BY <3>1, <3>2, <3>4, <3>5
      <3>6. CASE c = p
        BY <2>1, <3>1, <3>2, <3>6
      <3> QED
        BY <3>5, <3>6
    <2> QED
      BY <2>1 DEF NoLostWakeup
  <1>11. Zombies'
    <2>1. ASSUME NEW z \in Proc, proc'[z].exit = 1
          PROVE  \E q \in Proc : proc'[q].live /\ proc'[q].exit = 0 /\ proc'[q].pid # 0 /\ proc'[q].pid = proc'[z].parent_pid
      <3>1. z \notin gone /\ proc'[z].parent_pid = proc[z].parent_pid
        BY <2>1
      <3>2. CASE z = p
        <4>1. HasParent(p)
          BY <2>1, <3>1, <3>2
        <4>2. proc[p].parent_pid \in Slot
          BY <4>1 DEF HasParent, Fields
        <4>3. PICK q \in Proc : q = active_proc_list[proc[p].parent_pid] /\ proc[q].exit # 1
          BY <4>1, <4>2 DEF HasParent, TypeOK
        <4>4. proc[q].live /\ proc[q].pid = proc[p].parent_pid /\ proc[q].exit = 0
          BY <4>2, <4>3, Threads, FieldTypes DEF Table
        <4>5. q # p
          BY <4>4 DEF Fields
        <4>6. q \notin gone /\ proc[q].pid # 0
          BY <4>2, <4>4, <4>5, Threads
        <4> QED
          BY <3>1, <3>2, <4>4, <4>5, <4>6
      <3>3. CASE z # p
        <4>1. proc[z].exit = 1
          BY <2>1, <3>1, <3>3
        <4>2. PICK q \in Proc : proc[q].live /\ proc[q].exit = 0 /\ proc[q].pid # 0 /\ proc[q].pid = proc[z].parent_pid
          BY <4>1 DEF Zombies
        <4>3. CASE q # p
          <5>1. q \notin gone
            BY <4>2, <4>3
          <5> QED
            BY <3>1, <4>2, <4>3, <5>1
        <4>4. CASE q = p
          <5>1. pc'[p] # "none"
            BY <3>1, <4>1, <4>2, <4>4
          <5>2. p \notin gone /\ proc'[p].exit = 0
            BY <5>1
          <5> QED
            BY <3>1, <4>2, <4>4, <5>2
        <4> QED
          BY <4>3, <4>4
      <3> QED
        BY <3>2, <3>3
    <2> QED
      BY <2>1 DEF Zombies
  <1>12. Mutex'
    <2>1. \A u \in Thread : pc[u] # "store" /\ global_mutex # u
      BY Threads DEF Mutex, Locked
    <2>2. \A u \in Thread : pc'[u] # "store"
      BY <2>1
    <2> QED
      BY <2>1, <2>2 DEF Mutex
  <1> QED
    BY <1>4, <1>5, <1>6, <1>7, <1>9, <1>10, <1>11, <1>12

\* _exit of a process that nobody will wait for.
LEMMA ExitOrphanKeeps ==
  ASSUME PInv, ~overrun, NEW p \in Proc, ExitOrphan(p)
  PROVE  PInv'
  <1> USE DEF PInv
  <1>1. PICK children : children = ExitedChildren(proc[p].pid)
    OBVIOUS
  <1>2. PICK gone : gone = children \union {p}
    OBVIOUS
  <1>3. /\ pc[p] = "user" /\ ~Locked /\ ~HasParent(p)
        /\ active_proc_list' = Removed(gone)
        /\ current_largest_pid' = Lowered(Lowered(current_largest_pid, children), {p})
        /\ proc' = Freed(gone) /\ Uncount(Cardinality(gone))
        /\ pc' = [pc EXCEPT ![p] = "none"]
        /\ UNCHANGED <<global_mutex, loc, panicked, overrun>>
    BY <1>1, <1>2 DEF ExitOrphan, Goto
  <1>4. children = {q \in Proc : proc[q].exit = 1 /\ proc[q].parent_pid = proc[p].pid}
    BY <1>1, Children
  <1>5. /\ p \in Thread /\ p # Menu /\ proc[p].live /\ proc[p].pid # 0 /\ proc[p].exit = 0
        /\ gone \in SUBSET Proc /\ children \in SUBSET Proc
        /\ \A q \in gone : proc[q].live /\ proc[q].pid # 0
    BY <1>2, <1>3, <1>4, Threads DEF Fields
  <1>6. /\ proc' \in [Proc -> [live : BOOLEAN, pid : Nat, parent_pid : Int, exit : {0, 1},
                               realparent : Proc \union {NULL}]]
        /\ \A q \in gone : ~proc'[q].live /\ proc'[q].pid = 0 /\ proc'[q].parent_pid = -1 /\ proc'[q].exit = 0
        /\ \A q \in Proc \ gone : /\ proc'[q].live = proc[q].live /\ proc'[q].pid = proc[q].pid
                                  /\ proc'[q].parent_pid = proc[q].parent_pid /\ proc'[q].exit = proc[q].exit
    BY <1>3, <1>5, FreedFields
  <1>7. pc' \in [Thread -> Label] /\ pc'[p] = "none" /\ \A u \in Thread \ {p} : pc'[u] = pc[u]
    BY <1>3, <1>5 DEF TypeOK, Label
  <1>8. loc[p].new = NULL
    BY <1>3, <1>5 DEF NoOnes, Makes, Keeps
  <1>9. Places' /\ Fields' /\ NewOnes' /\ NoOnes' /\ KeptOnes' /\ NoLostWakeup' /\ Zombies' /\ Mutex'
    <2>1. \A q \in gone : q = p \/ (proc[q].exit = 1 /\ proc[q].parent_pid = proc[p].pid)
      BY <1>2, <1>4
    <2>2. p \in gone /\ \A q \in Proc : proc[q].exit = 1 /\ proc[q].parent_pid = proc[p].pid => q \in gone
      BY <1>2, <1>4
    <2>3. proc'[p].exit # 1
      BY <1>6, <2>2
    <2> QED
      BY <1>3, <1>5, <1>6, <1>7, <1>8, <2>1, <2>2, <2>3, FreeKeeps
  <1>10. Table' /\ active_proc_list' \in [Slot -> Proc \union {NULL}] /\ current_largest_pid' \in Int
    <2>0. current_largest_pid \in Int /\ current_largest_pid >= 1
      BY DEF TypeOK, Table, PID_MIN
    <2>1. \A q \in Proc \ {} : proc[q].live /\ proc[q].pid # 0 => proc[q].pid <= current_largest_pid
      BY PidInSlot
    <2>2. PICK L : L = Lowered(current_largest_pid, children)
      OBVIOUS
    <2>3. \A q \in children : proc[q].live /\ proc[q].pid # 0
      BY <1>2, <1>5
    <2>4. /\ L \in Int /\ L >= 1
          /\ \A q \in Proc \ children : proc[q].live /\ proc[q].pid # 0 => proc[q].pid <= L
      <3>1. {} \union children = children
        OBVIOUS
      <3> QED
        BY <1>5, <2>0, <2>1, <2>2, <2>3, <3>1, LoweredBounds
    <2>5. /\ Lowered(L, {p}) \in Int /\ Lowered(L, {p}) >= 1
          /\ \A q \in Proc \ gone : proc[q].live /\ proc[q].pid # 0 => proc[q].pid <= Lowered(L, {p})
      BY <1>2, <1>5, <2>4, LoweredBounds
    <2>6. PICK M : M = Lowered(L, {p})
      OBVIOUS
    <2>7. current_largest_pid' = M
      BY <1>3, <2>2, <2>6
    <2>8. M \in Int /\ M >= 1 /\ \A q \in Proc \ gone : proc[q].live /\ proc[q].pid # 0 => proc[q].pid <= M
      BY <2>5, <2>6
    <2>9. /\ \A q \in gone : ~proc'[q].live
          /\ \A q \in Proc \ gone : proc'[q].live = proc[q].live /\ proc'[q].pid = proc[q].pid
      BY <1>6
    <2>10. gone \in SUBSET Proc /\ (\A q \in gone : proc[q].live /\ proc[q].pid # 0) /\ active_proc_list' = Removed(gone)
      BY <1>3, <1>5
    <2>11. current_largest_pid' \in Int /\ current_largest_pid' >= 1
      BY <2>7, <2>8
    <2>12. \A q \in Proc \ gone : proc[q].live /\ proc[q].pid # 0 => proc[q].pid <= current_largest_pid'
      BY <2>7, <2>8
    <2> QED
      BY <2>9, <2>10, <2>11, <2>12, TableFreed
  <1>11. Counts' /\ proc_count' \in Nat /\ no_proc_sem' \in Nat
    <2>1. pc[Menu] = "P" /\ Live(proc) # {}
      BY <1>3, SomeoneRuns
    <2>2. pc'[Menu] = "P"
      BY <1>5, <1>7, <2>1, Threads
    <2>3. gone \subseteq Live(proc) /\ Live(proc') = Live(proc) \ gone
      BY <1>5, <1>6 DEF Live
    <2> QED
      BY <1>3, <2>1, <2>2, <2>3, CountsFreed
  <1>12. TypeOK'
    BY <1>3, <1>6, <1>7, <1>10, <1>11 DEF TypeOK
  <1> QED
    BY <1>9, <1>10, <1>11, <1>12

\* _exit of a process with a parent: the parent, if it sleeps, is woken.
LEMMA ExitChildKeeps ==
  ASSUME PInv, ~overrun, NEW p \in Proc, ExitChild(p)
  PROVE  PInv'
  <1> USE DEF PInv
  <1>1. PICK gone : gone = ExitedChildren(proc[p].pid)
    OBVIOUS
  <1>2. PICK parent : parent = active_proc_list[proc[p].parent_pid]
    OBVIOUS
  <1>3. /\ pc[p] = "user" /\ ~Locked /\ HasParent(p)
        /\ proc' = [Freed(gone) EXCEPT ![p].exit = 1]
        /\ pc' = [Signalled(parent) EXCEPT ![p] = "none"]
        /\ active_proc_list' = Removed(gone)
        /\ current_largest_pid' = Lowered(current_largest_pid, gone)
        /\ Uncount(Cardinality(gone))
        /\ UNCHANGED <<global_mutex, loc, panicked, overrun>>
    BY <1>1, <1>2 DEF ExitChild
  <1>4. gone = {q \in Proc : proc[q].exit = 1 /\ proc[q].parent_pid = proc[p].pid}
    BY <1>1, Children
  <1>5. /\ p \in Thread /\ p # Menu /\ proc[p].live /\ proc[p].pid # 0 /\ proc[p].exit = 0
        /\ gone \in SUBSET Proc /\ p \notin gone
        /\ \A q \in gone : proc[q].live /\ proc[q].pid # 0
    BY <1>3, <1>4, Threads DEF Fields
  <1>6. /\ proc' \in [Proc -> [live : BOOLEAN, pid : Nat, parent_pid : Int, exit : {0, 1},
                               realparent : Proc \union {NULL}]]
        /\ \A q \in gone : ~proc'[q].live /\ proc'[q].pid = 0 /\ proc'[q].parent_pid = -1 /\ proc'[q].exit = 0
        /\ \A q \in Proc \ gone : /\ proc'[q].live = proc[q].live /\ proc'[q].pid = proc[q].pid
                                  /\ proc'[q].parent_pid = proc[q].parent_pid
        /\ \A q \in Proc \ (gone \union {p}) : proc'[q].exit = proc[q].exit
        /\ proc'[p].exit = 1
    <2>1. PICK f : f = Freed(gone)
      OBVIOUS
    <2>2. /\ f \in [Proc -> [live : BOOLEAN, pid : Nat, parent_pid : Int, exit : {0, 1},
                             realparent : Proc \union {NULL}]]
          /\ \A q \in gone : ~f[q].live /\ f[q].pid = 0 /\ f[q].parent_pid = -1 /\ f[q].exit = 0
          /\ \A q \in Proc \ gone : /\ f[q].live = proc[q].live /\ f[q].pid = proc[q].pid
                                    /\ f[q].parent_pid = proc[q].parent_pid /\ f[q].exit = proc[q].exit
      BY <1>5, <2>1, FreedFields
    <2>3. proc' = [f EXCEPT ![p].exit = 1]
      BY <1>3, <2>1
    <2>4. /\ proc' \in [Proc -> [live : BOOLEAN, pid : Nat, parent_pid : Int, exit : {0, 1},
                                 realparent : Proc \union {NULL}]]
          /\ proc'[p].exit = 1 /\ proc'[p].live = f[p].live /\ proc'[p].pid = f[p].pid
          /\ proc'[p].parent_pid = f[p].parent_pid
          /\ \A q \in Proc \ {p} : proc'[q] = f[q]
      BY <2>2, <2>3
    <2> QED
      BY <1>5, <2>2, <2>4
  <1>7. parent \in Proc /\ proc[p].parent_pid \in Slot
    BY <1>2, <1>3 DEF HasParent, Fields, TypeOK
  <1>8. /\ pc' \in [Thread -> Label] /\ pc'[p] = "none"
        /\ \A u \in Thread \ {p} : pc'[u] = pc[u] \/ (pc[u] = "sleep" /\ pc'[u] = "woken")
        /\ parent # p => pc'[parent] # "sleep"
    <2>1. PICK f : f = Signalled(parent)
      OBVIOUS
    <2>2. /\ f \in [Thread -> Label] /\ f[parent] # "sleep"
          /\ \A u \in Thread : f[u] = pc[u] \/ (pc[u] = "sleep" /\ f[u] = "woken")
      BY <1>7, <2>1, Threads DEF Signalled, TypeOK, Label
    <2>3. pc' = [f EXCEPT ![p] = "none"]
      BY <1>3, <2>1
    <2> QED
      BY <1>5, <1>7, <2>2, <2>3, Threads DEF Label
  <1>9. loc[p].new = NULL
    BY <1>3, <1>5 DEF NoOnes, Makes, Keeps
  <1>10. Places' /\ Fields' /\ NewOnes' /\ NoOnes' /\ KeptOnes' /\ NoLostWakeup' /\ Zombies' /\ Mutex'
    <2>1. \A q \in gone : q = p \/ (proc[q].exit = 1 /\ proc[q].parent_pid = proc[p].pid)
      BY <1>4
    <2>2. \A q \in Proc : proc[q].exit = 1 /\ proc[q].parent_pid = proc[p].pid => q \in gone
      BY <1>4
    <2>3. \A q \in Proc : pc'[q] = "sleep" => proc[q].pid # proc[p].parent_pid
      <3>1. SUFFICES ASSUME NEW q \in Proc, pc'[q] = "sleep", proc[q].pid = proc[p].parent_pid PROVE FALSE
        OBVIOUS
      <3>2. q # p /\ pc[q] = "sleep"
        BY <1>8, <3>1, Threads
      <3>3. proc[q].live /\ proc[q].pid # 0
        BY <3>2 DEF Fields
      <3>4. q = parent
        BY <1>2, <3>1, <3>3, PidInSlot
      <3> QED
        BY <1>8, <3>1, <3>2, <3>4
    <2> QED
      BY <1>3, <1>5, <1>6, <1>8, <1>9, <2>1, <2>2, <2>3, FreeKeeps
  <1>11. Table' /\ active_proc_list' \in [Slot -> Proc \union {NULL}] /\ current_largest_pid' \in Int
    <2>0. current_largest_pid \in Int /\ current_largest_pid >= 1
      BY DEF TypeOK, Table, PID_MIN
    <2>1. \A q \in Proc \ {} : proc[q].live /\ proc[q].pid # 0 => proc[q].pid <= current_largest_pid
      BY PidInSlot
    <2>2. PICK L : L = Lowered(current_largest_pid, gone)
      OBVIOUS
    <2>4. /\ L \in Int /\ L >= 1
          /\ \A q \in Proc \ gone : proc[q].live /\ proc[q].pid # 0 => proc[q].pid <= L
      <3>1. {} \union gone = gone
        OBVIOUS
      <3> QED
        BY <1>5, <2>0, <2>1, <2>2, <3>1, LoweredBounds
    <2>6. current_largest_pid' = L
      BY <1>3, <2>2
    <2> QED
      BY <1>3, <1>5, <1>6, <2>4, <2>6, TableFreed
  <1>12. Counts' /\ proc_count' \in Nat /\ no_proc_sem' \in Nat
    <2>1. pc[Menu] = "P" /\ Live(proc) # {}
      BY <1>3, SomeoneRuns
    <2>2. pc'[Menu] = "P"
      BY <1>5, <1>8, <2>1, Threads
    <2>3. gone \subseteq Live(proc) /\ Live(proc') = Live(proc) \ gone
      BY <1>5, <1>6 DEF Live
    <2> QED
      BY <1>3, <2>1, <2>2, <2>3, CountsFreed
  <1>13. TypeOK'
    BY <1>3, <1>6, <1>8, <1>11, <1>12 DEF TypeOK
  <1> QED
    BY <1>10, <1>11, <1>12, <1>13

\* waitpid collects a child that has exited.
LEMMA ReapKeeps ==
  ASSUME PInv, ~overrun, ~Locked, NEW p \in Proc, pc[p] \in {"user", "woken"},
         NEW c \in Proc, proc[c].parent_pid = proc[p].pid, Reap(p, c),
         UNCHANGED <<global_mutex, panicked, overrun>>
  PROVE  PInv'
  <1> USE DEF PInv
  <1>2. PICK gone : gone = {c}
    OBVIOUS
  <1>3. /\ proc[c].exit = 1
        /\ active_proc_list' = Removed(gone)
        /\ current_largest_pid' = Lowered(current_largest_pid, gone)
        /\ proc' = Freed(gone) /\ Uncount(1)
        /\ loc' = [loc EXCEPT ![p] = NoLocals]
        /\ pc' = [pc EXCEPT ![p] = "user"]
    BY <1>2 DEF Reap, Goto
  <1>5. /\ p \in Thread /\ p # Menu /\ proc[p].live /\ proc[p].pid # 0 /\ proc[p].exit = 0
        /\ gone \in SUBSET Proc /\ p \notin gone
        /\ \A q \in gone : proc[q].live /\ proc[q].pid # 0
    BY <1>2, <1>3, Threads DEF Fields
  <1>6. /\ proc' \in [Proc -> [live : BOOLEAN, pid : Nat, parent_pid : Int, exit : {0, 1},
                               realparent : Proc \union {NULL}]]
        /\ \A q \in gone : ~proc'[q].live /\ proc'[q].pid = 0 /\ proc'[q].parent_pid = -1 /\ proc'[q].exit = 0
        /\ \A q \in Proc \ gone : /\ proc'[q].live = proc[q].live /\ proc'[q].pid = proc[q].pid
                                  /\ proc'[q].parent_pid = proc[q].parent_pid /\ proc'[q].exit = proc[q].exit
    BY <1>3, <1>5, FreedFields
  <1>7. pc' \in [Thread -> Label] /\ pc'[p] = "user" /\ \A u \in Thread \ {p} : pc'[u] = pc[u]
    BY <1>3, <1>5 DEF TypeOK, Label
  <1>8. /\ loc' \in [Thread -> [new : Proc \union {NULL}, slot : Nat, largest : Int]]
        /\ loc'[p].new = NULL /\ \A u \in Thread \ {p} : loc'[u] = loc[u]
    BY <1>3, <1>5 DEF TypeOK, NoLocals
  <1>9. Places' /\ Fields' /\ NewOnes' /\ NoOnes' /\ KeptOnes' /\ NoLostWakeup' /\ Zombies' /\ Mutex'
    <2>1. \A q \in gone : q = p \/ (proc[q].exit = 1 /\ proc[q].parent_pid = proc[p].pid)
      BY <1>2, <1>3
    <2>2. p \notin gone /\ proc'[p].exit = 0 /\ pc'[p] = "user"
      BY <1>5, <1>6, <1>7
    <2>3. \A q \in Proc \ gone : /\ proc'[q].live = proc[q].live /\ proc'[q].pid = proc[q].pid
                                 /\ proc'[q].parent_pid = proc[q].parent_pid
      BY <1>6
    <2>4. \A q \in Proc \ (gone \union {p}) : proc'[q].exit = proc[q].exit
      BY <1>6
    <2>5. \A q \in gone : ~proc'[q].live /\ proc'[q].pid = 0 /\ proc'[q].parent_pid = -1 /\ proc'[q].exit = 0
      BY <1>6
    <2>6. gone \in SUBSET Proc /\ global_mutex' = global_mutex
      BY <1>5
    <2> QED
      BY <1>7, <1>8, <2>1, <2>2, <2>3, <2>4, <2>5, <2>6, FreeKeeps
  <1>10. Table' /\ active_proc_list' \in [Slot -> Proc \union {NULL}] /\ current_largest_pid' \in Int
    <2>0. current_largest_pid \in Int /\ current_largest_pid >= 1
      BY DEF TypeOK, Table, PID_MIN
    <2>1. \A q \in Proc \ {} : proc[q].live /\ proc[q].pid # 0 => proc[q].pid <= current_largest_pid
      BY PidInSlot
    <2>2. PICK L : L = Lowered(current_largest_pid, gone)
      OBVIOUS
    <2>4. /\ L \in Int /\ L >= 1
          /\ \A q \in Proc \ gone : proc[q].live /\ proc[q].pid # 0 => proc[q].pid <= L
      <3>1. {} \union gone = gone
        OBVIOUS
      <3> QED
        BY <1>5, <2>0, <2>1, <2>2, <3>1, LoweredBounds
    <2>6. current_largest_pid' = L
      BY <1>3, <2>2
    <2>7. \A q \in Proc \ gone : proc'[q].live = proc[q].live /\ proc'[q].pid = proc[q].pid
      BY <1>6
    <2> QED
      BY <1>3, <1>5, <1>6, <2>4, <2>6, <2>7, TableFreed
  <1>11. Counts' /\ proc_count' \in Nat /\ no_proc_sem' \in Nat
    <2>1. pc[Menu] = "P" /\ Live(proc) # {}
      BY SomeoneRuns
    <2>2. pc'[Menu] = "P"
      BY <1>5, <1>7, <2>1, Threads
    <2>3. gone \subseteq Live(proc) /\ Live(proc') = Live(proc) \ gone
      BY <1>5, <1>6 DEF Live
    <2>4. Cardinality(gone) = 1
      BY <1>2, FS_Singleton
    <2> QED
      BY <1>3, <2>1, <2>2, <2>3, <2>4, CountsFreed
  <1>12. TypeOK'
    BY <1>6, <1>7, <1>8, <1>10, <1>11 DEF TypeOK
  <1> QED
    BY <1>9, <1>10, <1>11, <1>12

\* The loop of waitpid, entered with a child by its parent_pid.
LEMMA WaitLoopKeeps ==
  ASSUME PInv, ~overrun, NEW p \in Proc, pc[p] \in {"user", "woken"},
         NEW c \in Proc, proc[c].live, proc[c].parent_pid = proc[p].pid, WaitLoop(p, c)
  PROVE  PInv'
  <1>1. ~Locked /\ UNCHANGED <<global_mutex, panicked, overrun>>
    BY DEF WaitLoop
  <1>2. CASE Sleep(p, c)
    <2>1. /\ proc[c].exit # 1 /\ pc' = [pc EXCEPT ![p] = "sleep"] /\ loc' = [loc EXCEPT ![p].new = c]
          /\ UNCHANGED <<proc, active_proc_list, current_largest_pid, proc_count, no_proc_sem>>
      BY <1>2 DEF Sleep, Goto
    <2> QED
      BY <1>1, <2>1, Sleeps
  <1>3. CASE Reap(p, c)
    BY <1>1, <1>3, ReapKeeps
  <1>4. CASE ReapFault(p, c)
    <2>1. /\ pc' = [pc EXCEPT ![p] = "user"] /\ loc' = [loc EXCEPT ![p] = NoLocals]
          /\ UNCHANGED <<proc, active_proc_list, current_largest_pid, proc_count, no_proc_sem>>
      BY <1>4 DEF ReapFault, Goto
    <2> QED
      BY <1>1, <2>1, Forgets
  <1> QED
    BY <1>2, <1>3, <1>4 DEF WaitLoop

LEMMA WaitpidKeeps ==
  ASSUME PInv, ~overrun, NEW p \in Proc, NEW pid \in Slot, Waitpid(p, pid)
  PROVE  PInv'
  <1> USE DEF PInv
  <1>1. PICK c \in Proc : c = active_proc_list[pid]
    BY DEF Waitpid, TypeOK
  <1>2. pc[p] = "user" /\ proc[c].parent_pid = proc[p].pid /\ WaitLoop(p, c) /\ active_proc_list[pid] # NULL
    BY <1>1 DEF Waitpid
  <1>3. proc[c].live
    BY <1>1, <1>2 DEF Table
  <1> QED
    BY <1>2, <1>3, WaitLoopKeeps

LEMMA WaitAgainKeeps ==
  ASSUME PInv, ~overrun, NEW p \in Proc, WaitAgain(p)
  PROVE  PInv'
  <1> USE DEF PInv
  <1>1. pc[p] = "woken" /\ pc[p] \in Keeps
    BY DEF WaitAgain, Keeps
  <1>2. PICK c \in Proc : c = loc[p].new /\ proc[c].live /\ proc[c].parent_pid = proc[p].pid
    BY <1>1 DEF KeptOnes
  <1>3. WaitLoop(p, c)
    BY <1>2 DEF WaitAgain
  <1> QED
    BY <1>1, <1>2, <1>3, WaitLoopKeeps

-----------------------------------------------------------------------------
(* The theorem *)

\* The table is empty at boot and the menu prompts.
LEMMA ProcInit == Init => PInv
  <1> SUFFICES ASSUME Init PROVE PInv
    OBVIOUS
  <1> USE DEF Init
  <1>1. TypeOK
    <2>1. proc \in [Proc -> [live : BOOLEAN, pid : Nat, parent_pid : Int, exit : {0, 1},
                             realparent : Proc \union {NULL}]]
      BY DEF Unallocated
    <2>2. active_proc_list \in [Slot -> Proc \union {NULL}] /\ current_largest_pid \in Int
      BY DEF PID_MIN
    <2>3. pc \in [Thread -> Label]
      BY DEF Label
    <2>4. loc \in [Thread -> [new : Proc \union {NULL}, slot : Nat, largest : Int]]
      BY DEF NoLocals
    <2> QED
      BY <2>1, <2>2, <2>3, <2>4 DEF TypeOK
  <1>2. pc[Menu] = "prompt" /\ \A p \in Proc : pc[p] = "none"
    BY Threads
  <1>3. \A p \in Proc : ~proc[p].live /\ proc[p].pid = 0 /\ proc[p].parent_pid = -1 /\ proc[p].exit = 0
    BY DEF Unallocated
  <1>4. \A t \in Thread : loc[t].new = NULL
    BY DEF NoLocals
  <1>5. \A t \in Thread : pc[t] \in {"prompt", "none"}
    OBVIOUS
  <1>6. Places /\ Fields
    BY <1>2, <1>3 DEF Places, Fields
  <1>7. NewOnes /\ NoOnes /\ KeptOnes /\ NoLostWakeup
    BY <1>2, <1>4, <1>5 DEF NewOnes, NoOnes, KeptOnes, NoLostWakeup, Makes, Keeps
  <1>8. Zombies
    BY <1>3 DEF Zombies
  <1>9. Mutex
    BY <1>5, Threads DEF Mutex
  <1>10. Table
    BY <1>3 DEF Table, PID_MIN
  <1>11. Counts
    <2>1. Live(proc) = {}
      BY <1>3 DEF Live
    <2>2. IsFiniteSet({}) /\ Cardinality({}) = 0
      BY FS_EmptySet
    <2> QED
      BY <1>2, <2>1, <2>2 DEF Counts, Makes
  <1> QED
    BY <1>1, <1>6, <1>7, <1>8, <1>9, <1>10, <1>11 DEF PInv

\* Every step keeps the invariant.
LEMMA ProcNext == ForksSucceed => (PInv /\ [Next]_vars => PInv')
  <1> SUFFICES ASSUME ForksSucceed, PInv, [Next]_vars PROVE PInv'
    OBVIOUS
  <1>1. ASSUME NEW t \in Thread, Kernel(t), ~overrun PROVE PInv'
    <2>1. pc[t] \notin {"compare", "lower"}
      <3>1. t = Menu \/ t \in Proc
        BY Threads
      <3> QED
        BY <3>1 DEF PInv, Places, Makes, Keeps
    <2>2. ~StartFail(t) /\ ~UndoCompare(t) /\ ~UndoLower(t)
      BY <2>1 DEF StartFail, UndoCompare, UndoLower, ForksSucceed
    <2>3. (\E new \in Proc : Create(t, new)) \/ CreateFail(t) \/ AddSearch(t) \/ AddStore(t) \/ Start(t)
      BY <1>1, <2>2 DEF Kernel
    <2> QED
      BY <1>1, <2>3, CreateKeeps, CreateFailKeeps, AddSearchKeeps, AddStoreKeeps, StartKeeps
  <1>2. ASSUME NEW p \in Proc, Request(p) \/ ForkReturn(p) \/ WaitAgain(p), ~overrun PROVE PInv'
    <2>1. CASE ForkReturn(p)
      BY <2>1, Forgets DEF ForkReturn, Goto
    <2>2. CASE WaitpidBad(p)
      <3>1. /\ panicked' = TRUE
            /\ UNCHANGED <<proc, active_proc_list, current_largest_pid, proc_count,
                           no_proc_sem, global_mutex, pc, loc, overrun>>
        BY <2>2 DEF WaitpidBad
      <3>2. TypeOK'
        BY <3>1 DEF PInv, TypeOK
      <3> QED
        BY <3>1, <3>2 DEF PInv, Places, Fields, NewOnes, NoOnes, KeptOnes, NoLostWakeup, Zombies, Mutex, Table, Counts
    <2> QED
      BY <1>2, <2>1, <2>2, ForkBeginKeeps, ExitOrphanKeeps, ExitChildKeeps, WaitpidKeeps, WaitAgainKeeps DEF Request
  <1>3. CASE UNCHANGED vars
    <2>1. TypeOK'
      BY <1>3 DEF vars, PInv, TypeOK
    <2> QED
      BY <1>3, <2>1 DEF vars, PInv, Places, Fields, NewOnes, NoOnes, KeptOnes, NoLostWakeup, Zombies, Mutex, Table, Counts
  <1> QED
    BY <1>1, <1>2, <1>3, MenuBeginKeeps, MenuPKeeps DEF Next, Running

\* The invariant gives the four properties.
LEMMA ProcInvImplies == PInv => TableSound /\ NoLostWakeup /\ ZombieHasReaper /\ PromptMeansIdle
  <1> SUFFICES ASSUME PInv PROVE TableSound /\ NoLostWakeup /\ ZombieHasReaper /\ PromptMeansIdle
    OBVIOUS
  <1> USE DEF PInv
  <1>1. \A p \in Proc : ~Dying(p)
    <2>1. \A t \in Thread : pc[t] \notin {"compare", "lower"}
      <3>1. \A t \in Thread : t = Menu \/ t \in Proc
        BY Threads
      <3> QED
        BY <3>1 DEF Places, Makes, Keeps
    <2> QED
      BY <2>1 DEF Dying
  <1>2. \A p \in Proc : p \in Listed <=> proc[p].live /\ proc[p].pid # 0
    BY <1>1 DEF Listed
  <1>3. TableExact
    <2>1. SUFFICES ASSUME ~overrun
                   PROVE  /\ \A p \in Listed : proc[p].pid \in Slot /\ active_proc_list[proc[p].pid] = p
                          /\ \A i \in Slot : active_proc_list[i] # NULL =>
                               /\ active_proc_list[i] \in Listed
                               /\ proc[active_proc_list[i]].pid = i
                               /\ i <= current_largest_pid
      BY DEF TableExact
    <2>2. \A p \in Listed : proc[p].pid \in Slot /\ active_proc_list[proc[p].pid] = p
      BY <1>2, <2>1 DEF Table, Listed
    <2>3. ASSUME NEW i \in Slot, active_proc_list[i] # NULL
          PROVE  /\ active_proc_list[i] \in Listed
                 /\ proc[active_proc_list[i]].pid = i
                 /\ i <= current_largest_pid
      <3>1. PICK q \in Proc : q = active_proc_list[i]
        BY <2>3 DEF TypeOK
      <3>2. proc[q].live /\ proc[q].pid = i /\ i <= current_largest_pid
        BY <2>1, <2>3, <3>1 DEF Table
      <3>3. q \in Listed
        BY <1>2, <3>2, Threads
      <3> QED
        BY <3>1, <3>2, <3>3
    <2> QED
      BY <2>2, <2>3
  <1>4. NoDanglingPointer
    <2>1. ASSUME NEW t \in Thread, loc[t].new # NULL PROVE proc[loc[t].new].live
      <3>1. pc[t] \in Makes \union Keeps
        BY <2>1 DEF NoOnes
      <3>2. pc[t] \in Keeps => t \in Proc
        BY Threads DEF Places, Makes, Keeps
      <3> QED
        BY <3>1, <3>2 DEF NewOnes, KeptOnes
    <2> QED
      BY <2>1 DEF NoDanglingPointer
  <1>5. ZombieHasReaper
    <2>1. ASSUME NEW p \in Listed, proc[p].exit = 1
          PROVE  \E q \in Listed : proc[q].pid = proc[p].parent_pid /\ proc[q].exit = 0
      <3>1. p \in Proc
        BY DEF Listed
      <3>2. PICK q \in Proc : proc[q].live /\ proc[q].exit = 0 /\ proc[q].pid # 0 /\ proc[q].pid = proc[p].parent_pid
        BY <2>1, <3>1 DEF Zombies
      <3> QED
        BY <1>2, <3>2
    <2> QED
      BY <2>1 DEF ZombieHasReaper
  <1>6. PromptMeansIdle
    BY DEF PromptMeansIdle, Counts, Live
  <1> QED
    BY <1>3, <1>4, <1>5, <1>6 DEF TableSound

\* When no fork fails half-way, the invariant holds for any number of processes
\* and any PID_MAX, whatever the programs ask for and however their system calls
\* interleave (proc.c, proc_syscalls.c, common_prog of menu.c).
THEOREM ProcInvariant == ForksSucceed => (Spec => []PInv)
  <1> SUFFICES ASSUME ForksSucceed PROVE Spec => []PInv
    OBVIOUS
  <1>1. Init => PInv
    BY ProcInit
  <1>2. PInv /\ [Next]_vars => PInv'
    BY ProcNext
  <1> QED
    BY <1>1, <1>2, PTL DEF Spec

\* The process table is exact and no pointer to a struct proc dangles, although
\* pids and storage are used again (add_to_active_proc_list, proc_destroy, the
\* new_proc of sys_fork and the child of sys_waitpid).
THEOREM TableSoundThm == ForksSucceed => (Spec => []TableSound)
  <1> SUFFICES ASSUME ForksSucceed PROVE Spec => []TableSound
    OBVIOUS
  <1>1. Spec => []PInv
    BY ProcInvariant
  <1>2. PInv => TableSound
    BY ProcInvImplies
  <1> QED
    BY <1>1, <1>2, PTL

\* No wake-up of waitpid is lost: cv_signal reaches the process that sleeps for
\* the child, whoever forked it.
THEOREM NoLostWakeupThm == ForksSucceed => (Spec => []NoLostWakeup)
  <1> SUFFICES ASSUME ForksSucceed PROVE Spec => []NoLostWakeup
    OBVIOUS
  <1>1. Spec => []PInv
    BY ProcInvariant
  <1>2. PInv => NoLostWakeup
    BY ProcInvImplies
  <1> QED
    BY <1>1, <1>2, PTL

\* Every zombie has a process that can collect it: parent_checker and
\* exited_children_cleanup leave none behind.
THEOREM ZombieHasReaperThm == ForksSucceed => (Spec => []ZombieHasReaper)
  <1> SUFFICES ASSUME ForksSucceed PROVE Spec => []ZombieHasReaper
    OBVIOUS
  <1>1. Spec => []PInv
    BY ProcInvariant
  <1>2. PInv => ZombieHasReaper
    BY ProcInvImplies
  <1> QED
    BY <1>1, <1>2, PTL

\* common_prog returns to the prompt only when no user process is left: V of
\* no_proc_sem in proc_destroy is called once for each program of the menu.
THEOREM PromptMeansIdleThm == ForksSucceed => (Spec => []PromptMeansIdle)
  <1> SUFFICES ASSUME ForksSucceed PROVE Spec => []PromptMeansIdle
    OBVIOUS
  <1>1. Spec => []PInv
    BY ProcInvariant
  <1>2. PInv => PromptMeansIdle
    BY ProcInvImplies
  <1> QED
    BY <1>1, <1>2, PTL

-----------------------------------------------------------------------------
(* Traps.  A thread's kernel stack decides everything: which frames raise the  *)
(* interrupt level, handle an interrupt or copy is what t_curspl,              *)
(* t_in_interrupt and tm_badfaultfunc say, and an interrupt puts aside what    *)
(* the frames below it say.                                                   *)

FrameRec == [why : {"irq", "sys", "fault", "runprogram", "fork"}, user : BOOLEAN, ie : BOOLEAN,
             at : {"entry", "handler", "switched", "return", "body", "copy", "copyfail", "touch", "done", "vm_fault", "start", "run"},
             adjust : BOOLEAN, old : {0, 1}, back : {"entry", "body", "handler"}]
Stack == Seq(FrameRec)

TrapTypes ==
    /\ curthread \in [TCpu -> TThread] /\ irqon \in [TCpu -> BOOLEAN] /\ usermode \in [TCpu -> BOOLEAN]
    /\ cputhreads \in [TCpu -> TThread] /\ cpustacks \in [TCpu -> TThread]
    /\ frames \in [TThread -> Stack]
    /\ t_curspl \in [TThread -> {0, 1}] /\ t_iplhigh_count \in [TThread -> {0, 1}]
    /\ t_in_interrupt \in [TThread -> {0, 1}] /\ tm_badfaultfunc \in [TThread -> BOOLEAN]
    /\ t_pc \in [TThread -> Nat] /\ made \in [TThread -> SUBSET Nat]

\* The places where a handler may be interrupted, those where the interrupt
\* level is raised, and those inside a copy.
Open == {"body", "copy", "copyfail", "touch", "vm_fault", "done", "run"}
Raised(f) == f.at \in {"start", "handler", "switched"}
Handling(f) == f.why = "irq" /\ f.at \in {"handler", "switched"}
Copying(f) == f.at \in {"copy", "copyfail"}

\* One of the first m frames is.
RaisedTo(s, m) == \E k \in 1..m : Raised(s[k])
HandlingTo(s, m) == \E k \in 1..m : Handling(s[k])
CopyingTo(s, m) == \E k \in 1..m : Copying(s[k])

\* Where each kind of handler can be.
FrameFits(f) ==
    \/ f.why = "irq" /\ f.ie /\ (f.at \in {"entry", "handler", "return"} \/ (f.at = "switched" /\ f.back = "handler"))
    \/ /\ f.why = "sys" /\ f.ie
       /\ \/ f.at \in {"entry", "body", "copy", "copyfail", "touch", "done", "return"}
          \/ f.at = "switched" /\ f.back = "body"
    \/ f.why = "fault" /\ f.ie /\ f.at \in {"entry", "vm_fault", "done", "return"}
    \/ f.why \in {"runprogram", "fork"} /\ f.at \in {"start", "run"}

\* Frame f on frame e: what is interrupted has interrupts on, or is in
\* thread_switch, where nothing but an interrupt that does not yield comes on
\* top; a fault is that of a copy or of a direct access.
OnTop(e, f) ==
    /\ ~f.user /\ f.why \in {"irq", "fault"}
    /\ e.at \in Open \/ (e.at = "switched" /\ f.why = "irq" /\ f.at \in {"entry", "handler", "return"})
    /\ f.why = "fault" => e.at \in {"copy", "touch"} \/ (e.at = "copyfail" /\ f.at \in {"done", "return"})

\* What an interrupt has put aside is what the m frames below it say.
PutAside(s, m, f) ==
    Handling(f) => /\ f.adjust <=> ~RaisedTo(s, m)
                   /\ f.old = 1 <=> HandlingTo(s, m)

\* The first frame came from a program, or is the start of one.
FirstFits(f) == f.user <=> f.why \in {"irq", "sys", "fault"}

StackFits(s) ==
    /\ s # <<>> => FirstFits(s[1])
    /\ \A k \in 1..Len(s) : FrameFits(s[k]) /\ PutAside(s, k - 1, s[k])
    /\ \A k \in 1..(Len(s) - 1) : OnTop(s[k], s[k + 1])

Current(t) == \E c \in TCpu : curthread[c] = t
Existing(t) == frames[t] # <<>> \/ Current(t)

\* The calls that are made, and done.
Account(s, m, done) ==
    /\ s = <<>> \/ s[1].why \in {"irq", "fault"} \/ (s[1].why = "sys" /\ s[1].at \in {"done", "return"}) => m = 0..(done - 1)
    /\ s # <<>> /\ (s[1].why = "fork" \/ (s[1].why = "sys" /\ s[1].at \notin {"done", "return"})) => m = 0..done

ThreadFits(t) ==
    /\ StackFits(frames[t])
    /\ t_iplhigh_count[t] = t_curspl[t]
    /\ t_curspl[t] = 1 <=> ~Existing(t) \/ RaisedTo(frames[t], Len(frames[t]))
    /\ t_in_interrupt[t] = 1 <=> HandlingTo(frames[t], Len(frames[t]))
    /\ tm_badfaultfunc[t] <=> CopyingTo(frames[t], Len(frames[t]))
    /\ Existing(t) => Account(frames[t], made[t], t_pc[t])
    /\ frames[t] # <<>> /\ ~Current(t) => Top(t).at \in {"switched", "start"}

CpuFits(c) ==
    LET t == curthread[c]
    IN  IF usermode[c]
          THEN irqon[c] /\ frames[t] = <<>> /\ cputhreads[c] = t /\ cpustacks[c] = t
          ELSE /\ frames[t] # <<>>
               /\ irqon[c] => Top(t).at \in Open \cup {"switched"}
               /\ Top(t).at \in Open => irqon[c]

TrapInv ==
    /\ TrapTypes /\ OneCpu
    /\ \A t \in TThread : ThreadFits(t)
    /\ \A c \in TCpu : CpuFits(c)
    /\ TrapPanics

-----------------------------------------------------------------------------
(* Stacks *)

\* Stack r is s with f on top, s with its top replaced by f, s without its top.
Pushed(s, f, r) ==
    /\ r \in Stack /\ f \in FrameRec /\ Len(r) = Len(s) + 1
    /\ \A k \in 1..Len(s) : r[k] = s[k]
    /\ r[Len(s) + 1] = f
Retopped(s, f, r) ==
    /\ r \in Stack /\ f \in FrameRec /\ Len(r) = Len(s) /\ Len(s) > 0
    /\ \A k \in 1..(Len(s) - 1) : r[k] = s[k]
    /\ r[Len(s)] = f
Popped(s, r) ==
    /\ r \in Stack /\ Len(s) > 0 /\ Len(r) = Len(s) - 1
    /\ \A k \in 1..(Len(s) - 1) : r[k] = s[k]

LEMMA StackLen == \A s \in Stack : Len(s) \in Nat /\ (s = <<>> <=> Len(s) = 0) /\ \A k \in 1..Len(s) : s[k] \in FrameRec
  BY DEF Stack

\* No frame is above none; m frames are m - 1 and the last.
LEMMA ToStep ==
    ASSUME NEW s, NEW m \in Nat
    PROVE  /\ ~RaisedTo(s, 0) /\ ~HandlingTo(s, 0) /\ ~CopyingTo(s, 0)
           /\ m > 0 => /\ RaisedTo(s, m) <=> RaisedTo(s, m - 1) \/ Raised(s[m])
                       /\ HandlingTo(s, m) <=> HandlingTo(s, m - 1) \/ Handling(s[m])
                       /\ CopyingTo(s, m) <=> CopyingTo(s, m - 1) \/ Copying(s[m])
  <1>1. ~RaisedTo(s, 0) /\ ~HandlingTo(s, 0) /\ ~CopyingTo(s, 0)
    BY DEF RaisedTo, HandlingTo, CopyingTo
  <1>2. ASSUME m > 0 PROVE 1..m = (1..(m - 1)) \cup {m}
    BY <1>2
  <1>3. ASSUME m > 0 PROVE RaisedTo(s, m) <=> RaisedTo(s, m - 1) \/ Raised(s[m])
    BY <1>2, <1>3, Zenon DEF RaisedTo
  <1>4. ASSUME m > 0 PROVE HandlingTo(s, m) <=> HandlingTo(s, m - 1) \/ Handling(s[m])
    BY <1>2, <1>4, Zenon DEF HandlingTo
  <1>5. ASSUME m > 0 PROVE CopyingTo(s, m) <=> CopyingTo(s, m - 1) \/ Copying(s[m])
    BY <1>2, <1>5, Zenon DEF CopyingTo
  <1> QED BY <1>1, <1>3, <1>4, <1>5

LEMMA ToSame ==
    ASSUME NEW s, NEW r, NEW m \in Nat, \A k \in 1..m : r[k] = s[k]
    PROVE  /\ RaisedTo(r, m) <=> RaisedTo(s, m)
           /\ HandlingTo(r, m) <=> HandlingTo(s, m)
           /\ CopyingTo(r, m) <=> CopyingTo(s, m)
  BY Zenon DEF RaisedTo, HandlingTo, CopyingTo

\* Where an interrupt and a fault can be.
LEMMA KindFits ==
    ASSUME NEW f \in FrameRec, FrameFits(f)
    PROVE  /\ f.why = "irq" => f.ie /\ f.at \in {"entry", "handler", "return", "switched"}
           /\ f.why = "fault" => f.ie /\ f.at \in {"entry", "vm_fault", "done", "return"}
           /\ f.why = "sys" => f.ie /\ f.at \in {"entry", "body", "copy", "copyfail", "touch", "done", "return", "switched"}
           /\ f.why \in {"runprogram", "fork"} => f.at \in {"start", "run"}
           /\ f.at = "switched" => f.back = (IF f.why = "irq" THEN "handler" ELSE "body")
           /\ f.at = "handler" => f.why = "irq"
           /\ f.at = "vm_fault" => f.why = "fault"
           /\ f.at \in {"body", "copy", "copyfail", "touch"} => f.why = "sys"
           /\ f.at = "done" => f.why \in {"sys", "fault"}
           /\ f.at \in {"entry", "return"} => f.why \in {"irq", "sys", "fault"}
           /\ f.at \in {"run", "start"} => f.why \in {"runprogram", "fork"}
  BY DEF FrameFits, FrameRec

LEMMA OnTopIs ==
    ASSUME NEW e \in FrameRec, NEW f \in FrameRec, FrameFits(e), FrameFits(f), OnTop(e, f)
    PROVE  /\ f.at \in {"entry", "handler", "return", "switched", "vm_fault", "done"}
           /\ f.why = "fault" => e.why = "sys"
           /\ f.why # "sys"
  <1>1. f.why \in {"irq", "fault"} /\ (f.why = "fault" => e.at \in {"copy", "touch", "copyfail"})
    BY DEF OnTop
  <1> QED BY <1>1, KindFits

\* Below the top two everything may be interrupted; the second from the top
\* may be, or is in thread_switch under an interrupt that does not yield.
LEMMA Below ==
    ASSUME NEW s \in Stack, StackFits(s)
    PROVE  /\ \A k \in 1..(Len(s) - 2) : s[k].at \in Open
           /\ Len(s) > 1 => \/ s[Len(s) - 1].at \in Open
                            \/ /\ s[Len(s) - 1].at = "switched" /\ s[Len(s)].why = "irq"
                               /\ s[Len(s)].at \in {"entry", "handler", "return"}
  <1>0. Len(s) \in Nat
    BY StackLen
  <1>1. ASSUME NEW k \in 1..(Len(s) - 2) PROVE s[k].at \in Open
    <2>1. k \in 1..(Len(s) - 1) /\ k + 1 \in 1..(Len(s) - 1)
      BY <1>0
    <2>2. OnTop(s[k], s[k + 1]) /\ OnTop(s[k + 1], s[(k + 1) + 1])
      BY <2>1 DEF StackFits
    <2> QED BY <2>2 DEF OnTop, Open
  <1>2. ASSUME Len(s) > 1 PROVE OnTop(s[Len(s) - 1], s[Len(s)])
    <2>1. Len(s) - 1 \in 1..(Len(s) - 1) /\ (Len(s) - 1) + 1 = Len(s)
      BY <1>0, <1>2
    <2> QED BY <2>1 DEF StackFits
  <1> QED BY <1>1, <1>2 DEF OnTop

\* Under an open frame, or one that is no interrupt, the level is not raised.
LEMMA BelowOpen ==
    ASSUME NEW s \in Stack, StackFits(s), Len(s) > 0
    PROVE  /\ s[Len(s)].at \in Open \cup {"switched"} \/ s[Len(s)].why # "irq" => ~RaisedTo(s, Len(s) - 1)
           /\ s[Len(s)].at \in Open => ~RaisedTo(s, Len(s))
  <1>0. Len(s) \in Nat \ {0}
    BY StackLen
  <1>1. ASSUME s[Len(s)].at \in Open \cup {"switched"} \/ s[Len(s)].why # "irq",
               NEW k \in 1..(Len(s) - 1) PROVE s[k].at \in Open
    <2>1. k \in 1..(Len(s) - 2) \/ (k = Len(s) - 1 /\ Len(s) > 1)
      BY <1>0
    <2>2. CASE k \in 1..(Len(s) - 2)
      BY <2>2, Below
    <2>3. CASE k = Len(s) - 1 /\ Len(s) > 1
      BY <2>3, <1>1, Below DEF Open
    <2> QED BY <2>1, <2>2, <2>3
  <1>2. s[Len(s)].at \in Open \cup {"switched"} \/ s[Len(s)].why # "irq" => ~RaisedTo(s, Len(s) - 1)
    BY <1>1 DEF RaisedTo, Raised, Open
  <1>3. RaisedTo(s, Len(s)) <=> RaisedTo(s, Len(s) - 1) \/ Raised(s[Len(s)])
    BY <1>0, ToStep
  <1> QED BY <1>2, <1>3 DEF Raised, Open

\* What is above the first frame.
LEMMA TopIs ==
    ASSUME NEW s \in Stack, StackFits(s), Len(s) > 0
    PROVE  /\ s[Len(s)] \in FrameRec /\ FrameFits(s[Len(s)]) /\ PutAside(s, Len(s) - 1, s[Len(s)])
           /\ Len(s) = 1 => FirstFits(s[Len(s)])
           /\ Len(s) > 1 => OnTop(s[Len(s) - 1], s[Len(s)])
           /\ s[Len(s)].at \in {"body", "copy", "copyfail", "touch", "run", "start"} => Len(s) = 1
           /\ s[Len(s)].why = "fault" /\ Len(s) > 1 => Len(s) = 2
  <1>a. Len(s) \in Nat /\ s # <<>>
    BY StackLen
  <1>0. Len(s) \in Nat \ {0} /\ Len(s) \in 1..Len(s)
    BY <1>a
  <1>b. (Len(s) = 1 \/ Len(s) > 1) /\ (Len(s) > 1 => Len(s) = 2 \/ Len(s) > 2)
    <2>1. \A n \in Nat : (n > 0 => n = 1 \/ n > 1) /\ (n > 1 => n = 2 \/ n > 2)
      OBVIOUS
    <2> QED BY <2>1, <1>a
  <1>1. s[Len(s)] \in FrameRec /\ FrameFits(s[Len(s)]) /\ PutAside(s, Len(s) - 1, s[Len(s)])
    BY <1>0, StackLen DEF StackFits
  <1>2. Len(s) = 1 => FirstFits(s[Len(s)])
    BY <1>a, <1>0 DEF StackFits
  <1>3. ASSUME NEW k \in 1..(Len(s) - 1) PROVE OnTop(s[k], s[k + 1]) /\ FrameFits(s[k]) /\ s[k] \in FrameRec
    <2>1. k \in 1..Len(s)
      BY <1>0
    <2> QED BY <1>3, <2>1, StackLen DEF StackFits
  <1>4. ASSUME Len(s) > 1 PROVE OnTop(s[Len(s) - 1], s[Len(s)]) /\ FrameFits(s[Len(s) - 1]) /\ s[Len(s) - 1] \in FrameRec
    <2>1. Len(s) - 1 \in 1..(Len(s) - 1) /\ (Len(s) - 1) + 1 = Len(s)
      BY <1>0, <1>4
    <2> QED BY <2>1, <1>3
  <1>5. s[Len(s)].at \in {"body", "copy", "copyfail", "touch", "run", "start"} => Len(s) = 1
    <2>1. Len(s) > 1 => s[Len(s)].at \in {"entry", "handler", "return", "switched", "vm_fault", "done"}
      BY <1>1, <1>4, OnTopIs
    <2>2. Len(s) = 1 \/ Len(s) > 1
      BY <1>b
    <2> QED BY <2>1, <2>2, Zenon
  <1>6. ASSUME s[Len(s)].why = "fault", Len(s) > 2 PROVE FALSE
    <2>1. Len(s) - 2 \in 1..(Len(s) - 1) /\ (Len(s) - 2) + 1 = Len(s) - 1
      BY <1>0, <1>6
    <2>2. OnTop(s[Len(s) - 2], s[Len(s) - 1]) /\ OnTop(s[Len(s) - 1], s[Len(s)]) /\ FrameFits(s[Len(s) - 1]) /\ s[Len(s) - 1] \in FrameRec
      BY <2>1, <1>3, <1>4, <1>6
    <2>3. s[Len(s) - 1].why = "sys"
      BY <2>2, <1>1, <1>4, <1>6, OnTopIs
    <2>4. s[Len(s) - 1].why \in {"irq", "fault"}
      BY <2>2 DEF OnTop
    <2> QED BY <2>3, <2>4, Zenon
  <1> QED BY <1>b, <1>1, <1>2, <1>4, <1>5, <1>6

\* A trap from a program, or of what may be interrupted.
LEMMA PushFits ==
    ASSUME NEW s \in Stack, NEW f, NEW r, StackFits(s), Pushed(s, f, r), FrameFits(f), f.at = "entry",
           Len(s) = 0 => FirstFits(f), Len(s) > 0 => OnTop(s[Len(s)], f)
    PROVE  /\ StackFits(r)
           /\ RaisedTo(r, Len(r)) <=> RaisedTo(s, Len(s))
           /\ HandlingTo(r, Len(r)) <=> HandlingTo(s, Len(s))
           /\ CopyingTo(r, Len(r)) <=> CopyingTo(s, Len(s))
           /\ Len(s) > 0 => r[1] = s[1]
  <1>0. Len(s) \in Nat /\ Len(r) = Len(s) + 1 /\ Len(r) - 1 = Len(s) /\ r[Len(r)] = f /\ \A k \in 1..Len(s) : r[k] = s[k]
    BY StackLen DEF Pushed
  <1>1. ~Raised(f) /\ ~Handling(f) /\ ~Copying(f)
    BY DEF Raised, Handling, Copying
  <1>2. ASSUME NEW k \in 1..Len(r) PROVE FrameFits(r[k]) /\ PutAside(r, k - 1, r[k])
    <2>1. CASE k \in 1..Len(s)
      <3>1. FrameFits(s[k]) /\ PutAside(s, k - 1, s[k]) /\ r[k] = s[k]
        BY <2>1, <1>0 DEF StackFits
      <3>2. k - 1 \in Nat /\ \A j \in 1..(k - 1) : r[j] = s[j]
        BY <2>1, <1>0
      <3> HIDE <2>1
      <3>3. (RaisedTo(r, k - 1) <=> RaisedTo(s, k - 1)) /\ (HandlingTo(r, k - 1) <=> HandlingTo(s, k - 1))
        BY <3>2, ToSame
      <3> QED BY <3>1, <3>3, Zenon DEF PutAside
    <2>2. CASE k = Len(r)
      BY <2>2, <1>0, <1>1, Zenon DEF PutAside
    <2>3. k \in 1..Len(s) \/ k = Len(r)
      BY <1>0
    <2> QED BY <2>1, <2>2, <2>3
  <1>3. ASSUME NEW k \in 1..(Len(r) - 1) PROVE OnTop(r[k], r[k + 1])
    <2>1. CASE k \in 1..(Len(s) - 1)
      <3>1. OnTop(s[k], s[k + 1])
        BY <2>1 DEF StackFits
      <3>2. r[k] = s[k] /\ r[k + 1] = s[k + 1]
        <4>1. k \in 1..Len(s) /\ k + 1 \in 1..Len(s)
          BY <2>1, <1>0
        <4> QED BY <4>1, <1>0
      <3> QED BY <3>1, <3>2
    <2>2. CASE k = Len(s)
      <3>1. Len(s) > 0 /\ k + 1 = Len(r) /\ r[k] = s[k]
        BY <2>2, <1>0, <1>3
      <3> QED BY <3>1, <2>2, <1>0
    <2>3. k \in 1..(Len(s) - 1) \/ k = Len(s)
      <3>1. k \in 1..Len(s)
        BY <1>0
      <3>2. \A n \in Nat : \A j \in 1..n : j \in 1..(n - 1) \/ j = n
        OBVIOUS
      <3> QED BY <3>1, <3>2, <1>0, Zenon
    <2> QED BY <2>1, <2>2, <2>3
  <1>4. (Len(s) > 0 => r[1] = s[1]) /\ (Len(s) = 0 => r[1] = f)
    <2>1. Len(s) > 0 => 1 \in 1..Len(s)
      BY <1>0
    <2> QED BY <2>1, <1>0
  <1>5. FirstFits(r[1])
    <2>1. CASE Len(s) = 0
      BY <2>1, <1>4
    <2>2. CASE Len(s) > 0
      <3>1. s # <<>>
        BY <2>2, StackLen
      <3> QED BY <3>1, <2>2, <1>4 DEF StackFits
    <2> QED BY <2>1, <2>2, <1>0
  <1>6. StackFits(r)
    BY <1>2, <1>3, <1>5, Zenon DEF StackFits
  <1>7. /\ RaisedTo(r, Len(r)) <=> RaisedTo(r, Len(s)) \/ Raised(f)
        /\ HandlingTo(r, Len(r)) <=> HandlingTo(r, Len(s)) \/ Handling(f)
        /\ CopyingTo(r, Len(r)) <=> CopyingTo(r, Len(s)) \/ Copying(f)
    <2>1. Len(r) \in Nat /\ Len(r) > 0
      BY <1>0
    <2>2. /\ RaisedTo(r, Len(r)) <=> RaisedTo(r, Len(r) - 1) \/ Raised(r[Len(r)])
          /\ HandlingTo(r, Len(r)) <=> HandlingTo(r, Len(r) - 1) \/ Handling(r[Len(r)])
          /\ CopyingTo(r, Len(r)) <=> CopyingTo(r, Len(r) - 1) \/ Copying(r[Len(r)])
      BY <2>1, ToStep, Zenon
    <2>3. Len(r) - 1 = Len(s) /\ r[Len(r)] = f
      BY <1>0
    <2> QED BY <2>2, <2>3, Zenon
  <1>8. /\ RaisedTo(r, Len(s)) <=> RaisedTo(s, Len(s))
        /\ HandlingTo(r, Len(s)) <=> HandlingTo(s, Len(s))
        /\ CopyingTo(r, Len(s)) <=> CopyingTo(s, Len(s))
    BY <1>0, ToSame, Zenon
  <1> QED BY <1>1, <1>4, <1>6, <1>7, <1>8, Zenon

\* The handler on top has gone on.
LEMMA RetopFits ==
    ASSUME NEW s \in Stack, NEW f, NEW r, StackFits(s), Retopped(s, f, r), FrameFits(f),
           f.why = s[Len(s)].why, f.user = s[Len(s)].user,
           Len(s) > 1 => OnTop(s[Len(s) - 1], f), PutAside(s, Len(s) - 1, f)
    PROVE  /\ StackFits(r)
           /\ RaisedTo(r, Len(r)) <=> RaisedTo(s, Len(s) - 1) \/ Raised(f)
           /\ HandlingTo(r, Len(r)) <=> HandlingTo(s, Len(s) - 1) \/ Handling(f)
           /\ CopyingTo(r, Len(r)) <=> CopyingTo(s, Len(s) - 1) \/ Copying(f)
           /\ Len(s) > 1 => r[1] = s[1]
           /\ Len(s) = 1 => r[1] = f
  <1>0. /\ Len(s) \in Nat /\ Len(s) > 0 /\ Len(s) - 1 \in Nat /\ Len(r) = Len(s) /\ r[Len(s)] = f
        /\ \A k \in 1..(Len(s) - 1) : r[k] = s[k]
    BY StackLen DEF Retopped
  <1>1. ASSUME NEW m \in Nat, m <= Len(s) - 1
        PROVE  /\ RaisedTo(r, m) <=> RaisedTo(s, m)
               /\ HandlingTo(r, m) <=> HandlingTo(s, m)
               /\ CopyingTo(r, m) <=> CopyingTo(s, m)
    <2>1. \A k \in 1..m : r[k] = s[k]
      BY <1>0, <1>1
    <2> QED BY <2>1, ToSame, Zenon
  <1>2. ASSUME NEW k \in 1..Len(r) PROVE FrameFits(r[k]) /\ PutAside(r, k - 1, r[k])
    <2>1. k - 1 \in Nat /\ k - 1 <= Len(s) - 1
      BY <1>0
    <2>2. (RaisedTo(r, k - 1) <=> RaisedTo(s, k - 1)) /\ (HandlingTo(r, k - 1) <=> HandlingTo(s, k - 1))
      BY <1>1, <2>1
    <2>3. FrameFits(r[k]) /\ PutAside(s, k - 1, r[k])
      <3>1. CASE k \in 1..(Len(s) - 1)
        <4>1. k \in 1..Len(s) /\ r[k] = s[k]
          BY <3>1, <1>0
        <4> QED BY <4>1, Zenon DEF StackFits
      <3>2. CASE k = Len(s)
        BY <3>2, <1>0
      <3> QED BY <3>1, <3>2, <1>0
    <2> QED BY <2>2, <2>3, Zenon DEF PutAside
  <1>3. ASSUME NEW k \in 1..(Len(r) - 1) PROVE OnTop(r[k], r[k + 1])
    <2>0. r[k] = s[k]
      BY <1>0
    <2>1. CASE k + 1 \in 1..(Len(s) - 1)
      <3>1. OnTop(s[k], s[k + 1])
        BY <1>0 DEF StackFits
      <3> QED BY <2>0, <2>1, <3>1, <1>0
    <2>2. CASE k = Len(s) - 1
      <3>1. k + 1 = Len(s) /\ Len(s) > 1
        BY <2>2, <1>0, <1>3
      <3> QED BY <3>1, <2>0, <2>2, <1>0
    <2> QED BY <2>1, <2>2, <1>0
  <1>4. (Len(s) > 1 => r[1] = s[1]) /\ (Len(s) = 1 => r[1] = f)
    <2>1. Len(s) > 1 => 1 \in 1..(Len(s) - 1)
      BY <1>0
    <2> QED BY <2>1, <1>0
  <1>5. FirstFits(r[1])
    <2>0. FirstFits(s[1])
      BY <1>0, StackLen DEF StackFits
    <2>1. CASE Len(s) = 1
      BY <2>0, <2>1, <1>4, Zenon DEF FirstFits
    <2>2. CASE Len(s) > 1
      BY <2>0, <2>2, <1>4
    <2>3. Len(s) = 1 \/ Len(s) > 1
      BY <1>0
    <2> QED BY <2>1, <2>2, <2>3
  <1>6. StackFits(r)
    BY <1>2, <1>3, <1>5, Zenon DEF StackFits
  <1>7. /\ RaisedTo(r, Len(r)) <=> RaisedTo(r, Len(s) - 1) \/ Raised(f)
        /\ HandlingTo(r, Len(r)) <=> HandlingTo(r, Len(s) - 1) \/ Handling(f)
        /\ CopyingTo(r, Len(r)) <=> CopyingTo(r, Len(s) - 1) \/ Copying(f)
    BY <1>0, ToStep, Zenon
  <1>8. Len(s) - 1 <= Len(s) - 1
    BY <1>0
  <1> QED BY <1>0, <1>1, <1>4, <1>6, <1>7, <1>8

\* The handler on top has returned.
LEMMA PopFits ==
    ASSUME NEW s \in Stack, NEW r, StackFits(s), Popped(s, r), s[Len(s)].at = "return"
    PROVE  /\ StackFits(r)
           /\ RaisedTo(r, Len(r)) <=> RaisedTo(s, Len(s))
           /\ HandlingTo(r, Len(r)) <=> HandlingTo(s, Len(s))
           /\ CopyingTo(r, Len(r)) <=> CopyingTo(s, Len(s))
           /\ Len(r) > 0 => r[1] = s[1] /\ OnTop(r[Len(r)], s[Len(s)])
           /\ Len(r) = 0 => FirstFits(s[1])
  <1>0. /\ Len(s) \in Nat /\ Len(s) > 0 /\ Len(r) \in Nat /\ Len(r) = Len(s) - 1 /\ Len(r) + 1 = Len(s)
        /\ \A k \in 1..Len(r) : r[k] = s[k]
    BY StackLen DEF Popped
  <1>a. \A k \in 1..Len(r) : k \in 1..Len(s) /\ k \in 1..(Len(s) - 1)
    BY <1>0
  <1>1. ASSUME NEW m \in Nat, m <= Len(r)
        PROVE  /\ RaisedTo(r, m) <=> RaisedTo(s, m)
               /\ HandlingTo(r, m) <=> HandlingTo(s, m)
               /\ CopyingTo(r, m) <=> CopyingTo(s, m)
    <2>1. \A k \in 1..m : r[k] = s[k]
      BY <1>0, <1>1
    <2> QED BY <2>1, ToSame, Zenon
  <1>2. ASSUME NEW k \in 1..Len(r) PROVE FrameFits(r[k]) /\ PutAside(r, k - 1, r[k])
    <2>1. k - 1 \in Nat /\ k - 1 <= Len(r)
      BY <1>0
    <2>2. (RaisedTo(r, k - 1) <=> RaisedTo(s, k - 1)) /\ (HandlingTo(r, k - 1) <=> HandlingTo(s, k - 1))
      BY <1>1, <2>1
    <2>3. FrameFits(s[k]) /\ PutAside(s, k - 1, s[k]) /\ r[k] = s[k]
      BY <1>0, <1>a, Zenon DEF StackFits
    <2> QED BY <2>2, <2>3, Zenon DEF PutAside
  <1>3. ASSUME NEW k \in 1..(Len(r) - 1) PROVE OnTop(r[k], r[k + 1])
    <2>1. k \in 1..Len(r) /\ k + 1 \in 1..Len(r)
      BY <1>0
    <2>2. r[k] = s[k] /\ r[k + 1] = s[k + 1] /\ OnTop(s[k], s[k + 1])
      BY <2>1, <1>0, <1>a, Zenon DEF StackFits
    <2> QED BY <2>2
  <1>4. FirstFits(s[1]) /\ (Len(r) > 0 => r[1] = s[1])
    <2>1. s # <<>> /\ (Len(r) > 0 => 1 \in 1..Len(r))
      BY <1>0, StackLen
    <2> QED BY <2>1, <1>0 DEF StackFits
  <1>5. r # <<>> => FirstFits(r[1])
    <2>1. r # <<>> => Len(r) > 0
      BY <1>0, StackLen DEF Popped
    <2> QED BY <2>1, <1>4
  <1>6. StackFits(r)
    BY <1>2, <1>3, <1>5, Zenon DEF StackFits
  <1>7. Len(r) > 0 => OnTop(r[Len(r)], s[Len(s)])
    <2>1. Len(r) > 0 => Len(r) \in 1..Len(r)
      BY <1>0
    <2>2. Len(r) > 0 => OnTop(s[Len(r)], s[Len(r) + 1])
      BY <2>1, <1>a, Zenon DEF StackFits
    <2> QED BY <2>1, <2>2, <1>0
  <1>8. ~Raised(s[Len(s)]) /\ ~Handling(s[Len(s)]) /\ ~Copying(s[Len(s)])
    BY DEF Raised, Handling, Copying
  <1>9. /\ RaisedTo(s, Len(s)) <=> RaisedTo(s, Len(r))
        /\ HandlingTo(s, Len(s)) <=> HandlingTo(s, Len(r))
        /\ CopyingTo(s, Len(s)) <=> CopyingTo(s, Len(r))
    <2>1. /\ RaisedTo(s, Len(s)) <=> RaisedTo(s, Len(s) - 1) \/ Raised(s[Len(s)])
          /\ HandlingTo(s, Len(s)) <=> HandlingTo(s, Len(s) - 1) \/ Handling(s[Len(s)])
          /\ CopyingTo(s, Len(s)) <=> CopyingTo(s, Len(s) - 1) \/ Copying(s[Len(s)])
      BY <1>0, ToStep, Zenon
    <2>2. Len(s) - 1 = Len(r)
      BY <1>0
    <2> QED BY <2>1, <2>2, <1>8, Zenon
  <1>10. Len(r) <= Len(r)
    BY <1>0
  <1> QED BY <1>0, <1>1, <1>4, <1>6, <1>7, <1>9, <1>10

HandlerPlaces == {"entry", "handler", "switched", "return", "body", "copy", "copyfail", "touch", "done", "vm_fault", "start", "run"}

LEMMA AtIs ==
    ASSUME NEW f \in FrameRec, NEW a \in HandlerPlaces, NEW g, g = [f EXCEPT !.at = a]
    PROVE  /\ g \in FrameRec /\ g.at = a /\ g.why = f.why /\ g.user = f.user /\ g.ie = f.ie
           /\ g.adjust = f.adjust /\ g.old = f.old /\ g.back = f.back
  BY DEF FrameRec, HandlerPlaces

LEMMA FrameIs ==
    ASSUME NEW why \in {"irq", "sys", "fault", "runprogram", "fork"}, NEW user \in BOOLEAN, NEW ie \in BOOLEAN
    PROVE  LET f == Frame(why, user, ie)
           IN  f \in FrameRec /\ f.at = "entry" /\ f.why = why /\ f.user = user /\ f.ie = ie
  BY DEF FrameRec, Frame

LEMMA NewThreadIs ==
    ASSUME NEW why \in {"runprogram", "fork"}
    PROVE  LET f == NewThread(why) IN f \in FrameRec /\ f.at = "start" /\ f.why = why /\ f.user = FALSE
  BY DEF FrameRec, Frame, NewThread

\* A new thread's stack, and an empty one.
LEMMA NewFits ==
    ASSUME NEW why \in {"runprogram", "fork"}
    PROVE  LET s == <<NewThread(why)>>
           IN  /\ s \in Stack /\ Len(s) = 1 /\ s # <<>> /\ s[1] = NewThread(why) /\ StackFits(s)
               /\ RaisedTo(s, Len(s)) /\ ~HandlingTo(s, Len(s)) /\ ~CopyingTo(s, Len(s))
  <1> DEFINE f == NewThread(why)
             s == <<NewThread(why)>>
  <1>0. f \in FrameRec /\ f.at = "start" /\ f.why = why /\ f.user = FALSE
    BY NewThreadIs
  <1>1. s \in Stack /\ Len(s) = 1 /\ s[1] = f
    BY <1>0 DEF Stack
  <1>2. s # <<>>
    BY <1>1, StackLen
  <1>3. FrameFits(f) /\ ~Handling(f) /\ Raised(f) /\ ~Copying(f) /\ FirstFits(f)
    BY <1>0 DEF FrameFits, Handling, Raised, Copying, FirstFits
  <1> HIDE DEF f, s
  <1>4. \A k \in 1..Len(s) : s[k] = f
    BY <1>1
  <1>5. 1..(Len(s) - 1) = {}
    BY <1>1
  <1>6. StackFits(s)
    BY <1>1, <1>3, <1>4, <1>5, Zenon DEF StackFits, PutAside
  <1>7. RaisedTo(s, Len(s)) /\ ~HandlingTo(s, Len(s)) /\ ~CopyingTo(s, Len(s))
    BY <1>1, <1>3 DEF RaisedTo, HandlingTo, CopyingTo
  <1> QED BY <1>1, <1>2, <1>6, <1>7 DEF s, f

LEMMA EmptyFits ==
    /\ <<>> \in Stack /\ Len(<<>>) = 0 /\ StackFits(<<>>)
    /\ ~RaisedTo(<<>>, Len(<<>>)) /\ ~HandlingTo(<<>>, Len(<<>>)) /\ ~CopyingTo(<<>>, Len(<<>>))
  <1>1. <<>> \in Stack /\ Len(<<>>) = 0
    BY DEF Stack
  <1>2. 1..Len(<<>>) = {} /\ 1..(Len(<<>>) - 1) = {}
    BY <1>1
  <1> QED BY <1>1, <1>2, Zenon DEF StackFits, RaisedTo, HandlingTo, CopyingTo

\* A fault inside a copy.
LEMMA CopyFailFits ==
    ASSUME NEW s \in Stack, NEW r \in Stack, StackFits(s), Len(s) = 2, s[1].at = "copy", s[2].at = "vm_fault",
           Len(r) = 2, r[1] = [s[1] EXCEPT !.at = "copyfail"], r[2] = [s[2] EXCEPT !.at = "done"]
    PROVE  /\ StackFits(r) /\ r[1].why = "sys" /\ s[1].why = "sys"
           /\ ~RaisedTo(r, Len(r)) /\ ~HandlingTo(r, Len(r)) /\ CopyingTo(r, Len(r))
           /\ ~RaisedTo(s, Len(s)) /\ ~HandlingTo(s, Len(s)) /\ CopyingTo(s, Len(s))
  <1>0. 1 \in 1..Len(s) /\ 2 \in 1..Len(s) /\ 1 \in 1..(Len(s) - 1) /\ 1..Len(r) = {1, 2} /\ 1..(Len(r) - 1) = {1} /\ 1..Len(s) = {1, 2}
    BY SMT
  <1>1. s[1] \in FrameRec /\ s[2] \in FrameRec /\ FrameFits(s[1]) /\ FrameFits(s[2])
    BY <1>0, StackLen DEF StackFits
  <1>2. OnTop(s[1], s[1 + 1])
    BY <1>0 DEF StackFits
  <1>3. FirstFits(s[1])
    <2>1. s # <<>>
      BY StackLen
    <2> QED BY <2>1 DEF StackFits
  <1>4. s[1].why = "sys" /\ s[2].why = "fault"
    BY <1>1, KindFits
  <1>5. /\ r[1].at = "copyfail" /\ r[1].why = "sys" /\ r[1].user = s[1].user /\ r[1].ie = s[1].ie /\ r[1] \in FrameRec
        /\ r[2].at = "done" /\ r[2].why = "fault" /\ r[2].user = s[2].user /\ r[2].ie = s[2].ie /\ r[2] \in FrameRec
    <2>1. "copyfail" \in HandlerPlaces /\ "done" \in HandlerPlaces
      BY DEF HandlerPlaces
    <2>2. /\ r[1].at = "copyfail" /\ r[1].why = s[1].why /\ r[1].user = s[1].user /\ r[1].ie = s[1].ie /\ r[1] \in FrameRec
      BY <2>1, <1>1, AtIs
    <2>3. /\ r[2].at = "done" /\ r[2].why = s[2].why /\ r[2].user = s[2].user /\ r[2].ie = s[2].ie /\ r[2] \in FrameRec
      BY <2>1, <1>1, AtIs
    <2> QED BY <2>2, <2>3, <1>4
  <1>6. s[1].ie /\ s[2].ie /\ ~s[2].user
    <2>1. s[1].ie /\ s[2].ie
      BY <1>1, <1>4, KindFits
    <2>2. ~s[2].user
      BY <1>2 DEF OnTop
    <2> QED BY <2>1, <2>2
  <1>7. FrameFits(r[1]) /\ FrameFits(r[2]) /\ FirstFits(r[1]) /\ OnTop(r[1], r[2])
    BY <1>3, <1>4, <1>5, <1>6, Zenon DEF FrameFits, FirstFits, OnTop, Open
  <1>8. \A f \in {r[1], r[2], s[1], s[2]} : ~Handling(f) /\ ~Raised(f)
    BY <1>4, <1>5 DEF Handling, Raised
  <1>9. Copying(r[1]) /\ Copying(s[1])
    BY <1>5 DEF Copying
  <1>10. StackFits(r)
    <2>1. \A k \in 1..Len(r) : FrameFits(r[k]) /\ PutAside(r, k - 1, r[k])
      BY <1>0, <1>7, <1>8, Zenon DEF PutAside
    <2>2. 1 + 1 = 2
      OBVIOUS
    <2>3. \A k \in 1..(Len(r) - 1) : OnTop(r[k], r[k + 1])
      BY <1>0, <1>7, <2>2, Zenon
    <2> QED BY <2>1, <2>3, <1>7, Zenon DEF StackFits
  <1>11. ~RaisedTo(r, Len(r)) /\ ~HandlingTo(r, Len(r)) /\ CopyingTo(r, Len(r))
    BY <1>0, <1>8, <1>9, Zenon DEF RaisedTo, HandlingTo, CopyingTo
  <1>12. ~RaisedTo(s, Len(s)) /\ ~HandlingTo(s, Len(s)) /\ CopyingTo(s, Len(s))
    BY <1>0, <1>8, <1>9, Zenon DEF RaisedTo, HandlingTo, CopyingTo
  <1> QED BY <1>4, <1>5, <1>10, <1>11, <1>12

-----------------------------------------------------------------------------
(* The stack of one thread *)

SameBut(t) == \A u \in TThread : u # t => frames'[u] = frames[u]

LEMMA SetTopIs ==
    ASSUME TrapTypes, NEW t \in TThread, frames[t] # <<>>, NEW f \in FrameRec, frames' = SetTop(t, f)
    PROVE  frames' \in [TThread -> Stack] /\ Retopped(frames[t], f, frames'[t]) /\ SameBut(t)
  <1>0. frames \in [TThread -> Stack] /\ frames[t] \in Seq(FrameRec) /\ frames[t] \in Stack
    BY DEF TrapTypes, Stack
  <1>1. Len(frames[t]) \in Nat /\ Len(frames[t]) > 0
    BY <1>0
  <1>2. frames' = [frames EXCEPT ![t] = [frames[t] EXCEPT ![Len(frames[t])] = f]]
    BY DEF SetTop
  <1> DEFINE r == [frames[t] EXCEPT ![Len(frames[t])] = f]
  <1>3. r \in Seq(FrameRec) /\ Len(r) = Len(frames[t])
    BY <1>0, <1>1
  <1>4. (\A k \in 1..(Len(frames[t]) - 1) : r[k] = frames[t][k]) /\ r[Len(frames[t])] = f
    BY <1>0, <1>1
  <1>5. frames'[t] = r /\ SameBut(t) /\ frames' \in [TThread -> Stack]
    BY <1>0, <1>2, <1>3, Zenon DEF SameBut, Stack
  <1> HIDE DEF r
  <1> QED BY <1>1, <1>3, <1>4, <1>5 DEF Retopped, Stack

-----------------------------------------------------------------------------
(* The running thread *)

\* What ThreadFits says of a thread that runs.
Levels(t) ==
    /\ StackFits(frames[t])
    /\ t_iplhigh_count[t] = t_curspl[t]
    /\ t_curspl[t] = 1 <=> RaisedTo(frames[t], Len(frames[t]))
    /\ t_in_interrupt[t] = 1 <=> HandlingTo(frames[t], Len(frames[t]))
    /\ tm_badfaultfunc[t] <=> CopyingTo(frames[t], Len(frames[t]))
    /\ Account(frames[t], made[t], t_pc[t])

LEMMA CurrentFits ==
    ASSUME NEW c \in TCpu
    PROVE  /\ ThreadFits(curthread[c]) <=> Levels(curthread[c])
           /\ (ThreadFits(curthread[c]) <=> Levels(curthread[c]))'
  <1>1. Current(curthread[c]) /\ Current(curthread[c])'
    BY Zenon DEF Current
  <1>2. ThreadFits(curthread[c]) <=> Levels(curthread[c])
    BY <1>1, Zenon DEF ThreadFits, Levels, Existing
  <1>3. (ThreadFits(curthread[c]) <=> Levels(curthread[c]))'
    BY <1>1, Zenon DEF ThreadFits, Levels, Existing
  <1> QED BY <1>2, <1>3

\* The step of CPU c leaves the other CPUs and their threads alone.
Alone(t) ==
    \A u \in TThread : u # t =>
        /\ frames'[u] = frames[u] /\ t_curspl'[u] = t_curspl[u] /\ t_iplhigh_count'[u] = t_iplhigh_count[u]
        /\ t_in_interrupt'[u] = t_in_interrupt[u] /\ tm_badfaultfunc'[u] = tm_badfaultfunc[u]
        /\ t_pc'[u] = t_pc[u] /\ made'[u] = made[u]
OtherCpus(c) ==
    \A d \in TCpu : d # c =>
        /\ irqon'[d] = irqon[d] /\ usermode'[d] = usermode[d] /\ cputhreads'[d] = cputhreads[d] /\ cpustacks'[d] = cpustacks[d]

LEMMA OtherFits ==
    ASSUME NEW u \in TThread, NEW t, Alone(t), u # t, ThreadFits(u), Current(u)' <=> Current(u)
    PROVE  ThreadFits(u)'
  <1>1. frames'[u] = frames[u] /\ t_curspl'[u] = t_curspl[u] /\ t_iplhigh_count'[u] = t_iplhigh_count[u]
        /\ t_in_interrupt'[u] = t_in_interrupt[u] /\ tm_badfaultfunc'[u] = tm_badfaultfunc[u]
        /\ t_pc'[u] = t_pc[u] /\ made'[u] = made[u]
    BY Zenon DEF Alone
  <1>2. Existing(u)' <=> Existing(u)
    BY <1>1, Zenon DEF Existing
  <1>3. Top(u)' = Top(u)
    BY <1>1, Zenon DEF Top
  <1> QED BY <1>1, <1>2, <1>3, Zenon DEF ThreadFits

LEMMA OtherCpu ==
    ASSUME NEW d \in TCpu, curthread'[d] = curthread[d], frames'[curthread[d]] = frames[curthread[d]], CpuFits(d),
           irqon'[d] = irqon[d], usermode'[d] = usermode[d], cputhreads'[d] = cputhreads[d], cpustacks'[d] = cpustacks[d]
    PROVE  CpuFits(d)'
  <1>1. Top(curthread[d])' = Top(curthread[d])
    BY Zenon DEF Top
  <1> QED BY <1>1, Zenon DEF CpuFits

\* A step of one CPU and its thread.
LEMMA LocalStep ==
    ASSUME TrapInv, NEW c \in TCpu, curthread' = curthread, Alone(curthread[c]), OtherCpus(c),
           TrapTypes', Levels(curthread[c])', CpuFits(c)', TrapPanics'
    PROVE  TrapInv'
  <1> DEFINE t == curthread[c]
  <1>0. t \in TThread /\ OneCpu /\ (\A u \in TThread : ThreadFits(u)) /\ (\A d \in TCpu : CpuFits(d) /\ curthread[d] \in TThread)
    BY DEF TrapInv, TrapTypes
  <1>1. OneCpu'
    BY <1>0, Zenon DEF OneCpu
  <1>2. ASSUME NEW u \in TThread PROVE ThreadFits(u)'
    <2>1. CASE u = t
      BY <2>1, CurrentFits
    <2>2. CASE u # t
      <3>1. Current(u)' <=> Current(u)
        BY Zenon DEF Current
      <3> QED BY <2>2, <3>1, <1>0, OtherFits, Zenon
    <2> QED BY <2>1, <2>2
  <1>3. ASSUME NEW d \in TCpu PROVE CpuFits(d)'
    <2>1. CASE d = c
      BY <2>1
    <2>2. CASE d # c
      <3>1. curthread[d] # t /\ curthread[d] \in TThread /\ CpuFits(d)
        BY <2>2, <1>0, Zenon DEF OneCpu
      <3>2. frames'[curthread[d]] = frames[curthread[d]] /\ curthread'[d] = curthread[d]
        BY <3>1, Zenon DEF Alone
      <3>3. irqon'[d] = irqon[d] /\ usermode'[d] = usermode[d] /\ cputhreads'[d] = cputhreads[d] /\ cpustacks'[d] = cpustacks[d]
        BY <2>2, Zenon DEF OtherCpus
      <3> QED BY <3>1, <3>2, <3>3, OtherCpu, Zenon
    <2> QED BY <2>1, <2>2
  <1> QED BY <1>1, <1>2, <1>3, Zenon DEF TrapInv

\* A CPU in the kernel, and its thread's innermost handler.
LEMMA InKernel ==
    ASSUME TrapInv, NEW c \in TCpu, ~usermode[c]
    PROVE  LET t == curthread[c]
               s == frames[t]
           IN  /\ t \in TThread /\ s \in Stack /\ s # <<>> /\ Len(s) \in Nat /\ Len(s) > 0 /\ Len(s) - 1 \in Nat
               /\ Levels(t) /\ StackFits(s) /\ Top(t) = s[Len(s)]
               /\ Top(t) \in FrameRec /\ FrameFits(Top(t)) /\ PutAside(s, Len(s) - 1, Top(t))
               /\ irqon[c] \in BOOLEAN /\ t_curspl[t] \in {0, 1} /\ t_in_interrupt[t] \in {0, 1}
               /\ tm_badfaultfunc[t] \in BOOLEAN /\ t_pc[t] \in Nat
               /\ irqon[c] => Top(t).at \in Open \cup {"switched"}
               /\ Top(t).at \in Open => irqon[c]
  <1>1. curthread[c] \in TThread /\ CpuFits(c) /\ ThreadFits(curthread[c]) /\ TrapTypes
    BY DEF TrapInv, TrapTypes
  <1>2. frames[curthread[c]] \in Stack /\ frames[curthread[c]] # <<>> /\ Levels(curthread[c])
    BY <1>1, CurrentFits, Zenon DEF TrapTypes, CpuFits
  <1>3. Len(frames[curthread[c]]) \in Nat /\ Len(frames[curthread[c]]) > 0 /\ Len(frames[curthread[c]]) - 1 \in Nat
    BY <1>2, StackLen
  <1>4. StackFits(frames[curthread[c]])
    BY <1>2, Zenon DEF Levels
  <1>5. Top(curthread[c]) = frames[curthread[c]][Len(frames[curthread[c]])]
    BY Zenon DEF Top
  <1>6. /\ Top(curthread[c]) \in FrameRec /\ FrameFits(Top(curthread[c]))
        /\ PutAside(frames[curthread[c]], Len(frames[curthread[c]]) - 1, Top(curthread[c]))
    BY <1>2, <1>3, <1>4, <1>5, TopIs, Zenon
  <1>7. /\ irqon[c] \in BOOLEAN /\ t_curspl[curthread[c]] \in {0, 1} /\ t_in_interrupt[curthread[c]] \in {0, 1}
        /\ tm_badfaultfunc[curthread[c]] \in BOOLEAN /\ t_pc[curthread[c]] \in Nat
    BY <1>1 DEF TrapTypes
  <1>8. /\ irqon[c] => Top(curthread[c]).at \in Open \cup {"switched"}
        /\ Top(curthread[c]).at \in Open => irqon[c]
    BY <1>1, Zenon DEF CpuFits
  <1> QED BY <1>1, <1>2, <1>3, <1>4, <1>5, <1>6, <1>7, <1>8, Zenon

\* The levels of a stack, counting the top frame apart.
LEMMA Apart ==
    ASSUME TrapInv, NEW c \in TCpu, ~usermode[c], NEW t, t = curthread[c], NEW s, s = frames[t]
    PROVE  /\ t_iplhigh_count[t] = t_curspl[t]
           /\ t_curspl[t] = 1 <=> RaisedTo(s, Len(s) - 1) \/ Raised(Top(t))
           /\ t_in_interrupt[t] = 1 <=> HandlingTo(s, Len(s) - 1) \/ Handling(Top(t))
           /\ tm_badfaultfunc[t] <=> CopyingTo(s, Len(s) - 1) \/ Copying(Top(t))
           /\ Top(t).at \in Open \cup {"switched"} \/ Top(t).why # "irq" => ~RaisedTo(s, Len(s) - 1)
           /\ Len(s) = 1 => ~RaisedTo(s, Len(s) - 1) /\ ~HandlingTo(s, Len(s) - 1) /\ ~CopyingTo(s, Len(s) - 1)
  <1>1. s \in Stack /\ Len(s) \in Nat /\ Len(s) > 0 /\ Levels(t) /\ StackFits(s) /\ Top(t) = s[Len(s)]
    BY InKernel, Zenon
  <1>2. /\ RaisedTo(s, Len(s)) <=> RaisedTo(s, Len(s) - 1) \/ Raised(Top(t))
        /\ HandlingTo(s, Len(s)) <=> HandlingTo(s, Len(s) - 1) \/ Handling(Top(t))
        /\ CopyingTo(s, Len(s)) <=> CopyingTo(s, Len(s) - 1) \/ Copying(Top(t))
    <2>1. /\ RaisedTo(s, Len(s)) <=> RaisedTo(s, Len(s) - 1) \/ Raised(s[Len(s)])
          /\ HandlingTo(s, Len(s)) <=> HandlingTo(s, Len(s) - 1) \/ Handling(s[Len(s)])
          /\ CopyingTo(s, Len(s)) <=> CopyingTo(s, Len(s) - 1) \/ Copying(s[Len(s)])
      BY <1>1, ToStep, Zenon
    <2> QED BY <2>1, <1>1, Zenon
  <1>3. Top(t).at \in Open \cup {"switched"} \/ Top(t).why # "irq" => ~RaisedTo(s, Len(s) - 1)
    BY <1>1, BelowOpen, Zenon
  <1>4. Len(s) = 1 => Len(s) - 1 = 0
    OBVIOUS
  <1>5. Len(s) = 1 => ~RaisedTo(s, Len(s) - 1) /\ ~HandlingTo(s, Len(s) - 1) /\ ~CopyingTo(s, Len(s) - 1)
    BY <1>1, <1>4, ToStep, Zenon
  <1> QED BY <1>1, <1>2, <1>3, <1>5, Zenon DEF Levels

LEMMA AccountSame ==
    ASSUME NEW s \in Stack, NEW r \in Stack, NEW m, NEW done, Account(s, m, done), s # <<>>, r # <<>>, r[1].why = s[1].why,
           r[1].why = "sys" => (r[1].at \in {"done", "return"} <=> s[1].at \in {"done", "return"})
    PROVE  Account(r, m, done)
  BY Zenon DEF Account

\* The handler on top goes on.
LEMMA RetopStep ==
    ASSUME TrapInv, NEW c \in TCpu, ~usermode[c], NEW t, t = curthread[c], NEW f \in FrameRec, frames' = SetTop(t, f),
           FrameFits(f), f.why = Top(t).why, f.user = Top(t).user,
           Len(frames[t]) > 1 => OnTop(frames[t][Len(frames[t]) - 1], f), PutAside(frames[t], Len(frames[t]) - 1, f)
    PROVE  /\ frames' \in [TThread -> Stack] /\ SameBut(t)
           /\ StackFits(frames'[t]) /\ frames'[t] # <<>> /\ frames'[t][Len(frames'[t])] = f
           /\ RaisedTo(frames'[t], Len(frames'[t])) <=> RaisedTo(frames[t], Len(frames[t]) - 1) \/ Raised(f)
           /\ HandlingTo(frames'[t], Len(frames'[t])) <=> HandlingTo(frames[t], Len(frames[t]) - 1) \/ Handling(f)
           /\ CopyingTo(frames'[t], Len(frames'[t])) <=> CopyingTo(frames[t], Len(frames[t]) - 1) \/ Copying(f)
           /\ (f.at \in {"done", "return"} <=> Top(t).at \in {"done", "return"}) => Account(frames'[t], made[t], t_pc[t])
           /\ Len(frames[t]) > 1 => Account(frames'[t], made[t], t_pc[t])
           /\ f.why # "sys" => Account(frames'[t], made[t], t_pc[t])
           /\ Len(frames[t]) = 1 => frames'[t][1] = f
  <1> DEFINE s == frames[t]
             r == frames'[t]
  <1>1. /\ t \in TThread /\ s \in Stack /\ s # <<>> /\ Len(s) \in Nat /\ Len(s) > 0
        /\ Levels(t) /\ StackFits(s) /\ Top(t) = s[Len(s)]
    BY InKernel, Zenon
  <1>2. frames' \in [TThread -> Stack] /\ Retopped(s, f, r) /\ SameBut(t)
    BY <1>1, SetTopIs, Zenon DEF TrapInv
  <1>3. r \in Stack /\ Len(r) = Len(s) /\ r[Len(s)] = f
    BY <1>2, Zenon DEF Retopped
  <1> HIDE DEF s, r
  <1>4. r # <<>>
    BY <1>1, <1>3, StackLen
  <1>5. /\ StackFits(r)
        /\ RaisedTo(r, Len(r)) <=> RaisedTo(s, Len(s) - 1) \/ Raised(f)
        /\ HandlingTo(r, Len(r)) <=> HandlingTo(s, Len(s) - 1) \/ Handling(f)
        /\ CopyingTo(r, Len(r)) <=> CopyingTo(s, Len(s) - 1) \/ Copying(f)
        /\ Len(s) > 1 => r[1] = s[1]
        /\ Len(s) = 1 => r[1] = f
    <2>1. /\ f.why = s[Len(s)].why /\ f.user = s[Len(s)].user
          /\ Len(s) > 1 => OnTop(s[Len(s) - 1], f)
          /\ PutAside(s, Len(s) - 1, f)
      BY <1>1, Zenon DEF s
    <2> QED BY <2>1, <1>1, <1>2, RetopFits, Zenon
  <1>6. Account(s, made[t], t_pc[t])
    BY <1>1, Zenon DEF Levels, s
  <1>7. (Len(s) = 1 \/ Len(s) > 1) /\ (Len(s) = 1 => s[1] = Top(t))
    <2>1. \A n \in Nat : n > 0 => n = 1 \/ n > 1
      OBVIOUS
    <2> QED BY <2>1, <1>1, Zenon
  <1>8. /\ (f.at \in {"done", "return"} <=> Top(t).at \in {"done", "return"}) => Account(r, made[t], t_pc[t])
        /\ Len(s) > 1 => Account(r, made[t], t_pc[t])
        /\ f.why # "sys" => Account(r, made[t], t_pc[t])
    <2>1. r[1].why = s[1].why
      BY <1>5, <1>7, Zenon
    <2>2. ASSUME Len(s) > 1 PROVE Account(r, made[t], t_pc[t])
      BY <2>1, <2>2, <1>1, <1>3, <1>4, <1>5, <1>6, AccountSame, Zenon
    <2>3. ASSUME Len(s) = 1, f.at \in {"done", "return"} <=> Top(t).at \in {"done", "return"} PROVE Account(r, made[t], t_pc[t])
      <3>1. r[1].at \in {"done", "return"} <=> s[1].at \in {"done", "return"}
        BY <2>3, <1>5, <1>7, Zenon
      <3> QED BY <3>1, <2>1, <1>1, <1>3, <1>4, <1>6, AccountSame, Zenon
    <2>4. ASSUME Len(s) = 1, f.why # "sys" PROVE Account(r, made[t], t_pc[t])
      <3>1. r[1].why # "sys"
        BY <2>4, <1>5, Zenon
      <3> QED BY <3>1, <2>1, <1>1, <1>3, <1>4, <1>6, AccountSame, Zenon
    <2> QED BY <2>2, <2>3, <2>4, <1>7, Zenon
  <1> QED BY <1>2, <1>3, <1>4, <1>5, <1>8, Zenon DEF s, r

-----------------------------------------------------------------------------
(* The steps of a handler *)

LevelsAlone(t) ==
    \A u \in TThread : u # t =>
        /\ t_curspl'[u] = t_curspl[u] /\ t_iplhigh_count'[u] = t_iplhigh_count[u]
        /\ t_in_interrupt'[u] = t_in_interrupt[u] /\ tm_badfaultfunc'[u] = tm_badfaultfunc[u]
        /\ t_pc'[u] = t_pc[u] /\ made'[u] = made[u]

LEMMA Goes ==
    ASSUME TrapInv, NEW c \in TCpu, ~usermode[c], NEW t, t = curthread[c], NEW f \in FrameRec, frames' = SetTop(t, f),
           FrameFits(f), f.why = Top(t).why, f.user = Top(t).user,
           Len(frames[t]) > 1 => OnTop(frames[t][Len(frames[t]) - 1], f), PutAside(frames[t], Len(frames[t]) - 1, f),
           curthread' = curthread, OtherCpus(c), LevelsAlone(t), frames' \in [TThread -> Stack] => TrapTypes',
           t_iplhigh_count'[t] = t_curspl'[t],
           t_curspl'[t] = 1 <=> RaisedTo(frames[t], Len(frames[t]) - 1) \/ Raised(f),
           t_in_interrupt'[t] = 1 <=> HandlingTo(frames[t], Len(frames[t]) - 1) \/ Handling(f),
           tm_badfaultfunc'[t] <=> CopyingTo(frames[t], Len(frames[t]) - 1) \/ Copying(f),
           \/ /\ made'[t] = made[t] /\ t_pc'[t] = t_pc[t]
              /\ f.why # "sys" \/ (f.at \in {"done", "return"} <=> Top(t).at \in {"done", "return"})
           \/ Len(frames[t]) = 1 /\ f.why = "sys" /\ f.at = "done" /\ made'[t] = 0..(t_pc'[t] - 1),
           ~usermode'[c], irqon'[c] => f.at \in Open \cup {"switched"}, f.at \in Open => irqon'[c], trappanic' = "no"
    PROVE  TrapInv'
  <1>1. /\ frames' \in [TThread -> Stack] /\ SameBut(t)
        /\ StackFits(frames'[t]) /\ frames'[t] # <<>> /\ frames'[t][Len(frames'[t])] = f
        /\ RaisedTo(frames'[t], Len(frames'[t])) <=> RaisedTo(frames[t], Len(frames[t]) - 1) \/ Raised(f)
        /\ HandlingTo(frames'[t], Len(frames'[t])) <=> HandlingTo(frames[t], Len(frames[t]) - 1) \/ Handling(f)
        /\ CopyingTo(frames'[t], Len(frames'[t])) <=> CopyingTo(frames[t], Len(frames[t]) - 1) \/ Copying(f)
        /\ (f.at \in {"done", "return"} <=> Top(t).at \in {"done", "return"}) => Account(frames'[t], made[t], t_pc[t])
        /\ f.why # "sys" => Account(frames'[t], made[t], t_pc[t])
        /\ Len(frames[t]) = 1 => frames'[t][1] = f
    BY RetopStep
  <1>2. TrapTypes' /\ curthread'[c] = t
    BY <1>1, Zenon
  <1>3. Account(frames'[t], made'[t], t_pc'[t])
    <2>1. CASE /\ made'[t] = made[t] /\ t_pc'[t] = t_pc[t]
               /\ f.why # "sys" \/ (f.at \in {"done", "return"} <=> Top(t).at \in {"done", "return"})
      BY <2>1, <1>1, Zenon
    <2>2. CASE Len(frames[t]) = 1 /\ f.why = "sys" /\ f.at = "done" /\ made'[t] = 0..(t_pc'[t] - 1)
      <3>1. frames'[t][1] = f /\ frames'[t] # <<>>
        BY <2>2, <1>1, Zenon
      <3> QED BY <3>1, <2>2, Zenon DEF Account
    <2> QED BY <2>1, <2>2
  <1>4. Levels(curthread[c])'
    BY <1>1, <1>2, <1>3, Zenon DEF Levels
  <1>5. Alone(curthread[c])
    BY <1>1, Zenon DEF Alone, LevelsAlone, SameBut
  <1>6. CpuFits(c)'
    <2>1. Top(curthread[c])' = f
      BY <1>1, <1>2, Zenon DEF Top
    <2> QED BY <2>1, <1>1, <1>2, Zenon DEF CpuFits
  <1>7. TrapPanics'
    BY DEF TrapPanics
  <1> QED BY <1>2, <1>4, <1>5, <1>6, <1>7, LocalStep, Zenon

\* The innermost handler of a CPU in the kernel, for the steps below.
LEMMA Handler ==
    ASSUME TrapInv, NEW c \in TCpu, NEW a, In(c, a), NEW t, t = curthread[c]
    PROVE  LET s == frames[t]
               f == Top(t)
           IN
           /\ ~usermode[c] /\ trappanic = "no" /\ f.at = a
           /\ t \in TThread /\ s \in Stack /\ s # <<>> /\ Len(s) \in Nat /\ Len(s) > 0 /\ Len(s) - 1 \in Nat
           /\ StackFits(s) /\ f = s[Len(s)]
           /\ f \in FrameRec /\ FrameFits(f) /\ PutAside(s, Len(s) - 1, f)
           /\ irqon[c] \in BOOLEAN /\ t_curspl[t] \in {0, 1} /\ t_in_interrupt[t] \in {0, 1}
           /\ tm_badfaultfunc[t] \in BOOLEAN /\ t_pc[t] \in Nat
           /\ irqon[c] => a \in Open \cup {"switched"}
           /\ a \in Open => irqon[c]
           /\ Len(s) = 1 => FirstFits(f)
           /\ Len(s) > 1 => OnTop(s[Len(s) - 1], f)
           /\ a \in {"body", "copy", "copyfail", "touch", "run", "start"} => Len(s) = 1
           /\ Account(s, made[t], t_pc[t])
           /\ Len(s) = 1 \/ Len(s) > 1
  <1> DEFINE s == frames[t]
             f == Top(t)
  <1>1. ~usermode[c] /\ trappanic = "no" /\ f.at = a
    BY Zenon DEF In
  <1>2. /\ t \in TThread /\ s \in Stack /\ s # <<>> /\ Len(s) \in Nat /\ Len(s) > 0 /\ Len(s) - 1 \in Nat
        /\ Levels(t) /\ StackFits(s) /\ f = s[Len(s)]
        /\ f \in FrameRec /\ FrameFits(f) /\ PutAside(s, Len(s) - 1, f)
        /\ irqon[c] \in BOOLEAN /\ t_curspl[t] \in {0, 1} /\ t_in_interrupt[t] \in {0, 1}
        /\ tm_badfaultfunc[t] \in BOOLEAN /\ t_pc[t] \in Nat
        /\ irqon[c] => f.at \in Open \cup {"switched"}
        /\ f.at \in Open => irqon[c]
    BY <1>1, InKernel, Zenon
  <1>3. /\ Len(s) = 1 => FirstFits(f)
        /\ Len(s) > 1 => OnTop(s[Len(s) - 1], f)
        /\ a \in {"body", "copy", "copyfail", "touch", "run", "start"} => Len(s) = 1
    BY <1>1, <1>2, TopIs, Zenon
  <1>4. Len(s) = 1 \/ Len(s) > 1
    <2>1. \A n \in Nat : n > 0 => n = 1 \/ n > 1
      OBVIOUS
    <2> QED BY <2>1, <1>2, Zenon
  <1>5. Account(s, made[t], t_pc[t])
    BY <1>2, Zenon DEF Levels
  <1> QED BY <1>1, <1>2, <1>3, <1>4, <1>5, Zenon

LEMMA IrqBeginsInv == ASSUME TrapInv, NEW c \in TCpu, IrqBegins(c) PROVE TrapInv'
  <1>0. PICK t \in TThread : t = curthread[c]
    BY DEF TrapInv, TrapTypes
  <1> DEFINE s == frames[t]
             f == Top(t)
             adjust == t_curspl[t] = 0
             g == [f EXCEPT !.at = "handler", !.adjust = adjust, !.old = t_in_interrupt[t]]
  <1>1. /\ In(c, "entry") /\ f.why = "irq" /\ frames' = SetTop(t, g)
        /\ t_in_interrupt' = [t_in_interrupt EXCEPT ![t] = 1]
        /\ t_curspl' = [t_curspl EXCEPT ![t] = 1]
        /\ t_iplhigh_count' = [t_iplhigh_count EXCEPT ![t] = IF adjust THEN @ + 1 ELSE @]
        /\ trappanic' = IF adjust /\ t_iplhigh_count[t] # 0 THEN "assertion" ELSE trappanic
        /\ UNCHANGED <<curthread, irqon, usermode, cpuArrays, tm_badfaultfunc, progress, traps>>
    BY <1>0, Zenon DEF IrqBegins
  <1>2. /\ ~usermode[c] /\ trappanic = "no" /\ f.at = "entry" /\ f \in FrameRec /\ FrameFits(f)
        /\ t_curspl[t] \in {0, 1} /\ t_in_interrupt[t] \in {0, 1} /\ (irqon[c] => "entry" \in Open \cup {"switched"})
        /\ Len(s) > 1 => OnTop(s[Len(s) - 1], f)
    BY <1>0, <1>1, Handler, Zenon
  <1>3. /\ t_iplhigh_count[t] = t_curspl[t]
        /\ t_curspl[t] = 1 <=> RaisedTo(s, Len(s) - 1) \/ Raised(f)
        /\ t_in_interrupt[t] = 1 <=> HandlingTo(s, Len(s) - 1) \/ Handling(f)
        /\ tm_badfaultfunc[t] <=> CopyingTo(s, Len(s) - 1) \/ Copying(f)
    BY <1>0, <1>2, Apart, Zenon
  <1>4. ~Raised(f) /\ ~Handling(f) /\ ~Copying(f)
    BY <1>2 DEF Raised, Handling, Copying
  <1>5. /\ g \in FrameRec /\ g.at = "handler" /\ g.why = "irq" /\ g.user = f.user /\ g.ie = f.ie
        /\ g.adjust = adjust /\ g.old = t_in_interrupt[t]
    BY <1>1, <1>2 DEF FrameRec
  <1>6. f.ie
    BY <1>1, <1>2, KindFits
  <1> HIDE DEF g, f, s
  <1>7. FrameFits(g) /\ Raised(g) /\ Handling(g) /\ ~Copying(g)
    BY <1>5, <1>6, Zenon DEF FrameFits, Raised, Handling, Copying
  <1>8. Len(s) > 1 => OnTop(s[Len(s) - 1], g)
    BY <1>1, <1>2, <1>5, Zenon DEF OnTop
  <1>9. PutAside(s, Len(s) - 1, g)
    <2>1. adjust <=> ~(t_curspl[t] = 1)
      BY <1>2
    <2> QED BY <2>1, <1>3, <1>4, <1>5, Zenon DEF PutAside
  <1>10. /\ curthread' = curthread /\ OtherCpus(c) /\ LevelsAlone(t) /\ tm_badfaultfunc'[t] = tm_badfaultfunc[t]
         /\ made'[t] = made[t] /\ t_pc'[t] = t_pc[t] /\ usermode'[c] = usermode[c] /\ irqon'[c] = irqon[c]
    BY <1>0, <1>1 DEF OtherCpus, LevelsAlone, TrapInv, TrapTypes, cpuArrays, progress
  <1>11. frames' \in [TThread -> Stack] => TrapTypes'
    <2>1. t_iplhigh_count' = [t_iplhigh_count EXCEPT ![t] = 1]
      <3>1. t_iplhigh_count[t] = t_curspl[t]
        BY <1>3
      <3>2. (IF adjust THEN t_iplhigh_count[t] + 1 ELSE t_iplhigh_count[t]) = 1
        BY <3>1, <1>2
      <3> QED BY <3>2, <1>1, Zenon
    <2> QED BY <1>0, <1>1, <2>1 DEF TrapInv, TrapTypes, cpuArrays, progress
  <1>12. t_in_interrupt'[t] = 1 /\ t_curspl'[t] = 1 /\ t_iplhigh_count'[t] = 1
    BY <1>0, <1>1, <1>2, <1>3 DEF TrapInv, TrapTypes
  <1>13. trappanic' = "no"
    BY <1>1, <1>2, <1>3
  <1>14. ~irqon'[c] /\ g.at \notin Open
    BY <1>2, <1>5, <1>10 DEF Open
  <1>15. g.why = Top(t).why /\ g.user = Top(t).user
    BY <1>1, <1>5, Zenon DEF f
  <1>16. /\ t_curspl'[t] = 1 <=> RaisedTo(s, Len(s) - 1) \/ Raised(g)
         /\ t_in_interrupt'[t] = 1 <=> HandlingTo(s, Len(s) - 1) \/ Handling(g)
         /\ tm_badfaultfunc'[t] <=> CopyingTo(s, Len(s) - 1) \/ Copying(g)
    BY <1>3, <1>4, <1>7, <1>10, <1>12, Zenon
  <1>17. g.why # "sys"
    BY <1>5
  <1> HIDE DEF adjust
  <1> QED BY <1>0, <1>1, <1>2, <1>5, <1>7, <1>8, <1>9, <1>10, <1>11, <1>12, <1>13, <1>14, <1>15, <1>16, <1>17, Goes DEF s

LEMMA IrqEndsInv == ASSUME TrapInv, NEW c \in TCpu, IrqEnds(c) PROVE TrapInv'
  <1>0. PICK t \in TThread : t = curthread[c]
    BY DEF TrapInv, TrapTypes
  <1> DEFINE s == frames[t]
             f == Top(t)
             g == [f EXCEPT !.at = "return"]
  <1>1. /\ In(c, "handler") /\ frames' = SetTop(t, g)
        /\ t_in_interrupt' = [t_in_interrupt EXCEPT ![t] = f.old]
        /\ t_curspl' = [t_curspl EXCEPT ![t] = IF f.adjust THEN 0 ELSE @]
        /\ t_iplhigh_count' = [t_iplhigh_count EXCEPT ![t] = IF f.adjust THEN @ - 1 ELSE @]
        /\ trappanic' = IF f.adjust /\ (t_curspl[t] # 1 \/ t_iplhigh_count[t] # 1) THEN "assertion" ELSE trappanic
        /\ UNCHANGED <<curthread, irqon, usermode, cpuArrays, tm_badfaultfunc, progress, traps>>
    BY <1>0, Zenon DEF IrqEnds, GoTo
  <1>2. /\ ~usermode[c] /\ trappanic = "no" /\ f.at = "handler" /\ f \in FrameRec /\ FrameFits(f)
        /\ t_curspl[t] \in {0, 1} /\ t_in_interrupt[t] \in {0, 1} /\ (irqon[c] => "handler" \in Open \cup {"switched"})
        /\ Len(s) > 1 => OnTop(s[Len(s) - 1], f)
        /\ PutAside(s, Len(s) - 1, f)
    BY <1>0, <1>1, Handler
  <1>3. /\ t_iplhigh_count[t] = t_curspl[t]
        /\ t_curspl[t] = 1 <=> RaisedTo(s, Len(s) - 1) \/ Raised(f)
        /\ t_in_interrupt[t] = 1 <=> HandlingTo(s, Len(s) - 1) \/ Handling(f)
        /\ tm_badfaultfunc[t] <=> CopyingTo(s, Len(s) - 1) \/ Copying(f)
    BY <1>0, <1>2, Apart, Zenon
  <1>a. f.why = "irq" /\ f.ie /\ f.old \in {0, 1} /\ f.adjust \in BOOLEAN
    <2>1. f.why = "irq"
      BY <1>2, KindFits
    <2>2. f.ie
      BY <2>1, <1>2, KindFits
    <2> QED BY <2>1, <2>2, <1>2 DEF FrameRec
  <1>4. Raised(f) /\ Handling(f) /\ ~Copying(f)
    BY <1>2, <1>a DEF Raised, Handling, Copying
  <1>5. g \in FrameRec /\ g.at = "return" /\ g.why = "irq" /\ g.user = f.user /\ g.ie = f.ie
    <2>1. "return" \in HandlerPlaces
      BY DEF HandlerPlaces
    <2>2. g \in FrameRec /\ g.at = "return" /\ g.why = f.why /\ g.user = f.user /\ g.ie = f.ie
      BY <2>1, <1>2, AtIs
    <2> QED BY <2>2, <1>a
  <1> HIDE DEF g, f, s
  <1>7. FrameFits(g) /\ ~Raised(g) /\ ~Handling(g) /\ ~Copying(g)
    BY <1>5, <1>a, Zenon DEF FrameFits, Raised, Handling, Copying
  <1>8. Len(s) > 1 => OnTop(s[Len(s) - 1], g)
    BY <1>a, <1>2, <1>5, Zenon DEF OnTop
  <1>9. PutAside(s, Len(s) - 1, g)
    BY <1>7, Zenon DEF PutAside
  <1>b. (f.adjust <=> ~RaisedTo(s, Len(s) - 1)) /\ (f.old = 1 <=> HandlingTo(s, Len(s) - 1)) /\ t_curspl[t] = 1
    BY <1>2, <1>3, <1>4, Zenon DEF PutAside
  <1>10. /\ curthread' = curthread /\ OtherCpus(c) /\ LevelsAlone(t) /\ tm_badfaultfunc'[t] = tm_badfaultfunc[t]
         /\ made'[t] = made[t] /\ t_pc'[t] = t_pc[t] /\ usermode'[c] = usermode[c] /\ irqon'[c] = irqon[c]
    BY <1>0, <1>1 DEF OtherCpus, LevelsAlone, TrapInv, TrapTypes, cpuArrays, progress
  <1>c. t_iplhigh_count[t] = 1
    BY <1>3, <1>b
  <1>d. (IF f.adjust THEN t_iplhigh_count[t] - 1 ELSE t_iplhigh_count[t]) = (IF f.adjust THEN 0 ELSE 1)
    BY <1>c
  <1>e. (IF f.adjust THEN 0 ELSE t_curspl[t]) = (IF f.adjust THEN 0 ELSE 1)
    BY <1>b
  <1>11. frames' \in [TThread -> Stack] => TrapTypes'
    <2>1. /\ t_iplhigh_count' = [t_iplhigh_count EXCEPT ![t] = IF f.adjust THEN 0 ELSE 1]
          /\ t_curspl' = [t_curspl EXCEPT ![t] = IF f.adjust THEN 0 ELSE 1]
      BY <1>d, <1>e, <1>1, Zenon
    <2>2. (IF f.adjust THEN 0 ELSE 1) \in {0, 1} /\ f.old \in {0, 1}
      BY <1>a
    <2>3. t_iplhigh_count' \in [TThread -> {0, 1}] /\ t_curspl' \in [TThread -> {0, 1}] /\ t_in_interrupt' \in [TThread -> {0, 1}]
      BY <2>1, <2>2, <1>1, Zenon DEF TrapInv, TrapTypes
    <2> QED BY <1>1, <2>3, Zenon DEF TrapInv, TrapTypes, cpuArrays, progress
  <1>12. t_in_interrupt'[t] = f.old /\ t_curspl'[t] = (IF f.adjust THEN 0 ELSE 1) /\ t_iplhigh_count'[t] = (IF f.adjust THEN 0 ELSE 1)
    BY <1>0, <1>1, <1>d, <1>e, Zenon DEF TrapInv, TrapTypes
  <1>13. trappanic' = "no"
    BY <1>1, <1>2, <1>b, <1>c
  <1>14. ~irqon'[c] /\ g.at \notin Open
    BY <1>2, <1>5, <1>10 DEF Open
  <1>15. g.why = Top(t).why /\ g.user = Top(t).user
    BY <1>a, <1>5, Zenon DEF f
  <1>16. /\ t_curspl'[t] = 1 <=> RaisedTo(s, Len(s) - 1) \/ Raised(g)
         /\ t_in_interrupt'[t] = 1 <=> HandlingTo(s, Len(s) - 1) \/ Handling(g)
         /\ tm_badfaultfunc'[t] <=> CopyingTo(s, Len(s) - 1) \/ Copying(g)
    <2>1. t_curspl'[t] = 1 <=> ~f.adjust
      BY <1>12, <1>a
    <2> QED BY <2>1, <1>3, <1>4, <1>7, <1>10, <1>12, <1>b, Zenon
  <1>17. g.why # "sys" /\ t_iplhigh_count'[t] = t_curspl'[t]
    BY <1>5, <1>12
  <1> QED BY <1>0, <1>1, <1>2, <1>5, <1>7, <1>8, <1>9, <1>10, <1>11, <1>13, <1>14, <1>15, <1>16, <1>17, Goes DEF s

\* The steps that change nothing of the levels.
LEMMA CalmGoes ==
    ASSUME TrapInv, NEW c \in TCpu, NEW a, In(c, a), NEW t \in TThread, t = curthread[c], NEW b \in HandlerPlaces, GoTo(t, b),
           a \in {"entry", "body", "copy", "copyfail", "touch", "vm_fault", "done"}, Top(t).why # "irq",
           b \in {"body", "copy", "copyfail", "touch", "vm_fault", "done", "return"}, FrameFits([Top(t) EXCEPT !.at = b]),
           Len(frames[t]) > 1 => b \in {"vm_fault", "done", "return"} /\ (b = "vm_fault" => a = "entry"),
           curthread' = curthread, irqon' = [irqon EXCEPT ![c] = b # "return"],
           UNCHANGED <<usermode, cpuArrays, splVars, t_in_interrupt>>,
           tm_badfaultfunc' = [tm_badfaultfunc EXCEPT ![t] = b \in {"copy", "copyfail"} \/ (@ /\ Len(frames[t]) > 1)],
           \/ UNCHANGED progress /\ (Top(t).why # "sys" \/ (b \in {"done", "return"} <=> a \in {"done", "return"}))
           \/ /\ t_pc' = [t_pc EXCEPT ![t] = @ + 1] /\ made' = made
              /\ a = "body" /\ b = "done",
           trappanic' = "no"
    PROVE  TrapInv'
  <1> DEFINE s == frames[t]
             f == Top(t)
             g == [f EXCEPT !.at = b]
  <1>1. frames' = SetTop(t, g)
    BY Zenon DEF GoTo
  <1>2. /\ ~usermode[c] /\ trappanic = "no" /\ f.at = a /\ f \in FrameRec /\ FrameFits(f) /\ s \in Stack
        /\ Len(s) > 1 => OnTop(s[Len(s) - 1], f)
        /\ Len(s) = 1 \/ Len(s) > 1
        /\ Account(s, made[t], t_pc[t]) /\ s # <<>> /\ f = s[Len(s)] /\ t_pc[t] \in Nat
        /\ a \in {"body", "copy", "copyfail", "touch", "run", "start"} => Len(s) = 1
    BY Handler
  <1>3. /\ t_iplhigh_count[t] = t_curspl[t]
        /\ t_curspl[t] = 1 <=> RaisedTo(s, Len(s) - 1) \/ Raised(f)
        /\ t_in_interrupt[t] = 1 <=> HandlingTo(s, Len(s) - 1) \/ Handling(f)
        /\ tm_badfaultfunc[t] <=> CopyingTo(s, Len(s) - 1) \/ Copying(f)
        /\ Top(t).why # "irq" => ~RaisedTo(s, Len(s) - 1)
        /\ Len(s) = 1 => ~RaisedTo(s, Len(s) - 1) /\ ~HandlingTo(s, Len(s) - 1) /\ ~CopyingTo(s, Len(s) - 1)
    BY <1>2, Apart, Zenon
  <1>5. g \in FrameRec /\ g.at = b /\ g.why = f.why /\ g.user = f.user /\ g.ie = f.ie
    BY <1>2, AtIs
  <1>6. FrameFits(g)
    BY Zenon
  <1> HIDE DEF g, f
  <1>4. ~Raised(f) /\ ~Handling(f) /\ ~Raised(g) /\ ~Handling(g) /\ (Copying(g) <=> b \in {"copy", "copyfail"})
    BY <1>2, <1>5 DEF Raised, Handling, Copying, f
  <1>7. Len(s) > 1 => ~Copying(f) /\ ~Copying(g)
    <2>1. Len(s) > 1 => b \in {"vm_fault", "done", "return"}
      OBVIOUS
    <2>2. Len(s) > 1 => a \notin {"copy", "copyfail"}
      <3>1. ASSUME Len(s) = 1 PROVE ~(Len(s) > 1)
        BY <3>1
      <3> QED BY <3>1, <1>2, Zenon
    <2> QED BY <2>1, <2>2, <1>2, <1>5, Zenon DEF Copying
  <1>8. Len(s) > 1 => OnTop(s[Len(s) - 1], g)
    <2>1. Len(s) > 1 => b \in {"vm_fault", "done", "return"} /\ (b = "vm_fault" => a = "entry")
      OBVIOUS
    <2>2. f.why # "irq"
      BY DEF f
    <2>3. Len(s) > 1 => OnTop(s[Len(s) - 1], f)
      BY <1>2
    <2> HIDE DEF s
    <2> QED BY <2>1, <2>2, <2>3, <1>2, <1>5, Zenon DEF OnTop
  <1>9. PutAside(s, Len(s) - 1, g)
    BY <1>4, Zenon DEF PutAside
  <1>10. /\ OtherCpus(c) /\ LevelsAlone(t) /\ ~usermode'[c] /\ irqon'[c] = (b # "return")
         /\ t_curspl' = t_curspl /\ t_iplhigh_count' = t_iplhigh_count /\ t_in_interrupt' = t_in_interrupt
         /\ tm_badfaultfunc'[t] = (b \in {"copy", "copyfail"} \/ (tm_badfaultfunc[t] /\ Len(s) > 1))
    BY <1>2 DEF OtherCpus, LevelsAlone, TrapInv, TrapTypes, cpuArrays, progress, splVars
  <1>11. frames' \in [TThread -> Stack] => TrapTypes'
    <2>1. irqon' \in [TCpu -> BOOLEAN] /\ tm_badfaultfunc' \in [TThread -> BOOLEAN]
      <3>1. (b # "return") \in BOOLEAN /\ (b \in {"copy", "copyfail"} \/ (tm_badfaultfunc[t] /\ Len(s) > 1)) \in BOOLEAN
        OBVIOUS
      <3> QED BY <3>1, Zenon DEF TrapInv, TrapTypes
    <2>2. t_pc' \in [TThread -> Nat] /\ made' \in [TThread -> SUBSET Nat]
      BY <1>2 DEF TrapInv, TrapTypes, progress
    <2> QED BY <2>1, <2>2, Zenon DEF TrapInv, TrapTypes, cpuArrays, splVars
  <1>12. tm_badfaultfunc'[t] <=> CopyingTo(s, Len(s) - 1) \/ Copying(g)
    <2>1. Len(s) = 1 => ~(Len(s) > 1)
      OBVIOUS
    <2> HIDE DEF s
    <2> QED BY <2>1, <1>2, <1>3, <1>4, <1>7, <1>10, Zenon
  <1>13. /\ irqon'[c] => g.at \in Open \cup {"switched"}
         /\ g.at \in Open => irqon'[c]
    BY <1>5, <1>10 DEF Open
  <1>14. \/ /\ made'[t] = made[t] /\ t_pc'[t] = t_pc[t]
            /\ g.why # "sys" \/ (g.at \in {"done", "return"} <=> Top(t).at \in {"done", "return"})
         \/ Len(frames[t]) = 1 /\ g.why = "sys" /\ g.at = "done" /\ made'[t] = 0..(t_pc'[t] - 1)
    <2>1. CASE UNCHANGED progress /\ (Top(t).why # "sys" \/ (b \in {"done", "return"} <=> a \in {"done", "return"}))
      BY <2>1, <1>2, <1>5, Zenon DEF f, progress
    <2>2. CASE t_pc' = [t_pc EXCEPT ![t] = @ + 1] /\ made' = made /\ a = "body" /\ b = "done"
      <3>1. Len(s) = 1 /\ f.why = "sys"
        <4>1. f.why = "sys"
          BY <1>2, <2>2, KindFits
        <4> QED BY <4>1, <1>2, <2>2
      <3>2. s[1] = f
        BY <3>1, <1>2, Zenon
      <3>3. made[t] = 0..t_pc[t]
        BY <3>1, <3>2, <1>2, <2>2, Zenon DEF Account
      <3>4. t_pc'[t] - 1 = t_pc[t]
        BY <2>2, <1>2 DEF TrapInv, TrapTypes
      <3> QED BY <3>1, <3>3, <3>4, <2>2, <1>5, Zenon
    <2> QED BY <2>1, <2>2
  <1>15. g.why = Top(t).why /\ g.user = Top(t).user
    BY <1>5, Zenon DEF f
  <1>16. /\ t_curspl'[t] = 1 <=> RaisedTo(s, Len(s) - 1) \/ Raised(g)
         /\ t_in_interrupt'[t] = 1 <=> HandlingTo(s, Len(s) - 1) \/ Handling(g)
         /\ t_iplhigh_count'[t] = t_curspl'[t]
    BY <1>3, <1>4, <1>10, Zenon
  <1> QED BY <1>1, <1>2, <1>5, <1>6, <1>8, <1>9, <1>10, <1>11, <1>12, <1>13, <1>14, <1>15, <1>16, Goes

LEMMA SameExcept == ASSUME NEW S, NEW T, NEW F \in [S -> T], NEW x \in S PROVE F = [F EXCEPT ![x] = F[x]]
  OBVIOUS

LEMMA Calm ==
    ASSUME TrapInv, NEW c \in TCpu, NEW a, In(c, a), NEW t \in TThread, t = curthread[c]
    PROVE  /\ a \in {"entry", "body", "touch", "vm_fault", "done"} =>
                \A b \in {"body", "touch", "vm_fault", "done", "return"} :
                    tm_badfaultfunc = [tm_badfaultfunc EXCEPT ![t] = b \in {"copy", "copyfail"} \/ (@ /\ Len(frames[t]) > 1)]
           /\ a \in Open => irqon = [irqon EXCEPT ![c] = TRUE]
           /\ a \in Open \/ (a = "entry" /\ Top(t).why # "irq") => t_curspl[t] = 0 /\ t_iplhigh_count[t] = 0
  <1>1. /\ ~usermode[c] /\ Top(t).at = a /\ t_curspl[t] \in {0, 1} /\ irqon[c] \in BOOLEAN /\ (a \in Open => irqon[c])
        /\ Len(frames[t]) = 1 \/ Len(frames[t]) > 1
        /\ Top(t) \in FrameRec /\ FrameFits(Top(t))
    BY Handler
  <1>2. /\ t_iplhigh_count[t] = t_curspl[t]
        /\ t_curspl[t] = 1 <=> RaisedTo(frames[t], Len(frames[t]) - 1) \/ Raised(Top(t))
        /\ tm_badfaultfunc[t] <=> CopyingTo(frames[t], Len(frames[t]) - 1) \/ Copying(Top(t))
        /\ Top(t).at \in Open \cup {"switched"} \/ Top(t).why # "irq" => ~RaisedTo(frames[t], Len(frames[t]) - 1)
        /\ Len(frames[t]) = 1 => ~CopyingTo(frames[t], Len(frames[t]) - 1)
    BY <1>1, Apart, Zenon
  <1>3. tm_badfaultfunc \in [TThread -> BOOLEAN] /\ irqon \in [TCpu -> BOOLEAN]
    BY Zenon DEF TrapInv, TrapTypes
  <1>4. ASSUME a \in {"entry", "body", "touch", "vm_fault", "done"}, NEW b \in {"body", "touch", "vm_fault", "done", "return"}
        PROVE  tm_badfaultfunc = [tm_badfaultfunc EXCEPT ![t] = b \in {"copy", "copyfail"} \/ (@ /\ Len(frames[t]) > 1)]
    <2>1. ~Copying(Top(t)) /\ b \notin {"copy", "copyfail"}
      BY <1>1, <1>4 DEF Copying
    <2>2. tm_badfaultfunc[t] <=> b \in {"copy", "copyfail"} \/ (tm_badfaultfunc[t] /\ Len(frames[t]) > 1)
      BY <2>1, <1>1, <1>2, Zenon
    <2>3. tm_badfaultfunc[t] = (b \in {"copy", "copyfail"} \/ (tm_badfaultfunc[t] /\ Len(frames[t]) > 1))
      BY <2>2, <1>3
    <2>4. tm_badfaultfunc = [tm_badfaultfunc EXCEPT ![t] = tm_badfaultfunc[t]]
      BY <1>3, SameExcept
    <2> QED BY <2>3, <2>4, Zenon
  <1>5. a \in Open => irqon = [irqon EXCEPT ![c] = TRUE]
    <2>1. irqon = [irqon EXCEPT ![c] = irqon[c]]
      BY <1>3, SameExcept
    <2>2. a \in Open => irqon[c] = TRUE
      BY <1>1
    <2> QED BY <2>1, <2>2, Zenon
  <1>6. a \in Open \/ (a = "entry" /\ Top(t).why # "irq") => t_curspl[t] = 0 /\ t_iplhigh_count[t] = 0
    <2>1. a \in Open \/ a = "entry" => ~Raised(Top(t))
      BY <1>1 DEF Raised, Open
    <2>2. a \in Open \/ (a = "entry" /\ Top(t).why # "irq") => t_curspl[t] # 1
      BY <2>1, <1>1, <1>2, Zenon
    <2> QED BY <2>2, <1>1, <1>2
  <1> QED BY <1>4, <1>5, <1>6

\* A handler of this kind can be at that place.
LEMMA PlaceFits ==
    ASSUME NEW f \in FrameRec, FrameFits(f), NEW b,
           \/ f.why = "sys" /\ b \in {"body", "copy", "copyfail", "touch", "done", "return"}
           \/ f.why = "fault" /\ b \in {"vm_fault", "done", "return"}
    PROVE  FrameFits([f EXCEPT !.at = b]) /\ b \in HandlerPlaces
  <1>1. b \in HandlerPlaces
    BY DEF HandlerPlaces
  <1>2. f.ie
    BY KindFits
  <1> DEFINE g == [f EXCEPT !.at = b]
  <1>3. g \in FrameRec /\ g.at = b /\ g.why = f.why /\ g.ie = f.ie
    BY <1>1, AtIs
  <1> HIDE DEF g
  <1>4. FrameFits(g)
    BY <1>2, <1>3, Zenon DEF FrameFits
  <1> QED BY <1>1, <1>4 DEF g

LEMMA TrapBeginsInv == ASSUME TrapInv, NEW c \in TCpu, TrapBegins(c) PROVE TrapInv'
  <1>0. PICK t \in TThread : t = curthread[c]
    BY DEF TrapInv, TrapTypes
  <1> DEFINE b == IF Top(t).why = "sys" THEN "body" ELSE "vm_fault"
  <1>1. /\ In(c, "entry") /\ Top(t).why # "irq" /\ GoTo(t, b)
        /\ irqon' = [irqon EXCEPT ![c] = t_curspl[t] = 0]
        /\ trappanic' = IF Top(t).why = "sys" /\ (t_curspl[t] # 0 \/ t_iplhigh_count[t] # 0) THEN "assertion" ELSE trappanic
        /\ UNCHANGED <<curthread, usermode, cpuArrays, splVars, t_in_interrupt, tm_badfaultfunc, progress, traps>>
    BY <1>0, Zenon DEF TrapBegins
  <1>2. /\ trappanic = "no" /\ Top(t).at = "entry" /\ Top(t) \in FrameRec /\ FrameFits(Top(t))
        /\ Len(frames[t]) > 1 => OnTop(frames[t][Len(frames[t]) - 1], Top(t))
    BY <1>0, <1>1, Handler
  <1>3. Top(t).why \in {"sys", "fault"}
    BY <1>1, <1>2, KindFits
  <1>4. Len(frames[t]) > 1 => b = "vm_fault"
    BY <1>2, <1>3, Zenon DEF OnTop
  <1>5. t_curspl[t] = 0 /\ t_iplhigh_count[t] = 0
    BY <1>0, <1>1, Calm
  <1>6. trappanic' = "no"
    BY <1>1, <1>2, <1>5
  <1>7. b \in {"body", "vm_fault"} /\ b # "return" /\ (t_curspl[t] = 0) = (b # "return")
    BY <1>3, <1>5
  <1>8. FrameFits([Top(t) EXCEPT !.at = b]) /\ b \in HandlerPlaces
    BY <1>2, <1>3, PlaceFits
  <1> HIDE DEF b
  <1>9. irqon' = [irqon EXCEPT ![c] = b # "return"]
    BY <1>1, <1>7, Zenon
  <1>10. tm_badfaultfunc' = [tm_badfaultfunc EXCEPT ![t] = b \in {"copy", "copyfail"} \/ (@ /\ Len(frames[t]) > 1)]
    <2>1. tm_badfaultfunc = [tm_badfaultfunc EXCEPT ![t] = b \in {"copy", "copyfail"} \/ (@ /\ Len(frames[t]) > 1)]
      BY <1>0, <1>1, <1>7, Calm
    <2> QED BY <2>1, <1>1
  <1>11. b \notin {"done", "return"}
    BY <1>7
  <1> QED BY <1>0, <1>1, <1>4, <1>6, <1>7, <1>8, <1>9, <1>10, <1>11, CalmGoes

LEMMA TrapDoneInv == ASSUME TrapInv, NEW c \in TCpu, TrapDone(c) PROVE TrapInv'
  <1>0. PICK t \in TThread : t = curthread[c]
    BY DEF TrapInv, TrapTypes
  <1>1. /\ In(c, "done") /\ GoTo(t, "return") /\ irqon' = [irqon EXCEPT ![c] = FALSE]
        /\ UNCHANGED <<curthread, usermode, cpuArrays, splVars, t_in_interrupt, tm_badfaultfunc, progress, trappanic, traps>>
    BY <1>0, Zenon DEF TrapDone
  <1>2. trappanic = "no" /\ Top(t).at = "done" /\ Top(t) \in FrameRec /\ FrameFits(Top(t))
    BY <1>0, <1>1, Handler
  <1>3. Top(t).why \in {"sys", "fault"}
    BY <1>2, KindFits
  <1>4. FrameFits([Top(t) EXCEPT !.at = "return"]) /\ "return" \in HandlerPlaces
    BY <1>2, <1>3, PlaceFits
  <1>5. irqon' = [irqon EXCEPT ![c] = "return" # "return"]
    BY <1>1
  <1>6. tm_badfaultfunc' = [tm_badfaultfunc EXCEPT ![t] = "return" \in {"copy", "copyfail"} \/ (@ /\ Len(frames[t]) > 1)]
    <2>1. tm_badfaultfunc = [tm_badfaultfunc EXCEPT ![t] = "return" \in {"copy", "copyfail"} \/ (@ /\ Len(frames[t]) > 1)]
      BY <1>0, <1>1, Calm
    <2> QED BY <2>1, <1>1
  <1> QED BY <1>0, <1>1, <1>2, <1>3, <1>4, <1>5, <1>6, CalmGoes

\* The steps of a call, whose frame is the only one.
LEMMA CallGoes ==
    ASSUME TrapInv, NEW c \in TCpu, NEW a, In(c, a), NEW t \in TThread, t = curthread[c],
           a \in {"body", "copy", "copyfail", "touch"}, NEW b \in {"body", "copy", "touch", "done"}, GoTo(t, b),
           tm_badfaultfunc' = [tm_badfaultfunc EXCEPT ![t] = b = "copy"],
           UNCHANGED <<curthread, irqon, usermode, cpuArrays, splVars, t_in_interrupt, made>>,
           t_pc' = IF b = "done" THEN [t_pc EXCEPT ![t] = @ + 1] ELSE t_pc, b = "done" => a = "body", trappanic' = "no"
    PROVE  TrapInv'
  <1>1. trappanic = "no" /\ Top(t).at = a /\ Top(t) \in FrameRec /\ FrameFits(Top(t)) /\ Len(frames[t]) = 1
    BY Handler
  <1>2. Top(t).why = "sys"
    BY <1>1, KindFits
  <1>3. FrameFits([Top(t) EXCEPT !.at = b]) /\ b \in HandlerPlaces
    BY <1>1, <1>2, PlaceFits
  <1>4. irqon' = [irqon EXCEPT ![c] = b # "return"]
    <2>1. irqon = [irqon EXCEPT ![c] = TRUE]
      BY Calm DEF Open
    <2>2. (b # "return") = TRUE
      OBVIOUS
    <2> QED BY <2>1, <2>2, Zenon
  <1>5. tm_badfaultfunc' = [tm_badfaultfunc EXCEPT ![t] = b \in {"copy", "copyfail"} \/ (@ /\ Len(frames[t]) > 1)]
    <2>1. (b = "copy") = (b \in {"copy", "copyfail"} \/ (tm_badfaultfunc[t] /\ Len(frames[t]) > 1))
      <3>1. ~(Len(frames[t]) > 1)
        BY <1>1
      <3> QED BY <3>1
    <2> QED BY <2>1, Zenon
  <1>6. ~(Len(frames[t]) > 1)
    BY <1>1
  <1>7. \/ UNCHANGED progress /\ (Top(t).why # "sys" \/ (b \in {"done", "return"} <=> a \in {"done", "return"}))
        \/ t_pc' = [t_pc EXCEPT ![t] = @ + 1] /\ made' = made /\ a = "body" /\ b = "done"
    BY Zenon DEF progress
  <1>8. /\ a \in {"entry", "body", "copy", "copyfail", "touch", "vm_fault", "done"} /\ Top(t).why # "irq"
        /\ b \in {"body", "copy", "copyfail", "touch", "vm_fault", "done", "return"}
        /\ curthread' = curthread /\ UNCHANGED <<usermode, cpuArrays, splVars, t_in_interrupt>>
    BY <1>2
  <1> QED BY <1>3, <1>4, <1>5, <1>6, <1>7, <1>8, CalmGoes

LEMMA CallsInv ==
    ASSUME TrapInv, NEW c \in TCpu, CopyBegins(c) \/ CopyEnds(c) \/ Touch(c) \/ SyscallEnds(c)
    PROVE  TrapInv'
  <1>0. PICK t \in TThread : t = curthread[c]
    BY DEF TrapInv, TrapTypes
  <1>1. CASE CopyBegins(c)
    <2>1. /\ In(c, "body") /\ GoTo(t, "copy") /\ tm_badfaultfunc' = [tm_badfaultfunc EXCEPT ![t] = TRUE]
          /\ UNCHANGED <<curthread, irqon, usermode, cpuArrays, splVars, t_in_interrupt, progress, trappanic>>
      BY <1>0, <1>1, Zenon DEF CopyBegins
    <2>2. trappanic' = "no" /\ made' = made /\ t_pc' = t_pc
      BY <2>1 DEF In, progress
    <2>3. tm_badfaultfunc' = [tm_badfaultfunc EXCEPT ![t] = "copy" = "copy"]
      BY <2>1
    <2> QED BY <1>0, <2>1, <2>2, <2>3, CallGoes
  <1>2. CASE CopyEnds(c)
    <2>1. PICK a \in {"copy", "copyfail"} : In(c, a)
      BY <1>2, Zenon DEF CopyEnds
    <2>2. /\ GoTo(t, "body") /\ tm_badfaultfunc' = [tm_badfaultfunc EXCEPT ![t] = FALSE]
          /\ UNCHANGED <<curthread, irqon, usermode, cpuArrays, splVars, t_in_interrupt, progress, trappanic>>
      BY <1>0, <1>2, Zenon DEF CopyEnds
    <2>3. trappanic' = "no" /\ made' = made /\ t_pc' = t_pc
      BY <2>1, <2>2 DEF In, progress
    <2>4. tm_badfaultfunc' = [tm_badfaultfunc EXCEPT ![t] = "body" = "copy"]
      BY <2>2
    <2> QED BY <1>0, <2>1, <2>2, <2>3, <2>4, CallGoes
  <1>3. CASE Touch(c)
    <2>1. PICK a \in {"body", "touch"}, b \in {"body", "touch"} : In(c, a) /\ GoTo(t, b)
      BY <1>0, <1>3, Zenon DEF Touch
    <2>2. UNCHANGED <<curthread, irqon, usermode, cpuArrays, splVars, t_in_interrupt, tm_badfaultfunc, progress, trappanic>>
      BY <1>3, Zenon DEF Touch
    <2>3. trappanic' = "no" /\ made' = made /\ t_pc' = t_pc
      BY <2>1, <2>2 DEF In, progress
    <2>4. tm_badfaultfunc' = [tm_badfaultfunc EXCEPT ![t] = b = "copy"]
      <3>1. tm_badfaultfunc = [tm_badfaultfunc EXCEPT ![t] = b \in {"copy", "copyfail"} \/ (@ /\ Len(frames[t]) > 1)]
        BY <1>0, <2>1, Calm
      <3>2. Len(frames[t]) = 1
        BY <1>0, <2>1, Handler
      <3>3. ~(Len(frames[t]) > 1)
        BY <3>2
      <3>4. (b \in {"copy", "copyfail"} \/ (tm_badfaultfunc[t] /\ Len(frames[t]) > 1)) = (b = "copy")
        BY <3>3, <2>1
      <3> QED BY <3>1, <3>4, <2>2, Zenon
    <2>5. /\ b # "done" /\ b \in {"body", "copy", "touch", "done"} /\ a \in {"body", "copy", "copyfail", "touch"}
          /\ t_pc' = IF b = "done" THEN [t_pc EXCEPT ![t] = @ + 1] ELSE t_pc
          /\ UNCHANGED <<curthread, irqon, usermode, cpuArrays, splVars, t_in_interrupt, made>>
      BY <2>1, <2>2, <2>3
    <2> QED BY <1>0, <2>1, <2>3, <2>4, <2>5, CallGoes
  <1>4. CASE SyscallEnds(c)
    <2>1. /\ In(c, "body") /\ GoTo(t, "done") /\ t_pc' = [t_pc EXCEPT ![t] = @ + 1]
          /\ trappanic' = IF t_curspl[t] # 0 \/ t_iplhigh_count[t] # 0 THEN "assertion" ELSE trappanic
          /\ UNCHANGED <<curthread, irqon, usermode, cpuArrays, splVars, t_in_interrupt, tm_badfaultfunc, made>>
      BY <1>0, <1>4, Zenon DEF SyscallEnds
    <2>2. t_curspl[t] = 0 /\ t_iplhigh_count[t] = 0
      BY <1>0, <2>1, Calm DEF Open
    <2>3. trappanic' = "no"
      BY <2>1, <2>2 DEF In
    <2>4. tm_badfaultfunc' = [tm_badfaultfunc EXCEPT ![t] = "done" = "copy"]
      <3>1. tm_badfaultfunc = [tm_badfaultfunc EXCEPT ![t] = "done" \in {"copy", "copyfail"} \/ (@ /\ Len(frames[t]) > 1)]
        BY <1>0, <2>1, Calm
      <3>2. Len(frames[t]) = 1
        BY <1>0, <2>1, Handler
      <3>3. ~(Len(frames[t]) > 1)
        BY <3>2
      <3>4. ("done" \in {"copy", "copyfail"} \/ (tm_badfaultfunc[t] /\ Len(frames[t]) > 1)) = ("done" = "copy")
        BY <3>3
      <3> QED BY <3>1, <3>4, <2>1, Zenon
    <2> QED BY <1>0, <2>1, <2>3, <2>4, CallGoes
  <1> QED BY <1>1, <1>2, <1>3, <1>4

LEMMA thread_startupInv == ASSUME TrapInv, NEW c \in TCpu, thread_startup(c) PROVE TrapInv'
  <1>0. PICK t \in TThread : t = curthread[c]
    BY DEF TrapInv, TrapTypes
  <1> DEFINE s == frames[t]
             f == Top(t)
             g == [f EXCEPT !.at = "run"]
  <1>1. /\ In(c, "start") /\ frames' = SetTop(t, g)
        /\ t_curspl' = [t_curspl EXCEPT ![t] = 0] /\ t_iplhigh_count' = [t_iplhigh_count EXCEPT ![t] = @ - 1]
        /\ irqon' = [irqon EXCEPT ![c] = TRUE]
        /\ UNCHANGED <<curthread, usermode, cpuArrays, t_in_interrupt, tm_badfaultfunc, progress, trappanic, traps>>
    BY <1>0, Zenon DEF thread_startup, GoTo
  <1>2. /\ ~usermode[c] /\ trappanic = "no" /\ f.at = "start" /\ f \in FrameRec /\ FrameFits(f) /\ Len(s) = 1
    BY <1>0, <1>1, Handler
  <1>3. /\ t_iplhigh_count[t] = t_curspl[t]
        /\ t_curspl[t] = 1 <=> RaisedTo(s, Len(s) - 1) \/ Raised(f)
        /\ t_in_interrupt[t] = 1 <=> HandlingTo(s, Len(s) - 1) \/ Handling(f)
        /\ tm_badfaultfunc[t] <=> CopyingTo(s, Len(s) - 1) \/ Copying(f)
        /\ Len(s) = 1 => ~RaisedTo(s, Len(s) - 1) /\ ~HandlingTo(s, Len(s) - 1) /\ ~CopyingTo(s, Len(s) - 1)
    BY <1>0, <1>2, Apart, Zenon
  <1>4. Raised(f) /\ ~Handling(f) /\ ~Copying(f) /\ f.why \in {"runprogram", "fork"}
    <2>1. f.why \in {"runprogram", "fork"}
      BY <1>2, KindFits
    <2> QED BY <1>2, <2>1 DEF Raised, Handling, Copying
  <1>5. g \in FrameRec /\ g.at = "run" /\ g.why = f.why /\ g.user = f.user
    <2>1. "run" \in HandlerPlaces
      BY DEF HandlerPlaces
    <2> QED BY <2>1, <1>2, AtIs
  <1> HIDE DEF g, f, s
  <1>6. FrameFits(g) /\ ~Raised(g) /\ ~Handling(g) /\ ~Copying(g)
    BY <1>4, <1>5 DEF FrameFits, Raised, Handling, Copying
  <1>7. ~(Len(s) > 1)
    BY <1>2
  <1>8. PutAside(s, Len(s) - 1, g)
    BY <1>6, Zenon DEF PutAside
  <1>9. t_curspl[t] = 1
    BY <1>3, <1>4, Zenon
  <1>10. t_iplhigh_count[t] - 1 = 0
    BY <1>3, <1>9
  <1>11. t_iplhigh_count' = [t_iplhigh_count EXCEPT ![t] = 0]
    BY <1>1, <1>10, Zenon
  <1>12. /\ curthread' = curthread /\ OtherCpus(c) /\ LevelsAlone(t) /\ tm_badfaultfunc'[t] = tm_badfaultfunc[t]
         /\ t_in_interrupt'[t] = t_in_interrupt[t]
         /\ made'[t] = made[t] /\ t_pc'[t] = t_pc[t] /\ usermode'[c] = usermode[c] /\ irqon'[c]
         /\ t_iplhigh_count'[t] = 0 /\ t_curspl'[t] = 0
    BY <1>0, <1>1, <1>11 DEF OtherCpus, LevelsAlone, TrapInv, TrapTypes, cpuArrays, progress
  <1>13. frames' \in [TThread -> Stack] => TrapTypes'
    BY <1>0, <1>1, <1>11 DEF TrapInv, TrapTypes, cpuArrays, progress
  <1>14. g.why = Top(t).why /\ g.user = Top(t).user /\ g.at \in Open /\ g.why # "sys" /\ trappanic' = "no"
    BY <1>1, <1>2, <1>4, <1>5 DEF Open, f
  <1>15. t_curspl'[t] # 1 /\ t_iplhigh_count'[t] = t_curspl'[t]
    BY <1>12
  <1>16. /\ t_curspl'[t] = 1 <=> RaisedTo(s, Len(s) - 1) \/ Raised(g)
         /\ t_in_interrupt'[t] = 1 <=> HandlingTo(s, Len(s) - 1) \/ Handling(g)
         /\ tm_badfaultfunc'[t] <=> CopyingTo(s, Len(s) - 1) \/ Copying(g)
    BY <1>2, <1>3, <1>4, <1>6, <1>12, <1>15, Zenon
  <1> QED BY <1>0, <1>1, <1>2, <1>5, <1>6, <1>7, <1>8, <1>12, <1>13, <1>14, <1>15, <1>16, Goes DEF s

\* Nothing of the thread changes.
LEMMA Rests ==
    ASSUME TrapInv, NEW c \in TCpu, ~usermode[c], UNCHANGED <<curthread, usermode, cpuArrays, splVars, t_in_interrupt,
                tm_badfaultfunc, progress, frames>>,
           irqon' \in [TCpu -> BOOLEAN], \A d \in TCpu : d # c => irqon'[d] = irqon[d],
           irqon'[c] => irqon[c] \/ Top(curthread[c]).at = "switched", irqon[c] => irqon'[c], TrapPanics'
    PROVE  TrapInv'
  <1>1. TrapTypes'
    BY Zenon DEF TrapInv, TrapTypes, cpuArrays, splVars, progress
  <1>2. Levels(curthread[c])'
    <2>1. Levels(curthread[c])
      BY InKernel, Zenon
    <2> QED BY <2>1, Zenon DEF Levels, Account, splVars, progress
  <1>3. Alone(curthread[c]) /\ OtherCpus(c)
    BY Zenon DEF Alone, OtherCpus, cpuArrays, splVars, progress
  <1>4. CpuFits(c)'
    <2>1. Top(curthread[c])' = Top(curthread[c])
      BY Zenon DEF Top
    <2>2. CpuFits(c)
      BY Zenon DEF TrapInv
    <2> QED BY <2>1, <2>2, Zenon DEF CpuFits
  <1> QED BY <1>1, <1>2, <1>3, <1>4, LocalStep, Zenon

LEMMA SwitchEndsInv == ASSUME TrapInv, NEW c \in TCpu, SwitchEnds(c) PROVE TrapInv'
  <1>0. PICK t \in TThread : t = curthread[c]
    BY DEF TrapInv, TrapTypes
  <1> DEFINE s == frames[t]
             f == Top(t)
             lower == f.back = "body"
             g == [f EXCEPT !.at = f.back]
  <1>1. /\ In(c, "switched")
        /\ \/ /\ ~irqon[c] /\ irqon' = [irqon EXCEPT ![c] = TRUE]
              /\ UNCHANGED <<frames, splVars>>
           \/ /\ GoTo(t, f.back)
              /\ t_curspl' = [t_curspl EXCEPT ![t] = IF lower THEN 0 ELSE @]
              /\ t_iplhigh_count' = [t_iplhigh_count EXCEPT ![t] = IF lower THEN @ - 1 ELSE @]
              /\ irqon' = [irqon EXCEPT ![c] = lower]
        /\ UNCHANGED <<curthread, usermode, cpuArrays, t_in_interrupt, tm_badfaultfunc, progress, trappanic, traps>>
    BY <1>0, Zenon DEF SwitchEnds
  <1>2. /\ ~usermode[c] /\ trappanic = "no" /\ f.at = "switched" /\ f \in FrameRec /\ FrameFits(f)
        /\ Len(s) > 1 => OnTop(s[Len(s) - 1], f)
        /\ PutAside(s, Len(s) - 1, f)
    BY <1>0, <1>1, Handler
  <1>3. CASE irqon' = [irqon EXCEPT ![c] = TRUE] /\ UNCHANGED <<frames, splVars>>
    <2>1. irqon' \in [TCpu -> BOOLEAN] /\ \A d \in TCpu : d # c => irqon'[d] = irqon[d]
      BY <1>3 DEF TrapInv, TrapTypes
    <2>2. irqon[c] => irqon'[c]
      BY <1>3 DEF TrapInv, TrapTypes
    <2>3. TrapPanics'
      BY <1>1, <1>2 DEF TrapPanics
    <2> QED BY <1>0, <1>1, <1>2, <1>3, <2>1, <2>2, <2>3, Rests
  <1>4. CASE /\ GoTo(t, f.back)
             /\ t_curspl' = [t_curspl EXCEPT ![t] = IF lower THEN 0 ELSE @]
             /\ t_iplhigh_count' = [t_iplhigh_count EXCEPT ![t] = IF lower THEN @ - 1 ELSE @]
             /\ irqon' = [irqon EXCEPT ![c] = lower]
    <2>1. frames' = SetTop(t, g)
      BY <1>4, Zenon DEF GoTo
    <2>2. /\ t_iplhigh_count[t] = t_curspl[t]
          /\ t_curspl[t] = 1 <=> RaisedTo(s, Len(s) - 1) \/ Raised(f)
          /\ t_in_interrupt[t] = 1 <=> HandlingTo(s, Len(s) - 1) \/ Handling(f)
          /\ tm_badfaultfunc[t] <=> CopyingTo(s, Len(s) - 1) \/ Copying(f)
          /\ f.at \in Open \cup {"switched"} \/ f.why # "irq" => ~RaisedTo(s, Len(s) - 1)
      BY <1>0, <1>2, Apart, Zenon
    <2>3. /\ f.why \in {"irq", "sys"} /\ f.ie /\ f.back = (IF f.why = "irq" THEN "handler" ELSE "body")
          /\ (lower <=> f.why = "sys") /\ f.back \in HandlerPlaces
      <3>1. f.why \in {"irq", "sys", "fault", "runprogram", "fork"}
        BY <1>2 DEF FrameRec
      <3>2. f.why \in {"irq", "sys"}
        BY <1>2, <3>1, KindFits
      <3>3. f.ie /\ f.back = (IF f.why = "irq" THEN "handler" ELSE "body")
        BY <1>2, <3>2, KindFits
      <3> QED BY <3>2, <3>3 DEF HandlerPlaces
    <2>4. /\ g \in FrameRec /\ g.at = f.back /\ g.why = f.why /\ g.user = f.user /\ g.ie = f.ie
          /\ g.adjust = f.adjust /\ g.old = f.old
      <3>1. f \in FrameRec /\ f.back \in HandlerPlaces
        BY <1>2, <2>3
      <3> HIDE DEF f
      <3> QED BY <3>1, AtIs
    <2> HIDE DEF g, f, s
    <2>5. Raised(f) /\ ~Copying(f) /\ ~Copying(g) /\ (Handling(f) <=> Handling(g)) /\ (Raised(g) <=> ~lower)
      BY <1>2, <2>3, <2>4 DEF Raised, Handling, Copying
    <2>6. FrameFits(g)
      BY <2>3, <2>4, Zenon DEF FrameFits
    <2>7. Len(s) > 1 => OnTop(s[Len(s) - 1], g)
      <3>1. f.why = "sys" => ~(Len(s) > 1)
        BY <1>2, Zenon DEF OnTop
      <3>2. f.why = "irq" => g.at = "handler"
        BY <2>3, <2>4
      <3> QED BY <1>2, <2>3, <2>4, <3>1, <3>2, Zenon DEF OnTop
    <2>8. PutAside(s, Len(s) - 1, g)
      BY <1>2, <2>4, <2>5, Zenon DEF PutAside
    <2>9. ~RaisedTo(s, Len(s) - 1)
      BY <2>2, <1>2
    <2>10. t_curspl[t] = 1 /\ t_iplhigh_count[t] = 1
      <3>1. t_curspl[t] = 1
        BY <2>2, <2>5, Zenon
      <3> QED BY <3>1, <2>2
    <2>11. (IF lower THEN t_iplhigh_count[t] - 1 ELSE t_iplhigh_count[t]) = (IF lower THEN 0 ELSE 1)
           /\ (IF lower THEN 0 ELSE t_curspl[t]) = (IF lower THEN 0 ELSE 1)
      BY <2>10
    <2>12. /\ t_iplhigh_count' = [t_iplhigh_count EXCEPT ![t] = IF lower THEN 0 ELSE 1]
           /\ t_curspl' = [t_curspl EXCEPT ![t] = IF lower THEN 0 ELSE 1]
      BY <1>4, <2>11, Zenon
    <2>13. /\ t_iplhigh_count' \in [TThread -> {0, 1}] /\ t_curspl' \in [TThread -> {0, 1}] /\ irqon' \in [TCpu -> BOOLEAN]
           /\ irqon'[c] = lower
           /\ t_iplhigh_count'[t] = (IF lower THEN 0 ELSE 1) /\ t_curspl'[t] = (IF lower THEN 0 ELSE 1)
      <3>1. (IF lower THEN 0 ELSE 1) \in {0, 1} /\ lower \in BOOLEAN
        OBVIOUS
      <3> QED BY <3>1, <2>12, <1>4, Zenon DEF TrapInv, TrapTypes
    <2>14. frames' \in [TThread -> Stack] => TrapTypes'
      BY <1>1, <2>13, Zenon DEF TrapInv, TrapTypes, cpuArrays, progress
    <2>15. /\ curthread' = curthread /\ OtherCpus(c) /\ LevelsAlone(t) /\ tm_badfaultfunc'[t] = tm_badfaultfunc[t]
           /\ t_in_interrupt'[t] = t_in_interrupt[t]
           /\ made'[t] = made[t] /\ t_pc'[t] = t_pc[t] /\ usermode'[c] = usermode[c]
      BY <1>0, <1>1, <1>4, <2>12 DEF OtherCpus, LevelsAlone, TrapInv, TrapTypes, cpuArrays, progress
    <2>16. t_curspl'[t] = 1 <=> ~lower
      BY <2>13
    <2>17. /\ t_curspl'[t] = 1 <=> RaisedTo(s, Len(s) - 1) \/ Raised(g)
           /\ t_in_interrupt'[t] = 1 <=> HandlingTo(s, Len(s) - 1) \/ Handling(g)
           /\ tm_badfaultfunc'[t] <=> CopyingTo(s, Len(s) - 1) \/ Copying(g)
      BY <2>2, <2>5, <2>9, <2>15, <2>16, Zenon
    <2>18. /\ g.at \notin {"done", "return"} /\ Top(t).at \notin {"done", "return"} /\ trappanic' = "no"
           /\ g.why = Top(t).why /\ g.user = Top(t).user
           /\ irqon'[c] => g.at \in Open \cup {"switched"}
           /\ g.at \in Open => irqon'[c]
           /\ t_iplhigh_count'[t] = t_curspl'[t]
      <3>1. g.at \in {"handler", "body"} /\ (g.at = "body" <=> lower)
        BY <2>3, <2>4
      <3>2. g.at \notin {"done", "return"} /\ (irqon'[c] => g.at \in Open \cup {"switched"}) /\ (g.at \in Open => irqon'[c])
        BY <3>1, <2>13 DEF Open
      <3>3. Top(t).at \notin {"done", "return"} /\ g.why = Top(t).why /\ g.user = Top(t).user
        BY <1>2, <2>4 DEF f
      <3>4. trappanic' = "no"
        BY <1>1, <1>2
      <3> QED BY <3>2, <3>3, <3>4, <2>13
    <2> QED BY <1>0, <1>2, <2>1, <2>4, <2>6, <2>7, <2>8, <2>14, <2>15, <2>17, <2>18, Goes DEF s
  <1> QED BY <1>1, <1>3, <1>4

\* The two frames of a fault inside a copy.
LEMMA FailIs ==
    ASSUME TrapTypes, NEW t \in TThread, Len(frames[t]) = 2,
           frames' = [frames EXCEPT ![t][2].at = "done", ![t][1].at = "copyfail"]
    PROVE  /\ frames' \in [TThread -> Stack] /\ SameBut(t) /\ Len(frames'[t]) = 2
           /\ frames'[t][1] = [frames[t][1] EXCEPT !.at = "copyfail"]
           /\ frames'[t][2] = [frames[t][2] EXCEPT !.at = "done"]
  <1>0. frames \in [TThread -> Stack] /\ frames[t] \in Seq(FrameRec) /\ frames[t][1] \in FrameRec /\ frames[t][2] \in FrameRec
    BY DEF TrapTypes, Stack
  <1> DEFINE a == [frames[t][2] EXCEPT !.at = "done"]
             b == [frames[t][1] EXCEPT !.at = "copyfail"]
             q == [frames[t] EXCEPT ![2] = a]
             r == [q EXCEPT ![1] = b]
  <1>1. a \in FrameRec /\ b \in FrameRec
    <2>1. "done" \in HandlerPlaces /\ "copyfail" \in HandlerPlaces
      BY DEF HandlerPlaces
    <2> QED BY <2>1, <1>0, AtIs
  <1>2. frames' = [[frames EXCEPT ![t] = q] EXCEPT ![t] = [q EXCEPT ![1] = [q[1] EXCEPT !.at = "copyfail"]]]
    BY <1>0
  <1>3. q[1] = frames[t][1]
    BY <1>0
  <1>4. frames' = [[frames EXCEPT ![t] = q] EXCEPT ![t] = r]
    BY <1>2, <1>3, Zenon
  <1> HIDE DEF a, b
  <1>5. q \in Seq(FrameRec) /\ Len(q) = 2 /\ q[2] = a
    BY <1>0, <1>1
  <1> HIDE DEF q
  <1>6. r \in Seq(FrameRec) /\ Len(r) = 2 /\ r[1] = b /\ r[2] = a
    BY <1>1, <1>5
  <1> HIDE DEF r
  <1>7. frames'[t] = r /\ frames' \in [TThread -> Stack] /\ SameBut(t)
    BY <1>0, <1>4, <1>5, <1>6 DEF SameBut, Stack
  <1> QED BY <1>6, <1>7 DEF a, b

LEMMA FaultEndsInv == ASSUME TrapInv, NEW c \in TCpu, FaultEnds(c) PROVE TrapInv'
  <1>0. PICK t \in TThread : t = curthread[c]
    BY DEF TrapInv, TrapTypes
  <1> DEFINE s == frames[t]
             f == Top(t)
  <1>1. /\ In(c, "vm_fault")
        /\ \/ GoTo(t, "done") /\ UNCHANGED trappanic
           \/ f.user /\ trappanic' = "kill_curthread" /\ UNCHANGED frames
           \/ /\ ~f.user /\ tm_badfaultfunc[t]
              /\ frames' = [frames EXCEPT ![t][Len(s)].at = "done", ![t][Len(s) - 1].at = "copyfail"]
              /\ UNCHANGED trappanic
           \/ ~f.user /\ ~tm_badfaultfunc[t] /\ trappanic' = "kernel fault" /\ UNCHANGED frames
        /\ UNCHANGED <<curthread, irqon, usermode, cpuArrays, splVars, t_in_interrupt, tm_badfaultfunc, progress, traps>>
    BY <1>0, Zenon DEF FaultEnds
  <1>a. In(c, "vm_fault")
    BY <1>1
  <1>2. /\ ~usermode[c] /\ trappanic = "no" /\ f.at = "vm_fault" /\ f \in FrameRec /\ FrameFits(f) /\ s \in Stack
        /\ StackFits(s) /\ f = s[Len(s)] /\ Len(s) \in Nat /\ Len(s) > 0
        /\ Len(s) = 1 => FirstFits(f)
        /\ Len(s) > 1 => OnTop(s[Len(s) - 1], f)
        /\ Len(s) = 1 \/ Len(s) > 1
        /\ irqon[c]
    <2>1. "vm_fault" \in Open
      BY DEF Open
    <2> QED BY <2>1, <1>0, <1>a, Handler
  <1>3. f.why = "fault"
    BY <1>2, KindFits
  <1>4. TrapTypes /\ TrapPanics
    BY Zenon DEF TrapInv
  <1>5. CASE GoTo(t, "done") /\ UNCHANGED trappanic
    <2>1. FrameFits([Top(t) EXCEPT !.at = "done"]) /\ "done" \in HandlerPlaces
      BY <1>2, <1>3, PlaceFits
    <2>2. irqon' = [irqon EXCEPT ![c] = "done" # "return"]
      <3>1. irqon = [irqon EXCEPT ![c] = TRUE]
        BY <1>0, <1>1, Calm DEF Open
      <3>2. ("done" # "return") = TRUE
        OBVIOUS
      <3> QED BY <3>1, <3>2, <1>1, Zenon
    <2>3. tm_badfaultfunc' = [tm_badfaultfunc EXCEPT ![t] = "done" \in {"copy", "copyfail"} \/ (@ /\ Len(frames[t]) > 1)]
      <3>1. tm_badfaultfunc = [tm_badfaultfunc EXCEPT ![t] = "done" \in {"copy", "copyfail"} \/ (@ /\ Len(frames[t]) > 1)]
        BY <1>0, <1>a, Calm
      <3> QED BY <3>1, <1>1
    <2>4. Top(t).why # "irq" /\ Top(t).why # "sys" /\ trappanic' = "no"
      BY <1>2, <1>3, <1>5
    <2> QED BY <1>0, <1>1, <1>5, <2>1, <2>2, <2>3, <2>4, CalmGoes
  <1>6. ASSUME ~f.user
        PROVE  /\ Len(s) = 2 /\ s[1].at \in {"copy", "touch"} /\ s[2].at = "vm_fault"
               /\ tm_badfaultfunc[t] <=> s[1].at = "copy"
    <2>1. Len(s) > 1
      BY <1>2, <1>3, <1>6, Zenon DEF FirstFits
    <2>2. Len(s) = 2
      BY <2>1, <1>2, <1>3, TopIs
    <2>3. Len(s) - 1 = 1
      BY <2>2
    <2>4. s[1].at \in {"copy", "touch"}
      BY <2>1, <2>3, <1>2, <1>3, Zenon DEF OnTop
    <2>5. tm_badfaultfunc[t] <=> CopyingTo(s, Len(s) - 1) \/ Copying(f)
      BY <1>0, <1>2, Apart, Zenon
    <2>6. ~Copying(f) /\ (Copying(s[1]) <=> s[1].at = "copy")
      BY <1>2, <2>4 DEF Copying
    <2>7. CopyingTo(s, 1) <=> Copying(s[1])
      <3>1. 1..1 = {1}
        OBVIOUS
      <3> QED BY <3>1, Zenon DEF CopyingTo
    <2> HIDE DEF s
    <2>8. tm_badfaultfunc[t] <=> s[1].at = "copy"
      BY <2>3, <2>5, <2>6, <2>7, Zenon
    <2> QED BY <2>2, <2>4, <2>8, <1>2
  <1>7. CASE f.user /\ trappanic' = "kill_curthread" /\ UNCHANGED frames
    <2>1. TrapPanics'
      BY <1>7 DEF TrapPanics
    <2> QED BY <1>0, <1>1, <1>2, <1>4, <1>7, <2>1, Rests DEF TrapTypes
  <1>8. CASE ~f.user /\ ~tm_badfaultfunc[t] /\ trappanic' = "kernel fault" /\ UNCHANGED frames
    <2>1. Len(s) = 2 /\ s[1].at = "touch"
      BY <1>6, <1>8
    <2>2. Len(s) > 1 /\ Len(s) - 1 = 1
      BY <2>1
    <2>3. \E u \in TThread : Len(frames[u]) > 1 /\ frames[u][Len(frames[u]) - 1].at = "touch"
      BY <2>1, <2>2, Zenon
    <2>4. TrapPanics'
      BY <1>8, <2>3, Zenon DEF TrapPanics
    <2> QED BY <1>0, <1>1, <1>2, <1>4, <1>8, <2>4, Rests DEF TrapTypes
  <1>9. CASE /\ ~f.user /\ tm_badfaultfunc[t]
             /\ frames' = [frames EXCEPT ![t][Len(s)].at = "done", ![t][Len(s) - 1].at = "copyfail"]
             /\ UNCHANGED trappanic
    <2>1. Len(s) = 2 /\ s[1].at = "copy" /\ s[2].at = "vm_fault"
      BY <1>6, <1>9
    <2>2. Len(s) - 1 = 1
      BY <2>1
    <2>3. frames' = [frames EXCEPT ![t][2].at = "done", ![t][1].at = "copyfail"]
      BY <1>9, <2>1, <2>2, Zenon
    <2>4. /\ frames' \in [TThread -> Stack] /\ SameBut(t) /\ Len(frames'[t]) = 2
          /\ frames'[t][1] = [s[1] EXCEPT !.at = "copyfail"]
          /\ frames'[t][2] = [s[2] EXCEPT !.at = "done"]
      BY <1>4, <2>1, <2>3, FailIs, Zenon
    <2> DEFINE r == frames'[t]
    <2>5. r \in Stack
      BY <2>4, Zenon
    <2>6. /\ StackFits(r) /\ r[1].why = "sys" /\ s[1].why = "sys"
          /\ ~RaisedTo(r, Len(r)) /\ ~HandlingTo(r, Len(r)) /\ CopyingTo(r, Len(r))
          /\ ~RaisedTo(s, Len(s)) /\ ~HandlingTo(s, Len(s)) /\ CopyingTo(s, Len(s))
      BY <1>2, <2>1, <2>4, <2>5, CopyFailFits, Zenon
    <2>7. r[1].at = "copyfail" /\ r[2].at = "done"
      <3>1. s[1] \in FrameRec /\ s[2] \in FrameRec
        BY <2>1, <1>2, StackLen
      <3>2. "done" \in HandlerPlaces /\ "copyfail" \in HandlerPlaces
        BY DEF HandlerPlaces
      <3> QED BY <3>1, <3>2, <2>4, AtIs
    <2>8. Levels(t) /\ t_curspl' = t_curspl /\ t_iplhigh_count' = t_iplhigh_count /\ t_in_interrupt' = t_in_interrupt
          /\ tm_badfaultfunc' = tm_badfaultfunc /\ made' = made /\ t_pc' = t_pc /\ curthread' = curthread
          /\ cputhreads' = cputhreads /\ cpustacks' = cpustacks /\ irqon' = irqon /\ usermode' = usermode
      BY <1>0, <1>1, <1>2, InKernel, Zenon DEF cpuArrays, splVars, progress
    <2>9. TrapTypes'
      BY <1>4, <2>4, <2>8, Zenon DEF TrapTypes
    <2>10. r # <<>> /\ s # <<>>
      BY <1>2, <2>1, <2>4, <2>5, StackLen
    <2>11. Account(r, made'[t], t_pc'[t])
      <3>1. Account(s, made[t], t_pc[t])
        BY <2>8, Zenon DEF Levels
      <3>2. r[1].at \in {"done", "return"} <=> s[1].at \in {"done", "return"}
        BY <2>1, <2>7
      <3> QED BY <1>2, <2>5, <2>6, <2>8, <2>10, <3>1, <3>2, AccountSame, Zenon
    <2>12. Levels(curthread[c])'
      <3>1. /\ t_iplhigh_count[t] = t_curspl[t] /\ (t_curspl[t] = 1 <=> RaisedTo(s, Len(s)))
            /\ (t_in_interrupt[t] = 1 <=> HandlingTo(s, Len(s))) /\ (tm_badfaultfunc[t] <=> CopyingTo(s, Len(s)))
        BY <2>8, Zenon DEF Levels
      <3>2. curthread'[c] = t
        BY <1>0, <2>8
      <3>3. /\ t_iplhigh_count'[t] = t_curspl'[t] /\ (t_curspl'[t] = 1 <=> RaisedTo(r, Len(r)))
            /\ (t_in_interrupt'[t] = 1 <=> HandlingTo(r, Len(r))) /\ (tm_badfaultfunc'[t] <=> CopyingTo(r, Len(r)))
        BY <3>1, <2>6, <2>8, Zenon
      <3> QED BY <3>2, <3>3, <2>6, <2>11, Zenon DEF Levels
    <2>13. Alone(curthread[c]) /\ OtherCpus(c)
      BY <1>0, <2>4, <2>8, Zenon DEF Alone, OtherCpus, SameBut
    <2>14. CpuFits(c)'
      <3>1. r[Len(r)].at = "done"
        BY <2>4, <2>7
      <3>2. curthread'[c] = t
        BY <1>0, <2>8
      <3>3. r[Len(r)].at \in Open
        BY <3>1 DEF Open
      <3>4. ~usermode'[c] /\ irqon'[c]
        BY <1>2, <2>8, Zenon
      <3> QED BY <3>2, <3>3, <3>4, <2>10, Zenon DEF CpuFits, Top
    <2>15. TrapPanics'
      BY <1>2, <1>9 DEF TrapPanics
    <2> QED BY <2>8, <2>9, <2>12, <2>13, <2>14, <2>15, LocalStep, Zenon
  <1> QED BY <1>1, <1>5, <1>7, <1>8, <1>9, Zenon

LEMMA PushIs ==
    ASSUME TrapTypes, NEW t \in TThread, NEW f \in FrameRec, frames' = [frames EXCEPT ![t] = Append(@, f)]
    PROVE  frames' \in [TThread -> Stack] /\ Pushed(frames[t], f, frames'[t]) /\ SameBut(t)
  <1>0. frames \in [TThread -> Stack] /\ frames[t] \in Seq(FrameRec)
    BY DEF TrapTypes, Stack
  <1> DEFINE r == Append(frames[t], f)
  <1>1. r \in Seq(FrameRec) /\ Len(r) = Len(frames[t]) + 1 /\ r[Len(frames[t]) + 1] = f
    BY <1>0
  <1>2. \A k \in 1..Len(frames[t]) : r[k] = frames[t][k]
    BY <1>0
  <1> HIDE DEF r
  <1>3. frames'[t] = r /\ frames' \in [TThread -> Stack] /\ SameBut(t)
    BY <1>0, <1>1, Zenon DEF SameBut, Stack, r
  <1> QED BY <1>1, <1>2, <1>3 DEF Pushed, Stack

LEMMA FirstOf ==
    ASSUME NEW s \in Seq(FrameRec), NEW n \in Nat, n <= Len(s)
    PROVE  /\ SubSeq(s, 1, n) \in Seq(FrameRec) /\ Len(SubSeq(s, 1, n)) = n
           /\ \A k \in 1..n : SubSeq(s, 1, n)[k] = s[k]
  <1>1. SubSeq(s, 1, n) \in Seq(FrameRec)
    OBVIOUS
  <1>2. Len(SubSeq(s, 1, n)) = n
    OBVIOUS
  <1>3. \A k \in 1..n : SubSeq(s, 1, n)[k] = s[k]
    OBVIOUS
  <1> QED BY <1>1, <1>2, <1>3

LEMMA PopIs ==
    ASSUME TrapTypes, NEW t \in TThread, frames[t] # <<>>, frames' = [frames EXCEPT ![t] = SubSeq(@, 1, Len(@) - 1)]
    PROVE  frames' \in [TThread -> Stack] /\ Popped(frames[t], frames'[t]) /\ SameBut(t)
  <1>0. frames \in [TThread -> Stack] /\ frames[t] \in Seq(FrameRec)
    BY DEF TrapTypes, Stack
  <1>1. Len(frames[t]) \in Nat /\ Len(frames[t]) > 0 /\ Len(frames[t]) - 1 \in Nat /\ Len(frames[t]) - 1 <= Len(frames[t])
    BY <1>0
  <1> DEFINE r == SubSeq(frames[t], 1, Len(frames[t]) - 1)
  <1>2. /\ r \in Seq(FrameRec) /\ Len(r) = Len(frames[t]) - 1
        /\ \A k \in 1..(Len(frames[t]) - 1) : r[k] = frames[t][k]
    BY <1>0, <1>1, FirstOf, Zenon
  <1> HIDE DEF r
  <1>3. frames'[t] = r /\ frames' \in [TThread -> Stack] /\ SameBut(t)
    BY <1>0, <1>2, Zenon DEF SameBut, Stack, r
  <1> QED BY <1>1, <1>2, <1>3 DEF Popped, Stack

\* The thread of a CPU that runs a program.
LEMMA InUserMode ==
    ASSUME TrapInv, NEW c \in TCpu, usermode[c]
    PROVE  /\ curthread[c] \in TThread /\ irqon[c] /\ frames[curthread[c]] = <<>>
           /\ cputhreads[c] = curthread[c] /\ cpustacks[c] = curthread[c] /\ Levels(curthread[c])
  <1>1. CpuFits(c) /\ curthread[c] \in TThread /\ ThreadFits(curthread[c])
    BY DEF TrapInv, TrapTypes
  <1> QED BY <1>1, CurrentFits, Zenon DEF CpuFits

LEMMA common_exceptionInv ==
    ASSUME TrapInv, NEW c \in TCpu, NEW why \in {"irq", "sys", "fault"}, common_exception(c, why),
           why = "irq" => irqon[c], why = "sys" => usermode[c], why = "fault" => usermode[c] \/ TouchesUser(c)
    PROVE  TrapInv'
  <1>0. PICK t \in TThread : t = curthread[c]
    BY DEF TrapInv, TrapTypes
  <1>a. TrapTypes /\ usermode[c] \in BOOLEAN /\ irqon[c] \in BOOLEAN
    BY DEF TrapInv, TrapTypes
  <1> DEFINE s == frames[t]
             f == Frame(why, usermode[c], irqon[c])
             r == frames'[t]
  <1>1. (IF usermode[c] THEN cpustacks[c] ELSE curthread[c]) = t /\ (IF usermode[c] THEN cputhreads[c] ELSE curthread[c]) = t
    BY <1>0, InUserMode
  <1>2. /\ trappanic = "no"
        /\ frames' = [frames EXCEPT ![t] = Append(@, f)]
        /\ curthread' = [curthread EXCEPT ![c] = t]
        /\ irqon' = [irqon EXCEPT ![c] = FALSE] /\ usermode' = [usermode EXCEPT ![c] = FALSE]
        /\ made' = IF why = "sys" THEN [made EXCEPT ![t] = @ \cup {t_pc[t]}] ELSE made
        /\ UNCHANGED <<cpuArrays, splVars, t_in_interrupt, tm_badfaultfunc, t_pc, trappanic>>
    BY <1>1, Zenon DEF common_exception
  <1>3. curthread' = curthread
    <2>1. curthread = [curthread EXCEPT ![c] = curthread[c]]
      BY <1>a, SameExcept DEF TrapTypes
    <2> QED BY <2>1, <1>0, <1>2, Zenon
  <1>4. f \in FrameRec /\ f.at = "entry" /\ f.why = why /\ f.user = usermode[c] /\ f.ie = irqon[c]
    BY <1>a, FrameIs
  <1> HIDE DEF f
  <1>5. frames' \in [TThread -> Stack] /\ Pushed(s, f, r) /\ SameBut(t)
    BY <1>a, <1>2, <1>4, PushIs, Zenon
  <1>6. Levels(t) /\ s \in Stack /\ StackFits(s) /\ Len(s) \in Nat
    <2>1. Levels(t)
      BY <1>0, InKernel, InUserMode, Zenon
    <2>2. s \in Stack
      BY <1>a, Zenon DEF TrapTypes
    <2> QED BY <2>1, <2>2, StackLen DEF Levels
  <1>7. usermode[c] => Len(s) = 0 /\ s = <<>>
    BY <1>0, <1>6, InUserMode, StackLen
  <1>8. ~usermode[c] => Len(s) > 0 /\ s # <<>> /\ Top(t) = s[Len(s)]
    BY <1>0, InKernel, Zenon
  <1>9. irqon[c] /\ (~usermode[c] => Top(t).at \in Open \cup {"switched"})
        /\ (~usermode[c] /\ why = "fault" => Top(t).at \in {"copy", "touch"})
    <2>1. CASE usermode[c]
      BY <2>1, InUserMode
    <2>2. CASE ~usermode[c]
      <3>1. (irqon[c] => Top(t).at \in Open \cup {"switched"}) /\ (Top(t).at \in Open => irqon[c])
        BY <1>0, <2>2, InKernel, Zenon
      <3>2. why = "fault" => Top(t).at \in {"copy", "touch"}
        BY <1>0, <2>2, Zenon DEF TouchesUser
      <3>3. Top(t).at \in {"copy", "touch"} => Top(t).at \in Open
        BY DEF Open
      <3>4. why = "irq" \/ why = "fault"
        BY <2>2
      <3> QED BY <3>1, <3>2, <3>3, <3>4, <2>2, Zenon
    <2> QED BY <2>1, <2>2
  <1>10. FrameFits(f)
    BY <1>4, <1>9, Zenon DEF FrameFits
  <1>11. Len(s) = 0 => FirstFits(f)
    <2>1. Len(s) = 0 => ~(Len(s) > 0)
      OBVIOUS
    <2>2. Len(s) = 0 => usermode[c]
      BY <2>1, <1>8, <1>a, Zenon
    <2> QED BY <2>2, <1>4, Zenon DEF FirstFits
  <1>12. Len(s) > 0 => OnTop(s[Len(s)], f)
    <2>1. Len(s) > 0 => ~usermode[c]
      BY <1>7
    <2>2. why # "sys" \/ usermode[c]
      OBVIOUS
    <2> HIDE DEF s
    <2> QED BY <2>1, <2>2, <1>4, <1>8, <1>9, Zenon DEF OnTop, s
  <1>13. /\ StackFits(r)
         /\ RaisedTo(r, Len(r)) <=> RaisedTo(s, Len(s))
         /\ HandlingTo(r, Len(r)) <=> HandlingTo(s, Len(s))
         /\ CopyingTo(r, Len(r)) <=> CopyingTo(s, Len(s))
         /\ Len(s) > 0 => r[1] = s[1]
    BY <1>4, <1>5, <1>6, <1>10, <1>11, <1>12, PushFits, Zenon
  <1>14. r \in Stack /\ Len(r) = Len(s) + 1 /\ r[Len(s) + 1] = f
    BY <1>5, Zenon DEF Pushed
  <1>15. r # <<>> /\ r[Len(r)] = f
    BY <1>6, <1>14, StackLen
  <1>16. Account(r, made'[t], t_pc'[t])
    <2>0. t_pc' = t_pc /\ made \in [TThread -> SUBSET Nat] /\ t_pc[t] \in Nat /\ Account(s, made[t], t_pc[t])
      <3>1. Account(s, made[t], t_pc[t])
        BY <1>6, Zenon DEF Levels
      <3> QED BY <3>1, <1>a, <1>2 DEF TrapTypes
    <2>1. CASE usermode[c]
      <3>1. made[t] = 0..(t_pc[t] - 1)
        BY <2>0, <2>1, <1>7, Zenon DEF Account
      <3>2. r[1] = f
        <4>1. Len(s) = 0 => Len(s) + 1 = 1
          OBVIOUS
        <4> QED BY <4>1, <2>1, <1>7, <1>14, Zenon
      <3>3. CASE why = "sys"
        <4>1. made'[t] = made[t] \cup {t_pc[t]}
          BY <3>3, <2>0, <1>2
        <4>2. made'[t] = 0..t_pc[t]
          BY <4>1, <3>1, <2>0
        <4> QED BY <4>2, <3>2, <3>3, <1>4, <1>15, <2>0, Zenon DEF Account
      <3>4. CASE why # "sys"
        <4>1. made'[t] = made[t]
          BY <3>4, <1>2
        <4>2. f.why \in {"irq", "fault"}
          BY <3>4, <1>4
        <4> QED BY <4>1, <4>2, <3>1, <3>2, <1>15, <2>0, Zenon DEF Account
      <3> QED BY <3>3, <3>4
    <2>2. CASE ~usermode[c]
      <3>1. made'[t] = made[t]
        BY <2>2, <1>2
      <3>2. r[1] = s[1] /\ s # <<>>
        BY <2>2, <1>8, <1>13, Zenon
      <3> QED BY <3>1, <3>2, <2>0, <1>6, <1>14, <1>15, AccountSame, Zenon
    <2> QED BY <2>1, <2>2
  <1>17. /\ t_curspl' = t_curspl /\ t_iplhigh_count' = t_iplhigh_count /\ t_in_interrupt' = t_in_interrupt
         /\ tm_badfaultfunc' = tm_badfaultfunc /\ t_pc' = t_pc /\ cputhreads' = cputhreads /\ cpustacks' = cpustacks
         /\ curthread'[c] = t /\ ~irqon'[c] /\ ~usermode'[c] /\ irqon' \in [TCpu -> BOOLEAN] /\ usermode' \in [TCpu -> BOOLEAN]
    BY <1>0, <1>a, <1>2, <1>3 DEF TrapTypes, cpuArrays, splVars
  <1>18. made' \in [TThread -> SUBSET Nat]
    BY <1>a, <1>2 DEF TrapTypes
  <1>19. TrapTypes'
    BY <1>a, <1>3, <1>5, <1>17, <1>18, Zenon DEF TrapTypes
  <1>20. Levels(curthread[c])'
    <2>1. /\ t_iplhigh_count[t] = t_curspl[t] /\ (t_curspl[t] = 1 <=> RaisedTo(s, Len(s)))
          /\ (t_in_interrupt[t] = 1 <=> HandlingTo(s, Len(s))) /\ (tm_badfaultfunc[t] <=> CopyingTo(s, Len(s)))
      BY <1>6, Zenon DEF Levels
    <2>2. /\ t_iplhigh_count'[t] = t_curspl'[t] /\ (t_curspl'[t] = 1 <=> RaisedTo(r, Len(r)))
          /\ (t_in_interrupt'[t] = 1 <=> HandlingTo(r, Len(r))) /\ (tm_badfaultfunc'[t] <=> CopyingTo(r, Len(r)))
      BY <2>1, <1>13, <1>17, Zenon
    <2> QED BY <2>2, <1>13, <1>16, <1>17, Zenon DEF Levels
  <1>21. Alone(curthread[c]) /\ OtherCpus(c)
    <2>1. \A d \in TCpu : d # c => irqon'[d] = irqon[d] /\ usermode'[d] = usermode[d]
      BY <1>a, <1>2 DEF TrapTypes
    <2>2. \A u \in TThread : u # t => made'[u] = made[u]
      BY <1>a, <1>2 DEF TrapTypes
    <2> QED BY <2>1, <2>2, <1>0, <1>5, <1>17, Zenon DEF Alone, OtherCpus, SameBut
  <1>22. CpuFits(c)'
    <2>1. f.at \notin Open
      BY <1>4 DEF Open
    <2> QED BY <2>1, <1>15, <1>17, Zenon DEF CpuFits, Top
  <1>23. TrapPanics'
    BY <1>2 DEF TrapPanics
  <1> QED BY <1>3, <1>19, <1>20, <1>21, <1>22, <1>23, LocalStep, Zenon

LEMMA TrapReturnsInv == ASSUME TrapInv, NEW c \in TCpu, TrapReturns(c) PROVE TrapInv'
  <1>0. PICK t \in TThread : t = curthread[c]
    BY DEF TrapInv, TrapTypes
  <1> DEFINE s == frames[t]
             f == Top(t)
             r == frames'[t]
  <1>1. /\ In(c, "return")
        /\ cputhreads' = [cputhreads EXCEPT ![c] = t] /\ cpustacks' = [cpustacks EXCEPT ![c] = t]
        /\ frames' = [frames EXCEPT ![t] = SubSeq(@, 1, Len(@) - 1)]
        /\ irqon' = [irqon EXCEPT ![c] = f.ie] /\ usermode' = [usermode EXCEPT ![c] = f.user]
        /\ UNCHANGED <<curthread, splVars, t_in_interrupt, tm_badfaultfunc, progress, trappanic, traps>>
    BY <1>0, Zenon DEF TrapReturns, SetsArrays
  <1>2. /\ ~usermode[c] /\ trappanic = "no" /\ f.at = "return" /\ f \in FrameRec /\ FrameFits(f) /\ s \in Stack
        /\ StackFits(s) /\ f = s[Len(s)] /\ Len(s) \in Nat /\ Len(s) > 0 /\ s # <<>>
        /\ Account(s, made[t], t_pc[t])
    <2>1. In(c, "return")
      BY <1>1
    <2> QED BY <2>1, <1>0, Handler
  <1>3. f.why \in {"irq", "sys", "fault"} /\ f.ie /\ f.user \in BOOLEAN
    <2>1. f.why \in {"irq", "sys", "fault"}
      BY <1>2, KindFits
    <2>2. f.ie
      BY <1>2, <2>1, KindFits
    <2> QED BY <2>1, <2>2, <1>2 DEF FrameRec
  <1>a. TrapTypes /\ Levels(t)
    BY <1>0, <1>2, InKernel, Zenon DEF TrapInv
  <1>4. frames' \in [TThread -> Stack] /\ Popped(s, r) /\ SameBut(t)
    BY <1>1, <1>2, <1>a, PopIs, Zenon
  <1> HIDE DEF f
  <1>5. /\ StackFits(r)
        /\ RaisedTo(r, Len(r)) <=> RaisedTo(s, Len(s))
        /\ HandlingTo(r, Len(r)) <=> HandlingTo(s, Len(s))
        /\ CopyingTo(r, Len(r)) <=> CopyingTo(s, Len(s))
        /\ Len(r) > 0 => r[1] = s[1] /\ OnTop(r[Len(r)], f)
        /\ Len(r) = 0 => FirstFits(s[1])
    BY <1>2, <1>4, PopFits, Zenon
  <1>6. r \in Stack /\ Len(r) = Len(s) - 1
    BY <1>4, Zenon DEF Popped
  <1>7. Len(r) \in Nat /\ (r = <<>> <=> Len(r) = 0) /\ (Len(r) = 0 \/ Len(r) > 0) /\ (Len(r) = 0 => Len(s) = 1)
    <2>1. Len(r) \in Nat /\ (r = <<>> <=> Len(r) = 0)
      BY <1>6, StackLen
    <2>2. \A m, n \in Nat : m = n - 1 => (m = 0 \/ m > 0) /\ (m = 0 => n = 1)
      OBVIOUS
    <2> QED BY <2>1, <2>2, <1>2, <1>6, Zenon
  <1>8. /\ t_curspl' = t_curspl /\ t_iplhigh_count' = t_iplhigh_count /\ t_in_interrupt' = t_in_interrupt
        /\ tm_badfaultfunc' = tm_badfaultfunc /\ t_pc' = t_pc /\ made' = made /\ curthread' = curthread
        /\ curthread'[c] = t /\ irqon'[c] /\ usermode'[c] = f.user
        /\ irqon' \in [TCpu -> BOOLEAN] /\ usermode' \in [TCpu -> BOOLEAN]
        /\ cputhreads' \in [TCpu -> TThread] /\ cpustacks' \in [TCpu -> TThread] /\ cputhreads'[c] = t /\ cpustacks'[c] = t
    <2>1. f.ie = TRUE
      BY <1>3, <1>2 DEF FrameRec
    <2> QED BY <2>1, <1>0, <1>a, <1>1, <1>3 DEF TrapTypes, splVars, progress
  <1>9. Len(r) = 0 => f.user /\ f = s[1]
    <2>1. Len(r) = 0 => f = s[1]
      BY <1>2, <1>7, Zenon
    <2> QED BY <2>1, <1>3, <1>5, Zenon DEF FirstFits
  <1>10. Len(r) > 0 => ~f.user /\ r[Len(r)].at \in Open \cup {"switched"}
    BY <1>5, Zenon DEF OnTop
  <1>11. Account(r, made'[t], t_pc'[t])
    <2>1. CASE Len(r) = 0
      <3>1. made[t] = 0..(t_pc[t] - 1)
        BY <2>1, <1>2, <1>3, <1>9, Zenon DEF Account
      <3>2. r = <<>>
        BY <2>1, <1>7
      <3> QED BY <3>1, <3>2, <1>8, Zenon DEF Account
    <2>2. CASE Len(r) > 0
      <3>1. r # <<>> /\ r[1] = s[1]
        <4>1. Len(r) # 0
          BY <2>2
        <4> QED BY <4>1, <2>2, <1>5, <1>7
      <3> QED BY <3>1, <1>2, <1>6, <1>8, AccountSame, Zenon
    <2> QED BY <2>1, <2>2, <1>7
  <1>12. TrapTypes'
    BY <1>a, <1>4, <1>8, Zenon DEF TrapTypes
  <1>13. Levels(curthread[c])'
    <2>1. /\ t_iplhigh_count[t] = t_curspl[t] /\ (t_curspl[t] = 1 <=> RaisedTo(s, Len(s)))
          /\ (t_in_interrupt[t] = 1 <=> HandlingTo(s, Len(s))) /\ (tm_badfaultfunc[t] <=> CopyingTo(s, Len(s)))
      BY <1>a, Zenon DEF Levels
    <2>2. /\ t_iplhigh_count'[t] = t_curspl'[t] /\ (t_curspl'[t] = 1 <=> RaisedTo(r, Len(r)))
          /\ (t_in_interrupt'[t] = 1 <=> HandlingTo(r, Len(r))) /\ (tm_badfaultfunc'[t] <=> CopyingTo(r, Len(r)))
      BY <2>1, <1>5, <1>8, Zenon
    <2> QED BY <2>2, <1>5, <1>8, <1>11, Zenon DEF Levels
  <1>14. Alone(curthread[c]) /\ OtherCpus(c)
    <2>1. OtherCpus(c)
      BY <1>a, <1>1 DEF TrapTypes, OtherCpus
    <2> QED BY <2>1, <1>0, <1>4, <1>8, Zenon DEF Alone, SameBut
  <1>15. CpuFits(c)'
    <2>1. CASE Len(r) = 0
      BY <2>1, <1>7, <1>8, <1>9, Zenon DEF CpuFits
    <2>2. CASE Len(r) > 0
      <3>1. r # <<>>
        <4>1. Len(r) # 0
          BY <2>2
        <4> QED BY <4>1, <1>7
      <3> QED BY <3>1, <2>2, <1>8, <1>10, Zenon DEF CpuFits, Top
    <2> QED BY <2>1, <2>2, <1>7
  <1>16. TrapPanics'
    BY <1>1, <1>2 DEF TrapPanics
  <1> QED BY <1>8, <1>12, <1>13, <1>14, <1>15, <1>16, LocalStep, Zenon

LEMMA mips_usermodeInv == ASSUME TrapInv, NEW c \in TCpu, mips_usermode(c) PROVE TrapInv'
  <1>0. PICK t \in TThread : t = curthread[c]
    BY DEF TrapInv, TrapTypes
  <1> DEFINE s == frames[t]
             f == Top(t)
  <1>1. /\ In(c, "run") \/ In(c, "body")
        /\ t_curspl' = [t_curspl EXCEPT ![t] = 0]
        /\ t_iplhigh_count' = [t_iplhigh_count EXCEPT ![t] = IF t_curspl[t] = 0 THEN @ ELSE @ - 1]
        /\ cputhreads' = [cputhreads EXCEPT ![c] = t] /\ cpustacks' = [cpustacks EXCEPT ![c] = t]
        /\ frames' = [frames EXCEPT ![t] = <<>>]
        /\ irqon' = [irqon EXCEPT ![c] = TRUE] /\ usermode' = [usermode EXCEPT ![c] = TRUE]
        /\ t_pc' = [t_pc EXCEPT ![t] = NewPc(f, t_pc[t])]
        /\ made' = [made EXCEPT ![t] = IF f.why = "fork" THEN @ ELSE {}]
        /\ UNCHANGED <<curthread, t_in_interrupt, tm_badfaultfunc, trappanic, traps>>
    BY <1>0, Zenon DEF mips_usermode
  <1>2. PICK a \in {"run", "body"} : In(c, a)
    BY <1>1, Zenon
  <1>3. /\ ~usermode[c] /\ trappanic = "no" /\ f.at = a /\ f \in FrameRec /\ FrameFits(f) /\ Len(s) = 1
        /\ f = s[Len(s)] /\ s # <<>> /\ Account(s, made[t], t_pc[t]) /\ t_pc[t] \in Nat
        /\ t_in_interrupt[t] \in {0, 1}
    BY <1>0, <1>2, Handler
  <1>4. t_curspl[t] = 0 /\ t_iplhigh_count[t] = 0
    BY <1>0, <1>2, Calm DEF Open
  <1>5. t_in_interrupt[t] # 1 /\ ~tm_badfaultfunc[t]
    <2>1. /\ t_in_interrupt[t] = 1 <=> HandlingTo(s, Len(s) - 1) \/ Handling(f)
          /\ tm_badfaultfunc[t] <=> CopyingTo(s, Len(s) - 1) \/ Copying(f)
          /\ Len(s) = 1 => ~RaisedTo(s, Len(s) - 1) /\ ~HandlingTo(s, Len(s) - 1) /\ ~CopyingTo(s, Len(s) - 1)
      BY <1>0, <1>3, Apart, Zenon
    <2>2. ~Handling(f) /\ ~Copying(f)
      BY <1>2, <1>3 DEF Handling, Copying
    <2> QED BY <2>1, <2>2, <1>3, Zenon
  <1>6. TrapTypes
    BY Zenon DEF TrapInv
  <1>7. made[t] \subseteq Nat /\ NewPc(f, t_pc[t]) \in Nat
    BY <1>3, <1>6 DEF TrapTypes, NewPc
  <1>8. made'[t] = 0..(t_pc'[t] - 1)
    <2>1. t_pc'[t] = NewPc(f, t_pc[t]) /\ made'[t] = IF f.why = "fork" THEN made[t] ELSE {}
      BY <1>1, <1>6, Zenon DEF TrapTypes
    <2>2. CASE f.why = "fork"
      <3>1. s[1] = f
        BY <1>3, Zenon
      <3>2. made[t] = 0..t_pc[t]
        BY <3>1, <2>2, <1>3, Zenon DEF Account
      <3>3. t_pc'[t] - 1 = t_pc[t]
        BY <2>1, <2>2, <1>3 DEF NewPc
      <3> QED BY <3>2, <3>3, <2>1, <2>2
    <2>3. CASE f.why # "fork"
      <3>1. t_pc'[t] = 0 /\ made'[t] = {}
        BY <2>1, <2>3 DEF NewPc
      <3>2. 0..(0 - 1) = {}
        OBVIOUS
      <3> QED BY <3>1, <3>2, Zenon
    <2> QED BY <2>2, <2>3
  <1>9. (IF t_curspl[t] = 0 THEN t_iplhigh_count[t] ELSE t_iplhigh_count[t] - 1) = 0
    BY <1>4
  <1>10. t_iplhigh_count' = [t_iplhigh_count EXCEPT ![t] = 0]
    BY <1>1, <1>9, Zenon
  <1>11. frames' \in [TThread -> Stack] /\ frames'[t] = <<>> /\ SameBut(t)
    BY <1>1, <1>6, EmptyFits, Zenon DEF TrapTypes, SameBut
  <1>12. /\ irqon' \in [TCpu -> BOOLEAN] /\ usermode' \in [TCpu -> BOOLEAN] /\ irqon'[c] /\ usermode'[c]
         /\ cputhreads' \in [TCpu -> TThread] /\ cpustacks' \in [TCpu -> TThread] /\ cputhreads'[c] = t /\ cpustacks'[c] = t
         /\ OtherCpus(c)
    BY <1>1, <1>6 DEF TrapTypes, OtherCpus
  <1>13. /\ t_curspl' \in [TThread -> {0, 1}] /\ t_iplhigh_count' \in [TThread -> {0, 1}] /\ t_curspl'[t] = 0 /\ t_iplhigh_count'[t] = 0
         /\ t_pc' \in [TThread -> Nat] /\ made' \in [TThread -> SUBSET Nat] /\ LevelsAlone(t)
    <2>1. /\ t_curspl' \in [TThread -> {0, 1}] /\ t_iplhigh_count' \in [TThread -> {0, 1}] /\ t_curspl'[t] = 0 /\ t_iplhigh_count'[t] = 0
      BY <1>1, <1>6, <1>10 DEF TrapTypes
    <2>2. t_pc' \in [TThread -> Nat]
      BY <1>1, <1>6, <1>7, Zenon DEF TrapTypes
    <2>3. made' \in [TThread -> SUBSET Nat]
      <3>1. (IF f.why = "fork" THEN made[t] ELSE {}) \in SUBSET Nat
        BY <1>7
      <3> QED BY <3>1, <1>1, <1>6, Zenon DEF TrapTypes
    <2>4. LevelsAlone(t)
      BY <1>1, <1>6, <1>10, Zenon DEF TrapTypes, LevelsAlone
    <2> QED BY <2>1, <2>2, <2>3, <2>4
  <1>14. TrapTypes' /\ curthread' = curthread /\ curthread'[c] = t
    BY <1>0, <1>1, <1>6, <1>11, <1>12, <1>13, Zenon DEF TrapTypes
  <1>15. Levels(curthread[c])'
    <2>1. Account(<<>>, made'[t], t_pc'[t])
      BY <1>8, Zenon DEF Account
    <2>2. t_curspl'[t] # 1 /\ t_iplhigh_count'[t] = t_curspl'[t] /\ t_in_interrupt'[t] # 1 /\ ~tm_badfaultfunc'[t]
      BY <1>1, <1>5, <1>13
    <2> QED BY <2>1, <2>2, <1>11, <1>14, EmptyFits, Zenon DEF Levels
  <1>16. Alone(curthread[c])
    BY <1>0, <1>11, <1>13, Zenon DEF Alone, LevelsAlone, SameBut
  <1>17. CpuFits(c)'
    BY <1>11, <1>12, <1>14, Zenon DEF CpuFits
  <1>18. TrapPanics'
    BY <1>1, <1>3 DEF TrapPanics
  <1> QED BY <1>12, <1>14, <1>15, <1>16, <1>17, <1>18, LocalStep, Zenon

LEMMA thread_switchInv == ASSUME TrapInv, NEW c \in TCpu, thread_switch(c) PROVE TrapInv'
  <1>0. PICK t \in TThread : t = curthread[c]
    BY DEF TrapInv, TrapTypes
  <1> DEFINE s == frames[t]
             f == Top(t)
             raise == t_curspl[t] = 0
             g == [f EXCEPT !.at = "switched", !.back = f.at]
  <1>1. /\ In(c, "body") \/ (In(c, "handler") /\ ~Idling(t))
        /\ frames' = SetTop(t, g)
        /\ t_curspl' = [t_curspl EXCEPT ![t] = 1]
        /\ t_iplhigh_count' = [t_iplhigh_count EXCEPT ![t] = IF raise THEN @ + 1 ELSE @]
        /\ curthread' \in {curthread} \cup {[curthread EXCEPT ![c] = u] : u \in {v \in TThread : Ready(v)}}
        /\ irqon' = [irqon EXCEPT ![c] = FALSE]
        /\ UNCHANGED <<usermode, cpuArrays, t_in_interrupt, tm_badfaultfunc, progress, trappanic, traps>>
    BY <1>0, Zenon DEF thread_switch
  <1>2. PICK a \in {"body", "handler"} : In(c, a) /\ (a = "handler" => ~Idling(t))
    BY <1>1, Zenon
  <1>3. /\ ~usermode[c] /\ trappanic = "no" /\ f.at = a /\ f \in FrameRec /\ FrameFits(f)
        /\ t_curspl[t] \in {0, 1} /\ s # <<>> /\ Len(s) \in Nat
        /\ Len(s) > 1 => OnTop(s[Len(s) - 1], f)
        /\ PutAside(s, Len(s) - 1, f)
        /\ a \in {"body", "copy", "copyfail", "touch", "run", "start"} => Len(s) = 1
    BY <1>0, <1>2, Handler
  <1>4. /\ t_iplhigh_count[t] = t_curspl[t]
        /\ t_curspl[t] = 1 <=> RaisedTo(s, Len(s) - 1) \/ Raised(f)
        /\ t_in_interrupt[t] = 1 <=> HandlingTo(s, Len(s) - 1) \/ Handling(f)
        /\ tm_badfaultfunc[t] <=> CopyingTo(s, Len(s) - 1) \/ Copying(f)
    BY <1>0, <1>3, Apart, Zenon
  <1>5. (a = "body" => f.why = "sys") /\ (a = "handler" => f.why = "irq") /\ f.ie
    <2>1. (a = "body" => f.why = "sys") /\ (a = "handler" => f.why = "irq")
      BY <1>3, KindFits
    <2>2. f.why = "sys" \/ f.why = "irq"
      BY <2>1, <1>2
    <2>3. f.ie
      BY <2>2, <1>3, KindFits
    <2> QED BY <2>1, <2>3
  <1>6. /\ g \in FrameRec /\ g.at = "switched" /\ g.back = a /\ g.why = f.why /\ g.user = f.user /\ g.ie = f.ie
        /\ g.adjust = f.adjust /\ g.old = f.old
    BY <1>2, <1>3 DEF FrameRec
  <1>7. Len(s) > 1 => a = "handler" /\ s[Len(s) - 1].at # "switched"
    <2>1. Len(s) > 1 => Len(s) # 1 /\ Len(s) - 1 \in 1..(Len(s) - 1)
      <3>1. \A n \in Nat : n > 1 => n # 1 /\ n - 1 \in 1..(n - 1)
        OBVIOUS
      <3> QED BY <3>1, <1>3, Zenon
    <2>2. Len(s) > 1 => a = "handler"
      BY <2>1, <1>2, <1>3
    <2> QED BY <2>1, <2>2, <1>2, Zenon DEF Idling
  <1> HIDE DEF g, f, s
  <1>8. Raised(g) /\ (Handling(g) <=> Handling(f)) /\ ~Copying(g) /\ ~Copying(f)
    BY <1>2, <1>3, <1>5, <1>6 DEF Raised, Handling, Copying
  <1>9. FrameFits(g)
    BY <1>2, <1>5, <1>6, Zenon DEF FrameFits
  <1>10. Len(s) > 1 => OnTop(s[Len(s) - 1], g)
    BY <1>3, <1>5, <1>6, <1>7, Zenon DEF OnTop
  <1>11. PutAside(s, Len(s) - 1, g)
    BY <1>3, <1>6, <1>8, Zenon DEF PutAside
  <1>12. g.why = Top(t).why /\ g.user = Top(t).user /\ g.at \notin {"done", "return"} /\ Top(t).at \notin {"done", "return"}
    BY <1>2, <1>3, <1>6 DEF f
  <1>13. t_iplhigh_count' = [t_iplhigh_count EXCEPT ![t] = 1]
    <2>1. (IF raise THEN t_iplhigh_count[t] + 1 ELSE t_iplhigh_count[t]) = 1
      <3>1. t_iplhigh_count[t] = t_curspl[t]
        BY <1>4
      <3> QED BY <3>1, <1>3
    <2> QED BY <2>1, <1>1, Zenon
  <1>14. TrapTypes
    BY Zenon DEF TrapInv
  <1>15. /\ t_curspl' \in [TThread -> {0, 1}] /\ t_iplhigh_count' \in [TThread -> {0, 1}] /\ irqon' \in [TCpu -> BOOLEAN]
         /\ t_curspl'[t] = 1 /\ t_iplhigh_count'[t] = 1 /\ ~irqon'[c] /\ OtherCpus(c) /\ LevelsAlone(t)
         /\ tm_badfaultfunc' = tm_badfaultfunc /\ t_in_interrupt' = t_in_interrupt /\ usermode' = usermode
         /\ made' = made /\ t_pc' = t_pc /\ cputhreads' = cputhreads /\ cpustacks' = cpustacks
    BY <1>1, <1>13, <1>14 DEF TrapTypes, OtherCpus, LevelsAlone, cpuArrays, progress
  <1>16. /\ t_curspl'[t] = 1 <=> RaisedTo(s, Len(s) - 1) \/ Raised(g)
         /\ t_in_interrupt'[t] = 1 <=> HandlingTo(s, Len(s) - 1) \/ Handling(g)
         /\ tm_badfaultfunc'[t] <=> CopyingTo(s, Len(s) - 1) \/ Copying(g)
         /\ t_iplhigh_count'[t] = t_curspl'[t]
    BY <1>4, <1>8, <1>15, Zenon
  <1>17. trappanic' = "no" /\ g.at \notin Open
    BY <1>1, <1>3, <1>6 DEF Open
  <1>18. CASE curthread' = curthread
    <2>1. frames' \in [TThread -> Stack] => TrapTypes'
      BY <1>14, <1>15, <1>18, Zenon DEF TrapTypes
    <2> QED BY <1>0, <1>1, <1>3, <1>6, <1>9, <1>10, <1>11, <1>12, <1>15, <1>16, <1>17, <1>18, <2>1, Goes DEF s
  <1>19. ASSUME NEW u \in TThread, Ready(u), curthread' = [curthread EXCEPT ![c] = u] PROVE TrapInv'
    <2>1. /\ frames' \in [TThread -> Stack] /\ SameBut(t)
          /\ StackFits(frames'[t]) /\ frames'[t] # <<>> /\ frames'[t][Len(frames'[t])] = g
          /\ RaisedTo(frames'[t], Len(frames'[t])) <=> RaisedTo(s, Len(s) - 1) \/ Raised(g)
          /\ HandlingTo(frames'[t], Len(frames'[t])) <=> HandlingTo(s, Len(s) - 1) \/ Handling(g)
          /\ CopyingTo(frames'[t], Len(frames'[t])) <=> CopyingTo(s, Len(s) - 1) \/ Copying(g)
          /\ (g.at \in {"done", "return"} <=> Top(t).at \in {"done", "return"}) => Account(frames'[t], made[t], t_pc[t])
      BY <1>0, <1>1, <1>3, <1>6, <1>9, <1>10, <1>11, <1>12, RetopStep DEF s
    <2>2. Alone(t)
      BY <2>1, <1>15, Zenon DEF Alone, LevelsAlone, SameBut
    <2>3. frames[u] # <<>> /\ Top(u).at \in {"switched", "start"} /\ \A d \in TCpu : curthread[d] # u
      BY <1>19, Zenon DEF Ready
    <2>4. u # t /\ OneCpu /\ (\A x \in TThread : ThreadFits(x)) /\ (\A d \in TCpu : CpuFits(d) /\ curthread[d] \in TThread)
      BY <2>3, <1>0 DEF TrapInv, TrapTypes
    <2>5. /\ curthread' \in [TCpu -> TThread] /\ curthread'[c] = u
          /\ \A d \in TCpu : d # c => curthread'[d] = curthread[d]
      BY <1>14, <1>19 DEF TrapTypes
    <2>6. TrapTypes'
      BY <1>14, <1>15, <2>1, <2>5, Zenon DEF TrapTypes
    <2>7. OneCpu'
      BY <2>3, <2>4, <2>5, Zenon DEF OneCpu
    <2>8. \A d \in TCpu : d # c => curthread[d] # t
      BY <2>4, <1>0, Zenon DEF OneCpu
    <2>9. ASSUME NEW x \in TThread PROVE ThreadFits(x)'
      <3>1. CASE x = t
        <4>1. Account(frames'[t], made'[t], t_pc'[t])
          BY <2>1, <1>12, <1>15, Zenon
        <4>2. Existing(t)'
          BY <2>1, Zenon DEF Existing
        <4>3. Top(t)'.at \in {"switched", "start"}
          BY <2>1, <1>6, Zenon DEF Top
        <4>4. /\ t_curspl'[t] = 1 <=> RaisedTo(frames'[t], Len(frames'[t]))
              /\ t_in_interrupt'[t] = 1 <=> HandlingTo(frames'[t], Len(frames'[t]))
              /\ tm_badfaultfunc'[t] <=> CopyingTo(frames'[t], Len(frames'[t]))
          BY <2>1, <1>16, Zenon
        <4>5. ThreadFits(t)'
          BY <4>1, <4>2, <4>3, <4>4, <2>1, <1>16, Zenon DEF ThreadFits
        <4> QED BY <4>5, <3>1
      <3>2. CASE x = u
        <4>1. /\ frames'[u] = frames[u] /\ t_curspl'[u] = t_curspl[u] /\ t_iplhigh_count'[u] = t_iplhigh_count[u]
              /\ t_in_interrupt'[u] = t_in_interrupt[u] /\ tm_badfaultfunc'[u] = tm_badfaultfunc[u]
              /\ t_pc'[u] = t_pc[u] /\ made'[u] = made[u]
          BY <2>2, <2>4, Zenon DEF Alone
        <4>2. Existing(u) /\ Existing(u)' /\ ThreadFits(u)
          BY <4>1, <2>3, <2>4, Zenon DEF Existing
        <4>3. Top(u)' = Top(u)
          BY <4>1, Zenon DEF Top
        <4>4. ThreadFits(u)'
          BY <4>1, <4>2, <4>3, <2>3, Zenon DEF ThreadFits
        <4> QED BY <4>4, <3>2
      <3>3. CASE x # t /\ x # u
        <4>1. Current(x)' <=> Current(x)
          BY <3>3, <2>5, <1>0, Zenon DEF Current
        <4> QED BY <4>1, <3>3, <2>2, <2>4, OtherFits, Zenon
      <3> QED BY <3>1, <3>2, <3>3
    <2>10. ASSUME NEW d \in TCpu PROVE CpuFits(d)'
      <3>1. CASE d = c
        <4>1. frames'[u] = frames[u]
          BY <2>1, <2>4, Zenon DEF SameBut
        <4>2. Top(u)'.at \notin Open
          <5>1. Top(u)' = Top(u)
            BY <4>1, Zenon DEF Top
          <5>2. Top(u).at \notin Open
            BY <2>3 DEF Open
          <5> QED BY <5>1, <5>2
        <4>3. Top(curthread[c])' = Top(u)'
          BY <2>5, Zenon DEF Top
        <4>4. ~usermode'[c] /\ ~irqon'[c] /\ frames'[u] # <<>>
          BY <4>1, <2>3, <1>3, <1>15, Zenon
        <4>5. CpuFits(c)'
          BY <4>2, <4>3, <4>4, <2>5, Zenon DEF CpuFits
        <4> QED BY <4>5, <3>1
      <3>2. CASE d # c
        <4>1. frames'[curthread[d]] = frames[curthread[d]] /\ curthread'[d] = curthread[d] /\ CpuFits(d)
          BY <3>2, <2>1, <2>4, <2>5, <2>8, Zenon DEF SameBut
        <4>2. irqon'[d] = irqon[d] /\ usermode'[d] = usermode[d] /\ cputhreads'[d] = cputhreads[d] /\ cpustacks'[d] = cpustacks[d]
          BY <3>2, <1>15, Zenon DEF OtherCpus
        <4> QED BY <4>1, <4>2, OtherCpu, Zenon
      <3> QED BY <3>1, <3>2
    <2>11. TrapPanics'
      BY <1>17 DEF TrapPanics
    <2> QED BY <2>6, <2>7, <2>9, <2>10, <2>11, Zenon DEF TrapInv
  <1> QED BY <1>1, <1>18, <1>19, Zenon

LEMMA ForkInv == ASSUME TrapInv, NEW c \in TCpu, NEW u \in TThread, Fork(c, u) PROVE TrapInv'
  <1>0. PICK t \in TThread : t = curthread[c]
    BY DEF TrapInv, TrapTypes
  <1>1. /\ In(c, "body") /\ frames[u] = <<>> /\ \A d \in TCpu : curthread[d] # u
        /\ frames' = [frames EXCEPT ![u] = <<NewThread("fork")>>]
        /\ t_pc' = [t_pc EXCEPT ![u] = t_pc[t]] /\ made' = [made EXCEPT ![u] = made[t]]
        /\ UNCHANGED <<curthread, irqon, usermode, cpuArrays, splVars, t_in_interrupt, tm_badfaultfunc, trappanic, traps>>
    BY <1>0, Zenon DEF Fork
  <1>2. /\ trappanic = "no" /\ Top(t).at = "body" /\ Top(t) \in FrameRec /\ FrameFits(Top(t)) /\ Len(frames[t]) = 1
        /\ Top(t) = frames[t][Len(frames[t])] /\ frames[t] # <<>> /\ Account(frames[t], made[t], t_pc[t]) /\ t_pc[t] \in Nat
    <2>1. In(c, "body")
      BY <1>1
    <2> QED BY <2>1, <1>0, Handler
  <1>3. made[t] = 0..t_pc[t]
    <2>1. Top(t).why = "sys"
      BY <1>2, KindFits
    <2>2. frames[t][1] = Top(t)
      BY <1>2, Zenon
    <2> QED BY <2>1, <2>2, <1>2, Zenon DEF Account
  <1>4. TrapTypes /\ OneCpu /\ (\A x \in TThread : ThreadFits(x)) /\ (\A d \in TCpu : CpuFits(d))
    BY Zenon DEF TrapInv
  <1> DEFINE n == <<NewThread("fork")>>
  <1>5. /\ n \in Stack /\ Len(n) = 1 /\ n # <<>> /\ n[1] = NewThread("fork") /\ StackFits(n)
        /\ RaisedTo(n, Len(n)) /\ ~HandlingTo(n, Len(n)) /\ ~CopyingTo(n, Len(n))
    BY NewFits, Zenon
  <1>6. n[1].at = "start" /\ n[1].why = "fork"
    <2>1. NewThread("fork").at = "start" /\ NewThread("fork").why = "fork"
      BY NewThreadIs
    <2> QED BY <2>1, <1>5
  <1> HIDE DEF n
  <1>7. frames' \in [TThread -> Stack] /\ frames'[u] = n /\ SameBut(u)
    BY <1>1, <1>4, <1>5, Zenon DEF TrapTypes, SameBut, n
  <1>8. /\ t_pc' \in [TThread -> Nat] /\ made' \in [TThread -> SUBSET Nat] /\ t_pc'[u] = t_pc[t] /\ made'[u] = made[t]
        /\ \A x \in TThread : x # u => t_pc'[x] = t_pc[x] /\ made'[x] = made[x]
    BY <1>1, <1>4, <1>0 DEF TrapTypes
  <1>9. /\ t_curspl' = t_curspl /\ t_iplhigh_count' = t_iplhigh_count /\ t_in_interrupt' = t_in_interrupt
        /\ tm_badfaultfunc' = tm_badfaultfunc /\ curthread' = curthread /\ irqon' = irqon /\ usermode' = usermode
        /\ cputhreads' = cputhreads /\ cpustacks' = cpustacks /\ trappanic' = trappanic
    BY <1>1, Zenon DEF cpuArrays, splVars
  <1>10. TrapTypes'
    BY <1>4, <1>7, <1>8, <1>9, Zenon DEF TrapTypes
  <1>11. OneCpu'
    BY <1>4, <1>9, Zenon DEF OneCpu
  <1>12. Alone(u)
    BY <1>7, <1>8, <1>9, Zenon DEF Alone, SameBut
  <1>13. ASSUME NEW x \in TThread PROVE ThreadFits(x)'
    <2>1. CASE x # u
      <3>1. Current(x)' <=> Current(x)
        BY <1>9, Zenon DEF Current
      <3> QED BY <2>1, <3>1, <1>4, <1>12, OtherFits, Zenon
    <2>2. CASE x = u
      <3>1. ~Existing(u) /\ ThreadFits(u) /\ Existing(u)'
        BY <1>1, <1>4, <1>5, <1>7, Zenon DEF Existing, Current
      <3>2. t_iplhigh_count[u] = t_curspl[u] /\ t_curspl[u] = 1 /\ t_in_interrupt[u] # 1 /\ ~tm_badfaultfunc[u]
        BY <3>1, <1>1, EmptyFits, Zenon DEF ThreadFits
      <3>3. Account(n, made[t], t_pc[t])
        BY <1>3, <1>5, <1>6, Zenon DEF Account
      <3>4. Top(u)'.at = "start"
        <4>1. Top(u)' = n[1]
          BY <1>5, <1>7, Zenon DEF Top
        <4> QED BY <4>1, <1>6
      <3>5. ThreadFits(u)'
        BY <3>1, <3>2, <3>3, <3>4, <1>5, <1>7, <1>8, <1>9, Zenon DEF ThreadFits
      <3> QED BY <3>5, <2>2
    <2> QED BY <2>1, <2>2
  <1>14. ASSUME NEW d \in TCpu PROVE CpuFits(d)'
    <2>1. frames'[curthread[d]] = frames[curthread[d]]
      <3>1. curthread[d] \in TThread /\ curthread[d] # u
        BY <1>1, <1>4 DEF TrapTypes
      <3> QED BY <3>1, <1>7, Zenon DEF SameBut
    <2>2. /\ curthread'[d] = curthread[d] /\ irqon'[d] = irqon[d] /\ usermode'[d] = usermode[d]
          /\ cputhreads'[d] = cputhreads[d] /\ cpustacks'[d] = cpustacks[d]
      BY <1>9, Zenon
    <2> QED BY <2>1, <2>2, <1>4, OtherCpu, Zenon
  <1>15. TrapPanics'
    BY <1>2, <1>9 DEF TrapPanics
  <1> QED BY <1>10, <1>11, <1>13, <1>14, <1>15, Zenon DEF TrapInv

LEMMA TrapInitInv == TrapInit => TrapInv
  <1> SUFFICES ASSUME TrapInit PROVE TrapInv
    OBVIOUS
  <1> DEFINE n == <<NewThread("runprogram")>>
  <1>1. /\ \A c, d \in TCpu : c # d => curthread[c] # curthread[d]
        /\ curthread \in [TCpu -> TThread] /\ cputhreads = curthread /\ cpustacks = curthread
        /\ frames = [t \in TThread |-> IF \E c \in TCpu : curthread[c] = t THEN n ELSE <<>>]
        /\ irqon = [c \in TCpu |-> FALSE] /\ usermode = [c \in TCpu |-> FALSE]
        /\ t_curspl = [t \in TThread |-> 1] /\ t_iplhigh_count = [t \in TThread |-> 1]
        /\ t_in_interrupt = [t \in TThread |-> 0] /\ tm_badfaultfunc = [t \in TThread |-> FALSE]
        /\ t_pc = [t \in TThread |-> 0] /\ made = [t \in TThread |-> {}]
        /\ trappanic = "no"
    <2>1. PICK run \in [TCpu -> TThread] :
              /\ \A c, d \in TCpu : c # d => run[c] # run[d]
              /\ curthread = run
              /\ frames = [t \in TThread |-> IF \E c \in TCpu : run[c] = t THEN n ELSE <<>>]
              /\ cputhreads = run /\ cpustacks = run
      BY Zenon DEF TrapInit
    <2>2. /\ \A c, d \in TCpu : c # d => curthread[c] # curthread[d]
          /\ curthread \in [TCpu -> TThread] /\ cputhreads = curthread /\ cpustacks = curthread
          /\ frames = [t \in TThread |-> IF \E c \in TCpu : curthread[c] = t THEN n ELSE <<>>]
      BY <2>1, Zenon
    <2> QED BY <2>2, Zenon DEF TrapInit
  <1>2. /\ n \in Stack /\ Len(n) = 1 /\ n # <<>> /\ n[1] = NewThread("runprogram") /\ StackFits(n)
        /\ RaisedTo(n, Len(n)) /\ ~HandlingTo(n, Len(n)) /\ ~CopyingTo(n, Len(n))
    BY NewFits, Zenon
  <1>3. n[1].at = "start" /\ n[1].why = "runprogram"
    <2>1. NewThread("runprogram").at = "start" /\ NewThread("runprogram").why = "runprogram"
      BY NewThreadIs
    <2> QED BY <2>1, <1>2
  <1> HIDE DEF n
  <1>4. /\ frames \in [TThread -> Stack]
        /\ \A t \in TThread : frames[t] = IF Current(t) THEN n ELSE <<>>
    BY <1>1, <1>2, EmptyFits, Zenon DEF Current
  <1>5. TrapTypes
    <2>1. /\ irqon \in [TCpu -> BOOLEAN] /\ usermode \in [TCpu -> BOOLEAN]
          /\ t_curspl \in [TThread -> {0, 1}] /\ t_iplhigh_count \in [TThread -> {0, 1}]
          /\ t_in_interrupt \in [TThread -> {0, 1}] /\ tm_badfaultfunc \in [TThread -> BOOLEAN]
          /\ t_pc \in [TThread -> Nat] /\ made \in [TThread -> SUBSET Nat]
      BY <1>1
    <2> QED BY <2>1, <1>1, <1>4, Zenon DEF TrapTypes
  <1>6. OneCpu
    BY <1>1, Zenon DEF OneCpu
  <1>7. ASSUME NEW t \in TThread PROVE ThreadFits(t)
    <2>1. t_curspl[t] = 1 /\ t_iplhigh_count[t] = 1 /\ t_in_interrupt[t] # 1 /\ ~tm_badfaultfunc[t]
      BY <1>1
    <2>2. CASE Current(t)
      <3>1. frames[t] = n /\ Existing(t)
        BY <2>2, <1>4, Zenon DEF Existing
      <3>2. Account(n, made[t], t_pc[t])
        BY <1>2, <1>3, Zenon DEF Account
      <3> QED BY <2>1, <2>2, <3>1, <3>2, <1>2, Zenon DEF ThreadFits
    <2>3. CASE ~Current(t)
      <3>1. frames[t] = <<>> /\ ~Existing(t)
        BY <2>3, <1>4, Zenon DEF Existing
      <3> QED BY <2>1, <3>1, EmptyFits, Zenon DEF ThreadFits
    <2> QED BY <2>2, <2>3
  <1>8. ASSUME NEW c \in TCpu PROVE CpuFits(c)
    <2>1. ~usermode[c] /\ ~irqon[c] /\ curthread[c] \in TThread /\ Current(curthread[c])
      BY <1>1 DEF Current
    <2>2. frames[curthread[c]] = n
      BY <2>1, <1>4, Zenon
    <2>3. Top(curthread[c]).at \notin Open
      <3>1. Top(curthread[c]) = n[1]
        BY <2>2, <1>2, Zenon DEF Top
      <3> QED BY <3>1, <1>3 DEF Open
    <2> QED BY <2>1, <2>2, <2>3, <1>2, Zenon DEF CpuFits
  <1>9. TrapPanics
    BY <1>1 DEF TrapPanics
  <1> QED BY <1>5, <1>6, <1>7, <1>8, <1>9, Zenon DEF TrapInv

LEMMA TrapNextInv == ASSUME TrapInv, [TrapNext]_trapVars PROVE TrapInv'
  <1>1. CASE UNCHANGED trapVars
    <2>1. /\ UNCHANGED <<curthread, irqon, usermode, cputhreads, cpustacks, frames>>
          /\ UNCHANGED <<t_curspl, t_iplhigh_count, t_in_interrupt, tm_badfaultfunc, t_pc, made, trappanic>>
      BY <1>1, Zenon DEF trapVars
    <2>2. (\A t \in TThread : ThreadFits(t)) /\ (\A c \in TCpu : CpuFits(c)) /\ TrapTypes /\ OneCpu /\ TrapPanics
      BY Zenon DEF TrapInv
    <2>3. \A t : (Current(t)' <=> Current(t)) /\ Top(t)' = Top(t)
      BY <2>1, Zenon DEF Current, Top
    <2>4. ASSUME NEW t \in TThread PROVE ThreadFits(t)'
      <3>1. ThreadFits(t)
        BY <2>2
      <3>2. (Existing(t)' <=> Existing(t)) /\ Top(t)' = Top(t) /\ (Current(t)' <=> Current(t))
        BY <2>1, <2>3, Zenon DEF Existing
      <3> QED BY <3>1, <3>2, <2>1, Zenon DEF ThreadFits
    <2>5. ASSUME NEW c \in TCpu PROVE CpuFits(c)'
      <3>1. CpuFits(c)
        BY <2>2
      <3> QED BY <3>1, <2>1, OtherCpu, Zenon
    <2>6. TrapTypes' /\ OneCpu' /\ TrapPanics'
      BY <2>1, <2>2, Zenon DEF TrapTypes, OneCpu, TrapPanics
    <2> QED BY <2>4, <2>5, <2>6, Zenon DEF TrapInv
  <1>2. ASSUME NEW c \in TCpu, Trap(c) PROVE TrapInv'
    BY <1>2, common_exceptionInv DEF Trap
  <1> QED BY <1>1, <1>2, IrqBeginsInv, IrqEndsInv, TrapBeginsInv, FaultEndsInv, TrapDoneInv, TrapReturnsInv, CallsInv,
             mips_usermodeInv, thread_startupInv, thread_switchInv, SwitchEndsInv, ForkInv, Zenon DEF TrapNext

\* The inductive invariant says of each property what it asks.
LEMMA TrapInvSound == ASSUME TrapInv PROVE TrapSound
  <1>1. OneCpu /\ TrapPanics
    BY Zenon DEF TrapInv
  <1>2. CopiesOnly
    <2>1. \A t \in TThread : ThreadFits(t)
      BY Zenon DEF TrapInv
    <2> QED BY <2>1, Zenon DEF CopiesOnly, ThreadFits, CopyingTo, Copying
  <1>3. UserModeClean
    <2>1. ASSUME NEW c \in TCpu, usermode[c]
          PROVE  LET t == curthread[c]
                 IN  /\ irqon[c] /\ frames[t] = <<>>
                     /\ t_curspl[t] = 0 /\ t_iplhigh_count[t] = 0 /\ t_in_interrupt[t] = 0 /\ ~tm_badfaultfunc[t]
                     /\ cputhreads[c] = t /\ cpustacks[c] = t
                     /\ made[t] = 0..(t_pc[t] - 1)
      <3>1. PICK t \in TThread : t = curthread[c]
        BY DEF TrapInv, TrapTypes
      <3>2. irqon[c] /\ frames[t] = <<>> /\ cputhreads[c] = t /\ cpustacks[c] = t /\ Levels(t)
        BY <2>1, <3>1, InUserMode, Zenon
      <3>3. /\ t_curspl[t] # 1 /\ t_iplhigh_count[t] = t_curspl[t] /\ t_in_interrupt[t] # 1 /\ ~tm_badfaultfunc[t]
            /\ made[t] = 0..(t_pc[t] - 1)
        BY <3>2, EmptyFits, Zenon DEF Levels, Account
      <3>4. t_curspl[t] \in {0, 1} /\ t_in_interrupt[t] \in {0, 1}
        BY DEF TrapInv, TrapTypes
      <3>5. t_curspl[t] = 0 /\ t_iplhigh_count[t] = 0 /\ t_in_interrupt[t] = 0
        BY <3>3, <3>4
      <3> QED BY <3>1, <3>2, <3>3, <3>5, Zenon
    <2> QED BY <2>1, Zenon DEF UserModeClean
  <1>4. SplTrue
    <2>1. ASSUME NEW c \in TCpu, irqon[c], ~usermode[c]
          PROVE  t_curspl[curthread[c]] = 0 \/ Top(curthread[c]).at = "switched"
      <3>1. PICK t \in TThread : t = curthread[c]
        BY DEF TrapInv, TrapTypes
      <3>2. Top(t).at \in Open \cup {"switched"} /\ t_curspl[t] \in {0, 1}
        BY <2>1, <3>1, InKernel, Zenon
      <3>3. /\ t_curspl[t] = 1 <=> RaisedTo(frames[t], Len(frames[t]) - 1) \/ Raised(Top(t))
            /\ Top(t).at \in Open \cup {"switched"} \/ Top(t).why # "irq" => ~RaisedTo(frames[t], Len(frames[t]) - 1)
        BY <2>1, <3>1, Apart, Zenon
      <3>4. Top(t).at \in Open => ~Raised(Top(t))
        BY DEF Raised, Open
      <3>5. Top(t).at \in Open => t_curspl[t] # 1
        BY <3>2, <3>3, <3>4, Zenon
      <3>6. Top(t).at \in Open \/ Top(t).at = "switched"
        BY <3>2
      <3>7. t_curspl[t] # 1 => t_curspl[t] = 0
        BY <3>2
      <3> QED BY <3>1, <3>5, <3>6, <3>7, Zenon
    <2> QED BY <2>1, Zenon DEF SplTrue
  <1> QED BY <1>1, <1>2, <1>3, <1>4, Zenon DEF TrapSound

\* Whatever traps interrupt each other, on however many CPUs and with however
\* many threads, each returns to where it came from with the interrupt state
\* it found, no assertion of mips_trap and syscall fails, and a call is made
\* once.
THEOREM TrapSoundThm == TrapSpec => []TrapSound
  <1>1. TrapInit => TrapInv
    BY TrapInitInv
  <1>2. TrapInv /\ [TrapNext]_trapVars => TrapInv'
    BY TrapNextInv
  <1>3. TrapInv => TrapSound
    BY TrapInvSound
  <1> QED BY <1>1, <1>2, <1>3, PTL DEF TrapSpec
=============================================================================
