-------------------------- MODULE ThreadSchedProof --------------------------
(***************************************************************************)
(* Proofs about the scheduler: for every number of CPUs and threads no thread *)
(* is lost or queued twice, the interrupt level adds up, and an idle CPU with *)
(* something to run is told.                                                 *)
(*                                                                           *)
(* The inductive invariant SchedInv says what a CPU and the thread it is on   *)
(* are doing (ShapeInv), which spinlocks that makes it hold (LocksOk), that a *)
(* thread is on one list exactly when no CPU executes it (ListInv), and what  *)
(* an executing CPU knows of the threads it has in hand (HandsOk).  A step is *)
(* the step of one CPU: the lemmas about Solo, OtherCpus and HandsKept say    *)
(* once what it leaves alone, and those about Transfers, Moves and Leaves how *)
(* threads change lists.                                                     *)
(***************************************************************************)
EXTENDS ThreadSched, TLAPS, FiniteSetTheorems, SequenceTheorems

-----------------------------------------------------------------------------
(* The inductive invariant *)

\* Types.  LowPcs is where a thread can be in its own code, Interrupted where an
\* interrupt finds it, HighPcs where the interrupt itself can be.
MigRecord == [i : Nat, my : Nat, total : Nat, send : Nat]
LowPcs == {"run", "sleep", "wake", "send", "close"}
Interrupted == {"run", "wake", "close"}
HighPcs == {"timer", "device", "ipi", "ipibits", "ipiclear", "wake", "send", "yield", "iret",
            "migcount", "migtake", "migsend"}
Pcs == LowPcs \union HighPcs \union {"dead"}
FrameRecord == [pc : Pcs, carry : Seq(Thr), m : MigRecord]
Modes == {"off", "thread", "pick", "resume", "idle", "unidle", "halted"}
States == {"free", "S_RUN", "S_READY", "S_SLEEP", "S_ZOMBIE"}
Holder == CPU \union {NoCPU}

CpuTypes == curthread \in [CPU -> Thr] /\ mode \in [CPU -> Modes] /\ c_isidle \in [CPU -> BOOLEAN]
                /\ irq \in [CPU -> BOOLEAN]
ListTypes == c_runqueue \in [CPU -> Seq(Thr)] /\ c_zombies \in [CPU -> Seq(Thr)] /\ wc \in Seq(Thr)
LockTypes == rqlock \in [CPU -> Holder] /\ ipilock \in [CPU -> Holder] /\ wclock \in Holder
ThreadTypes == /\ t_cpu \in [Thr -> CPU] /\ t_state \in [Thr -> States]
               /\ t_curspl \in [Thr -> {0, 1}] /\ t_iplhigh_count \in [Thr -> Int]
StackTypes == stack \in [Thr -> Seq(FrameRecord)]
SchedTypes == CpuTypes /\ ListTypes /\ LockTypes /\ ThreadTypes /\ StackTypes

\* A frame has threads in hand only where it is going to queue them.
FrameOk(f) ==
    /\ f.pc \notin {"wake", "send", "migsend"} => f.carry = <<>>
    /\ f.pc \in {"wake", "send"} => f.carry # <<>>

\* A stack is one frame, or an interrupt on top of one.
StacksOk ==
    \A t \in Thr : /\ Len(stack[t]) \in {1, 2} /\ FrameOk(stack[t][1])
                   /\ Len(stack[t]) = 2 => FrameOk(stack[t][2])

\* How a thread waits for a CPU: in thread_switch, or at its end in an
\* interrupt that will return.
Parked(s, state) ==
    \/ Len(s) = 1 /\ s[1].pc = (IF state = "S_ZOMBIE" THEN "dead" ELSE "run")
    \/ Len(s) = 2 /\ s[1].pc = "iret" /\ s[2].pc \in Interrupted /\ state = "S_READY"

\* The spinlocks held at a place of the code.
Held(at) == IF at \in {"send", "sleep", "ipibits"} THEN 1 ELSE 0

\* The thread that a CPU is on: its stack s, its state, its recorded level and
\* its count, while the CPU executes it or an interrupt on its stack.
Running(s, state, spl, count, idle) ==
    /\ Len(s) = 1 => state = "S_RUN" /\ ~idle /\ s[1].pc \in LowPcs /\ spl = 0
    /\ Len(s) = 2 => /\ s[1].pc \in HighPcs /\ spl = 1
                     /\ idle => /\ state \in {"S_READY", "S_SLEEP", "S_ZOMBIE"}
                                /\ s[2].pc = (IF state = "S_ZOMBIE" THEN "dead" ELSE "run")
                     /\ ~idle => state = "S_RUN" /\ s[2].pc \in Interrupted
    /\ count = spl + Held(s[1].pc)

\* The same for every mode of the CPU, with the threads on its run queue.
Standing(t, s, state, spl, count, md, idle, on, queue) ==
    /\ md = "off" => /\ Len(s) = 1 /\ s[1].pc = "run" /\ state = "S_READY" /\ spl = 1 /\ count = 1
                     /\ ~idle
    /\ md \in {"thread", "halted"} => Running(s, state, spl, count, idle)
    /\ md = "thread" => (on <=> count = 0)
    /\ md \notin {"thread", "halted"} => ~on
    /\ md \in {"pick", "resume", "idle", "unidle"} => Parked(s, state) /\ spl = 1
    /\ md = "pick" => /\ state \in {"S_READY", "S_SLEEP", "S_ZOMBIE"} /\ count = 2
                      /\ Len(s) = 2 => t \in queue
    /\ md \in {"idle", "unidle"} =>
         Len(s) = 1 /\ state \in {"S_READY", "S_SLEEP", "S_ZOMBIE"} /\ count = 1 /\ idle
    /\ md = "resume" => state \in {"S_READY", "S_SLEEP"} /\ count = 2 /\ ~idle

\* What CPU c is on fits its mode.
CpuOk(c) ==
    LET t == curthread[c]
    IN Standing(t, stack[t], t_state[t], t_curspl[t], t_iplhigh_count[t], mode[c], c_isidle[c], irq[c],
                Members(c_runqueue[c]))
CpusOk == \A c \in CPU : CpuOk(c)

\* A thread that no CPU is on.
Resting(s, state, spl, count) ==
    Parked(s, state) /\ state # "S_RUN" /\ spl = 1 /\ count = IF state = "free" THEN 1 ELSE 2

\* It is parked, and has counted the lock that it will release.
OffOk ==
    \A t \in Thr : (\A c \in CPU : curthread[c] # t) =>
        Resting(stack[t], t_state[t], t_curspl[t], t_iplhigh_count[t])

\* The spinlocks that CPU c holds.
RqSend(c) == mode[c] = "thread" /\ Top(c).pc = "send"
RqHeld(c, d) == (d = c /\ mode[c] \in {"pick", "resume"}) \/ (RqSend(c) /\ d = t_cpu[InHand(c)])
IpiHeld(c, d) == d = c /\ mode[c] \in {"thread", "halted"} /\ Top(c).pc = "ipibits"
WcHeld(c) == mode[c] = "thread" /\ Top(c).pc = "sleep"
LocksOf(c) ==
    /\ \A d \in CPU : (rqlock[d] = c <=> RqHeld(c, d)) /\ (ipilock[d] = c <=> IpiHeld(c, d))
    /\ wclock = c <=> WcHeld(c)
LocksOk == \A c \in CPU : LocksOf(c)

\* Threads that frames hand over, by the depth of the frame.
Low(u) == Carried(stack[u][Len(stack[u])])
High(u) == IF Len(stack[u]) = 2 THEN Carried(stack[u][1]) ELSE <<>>

\* The list a thread is on: its kind and its number.
Kind == {"rq", "zombies", "wc", "low", "high"}
ListOf(k, n) ==
    IF k = "rq" /\ n \in CPU THEN c_runqueue[n]
    ELSE IF k = "zombies" /\ n \in CPU THEN c_zombies[n]
    ELSE IF k = "wc" /\ n = 0 THEN wc
    ELSE IF k = "low" /\ n \in Thr THEN Low(n)
    ELSE IF k = "high" /\ n \in Thr THEN High(n)
    ELSE <<>>

\* Thread t is on list k of n.
In(t, k, n) == t \in Members(ListOf(k, n))

\* A list has no thread twice.
Once(s) == \A i, j \in 1..Len(s) : s[i] = s[j] => i = j
ListsOnce == \A k \in Kind : \A n \in Int : Once(ListOf(k, n))

\* No thread is on two lists.
OneList == \A t \in Thr : \A k, l \in Kind : \A m, n \in Int : In(t, k, m) /\ In(t, l, n) => k = l /\ m = n

\* A thread that exists is executed by a CPU or on a list, and not both.
Current(t) == \E c \in CPU : curthread[c] = t /\ ~Leaving(c)
Listed(t) == \E k \in Kind : \E n \in Int : In(t, k, n)
AllListed == \A t \in Thr : Listed(t) <=> t_state[t] # "free" /\ ~Current(t)

\* The list that a thread is on fits its state.
ListStates ==
    \A t \in Thr : \A k \in Kind : \A n \in Int :
        In(t, k, n) => IF k = "zombies" THEN t_state[t] = "S_ZOMBIE" ELSE t_state[t] \in {"S_READY", "S_SLEEP"}

\* t_cpu is the CPU that a thread is on, and whose lists it is on.
CpusExact ==
    /\ \A c \in CPU : t_cpu[curthread[c]] = c
    /\ \A t \in Thr : \A k \in {"rq", "zombies"} : \A n \in CPU : In(t, k, n) => t_cpu[t] = n

\* What an executing CPU has in hand: the thread whose CPU it is about to tell
\* is on that CPU's run queue, and is not taken off it; victims are its own; and
\* the counts of thread_consider_migration are not larger than the list.
HandOk(c) ==
    mode[c] = "thread" =>
        /\ Top(c).pc = "send" => InHand(c) \in Members(c_runqueue[t_cpu[InHand(c)]])
        /\ Top(c).pc = "migcount" => Top(c).m.i < NCPU /\ Top(c).m.my <= Len(c_runqueue[c])
        /\ Top(c).pc = "migtake" => Top(c).m.send <= Len(c_runqueue[c])
        /\ Top(c).pc = "migsend" => /\ Top(c).m.send <= Len(Top(c).carry)
                                    /\ \A t \in Members(Top(c).carry) : t_cpu[t] = c
HandsOk == \A c \in CPU : HandOk(c)

\* The invariant.
ShapeInv == SchedTypes /\ StacksOk /\ CpusOk /\ OffOk
ListInv == ListsOnce /\ OneList /\ AllListed /\ ListStates /\ CpusExact
SchedInv == ShapeInv /\ LocksOk /\ ListInv /\ HandsOk

-----------------------------------------------------------------------------
(* Lists *)

\* The empty list.
LEMMA MembersEmpty == Members(<<>>) = {} /\ Once(<<>>)
BY DEF Members, Once

\* The threads on a list are threads.
LEMMA MembersIn ==
    ASSUME NEW s \in Seq(Thr)
    PROVE  Members(s) \in SUBSET Thr
BY DEF Members

\* A list of one.
LEMMA MembersOne ==
    ASSUME NEW x \in Thr
    PROVE  Members(<<x>>) = {x} /\ Once(<<x>>) /\ <<x>> \in Seq(Thr)
BY DEF Members, Once

\* threadlist_addtail.
LEMMA MembersAppend ==
    ASSUME NEW s \in Seq(Thr), NEW x \in Thr
    PROVE  /\ Append(s, x) \in Seq(Thr) /\ Members(Append(s, x)) = Members(s) \union {x}
           /\ Len(Append(s, x)) = Len(s) + 1
           /\ Once(s) /\ x \notin Members(s) => Once(Append(s, x))
<1>1. /\ Append(s, x) \in Seq(Thr) /\ Len(Append(s, x)) = Len(s) + 1 /\ Len(s) \in Nat
      /\ DOMAIN s = 1..Len(s) /\ DOMAIN Append(s, x) = 1..(Len(s) + 1)
      /\ Append(s, x)[Len(s) + 1] = x /\ \A i \in 1..Len(s) : Append(s, x)[i] = s[i]
  OBVIOUS
<1>2. \A i \in 1..(Len(s) + 1) : i \in 1..Len(s) \/ i = Len(s) + 1
  BY <1>1
<1>3. Members(Append(s, x)) = Members(s) \union {x}
  BY <1>1, <1>2 DEF Members
<1>4. Once(s) /\ x \notin Members(s) => Once(Append(s, x))
  BY <1>1, <1>2 DEF Members, Once
<1> QED BY <1>1, <1>3, <1>4

\* threadlist_remhead.
LEMMA MembersTail ==
    ASSUME NEW s \in Seq(Thr), s # <<>>
    PROVE  /\ Head(s) \in Thr /\ Tail(s) \in Seq(Thr) /\ Members(s) = {Head(s)} \union Members(Tail(s))
           /\ Len(Tail(s)) = Len(s) - 1
           /\ Once(s) => Once(Tail(s)) /\ Head(s) \notin Members(Tail(s))
<1>1. /\ Tail(s) \in Seq(Thr) /\ Len(s) \in Nat /\ Len(s) >= 1 /\ Len(Tail(s)) = Len(s) - 1
      /\ DOMAIN s = 1..Len(s) /\ DOMAIN Tail(s) = 1..(Len(s) - 1)
      /\ Head(s) = s[1] /\ Head(s) \in Thr /\ \A i \in 1..(Len(s) - 1) : Tail(s)[i] = s[i + 1]
  OBVIOUS
<1>2. \A i \in 1..Len(s) : i = 1 \/ (i - 1 \in 1..(Len(s) - 1) /\ s[i] = Tail(s)[i - 1])
  BY <1>1
<1>3. Members(s) = {Head(s)} \union Members(Tail(s))
  <2>1. Members(Tail(s)) \subseteq Members(s)
    BY <1>1 DEF Members
  <2>2. \A i \in 1..Len(s) : s[i] \in {Head(s)} \union Members(Tail(s))
    BY <1>1, <1>2 DEF Members
  <2>3. Head(s) \in Members(s)
    BY <1>1 DEF Members
  <2>4. Members(s) \subseteq {Head(s)} \union Members(Tail(s))
    BY <1>1, <2>2 DEF Members
  <2> QED BY <2>1, <2>3, <2>4
<1>4. Once(s) => Once(Tail(s)) /\ Head(s) \notin Members(Tail(s))
  BY <1>1, <1>2 DEF Members, Once
<1> QED BY <1>1, <1>3, <1>4

\* Two lists are joined.
LEMMA MembersConcat ==
    ASSUME NEW s \in Seq(Thr), NEW r \in Seq(Thr)
    PROVE  /\ s \o r \in Seq(Thr) /\ Members(s \o r) = Members(s) \union Members(r)
           /\ Len(s \o r) = Len(s) + Len(r)
           /\ Once(s) /\ Once(r) /\ Members(s) \cap Members(r) = {} => Once(s \o r)
<1>1. /\ s \o r \in Seq(Thr) /\ Len(s) \in Nat /\ Len(r) \in Nat /\ Len(s \o r) = Len(s) + Len(r)
      /\ DOMAIN s = 1..Len(s) /\ DOMAIN r = 1..Len(r) /\ DOMAIN (s \o r) = 1..(Len(s) + Len(r))
      /\ \A i \in 1..Len(s) : (s \o r)[i] = s[i]
      /\ \A i \in 1..Len(r) : (s \o r)[Len(s) + i] = r[i]
  OBVIOUS
<1>2. \A i \in 1..(Len(s) + Len(r)) :
        i \in 1..Len(s) \/ (i - Len(s) \in 1..Len(r) /\ i > Len(s) /\ (s \o r)[i] = r[i - Len(s)])
  BY <1>1
<1>3. Members(s \o r) = Members(s) \union Members(r)
  <2>1. Members(s) \subseteq Members(s \o r)
    BY <1>1 DEF Members
  <2>2. Members(r) \subseteq Members(s \o r)
    <3>1. \A i \in 1..Len(r) : Len(s) + i \in 1..(Len(s) + Len(r))
      BY <1>1
    <3> QED BY <1>1, <3>1 DEF Members
  <2>3. Members(s \o r) \subseteq Members(s) \union Members(r)
    BY <1>1, <1>2 DEF Members
  <2> QED BY <2>1, <2>2, <2>3
<1>4. ASSUME Once(s), Once(r), Members(s) \cap Members(r) = {} PROVE Once(s \o r)
  <2>1. \A i \in 1..Len(s) : \A j \in 1..Len(r) : s[i] # r[j]
    BY <1>1, <1>4 DEF Members
  <2> QED BY <1>1, <1>2, <1>4, <2>1 DEF Once
<1> QED BY <1>1, <1>3, <1>4

\* A list is cut in two.
LEMMA MembersCut ==
    ASSUME NEW s \in Seq(Thr), NEW n \in Nat, n <= Len(s)
    PROVE  /\ SubSeq(s, 1, n) \in Seq(Thr) /\ SubSeq(s, n + 1, Len(s)) \in Seq(Thr)
           /\ Len(SubSeq(s, 1, n)) = n /\ Len(SubSeq(s, n + 1, Len(s))) = Len(s) - n
           /\ Members(s) = Members(SubSeq(s, 1, n)) \union Members(SubSeq(s, n + 1, Len(s)))
           /\ Once(s) => /\ Once(SubSeq(s, 1, n)) /\ Once(SubSeq(s, n + 1, Len(s)))
                         /\ Members(SubSeq(s, 1, n)) \cap Members(SubSeq(s, n + 1, Len(s))) = {}
<1> DEFINE a == SubSeq(s, 1, n)
           b == SubSeq(s, n + 1, Len(s))
<1>0. Len(s) \in Nat /\ DOMAIN s = 1..Len(s) /\ \A i \in 1..Len(s) : s[i] \in Thr
  OBVIOUS
<1>1. /\ a \in Seq(Thr) /\ Len(a) = n /\ DOMAIN a = 1..n /\ \A i \in 1..n : a[i] = s[i]
  <2>1. Len(a) = n /\ DOMAIN a = 1..n /\ \A i \in 1..n : a[i] = s[i]
    BY <1>0
  <2> QED BY <1>0, <2>1
<1>2. /\ b \in Seq(Thr) /\ Len(b) = Len(s) - n /\ DOMAIN b = 1..(Len(s) - n)
      /\ \A i \in 1..(Len(s) - n) : b[i] = s[n + i]
  <2>1. Len(b) = Len(s) - n /\ DOMAIN b = 1..(Len(s) - n) /\ \A i \in 1..(Len(s) - n) : b[i] = s[n + i]
    BY <1>0
  <2>2. b \in Seq(Thr)
    BY <1>0, SubSeqProperties
  <2> QED BY <2>1, <2>2
<1> HIDE DEF a, b
<1>3. \A i \in 1..Len(s) : \/ (i \in 1..n /\ a[i] = s[i])
                           \/ (i - n \in 1..(Len(s) - n) /\ i > n /\ b[i - n] = s[i])
  BY <1>0, <1>1, <1>2
<1>4. Members(s) = Members(a) \union Members(b)
  <2>1. Members(a) \subseteq Members(s)
    BY <1>0, <1>1 DEF Members
  <2>2. Members(b) \subseteq Members(s)
    <3>1. \A i \in 1..(Len(s) - n) : n + i \in 1..Len(s)
      BY <1>0
    <3> QED BY <1>0, <1>2, <3>1 DEF Members
  <2>3. Members(s) \subseteq Members(a) \union Members(b)
    <3>1. \A i \in 1..Len(s) : s[i] \in Members(a) \union Members(b)
      BY <1>1, <1>2, <1>3 DEF Members
    <3> QED BY <1>0, <3>1 DEF Members
  <2> QED BY <2>1, <2>2, <2>3
<1>5. ASSUME Once(s) PROVE Once(a) /\ Once(b) /\ Members(a) \cap Members(b) = {}
  <2>1. Once(a)
    BY <1>0, <1>1, <1>5 DEF Once
  <2>2. Once(b)
    BY <1>0, <1>2, <1>5 DEF Once
  <2>3. \A i \in 1..n : \A j \in 1..(Len(s) - n) : a[i] # b[j]
    BY <1>0, <1>1, <1>2, <1>5 DEF Once
  <2>4. Members(a) \cap Members(b) = {}
    BY <1>1, <1>2, <2>3 DEF Members
  <2> QED BY <2>1, <2>2, <2>4
<1> QED BY <1>1, <1>2, <1>4, <1>5 DEF a, b

\* The victims but for the current thread.
LEMMA SentIs ==
    ASSUME NEW c \in CPU, curthread[c] \in Thr, NEW v \in Seq(Thr), Once(v)
    PROVE  /\ Sent(c, v) \in Seq(Thr) /\ Once(Sent(c, v))
           /\ Members(Sent(c, v)) = Members(v) \ {curthread[c]}
<1>1. CASE curthread[c] \notin Members(v)
  BY <1>1 DEF Sent
<1>2. CASE curthread[c] \in Members(v)
  <2>1. PICK k \in 1..Len(v) : /\ v[k] = curthread[c]
                               /\ Sent(c, v) = SubSeq(v, 1, k - 1) \o SubSeq(v, k + 1, Len(v))
    <3>1. \E i \in DOMAIN v : v[i] = curthread[c]
      BY <1>2 DEF Members
    <3> DEFINE k == CHOOSE i \in DOMAIN v : v[i] = curthread[c]
    <3>2. k \in DOMAIN v /\ v[k] = curthread[c]
      BY <3>1
    <3>3. k \in 1..Len(v)
      BY <3>2
    <3>4. Sent(c, v) = SubSeq(v, 1, k - 1) \o SubSeq(v, k + 1, Len(v))
      BY <1>2 DEF Sent
    <3> QED BY <3>2, <3>3, <3>4
  <2> DEFINE a == SubSeq(v, 1, k - 1)
             d == SubSeq(v, (k - 1) + 1, Len(v))
             p == SubSeq(v, 1, k)
             b == SubSeq(v, k + 1, Len(v))
  <2>2. /\ Len(v) \in Nat /\ k \in Nat /\ k - 1 \in Nat /\ k - 1 <= Len(v) /\ k <= Len(v)
    BY <2>1
  <2>3. /\ a \in Seq(Thr) /\ Once(a) /\ Members(a) \cap Members(d) = {} /\ Members(v) = Members(a) \union Members(d)
    BY <2>2, MembersCut
  <2>4. /\ b \in Seq(Thr) /\ Once(b) /\ Members(p) \cap Members(b) = {} /\ Members(v) = Members(p) \union Members(b)
    BY <2>2, MembersCut
  <2>5. Members(p) = Members(a) \union {v[k]}
    <3>1. DOMAIN a = 1..(k - 1) /\ \A i \in 1..(k - 1) : a[i] = v[i]
      BY <2>1, <2>2
    <3>2. DOMAIN p = 1..k /\ \A i \in 1..k : p[i] = v[i]
      BY <2>1, <2>2
    <3>3. 1..k = 1..(k - 1) \union {k}
      BY <2>2, <2>1
    <3> HIDE DEF a, p
    <3> QED BY <3>1, <3>2, <3>3 DEF Members
  <2>6. v[k] \in Members(d)
    <3>1. DOMAIN d = 1..(Len(v) - k + 1) /\ d[1] = v[k] /\ 1 \in 1..(Len(v) - k + 1)
      BY <2>1, <2>2
    <3> HIDE DEF d
    <3> QED BY <3>1 DEF Members
  <2> HIDE DEF a, b, d, p
  <2>7. Members(a) \cap Members(b) = {} /\ Members(a) \union Members(b) = Members(v) \ {v[k]}
    BY <2>3, <2>4, <2>5, <2>6
  <2>8. a \o b \in Seq(Thr) /\ Members(a \o b) = Members(a) \union Members(b) /\ Once(a \o b)
    BY <2>3, <2>4, <2>7, MembersConcat
  <2> QED BY <2>1, <2>7, <2>8 DEF a, b
<1> QED BY <1>1, <1>2

-----------------------------------------------------------------------------
(* Stacks *)

\* The top frame of a stack is replaced.
LEMMA TopSet ==
    ASSUME StackTypes, StacksOk, NEW t \in Thr, NEW f \in FrameRecord, SetTop(t, f)
    PROVE  /\ stack' \in [Thr -> Seq(FrameRecord)]
           /\ stack'[t] \in Seq(FrameRecord) /\ Len(stack'[t]) = Len(stack[t]) /\ stack'[t][1] = f
           /\ Len(stack[t]) = 2 => stack'[t][2] = stack[t][2]
           /\ \A u \in Thr : u # t => stack'[u] = stack[u]
<1>1. stack[t] \in Seq(FrameRecord) /\ Len(stack[t]) \in {1, 2}
  BY DEF StackTypes, StacksOk
<1>2. PICK s : s = [stack[t] EXCEPT ![1] = f]
  OBVIOUS
<1>3. /\ s \in Seq(FrameRecord) /\ Len(s) = Len(stack[t]) /\ s[1] = f
      /\ Len(stack[t]) = 2 => s[2] = stack[t][2]
  BY <1>1, <1>2
<1>4. stack' = [stack EXCEPT ![t] = s]
  BY <1>2 DEF SetTop
<1>5. stack'[t] = s /\ \A u \in Thr : u # t => stack'[u] = stack[u]
  BY <1>4 DEF StackTypes
<1>6. stack' \in [Thr -> Seq(FrameRecord)]
  BY <1>3, <1>4 DEF StackTypes
<1> QED BY <1>3, <1>5, <1>6

\* An interrupt puts a frame on top of the only one.
LEMMA Pushed ==
    ASSUME StackTypes, NEW t \in Thr, Len(stack[t]) = 1, NEW f \in FrameRecord,
           stack' = [stack EXCEPT ![t] = <<f>> \o @]
    PROVE  /\ stack' \in [Thr -> Seq(FrameRecord)]
           /\ Len(stack'[t]) = 2 /\ stack'[t][1] = f /\ stack'[t][2] = stack[t][1]
           /\ \A u \in Thr : u # t => stack'[u] = stack[u]
<1>1. stack[t] \in Seq(FrameRecord)
  BY DEF StackTypes
<1>2. PICK s : s = <<f>> \o stack[t]
  OBVIOUS
<1>3. s \in Seq(FrameRecord) /\ Len(s) = 2 /\ s[1] = f /\ s[2] = stack[t][1]
  BY <1>1, <1>2
<1>4. stack' = [stack EXCEPT ![t] = s]
  BY <1>2
<1>5. stack'[t] = s /\ \A u \in Thr : u # t => stack'[u] = stack[u]
  BY <1>4 DEF StackTypes
<1>6. stack' \in [Thr -> Seq(FrameRecord)]
  BY <1>3, <1>4 DEF StackTypes
<1> QED BY <1>3, <1>5, <1>6

\* The end of an interrupt.
LEMMA Popped ==
    ASSUME StackTypes, NEW t \in Thr, Len(stack[t]) = 2, stack' = [stack EXCEPT ![t] = Tail(@)]
    PROVE  /\ stack' \in [Thr -> Seq(FrameRecord)]
           /\ Len(stack'[t]) = 1 /\ stack'[t][1] = stack[t][2]
           /\ \A u \in Thr : u # t => stack'[u] = stack[u]
<1>1. stack[t] \in Seq(FrameRecord)
  BY DEF StackTypes
<1>2. PICK s : s = Tail(stack[t])
  OBVIOUS
<1>3. s \in Seq(FrameRecord) /\ Len(s) = 1 /\ s[1] = stack[t][2]
  BY <1>1, <1>2
<1>4. stack' = [stack EXCEPT ![t] = s]
  BY <1>2
<1>5. stack'[t] = s /\ \A u \in Thr : u # t => stack'[u] = stack[u]
  BY <1>4 DEF StackTypes
<1>6. stack' \in [Thr -> Seq(FrameRecord)]
  BY <1>3, <1>4 DEF StackTypes
<1> QED BY <1>3, <1>5, <1>6

\* A frame without threads in hand.
LEMMA FrameIs ==
    ASSUME NEW at \in Pcs
    PROVE  /\ Frame(at) \in FrameRecord /\ Frame(at).pc = at /\ Frame(at).carry = <<>>
           /\ Frame(at).m = NoMig /\ NoMig \in MigRecord
BY DEF Frame, FrameRecord, NoMig, MigRecord

-----------------------------------------------------------------------------
(* A step of one CPU *)

\* The step changes nothing of other CPUs and of other threads than the one it
\* is on, but for lists and spinlocks.
Solo(c) ==
    /\ curthread' = curthread
    /\ \A d \in CPU : d # c => mode'[d] = mode[d] /\ c_isidle'[d] = c_isidle[d] /\ irq'[d] = irq[d]
    /\ \A u \in Thr : u # curthread[c] => /\ stack'[u] = stack[u] /\ t_state'[u] = t_state[u]
                                          /\ t_curspl'[u] = t_curspl[u]
                                          /\ t_iplhigh_count'[u] = t_iplhigh_count[u]

\* Nothing is taken from the run queues of the others.
QueuesKept(c) ==
    \A d \in CPU : d # c => /\ Members(c_runqueue[d]) \subseteq Members(c_runqueue'[d])
                            /\ Len(c_runqueue[d]) <= Len(c_runqueue'[d])

\* The spinlocks of the others.
OtherLocks(c) ==
    \A e \in CPU : e # c =>
        /\ \A d \in CPU : (rqlock'[d] = e <=> rqlock[d] = e) /\ (ipilock'[d] = e <=> ipilock[d] = e)
        /\ wclock' = e <=> wclock = e

\* Threads that others have in hand stay on their CPU, and on its run queue.
HandsKept(c) ==
    \A e \in CPU : e # c /\ mode[e] = "thread" =>
        /\ Top(e).pc = "send" => /\ t_cpu'[InHand(e)] = t_cpu[InHand(e)]
                                 /\ InHand(e) \in Members(c_runqueue'[t_cpu[InHand(e)]])
        /\ Top(e).pc = "migsend" => \A t \in Members(Top(e).carry) : t_cpu'[t] = t_cpu[t]

\* A CPU is on a thread of its own.
LEMMA Mine ==
    ASSUME CpusExact, NEW c \in CPU, NEW d \in CPU, c # d
    PROVE  curthread[c] # curthread[d]
BY DEF CpusExact

\* The frame that a CPU executes.
LEMMA TopTyped ==
    ASSUME CpuTypes, StackTypes, StacksOk, NEW c \in CPU
    PROVE  Top(c) \in FrameRecord
<1>1. curthread[c] \in Thr
  BY DEF CpuTypes
<1>2. stack[curthread[c]] \in Seq(FrameRecord) /\ 1 \in 1..Len(stack[curthread[c]])
  BY <1>1 DEF StackTypes, StacksOk
<1> QED BY <1>2 DEF Top

\* To be queued helps.
LEMMA StandingQueued ==
    ASSUME NEW t, NEW s, NEW state, NEW spl, NEW count, NEW md, NEW idle, NEW on, NEW q, NEW q2,
           Standing(t, s, state, spl, count, md, idle, on, q), q \subseteq q2
    PROVE  Standing(t, s, state, spl, count, md, idle, on, q2)
BY DEF Standing

\* The other CPUs and the threads that they are on are as they were.
OtherCpus(c) ==
    \A d \in CPU : d # c =>
        /\ curthread'[d] = curthread[d] /\ mode'[d] = mode[d] /\ c_isidle'[d] = c_isidle[d] /\ irq'[d] = irq[d]
        /\ stack'[curthread[d]] = stack[curthread[d]] /\ t_state'[curthread[d]] = t_state[curthread[d]]
        /\ t_curspl'[curthread[d]] = t_curspl[curthread[d]]
        /\ t_iplhigh_count'[curthread[d]] = t_iplhigh_count[curthread[d]]

\* A step of one CPU that changes no other thread.
LEMMA SoloOthers ==
    ASSUME CpuTypes, CpusExact, NEW c \in CPU, Solo(c)
    PROVE  OtherCpus(c)
<1>1. \A d \in CPU : d # c => curthread[d] \in Thr /\ curthread[d] # curthread[c]
  BY Mine DEF CpuTypes
<1> QED BY <1>1 DEF Solo, OtherCpus

\* Where CPUs stand after a step of one of them.
LEMMA OthersStand ==
    ASSUME CpuTypes, CpusOk, NEW c \in CPU, OtherCpus(c), QueuesKept(c), CpuOk(c)'
    PROVE  CpusOk'
<1>1. ASSUME NEW d \in CPU, d # c PROVE CpuOk(d)'
  <2>1. PICK t : t = curthread[d]
    OBVIOUS
  <2>2. /\ stack'[t] = stack[t] /\ t_state'[t] = t_state[t] /\ t_curspl'[t] = t_curspl[t]
        /\ t_iplhigh_count'[t] = t_iplhigh_count[t] /\ curthread'[d] = t
    BY <1>1, <2>1 DEF OtherCpus
  <2>3. mode'[d] = mode[d] /\ c_isidle'[d] = c_isidle[d] /\ irq'[d] = irq[d]
    BY <1>1 DEF OtherCpus
  <2>4. Standing(t, stack[t], t_state[t], t_curspl[t], t_iplhigh_count[t], mode[d], c_isidle[d], irq[d],
                 Members(c_runqueue[d]))
    BY <2>1 DEF CpusOk, CpuOk
  <2>5. Members(c_runqueue[d]) \subseteq Members(c_runqueue'[d])
    BY <1>1 DEF QueuesKept
  <2>6. Standing(t, stack[t], t_state[t], t_curspl[t], t_iplhigh_count[t], mode[d], c_isidle[d], irq[d],
                 Members(c_runqueue'[d]))
    BY <2>4, <2>5, StandingQueued, Zenon
  <2> QED BY <2>2, <2>3, <2>6, Zenon DEF CpuOk
<1> QED BY <1>1 DEF CpusOk

\* Threads and CPUs after a step of one CPU that changes no other thread.
LEMMA SoloShape ==
    ASSUME CpuTypes, CpusOk, OffOk, CpusExact, NEW c \in CPU, Solo(c), QueuesKept(c), CpuOk(c)'
    PROVE  CpusOk' /\ OffOk'
<1>1. curthread' = curthread
  BY DEF Solo
<1>3. CpusOk'
  BY SoloOthers, OthersStand
<1>4. ASSUME NEW t \in Thr, \A d \in CPU : curthread'[d] # t
      PROVE  Resting(stack'[t], t_state'[t], t_curspl'[t], t_iplhigh_count'[t])
  <2>1. Resting(stack[t], t_state[t], t_curspl[t], t_iplhigh_count[t]) /\ t # curthread[c]
    BY <1>1, <1>4 DEF OffOk
  <2>2. /\ stack'[t] = stack[t] /\ t_state'[t] = t_state[t] /\ t_curspl'[t] = t_curspl[t]
        /\ t_iplhigh_count'[t] = t_iplhigh_count[t]
    BY <2>1 DEF Solo
  <2> QED BY <2>1, <2>2, Zenon
<1> QED BY <1>3, <1>4 DEF OffOk

\* What the others have in hand, after a step of one CPU.
LEMMA OthersTop ==
    ASSUME NEW c \in CPU, OtherCpus(c), NEW e \in CPU, e # c
    PROVE  mode'[e] = mode[e] /\ Top(e)' = Top(e) /\ InHand(e)' = InHand(e)
<1>1. mode'[e] = mode[e] /\ Top(e)' = Top(e)
  BY DEF OtherCpus, Top
<1> QED BY <1>1 DEF InHand

\* Spinlocks after a step of one CPU.
LEMMA OthersLocks ==
    ASSUME LocksOk, NEW c \in CPU, OtherCpus(c), OtherLocks(c), HandsKept(c), LocksOf(c)'
    PROVE  LocksOk'
<1>1. ASSUME NEW e \in CPU, e # c PROVE LocksOf(e)'
  <2>1. mode'[e] = mode[e] /\ Top(e)' = Top(e) /\ InHand(e)' = InHand(e)
    BY <1>1, OthersTop
  <2>2. RqSend(e) => t_cpu'[InHand(e)] = t_cpu[InHand(e)]
    BY <1>1 DEF HandsKept, RqSend
  <2>3. \A d \in CPU : RqHeld(e, d)' <=> RqHeld(e, d)
    BY <2>1, <2>2 DEF RqHeld, RqSend
  <2>4. \A d \in CPU : IpiHeld(e, d)' <=> IpiHeld(e, d)
    BY <2>1 DEF IpiHeld
  <2>5. WcHeld(e)' <=> WcHeld(e)
    BY <2>1 DEF WcHeld
  <2>6. LocksOf(e)
    BY DEF LocksOk
  <2> QED BY <1>1, <2>3, <2>4, <2>5, <2>6 DEF LocksOf, OtherLocks
<1> QED BY <1>1 DEF LocksOk

\* The same for what they have in hand.
LEMMA OthersHands ==
    ASSUME CpuTypes, ListTypes, StackTypes, StacksOk, HandsOk, NEW c \in CPU, OtherCpus(c), QueuesKept(c),
           HandsKept(c), HandOk(c)', ListTypes'
    PROVE  HandsOk'
<1>1. ASSUME NEW e \in CPU, e # c PROVE HandOk(e)'
  <2>1. mode'[e] = mode[e] /\ Top(e)' = Top(e) /\ InHand(e)' = InHand(e)
    BY <1>1, OthersTop
  <2>2. HandOk(e)
    BY DEF HandsOk
  <2> SUFFICES ASSUME mode[e] = "thread" PROVE HandOk(e)'
    BY <2>1 DEF HandOk
  <2>3. Top(e).pc = "send" => InHand(e) \in Members(c_runqueue'[t_cpu'[InHand(e)]])
    BY <1>1 DEF HandsKept
  <2>4. Len(c_runqueue[e]) \in Nat /\ Len(c_runqueue'[e]) \in Nat /\ Len(c_runqueue[e]) <= Len(c_runqueue'[e])
    BY <1>1 DEF QueuesKept, ListTypes
  <2>5. Top(e) \in FrameRecord
    BY TopTyped
  <2>6. Top(e).m.my \in Nat /\ Top(e).m.send \in Nat
    BY <2>5 DEF FrameRecord, MigRecord
  <2>7. Top(e).pc = "migcount" => Top(e).m.i < NCPU /\ Top(e).m.my <= Len(c_runqueue'[e])
    BY <2>2, <2>4, <2>6 DEF HandOk
  <2>8. Top(e).pc = "migtake" => Top(e).m.send <= Len(c_runqueue'[e])
    BY <2>2, <2>4, <2>6 DEF HandOk
  <2>9. Top(e).pc = "migsend" => /\ Top(e).m.send <= Len(Top(e).carry)
                                 /\ \A t \in Members(Top(e).carry) : t_cpu'[t] = e
    BY <1>1, <2>2 DEF HandOk, HandsKept
  <2> QED BY <2>1, <2>3, <2>7, <2>8, <2>9 DEF HandOk
<1> QED BY <1>1 DEF HandsOk

\* No list changes.
SameLists ==
    /\ UNCHANGED <<c_runqueue, c_zombies, wc>>
    /\ \A u \in Thr : Low(u)' = Low(u) /\ High(u)' = High(u)

\* Then every thread is where it was.
LEMMA InSame ==
    ASSUME SameLists, NEW t, NEW k, NEW n
    PROVE  In(t, k, n)' <=> In(t, k, n)
<1>1. ListOf(k, n)' = ListOf(k, n)
  BY DEF SameLists, ListOf
<1> QED BY <1>1 DEF In

\* A thread that a CPU executes is on no list.
LEMMA CurrentUnlisted ==
    ASSUME ListInv, NEW t \in Thr, Current(t)
    PROVE  \A k \in Kind : \A n \in Int : ~In(t, k, n)
BY DEF ListInv, AllListed, Listed

\* The lists are left alone, and no thread is made or destroyed.
LEMMA ListsAlone ==
    ASSUME ListInv, SameLists, curthread' = curthread, t_cpu' = t_cpu,
           \A t \in Thr : Current(t)' <=> Current(t),
           \A t \in Thr : \/ t_state'[t] = t_state[t]
                          \/ Current(t) /\ t_state[t] # "free" /\ t_state'[t] # "free"
    PROVE  ListInv'
<1>1. \A t \in Thr : \A k \in Kind : \A n \in Int : In(t, k, n)' <=> In(t, k, n)
  BY InSame
<1>2. ListsOnce'
  <2>1. \A k \in Kind : \A n \in Int : ListOf(k, n)' = ListOf(k, n)
    BY DEF SameLists, ListOf
  <2> QED BY <2>1 DEF ListInv, ListsOnce
<1>3. OneList'
  BY <1>1 DEF ListInv, OneList
<1>4. \A t \in Thr : Listed(t)' <=> Listed(t)
  BY <1>1 DEF Listed
<1>5. AllListed'
  BY <1>4 DEF ListInv, AllListed
<1>6. ListStates'
  <2> SUFFICES ASSUME NEW t \in Thr, NEW k \in Kind, NEW n \in Int, In(t, k, n)'
               PROVE  IF k = "zombies" THEN t_state'[t] = "S_ZOMBIE" ELSE t_state'[t] \in {"S_READY", "S_SLEEP"}
    BY DEF ListStates
  <2>1. In(t, k, n) /\ ~Current(t)
    BY <1>1, CurrentUnlisted
  <2>2. t_state'[t] = t_state[t]
    BY <2>1
  <2> QED BY <2>1, <2>2 DEF ListInv, ListStates
<1>7. CpusExact'
  <2>1. \A t \in Thr : \A k \in {"rq", "zombies"} : \A n \in CPU : In(t, k, n)' <=> In(t, k, n)
    BY InSame
  <2> QED BY <2>1 DEF ListInv, CpusExact
<1> QED BY <1>2, <1>3, <1>5, <1>6, <1>7 DEF ListInv

\* The top frame changes, and not what it has in hand.
LEMMA TopSame ==
    ASSUME StackTypes, StacksOk, NEW t \in Thr, NEW f \in FrameRecord, SetTop(t, f), Carried(f) = Carried(stack[t][1])
    PROVE  \A u \in Thr : Low(u)' = Low(u) /\ High(u)' = High(u)
<1>1. /\ Len(stack'[t]) = Len(stack[t]) /\ stack'[t][1] = f /\ Len(stack[t]) \in {1, 2}
      /\ Len(stack[t]) = 2 => stack'[t][2] = stack[t][2]
      /\ \A u \in Thr : u # t => stack'[u] = stack[u]
  BY TopSet DEF StacksOk
<1>2. Low(t)' = Low(t) /\ High(t)' = High(t)
  BY <1>1 DEF Low, High
<1>3. \A u \in Thr : u # t => Low(u)' = Low(u) /\ High(u)' = High(u)
  BY <1>1 DEF Low, High
<1> QED BY <1>2, <1>3

\* The frame f fits the stack of the thread that c is on.
Fits(c, f) ==
    /\ FrameOk(f)
    /\ Len(stack[curthread[c]]) = 1 => f.pc \in LowPcs
    /\ Len(stack[curthread[c]]) = 2 => f.pc \in HighPcs

\* The thread's count and the CPU's interrupts after it has moved on to pc.
Levels(c, at) ==
    LET t == curthread[c]
    IN /\ t_curspl' = t_curspl /\ t_iplhigh_count' \in [Thr -> Int] /\ irq' \in [CPU -> BOOLEAN]
       /\ t_iplhigh_count'[t] = t_curspl[t] + Held(at)
       /\ \A u \in Thr : u # t => t_iplhigh_count'[u] = t_iplhigh_count[u]
       /\ irq'[c] <=> t_iplhigh_count'[t] = 0
       /\ \A d \in CPU : d # c => irq'[d] = irq[d]

\* A step from one place of the code to the next, with the lists as they have to be.
LEMMA MoveStep ==
    ASSUME SchedInv, NEW c \in CPU, NEW f \in FrameRecord, mode[c] = "thread", SetTop(curthread[c], f), Fits(c, f),
           UNCHANGED <<curthread, mode, c_isidle, t_state>>, t_cpu' \in [Thr -> CPU], Levels(c, f.pc),
           QueuesKept(c), HandsKept(c), ListTypes', LockTypes', OtherLocks(c), LocksOf(c)', HandOk(c)', ListInv'
    PROVE  SchedInv'
<1>0. /\ CpuTypes /\ ListTypes /\ LockTypes /\ ThreadTypes /\ StackTypes /\ StacksOk /\ CpusOk /\ OffOk
      /\ LocksOk /\ ListInv /\ HandsOk /\ CpusExact
  BY DEF SchedInv, ShapeInv, SchedTypes, ListInv
<1>1. PICK t \in Thr : t = curthread[c] /\ Top(c) = stack[t][1]
  BY <1>0 DEF CpuTypes, Top
<1>2. /\ stack' \in [Thr -> Seq(FrameRecord)] /\ Len(stack'[t]) = Len(stack[t]) /\ stack'[t][1] = f
      /\ Len(stack[t]) \in {1, 2} /\ (Len(stack[t]) = 2 => stack'[t][2] = stack[t][2])
      /\ \A u \in Thr : u # t => stack'[u] = stack[u]
  BY <1>0, <1>1, TopSet DEF StacksOk
<1>3. /\ t_curspl' = t_curspl /\ t_iplhigh_count' \in [Thr -> Int] /\ irq' \in [CPU -> BOOLEAN]
      /\ t_iplhigh_count'[t] = t_curspl[t] + Held(f.pc)
      /\ \A u \in Thr : u # t => t_iplhigh_count'[u] = t_iplhigh_count[u]
      /\ irq'[c] <=> t_iplhigh_count'[t] = 0
      /\ \A d \in CPU : d # c => irq'[d] = irq[d]
  BY <1>1 DEF Levels
<1>4. SchedTypes'
  BY <1>0, <1>2, <1>3 DEF SchedTypes, CpuTypes, ThreadTypes, StackTypes
<1>5. StacksOk'
  BY <1>0, <1>1, <1>2 DEF StacksOk, Fits
<1>6. Solo(c)
  BY <1>1, <1>2, <1>3 DEF Solo
<1>7. CpuOk(c)'
  <2>1. Standing(t, stack[t], t_state[t], t_curspl[t], t_iplhigh_count[t], "thread", c_isidle[c], irq[c],
                 Members(c_runqueue[c]))
    BY <1>0, <1>1 DEF CpusOk, CpuOk
  <2>2. Running(stack[t], t_state[t], t_curspl[t], t_iplhigh_count[t], c_isidle[c])
    BY <2>1 DEF Standing
  <2>3. Running(stack'[t], t_state[t], t_curspl[t], t_iplhigh_count'[t], c_isidle[c])
    BY <1>1, <1>2, <1>3, <2>2 DEF Running, Fits
  <2>4. Standing(t, stack'[t], t_state[t], t_curspl[t], t_iplhigh_count'[t], "thread", c_isidle[c], irq'[c],
                 Members(c_runqueue'[c]))
    BY <1>3, <2>3 DEF Standing
  <2> QED BY <1>1, <1>3, <2>4 DEF CpuOk
<1>9. CpusOk' /\ OffOk'
  BY <1>0, <1>6, <1>7, SoloShape
<1>10. LocksOk'
  BY <1>0, <1>6, SoloOthers, OthersLocks
<1>11. HandsOk'
  BY <1>0, <1>4, <1>6, SoloOthers, OthersHands DEF SchedTypes
<1> QED BY <1>4, <1>5, <1>9, <1>10, <1>11 DEF SchedInv, ShapeInv

\* CPUs, lists and states are left alone.
Untouched == UNCHANGED <<curthread, mode, c_isidle, c_runqueue, c_zombies, wc, t_cpu, t_state>>

\* A step in which no thread changes hands.
LEMMA QuietStep ==
    ASSUME SchedInv, NEW c \in CPU, NEW f \in FrameRecord, mode[c] = "thread", SetTop(curthread[c], f), Fits(c, f),
           Carried(f) = Carried(Top(c)), Untouched, Levels(c, f.pc),
           LockTypes', OtherLocks(c), LocksOf(c)', HandOk(c)'
    PROVE  SchedInv'
<1>0. CpuTypes /\ ListTypes /\ ThreadTypes /\ StackTypes /\ StacksOk /\ ListInv /\ HandsOk
  BY DEF SchedInv, ShapeInv, SchedTypes
<1>1. QueuesKept(c) /\ HandsKept(c)
  <2>1. QueuesKept(c)
    BY <1>0 DEF QueuesKept, Untouched, ListTypes
  <2>2. HandsKept(c)
    BY <1>0 DEF HandsKept, Untouched, HandsOk, HandOk
  <2> QED BY <2>1, <2>2
<1>2. ListTypes' /\ t_cpu' \in [Thr -> CPU]
  BY <1>0 DEF ListTypes, ThreadTypes, Untouched
<1>3. SameLists
  <2>1. curthread[c] \in Thr /\ Top(c) = stack[curthread[c]][1]
    BY <1>0 DEF CpuTypes, Top
  <2>2. \A u \in Thr : Low(u)' = Low(u) /\ High(u)' = High(u)
    BY <1>0, <2>1, TopSame
  <2> QED BY <2>2 DEF SameLists, Untouched
<1>4. ListInv'
  <2>1. \A u \in Thr : Current(u)' <=> Current(u)
    BY DEF Current, Leaving, Untouched
  <2> QED BY <1>0, <1>3, <2>1, ListsAlone DEF Untouched
<1> QED BY <1>1, <1>2, <1>4, MoveStep DEF Untouched

-----------------------------------------------------------------------------
(* Steps in which no thread changes hands *)

\* The thread that an executing CPU is on.
LEMMA Executing ==
    ASSUME SchedInv, NEW c \in CPU, mode[c] = "thread"
    PROVE  /\ curthread[c] \in Thr /\ Top(c) = stack[curthread[c]][1] /\ Top(c) \in FrameRecord /\ FrameOk(Top(c))
           /\ Running(stack[curthread[c]], t_state[curthread[c]], t_curspl[curthread[c]],
                      t_iplhigh_count[curthread[c]], c_isidle[c])
           /\ irq[c] <=> t_iplhigh_count[curthread[c]] = 0
           /\ t_iplhigh_count[curthread[c]] = t_curspl[curthread[c]] + Held(Top(c).pc)
           /\ t_curspl[curthread[c]] \in {0, 1}
           /\ Len(stack[curthread[c]]) \in {1, 2}
           /\ Len(stack[curthread[c]]) = 1 => Top(c).pc \in LowPcs
           /\ Len(stack[curthread[c]]) = 2 => Top(c).pc \in HighPcs
<1>0. CpuTypes /\ ThreadTypes /\ StackTypes /\ StacksOk /\ CpuOk(c)
  BY DEF SchedInv, ShapeInv, SchedTypes, CpusOk
<1>1. PICK t \in Thr : t = curthread[c]
  BY <1>0 DEF CpuTypes
<1>2. Top(c) = stack[t][1] /\ Top(c) \in FrameRecord /\ FrameOk(Top(c)) /\ Len(stack[t]) \in {1, 2}
  BY <1>0, <1>1, TopTyped DEF Top, StacksOk
<1>3. Standing(t, stack[t], t_state[t], t_curspl[t], t_iplhigh_count[t], "thread", c_isidle[c], irq[c],
               Members(c_runqueue[c]))
  BY <1>0, <1>1 DEF CpuOk
<1>4. Running(stack[t], t_state[t], t_curspl[t], t_iplhigh_count[t], c_isidle[c])
  BY <1>3 DEF Standing
<1>5. irq[c] <=> t_iplhigh_count[t] = 0
  BY <1>3 DEF Standing
<1>6. /\ t_iplhigh_count[t] = t_curspl[t] + Held(Top(c).pc) /\ (Len(stack[t]) = 1 => Top(c).pc \in LowPcs)
      /\ (Len(stack[t]) = 2 => Top(c).pc \in HighPcs)
  BY <1>2, <1>4 DEF Running
<1>7. t_curspl[t] \in {0, 1}
  BY <1>0 DEF ThreadTypes
<1> QED BY <1>1, <1>2, <1>4, <1>5, <1>6, <1>7

\* Where a spinlock is held, and where HandOk says something.
LockPcs == {"send", "sleep", "ipibits"}
HandPcs == {"send", "migcount", "migtake", "migsend"}

\* The new top frame is what the CPU executes next.
LEMMA TopNow ==
    ASSUME SchedInv, NEW c \in CPU, NEW f \in FrameRecord, SetTop(curthread[c], f), curthread' = curthread
    PROVE  Top(c)' = f
<1>1. curthread[c] \in Thr /\ StackTypes /\ StacksOk
  BY DEF SchedInv, ShapeInv, SchedTypes, CpuTypes
<1> QED BY <1>1, TopSet DEF Top

\* A step that has no spinlock before or after and takes none for longer.
LEMMA PlainStep ==
    ASSUME SchedInv, NEW c \in CPU, NEW f \in FrameRecord, mode[c] = "thread", SetTop(curthread[c], f), Fits(c, f),
           Carried(f) = Carried(Top(c)), Untouched, UNCHANGED <<irq, splVars, lockVars>>,
           Top(c).pc \notin LockPcs, f.pc \notin LockPcs, HandOk(c)'
    PROVE  SchedInv'
<1>0. CpuTypes /\ LockTypes /\ ThreadTypes /\ LocksOf(c)
  BY DEF SchedInv, ShapeInv, SchedTypes, LocksOk
<1>1. Top(c)' = f /\ mode' = mode
  BY TopNow DEF Untouched
<1>2. Levels(c, f.pc)
  BY <1>0, Executing DEF Levels, splVars, CpuTypes, ThreadTypes, Held, LockPcs
<1>3. LockTypes' /\ OtherLocks(c)
  BY <1>0 DEF LockTypes, lockVars, OtherLocks
<1>4. LocksOf(c)'
  <2>1. \A d \in CPU : ~RqHeld(c, d) /\ ~RqHeld(c, d)'
    BY <1>1 DEF RqHeld, RqSend, LockPcs
  <2>2. \A d \in CPU : ~IpiHeld(c, d) /\ ~IpiHeld(c, d)'
    BY <1>1 DEF IpiHeld, LockPcs
  <2>3. ~WcHeld(c) /\ ~WcHeld(c)'
    BY <1>1 DEF WcHeld, LockPcs
  <2> QED BY <1>0, <2>1, <2>2, <2>3 DEF LocksOf, lockVars
<1> QED BY <1>2, <1>3, <1>4, QuietStep

\* Nothing in hand: a plain step to another place.
LEMMA PlainGoto ==
    ASSUME SchedInv, NEW c \in CPU, NEW at \in Pcs, mode[c] = "thread", SetTop(curthread[c], Frame(at)),
           Fits(c, Frame(at)), Top(c).carry = <<>>,
           Untouched, UNCHANGED <<irq, splVars, lockVars>>,
           Top(c).pc \notin LockPcs, at \notin LockPcs \union HandPcs
    PROVE  SchedInv'
<1>1. Frame(at) \in FrameRecord /\ Frame(at).pc = at /\ Frame(at).carry = <<>>
  BY FrameIs
<1>2. Carried(Frame(at)) = Carried(Top(c))
  BY <1>1 DEF Carried, LockPcs
<1>3. Top(c)' = Frame(at)
  BY <1>1, TopNow DEF Untouched
<1>4. HandOk(c)'
  BY <1>1, <1>3 DEF HandOk, HandPcs
<1> QED BY <1>1, <1>2, <1>4, PlainStep

\* lamebus_clear_ipi, hardclock without migration, the beginning of
\* thread_shutdown.
LEMMA ClearIpiKept ==
    ASSUME SchedInv, NEW c \in CPU, lamebus_clear_ipi(c)
    PROVE  SchedInv'
<1>1. /\ mode[c] = "thread" /\ Top(c).pc = "ipiclear" /\ SetTop(curthread[c], Frame("iret"))
      /\ Untouched /\ UNCHANGED <<irq, splVars, lockVars>>
  BY DEF lamebus_clear_ipi, Executes, Goto, cpuVars, queueVars, Untouched
<1>2. /\ Len(stack[curthread[c]]) = 2 /\ Top(c).carry = <<>>
  BY <1>1, Executing DEF LowPcs, FrameOk
<1>3. "iret" \in Pcs /\ Fits(c, Frame("iret"))
  BY <1>2, FrameIs DEF Pcs, HighPcs, Fits, FrameOk
<1> QED BY <1>1, <1>2, <1>3, PlainGoto DEF LockPcs, HandPcs

\* thread_shutdown is called.
LEMMA ShutdownBeginKept ==
    ASSUME SchedInv, NEW c \in CPU, ShutdownBegin(c)
    PROVE  SchedInv'
<1>1. /\ mode[c] = "thread" /\ Top(c).pc = "run" /\ SetTop(curthread[c], Frame("close"))
      /\ Untouched /\ UNCHANGED <<irq, splVars, lockVars>>
  BY DEF ShutdownBegin, Executes, Goto, cpuVars, queueVars, Untouched
<1>2. /\ Len(stack[curthread[c]]) = 1 /\ Top(c).carry = <<>>
  BY <1>1, Executing DEF HighPcs, FrameOk
<1>3. "close" \in Pcs /\ Fits(c, Frame("close"))
  BY <1>2, FrameIs DEF Pcs, LowPcs, Fits, FrameOk
<1> QED BY <1>1, <1>2, <1>3, PlainGoto DEF LockPcs, HandPcs

\* The other CPUs are told to stop.
LEMMA BroadcastKept ==
    ASSUME SchedInv, NEW c \in CPU, ipi_broadcast(c)
    PROVE  SchedInv'
<1>1. /\ mode[c] = "thread" /\ Top(c).pc = "close" /\ SetTop(curthread[c], [Top(c) EXCEPT !.m.i = @ + 1])
      /\ Untouched /\ UNCHANGED <<irq, splVars, lockVars>>
  BY DEF ipi_broadcast, Executes, cpuVars, queueVars, Untouched
<1>2. Len(stack[curthread[c]]) = 1 /\ Top(c).carry = <<>> /\ Top(c) \in FrameRecord
  BY <1>1, Executing DEF HighPcs, FrameOk
<1>3. PICK f : f = [Top(c) EXCEPT !.m.i = @ + 1]
  OBVIOUS
<1>4. f \in FrameRecord /\ f.pc = "close" /\ f.carry = <<>>
  BY <1>1, <1>2, <1>3 DEF FrameRecord, MigRecord
<1>5. Fits(c, f) /\ Carried(f) = Carried(Top(c))
  BY <1>1, <1>2, <1>4 DEF Fits, FrameOk, LowPcs, Carried
<1>6. Top(c)' = f
  BY <1>1, <1>3, <1>4, TopNow DEF Untouched
<1>7. HandOk(c)'
  BY <1>4, <1>6 DEF HandOk
<1> QED BY <1>1, <1>3, <1>4, <1>5, <1>7, PlainStep DEF LockPcs

\* hardclock: on to the migration or to thread_yield.
LEMMA HardclockKept ==
    ASSUME SchedInv, NEW c \in CPU, hardclock(c)
    PROVE  SchedInv'
<1>1. PICK at \in {"migcount", "yield"} : SetTop(curthread[c], Frame(at))
  BY DEF hardclock, Goto
<1>2. mode[c] = "thread" /\ Top(c).pc = "timer" /\ Untouched /\ UNCHANGED <<irq, splVars, lockVars>>
  BY DEF hardclock, Executes, queueVars, Untouched
<1>3. /\ Len(stack[curthread[c]]) = 2 /\ Top(c).carry = <<>>
  BY <1>2, Executing DEF LowPcs, FrameOk
<1>4. at \in Pcs
  BY DEF Pcs, HighPcs
<1>5. /\ Frame(at) \in FrameRecord /\ Frame(at).pc = at /\ Frame(at).carry = <<>> /\ Frame(at).m = NoMig
  BY <1>4, FrameIs
<1>6. Fits(c, Frame(at)) /\ Carried(Frame(at)) = Carried(Top(c))
  BY <1>2, <1>3, <1>5 DEF HighPcs, Fits, FrameOk, Carried
<1>7. Top(c)' = Frame(at) /\ UNCHANGED <<mode, c_runqueue>>
  BY <1>1, <1>2, <1>5, TopNow DEF Untouched
<1>8. HandOk(c)'
  <2>1. 0 < NCPU /\ Len(c_runqueue[c]) \in Nat
    BY SchedAssumption DEF SchedInv, ShapeInv, SchedTypes, ListTypes
  <2> QED BY <1>5, <1>7, <2>1 DEF HandOk, NoMig
<1> QED BY <1>1, <1>2, <1>5, <1>6, <1>8, PlainStep DEF LockPcs

\* thread_yield with nothing to yield to.
LEMMA YieldBackKept ==
    ASSUME SchedInv, NEW c \in CPU, mode[c] = "thread", Top(c).pc = "yield", Goto(c, Back(curthread[c])),
           Untouched, UNCHANGED <<irq, splVars, lockVars>>
    PROVE  SchedInv'
<1>1. Len(stack[curthread[c]]) = 2 /\ Top(c).carry = <<>>
  BY Executing DEF LowPcs, FrameOk
<1>2. SetTop(curthread[c], Frame("iret"))
  BY <1>1 DEF Goto, Back, InInterrupt
<1>3. "iret" \in Pcs /\ Fits(c, Frame("iret"))
  BY <1>1, FrameIs DEF Pcs, HighPcs, Fits, FrameOk
<1> QED BY <1>1, <1>2, <1>3, PlainGoto DEF LockPcs, HandPcs

\* interprocessor_interrupt takes c_ipi_lock.
LEMMA IpiLockKept ==
    ASSUME SchedInv, NEW c \in CPU, IpiLock(c)
    PROVE  SchedInv'
<1>0. CpuTypes /\ LockTypes /\ ThreadTypes /\ LocksOk /\ LocksOf(c)
  BY DEF SchedInv, ShapeInv, SchedTypes, LocksOk
<1>1. /\ mode[c] = "thread" /\ Top(c).pc = "ipi" /\ SetTop(curthread[c], Frame("ipibits"))
      /\ Untouched /\ UNCHANGED <<irq, rqlock, wclock, t_curspl>>
      /\ ipilock[c] = NoCPU /\ ipilock' = [ipilock EXCEPT ![c] = c] /\ Raised(curthread[c], 1)
  BY DEF IpiLock, Executes, Goto, cpuVars, queueVars, Untouched
<1>2. /\ Len(stack[curthread[c]]) = 2 /\ Top(c).carry = <<>> /\ t_curspl[curthread[c]] = 1 /\ curthread[c] \in Thr
      /\ t_iplhigh_count[curthread[c]] = 1 /\ ~irq[c]
  BY <1>1, Executing DEF LowPcs, FrameOk, Running, Held
<1>3. /\ "ipibits" \in Pcs /\ Frame("ipibits") \in FrameRecord /\ Frame("ipibits").pc = "ipibits"
      /\ Frame("ipibits").carry = <<>>
  BY FrameIs DEF Pcs, HighPcs
<1>4. Fits(c, Frame("ipibits")) /\ Carried(Frame("ipibits")) = Carried(Top(c))
  BY <1>1, <1>2, <1>3 DEF Fits, FrameOk, HighPcs, Carried
<1>5. Top(c)' = Frame("ipibits") /\ mode' = mode
  BY <1>1, <1>3, TopNow DEF Untouched
<1>6. Levels(c, "ipibits")
  BY <1>0, <1>1, <1>2 DEF Levels, Raised, ThreadTypes, CpuTypes, Held
<1>7. LockTypes'
  BY <1>0, <1>1 DEF LockTypes, Holder
<1>8. c \in CPU /\ NoCPU \notin CPU
  BY SchedAssumption DEF CPU, NoCPU
<1>9. OtherLocks(c)
  BY <1>0, <1>1, <1>8 DEF OtherLocks, LockTypes
<1>10. LocksOf(c)'
  <2>1. \A d \in CPU : ~RqHeld(c, d) /\ ~RqHeld(c, d)'
    BY <1>1, <1>3, <1>5 DEF RqHeld, RqSend
  <2>2. \A d \in CPU : IpiHeld(c, d)' <=> d = c
    BY <1>1, <1>3, <1>5 DEF IpiHeld
  <2>3. \A d \in CPU : ~IpiHeld(c, d)
    BY <1>1 DEF IpiHeld
  <2>4. \A d \in CPU : ipilock'[d] = c <=> d = c
    BY <1>0, <1>1, <2>3 DEF LocksOf, LockTypes
  <2>5. ~WcHeld(c) /\ ~WcHeld(c)'
    BY <1>1, <1>3, <1>5 DEF WcHeld
  <2> QED BY <1>0, <1>1, <2>1, <2>2, <2>4, <2>5 DEF LocksOf
<1>11. HandOk(c)'
  BY <1>3, <1>5 DEF HandOk
<1> QED BY <1>1, <1>3, <1>4, <1>6, <1>7, <1>9, <1>10, <1>11, QuietStep

\* It has handled what was pending and drops the lock.
LEMMA IpiHandledKept ==
    ASSUME SchedInv, NEW c \in CPU, IpiHandled(c)
    PROVE  SchedInv'
<1>0. CpuTypes /\ LockTypes /\ ThreadTypes /\ LocksOk /\ LocksOf(c)
  BY DEF SchedInv, ShapeInv, SchedTypes, LocksOk
<1>1. /\ mode[c] = "thread" /\ Top(c).pc = "ipibits" /\ SetTop(curthread[c], Frame("ipiclear"))
      /\ Untouched /\ UNCHANGED <<irq, rqlock, wclock, t_curspl>>
      /\ ipilock' = [ipilock EXCEPT ![c] = NoCPU] /\ Raised(curthread[c], -1)
  BY DEF IpiHandled, Executes, Goto, cpuVars, queueVars, Untouched
<1>2. /\ Len(stack[curthread[c]]) = 2 /\ Top(c).carry = <<>> /\ t_curspl[curthread[c]] = 1 /\ curthread[c] \in Thr
      /\ t_iplhigh_count[curthread[c]] = 2 /\ ~irq[c]
  BY <1>1, Executing DEF LowPcs, FrameOk, Running, Held
<1>3. /\ "ipiclear" \in Pcs /\ Frame("ipiclear") \in FrameRecord /\ Frame("ipiclear").pc = "ipiclear"
      /\ Frame("ipiclear").carry = <<>>
  BY FrameIs DEF Pcs, HighPcs
<1>4. Fits(c, Frame("ipiclear")) /\ Carried(Frame("ipiclear")) = Carried(Top(c))
  BY <1>1, <1>2, <1>3 DEF Fits, FrameOk, HighPcs, Carried
<1>5. Top(c)' = Frame("ipiclear") /\ mode' = mode
  BY <1>1, <1>3, TopNow DEF Untouched
<1>6. Levels(c, "ipiclear")
  BY <1>0, <1>1, <1>2 DEF Levels, Raised, ThreadTypes, CpuTypes, Held
<1>7. LockTypes'
  BY <1>0, <1>1 DEF LockTypes, Holder
<1>8. c \in CPU /\ NoCPU \notin CPU
  BY SchedAssumption DEF CPU, NoCPU
<1>9. \A d \in CPU : ipilock[d] = c <=> d = c
  BY <1>0, <1>1 DEF LocksOf, IpiHeld
<1>10. OtherLocks(c)
  BY <1>0, <1>1, <1>8, <1>9 DEF OtherLocks, LockTypes
<1>11. LocksOf(c)'
  <2>1. \A d \in CPU : ~RqHeld(c, d) /\ ~RqHeld(c, d)'
    BY <1>1, <1>3, <1>5 DEF RqHeld, RqSend
  <2>2. \A d \in CPU : ~IpiHeld(c, d)'
    BY <1>1, <1>3, <1>5 DEF IpiHeld
  <2>3. \A d \in CPU : ipilock'[d] # c
    BY <1>0, <1>1, <1>8, <1>9 DEF LockTypes
  <2>4. ~WcHeld(c) /\ ~WcHeld(c)'
    BY <1>1, <1>3, <1>5 DEF WcHeld
  <2> QED BY <1>0, <1>1, <2>1, <2>2, <2>3, <2>4 DEF LocksOf
<1>12. HandOk(c)'
  BY <1>3, <1>5 DEF HandOk
<1> QED BY <1>1, <1>3, <1>4, <1>6, <1>7, <1>10, <1>11, <1>12, QuietStep

\* wchan_lock.
LEMMA WchanLockKept ==
    ASSUME SchedInv, NEW c \in CPU, wchan_lock(c)
    PROVE  SchedInv'
<1>0. CpuTypes /\ LockTypes /\ ThreadTypes /\ LocksOk /\ LocksOf(c)
  BY DEF SchedInv, ShapeInv, SchedTypes, LocksOk
<1>1. /\ mode[c] = "thread" /\ Top(c).pc = "run" /\ SetTop(curthread[c], Frame("sleep"))
      /\ Untouched /\ UNCHANGED <<rqlock, ipilock, t_curspl>>
      /\ wclock = NoCPU /\ wclock' = c /\ Raised(curthread[c], 1) /\ irq' = [irq EXCEPT ![c] = FALSE]
  BY DEF wchan_lock, Executes, Goto, SpinTaken, queueVars, Untouched
<1>2. /\ Len(stack[curthread[c]]) = 1 /\ Top(c).carry = <<>> /\ t_curspl[curthread[c]] = 0 /\ curthread[c] \in Thr
      /\ t_iplhigh_count[curthread[c]] = 0
  BY <1>1, Executing DEF HighPcs, FrameOk, Running, Held
<1>3. /\ "sleep" \in Pcs /\ Frame("sleep") \in FrameRecord /\ Frame("sleep").pc = "sleep"
      /\ Frame("sleep").carry = <<>>
  BY FrameIs DEF Pcs, LowPcs
<1>4. Fits(c, Frame("sleep")) /\ Carried(Frame("sleep")) = Carried(Top(c))
  BY <1>1, <1>2, <1>3 DEF Fits, FrameOk, LowPcs, Carried
<1>5. Top(c)' = Frame("sleep") /\ mode' = mode
  BY <1>1, <1>3, TopNow DEF Untouched
<1>6. Levels(c, "sleep")
  BY <1>0, <1>1, <1>2 DEF Levels, Raised, ThreadTypes, CpuTypes, Held
<1>7. LockTypes'
  BY <1>0, <1>1 DEF LockTypes, Holder
<1>8. c \in CPU /\ NoCPU \notin CPU
  BY SchedAssumption DEF CPU, NoCPU
<1>9. OtherLocks(c)
  BY <1>1, <1>8 DEF OtherLocks
<1>10. LocksOf(c)'
  <2>1. \A d \in CPU : ~RqHeld(c, d) /\ ~RqHeld(c, d)'
    BY <1>1, <1>3, <1>5 DEF RqHeld, RqSend
  <2>2. \A d \in CPU : ~IpiHeld(c, d) /\ ~IpiHeld(c, d)'
    BY <1>1, <1>3, <1>5 DEF IpiHeld
  <2>3. WcHeld(c)'
    BY <1>1, <1>3, <1>5 DEF WcHeld
  <2> QED BY <1>0, <1>1, <2>1, <2>2, <2>3 DEF LocksOf
<1>11. HandOk(c)'
  BY <1>3, <1>5 DEF HandOk
<1> QED BY <1>1, <1>3, <1>4, <1>6, <1>7, <1>9, <1>10, <1>11, QuietStep

\* The last thread of a list.
LEMMA TailEmpty ==
    ASSUME NEW s \in Seq(Thr), s # <<>>
    PROVE  /\ Len(s) = 1 => Tail(s) = <<>>
           /\ Len(s) # 1 => Tail(s) # <<>>
<1>1. Len(s) \in Nat /\ Len(s) >= 1 /\ Tail(s) \in Seq(Thr) /\ Len(Tail(s)) = Len(s) - 1
  BY MembersTail
<1>2. PICK r \in Seq(Thr) : r = Tail(s) /\ Len(r) = Len(s) - 1
  BY <1>1
<1>3. Len(r) = 0 => r = <<>>
  OBVIOUS
<1>4. Len(r) # 0 => r # <<>>
  OBVIOUS
<1> QED BY <1>1, <1>2, <1>3, <1>4

\* What is left in hand when the first thread is queued.
LEMMA HandedOverIs ==
    ASSUME SchedInv, NEW c \in CPU, mode[c] = "thread", Top(c).pc \in {"wake", "send"}
    PROVE  /\ HandedOver(c) \in FrameRecord /\ Fits(c, HandedOver(c)) /\ HandedOver(c).pc \in {"wake", "iret", "run"}
           /\ Carried(HandedOver(c)) = Tail(Top(c).carry)
           /\ Top(c).carry \in Seq(Thr) /\ Top(c).carry # <<>> /\ InHand(c) \in Thr
<1>1. /\ Top(c) \in FrameRecord /\ Top(c).carry # <<>> /\ Len(stack[curthread[c]]) \in {1, 2}
  BY Executing DEF FrameOk
<1>2. PICK s \in Seq(Thr) : s = Top(c).carry /\ s # <<>>
  BY <1>1 DEF FrameRecord
<1>3. InHand(c) \in Thr /\ Tail(s) \in Seq(Thr) /\ Len(Tail(s)) = Len(s) - 1 /\ Len(s) \in Nat
  BY <1>2 DEF InHand
<1>4. CASE Len(s) = 1
  <2>1. PICK at \in {"iret", "run"} : at = Back(curthread[c])
    BY DEF Back
  <2>2. HandedOver(c) = Frame(at) /\ at \in Pcs
    BY <1>2, <1>4, <2>1 DEF HandedOver, Pcs, LowPcs, HighPcs
  <2>3. Frame(at) \in FrameRecord /\ Frame(at).pc = at /\ Frame(at).carry = <<>>
    BY <2>2, FrameIs
  <2>4. Tail(s) = <<>>
    BY <1>2, <1>4, TailEmpty
  <2>5. Fits(c, Frame(at))
    <3>1. CASE Len(stack[curthread[c]]) = 1
      <4>1. at = "run"
        BY <2>1, <3>1 DEF Back, InInterrupt
      <4> QED BY <2>3, <3>1, <4>1 DEF Fits, FrameOk, LowPcs
    <3>2. CASE Len(stack[curthread[c]]) = 2
      <4>1. at = "iret"
        BY <2>1, <3>2 DEF Back, InInterrupt
      <4> QED BY <2>3, <3>2, <4>1 DEF Fits, FrameOk, HighPcs
    <3> QED BY <1>1, <3>1, <3>2
  <2> QED BY <1>2, <1>3, <2>2, <2>3, <2>4, <2>5 DEF Carried
<1>5. CASE Len(s) # 1
  <2>1. PICK f : f = [Top(c) EXCEPT !.pc = "wake", !.carry = Tail(@)]
    OBVIOUS
  <2>2. HandedOver(c) = f
    BY <1>2, <1>5, <2>1 DEF HandedOver
  <2>3. f \in FrameRecord /\ f.pc = "wake" /\ f.carry = Tail(s)
    BY <1>1, <1>2, <1>3, <2>1 DEF FrameRecord, Pcs, LowPcs
  <2>4. Tail(s) # <<>>
    BY <1>2, <1>5, TailEmpty
  <2>5. Fits(c, f)
    BY <2>3, <2>4 DEF Fits, FrameOk, LowPcs, HighPcs
  <2> QED BY <1>2, <1>3, <2>2, <2>3, <2>5 DEF Carried
<1> QED BY <1>4, <1>5

\* The idle CPU is told, and its run queue lock is dropped.
LEMMA SendUnidleKept ==
    ASSUME SchedInv, NEW c \in CPU, SendUnidle(c)
    PROVE  SchedInv'
<1>0. CpuTypes /\ LockTypes /\ ThreadTypes /\ LocksOk /\ LocksOf(c)
  BY DEF SchedInv, ShapeInv, SchedTypes, LocksOk
<1>1. /\ mode[c] = "thread" /\ Top(c).pc = "send" /\ SetTop(curthread[c], HandedOver(c))
      /\ Untouched /\ UNCHANGED <<ipilock, wclock, t_curspl>>
      /\ rqlock' = [rqlock EXCEPT ![t_cpu[InHand(c)]] = NoCPU] /\ Raised(curthread[c], -1)
      /\ irq' = [irq EXCEPT ![c] = t_iplhigh_count'[curthread[c]] = 0]
  BY DEF SendUnidle, Executes, queueVars, Untouched
<1>2. PICK f \in FrameRecord : /\ f = HandedOver(c) /\ Fits(c, f) /\ f.pc \in {"wake", "iret", "run"}
                               /\ Carried(f) = Tail(Top(c).carry) /\ InHand(c) \in Thr
  BY <1>1, HandedOverIs
<1>3. Carried(f) = Carried(Top(c))
  BY <1>1, <1>2 DEF Carried
<1>4. PICK target \in CPU : target = t_cpu[InHand(c)]
  BY <1>0, <1>2 DEF ThreadTypes
<1>5. Top(c)' = f /\ mode' = mode
  BY <1>1, <1>2, TopNow DEF Untouched
<1>6. Levels(c, f.pc)
  <2>1. /\ curthread[c] \in Thr /\ t_curspl[curthread[c]] \in {0, 1}
        /\ t_iplhigh_count[curthread[c]] = t_curspl[curthread[c]] + 1
    BY <1>1, Executing DEF Held
  <2>2. /\ t_iplhigh_count' \in [Thr -> Int] /\ t_iplhigh_count'[curthread[c]] = t_curspl[curthread[c]]
        /\ \A u \in Thr : u # curthread[c] => t_iplhigh_count'[u] = t_iplhigh_count[u]
    BY <1>0, <1>1, <2>1 DEF Raised, ThreadTypes
  <2>3. /\ irq' \in [CPU -> BOOLEAN] /\ (irq'[c] <=> t_iplhigh_count'[curthread[c]] = 0)
        /\ \A d \in CPU : d # c => irq'[d] = irq[d]
    BY <1>0, <1>1, Zenon DEF CpuTypes
  <2>4. Held(f.pc) = 0
    BY <1>2 DEF Held
  <2> QED BY <1>1, <2>1, <2>2, <2>3, <2>4 DEF Levels
<1>7. LockTypes'
  BY <1>0, <1>1, <1>4 DEF LockTypes, Holder
<1>8. c \in CPU /\ NoCPU \notin CPU
  BY SchedAssumption DEF CPU, NoCPU
<1>9. \A d \in CPU : rqlock[d] = c <=> d = target
  BY <1>0, <1>1, <1>4 DEF LocksOf, RqHeld, RqSend
<1>10. OtherLocks(c)
  BY <1>0, <1>1, <1>4, <1>8, <1>9 DEF OtherLocks, LockTypes
<1>11. LocksOf(c)'
  <2>1. \A d \in CPU : ~RqHeld(c, d)'
    BY <1>1, <1>2, <1>5 DEF RqHeld, RqSend
  <2>2. \A d \in CPU : rqlock'[d] # c
    BY <1>0, <1>1, <1>4, <1>8, <1>9 DEF LockTypes
  <2>3. \A d \in CPU : ~IpiHeld(c, d) /\ ~IpiHeld(c, d)'
    BY <1>1, <1>2, <1>5 DEF IpiHeld
  <2>4. ~WcHeld(c) /\ ~WcHeld(c)'
    BY <1>1, <1>2, <1>5 DEF WcHeld
  <2> QED BY <1>0, <1>1, <2>1, <2>2, <2>3, <2>4 DEF LocksOf
<1>12. HandOk(c)'
  BY <1>2, <1>5 DEF HandOk
<1> QED BY <1>1, <1>2, <1>3, <1>6, <1>7, <1>10, <1>11, <1>12, QuietStep

\* A CPU's share of the threads that are ready.
LEMMA ShareIs == \A n \in Nat : OneShare(n) \in Nat
BY SchedAssumption DEF OneShare

\* thread_consider_migration counts one more run queue.
LEMMA MigrateCountKept ==
    ASSUME SchedInv, NEW c \in CPU, MigrateCount(c)
    PROVE  SchedInv'
<1>1. mode[c] = "thread" /\ Top(c).pc = "migcount" /\ Untouched /\ UNCHANGED <<irq, splVars, lockVars>>
  BY DEF MigrateCount, Executes, cpuVars, queueVars, Untouched
<1>2. /\ Len(stack[curthread[c]]) = 2 /\ Top(c).carry = <<>> /\ Top(c) \in FrameRecord
  BY <1>1, Executing DEF LowPcs, FrameOk
<1>3. PICK m \in MigRecord : m = Top(c).m /\ m.i < NCPU /\ m.my <= Len(c_runqueue[c])
  BY <1>1, <1>2 DEF FrameRecord, SchedInv, HandsOk, HandOk
<1>4. m.i \in CPU /\ m.i \in Nat /\ m.my \in Nat /\ m.total \in Nat /\ m.send \in Nat
  BY <1>3, SchedAssumption DEF MigRecord, CPU
<1>5. Len(c_runqueue[c]) \in Nat /\ Len(c_runqueue[m.i]) \in Nat
  BY <1>4 DEF SchedInv, ShapeInv, SchedTypes, ListTypes
<1>6. PICK sum : sum = [m EXCEPT !.i = m.i + 1, !.total = m.total + Len(c_runqueue[m.i]),
                                 !.my = IF m.i = c THEN Len(c_runqueue[m.i]) ELSE m.my]
  OBVIOUS
<1>7. /\ sum \in MigRecord /\ sum.i = m.i + 1 /\ sum.my \in Nat /\ sum.my <= Len(c_runqueue[c]) /\ sum.total \in Nat
  <2>1. PICK i, total, my \in Nat : /\ i = m.i + 1 /\ total = m.total + Len(c_runqueue[m.i])
                                  /\ my = (IF m.i = c THEN Len(c_runqueue[m.i]) ELSE m.my)
    <3>1. /\ m.i + 1 \in Nat /\ m.total + Len(c_runqueue[m.i]) \in Nat
          /\ (IF m.i = c THEN Len(c_runqueue[m.i]) ELSE m.my) \in Nat
      BY <1>4, <1>5
    <3> QED BY <3>1, Zenon
  <2>2. my <= Len(c_runqueue[c])
    BY <1>3, <1>5, <2>1
  <2>3. sum = [m EXCEPT !.i = i, !.total = total, !.my = my]
    BY <1>6, <2>1
  <2>4. sum \in MigRecord /\ sum.i = i /\ sum.total = total /\ sum.my = my
    BY <1>3, <2>3 DEF MigRecord
  <2> QED BY <2>1, <2>2, <2>4
<1>8. PICK share \in Nat : share = OneShare(sum.total)
  BY <1>7, ShareIs
<1>9. SetTop(curthread[c],
            IF m.i < NCPU - 1 THEN [Top(c) EXCEPT !.m = sum]
            ELSE IF sum.my < share THEN Frame("yield")
            ELSE [Top(c) EXCEPT !.pc = "migtake", !.m = [sum EXCEPT !.i = 0, !.send = sum.my - share]])
  BY <1>3, <1>6, <1>8 DEF MigrateCount
<1>10. UNCHANGED <<mode, c_runqueue>> /\ curthread' = curthread
  BY <1>1 DEF Untouched
<1>11. CASE m.i < NCPU - 1
  <2>1. PICK f : f = [Top(c) EXCEPT !.m = sum]
    OBVIOUS
  <2>2. f \in FrameRecord /\ f.pc = "migcount" /\ f.carry = <<>> /\ f.m = sum
    BY <1>1, <1>2, <1>7, <2>1 DEF FrameRecord
  <2>3. SetTop(curthread[c], f)
    BY <1>9, <1>11, <2>1
  <2>4. Fits(c, f) /\ Carried(f) = Carried(Top(c))
    BY <1>1, <1>2, <2>2 DEF Fits, FrameOk, HighPcs, Carried
  <2>5. Top(c)' = f
    BY <1>10, <2>2, <2>3, TopNow
  <2>6. sum.i < NCPU
    BY <1>4, <1>7, <1>11, SchedAssumption
  <2>7. HandOk(c)'
    BY <1>7, <1>10, <2>2, <2>5, <2>6 DEF HandOk
  <2> QED BY <1>1, <2>2, <2>3, <2>4, <2>7, PlainStep DEF LockPcs
<1>12. CASE ~(m.i < NCPU - 1) /\ sum.my < share
  <2>1. SetTop(curthread[c], Frame("yield"))
    BY <1>9, <1>12
  <2>2. "yield" \in Pcs /\ Fits(c, Frame("yield"))
    BY <1>2, FrameIs DEF Pcs, HighPcs, Fits, FrameOk
  <2> QED BY <1>1, <1>2, <2>1, <2>2, PlainGoto DEF LockPcs, HandPcs
<1>13. CASE ~(m.i < NCPU - 1) /\ ~(sum.my < share)
  <2>1. PICK r : r = [sum EXCEPT !.i = 0, !.send = sum.my - share]
    OBVIOUS
  <2>2. r \in MigRecord /\ r.send <= Len(c_runqueue[c])
    <3>1. sum.my - share \in Nat /\ sum.my - share <= Len(c_runqueue[c])
      BY <1>5, <1>7, <1>8, <1>13
    <3> QED BY <1>7, <2>1, <3>1 DEF MigRecord
  <2>3. PICK f : f = [Top(c) EXCEPT !.pc = "migtake", !.m = r]
    OBVIOUS
  <2>4. f \in FrameRecord /\ f.pc = "migtake" /\ f.carry = <<>> /\ f.m = r
    BY <1>1, <1>2, <2>2, <2>3 DEF FrameRecord, Pcs, HighPcs
  <2>5. SetTop(curthread[c], f)
    BY <1>9, <1>13, <2>1, <2>3
  <2>6. Fits(c, f) /\ Carried(f) = Carried(Top(c))
    BY <1>1, <1>2, <2>4 DEF Fits, FrameOk, HighPcs, Carried
  <2>7. Top(c)' = f
    BY <1>10, <2>4, <2>5, TopNow
  <2>8. HandOk(c)'
    BY <1>10, <2>2, <2>4, <2>7 DEF HandOk
  <2> QED BY <1>1, <2>4, <2>5, <2>6, <2>8, PlainStep DEF LockPcs
<1> QED BY <1>11, <1>12, <1>13

-----------------------------------------------------------------------------
(* Steps in which a CPU changes its mode and no thread changes hands *)

\* The parts of the invariant.
LEMMA Parts ==
    ASSUME SchedInv
    PROVE  /\ CpuTypes /\ ListTypes /\ LockTypes /\ ThreadTypes /\ StackTypes /\ StacksOk /\ CpusOk /\ OffOk
           /\ LocksOk /\ ListInv /\ HandsOk
           /\ ListsOnce /\ OneList /\ AllListed /\ ListStates /\ CpusExact
BY DEF SchedInv, ShapeInv, SchedTypes, ListInv

\* The thread that a CPU is on, in any mode.
LEMMA StandsOn ==
    ASSUME SchedInv, NEW c \in CPU
    PROVE  \E t \in Thr :
             /\ t = curthread[c] /\ Top(c) = stack[t][1] /\ stack[t] \in Seq(FrameRecord) /\ Len(stack[t]) \in {1, 2}
             /\ FrameOk(stack[t][1]) /\ (Len(stack[t]) = 2 => FrameOk(stack[t][2]))
             /\ t_curspl[t] \in {0, 1} /\ t_iplhigh_count[t] \in Int /\ t_state[t] \in States
             /\ Standing(t, stack[t], t_state[t], t_curspl[t], t_iplhigh_count[t], mode[c], c_isidle[c], irq[c],
                         Members(c_runqueue[c]))
<1>0. CpuTypes /\ ThreadTypes /\ StackTypes /\ StacksOk /\ CpuOk(c)
  BY Parts DEF CpusOk
<1>1. PICK t \in Thr : t = curthread[c]
  BY <1>0 DEF CpuTypes
<1>2. Top(c) = stack[t][1] /\ stack[t] \in Seq(FrameRecord) /\ Len(stack[t]) \in {1, 2}
  BY <1>0, <1>1 DEF Top, StackTypes, StacksOk
<1>3. FrameOk(stack[t][1]) /\ (Len(stack[t]) = 2 => FrameOk(stack[t][2]))
  BY <1>0 DEF StacksOk
<1>4. t_curspl[t] \in {0, 1} /\ t_iplhigh_count[t] \in Int /\ t_state[t] \in States
  BY <1>0 DEF ThreadTypes
<1>5. Standing(t, stack[t], t_state[t], t_curspl[t], t_iplhigh_count[t], mode[c], c_isidle[c], irq[c],
               Members(c_runqueue[c]))
  BY <1>0, <1>1 DEF CpuOk
<1> QED BY <1>1, <1>2, <1>3, <1>4, <1>5

\* A step of one CPU that leaves lists alone.
LEMMA AloneStep ==
    ASSUME SchedInv, NEW c \in CPU, Solo(c), UNCHANGED <<c_runqueue, c_zombies, wc, t_cpu>>,
           CpuTypes', LockTypes', ThreadTypes', StackTypes', StacksOk', CpuOk(c)',
           \A u \in Thr : Low(u)' = Low(u) /\ High(u)' = High(u),
           Leaving(c)' <=> Leaving(c),
           \/ t_state'[curthread[c]] = t_state[curthread[c]]
           \/ (~Leaving(c) /\ t_state[curthread[c]] # "free" /\ t_state'[curthread[c]] # "free"),
           OtherLocks(c), LocksOf(c)', HandOk(c)'
    PROVE  SchedInv'
<1>0. /\ CpuTypes /\ ListTypes /\ LockTypes /\ ThreadTypes /\ StackTypes /\ StacksOk /\ CpusOk /\ OffOk
      /\ LocksOk /\ ListInv /\ HandsOk /\ CpusExact
  BY Parts
<1>1. ListTypes' /\ SameLists
  BY <1>0 DEF ListTypes, SameLists
<1>2. QueuesKept(c) /\ HandsKept(c)
  <2>1. QueuesKept(c)
    BY <1>0 DEF QueuesKept, ListTypes
  <2>2. HandsKept(c)
    BY <1>0 DEF HandsKept, HandsOk, HandOk
  <2> QED BY <2>1, <2>2
<1>3. CpusOk' /\ OffOk'
  BY <1>0, <1>2, SoloShape
<1>4. LocksOk'
  BY <1>0, <1>2, SoloOthers, OthersLocks
<1>5. HandsOk'
  BY <1>0, <1>1, <1>2, SoloOthers, OthersHands
<1>6. ListInv'
  <2>1. curthread' = curthread
    BY DEF Solo
  <2>2. \A d \in CPU : Leaving(d)' <=> Leaving(d)
    BY DEF Solo, Leaving
  <2>3. \A u \in Thr : Current(u)' <=> Current(u)
    BY <2>1, <2>2 DEF Current
  <2>4. \A u \in Thr : \/ t_state'[u] = t_state[u]
                       \/ (Current(u) /\ t_state[u] # "free" /\ t_state'[u] # "free")
    <3>1. ASSUME NEW u \in Thr, u # curthread[c] PROVE t_state'[u] = t_state[u]
      BY <3>1 DEF Solo
    <3>2. ~Leaving(c) => Current(curthread[c])
      BY DEF Current
    <3> QED BY <3>1, <3>2
  <2> QED BY <1>0, <1>1, <2>1, <2>3, <2>4, ListsAlone
<1> QED BY <1>1, <1>3, <1>4, <1>5, <1>6 DEF SchedInv, ShapeInv, SchedTypes

\* cpu_halt in an interrupt.
LEMMA IpiHaltKept ==
    ASSUME SchedInv, NEW c \in CPU, IpiHalt(c)
    PROVE  SchedInv'
<1>0. CpuTypes /\ LockTypes /\ ThreadTypes /\ StackTypes /\ StacksOk /\ LocksOf(c)
  BY Parts DEF LocksOk
<1>1. /\ mode[c] = "thread" /\ Top(c).pc = "ipibits" /\ mode' = [mode EXCEPT ![c] = "halted"]
      /\ UNCHANGED <<curthread, c_isidle, irq, c_runqueue, c_zombies, wc, t_cpu, t_state, lockVars, splVars, stack>>
  BY DEF IpiHalt, Executes, queueVars
<1>2. mode'[c] = "halted" /\ mode' \in [CPU -> Modes] /\ \A d \in CPU : d # c => mode'[d] = mode[d]
  BY <1>0, <1>1 DEF CpuTypes, Modes
<1>3. Solo(c) /\ CpuTypes' /\ LockTypes' /\ ThreadTypes' /\ StackTypes' /\ StacksOk' /\ OtherLocks(c)
  BY <1>0, <1>1, <1>2
     DEF Solo, splVars, lockVars, CpuTypes, LockTypes, ThreadTypes, StackTypes, StacksOk, OtherLocks
<1>4. \A u \in Thr : Low(u)' = Low(u) /\ High(u)' = High(u)
  BY <1>1 DEF Low, High
<1>5. Leaving(c)' <=> Leaving(c)
  BY <1>1, <1>2 DEF Leaving
<1>6. CpuOk(c)'
  <2>1. PICK t \in Thr : /\ t = curthread[c]
           /\ Standing(t, stack[t], t_state[t], t_curspl[t], t_iplhigh_count[t], mode[c], c_isidle[c], irq[c],
                       Members(c_runqueue[c]))
    BY StandsOn
  <2>2. Standing(t, stack[t], t_state[t], t_curspl[t], t_iplhigh_count[t], "halted", c_isidle[c], irq[c],
                 Members(c_runqueue[c]))
    BY <1>1, <2>1 DEF Standing
  <2> QED BY <1>1, <1>2, <2>1, <2>2 DEF CpuOk, splVars
<1>7. LocksOf(c)'
  <2>1. Top(c)' = Top(c)
    BY <1>1 DEF Top
  <2>2. \A d \in CPU : ~RqHeld(c, d) /\ ~RqHeld(c, d)'
    BY <1>1, <1>2, <2>1 DEF RqHeld, RqSend
  <2>3. \A d \in CPU : IpiHeld(c, d)' <=> IpiHeld(c, d)
    BY <1>1, <1>2, <2>1 DEF IpiHeld
  <2>4. ~WcHeld(c) /\ ~WcHeld(c)'
    BY <1>1, <1>2 DEF WcHeld
  <2> QED BY <1>0, <1>1, <2>2, <2>3, <2>4 DEF LocksOf, lockVars
<1>8. HandOk(c)'
  BY <1>2 DEF HandOk
<1> QED BY <1>1, <1>3, <1>4, <1>5, <1>6, <1>7, <1>8, AloneStep

\* The end of thread_shutdown.
LEMMA ShutdownEndKept ==
    ASSUME SchedInv, NEW c \in CPU, ShutdownEnd(c)
    PROVE  SchedInv'
<1>0. CpuTypes /\ LockTypes /\ ThreadTypes /\ StackTypes /\ StacksOk /\ LocksOf(c)
  BY Parts DEF LocksOk
<1>1. /\ mode[c] = "thread" /\ Top(c).pc = "close" /\ mode' = [mode EXCEPT ![c] = "halted"]
      /\ irq' = [irq EXCEPT ![c] = FALSE]
      /\ UNCHANGED <<curthread, c_isidle, c_runqueue, c_zombies, wc, t_cpu, t_state, lockVars, splVars, stack>>
  BY DEF ShutdownEnd, Executes, queueVars
<1>2. mode'[c] = "halted" /\ mode' \in [CPU -> Modes] /\ \A d \in CPU : d # c => mode'[d] = mode[d]
  BY <1>0, <1>1 DEF CpuTypes, Modes
<1>3. irq' \in [CPU -> BOOLEAN] /\ \A d \in CPU : d # c => irq'[d] = irq[d]
  BY <1>0, <1>1 DEF CpuTypes
<1>4. Solo(c) /\ CpuTypes' /\ LockTypes' /\ ThreadTypes' /\ StackTypes' /\ StacksOk' /\ OtherLocks(c)
  BY <1>0, <1>1, <1>2, <1>3
     DEF Solo, splVars, lockVars, CpuTypes, LockTypes, ThreadTypes, StackTypes, StacksOk, OtherLocks
<1>5. \A u \in Thr : Low(u)' = Low(u) /\ High(u)' = High(u)
  BY <1>1 DEF Low, High
<1>6. Leaving(c)' <=> Leaving(c)
  BY <1>1, <1>2 DEF Leaving
<1>7. CpuOk(c)'
  <2>1. PICK t \in Thr : /\ t = curthread[c]
           /\ Standing(t, stack[t], t_state[t], t_curspl[t], t_iplhigh_count[t], mode[c], c_isidle[c], irq[c],
                       Members(c_runqueue[c]))
    BY StandsOn
  <2>2. Standing(t, stack[t], t_state[t], t_curspl[t], t_iplhigh_count[t], "halted", c_isidle[c], irq'[c],
                 Members(c_runqueue[c]))
    BY <1>1, <2>1 DEF Standing
  <2> QED BY <1>1, <1>2, <2>1, <2>2 DEF CpuOk, splVars
<1>8. LocksOf(c)'
  <2>1. Top(c)' = Top(c)
    BY <1>1 DEF Top
  <2>2. \A d \in CPU : ~RqHeld(c, d) /\ ~RqHeld(c, d)'
    BY <1>1, <1>2, <2>1 DEF RqHeld, RqSend
  <2>3. \A d \in CPU : ~IpiHeld(c, d)' /\ ~IpiHeld(c, d)
    BY <1>1, <1>2, <2>1 DEF IpiHeld
  <2>4. ~WcHeld(c) /\ ~WcHeld(c)'
    BY <1>1, <1>2 DEF WcHeld
  <2> QED BY <1>0, <1>1, <2>2, <2>3, <2>4 DEF LocksOf, lockVars
<1>9. HandOk(c)'
  BY <1>2 DEF HandOk
<1> QED BY <1>1, <1>4, <1>5, <1>6, <1>7, <1>8, <1>9, AloneStep

\* NoCPU is no CPU.
LEMMA NoCPUIs == NoCPU \notin CPU
BY SchedAssumption DEF CPU, NoCPU

\* thread_switch finds nothing to run.
LEMMA PickIdleKept ==
    ASSUME SchedInv, NEW c \in CPU, PickIdle(c)
    PROVE  SchedInv'
<1>0. CpuTypes /\ LockTypes /\ ThreadTypes /\ StackTypes /\ StacksOk /\ LocksOf(c)
  BY Parts DEF LocksOk
<1>1. /\ mode[c] = "pick" /\ mode' = [mode EXCEPT ![c] = "idle"] /\ c_runqueue[c] = <<>>
      /\ c_isidle' = [c_isidle EXCEPT ![c] = TRUE] /\ rqlock' = [rqlock EXCEPT ![c] = NoCPU]
      /\ Raised(curthread[c], -1)
      /\ UNCHANGED <<curthread, irq, c_runqueue, c_zombies, wc, t_cpu, t_state, ipilock, wclock, t_curspl, stack>>
  BY DEF PickIdle, queueVars
<1>2. /\ mode'[c] = "idle" /\ mode' \in [CPU -> Modes] /\ \A d \in CPU : d # c => mode'[d] = mode[d]
      /\ c_isidle'[c] /\ c_isidle' \in [CPU -> BOOLEAN] /\ \A d \in CPU : d # c => c_isidle'[d] = c_isidle[d]
  BY <1>0, <1>1 DEF CpuTypes, Modes
<1>3. PICK t \in Thr : /\ t = curthread[c] /\ t_iplhigh_count[t] \in Int /\ Len(stack[t]) \in {1, 2}
           /\ Standing(t, stack[t], t_state[t], t_curspl[t], t_iplhigh_count[t], "pick", c_isidle[c], irq[c],
                       Members(c_runqueue[c]))
  BY <1>1, StandsOn
<1>4. /\ t_iplhigh_count' \in [Thr -> Int] /\ t_iplhigh_count'[t] = t_iplhigh_count[t] - 1
      /\ \A u \in Thr : u # t => t_iplhigh_count'[u] = t_iplhigh_count[u]
  BY <1>0, <1>1, <1>3 DEF Raised, ThreadTypes
<1>5. \A d \in CPU : rqlock[d] = c <=> d = c
  BY <1>0, <1>1 DEF LocksOf, RqHeld, RqSend
<1>6. LockTypes' /\ OtherLocks(c) /\ \A d \in CPU : rqlock'[d] # c
  <2>1. LockTypes'
    BY <1>0, <1>1 DEF LockTypes, Holder
  <2> QED BY <1>0, <1>1, <1>5, <2>1, NoCPUIs DEF OtherLocks, LockTypes
<1>7. Solo(c) /\ CpuTypes' /\ ThreadTypes' /\ StackTypes' /\ StacksOk'
  BY <1>0, <1>1, <1>2, <1>3, <1>4 DEF Solo, CpuTypes, ThreadTypes, StackTypes, StacksOk
<1>8. \A u \in Thr : Low(u)' = Low(u) /\ High(u)' = High(u)
  BY <1>1 DEF Low, High
<1>9. Leaving(c)' <=> Leaving(c)
  BY <1>1, <1>2 DEF Leaving
<1>10. CpuOk(c)'
  <2>1. Len(stack[t]) = 1
    BY <1>1, <1>3, MembersEmpty DEF Standing
  <2>2. Standing(t, stack[t], t_state[t], t_curspl[t], t_iplhigh_count'[t], "idle", TRUE, irq[c],
                 Members(c_runqueue[c]))
    BY <1>3, <1>4, <2>1 DEF Standing
  <2>3. c_isidle'[c] = TRUE
    BY <1>0, <1>1 DEF CpuTypes
  <2> QED BY <1>1, <1>2, <1>3, <2>2, <2>3 DEF CpuOk
<1>11. LocksOf(c)'
  <2>2. \A d \in CPU : ~RqHeld(c, d)'
    BY <1>2 DEF RqHeld, RqSend
  <2>3. \A d \in CPU : ~IpiHeld(c, d) /\ ~IpiHeld(c, d)'
    BY <1>1, <1>2 DEF IpiHeld
  <2>4. ~WcHeld(c) /\ ~WcHeld(c)'
    BY <1>1, <1>2 DEF WcHeld
  <2> QED BY <1>0, <1>1, <1>6, <2>2, <2>3, <2>4 DEF LocksOf
<1>12. HandOk(c)'
  BY <1>2 DEF HandOk
<1> QED BY <1>1, <1>6, <1>7, <1>8, <1>9, <1>10, <1>11, <1>12, AloneStep

\* thread_switch goes on after cpu_idle.
LEMMA UnidleKept ==
    ASSUME SchedInv, NEW c \in CPU, Unidle(c)
    PROVE  SchedInv'
<1>0. CpuTypes /\ LockTypes /\ ThreadTypes /\ StackTypes /\ StacksOk /\ LocksOf(c)
  BY Parts DEF LocksOk
<1>1. /\ mode[c] = "unidle" /\ mode' = [mode EXCEPT ![c] = "pick"] /\ rqlock[c] = NoCPU
      /\ rqlock' = [rqlock EXCEPT ![c] = c] /\ Raised(curthread[c], 1)
      /\ UNCHANGED <<curthread, irq, c_isidle, c_runqueue, c_zombies, wc, t_cpu, t_state, ipilock, wclock, t_curspl,
                     stack>>
  BY DEF Unidle, queueVars
<1>2. mode'[c] = "pick" /\ mode' \in [CPU -> Modes] /\ \A d \in CPU : d # c => mode'[d] = mode[d]
  BY <1>0, <1>1 DEF CpuTypes, Modes
<1>3. PICK t \in Thr : /\ t = curthread[c] /\ t_iplhigh_count[t] \in Int /\ Len(stack[t]) \in {1, 2}
           /\ Standing(t, stack[t], t_state[t], t_curspl[t], t_iplhigh_count[t], "unidle", c_isidle[c], irq[c],
                       Members(c_runqueue[c]))
  BY <1>1, StandsOn
<1>4. /\ t_iplhigh_count' \in [Thr -> Int] /\ t_iplhigh_count'[t] = t_iplhigh_count[t] + 1
      /\ \A u \in Thr : u # t => t_iplhigh_count'[u] = t_iplhigh_count[u]
  BY <1>0, <1>1, <1>3 DEF Raised, ThreadTypes
<1>5. \A d \in CPU : rqlock[d] # c
  BY <1>0, <1>1 DEF LocksOf, RqHeld, RqSend
<1>6. LockTypes' /\ OtherLocks(c) /\ \A d \in CPU : rqlock'[d] = c <=> d = c
  <2>1. LockTypes'
    BY <1>0, <1>1 DEF LockTypes, Holder
  <2> QED BY <1>0, <1>1, <1>5, <2>1, NoCPUIs DEF OtherLocks, LockTypes
<1>7. Solo(c) /\ CpuTypes' /\ ThreadTypes' /\ StackTypes' /\ StacksOk'
  BY <1>0, <1>1, <1>2, <1>3, <1>4 DEF Solo, CpuTypes, ThreadTypes, StackTypes, StacksOk
<1>8. \A u \in Thr : Low(u)' = Low(u) /\ High(u)' = High(u)
  BY <1>1 DEF Low, High
<1>9. Leaving(c)' <=> Leaving(c)
  BY <1>1, <1>2, <1>3 DEF Leaving, Standing
<1>10. CpuOk(c)'
  <2>2. Standing(t, stack[t], t_state[t], t_curspl[t], t_iplhigh_count'[t], "pick", c_isidle[c], irq[c],
                 Members(c_runqueue[c]))
    BY <1>3, <1>4 DEF Standing
  <2> QED BY <1>1, <1>2, <1>3, <2>2 DEF CpuOk
<1>11. LocksOf(c)'
  <2>2. \A d \in CPU : RqHeld(c, d)' <=> d = c
    BY <1>2 DEF RqHeld, RqSend
  <2>3. \A d \in CPU : ~IpiHeld(c, d) /\ ~IpiHeld(c, d)'
    BY <1>1, <1>2 DEF IpiHeld
  <2>4. ~WcHeld(c) /\ ~WcHeld(c)'
    BY <1>1, <1>2 DEF WcHeld
  <2> QED BY <1>0, <1>1, <1>6, <2>2, <2>3, <2>4 DEF LocksOf
<1>12. HandOk(c)'
  BY <1>2 DEF HandOk
<1> QED BY <1>1, <1>6, <1>7, <1>8, <1>9, <1>10, <1>11, <1>12, AloneStep

\* A secondary CPU starts.
LEMMA HatchKept ==
    ASSUME SchedInv, NEW c \in CPU, cpu_hatch(c)
    PROVE  SchedInv'
<1>0. CpuTypes /\ LockTypes /\ ThreadTypes /\ StackTypes /\ StacksOk /\ LocksOf(c)
  BY Parts DEF LocksOk
<1>1. /\ mode[c] = "off" /\ mode' = [mode EXCEPT ![c] = "thread"] /\ irq' = [irq EXCEPT ![c] = TRUE]
      /\ t_state' = [t_state EXCEPT ![curthread[c]] = "S_RUN"] /\ t_curspl' = [t_curspl EXCEPT ![curthread[c]] = 0]
      /\ Raised(curthread[c], -1)
      /\ UNCHANGED <<curthread, c_isidle, c_runqueue, c_zombies, wc, t_cpu, lockVars, stack>>
  BY DEF cpu_hatch
<1>2. /\ mode'[c] = "thread" /\ mode' \in [CPU -> Modes] /\ (\A d \in CPU : d # c => mode'[d] = mode[d])
      /\ irq' \in [CPU -> BOOLEAN] /\ irq'[c] /\ (\A d \in CPU : d # c => irq'[d] = irq[d])
  BY <1>0, <1>1 DEF CpuTypes, Modes
<1>3. PICK t \in Thr : /\ t = curthread[c] /\ t_iplhigh_count[t] \in Int /\ Len(stack[t]) \in {1, 2}
           /\ Top(c) = stack[t][1]
           /\ Standing(t, stack[t], t_state[t], t_curspl[t], t_iplhigh_count[t], "off", c_isidle[c], irq[c],
                       Members(c_runqueue[c]))
  BY <1>1, StandsOn
<1>4. /\ t_iplhigh_count' \in [Thr -> Int] /\ t_iplhigh_count'[t] = t_iplhigh_count[t] - 1
      /\ \A u \in Thr : u # t => t_iplhigh_count'[u] = t_iplhigh_count[u]
  BY <1>0, <1>1, <1>3 DEF Raised, ThreadTypes
<1>5. /\ t_state' \in [Thr -> States] /\ t_state'[t] = "S_RUN" /\ (\A u \in Thr : u # t => t_state'[u] = t_state[u])
      /\ t_curspl' \in [Thr -> {0, 1}] /\ t_curspl'[t] = 0 /\ (\A u \in Thr : u # t => t_curspl'[u] = t_curspl[u])
  BY <1>0, <1>1, <1>3 DEF ThreadTypes, States
<1>6. LockTypes' /\ OtherLocks(c)
  BY <1>0, <1>1 DEF LockTypes, OtherLocks, lockVars
<1>7. Solo(c) /\ CpuTypes' /\ ThreadTypes' /\ StackTypes' /\ StacksOk'
  BY <1>0, <1>1, <1>2, <1>3, <1>4, <1>5 DEF Solo, CpuTypes, ThreadTypes, StackTypes, StacksOk
<1>8. \A u \in Thr : Low(u)' = Low(u) /\ High(u)' = High(u)
  BY <1>1 DEF Low, High
<1>9. /\ Len(stack[t]) = 1 /\ stack[t][1].pc = "run" /\ t_state[t] = "S_READY" /\ t_iplhigh_count[t] = 1
      /\ ~c_isidle[c]
  BY <1>3 DEF Standing
<1>10. ~Leaving(c)' /\ ~Leaving(c)
  BY <1>1, <1>2, <1>9 DEF Leaving
<1>11. CpuOk(c)'
  <2>1. Running(stack[t], "S_RUN", 0, 0, c_isidle[c])
    BY <1>9 DEF Running, LowPcs, Held
  <2>2. Standing(t, stack[t], "S_RUN", 0, 0, "thread", c_isidle[c], irq'[c],
                 Members(c_runqueue[c]))
    BY <1>2, <2>1 DEF Standing
  <2>3. t_iplhigh_count'[t] = 0
    BY <1>4, <1>9
  <2> QED BY <1>1, <1>2, <1>3, <1>5, <2>2, <2>3 DEF CpuOk
<1>12. Top(c)' = Top(c)
  BY <1>1 DEF Top
<1>13. LocksOf(c)'
  <2>2. \A d \in CPU : ~RqHeld(c, d) /\ ~RqHeld(c, d)'
    BY <1>1, <1>2, <1>3, <1>9, <1>12 DEF RqHeld, RqSend
  <2>3. \A d \in CPU : ~IpiHeld(c, d) /\ ~IpiHeld(c, d)'
    BY <1>1, <1>2, <1>3, <1>9, <1>12 DEF IpiHeld
  <2>4. ~WcHeld(c) /\ ~WcHeld(c)'
    BY <1>1, <1>2, <1>3, <1>9, <1>12 DEF WcHeld
  <2> QED BY <1>0, <1>1, <2>2, <2>3, <2>4 DEF LocksOf, lockVars
<1>14. HandOk(c)'
  BY <1>2, <1>3, <1>9, <1>12 DEF HandOk
<1>15. ~Leaving(c) /\ t_state[curthread[c]] # "free" /\ t_state'[curthread[c]] # "free"
  BY <1>3, <1>5, <1>9, <1>10
<1> QED BY <1>1, <1>6, <1>7, <1>8, <1>10, <1>11, <1>13, <1>14, <1>15, AloneStep

\* An interrupt is taken.
LEMMA InterruptKept ==
    ASSUME SchedInv, NEW c \in CPU, NEW source \in {"ipi", "timer", "device"}, Interrupt(c, source)
    PROVE  SchedInv'
<1>0. CpuTypes /\ LockTypes /\ ThreadTypes /\ StackTypes /\ StacksOk /\ LocksOf(c)
  BY Parts DEF LocksOk
<1>1. /\ (mode[c] = "thread" /\ irq[c]) \/ mode[c] = "idle"
      /\ mode' = [mode EXCEPT ![c] = "thread"] /\ irq' = [irq EXCEPT ![c] = FALSE]
      /\ stack' = [stack EXCEPT ![curthread[c]] = <<Frame(source)>> \o @]
      /\ IF t_curspl[curthread[c]] = 0
         THEN t_curspl' = [t_curspl EXCEPT ![curthread[c]] = 1] /\ Raised(curthread[c], 1)
         ELSE UNCHANGED splVars
      /\ UNCHANGED <<curthread, c_isidle, c_runqueue, c_zombies, wc, t_cpu, t_state, lockVars>>
  BY DEF Interrupt, queueVars
<1>2. /\ mode'[c] = "thread" /\ mode' \in [CPU -> Modes] /\ (\A d \in CPU : d # c => mode'[d] = mode[d])
      /\ irq' \in [CPU -> BOOLEAN] /\ ~irq'[c] /\ (\A d \in CPU : d # c => irq'[d] = irq[d])
  BY <1>0, <1>1 DEF CpuTypes, Modes
<1>3. PICK t \in Thr : /\ t = curthread[c] /\ t_iplhigh_count[t] \in Int /\ Len(stack[t]) \in {1, 2}
           /\ Top(c) = stack[t][1] /\ FrameOk(stack[t][1]) /\ t_curspl[t] \in {0, 1}
           /\ Standing(t, stack[t], t_state[t], t_curspl[t], t_iplhigh_count[t], mode[c], c_isidle[c], irq[c],
                       Members(c_runqueue[c]))
  BY StandsOn
<1>4. /\ Len(stack[t]) = 1 /\ t_iplhigh_count[t] = t_curspl[t]
      /\ c_isidle[c] => /\ t_state[t] \in {"S_READY", "S_SLEEP", "S_ZOMBIE"}
                        /\ stack[t][1].pc = (IF t_state[t] = "S_ZOMBIE" THEN "dead" ELSE "run")
      /\ ~c_isidle[c] => t_state[t] = "S_RUN" /\ stack[t][1].pc \in Interrupted
      /\ (mode[c] = "thread" => Top(c).pc \in Interrupted)
  <2>1. CASE mode[c] = "thread" /\ irq[c]
    <3>1. t_iplhigh_count[t] = 0 /\ Running(stack[t], t_state[t], t_curspl[t], t_iplhigh_count[t], c_isidle[c])
      BY <1>3, <2>1 DEF Standing
    <3>2. t_curspl[t] = 0 /\ Held(stack[t][1].pc) = 0 /\ Len(stack[t]) = 1
      BY <1>3, <3>1 DEF Running, Held
    <3> QED BY <1>3, <3>1, <3>2 DEF Running, LowPcs, Interrupted, Held
  <2>2. CASE mode[c] = "idle"
    BY <1>3, <2>2 DEF Standing, Parked
  <2> QED BY <1>1, <2>1, <2>2
<1>5. /\ t_curspl' \in [Thr -> {0, 1}] /\ t_curspl'[t] = 1 /\ t_iplhigh_count' \in [Thr -> Int] /\ t_iplhigh_count'[t] = 1
      /\ \A u \in Thr : u # t => t_curspl'[u] = t_curspl[u] /\ t_iplhigh_count'[u] = t_iplhigh_count[u]
  <2>1. CASE t_curspl[t] = 0
    <3>1. t_curspl' = [t_curspl EXCEPT ![t] = 1] /\ Raised(t, 1)
      BY <1>1, <1>3, <2>1
    <3>2. t_curspl' \in [Thr -> {0, 1}] /\ t_curspl'[t] = 1 /\ \A u \in Thr : u # t => t_curspl'[u] = t_curspl[u]
      BY <1>0, <3>1 DEF ThreadTypes
    <3>3. /\ t_iplhigh_count' \in [Thr -> Int] /\ t_iplhigh_count'[t] = 1
          /\ \A u \in Thr : u # t => t_iplhigh_count'[u] = t_iplhigh_count[u]
      BY <1>0, <1>4, <2>1, <3>1 DEF Raised, ThreadTypes
    <3> QED BY <3>2, <3>3
  <2>2. CASE t_curspl[t] = 1
    BY <1>0, <1>1, <1>3, <1>4, <2>2 DEF splVars, ThreadTypes
  <2> QED BY <1>3, <2>1, <2>2
<1>6. source \in Pcs /\ source \in HighPcs /\ Held(source) = 0
  BY DEF Pcs, HighPcs, Held
<1>7. PICK f \in FrameRecord : f = Frame(source) /\ f.pc = source /\ f.carry = <<>>
  BY <1>6, FrameIs
<1>8. /\ stack' \in [Thr -> Seq(FrameRecord)] /\ Len(stack'[t]) = 2 /\ stack'[t][1] = f /\ stack'[t][2] = stack[t][1]
      /\ \A u \in Thr : u # t => stack'[u] = stack[u]
  BY <1>0, <1>1, <1>3, <1>4, <1>7, Pushed
<1>9. LockTypes' /\ OtherLocks(c)
  BY <1>0, <1>1 DEF LockTypes, OtherLocks, lockVars
<1>10. StacksOk'
  <2>1. FrameOk(f)
    BY <1>7 DEF FrameOk
  <2> QED BY <1>0, <1>3, <1>8, <2>1 DEF StacksOk
<1>11. Solo(c) /\ CpuTypes' /\ ThreadTypes' /\ StackTypes'
  BY <1>0, <1>1, <1>2, <1>3, <1>5, <1>8 DEF Solo, CpuTypes, ThreadTypes, StackTypes
<1>12. \A u \in Thr : Low(u)' = Low(u) /\ High(u)' = High(u)
  <2>1. Low(t)' = Low(t) /\ High(t)' = High(t)
    BY <1>4, <1>7, <1>8 DEF Low, High, Carried
  <2> QED BY <1>8, <2>1 DEF Low, High
<1>13. Leaving(c)' <=> Leaving(c)
  BY <1>1, <1>2, <1>3 DEF Leaving, Standing
<1>14. CpuOk(c)'
  <2>1. Running(stack'[t], t_state[t], 1, 1, c_isidle[c])
    BY <1>4, <1>6, <1>7, <1>8 DEF Running
  <2>2. Standing(t, stack'[t], t_state[t], 1, 1, "thread", c_isidle[c], irq'[c], Members(c_runqueue[c]))
    BY <1>2, <2>1 DEF Standing
  <2> QED BY <1>1, <1>2, <1>3, <1>5, <2>2 DEF CpuOk
<1>15. Top(c)' = f
  BY <1>1, <1>3, <1>8 DEF Top
<1>16. LocksOf(c)'
  <2>2. \A d \in CPU : ~RqHeld(c, d) /\ ~RqHeld(c, d)'
    BY <1>1, <1>2, <1>4, <1>7, <1>15 DEF RqHeld, RqSend, Interrupted
  <2>3. \A d \in CPU : ~IpiHeld(c, d) /\ ~IpiHeld(c, d)'
    BY <1>1, <1>2, <1>4, <1>7, <1>15 DEF IpiHeld, Interrupted
  <2>4. ~WcHeld(c) /\ ~WcHeld(c)'
    BY <1>1, <1>2, <1>4, <1>7, <1>15 DEF WcHeld, Interrupted
  <2> QED BY <1>0, <1>1, <2>2, <2>3, <2>4 DEF LocksOf, lockVars
<1>17. HandOk(c)'
  BY <1>7, <1>15 DEF HandOk
<1>18. t_state'[curthread[c]] = t_state[curthread[c]] /\ UNCHANGED <<c_runqueue, c_zombies, wc, t_cpu>>
  BY <1>1
<1> QED BY <1>9, <1>10, <1>11, <1>12, <1>13, <1>14, <1>16, <1>17, <1>18, AloneStep

\* The end of an interrupt.
LEMMA IretKept ==
    ASSUME SchedInv, NEW c \in CPU, Iret(c)
    PROVE  SchedInv'
<1>0. CpuTypes /\ LockTypes /\ ThreadTypes /\ StackTypes /\ StacksOk /\ LocksOf(c)
  BY Parts DEF LocksOk
<1>1. /\ mode[c] = "thread" /\ Top(c).pc = "iret"
      /\ stack' = [stack EXCEPT ![curthread[c]] = Tail(@)]
      /\ \/ c_isidle[c] /\ mode' = [mode EXCEPT ![c] = "unidle"] /\ UNCHANGED <<splVars, irq>>
         \/ /\ ~c_isidle[c] /\ t_curspl' = [t_curspl EXCEPT ![curthread[c]] = 0] /\ Raised(curthread[c], -1)
            /\ irq' = [irq EXCEPT ![c] = TRUE] /\ UNCHANGED mode
      /\ UNCHANGED <<curthread, c_isidle, c_runqueue, c_zombies, wc, t_cpu, t_state, lockVars>>
  BY DEF Iret, Executes, queueVars
<1>2. PICK t \in Thr : /\ t = curthread[c] /\ t_iplhigh_count[t] \in Int /\ Len(stack[t]) \in {1, 2}
           /\ Top(c) = stack[t][1] /\ t_curspl[t] \in {0, 1} /\ (Len(stack[t]) = 2 => FrameOk(stack[t][2]))
           /\ Standing(t, stack[t], t_state[t], t_curspl[t], t_iplhigh_count[t], mode[c], c_isidle[c], irq[c],
                       Members(c_runqueue[c]))
  BY StandsOn
<1>3. /\ Running(stack[t], t_state[t], t_curspl[t], t_iplhigh_count[t], c_isidle[c])
      /\ irq[c] <=> t_iplhigh_count[t] = 0
  BY <1>1, <1>2 DEF Standing
<1>4. /\ Len(stack[t]) = 2 /\ t_curspl[t] = 1 /\ t_iplhigh_count[t] = 1 /\ ~irq[c]
      /\ c_isidle[c] => /\ t_state[t] \in {"S_READY", "S_SLEEP", "S_ZOMBIE"}
                        /\ stack[t][2].pc = (IF t_state[t] = "S_ZOMBIE" THEN "dead" ELSE "run")
      /\ ~c_isidle[c] => t_state[t] = "S_RUN" /\ stack[t][2].pc \in Interrupted
      /\ FrameOk(stack[t][2])
  BY <1>1, <1>2, <1>3 DEF Running, LowPcs, Held
<1>5. /\ stack' \in [Thr -> Seq(FrameRecord)] /\ Len(stack'[t]) = 1 /\ stack'[t][1] = stack[t][2]
      /\ \A u \in Thr : u # t => stack'[u] = stack[u]
  BY <1>0, <1>1, <1>2, <1>4, Popped
<1>6. LockTypes' /\ OtherLocks(c) /\ StacksOk' /\ StackTypes'
  BY <1>0, <1>1, <1>2, <1>4, <1>5 DEF LockTypes, OtherLocks, lockVars, StacksOk, StackTypes
<1>7. \A u \in Thr : Low(u)' = Low(u) /\ High(u)' = High(u)
  <2>1. FrameOk(stack[t][1]) /\ stack[t][1].carry = <<>>
    BY <1>0, <1>1, <1>2 DEF StacksOk, FrameOk
  <2>2. Carried(stack[t][1]) = <<>>
    BY <1>1, <1>2, <2>1 DEF Carried
  <2>3. Low(t)' = Low(t)
    BY <1>4, <1>5 DEF Low
  <2>4. High(t)' = High(t)
    BY <1>4, <1>5, <2>2 DEF High
  <2> QED BY <1>5, <2>3, <2>4 DEF Low, High
<1>8. Top(c)' = stack[t][2]
  BY <1>1, <1>2, <1>5 DEF Top
<1>9. LocksOf(c)'
  <2>1. mode'[c] \in {"thread", "unidle"} /\ (mode'[c] = "thread" => Top(c)'.pc \in Interrupted)
    BY <1>0, <1>1, <1>4, <1>8 DEF CpuTypes
  <2>2. \A d \in CPU : ~RqHeld(c, d) /\ ~RqHeld(c, d)'
    BY <1>1, <2>1 DEF RqHeld, RqSend, Interrupted
  <2>3. \A d \in CPU : ~IpiHeld(c, d) /\ ~IpiHeld(c, d)'
    BY <1>1, <2>1 DEF IpiHeld, Interrupted
  <2>4. ~WcHeld(c) /\ ~WcHeld(c)'
    BY <1>1, <2>1 DEF WcHeld, Interrupted
  <2> QED BY <1>0, <1>1, <2>2, <2>3, <2>4 DEF LocksOf, lockVars
<1>10. t_state'[curthread[c]] = t_state[curthread[c]] /\ UNCHANGED <<c_runqueue, c_zombies, wc, t_cpu>>
  BY <1>1
<1>11. CASE c_isidle[c]
  <2>1. mode' = [mode EXCEPT ![c] = "unidle"] /\ UNCHANGED <<splVars, irq>>
    BY <1>1, <1>11
  <2>2. mode'[c] = "unidle" /\ mode' \in [CPU -> Modes] /\ (\A d \in CPU : d # c => mode'[d] = mode[d])
    BY <1>0, <2>1 DEF CpuTypes, Modes
  <2>3. Solo(c) /\ CpuTypes' /\ ThreadTypes'
    BY <1>0, <1>1, <1>2, <1>5, <2>1, <2>2 DEF Solo, CpuTypes, ThreadTypes, splVars
  <2>4. Standing(t, stack'[t], t_state[t], 1, 1, "unidle", c_isidle[c], irq[c], Members(c_runqueue[c]))
    BY <1>4, <1>5, <1>11 DEF Standing, Parked
  <2>5. CpuOk(c)'
    BY <1>1, <1>2, <1>4, <2>1, <2>2, <2>4 DEF CpuOk, splVars
  <2>6. Leaving(c)' <=> Leaving(c)
    BY <1>1, <1>11 DEF Leaving
  <2>7. HandOk(c)'
    BY <2>2 DEF HandOk
  <2> QED BY <1>6, <1>7, <1>9, <1>10, <2>3, <2>5, <2>6, <2>7, AloneStep
<1>12. CASE ~c_isidle[c]
  <2>1. /\ t_curspl' = [t_curspl EXCEPT ![t] = 0] /\ Raised(t, -1) /\ irq' = [irq EXCEPT ![c] = TRUE] /\ UNCHANGED mode
    BY <1>1, <1>2, <1>12
  <2>2. /\ t_curspl' \in [Thr -> {0, 1}] /\ t_curspl'[t] = 0 /\ t_iplhigh_count' \in [Thr -> Int] /\ t_iplhigh_count'[t] = 0
        /\ \A u \in Thr : u # t => t_curspl'[u] = t_curspl[u] /\ t_iplhigh_count'[u] = t_iplhigh_count[u]
    BY <1>0, <1>4, <2>1 DEF Raised, ThreadTypes
  <2>3. irq' \in [CPU -> BOOLEAN] /\ irq'[c] /\ (\A d \in CPU : d # c => irq'[d] = irq[d])
    BY <1>0, <2>1 DEF CpuTypes
  <2>4. Solo(c) /\ CpuTypes' /\ ThreadTypes'
    BY <1>0, <1>1, <1>2, <1>5, <2>1, <2>2, <2>3 DEF Solo, CpuTypes, ThreadTypes
  <2>5. Running(stack'[t], t_state[t], 0, 0, c_isidle[c])
    BY <1>4, <1>5, <1>12 DEF Running, Interrupted, LowPcs, Held
  <2>6. Standing(t, stack'[t], t_state[t], 0, 0, "thread", c_isidle[c], irq'[c], Members(c_runqueue[c]))
    BY <2>3, <2>5 DEF Standing
  <2>7. CpuOk(c)'
    BY <1>1, <1>2, <2>1, <2>2, <2>6 DEF CpuOk
  <2>8. Leaving(c)' <=> Leaving(c)
    BY <1>1, <2>1 DEF Leaving
  <2>9. HandOk(c)'
    BY <1>4, <1>8, <1>12 DEF HandOk, Interrupted
  <2> QED BY <1>6, <1>7, <1>9, <1>10, <2>4, <2>7, <2>8, <2>9, AloneStep
<1> QED BY <1>11, <1>12

-----------------------------------------------------------------------------
(* Lists between which threads move *)

\* The list that the top frame of a thread is.
TopKind(t) == IF Len(stack[t]) = 1 THEN "low" ELSE "high"

\* A list is a sequence of threads.
LEMMA ListTyped ==
    ASSUME ListTypes, StackTypes, StacksOk, NEW k, NEW n
    PROVE  ListOf(k, n) \in Seq(Thr) /\ Members(ListOf(k, n)) \subseteq Thr
<1>1. \A f \in FrameRecord : FrameOk(f) => Carried(f) \in Seq(Thr)
  <2> SUFFICES ASSUME NEW f \in FrameRecord, FrameOk(f) PROVE Carried(f) \in Seq(Thr)
    OBVIOUS
  <2>1. f.carry \in Seq(Thr)
    BY DEF FrameRecord
  <2>2. f.pc = "send" => Tail(f.carry) \in Seq(Thr)
    BY <2>1 DEF FrameOk
  <2> QED BY <2>1, <2>2 DEF Carried
<1>2. \A u \in Thr : Low(u) \in Seq(Thr) /\ High(u) \in Seq(Thr)
  <2> SUFFICES ASSUME NEW u \in Thr PROVE Low(u) \in Seq(Thr) /\ High(u) \in Seq(Thr)
    OBVIOUS
  <2>1. stack[u] \in Seq(FrameRecord) /\ Len(stack[u]) \in {1, 2} /\ FrameOk(stack[u][1])
        /\ (Len(stack[u]) = 2 => FrameOk(stack[u][2]))
    BY DEF StackTypes, StacksOk
  <2>2. stack[u][1] \in FrameRecord /\ (Len(stack[u]) = 2 => stack[u][2] \in FrameRecord)
    BY <2>1
  <2> QED BY <1>1, <2>1, <2>2 DEF Low, High
<1>3. PICK s : s = ListOf(k, n)
  OBVIOUS
<1>4. s \in Seq(Thr)
  BY <1>2, <1>3 DEF ListOf, ListTypes
<1>5. Members(s) \subseteq Thr
  BY <1>4 DEF Members
<1> QED BY <1>3, <1>4, <1>5

\* What the top frame of an executing CPU has in hand is a list.
LEMMA TopList ==
    ASSUME SchedInv, NEW t \in Thr
    PROVE  ListOf(TopKind(t), t) = Carried(stack[t][1]) /\ TopKind(t) \in Kind /\ t \in Int
<1>1. Len(stack[t]) \in {1, 2} /\ t \in Int /\ TopKind(t) \in Kind
  BY Parts, SchedAssumption DEF StacksOk, TopKind, Kind, Thr
<1> QED BY <1>1 DEF TopKind, ListOf, Low, High

\* The lists after a step that changes one frame.
LEMMA ListsSetTop ==
    ASSUME SchedInv, NEW t \in Thr, NEW f \in FrameRecord, SetTop(t, f), NEW k \in Kind, NEW n \in Int
    PROVE  /\ k = TopKind(t) /\ n = t => ListOf(k, n)' = Carried(f)
           /\ k \in {"low", "high"} /\ ~(k = TopKind(t) /\ n = t) => ListOf(k, n)' = ListOf(k, n)
           /\ k = "rq" => ListOf(k, n)' = IF n \in CPU THEN c_runqueue'[n] ELSE <<>>
           /\ k = "zombies" => ListOf(k, n)' = IF n \in CPU THEN c_zombies'[n] ELSE <<>>
           /\ k = "wc" => ListOf(k, n)' = IF n = 0 THEN wc' ELSE <<>>
<1>1. /\ Len(stack'[t]) = Len(stack[t]) /\ stack'[t][1] = f /\ Len(stack[t]) \in {1, 2}
      /\ Len(stack[t]) = 2 => stack'[t][2] = stack[t][2]
      /\ \A u \in Thr : u # t => stack'[u] = stack[u]
  BY Parts, TopSet DEF StacksOk
<1>2. TopKind(t) = "low" => Low(t)' = Carried(f) /\ High(t)' = High(t)
  BY <1>1 DEF TopKind, Low, High
<1>3. TopKind(t) = "high" => High(t)' = Carried(f) /\ Low(t)' = Low(t)
  BY <1>1 DEF TopKind, Low, High
<1>4. \A u \in Thr : u # t => Low(u)' = Low(u) /\ High(u)' = High(u)
  BY <1>1 DEF Low, High
<1>5. TopKind(t) \in {"low", "high"}
  BY DEF TopKind
<1>6. k = TopKind(t) /\ n = t => ListOf(k, n)' = Carried(f)
  BY <1>2, <1>3, <1>5 DEF ListOf
<1>7. k \in {"low", "high"} /\ ~(k = TopKind(t) /\ n = t) => ListOf(k, n)' = ListOf(k, n)
  BY <1>2, <1>3, <1>4, <1>5 DEF ListOf
<1> QED BY <1>6, <1>7 DEF ListOf

\* A thread that is neither moved nor executed keeps its state and its CPU.
Stays(u) ==
    /\ \/ t_state'[u] = t_state[u]
       \/ (Current(u) /\ t_state[u] # "free" /\ t_state'[u] # "free")
    /\ Current(u)' <=> Current(u)
    /\ t_cpu'[u] = t_cpu[u]

\* The threads of W move to the list k0 of n0.
Moves(W, k0, n0) ==
    /\ \A u \in Thr : \A k \in Kind : \A n \in Int :
           In(u, k, n)' <=> IF u \in W THEN k = k0 /\ n = n0 ELSE In(u, k, n)
    /\ \A u \in Thr : u \notin W => Stays(u)
    /\ \A u \in W : /\ ~Current(u)'
                    /\ IF k0 = "zombies" THEN t_state'[u] = "S_ZOMBIE" ELSE t_state'[u] \in {"S_READY", "S_SLEEP"}
                    /\ k0 \in {"rq", "zombies"} => t_cpu'[u] = n0
    /\ \A c \in CPU : t_cpu'[curthread'[c]] = c

\* Then every thread is where it has to be.
LEMMA MoveLists ==
    ASSUME ListInv, NEW W \in SUBSET Thr, NEW k0 \in Kind, NEW n0 \in Int, ListsOnce', Moves(W, k0, n0)
    PROVE  ListInv'
<1> USE DEF Moves
<1>1. OneList'
  BY DEF ListInv, OneList
<1>2. AllListed'
  <2> SUFFICES ASSUME NEW u \in Thr PROVE Listed(u)' <=> t_state'[u] # "free" /\ ~Current(u)'
    BY DEF AllListed
  <2>1. CASE u \in W
    <3>1. Listed(u)'
      BY <2>1 DEF Listed
    <3>2. t_state'[u] # "free" /\ ~Current(u)'
      BY <2>1
    <3> QED BY <3>1, <3>2
  <2>2. CASE u \notin W
    <3>1. Listed(u)' <=> Listed(u)
      BY <2>2 DEF Listed
    <3>2. (t_state'[u] # "free" <=> t_state[u] # "free") /\ (Current(u)' <=> Current(u))
      BY <2>2 DEF Stays
    <3> QED BY <3>1, <3>2 DEF ListInv, AllListed
  <2> QED BY <2>1, <2>2
<1>3. ListStates'
  <2> SUFFICES ASSUME NEW t \in Thr, NEW k \in Kind, NEW n \in Int, In(t, k, n)'
               PROVE  IF k = "zombies" THEN t_state'[t] = "S_ZOMBIE" ELSE t_state'[t] \in {"S_READY", "S_SLEEP"}
    BY DEF ListStates
  <2>1. CASE t \in W
    <3>1. k = k0
      BY <2>1
    <3> QED BY <2>1, <3>1
  <2>2. CASE t \notin W
    <3>1. In(t, k, n) /\ Stays(t)
      BY <2>2
    <3>2. t_state'[t] = t_state[t]
      BY <3>1, CurrentUnlisted DEF Stays
    <3> QED BY <3>1, <3>2 DEF ListInv, ListStates
  <2> QED BY <2>1, <2>2
<1>4. CpusExact'
  <2> SUFFICES ASSUME NEW t \in Thr, NEW k \in {"rq", "zombies"}, NEW n \in CPU, In(t, k, n)'
               PROVE  t_cpu'[t] = n
    BY DEF CpusExact
  <2>0. n \in Int /\ k \in Kind
    BY SchedAssumption DEF CPU, Kind
  <2>1. CASE t \in W
    BY <2>0, <2>1
  <2>2. CASE t \notin W
    <3>1. In(t, k, n) /\ t_cpu'[t] = t_cpu[t]
      BY <2>0, <2>2 DEF Stays
    <3> QED BY <3>1 DEF ListInv, CpusExact
  <2> QED BY <2>1, <2>2
<1> QED BY <1>1, <1>2, <1>3, <1>4 DEF ListInv

\* The threads of W leave their lists to be executed or destroyed.
Leaves(W) ==
    /\ \A u \in Thr : \A k \in Kind : \A n \in Int : In(u, k, n)' <=> u \notin W /\ In(u, k, n)
    /\ \A u \in Thr : u \notin W => Stays(u)
    /\ \A u \in W : Current(u)' \/ t_state'[u] = "free"
    /\ \A c \in CPU : t_cpu'[curthread'[c]] = c

\* Then the others are where they were.
LEMMA LeaveLists ==
    ASSUME ListInv, NEW W \in SUBSET Thr, ListsOnce', Leaves(W)
    PROVE  ListInv'
<1> USE DEF Leaves
<1>1. OneList'
  BY DEF ListInv, OneList
<1>2. AllListed'
  <2> SUFFICES ASSUME NEW u \in Thr PROVE Listed(u)' <=> t_state'[u] # "free" /\ ~Current(u)'
    BY DEF AllListed
  <2>1. CASE u \in W
    <3>1. ~Listed(u)'
      BY <2>1 DEF Listed
    <3> QED BY <2>1, <3>1
  <2>2. CASE u \notin W
    <3>1. Listed(u)' <=> Listed(u)
      BY <2>2 DEF Listed
    <3>2. (t_state'[u] # "free" <=> t_state[u] # "free") /\ (Current(u)' <=> Current(u))
      BY <2>2 DEF Stays
    <3> QED BY <3>1, <3>2 DEF ListInv, AllListed
  <2> QED BY <2>1, <2>2
<1>3. ListStates'
  <2> SUFFICES ASSUME NEW t \in Thr, NEW k \in Kind, NEW n \in Int, In(t, k, n)'
               PROVE  IF k = "zombies" THEN t_state'[t] = "S_ZOMBIE" ELSE t_state'[t] \in {"S_READY", "S_SLEEP"}
    BY DEF ListStates
  <2>1. In(t, k, n) /\ Stays(t)
    OBVIOUS
  <2>2. t_state'[t] = t_state[t]
    BY <2>1, CurrentUnlisted DEF Stays
  <2> QED BY <2>1, <2>2 DEF ListInv, ListStates
<1>4. CpusExact'
  <2> SUFFICES ASSUME NEW t \in Thr, NEW k \in {"rq", "zombies"}, NEW n \in CPU, In(t, k, n)'
               PROVE  t_cpu'[t] = n
    BY DEF CpusExact
  <2>0. n \in Int /\ k \in Kind
    BY SchedAssumption DEF CPU, Kind
  <2>1. In(t, k, n) /\ t_cpu'[t] = t_cpu[t]
    BY <2>0 DEF Stays
  <2> QED BY <2>1 DEF ListInv, CpusExact
<1> QED BY <1>1, <1>2, <1>3, <1>4 DEF ListInv

\* The threads of W move from the list k1 of n1 to the list k0 of n0.
Transfers(W, k1, n1, k0, n0) ==
    /\ k1 # k0 \/ n1 # n0
    /\ W \subseteq Members(ListOf(k1, n1))
    /\ Members(ListOf(k1, n1)') = Members(ListOf(k1, n1)) \ W
    /\ Once(ListOf(k1, n1)')
    /\ Members(ListOf(k0, n0)') = Members(ListOf(k0, n0)) \union W
    /\ Once(ListOf(k0, n0)')
    /\ \A k \in Kind : \A n \in Int :
           (k = k1 /\ n = n1) \/ (k = k0 /\ n = n0) \/ ListOf(k, n)' = ListOf(k, n)
    /\ \A u \in Thr : u \notin W => t_cpu'[u] = t_cpu[u]
    /\ k0 = "rq" => \A u \in W : t_cpu'[u] = n0
    /\ \A c \in CPU : t_cpu'[curthread[c]] = c

\* CPUs stay on the threads that they are on meanwhile.
LEMMA Transfer ==
    ASSUME ListInv, NEW W \in SUBSET Thr, NEW k1 \in Kind, NEW n1 \in Int, NEW k0 \in Kind, NEW n0 \in Int,
           k0 # "zombies", k1 # "zombies", UNCHANGED <<curthread, mode, c_isidle, t_state>>,
           Transfers(W, k1, n1, k0, n0)
    PROVE  ListInv'
<1> USE DEF Transfers
<1>1. \A u \in W : In(u, k1, n1)
  BY DEF In
<1>2. ASSUME NEW u \in Thr, NEW k \in Kind, NEW n \in Int
      PROVE  In(u, k, n)' <=> IF u \in W THEN k = k0 /\ n = n0 ELSE In(u, k, n)
  <2>1. CASE k = k1 /\ n = n1
    BY <2>1 DEF In
  <2>2. CASE k = k0 /\ n = n0
    BY <2>2 DEF In
  <2>3. CASE ~(k = k1 /\ n = n1) /\ ~(k = k0 /\ n = n0)
    <3>1. In(u, k, n)' <=> In(u, k, n)
      BY <2>3 DEF In
    <3>2. u \in W => ~In(u, k, n)
      BY <1>1, <2>3 DEF ListInv, OneList
    <3> QED BY <2>3, <3>1, <3>2
  <2> QED BY <2>1, <2>2, <2>3
<1>3. ListsOnce'
  <2> SUFFICES ASSUME NEW k \in Kind, NEW n \in Int PROVE Once(ListOf(k, n)')
    BY DEF ListsOnce
  <2>1. CASE (k = k1 /\ n = n1) \/ (k = k0 /\ n = n0)
    BY <2>1
  <2>2. CASE ListOf(k, n)' = ListOf(k, n)
    BY <2>2 DEF ListInv, ListsOnce
  <2> QED BY <2>1, <2>2
<1>4. \A u \in Thr : Current(u)' <=> Current(u)
  BY DEF Current, Leaving
<1>5. \A u \in Thr : u \notin W => Stays(u)
  BY <1>4 DEF Stays
<1>6. \A u \in W : /\ ~Current(u)' /\ t_state'[u] \in {"S_READY", "S_SLEEP"}
                   /\ k0 \in {"rq", "zombies"} => t_cpu'[u] = n0
  <2> SUFFICES ASSUME NEW u \in W
               PROVE  /\ ~Current(u)' /\ t_state'[u] \in {"S_READY", "S_SLEEP"}
                      /\ k0 \in {"rq", "zombies"} => t_cpu'[u] = n0
    OBVIOUS
  <2>1. ~Current(u)
    BY <1>1, CurrentUnlisted
  <2>2. t_state[u] \in {"S_READY", "S_SLEEP"}
    BY <1>1 DEF ListInv, ListStates
  <2> QED BY <1>4, <2>1, <2>2
<1>7. \A c \in CPU : t_cpu'[curthread'[c]] = c
  OBVIOUS
<1>8. \A u \in W : /\ ~Current(u)'
                   /\ IF k0 = "zombies" THEN t_state'[u] = "S_ZOMBIE" ELSE t_state'[u] \in {"S_READY", "S_SLEEP"}
                   /\ k0 \in {"rq", "zombies"} => t_cpu'[u] = n0
  BY <1>6
<1>9. Moves(W, k0, n0)
  BY <1>2, <1>5, <1>7, <1>8 DEF Moves
<1> QED BY <1>3, <1>9, MoveLists

\* A step that has no spinlock before or after, with the lists as they have to be.
LEMMA PlainMove ==
    ASSUME SchedInv, NEW c \in CPU, NEW f \in FrameRecord, mode[c] = "thread", SetTop(curthread[c], f), Fits(c, f),
           UNCHANGED <<curthread, mode, c_isidle, t_state>>, t_cpu' \in [Thr -> CPU],
           UNCHANGED <<irq, splVars, lockVars>>, Top(c).pc \notin LockPcs, f.pc \notin LockPcs,
           QueuesKept(c), HandsKept(c), ListTypes', HandOk(c)', ListInv'
    PROVE  SchedInv'
<1>0. CpuTypes /\ LockTypes /\ ThreadTypes /\ LocksOf(c)
  BY Parts DEF LocksOk
<1>1. Top(c)' = f /\ mode' = mode
  BY TopNow
<1>2. Levels(c, f.pc)
  BY <1>0, Executing DEF Levels, splVars, CpuTypes, ThreadTypes, Held, LockPcs
<1>3. LockTypes' /\ OtherLocks(c)
  BY <1>0 DEF LockTypes, lockVars, OtherLocks
<1>4. LocksOf(c)'
  <2>1. \A d \in CPU : ~RqHeld(c, d) /\ ~RqHeld(c, d)'
    BY <1>1 DEF RqHeld, RqSend, LockPcs
  <2>2. \A d \in CPU : ~IpiHeld(c, d) /\ ~IpiHeld(c, d)'
    BY <1>1 DEF IpiHeld, LockPcs
  <2>3. ~WcHeld(c) /\ ~WcHeld(c)'
    BY <1>1 DEF WcHeld, LockPcs
  <2> QED BY <1>0, <2>1, <2>2, <2>3 DEF LocksOf, lockVars
<1> QED BY <1>2, <1>3, <1>4, MoveStep

\* Who is about to tell a CPU has the lock of its run queue.
LEMMA Telling ==
    ASSUME SchedInv, NEW e \in CPU, mode[e] = "thread", Top(e).pc = "send"
    PROVE  /\ InHand(e) \in Thr /\ t_cpu[InHand(e)] \in CPU /\ rqlock[t_cpu[InHand(e)]] = e
           /\ InHand(e) \in Members(c_runqueue[t_cpu[InHand(e)]])
<1>1. InHand(e) \in Thr
  BY HandedOverIs
<1>2. t_cpu[InHand(e)] \in CPU
  BY <1>1, Parts DEF ThreadTypes
<1>3. rqlock[t_cpu[InHand(e)]] = e
  BY <1>2, Parts DEF LocksOk, LocksOf, RqHeld, RqSend
<1> QED BY <1>1, <1>2, <1>3, Parts DEF HandsOk, HandOk

\* thread_consider_migration takes the victims off its run queue.
LEMMA MigrateTakeKept ==
    ASSUME SchedInv, NEW c \in CPU, MigrateTake(c)
    PROVE  SchedInv'
<1>0. CpuTypes /\ ListTypes /\ LockTypes /\ ThreadTypes /\ StackTypes /\ StacksOk /\ ListInv /\ HandsOk
  BY Parts
<1>1. /\ mode[c] = "thread" /\ Top(c).pc = "migtake" /\ rqlock[c] = NoCPU
      /\ UNCHANGED <<curthread, mode, c_isidle, t_state>> /\ t_cpu' = t_cpu /\ c_zombies' = c_zombies /\ wc' = wc
      /\ UNCHANGED <<irq, splVars, lockVars>>
  BY DEF MigrateTake, Executes, cpuVars
<1>2. PICK t \in Thr : /\ t = curthread[c] /\ Top(c) = stack[t][1] /\ Len(stack[t]) = 2 /\ Top(c).carry = <<>>
                       /\ Top(c) \in FrameRecord
  BY <1>1, Executing DEF LowPcs, FrameOk
<1>3. PICK q \in Seq(Thr) : q = c_runqueue[c]
  BY <1>0 DEF ListTypes
<1>4. PICK send \in Nat : send = Top(c).m.send
  BY <1>2 DEF FrameRecord, MigRecord
<1>5. send <= Len(q) /\ Len(q) \in Nat /\ Len(q) - send \in Nat /\ Len(q) - send <= Len(q)
  <2>1. send <= Len(q)
    BY <1>0, <1>1, <1>3, <1>4 DEF HandsOk, HandOk
  <2> QED BY <2>1
<1>6. PICK keep \in Nat : keep = Len(q) - send /\ keep <= Len(q)
  BY <1>5
<1>7. PICK a, b \in Seq(Thr) : a = SubSeq(q, 1, keep) /\ b = SubSeq(q, keep + 1, Len(q))
  BY <1>6, MembersCut
<1>8. Once(q)
  <2>1. ListOf("rq", c) = q /\ "rq" \in Kind /\ c \in Int
    BY <1>3, SchedAssumption DEF ListOf, Kind, CPU
  <2> QED BY <1>0, <2>1 DEF ListInv, ListsOnce
<1>9. /\ Len(b) = send /\ Members(q) = Members(a) \union Members(b) /\ Once(a) /\ Once(b)
      /\ Members(a) \cap Members(b) = {}
  <2>1. Len(b) = Len(q) - keep
    BY <1>6, <1>7, MembersCut
  <2>2. Len(b) = send
    BY <1>5, <1>6, <2>1
  <2> QED BY <1>6, <1>7, <1>8, <2>2, MembersCut
<1>10. /\ c_runqueue' = [c_runqueue EXCEPT ![c] = a]
       /\ SetTop(t, [Top(c) EXCEPT !.pc = "migsend", !.carry = b])
  BY <1>2, <1>3, <1>4, <1>6, <1>7 DEF MigrateTake
<1>11. PICK f : f = [Top(c) EXCEPT !.pc = "migsend", !.carry = b]
  OBVIOUS
<1>12. f \in FrameRecord /\ f.pc = "migsend" /\ f.carry = b /\ f.m.send = send
  BY <1>2, <1>4, <1>11 DEF FrameRecord, Pcs, HighPcs
<1>13. SetTop(t, f)
  BY <1>10, <1>11
<1>14. Fits(c, f)
  BY <1>2, <1>12 DEF Fits, FrameOk, HighPcs
<1>15. c_runqueue'[c] = a /\ (\A d \in CPU : d # c => c_runqueue'[d] = c_runqueue[d]) /\ ListTypes'
  BY <1>0, <1>1, <1>10 DEF ListTypes
<1>16. QueuesKept(c)
  BY <1>0, <1>15 DEF QueuesKept, ListTypes
<1>17. HandsKept(c)
  <2> SUFFICES ASSUME NEW e \in CPU, e # c, mode[e] = "thread", Top(e).pc = "send"
               PROVE  InHand(e) \in Members(c_runqueue'[t_cpu[InHand(e)]])
    BY <1>1 DEF HandsKept
  <2>1. t_cpu[InHand(e)] # c
    BY <1>1, Telling, NoCPUIs
  <2> QED BY <1>15, <2>1, Telling
<1>18. ListInv'
  <2>1. TopKind(t) = "high" /\ "high" \in Kind /\ "rq" \in Kind /\ t \in Int /\ c \in Int
    BY <1>2, SchedAssumption DEF TopKind, Kind, Thr, CPU
  <2>2. ListOf("rq", c) = q /\ ListOf("rq", c)' = a
    BY <1>3, <1>15 DEF ListOf
  <2>3. ListOf("high", t) = <<>>
    <3>1. ListOf("high", t) = Carried(stack[t][1])
      BY <2>1, TopList
    <3> QED BY <1>1, <1>2, <3>1 DEF Carried
  <2>4. ListOf("high", t)' = b
    <3>1. ListOf("high", t)' = Carried(f)
      BY <1>12, <1>13, <2>1, ListsSetTop
    <3> QED BY <1>12, <3>1 DEF Carried
  <2>5. \A k \in Kind : \A n \in Int :
               (k = "rq" /\ n = c) \/ (k = "high" /\ n = t) \/ ListOf(k, n)' = ListOf(k, n)
    <3> SUFFICES ASSUME NEW k \in Kind, NEW n \in Int, ~(k = "rq" /\ n = c), ~(k = "high" /\ n = t)
                 PROVE  ListOf(k, n)' = ListOf(k, n)
      OBVIOUS
    <3>1. CASE k \in {"low", "high"}
      BY <1>12, <1>13, <2>1, <3>1, ListsSetTop
    <3>2. CASE k \in {"rq", "zombies", "wc"}
      BY <1>1, <1>15, <3>2 DEF ListOf
    <3> QED BY <3>1, <3>2 DEF Kind
  <2>6. PICK W \in SUBSET Thr : W = Members(b)
    BY MembersIn
  <2>7. Members(a) = Members(q) \ W /\ W \subseteq Members(q)
    BY <1>9, <2>6
  <2>8. \A d \in CPU : t_cpu'[curthread[d]] = d
    BY <1>1, Parts DEF CpusExact
  <2>9. Members(ListOf("high", t)') = Members(ListOf("high", t)) \union W
    BY <2>3, <2>4, <2>6, MembersEmpty
  <2>10. /\ W \subseteq Members(ListOf("rq", c)) /\ Once(ListOf("rq", c)') /\ Once(ListOf("high", t)')
         /\ Members(ListOf("rq", c)') = Members(ListOf("rq", c)) \ W
    BY <1>9, <2>2, <2>4, <2>7
  <2>11. Transfers(W, "rq", c, "high", t)
    BY <1>1, <2>5, <2>8, <2>9, <2>10 DEF Transfers
  <2> QED BY <1>0, <1>1, <2>1, <2>11, Transfer
<1>19. HandOk(c)'
  <2>1. Top(c)' = f
    BY <1>1, <1>2, <1>12, <1>13, TopNow
  <2>2. \A u \in Members(b) : t_cpu[u] = c
    <3>1. \A u \in Members(b) : u \in Thr /\ u \in Members(q)
      BY <1>9, MembersIn
    <3>2. \A u \in Members(b) : u \in Thr /\ In(u, "rq", c)
      BY <1>3, <3>1 DEF In, ListOf
    <3> QED BY <3>2, Parts DEF CpusExact
  <2>3. send <= Len(b)
    BY <1>9
  <2> QED BY <1>1, <1>12, <2>1, <2>2, <2>3 DEF HandOk
<1>20. t_cpu' \in [Thr -> CPU] /\ SetTop(curthread[c], f)
  BY <1>0, <1>1, <1>2, <1>13 DEF ThreadTypes
<1> QED BY <1>1, <1>12, <1>14, <1>15, <1>16, <1>17, <1>18, <1>19, <1>20, PlainMove DEF LockPcs

\* No thread is on two lists.
LEMMA Apart ==
    ASSUME SchedInv, NEW k \in Kind, NEW l \in Kind, NEW m \in Int, NEW n \in Int, k # l \/ m # n
    PROVE  Members(ListOf(k, m)) \cap Members(ListOf(l, n)) = {}
<1>1. ListOf(k, m) \in Seq(Thr)
  BY Parts, ListTyped
<1>2. Members(ListOf(k, m)) \subseteq Thr
  BY <1>1, MembersIn
<1> QED BY <1>2, Parts DEF OneList, In

\* Threads are added to run queues.
LEMMA Grown ==
    ASSUME SchedInv, NEW c \in CPU, t_cpu' = t_cpu,
           \A d \in CPU : Members(c_runqueue[d]) \subseteq Members(c_runqueue'[d])
    PROVE  HandsKept(c)
<1> SUFFICES ASSUME NEW e \in CPU, e # c, mode[e] = "thread", Top(e).pc = "send"
             PROVE  InHand(e) \in Members(c_runqueue'[t_cpu[InHand(e)]])
  BY DEF HandsKept
<1> QED BY Telling

\* What is left of the victims goes back to their run queue.
LEMMA MigrateBackKept ==
    ASSUME SchedInv, NEW c \in CPU, MigrateBack(c)
    PROVE  SchedInv'
<1>0. CpuTypes /\ ListTypes /\ LockTypes /\ ThreadTypes /\ StackTypes /\ StacksOk /\ ListInv /\ HandsOk
  BY Parts
<1>1. /\ mode[c] = "thread" /\ Top(c).pc = "migsend"
      /\ UNCHANGED <<curthread, mode, c_isidle, t_state>> /\ t_cpu' = t_cpu /\ c_zombies' = c_zombies /\ wc' = wc
      /\ UNCHANGED <<irq, splVars, lockVars>> /\ SetTop(curthread[c], Frame("yield"))
      /\ c_runqueue' = [c_runqueue EXCEPT ![c] = @ \o Top(c).carry]
  BY DEF MigrateBack, Executes, cpuVars, Goto
<1>2. PICK t \in Thr : t = curthread[c] /\ Top(c) = stack[t][1] /\ Len(stack[t]) = 2 /\ Top(c) \in FrameRecord
  BY <1>1, Executing DEF LowPcs, FrameOk
<1>3. PICK q, b \in Seq(Thr) : q = c_runqueue[c] /\ b = Top(c).carry
  BY <1>0, <1>2 DEF ListTypes, FrameRecord
<1>4. PICK f \in FrameRecord : f = Frame("yield") /\ f.pc = "yield" /\ f.carry = <<>>
  <2>1. "yield" \in Pcs
    BY DEF Pcs, HighPcs
  <2> QED BY <2>1, FrameIs
<1>5. SetTop(t, f) /\ Fits(c, f) /\ Top(c)' = f
  <2>1. SetTop(t, f)
    BY <1>1, <1>2, <1>4
  <2>2. Fits(c, f)
    BY <1>2, <1>4 DEF Fits, FrameOk, HighPcs
  <2> QED BY <1>1, <1>2, <2>1, <2>2, TopNow
<1>6. TopKind(t) = "high" /\ "high" \in Kind /\ "rq" \in Kind /\ t \in Int /\ c \in Int
  BY <1>2, SchedAssumption DEF TopKind, Kind, Thr, CPU
<1>7. ListOf("rq", c) = q /\ ListOf("high", t) = b
  <2>1. ListOf("high", t) = Carried(stack[t][1])
    BY <1>6, TopList
  <2> QED BY <1>1, <1>2, <1>3, <2>1 DEF ListOf, Carried
<1>8. /\ q \o b \in Seq(Thr) /\ Members(q \o b) = Members(q) \union Members(b) /\ Once(q \o b)
      /\ Len(q \o b) = Len(q) + Len(b)
  <2>1. Once(q) /\ Once(b)
    BY <1>0, <1>6, <1>7 DEF ListInv, ListsOnce
  <2>2. Members(q) \cap Members(b) = {}
    BY <1>6, <1>7, Apart
  <2> QED BY <2>1, <2>2, MembersConcat
<1>9. c_runqueue'[c] = q \o b /\ (\A d \in CPU : d # c => c_runqueue'[d] = c_runqueue[d]) /\ ListTypes'
  <2>1. c_runqueue' = [c_runqueue EXCEPT ![c] = q \o b]
    BY <1>1, <1>3
  <2> QED BY <1>0, <1>1, <1>8, <2>1 DEF ListTypes
<1>10. QueuesKept(c)
  BY <1>0, <1>9 DEF QueuesKept, ListTypes
<1>11. HandsKept(c)
  <2>1. \A d \in CPU : Members(c_runqueue[d]) \subseteq Members(c_runqueue'[d])
    BY <1>3, <1>8, <1>9
  <2> QED BY <1>1, <2>1, Grown
<1>12. ListInv'
  <2>1. ListOf("rq", c)' = q \o b
    BY <1>9 DEF ListOf
  <2>2. ListOf("high", t)' = <<>>
    <3>1. ListOf("high", t)' = Carried(f)
      BY <1>5, <1>6, ListsSetTop
    <3> QED BY <1>4, <3>1 DEF Carried
  <2>3. \A k \in Kind : \A n \in Int :
               (k = "high" /\ n = t) \/ (k = "rq" /\ n = c) \/ ListOf(k, n)' = ListOf(k, n)
    <3> SUFFICES ASSUME NEW k \in Kind, NEW n \in Int, ~(k = "rq" /\ n = c), ~(k = "high" /\ n = t)
                 PROVE  ListOf(k, n)' = ListOf(k, n)
      OBVIOUS
    <3>1. CASE k \in {"low", "high"}
      BY <1>5, <1>6, <3>1, ListsSetTop
    <3>2. CASE k \in {"rq", "zombies", "wc"}
      BY <1>1, <1>9, <3>2 DEF ListOf
    <3> QED BY <3>1, <3>2 DEF Kind
  <2>4. PICK W \in SUBSET Thr : W = Members(b)
    BY MembersIn
  <2>5. \A d \in CPU : t_cpu'[curthread[d]] = d
    BY <1>1, Parts DEF CpusExact
  <2>6. /\ W \subseteq Members(ListOf("high", t)) /\ Once(ListOf("high", t)') /\ Once(ListOf("rq", c)')
        /\ Members(ListOf("high", t)') = Members(ListOf("high", t)) \ W
        /\ Members(ListOf("rq", c)') = Members(ListOf("rq", c)) \union W
    BY <1>7, <1>8, <2>1, <2>2, <2>4, MembersEmpty
  <2>7. \A u \in W : t_cpu'[u] = c
    BY <1>0, <1>1, <1>3, <2>4 DEF HandsOk, HandOk
  <2>8. Transfers(W, "high", t, "rq", c)
    BY <1>1, <2>3, <2>5, <2>6, <2>7 DEF Transfers
  <2> QED BY <1>0, <1>1, <1>6, <2>8, Transfer
<1>13. HandOk(c)'
  BY <1>4, <1>5 DEF HandOk
<1>14. t_cpu' \in [Thr -> CPU] /\ SetTop(curthread[c], f)
  BY <1>0, <1>1, <1>4 DEF ThreadTypes
<1> QED BY <1>1, <1>4, <1>5, <1>9, <1>10, <1>11, <1>12, <1>13, <1>14, PlainMove DEF LockPcs

\* Threads are taken off the wait channel, to be made runnable one by one.
LEMMA WokenKept ==
    ASSUME SchedInv, NEW c \in CPU, mode[c] = "thread", Top(c).pc \in {"run", "device"}, NEW n \in Nat,
           n <= Len(wc), Woken(c, n)
    PROVE  SchedInv'
<1>0. CpuTypes /\ ListTypes /\ LockTypes /\ ThreadTypes /\ StackTypes /\ StacksOk /\ ListInv /\ HandsOk
  BY Parts
<1>1. /\ UNCHANGED <<curthread, mode, c_isidle, t_state>> /\ t_cpu' = t_cpu /\ c_zombies' = c_zombies
      /\ c_runqueue' = c_runqueue
      /\ UNCHANGED <<irq, splVars, lockVars>> /\ wc' = SubSeq(wc, n + 1, Len(wc))
      /\ SetTop(curthread[c], IF n = 0 THEN Frame(Back(curthread[c]))
                              ELSE [Frame("wake") EXCEPT !.carry = SubSeq(wc, 1, n)])
  BY DEF Woken, cpuVars
<1>2. PICK t \in Thr : /\ t = curthread[c] /\ Top(c) = stack[t][1] /\ Top(c) \in FrameRecord /\ Len(stack[t]) \in {1, 2}
                       /\ Top(c).carry = <<>>
                       /\ (Len(stack[t]) = 1 => Top(c).pc = "run") /\ (Len(stack[t]) = 2 => Top(c).pc = "device")
  BY Executing DEF FrameOk, LowPcs, HighPcs
<1>3. PICK q \in Seq(Thr) : q = wc /\ Len(q) \in Nat
  BY <1>0 DEF ListTypes
<1>4. PICK a, b \in Seq(Thr) : a = SubSeq(q, 1, n) /\ b = SubSeq(q, n + 1, Len(q))
  BY <1>3, MembersCut
<1>5. wc' = b
  BY <1>1, <1>3, <1>4
<1>6. CASE n = 0
  <2>1. PICK at \in {"run", "iret"} : /\ at = Back(t) /\ (Len(stack[t]) = 1 => at = "run")
                                      /\ (Len(stack[t]) = 2 => at = "iret")
    <3>1. CASE Len(stack[t]) = 1
      BY <3>1 DEF Back, InInterrupt
    <3>2. CASE Len(stack[t]) = 2
      BY <3>2 DEF Back, InInterrupt
    <3> QED BY <1>2, <3>1, <3>2
  <2>2. at \in Pcs /\ SetTop(curthread[c], Frame(at))
    BY <1>1, <1>2, <1>6, <2>1 DEF Pcs, LowPcs, HighPcs
  <2>3. Fits(c, Frame(at))
    BY <1>2, <2>1, <2>2, FrameIs DEF Fits, FrameOk, LowPcs, HighPcs
  <2>4. b = q
    <3>1. Len(b) = Len(q)
      BY <1>3, <1>4, <1>6, MembersCut
    <3>2. \A i \in 1..Len(q) : b[i] = q[i]
      BY <1>3, <1>4, <1>6
    <3> QED BY <3>1, <3>2, SeqEqual
  <2>5. Untouched
    BY <1>1, <1>3, <1>5, <2>4 DEF Untouched
  <2> QED BY <1>1, <1>2, <2>1, <2>2, <2>3, <2>5, PlainGoto DEF LockPcs, HandPcs
<1>7. CASE n # 0
  <2>1. PICK f : f = [Frame("wake") EXCEPT !.carry = a]
    OBVIOUS
  <2>2. f \in FrameRecord /\ f.pc = "wake" /\ f.carry = a
    <3>1. "wake" \in Pcs
      BY DEF Pcs, LowPcs
    <3>2. PICK g \in FrameRecord : g = Frame("wake") /\ g.pc = "wake"
      BY <3>1, FrameIs
    <3> QED BY <2>1, <3>2 DEF FrameRecord
  <2>3. SetTop(t, f)
    BY <1>1, <1>2, <1>3, <1>4, <1>7, <2>1
  <2>4. a # <<>> /\ Fits(c, f) /\ Top(c)' = f
    <3>1. Len(a) = n
      BY <1>3, <1>4, MembersCut
    <3>2. a # <<>>
      BY <1>7, <3>1
    <3>3. Fits(c, f)
      BY <2>2, <3>2 DEF Fits, FrameOk, HighPcs, LowPcs
    <3> QED BY <1>1, <1>2, <2>2, <2>3, <3>2, <3>3, TopNow
  <2>5. TopKind(t) \in {"low", "high"} /\ TopKind(t) \in Kind /\ "wc" \in Kind /\ t \in Int /\ 0 \in Int
    BY SchedAssumption DEF TopKind, Kind, Thr
  <2>6. PICK k0 \in {"low", "high"} : k0 = TopKind(t)
    BY <2>5
  <2>7. ListOf("wc", 0) = q /\ ListOf("wc", 0)' = b
    BY <1>3, <1>5 DEF ListOf
  <2>8. ListOf(k0, t) = <<>>
    <3>1. ListOf(k0, t) = Carried(stack[t][1])
      BY <2>6, TopList
    <3> QED BY <1>2, <3>1 DEF Carried
  <2>9. ListOf(k0, t)' = a
    <3>1. k0 \in Kind
      BY <2>5, <2>6
    <3>2. ListOf(k0, t)' = Carried(f)
      BY <2>2, <2>3, <2>5, <2>6, <3>1, ListsSetTop
    <3> QED BY <2>2, <3>2 DEF Carried
  <2>10. \A k \in Kind : \A m \in Int :
               (k = "wc" /\ m = 0) \/ (k = k0 /\ m = t) \/ ListOf(k, m)' = ListOf(k, m)
    <3> SUFFICES ASSUME NEW k \in Kind, NEW m \in Int, ~(k = "wc" /\ m = 0), ~(k = k0 /\ m = t)
                 PROVE  ListOf(k, m)' = ListOf(k, m)
      OBVIOUS
    <3>1. CASE k \in {"low", "high"}
      BY <2>2, <2>3, <2>6, <3>1, ListsSetTop
    <3>2. CASE k \in {"rq", "zombies", "wc"}
      BY <1>1, <3>2 DEF ListOf
    <3> QED BY <3>1, <3>2 DEF Kind
  <2>11. PICK W \in SUBSET Thr : W = Members(a)
    BY MembersIn
  <2>12. /\ Members(q) = W \union Members(b) /\ W \cap Members(b) = {} /\ Once(a) /\ Once(b)
    <3>1. Once(q)
      BY <1>0, <2>5, <2>7 DEF ListInv, ListsOnce
    <3> QED BY <1>3, <1>4, <2>11, <3>1, MembersCut
  <2>13. /\ W \subseteq Members(ListOf("wc", 0)) /\ Once(ListOf("wc", 0)') /\ Once(ListOf(k0, t)')
         /\ Members(ListOf("wc", 0)') = Members(ListOf("wc", 0)) \ W
         /\ Members(ListOf(k0, t)') = Members(ListOf(k0, t)) \union W
    BY <2>7, <2>8, <2>9, <2>11, <2>12, MembersEmpty
  <2>14. \A d \in CPU : t_cpu'[curthread[d]] = d
    BY <1>1, Parts DEF CpusExact
  <2>15. Transfers(W, "wc", 0, k0, t)
    BY <1>1, <2>10, <2>13, <2>14 DEF Transfers
  <2>16. ListInv'
    BY <1>0, <1>1, <2>5, <2>6, <2>15, Transfer
  <2>17. QueuesKept(c) /\ HandsKept(c) /\ ListTypes'
    <3>1. QueuesKept(c)
      BY <1>0, <1>1 DEF QueuesKept, ListTypes
    <3>2. HandsKept(c)
      BY <1>1, Grown
    <3> QED BY <1>0, <1>1, <1>5, <3>1, <3>2 DEF ListTypes
  <2>18. HandOk(c)'
    BY <2>2, <2>4 DEF HandOk
  <2>19. t_cpu' \in [Thr -> CPU] /\ SetTop(curthread[c], f) /\ Top(c).pc \notin LockPcs /\ f.pc \notin LockPcs
    BY <1>0, <1>1, <1>2, <2>2, <2>3 DEF ThreadTypes, LockPcs
  <2> QED BY <1>1, <2>2, <2>4, <2>16, <2>17, <2>18, <2>19, PlainMove
<1> QED BY <1>6, <1>7

\* thread_make_runnable: a thread goes from the hands of another to a run queue.
LEMMA RunnableKept ==
    ASSUME SchedInv, NEW c \in CPU, thread_make_runnable(c)
    PROVE  SchedInv'
<1>0. CpuTypes /\ ListTypes /\ LockTypes /\ ThreadTypes /\ StackTypes /\ StacksOk /\ ListInv /\ HandsOk /\ LocksOf(c)
  BY Parts DEF LocksOk
<1>1. /\ mode[c] = "thread" /\ Top(c).pc = "wake" /\ rqlock[t_cpu[InHand(c)]] = NoCPU
      /\ UNCHANGED <<curthread, mode, c_isidle, t_state>> /\ t_cpu' = t_cpu /\ c_zombies' = c_zombies /\ wc' = wc
      /\ UNCHANGED <<ipilock, wclock>> /\ t_curspl' = t_curspl
      /\ c_runqueue' = [c_runqueue EXCEPT ![t_cpu[InHand(c)]] = Append(@, InHand(c))]
  BY DEF thread_make_runnable, Executes
<1>2. PICK t \in Thr : /\ t = curthread[c] /\ Top(c) = stack[t][1] /\ Top(c) \in FrameRecord
                       /\ t_curspl[t] \in {0, 1} /\ t_iplhigh_count[t] = t_curspl[t] + Held(Top(c).pc)
                       /\ (irq[c] <=> t_iplhigh_count[t] = 0)
  BY <1>1, Executing
<1>3. PICK h \in Thr, s \in Seq(Thr) : h = InHand(c) /\ s = Top(c).carry /\ s # <<>> /\ h = Head(s)
  BY <1>1, HandedOverIs DEF InHand
<1>4. PICK target \in CPU : target = t_cpu[h] /\ rqlock[target] = NoCPU
  BY <1>0, <1>1, <1>3 DEF ThreadTypes
<1>5. PICK q \in Seq(Thr) : q = c_runqueue[target]
  BY <1>0 DEF ListTypes
<1>6. PICK k1 \in {"low", "high"} : k1 = TopKind(t)
  BY DEF TopKind
<1>7. k1 \in Kind /\ "rq" \in Kind /\ t \in Int /\ target \in Int
  BY SchedAssumption DEF Kind, Thr, CPU
<1>8. ListOf(k1, t) = s /\ ListOf("rq", target) = q
  <2>1. ListOf(k1, t) = Carried(stack[t][1])
    BY <1>6, TopList
  <2> QED BY <1>1, <1>2, <1>3, <1>5, <2>1 DEF Carried, ListOf
<1>9. /\ Once(Tail(s)) /\ Tail(s) \in Seq(Thr) /\ Members(s) = {h} \union Members(Tail(s)) /\ h \notin Members(Tail(s))
  <2>1. Once(s)
    BY <1>0, <1>7, <1>8 DEF ListInv, ListsOnce
  <2> QED BY <1>3, <2>1, MembersTail
<1>10. /\ Append(q, h) \in Seq(Thr) /\ Members(Append(q, h)) = Members(q) \union {h} /\ Once(Append(q, h))
       /\ Len(Append(q, h)) = Len(q) + 1
  <2>1. Once(q)
    BY <1>0, <1>7, <1>8 DEF ListInv, ListsOnce
  <2>2. h \notin Members(q)
    BY <1>7, <1>8, <1>9, Apart
  <2> QED BY <2>1, <2>2, MembersAppend
<1>11. c_runqueue'[target] = Append(q, h) /\ (\A d \in CPU : d # target => c_runqueue'[d] = c_runqueue[d]) /\ ListTypes'
  <2>1. c_runqueue' = [c_runqueue EXCEPT ![target] = Append(q, h)]
    BY <1>1, <1>3, <1>4, <1>5
  <2> QED BY <1>0, <1>1, <1>10, <2>1 DEF ListTypes
<1>12. QueuesKept(c) /\ HandsKept(c)
  <2>1. \A d \in CPU : Members(c_runqueue[d]) \subseteq Members(c_runqueue'[d]) /\ Len(c_runqueue[d]) <= Len(c_runqueue'[d])
    <3> SUFFICES ASSUME NEW d \in CPU
                 PROVE  Members(c_runqueue[d]) \subseteq Members(c_runqueue'[d]) /\ Len(c_runqueue[d]) <= Len(c_runqueue'[d])
      OBVIOUS
    <3>1. Len(c_runqueue[d]) \in Nat
      BY <1>0 DEF ListTypes
    <3>2. CASE d = target
      <4>1. PICK r \in Seq(Thr) : r = Append(q, h) /\ Members(r) = Members(q) \union {h} /\ Len(r) = Len(q) + 1
        BY <1>10
      <4>2. c_runqueue[d] = q /\ c_runqueue'[d] = r
        BY <1>5, <1>11, <3>2, <4>1
      <4> QED BY <3>1, <4>1, <4>2
    <3>3. CASE d # target
      BY <1>11, <3>1, <3>3
    <3> QED BY <3>2, <3>3
  <2> QED BY <1>1, <2>1, Grown DEF QueuesKept
<1>13. ASSUME NEW f \in FrameRecord, SetTop(t, f), Carried(f) = Tail(s) PROVE ListInv'
  <2>1. ListOf("rq", target)' = Append(q, h)
    BY <1>11 DEF ListOf
  <2>2. ListOf(k1, t)' = Tail(s)
    BY <1>6, <1>7, <1>13, ListsSetTop
  <2>3. \A k \in Kind : \A n \in Int :
               (k = k1 /\ n = t) \/ (k = "rq" /\ n = target) \/ ListOf(k, n)' = ListOf(k, n)
    <3> SUFFICES ASSUME NEW k \in Kind, NEW n \in Int, ~(k = "rq" /\ n = target), ~(k = k1 /\ n = t)
                 PROVE  ListOf(k, n)' = ListOf(k, n)
      OBVIOUS
    <3>1. CASE k \in {"low", "high"}
      BY <1>6, <1>13, <3>1, ListsSetTop
    <3>2. CASE k \in {"rq", "zombies", "wc"}
      BY <1>1, <1>11, <3>2 DEF ListOf
    <3> QED BY <3>1, <3>2 DEF Kind
  <2>4. /\ {h} \subseteq Members(ListOf(k1, t)) /\ Once(ListOf(k1, t)') /\ Once(ListOf("rq", target)')
        /\ Members(ListOf(k1, t)') = Members(ListOf(k1, t)) \ {h}
        /\ Members(ListOf("rq", target)') = Members(ListOf("rq", target)) \union {h}
    BY <1>8, <1>9, <1>10, <2>1, <2>2
  <2>5. \A d \in CPU : t_cpu'[curthread[d]] = d
    BY <1>1, Parts DEF CpusExact
  <2>6. \A u \in {h} : t_cpu'[u] = target
    BY <1>1, <1>4
  <2>7. Transfers({h}, k1, t, "rq", target)
    BY <1>1, <2>3, <2>4, <2>5, <2>6 DEF Transfers
  <2> QED BY <1>0, <1>1, <1>7, <2>7, Transfer
<1>14. t_cpu' \in [Thr -> CPU]
  BY <1>0, <1>1 DEF ThreadTypes
<1>15. CASE Tells(target)
  <2>1. /\ rqlock' = [rqlock EXCEPT ![target] = c] /\ SpinTaken(c) /\ SetTop(t, [Top(c) EXCEPT !.pc = "send"])
    BY <1>2, <1>3, <1>4, <1>15 DEF thread_make_runnable
  <2>2. PICK f : f = [Top(c) EXCEPT !.pc = "send"]
    OBVIOUS
  <2>3. f \in FrameRecord /\ f.pc = "send" /\ f.carry = s
    BY <1>2, <1>3, <2>2 DEF FrameRecord, Pcs, LowPcs
  <2>4. SetTop(t, f) /\ Carried(f) = Tail(s) /\ Fits(c, f)
    BY <1>3, <2>1, <2>2, <2>3 DEF Carried, Fits, FrameOk, LowPcs, HighPcs
  <2>5. ListInv'
    BY <1>13, <2>3, <2>4
  <2>6. Top(c)' = f
    BY <1>1, <1>2, <2>3, <2>4, TopNow
  <2>7. InHand(c)' = h
    BY <1>3, <2>3, <2>6 DEF InHand
  <2>8. Levels(c, f.pc)
    <3>1. Raised(t, 1) /\ irq' = [irq EXCEPT ![c] = FALSE]
      BY <1>2, <2>1 DEF SpinTaken
    <3>2. Held(f.pc) = 1 /\ t_iplhigh_count[t] = t_curspl[t]
      BY <1>1, <1>2, <2>3 DEF Held
    <3>3. /\ t_iplhigh_count' \in [Thr -> Int] /\ t_iplhigh_count'[t] = t_curspl[t] + 1
          /\ \A u \in Thr : u # t => t_iplhigh_count'[u] = t_iplhigh_count[u]
      BY <1>0, <3>1, <3>2 DEF Raised, ThreadTypes
    <3>4. irq' \in [CPU -> BOOLEAN] /\ ~irq'[c] /\ \A d \in CPU : d # c => irq'[d] = irq[d]
      BY <1>0, <3>1 DEF CpuTypes
    <3>5. t_iplhigh_count'[t] # 0
      BY <1>2, <3>3
    <3> QED BY <1>1, <1>2, <3>2, <3>3, <3>4, <3>5 DEF Levels
  <2>9. LockTypes'
    BY <1>0, <1>1, <2>1 DEF LockTypes, Holder
  <2>10. OtherLocks(c)
    BY <1>0, <1>1, <1>4, <2>1, NoCPUIs DEF OtherLocks, LockTypes
  <2>11. LocksOf(c)'
    <3>1. \A d \in CPU : rqlock[d] # c
      BY <1>0, <1>1 DEF LocksOf, RqHeld, RqSend
    <3>2. \A d \in CPU : rqlock'[d] = c <=> d = target
      BY <1>0, <2>1, <3>1 DEF LockTypes
    <3>3. \A d \in CPU : RqHeld(c, d)' <=> d = target
      BY <1>1, <1>4, <2>3, <2>6, <2>7 DEF RqHeld, RqSend
    <3>4. \A d \in CPU : ~IpiHeld(c, d) /\ ~IpiHeld(c, d)'
      BY <1>1, <2>3, <2>6 DEF IpiHeld
    <3>5. ~WcHeld(c) /\ ~WcHeld(c)'
      BY <1>1, <2>3, <2>6 DEF WcHeld
    <3> QED BY <1>0, <1>1, <3>2, <3>3, <3>4, <3>5 DEF LocksOf
  <2>12. HandOk(c)'
    BY <1>1, <1>4, <1>10, <1>11, <2>3, <2>6, <2>7 DEF HandOk
  <2> QED BY <1>1, <1>2, <1>11, <1>12, <1>14, <2>3, <2>4, <2>5, <2>8, <2>9, <2>10, <2>11, <2>12, MoveStep
<1>16. CASE ~Tells(target)
  <2>1. SetTop(t, HandedOver(c)) /\ UNCHANGED <<rqlock, irq, splVars>>
    BY <1>2, <1>3, <1>4, <1>16 DEF thread_make_runnable
  <2>2. PICK f \in FrameRecord : /\ f = HandedOver(c) /\ Fits(c, f) /\ f.pc \in {"wake", "iret", "run"}
                                 /\ Carried(f) = Tail(s)
    BY <1>1, <1>3, HandedOverIs
  <2>3. SetTop(t, f) /\ SetTop(curthread[c], f)
    BY <1>2, <2>1, <2>2
  <2>4. ListInv'
    BY <1>13, <2>2, <2>3
  <2>5. Top(c)' = f
    BY <1>1, <2>2, <2>3, TopNow
  <2>6. HandOk(c)'
    BY <2>2, <2>5 DEF HandOk
  <2>7. UNCHANGED <<irq, splVars, lockVars>> /\ Top(c).pc \notin LockPcs /\ f.pc \notin LockPcs
    BY <1>1, <2>1, <2>2 DEF lockVars, LockPcs
  <2> QED BY <1>1, <1>11, <1>12, <1>14, <2>2, <2>3, <2>4, <2>6, <2>7, PlainMove
<1> QED BY <1>15, <1>16

\* Of the victims, not more are looked at than are to be sent.
LEMMA LookedIs ==
    ASSUME NEW n \in Nat, NEW S, S \subseteq 1..n
    PROVE  Cardinality(S) \in Nat /\ Cardinality(S) <= n
<1>1. IsFiniteSet(1..n) /\ Cardinality(1..n) = n
  BY FS_Interval
<1>2. IsFiniteSet(S) /\ Cardinality(S) <= Cardinality(1..n)
  BY <1>1, FS_Subset
<1> QED BY <1>1, <1>2, FS_CardinalityType

\* Victims that go to another CPU are in nobody else's hands.
LEMMA SendHands ==
    ASSUME SchedInv, NEW c \in CPU, NEW W \in SUBSET Thr, TopKind(curthread[c]) = "high",
           W \subseteq Members(ListOf("high", curthread[c])),
           \A u \in Thr : u \notin W => t_cpu'[u] = t_cpu[u],
           \A d \in CPU : Members(c_runqueue[d]) \subseteq Members(c_runqueue'[d])
    PROVE  HandsKept(c)
<1>0. CpuTypes /\ CpusExact
  BY Parts
<1>1. PICK t \in Thr : t = curthread[c]
  BY <1>0 DEF CpuTypes
<1>2. t \in Int /\ "high" \in Kind /\ "rq" \in Kind
  BY SchedAssumption DEF Thr, Kind
<1> SUFFICES ASSUME NEW e \in CPU, e # c, mode[e] = "thread"
             PROVE  /\ Top(e).pc = "send" => /\ t_cpu'[InHand(e)] = t_cpu[InHand(e)]
                                             /\ InHand(e) \in Members(c_runqueue'[t_cpu[InHand(e)]])
                    /\ Top(e).pc = "migsend" => \A u \in Members(Top(e).carry) : t_cpu'[u] = t_cpu[u]
  BY DEF HandsKept
<1>3. ASSUME Top(e).pc = "send"
      PROVE  t_cpu'[InHand(e)] = t_cpu[InHand(e)] /\ InHand(e) \in Members(c_runqueue'[t_cpu[InHand(e)]])
  <2>1. PICK d \in CPU : d = t_cpu[InHand(e)] /\ InHand(e) \in Thr /\ InHand(e) \in Members(c_runqueue[d])
    BY <1>3, Telling
  <2>2. d \in Int /\ ListOf("rq", d) = c_runqueue[d]
    BY SchedAssumption DEF CPU, ListOf
  <2>3. InHand(e) \notin W
    BY <1>1, <1>2, <2>1, <2>2, Apart
  <2> QED BY <2>1, <2>3
<1>4. ASSUME Top(e).pc = "migsend", NEW u \in Members(Top(e).carry) PROVE t_cpu'[u] = t_cpu[u]
  <2>1. PICK v \in Thr : v = curthread[e] /\ v # t /\ v \in Int
    BY <1>0, <1>1, Mine, SchedAssumption DEF CpuTypes, Thr
  <2>2. PICK k \in Kind : k = TopKind(v) /\ ListOf(k, v) = Carried(stack[v][1])
    BY TopList
  <2>3. ListOf(k, v) = Top(e).carry
    BY <1>4, <2>1, <2>2 DEF Carried, Top
  <2>4. Members(Top(e).carry) \subseteq Thr
    BY <2>3, Parts, ListTyped
  <2>5. u \notin W
    BY <1>1, <1>2, <1>4, <2>1, <2>3, Apart
  <2> QED BY <2>4, <2>5
<1> QED BY <1>3, <1>4

\* thread_consider_migration sends victims to another CPU.
LEMMA MigrateSendKept ==
    ASSUME SchedInv, NEW c \in CPU, MigrateSend(c)
    PROVE  SchedInv'
<1>0. CpuTypes /\ ListTypes /\ LockTypes /\ ThreadTypes /\ StackTypes /\ StacksOk /\ ListInv /\ HandsOk /\ CpusExact
  BY Parts
<1>1. /\ mode[c] = "thread" /\ Top(c).pc = "migsend" /\ Top(c).m.i < NCPU
      /\ UNCHANGED <<curthread, mode, c_isidle, t_state>> /\ c_zombies' = c_zombies /\ wc' = wc
      /\ UNCHANGED <<irq, splVars, lockVars>>
  BY DEF MigrateSend, Executes, cpuVars
<1>2. PICK t \in Thr : /\ t = curthread[c] /\ Top(c) = stack[t][1] /\ Len(stack[t]) = 2 /\ Top(c) \in FrameRecord
                       /\ Len(stack[curthread[c]]) = 2
  BY <1>1, Executing DEF LowPcs
<1>3. PICK g \in FrameRecord : g = Top(c)
  BY <1>2
<1>4. PICK s \in Seq(Thr), m \in MigRecord : s = g.carry /\ m = g.m /\ m.send <= Len(s) /\ g.pc = "migsend"
                                             /\ \A u \in Members(s) : t_cpu[u] = c
  BY <1>0, <1>1, <1>3 DEF FrameRecord, HandsOk, HandOk
<1>5. m.i \in CPU /\ m.i \in Nat /\ m.send \in Nat /\ m.i + 1 \in Nat
  BY <1>1, <1>3, <1>4, SchedAssumption DEF MigRecord, CPU
<1>6. PICK looked \in Nat :
         /\ looked = Cardinality({k \in 1 .. m.send : Len(Sent(c, SubSeq(s, 1, k - 1))) <
                                     OneShare(m.total) - Len(c_runqueue[m.i])})
         /\ looked <= m.send
  <2> DEFINE S == {k \in 1 .. m.send : Len(Sent(c, SubSeq(s, 1, k - 1))) < OneShare(m.total) - Len(c_runqueue[m.i])}
  <2>1. S \subseteq 1..m.send
    OBVIOUS
  <2> HIDE DEF S
  <2>2. Cardinality(S) \in Nat /\ Cardinality(S) <= m.send
    BY <1>5, <2>1, LookedIs
  <2> QED BY <2>2 DEF S
<1>7. TopKind(t) = "high" /\ "high" \in Kind /\ "rq" \in Kind /\ t \in Int /\ m.i \in Int
  BY <1>2, <1>5, SchedAssumption DEF TopKind, Kind, Thr
<1>8. ListOf("high", t) = s /\ Once(s)
  <2>1. ListOf("high", t) = Carried(stack[t][1])
    BY <1>7, TopList
  <2>2. ListOf("high", t) = s
    BY <1>2, <1>3, <1>4, <2>1 DEF Carried
  <2> QED BY <1>0, <1>7, <2>2 DEF ListInv, ListsOnce
<1>9. CASE m.i = c \/ looked = 0
  <2>1. /\ SetTop(curthread[c], [g EXCEPT !.m.i = @ + 1]) /\ UNCHANGED <<c_runqueue, t_cpu>>
    BY <1>3, <1>4, <1>6, <1>9 DEF MigrateSend
  <2>2. PICK r : r = [m EXCEPT !.i = @ + 1]
    OBVIOUS
  <2>3. r \in MigRecord /\ r.send = m.send
    BY <1>5, <2>2 DEF MigRecord
  <2>4. PICK f : f = [g EXCEPT !.m = r]
    OBVIOUS
  <2>5. f \in FrameRecord /\ f.pc = "migsend" /\ f.carry = s /\ f.m = r
    BY <1>4, <2>3, <2>4 DEF FrameRecord
  <2>6. SetTop(curthread[c], f)
    BY <1>4, <2>1, <2>2, <2>4
  <2>7. Fits(c, f) /\ Carried(f) = Carried(Top(c))
    BY <1>2, <1>3, <1>4, <2>5 DEF Fits, FrameOk, HighPcs, Carried
  <2>8. Top(c)' = f
    BY <1>1, <2>5, <2>6, TopNow
  <2>9. HandOk(c)'
    BY <1>4, <2>1, <2>3, <2>5, <2>8 DEF HandOk
  <2> QED BY <1>1, <2>1, <2>5, <2>6, <2>7, <2>9, PlainStep DEF LockPcs, Untouched
<1>10. CASE m.i # c /\ looked # 0
  <2>1. PICK seen, stays, goes, mine :
           /\ seen = SubSeq(s, 1, looked) /\ stays = SubSeq(s, looked + 1, Len(s)) /\ goes = Sent(c, seen)
           /\ mine = IF t \in Members(seen) THEN <<t>> ELSE <<>>
    OBVIOUS
  <2>2. /\ SetTop(curthread[c], [g EXCEPT !.carry = stays \o mine, !.m.i = @ + 1, !.m.send = @ - looked])
        /\ c_runqueue' = [c_runqueue EXCEPT ![m.i] = @ \o goes]
        /\ t_cpu' = [u \in Thr |-> IF u \in Members(goes) THEN m.i ELSE t_cpu[u]]
    BY <1>2, <1>3, <1>4, <1>6, <1>10, <2>1 DEF MigrateSend
  <2>3. /\ seen \in Seq(Thr) /\ stays \in Seq(Thr) /\ Len(stays) = Len(s) - looked /\ Once(seen) /\ Once(stays)
        /\ Members(s) = Members(seen) \union Members(stays) /\ Members(seen) \cap Members(stays) = {}
    <3>1. looked <= Len(s)
      BY <1>4, <1>5, <1>6
    <3> QED BY <1>8, <2>1, <3>1, MembersCut
  <2>4. goes \in Seq(Thr) /\ Once(goes) /\ Members(goes) = Members(seen) \ {t}
    BY <1>2, <2>1, <2>3, SentIs
  <2>5. mine \in Seq(Thr) /\ Once(mine) /\ Members(mine) = Members(seen) \cap {t}
    <3>1. CASE t \in Members(seen)
      BY <2>1, <3>1, MembersOne
    <3>2. CASE t \notin Members(seen)
      BY <2>1, <3>2, MembersEmpty
    <3> QED BY <3>1, <3>2
  <2>6. PICK W \in SUBSET Thr : W = Members(goes)
    BY <2>4, MembersIn
  <2>7. PICK back \in Seq(Thr) : /\ back = stays \o mine /\ Once(back) /\ Members(back) = Members(s) \ W
                                 /\ Len(back) >= Len(s) - looked
    <3>1. Members(stays) \cap Members(mine) = {} /\ Members(stays) \union Members(mine) = Members(s) \ W
      BY <2>3, <2>4, <2>5, <2>6
    <3>2. stays \o mine \in Seq(Thr) /\ Once(stays \o mine) /\ Members(stays \o mine) = Members(s) \ W
      BY <2>3, <2>5, <3>1, MembersConcat
    <3>3. Len(stays \o mine) = Len(stays) + Len(mine) /\ Len(mine) \in Nat /\ Len(stays) \in Nat
      BY <2>3, <2>5, MembersConcat
    <3>4. Len(stays \o mine) >= Len(s) - looked
      BY <2>3, <3>3
    <3> QED BY <3>2, <3>4, Zenon
  <2>8. PICK q \in Seq(Thr) : q = c_runqueue[m.i] /\ ListOf("rq", m.i) = q
    BY <1>0, <1>5 DEF ListTypes, ListOf
  <2>9. W \subseteq Members(s) /\ t \notin W /\ Members(q) \cap W = {}
    <3>1. W \subseteq Members(s) /\ t \notin W
      BY <2>3, <2>4, <2>6
    <3>2. Members(q) \cap Members(s) = {}
      BY <1>7, <1>8, <2>8, Apart
    <3> QED BY <3>1, <3>2
  <2>10. PICK r \in Seq(Thr) : /\ r = q \o goes /\ Once(r) /\ Members(r) = Members(q) \union W
                               /\ Len(r) >= Len(q)
    <3>1. Once(q)
      BY <1>0, <1>7, <2>8 DEF ListInv, ListsOnce
    <3>2. q \o goes \in Seq(Thr) /\ Once(q \o goes) /\ Members(q \o goes) = Members(q) \union W
      BY <2>4, <2>6, <2>9, <3>1, MembersConcat
    <3>3. Len(q \o goes) = Len(q) + Len(goes) /\ Len(goes) \in Nat /\ Len(q) \in Nat
      BY <2>4, MembersConcat
    <3>4. Len(q \o goes) >= Len(q)
      BY <3>3
    <3> QED BY <3>2, <3>4, Zenon
  <2>11. c_runqueue'[m.i] = r /\ (\A d \in CPU : d # m.i => c_runqueue'[d] = c_runqueue[d]) /\ ListTypes'
    <3>1. c_runqueue' = [c_runqueue EXCEPT ![m.i] = r]
      BY <2>2, <2>8, <2>10
    <3> QED BY <1>0, <1>1, <1>5, <3>1 DEF ListTypes
  <2>12. /\ \A u \in Thr : t_cpu'[u] = IF u \in W THEN m.i ELSE t_cpu[u]
         /\ t_cpu' \in [Thr -> CPU]
    BY <1>0, <1>5, <2>2, <2>6 DEF ThreadTypes
  <2>13. PICK r2 : r2 = [m EXCEPT !.i = m.i + 1, !.send = m.send - looked]
    OBVIOUS
  <2>14. r2 \in MigRecord /\ r2.send = m.send - looked
    <3>1. m.send - looked \in Nat
      BY <1>5, <1>6
    <3> QED BY <1>5, <2>13, <3>1 DEF MigRecord
  <2>15. PICK f : f = [g EXCEPT !.carry = back, !.m = r2]
    OBVIOUS
  <2>16. f \in FrameRecord /\ f.pc = "migsend" /\ f.carry = back /\ f.m = r2
    BY <1>4, <2>14, <2>15 DEF FrameRecord
  <2>17. SetTop(t, f) /\ SetTop(curthread[c], f)
    <3>1. [g EXCEPT !.carry = stays \o mine, !.m.i = @ + 1, !.m.send = @ - looked] = f
      BY <1>4, <2>7, <2>13, <2>15 DEF FrameRecord, MigRecord
    <3> QED BY <1>2, <2>2, <3>1
  <2>18. Fits(c, f) /\ Top(c)' = f
    <3>1. Fits(c, f)
      BY <1>2, <2>16 DEF Fits, FrameOk, HighPcs
    <3> QED BY <1>1, <2>16, <2>17, <3>1, TopNow
  <2>19. \A d \in CPU : Members(c_runqueue[d]) \subseteq Members(c_runqueue'[d]) /\ Len(c_runqueue[d]) <= Len(c_runqueue'[d])
    <3> SUFFICES ASSUME NEW d \in CPU
                 PROVE  Members(c_runqueue[d]) \subseteq Members(c_runqueue'[d]) /\ Len(c_runqueue[d]) <= Len(c_runqueue'[d])
      OBVIOUS
    <3>1. Len(c_runqueue[d]) \in Nat
      BY <1>0 DEF ListTypes
    <3>2. CASE d = m.i
      BY <2>8, <2>10, <2>11, <3>2
    <3>3. CASE d # m.i
      BY <2>11, <3>1, <3>3
    <3> QED BY <3>2, <3>3
  <2>20. QueuesKept(c)
    BY <2>19 DEF QueuesKept
  <2>21. HandsKept(c)
    BY <1>2, <1>7, <1>8, <2>9, <2>12, <2>19, SendHands
  <2>22. ListInv'
    <3>1. ListOf("rq", m.i)' = r
      BY <1>5, <2>11 DEF ListOf
    <3>2. ListOf("high", t)' = back
      <4>1. ListOf("high", t)' = Carried(f)
        BY <1>7, <2>16, <2>17, ListsSetTop
      <4> QED BY <2>16, <4>1 DEF Carried
    <3>3. \A k \in Kind : \A n \in Int :
                 (k = "high" /\ n = t) \/ (k = "rq" /\ n = m.i) \/ ListOf(k, n)' = ListOf(k, n)
      <4> SUFFICES ASSUME NEW k \in Kind, NEW n \in Int, ~(k = "rq" /\ n = m.i), ~(k = "high" /\ n = t)
                   PROVE  ListOf(k, n)' = ListOf(k, n)
        OBVIOUS
      <4>1. CASE k \in {"low", "high"}
        BY <1>7, <2>16, <2>17, <4>1, ListsSetTop
      <4>2. CASE k \in {"rq", "zombies", "wc"}
        BY <1>1, <2>11, <4>2 DEF ListOf
      <4> QED BY <4>1, <4>2 DEF Kind
    <3>4. /\ W \subseteq Members(ListOf("high", t)) /\ Once(ListOf("high", t)') /\ Once(ListOf("rq", m.i)')
          /\ Members(ListOf("high", t)') = Members(ListOf("high", t)) \ W
          /\ Members(ListOf("rq", m.i)') = Members(ListOf("rq", m.i)) \union W
      BY <1>8, <2>7, <2>8, <2>9, <2>10, <3>1, <3>2
    <3>5. \A d \in CPU : t_cpu'[curthread[d]] = d
      <4> SUFFICES ASSUME NEW d \in CPU PROVE t_cpu'[curthread[d]] = d
        OBVIOUS
      <4>1. curthread[d] \in Thr /\ t_cpu[curthread[d]] = d
        BY <1>0 DEF CpuTypes, CpusExact
      <4>2. curthread[d] \notin W
        BY <1>2, <1>4, <2>9, <4>1
      <4> QED BY <2>12, <4>1, <4>2
    <3>6. (\A u \in W : t_cpu'[u] = m.i) /\ \A u \in Thr : u \notin W => t_cpu'[u] = t_cpu[u]
      BY <2>12
    <3>7. Transfers(W, "high", t, "rq", m.i)
      BY <3>3, <3>4, <3>5, <3>6 DEF Transfers
    <3> QED BY <1>0, <1>1, <1>7, <3>7, Transfer
  <2>23. HandOk(c)'
    <3>1. m.send - looked <= Len(back)
      BY <1>4, <1>5, <2>7
    <3>2. \A u \in Members(back) : t_cpu'[u] = c
      <4>1. Members(back) \in SUBSET Thr
        BY MembersIn
      <4> QED BY <1>4, <2>7, <2>12, <4>1
    <3> QED BY <2>14, <2>16, <2>18, <3>1, <3>2 DEF HandOk
  <2> QED BY <1>1, <2>11, <2>12, <2>16, <2>17, <2>18, <2>20, <2>21, <2>22, <2>23, PlainMove DEF LockPcs
<1> QED BY <1>9, <1>10

-----------------------------------------------------------------------------
(* thread_switch *)

\* Where thread_switch puts a thread away.
PutAway(state, c, k0, n0) ==
    \/ (state = "S_READY" /\ k0 = "rq" /\ n0 = c)
    \/ (state = "S_SLEEP" /\ k0 = "wc" /\ n0 = 0)
    \/ (state = "S_ZOMBIE" /\ k0 = "zombies" /\ n0 = c)

\* The current thread is put on a list, and the run queue is locked.
GoesAway(c, state, k0, n0, at) ==
    /\ mode[c] = "thread" /\ ~c_isidle[c] /\ PutAway(state, c, k0, n0) /\ Away(c, state)
    /\ SetTop(curthread[c], Frame(at)) /\ Top(c).carry = <<>> /\ Top(c).pc \notin {"send", "ipibits"}
    /\ \/ Len(stack[curthread[c]]) = 1 /\ at = (IF state = "S_ZOMBIE" THEN "dead" ELSE "run")
       \/ Len(stack[curthread[c]]) = 2 /\ at = "iret" /\ state = "S_READY"
    /\ t_iplhigh_count' \in [Thr -> Int] /\ t_iplhigh_count'[curthread[c]] = 2
    /\ \A u \in Thr : u # curthread[c] => t_iplhigh_count'[u] = t_iplhigh_count[u]
    /\ wclock' \in Holder /\ wclock' # c /\ \A e \in CPU : e # c => (wclock' = e <=> wclock = e)
    /\ ListOf(k0, n0)' = Append(ListOf(k0, n0), curthread[c])
    /\ \A k \in {"rq", "zombies", "wc"} : \A n \in Int : (k = k0 /\ n = n0) \/ ListOf(k, n)' = ListOf(k, n)

\* The first half of thread_switch.
LEMMA AwayStep ==
    ASSUME SchedInv, NEW c \in CPU, NEW state, NEW k0, NEW n0, NEW at \in Pcs, GoesAway(c, state, k0, n0, at), ListTypes'
    PROVE  SchedInv'
<1> USE DEF GoesAway
<1>0. /\ CpuTypes /\ ListTypes /\ LockTypes /\ ThreadTypes /\ StackTypes /\ StacksOk /\ ListInv /\ HandsOk /\ LocksOf(c)
      /\ CpusOk /\ OffOk /\ LocksOk /\ CpusExact
  BY Parts DEF LocksOk
<1>1. /\ rqlock[c] = NoCPU /\ rqlock' = [rqlock EXCEPT ![c] = c]
      /\ t_state' = [t_state EXCEPT ![curthread[c]] = state]
      /\ mode' = [mode EXCEPT ![c] = "pick"] /\ irq' = [irq EXCEPT ![c] = FALSE]
      /\ t_curspl' = [t_curspl EXCEPT ![curthread[c]] = 1]
      /\ UNCHANGED <<curthread, c_isidle, ipilock, t_cpu>>
  BY DEF Away
<1>2. PICK t \in Thr : /\ t = curthread[c] /\ Top(c) = stack[t][1] /\ Len(stack[t]) \in {1, 2}
                       /\ Running(stack[t], t_state[t], t_curspl[t], t_iplhigh_count[t], c_isidle[c])
  BY Executing
<1>3. state \in {"S_READY", "S_SLEEP", "S_ZOMBIE"} /\ k0 \in {"rq", "zombies", "wc"} /\ k0 \in Kind /\ n0 \in Int
  BY SchedAssumption DEF PutAway, Kind, CPU
<1>4. /\ mode'[c] = "pick" /\ mode' \in [CPU -> Modes] /\ (\A d \in CPU : d # c => mode'[d] = mode[d])
      /\ irq' \in [CPU -> BOOLEAN] /\ ~irq'[c] /\ (\A d \in CPU : d # c => irq'[d] = irq[d])
  BY <1>0, <1>1 DEF CpuTypes, Modes
<1>5. /\ t_state' \in [Thr -> States] /\ t_state'[t] = state /\ (\A u \in Thr : u # t => t_state'[u] = t_state[u])
      /\ t_curspl' \in [Thr -> {0, 1}] /\ t_curspl'[t] = 1 /\ (\A u \in Thr : u # t => t_curspl'[u] = t_curspl[u])
  BY <1>0, <1>1, <1>2, <1>3 DEF ThreadTypes, States
<1>6. PICK f \in FrameRecord : f = Frame(at) /\ f.pc = at /\ f.carry = <<>>
  BY FrameIs
<1>7. SetTop(t, f)
  BY <1>2, <1>6
<1>8. /\ stack' \in [Thr -> Seq(FrameRecord)] /\ Len(stack'[t]) = Len(stack[t]) /\ stack'[t][1] = f
      /\ (Len(stack[t]) = 2 => stack'[t][2] = stack[t][2])
      /\ \A u \in Thr : u # t => stack'[u] = stack[u]
  BY <1>0, <1>7, TopSet
<1>9. CpuTypes' /\ ThreadTypes' /\ StackTypes'
  BY <1>0, <1>1, <1>4, <1>5, <1>8 DEF CpuTypes, ThreadTypes, StackTypes
<1>10. StacksOk'
  <2>1. FrameOk(f)
    BY <1>6, <1>2 DEF FrameOk
  <2> QED BY <1>0, <1>2, <1>8, <2>1 DEF StacksOk
<1>11. LockTypes'
  BY <1>0, <1>1 DEF LockTypes, Holder
<1>12. Solo(c)
  BY <1>1, <1>2, <1>4, <1>5, <1>8 DEF Solo
<1>13. \A d \in CPU : /\ Members(c_runqueue[d]) \subseteq Members(c_runqueue'[d])
                      /\ d # c => c_runqueue'[d] = c_runqueue[d]
  <2> SUFFICES ASSUME NEW d \in CPU
               PROVE  /\ Members(c_runqueue[d]) \subseteq Members(c_runqueue'[d])
                      /\ d # c => c_runqueue'[d] = c_runqueue[d]
    OBVIOUS
  <2>1. d \in Int /\ ListOf("rq", d) = c_runqueue[d] /\ ListOf("rq", d)' = c_runqueue'[d] /\ c_runqueue[d] \in Seq(Thr)
    BY <1>0, SchedAssumption DEF CPU, ListOf, ListTypes
  <2>2. CASE k0 = "rq" /\ n0 = d
    <3>1. c_runqueue'[d] = Append(c_runqueue[d], t) /\ d = c
      BY <1>2, <2>1, <2>2 DEF PutAway
    <3> QED BY <1>2, <2>1, <3>1, MembersAppend
  <2>3. CASE ~(k0 = "rq" /\ n0 = d)
    BY <2>1, <2>3
  <2> QED BY <2>2, <2>3
<1>14. QueuesKept(c) /\ HandsKept(c)
  <2>1. QueuesKept(c)
    BY <1>0, <1>13 DEF QueuesKept, ListTypes
  <2> QED BY <1>1, <1>13, <2>1, Grown
<1>15. CpuOk(c)'
  <2>1. state = "S_READY" => t \in Members(c_runqueue'[c])
    <3>1. state = "S_READY" => c_runqueue'[c] = Append(c_runqueue[c], t)
      BY <1>2 DEF PutAway, ListOf
    <3>2. c_runqueue[c] \in Seq(Thr)
      BY <1>0 DEF ListTypes
    <3> QED BY <3>1, <3>2, MembersAppend
  <2>2. Len(stack[t]) = 2 => stack[t][2].pc \in Interrupted
    BY <1>2 DEF Running
  <2>3. Parked(stack'[t], state)
    BY <1>2, <1>6, <1>8, <2>2 DEF Parked
  <2>4. Len(stack'[t]) = 2 => t \in Members(c_runqueue'[c])
    BY <1>2, <1>8, <2>1
  <2>5. Standing(t, stack'[t], state, 1, 2, "pick", c_isidle[c], irq'[c], Members(c_runqueue'[c]))
    BY <1>3, <1>4, <2>3, <2>4 DEF Standing
  <2> QED BY <1>1, <1>2, <1>4, <1>5, <2>5 DEF CpuOk
<1>16. CpusOk' /\ OffOk'
  BY <1>0, <1>12, <1>14, <1>15, SoloShape
<1>17. OtherLocks(c)
  BY <1>0, <1>1, NoCPUIs DEF OtherLocks, LockTypes
<1>18. LocksOf(c)'
  <2>1. \A d \in CPU : rqlock[d] # c
    BY <1>0 DEF LocksOf, RqHeld, RqSend
  <2>2. \A d \in CPU : rqlock'[d] = c <=> d = c
    BY <1>0, <1>1, <2>1 DEF LockTypes
  <2>3. \A d \in CPU : RqHeld(c, d)' <=> d = c
    BY <1>4 DEF RqHeld, RqSend
  <2>4. \A d \in CPU : ~IpiHeld(c, d) /\ ~IpiHeld(c, d)'
    BY <1>4 DEF IpiHeld
  <2>5. ~WcHeld(c)'
    BY <1>4 DEF WcHeld
  <2> QED BY <1>0, <1>1, <2>2, <2>3, <2>4, <2>5 DEF LocksOf
<1>19. LocksOk'
  BY <1>0, <1>12, <1>14, <1>17, <1>18, SoloOthers, OthersLocks
<1>20. HandsOk'
  <2>1. HandOk(c)'
    BY <1>4 DEF HandOk
  <2> QED BY <1>0, <1>12, <1>14, <2>1, SoloOthers, OthersHands
<1>21. ListInv'
  <2>1. \A k \in Kind : \A n \in Int : (k = k0 /\ n = n0) \/ ListOf(k, n)' = ListOf(k, n)
    <3>1. \A u \in Thr : Low(u)' = Low(u) /\ High(u)' = High(u)
      <4>1. Carried(f) = Carried(stack[t][1])
        <5>1. Carried(f) = <<>>
          BY <1>6, <1>3 DEF Carried
        <5>2. Carried(stack[t][1]) = <<>>
          BY <1>2 DEF Carried
        <5> QED BY <5>1, <5>2
      <4> QED BY <1>0, <1>7, <4>1, TopSame
    <3>2. \A n \in Int : ListOf("low", n)' = ListOf("low", n) /\ ListOf("high", n)' = ListOf("high", n)
      BY <3>1 DEF ListOf
    <3> QED BY <3>2 DEF Kind
  <2>2. Current(t)
    BY <1>2 DEF Current, Leaving
  <2>3. \A k \in Kind : \A n \in Int : ~In(t, k, n)
    BY <1>0, <2>2, CurrentUnlisted
  <2>4. ListOf(k0, n0) \in Seq(Thr) /\ t \notin Members(ListOf(k0, n0)) /\ Once(ListOf(k0, n0))
    BY <1>0, <1>3, <2>3, ListTyped DEF In, ListInv, ListsOnce
  <2>5. /\ Members(ListOf(k0, n0)') = Members(ListOf(k0, n0)) \union {t} /\ Once(ListOf(k0, n0)')
    BY <1>2, <2>4, MembersAppend
  <2>6. \A u \in Thr : \A k \in Kind : \A n \in Int :
               In(u, k, n)' <=> IF u \in {t} THEN k = k0 /\ n = n0 ELSE In(u, k, n)
    BY <2>1, <2>3, <2>5 DEF In
  <2>7. ListsOnce'
    BY <1>0, <2>1, <2>5 DEF ListInv, ListsOnce
  <2>8. \A u \in Thr : u \notin {t} => Stays(u)
    <3> SUFFICES ASSUME NEW u \in Thr, u # t PROVE Stays(u)
      OBVIOUS
    <3>1. Current(u)' <=> Current(u)
      <4>1. \A d \in CPU : curthread[d] = u => d # c /\ (Leaving(d)' <=> Leaving(d))
        BY <1>1, <1>2, <1>4 DEF Leaving
      <4> QED BY <1>1, <4>1 DEF Current
    <3> QED BY <1>1, <1>5, <3>1 DEF Stays
  <2>9. ~Current(t)'
    <3>1. \A d \in CPU : curthread'[d] = t => d = c
      BY <1>0, <1>1, <1>2, Mine
    <3> QED BY <1>4, <3>1 DEF Current, Leaving
  <2>10. \A u \in {t} : /\ ~Current(u)'
                        /\ IF k0 = "zombies" THEN t_state'[u] = "S_ZOMBIE" ELSE t_state'[u] \in {"S_READY", "S_SLEEP"}
                        /\ k0 \in {"rq", "zombies"} => t_cpu'[u] = n0
    BY <1>0, <1>1, <1>2, <1>5, <2>9 DEF PutAway, CpusExact
  <2>11. \A d \in CPU : t_cpu'[curthread'[d]] = d
    BY <1>0, <1>1 DEF CpusExact
  <2>12. {t} \in SUBSET Thr
    OBVIOUS
  <2>13. Moves({t}, k0, n0)
    BY <2>6, <2>8, <2>10, <2>11 DEF Moves
  <2> QED BY <1>0, <1>3, <2>7, <2>12, <2>13, MoveLists
<1> QED BY <1>9, <1>10, <1>11, <1>16, <1>19, <1>20, <1>21 DEF SchedInv, ShapeInv, SchedTypes

\* thread_yield.
LEMMA YieldKept ==
    ASSUME SchedInv, NEW c \in CPU, thread_yield(c)
    PROVE  SchedInv'
<1>0. ListTypes /\ LockTypes /\ ThreadTypes /\ LocksOf(c)
  BY Parts DEF LocksOk
<1>1. mode[c] = "thread" /\ Top(c).pc \in {"yield", "run"}
  BY DEF thread_yield, Executes
<1>2. CASE c_isidle[c] \/ c_runqueue[c] = <<>>
  <2>1. Goto(c, Back(curthread[c])) /\ Top(c).pc = "yield" /\ Untouched /\ UNCHANGED <<irq, splVars, lockVars>>
    BY <1>2 DEF thread_yield, cpuVars, queueVars, Untouched
  <2> QED BY <1>1, <2>1, YieldBackKept
<1>3. CASE ~(c_isidle[c] \/ c_runqueue[c] = <<>>)
  <2>1. /\ Away(c, "S_READY") /\ c_runqueue' = [c_runqueue EXCEPT ![c] = Append(@, curthread[c])]
        /\ Raised(curthread[c], SwitchRaise(curthread[c])) /\ Goto(c, Back(curthread[c]))
        /\ UNCHANGED <<c_zombies, wc, wclock>> /\ ~c_isidle[c]
    BY <1>3 DEF thread_yield
  <2>2. PICK t \in Thr : /\ t = curthread[c] /\ Len(stack[t]) \in {1, 2} /\ FrameOk(Top(c))
                         /\ (Len(stack[t]) = 1 => Top(c).pc \in LowPcs) /\ (Len(stack[t]) = 2 => Top(c).pc \in HighPcs)
                         /\ t_iplhigh_count[t] = t_curspl[t] + Held(Top(c).pc) /\ t_curspl[t] \in {0, 1}
    BY <1>1, Executing
  <2>3. Top(c).carry = <<>> /\ t_iplhigh_count[t] = t_curspl[t]
    BY <1>1, <2>2 DEF FrameOk, Held
  <2>4. PICK at \in Pcs : /\ at = Back(t) /\ SetTop(t, Frame(at))
                          /\ \/ Len(stack[t]) = 1 /\ at = "run"
                             \/ Len(stack[t]) = 2 /\ at = "iret"
    <3>1. CASE Len(stack[t]) = 1
      BY <2>1, <2>2, <3>1 DEF Back, InInterrupt, Goto, Pcs, LowPcs
    <3>2. CASE Len(stack[t]) = 2
      BY <2>1, <2>2, <3>2 DEF Back, InInterrupt, Goto, Pcs, HighPcs
    <3> QED BY <2>2, <3>1, <3>2
  <2>5. /\ t_iplhigh_count' \in [Thr -> Int] /\ t_iplhigh_count'[t] = 2
        /\ \A u \in Thr : u # t => t_iplhigh_count'[u] = t_iplhigh_count[u]
    <3>1. PICK n \in Int : n = SwitchRaise(t) /\ t_iplhigh_count[t] + n = 2
      <4>1. SwitchRaise(t) \in Int /\ t_iplhigh_count[t] + SwitchRaise(t) = 2
        BY <2>2, <2>3 DEF SwitchRaise
      <4> QED BY <4>1
    <3>2. t_iplhigh_count' = [t_iplhigh_count EXCEPT ![t] = t_iplhigh_count[t] + n]
      BY <2>1, <2>2, <3>1 DEF Raised
    <3> QED BY <1>0, <3>1, <3>2 DEF ThreadTypes
  <2>6. PICK q \in Seq(Thr) : q = c_runqueue[c]
    BY <1>0 DEF ListTypes
  <2>7. c_runqueue' = [c_runqueue EXCEPT ![c] = Append(q, t)] /\ Append(q, t) \in Seq(Thr)
    BY <2>1, <2>2, <2>6, MembersAppend
  <2>8. c_runqueue'[c] = Append(q, t) /\ (\A d \in CPU : d # c => c_runqueue'[d] = c_runqueue[d]) /\ ListTypes'
    BY <1>0, <2>1, <2>7 DEF ListTypes
  <2>9. ListOf("rq", c)' = Append(ListOf("rq", c), t)
    BY <2>6, <2>8 DEF ListOf
  <2>10. \A k \in {"rq", "zombies", "wc"} : \A n \in Int : (k = "rq" /\ n = c) \/ ListOf(k, n)' = ListOf(k, n)
    BY <2>1, <2>8 DEF ListOf
  <2>11. wclock' \in Holder /\ wclock' # c /\ \A e \in CPU : e # c => (wclock' = e <=> wclock = e)
    BY <1>0, <1>1, <2>1 DEF LockTypes, LocksOf, WcHeld
  <2>12. PutAway("S_READY", c, "rq", c)
    BY DEF PutAway
  <2>13. GoesAway(c, "S_READY", "rq", c, at)
    BY <1>1, <2>1, <2>2, <2>3, <2>4, <2>5, <2>9, <2>10, <2>11, <2>12 DEF GoesAway
  <2> QED BY <2>4, <2>8, <2>13, AwayStep
<1> QED BY <1>2, <1>3

\* wchan_sleep.
LEMMA SleepKept ==
    ASSUME SchedInv, NEW c \in CPU, wchan_sleep(c)
    PROVE  SchedInv'
<1>0. ListTypes /\ LockTypes /\ ThreadTypes /\ LocksOf(c)
  BY Parts DEF LocksOk
<1>1. /\ mode[c] = "thread" /\ Top(c).pc = "sleep" /\ Away(c, "S_SLEEP") /\ wc' = Append(wc, curthread[c])
      /\ Raised(curthread[c], SwitchRaise(curthread[c]) - 1) /\ SetTop(curthread[c], Frame("run"))
      /\ UNCHANGED <<c_zombies, c_runqueue>> /\ wclock' = NoCPU
  BY DEF wchan_sleep, Executes, Goto
<1>2. PICK t \in Thr : /\ t = curthread[c] /\ FrameOk(Top(c)) /\ Len(stack[t]) = 1 /\ ~c_isidle[c]
                       /\ t_iplhigh_count[t] = 1 /\ t_curspl[t] = 0
  BY <1>1, Executing DEF HighPcs, Running, Held
<1>3. Top(c).carry = <<>> /\ "run" \in Pcs
  BY <1>1, <1>2 DEF FrameOk, Pcs, LowPcs
<1>4. /\ t_iplhigh_count' \in [Thr -> Int] /\ t_iplhigh_count'[t] = 2
      /\ \A u \in Thr : u # t => t_iplhigh_count'[u] = t_iplhigh_count[u]
  <2>1. SwitchRaise(t) - 1 = 1
    BY <1>2 DEF SwitchRaise
  <2>2. t_iplhigh_count' = [t_iplhigh_count EXCEPT ![t] = t_iplhigh_count[t] + 1]
    BY <1>1, <1>2, <2>1 DEF Raised
  <2> QED BY <1>0, <1>2, <2>2 DEF ThreadTypes
<1>5. Append(wc, t) \in Seq(Thr) /\ ListTypes'
  BY <1>0, <1>1, <1>2, MembersAppend DEF ListTypes
<1>6. ListOf("wc", 0)' = Append(ListOf("wc", 0), t)
  BY <1>1, <1>2 DEF ListOf
<1>7. \A k \in {"rq", "zombies", "wc"} : \A n \in Int : (k = "wc" /\ n = 0) \/ ListOf(k, n)' = ListOf(k, n)
  BY <1>1 DEF ListOf
<1>8. wclock = c
  BY <1>0, <1>1 DEF LocksOf, WcHeld
<1>9. wclock' \in Holder /\ wclock' # c /\ \A e \in CPU : e # c => (wclock' = e <=> wclock = e)
  BY <1>1, <1>8, NoCPUIs DEF Holder
<1>10. PutAway("S_SLEEP", c, "wc", 0)
  BY DEF PutAway
<1>11. GoesAway(c, "S_SLEEP", "wc", 0, "run")
  BY <1>1, <1>2, <1>3, <1>4, <1>6, <1>7, <1>9, <1>10 DEF GoesAway
<1> QED BY <1>3, <1>5, <1>11, AwayStep

\* thread_exit.
LEMMA ExitKept ==
    ASSUME SchedInv, NEW c \in CPU, thread_exit(c)
    PROVE  SchedInv'
<1>0. ListTypes /\ LockTypes /\ ThreadTypes /\ LocksOf(c)
  BY Parts DEF LocksOk
<1>1. /\ mode[c] = "thread" /\ Top(c).pc = "run" /\ Away(c, "S_ZOMBIE")
      /\ c_zombies' = [c_zombies EXCEPT ![c] = Append(@, curthread[c])]
      /\ Raised(curthread[c], SwitchRaise(curthread[c])) /\ SetTop(curthread[c], Frame("dead"))
      /\ UNCHANGED <<c_runqueue, wc, wclock>>
  BY DEF thread_exit, Executes, Goto
<1>2. PICK t \in Thr : /\ t = curthread[c] /\ FrameOk(Top(c)) /\ Len(stack[t]) = 1 /\ ~c_isidle[c]
                       /\ t_iplhigh_count[t] = 0 /\ t_curspl[t] = 0
  BY <1>1, Executing DEF HighPcs, Running, Held
<1>3. Top(c).carry = <<>> /\ "dead" \in Pcs
  BY <1>1, <1>2 DEF FrameOk, Pcs
<1>4. /\ t_iplhigh_count' \in [Thr -> Int] /\ t_iplhigh_count'[t] = 2
      /\ \A u \in Thr : u # t => t_iplhigh_count'[u] = t_iplhigh_count[u]
  <2>1. SwitchRaise(t) = 2
    BY <1>2 DEF SwitchRaise
  <2>2. t_iplhigh_count' = [t_iplhigh_count EXCEPT ![t] = t_iplhigh_count[t] + 2]
    BY <1>1, <1>2, <2>1 DEF Raised
  <2> QED BY <1>0, <1>2, <2>2 DEF ThreadTypes
<1>5. PICK q \in Seq(Thr) : q = c_zombies[c]
  BY <1>0 DEF ListTypes
<1>6. c_zombies' = [c_zombies EXCEPT ![c] = Append(q, t)] /\ Append(q, t) \in Seq(Thr)
  BY <1>1, <1>2, <1>5, MembersAppend
<1>7. c_zombies'[c] = Append(q, t) /\ (\A d \in CPU : d # c => c_zombies'[d] = c_zombies[d]) /\ ListTypes'
  BY <1>0, <1>1, <1>6 DEF ListTypes
<1>8. ListOf("zombies", c)' = Append(ListOf("zombies", c), t)
  BY <1>5, <1>7 DEF ListOf
<1>9. \A k \in {"rq", "zombies", "wc"} : \A n \in Int : (k = "zombies" /\ n = c) \/ ListOf(k, n)' = ListOf(k, n)
  BY <1>1, <1>7 DEF ListOf
<1>10. wclock' \in Holder /\ wclock' # c /\ \A e \in CPU : e # c => (wclock' = e <=> wclock = e)
  BY <1>0, <1>1 DEF LockTypes, LocksOf, WcHeld
<1>11. PutAway("S_ZOMBIE", c, "zombies", c)
  BY DEF PutAway
<1>12. GoesAway(c, "S_ZOMBIE", "zombies", c, "dead")
  BY <1>1, <1>2, <1>3, <1>4, <1>8, <1>9, <1>10, <1>11 DEF GoesAway
<1> QED BY <1>3, <1>7, <1>12, AwayStep

\* A thread on a list of a CPU is not what another CPU is on.
LEMMA ListedHere ==
    ASSUME SchedInv, NEW c \in CPU, NEW t \in Thr, NEW k \in {"rq", "zombies"}, In(t, k, c)
    PROVE  t_cpu[t] = c /\ \A d \in CPU : d # c => curthread[d] # t
BY Parts DEF CpusExact

\* thread_switch takes the head of the run queue.
LEMMA PickNextKept ==
    ASSUME SchedInv, NEW c \in CPU, PickNext(c)
    PROVE  SchedInv'
<1>0. /\ CpuTypes /\ ListTypes /\ LockTypes /\ ThreadTypes /\ StackTypes /\ StacksOk /\ ListInv /\ HandsOk /\ LocksOf(c)
      /\ CpusOk /\ OffOk /\ LocksOk /\ CpusExact /\ ListStates
  BY Parts DEF LocksOk
<1>1. /\ mode[c] = "pick" /\ c_runqueue[c] # <<>> /\ curthread' = [curthread EXCEPT ![c] = Head(c_runqueue[c])]
      /\ c_runqueue' = [c_runqueue EXCEPT ![c] = Tail(@)] /\ c_isidle' = [c_isidle EXCEPT ![c] = FALSE]
      /\ mode' = [mode EXCEPT ![c] = "resume"]
      /\ UNCHANGED <<irq, c_zombies, wc, t_cpu, t_state, lockVars, splVars, stack>>
  BY DEF PickNext
<1>2. PICK old \in Thr : /\ old = curthread[c]
         /\ Standing(old, stack[old], t_state[old], t_curspl[old], t_iplhigh_count[old], "pick", c_isidle[c], irq[c],
                     Members(c_runqueue[c]))
  BY <1>1, StandsOn
<1>3. PICK q \in Seq(Thr) : q = c_runqueue[c] /\ q # <<>>
  BY <1>0, <1>1 DEF ListTypes
<1>4. PICK t \in Thr, r \in Seq(Thr) : t = Head(q) /\ r = Tail(q)
  BY <1>3, MembersTail
<1>5. "rq" \in Kind /\ c \in Int /\ ListOf("rq", c) = q
  BY <1>3, SchedAssumption DEF Kind, CPU, ListOf
<1>6. Members(q) = {t} \union Members(r) /\ t \notin Members(r) /\ Once(r)
  <2>1. Once(q)
    BY <1>0, <1>5 DEF ListInv, ListsOnce
  <2> QED BY <1>3, <1>4, <2>1, MembersTail
<1>7. In(t, "rq", c) /\ t_state[t] \in {"S_READY", "S_SLEEP"} /\ t_cpu[t] = c /\ \A d \in CPU : d # c => curthread[d] # t
  <2>1. In(t, "rq", c)
    BY <1>5, <1>6 DEF In
  <2> QED BY <1>0, <1>5, <2>1, ListedHere DEF ListStates
<1>8. /\ curthread' \in [CPU -> Thr] /\ curthread'[c] = t /\ (\A d \in CPU : d # c => curthread'[d] = curthread[d])
      /\ mode' \in [CPU -> Modes] /\ mode'[c] = "resume" /\ (\A d \in CPU : d # c => mode'[d] = mode[d])
  <2>1. curthread' = [curthread EXCEPT ![c] = t]
    BY <1>1, <1>3, <1>4
  <2> QED BY <1>0, <1>1, <2>1 DEF CpuTypes, Modes
<1>9. c_isidle' \in [CPU -> BOOLEAN] /\ c_isidle'[c] = FALSE /\ (\A d \in CPU : d # c => c_isidle'[d] = c_isidle[d])
  BY <1>0, <1>1 DEF CpuTypes
<1>10. c_runqueue'[c] = r /\ (\A d \in CPU : d # c => c_runqueue'[d] = c_runqueue[d]) /\ ListTypes'
  <2>1. c_runqueue' = [c_runqueue EXCEPT ![c] = r]
    BY <1>1, <1>3, <1>4
  <2> QED BY <1>0, <1>1, <2>1 DEF ListTypes
<1>11. CpuTypes' /\ LockTypes' /\ ThreadTypes' /\ StackTypes' /\ StacksOk'
  BY <1>0, <1>1, <1>8, <1>9 DEF CpuTypes, LockTypes, lockVars, ThreadTypes, splVars, StackTypes, StacksOk
<1>12. OtherCpus(c)
  BY <1>1, <1>8, <1>9 DEF OtherCpus, splVars
<1>13. QueuesKept(c)
  BY <1>0, <1>10 DEF QueuesKept, ListTypes
<1>14. HandsKept(c)
  <2> SUFFICES ASSUME NEW e \in CPU, e # c, mode[e] = "thread", Top(e).pc = "send"
               PROVE  InHand(e) \in Members(c_runqueue'[t_cpu[InHand(e)]])
    BY <1>1 DEF HandsKept
  <2>1. rqlock[c] = c
    BY <1>0, <1>1 DEF LocksOf, RqHeld
  <2>2. t_cpu[InHand(e)] # c
    BY <2>1, Telling
  <2> QED BY <1>10, <2>2, Telling
<1>15. CpuOk(c)'
  <2>1. Parked(stack[t], t_state[t]) /\ t_curspl[t] = 1 /\ t_iplhigh_count[t] = 2 /\ ~irq[c]
    <3>1. CASE t = old
      BY <1>2, <3>1 DEF Standing
    <3>2. CASE t # old
      <4>1. \A d \in CPU : curthread[d] # t
        BY <1>2, <1>7, <3>2
      <4>2. Resting(stack[t], t_state[t], t_curspl[t], t_iplhigh_count[t])
        BY <1>0, <4>1 DEF OffOk
      <4> QED BY <1>2, <1>7, <4>2 DEF Resting, Standing
    <3> QED BY <3>1, <3>2
  <2>2. Standing(t, stack[t], t_state[t], t_curspl[t], t_iplhigh_count[t], "resume", FALSE, irq[c], Members(r))
    BY <1>7, <2>1 DEF Standing
  <2> QED BY <1>1, <1>8, <1>9, <1>10, <2>2 DEF CpuOk, splVars
<1>16. CpusOk'
  BY <1>0, <1>12, <1>13, <1>15, OthersStand
<1>17. OffOk'
  <2> SUFFICES ASSUME NEW u \in Thr, \A d \in CPU : curthread'[d] # u
               PROVE  Resting(stack[u], t_state[u], t_curspl[u], t_iplhigh_count[u])
    BY <1>1 DEF OffOk, splVars
  <2>1. CASE u = old
    BY <1>2, <2>1 DEF Standing, Resting
  <2>2. CASE u # old
    <3>1. \A d \in CPU : curthread[d] # u
      BY <1>2, <1>8, <2>2
    <3> QED BY <1>0, <3>1 DEF OffOk
  <2> QED BY <2>1, <2>2
<1>18. LocksOf(c)'
  <2>1. \A d \in CPU : RqHeld(c, d)' <=> RqHeld(c, d)
    BY <1>1, <1>8 DEF RqHeld, RqSend
  <2>2. \A d \in CPU : ~IpiHeld(c, d) /\ ~IpiHeld(c, d)'
    BY <1>1, <1>8 DEF IpiHeld
  <2>3. ~WcHeld(c) /\ ~WcHeld(c)'
    BY <1>1, <1>8 DEF WcHeld
  <2> QED BY <1>0, <1>1, <2>1, <2>2, <2>3 DEF LocksOf, lockVars
<1>19. LocksOk'
  <2>1. OtherLocks(c)
    BY <1>1 DEF OtherLocks, lockVars
  <2> QED BY <1>0, <1>12, <1>14, <1>18, <2>1, OthersLocks
<1>20. HandsOk'
  <2>1. HandOk(c)'
    BY <1>8 DEF HandOk
  <2> QED BY <1>0, <1>10, <1>12, <1>13, <1>14, <2>1, OthersHands
<1>21. ListInv'
  <2>1. ListOf("rq", c)' = r
    BY <1>10 DEF ListOf
  <2>2. \A k \in Kind : \A n \in Int : (k = "rq" /\ n = c) \/ ListOf(k, n)' = ListOf(k, n)
    BY <1>1, <1>10 DEF ListOf, Low, High
  <2>3. \A u \in Thr : \A k \in Kind : \A n \in Int : In(u, k, n)' <=> u \notin {t} /\ In(u, k, n)
    <3> SUFFICES ASSUME NEW u \in Thr, NEW k \in Kind, NEW n \in Int
                 PROVE  In(u, k, n)' <=> u # t /\ In(u, k, n)
      OBVIOUS
    <3>1. CASE k = "rq" /\ n = c
      BY <1>5, <1>6, <2>1, <3>1 DEF In
    <3>2. CASE ~(k = "rq" /\ n = c)
      <4>1. In(u, k, n)' <=> In(u, k, n)
        BY <2>2, <3>2 DEF In
      <4>2. ~In(t, k, n)
        BY <1>0, <1>5, <1>7, <3>2 DEF ListInv, OneList
      <4> QED BY <4>1, <4>2
    <3> QED BY <3>1, <3>2
  <2>4. ListsOnce'
    BY <1>0, <1>6, <2>1, <2>2 DEF ListInv, ListsOnce
  <2>5. Current(t)'
    BY <1>8, <1>9 DEF Current, Leaving
  <2>6. \A u \in Thr : u \notin {t} => Stays(u)
    <3> SUFFICES ASSUME NEW u \in Thr, u # t PROVE Stays(u)
      OBVIOUS
    <3>1. \A d \in CPU : d # c => (curthread'[d] = u /\ ~Leaving(d)' <=> curthread[d] = u /\ ~Leaving(d))
      BY <1>8, <1>9 DEF Leaving
    <3>2. ~(curthread'[c] = u) /\ Leaving(c)
      BY <1>1, <1>8 DEF Leaving
    <3>3. Current(u)' <=> Current(u)
      BY <3>1, <3>2 DEF Current
    <3> QED BY <1>1, <3>3 DEF Stays
  <2>7. \A d \in CPU : t_cpu'[curthread'[d]] = d
    BY <1>0, <1>1, <1>7, <1>8 DEF CpusExact
  <2>8. Leaves({t})
    BY <2>3, <2>5, <2>6, <2>7 DEF Leaves
  <2>9. {t} \in SUBSET Thr
    OBVIOUS
  <2> QED BY <1>0, <2>4, <2>8, <2>9, LeaveLists
<1> QED BY <1>10, <1>11, <1>16, <1>17, <1>19, <1>20, <1>21 DEF SchedInv, ShapeInv, SchedTypes

\* A zombie that is destroyed: it is off every CPU, and has nothing in hand.
LEMMA Dead ==
    ASSUME SchedInv, NEW c \in CPU, mode[c] = "resume", NEW z \in Members(c_zombies[c])
    PROVE  /\ z \in Thr /\ In(z, "zombies", c) /\ t_state[z] = "S_ZOMBIE" /\ (\A d \in CPU : curthread[d] # z)
           /\ Low(z) = <<>> /\ High(z) = <<>>
<1>0. ListTypes /\ StacksOk /\ OffOk /\ ListStates
  BY Parts
<1>1. z \in Thr /\ c \in Int /\ "zombies" \in Kind
  <2>1. c_zombies[c] \in Seq(Thr)
    BY <1>0 DEF ListTypes
  <2> QED BY <2>1, MembersIn, SchedAssumption DEF CPU, Kind
<1>2. In(z, "zombies", c)
  BY DEF In, ListOf
<1>3. t_state[z] = "S_ZOMBIE"
  BY <1>0, <1>1, <1>2 DEF ListStates
<1>4. curthread[c] # z
  BY <1>3, StandsOn DEF Standing
<1>5. \A d \in CPU : curthread[d] # z
  BY <1>1, <1>2, <1>4, ListedHere
<1>6. Len(stack[z]) = 1 /\ stack[z][1].pc = "dead" /\ FrameOk(stack[z][1])
  BY <1>0, <1>1, <1>3, <1>5 DEF OffOk, Resting, Parked, StacksOk
<1>7. Low(z) = <<>> /\ High(z) = <<>>
  BY <1>6 DEF Low, High, Carried, FrameOk
<1> QED BY <1>1, <1>2, <1>3, <1>5, <1>7

\* The next thread comes out of thread_switch, and destroys the CPU's zombies.
LEMMA ResumeKept ==
    ASSUME SchedInv, NEW c \in CPU, Resume(c)
    PROVE  SchedInv'
<1>0. /\ CpuTypes /\ ListTypes /\ LockTypes /\ ThreadTypes /\ StackTypes /\ StacksOk /\ ListInv /\ HandsOk /\ LocksOf(c)
      /\ CpusOk /\ OffOk /\ LocksOk /\ CpusExact /\ ListStates
  BY Parts DEF LocksOk
<1>1. mode[c] = "resume" /\ UNCHANGED <<curthread, c_isidle, c_runqueue, wc, ipilock, wclock>>
  BY DEF Resume
<1>2. PICK t \in Thr : /\ t = curthread[c] /\ Top(c) = stack[t][1] /\ Len(stack[t]) \in {1, 2}
         /\ Standing(t, stack[t], t_state[t], t_curspl[t], t_iplhigh_count[t], "resume", c_isidle[c], irq[c],
                     Members(c_runqueue[c]))
  BY <1>1, StandsOn
<1>3. PICK Z \in SUBSET Thr : Z = Members(c_zombies[c])
  BY <1>0, MembersIn DEF ListTypes
<1>4. \A z \in Z : /\ In(z, "zombies", c) /\ t_state[z] = "S_ZOMBIE" /\ (\A d \in CPU : curthread[d] # z)
                   /\ Low(z) = <<>> /\ High(z) = <<>>
  BY <1>1, <1>3, Dead
<1>5. PICK g \in {0, 1} : g = (IF Len(stack[t]) = 2 THEN 1 ELSE 0) /\ (InInterrupt(t) <=> g = 1)
  <2>1. InInterrupt(t) <=> Len(stack[t]) = 2
    <3>1. PICK n \in {1, 2} : n = Len(stack[t])
      BY <1>2
    <3>2. InInterrupt(t) <=> n > 1
      BY <3>1, Zenon DEF InInterrupt
    <3>3. n > 1 <=> n = 2
      OBVIOUS
    <3> QED BY <3>1, <3>2, <3>3, Zenon
  <2> QED BY <2>1
<1>6. /\ c_isidle[c] = FALSE /\ t_iplhigh_count[t] = 2 /\ t_curspl[t] = 1 /\ Parked(stack[t], t_state[t])
      /\ t_state[t] \in {"S_READY", "S_SLEEP"} /\ t \notin Z
  <2>1. c_isidle[c] \in BOOLEAN
    BY <1>0 DEF CpuTypes
  <2> QED BY <1>2, <1>4, <2>1 DEF Standing
<1>7. /\ mode' \in [CPU -> Modes] /\ mode'[c] = "thread" /\ (\A d \in CPU : d # c => mode'[d] = mode[d])
      /\ t_curspl' \in [Thr -> {0, 1}] /\ t_curspl'[t] = g /\ (\A u \in Thr : u # t => t_curspl'[u] = t_curspl[u])
  <2>1. mode' = [mode EXCEPT ![c] = "thread"] /\ t_curspl' = [t_curspl EXCEPT ![t] = g]
    <3>1. t_curspl' = [t_curspl EXCEPT ![t] = IF InInterrupt(t) THEN 1 ELSE 0] /\ mode' = [mode EXCEPT ![c] = "thread"]
      BY <1>2 DEF Resume
    <3> QED BY <1>5, <3>1
  <2> QED BY <1>0, <1>5, <2>1 DEF CpuTypes, ThreadTypes, Modes
<1>8. /\ t_iplhigh_count' \in [Thr -> Int] /\ t_iplhigh_count'[t] = g /\ (\A z \in Z : t_iplhigh_count'[z] = 1)
      /\ \A u \in Thr : u # t /\ u \notin Z => t_iplhigh_count'[u] = t_iplhigh_count[u]
  <2>1. t_iplhigh_count' = [z \in Thr |-> IF z \in Z THEN 1 ELSE IF z = t THEN g ELSE t_iplhigh_count[z]]
    <3>1. t_iplhigh_count[t] - (IF InInterrupt(t) THEN 1 ELSE 2) = g
      BY <1>5, <1>6
    <3> QED BY <1>2, <1>3, <3>1 DEF Resume, exorcise
  <2> QED BY <1>0, <1>5, <1>6, <2>1 DEF ThreadTypes
<1>9. irq' \in [CPU -> BOOLEAN] /\ (irq'[c] <=> g = 0) /\ (\A d \in CPU : d # c => irq'[d] = irq[d])
  <2>1. irq' = [irq EXCEPT ![c] = (t_iplhigh_count'[t] = 0)]
    BY <1>2 DEF Resume
  <2>2. irq' = [irq EXCEPT ![c] = (g = 0)]
    BY <1>8, <2>1
  <2>3. (g = 0) \in BOOLEAN
    OBVIOUS
  <2> QED BY <1>0, <2>2, <2>3, Zenon DEF CpuTypes
<1>10. /\ t_state' \in [Thr -> States] /\ t_state'[t] = "S_RUN" /\ (\A z \in Z : t_state'[z] = "free")
       /\ \A u \in Thr : u # t /\ u \notin Z => t_state'[u] = t_state[u]
  <2>1. t_state' = [z \in Thr |-> IF z \in Z THEN "free" ELSE IF z = t THEN "S_RUN" ELSE t_state[z]]
    BY <1>2, <1>3 DEF Resume, exorcise
  <2> QED BY <1>0, <1>6, <2>1 DEF ThreadTypes, States
<1>11. t_cpu' \in [Thr -> CPU] /\ \A u \in Thr : u \notin Z => t_cpu'[u] = t_cpu[u]
  <2>1. t_cpu' = [z \in Thr |-> IF z \in Z THEN 0 ELSE t_cpu[z]]
    BY <1>3 DEF Resume, exorcise
  <2>2. 0 \in CPU
    BY SchedAssumption DEF CPU
  <2> QED BY <1>0, <2>1, <2>2 DEF ThreadTypes
<1>12. PICK f \in FrameRecord : f = Frame("run") /\ f.pc = "run" /\ f.carry = <<>>
  <2>1. "run" \in Pcs
    BY DEF Pcs, LowPcs
  <2> QED BY <2>1, FrameIs
<1>13. PICK s : s = <<f>> /\ s \in Seq(FrameRecord) /\ Len(s) = 1 /\ s[1] = f
  <2>1. <<f>> \in Seq(FrameRecord) /\ Len(<<f>>) = 1 /\ <<f>>[1] = f
    OBVIOUS
  <2> QED BY <2>1, Zenon
<1>14. stack' \in [Thr -> Seq(FrameRecord)] /\ (\A z \in Z : stack'[z] = s) /\ \A u \in Thr : u \notin Z => stack'[u] = stack[u]
  <2>1. stack' = [z \in Thr |-> IF z \in Z THEN s ELSE stack[z]]
    BY <1>3, <1>12, <1>13 DEF Resume, exorcise
  <2>2. \A u \in Thr : stack'[u] = IF u \in Z THEN s ELSE stack[u]
    BY <2>1
  <2>3. \A u \in Thr : stack'[u] \in Seq(FrameRecord)
    BY <1>0, <1>13, <2>2 DEF StackTypes
  <2>4. stack' \in [Thr -> Seq(FrameRecord)]
    BY <2>1, <2>3
  <2> QED BY <2>2, <2>4
<1>15. /\ rqlock' \in [CPU -> Holder] /\ rqlock'[c] = NoCPU /\ (\A d \in CPU : d # c => rqlock'[d] = rqlock[d])
       /\ c_zombies' \in [CPU -> Seq(Thr)] /\ c_zombies'[c] = <<>> /\ (\A d \in CPU : d # c => c_zombies'[d] = c_zombies[d])
  <2>1. rqlock' = [rqlock EXCEPT ![c] = NoCPU] /\ c_zombies' = [c_zombies EXCEPT ![c] = <<>>]
    BY DEF Resume
  <2> QED BY <1>0, <2>1 DEF LockTypes, ListTypes, Holder
<1>16. CpuTypes' /\ ListTypes' /\ LockTypes' /\ ThreadTypes' /\ StackTypes'
  BY <1>0, <1>1, <1>7, <1>8, <1>9, <1>10, <1>11, <1>14, <1>15 DEF CpuTypes, ListTypes, LockTypes, ThreadTypes, StackTypes
<1>17. StacksOk'
  <2>1. FrameOk(f)
    BY <1>12 DEF FrameOk
  <2> QED BY <1>0, <1>13, <1>14, <2>1 DEF StacksOk
<1>18. OtherCpus(c)
  <2>1. \A d \in CPU : d # c => curthread[d] \in Thr /\ curthread[d] # t /\ curthread[d] \notin Z
    BY <1>0, <1>2, <1>4, Mine DEF CpuTypes
  <2> QED BY <1>1, <1>7, <1>8, <1>9, <1>10, <1>14, <2>1 DEF OtherCpus
<1>19. QueuesKept(c)
  BY <1>0, <1>1 DEF QueuesKept, ListTypes
<1>20. HandsKept(c)
  <2> SUFFICES ASSUME NEW e \in CPU, e # c, mode[e] = "thread"
               PROVE  /\ Top(e).pc = "send" => /\ t_cpu'[InHand(e)] = t_cpu[InHand(e)]
                                               /\ InHand(e) \in Members(c_runqueue'[t_cpu[InHand(e)]])
                      /\ Top(e).pc = "migsend" => \A u \in Members(Top(e).carry) : t_cpu'[u] = t_cpu[u]
    BY DEF HandsKept
  <2>0. "zombies" \in Kind /\ "rq" \in Kind /\ c \in Int /\ Z = Members(ListOf("zombies", c))
    BY <1>3, SchedAssumption DEF Kind, CPU, ListOf
  <2>1. ASSUME Top(e).pc = "send"
        PROVE  t_cpu'[InHand(e)] = t_cpu[InHand(e)] /\ InHand(e) \in Members(c_runqueue'[t_cpu[InHand(e)]])
    <3>1. /\ InHand(e) \in Thr /\ t_cpu[InHand(e)] \in CPU
          /\ InHand(e) \in Members(c_runqueue[t_cpu[InHand(e)]])
      BY <2>1, Telling
    <3>2. PICK d \in CPU : d = t_cpu[InHand(e)]
      BY <3>1
    <3>3. d \in Int /\ ListOf("rq", d) = c_runqueue[d]
      BY SchedAssumption DEF CPU, ListOf
    <3>4. Z \cap Members(c_runqueue[d]) = {}
      BY <2>0, <3>3, Apart
    <3>5. InHand(e) \notin Z
      BY <3>1, <3>2, <3>4
    <3> QED BY <1>1, <1>11, <3>1, <3>5
  <2>2. ASSUME Top(e).pc = "migsend", NEW u \in Members(Top(e).carry) PROVE t_cpu'[u] = t_cpu[u]
    <3>1. PICK v \in Thr : v = curthread[e] /\ Top(e) = stack[v][1] /\ Top(e) \in FrameRecord
      BY Executing
    <3>2. ListOf(TopKind(v), v) = Top(e).carry /\ TopKind(v) \in Kind /\ v \in Int /\ TopKind(v) # "zombies"
      BY <2>2, <3>1, TopList DEF Carried, TopKind
    <3>3. u \in Thr
      BY <3>1, MembersIn DEF FrameRecord
    <3>4. u \notin Z
      BY <2>0, <3>2, Apart
    <3> QED BY <1>11, <3>3, <3>4
  <2> QED BY <2>1, <2>2
<1>21. CpuOk(c)'
  <2>1. stack'[t] = stack[t]
    BY <1>6, <1>14
  <2>2. CASE Len(stack[t]) = 1
    <3>1. stack[t][1].pc = "run" /\ g = 0
      BY <1>5, <1>6, <2>2 DEF Parked
    <3>2. Running(stack[t], "S_RUN", 0, 0, FALSE)
      BY <2>2, <3>1 DEF Running, LowPcs, Held
    <3>3. Standing(t, stack[t], "S_RUN", 0, 0, "thread", FALSE, irq'[c], Members(c_runqueue'[c]))
      BY <1>9, <3>1, <3>2 DEF Standing
    <3> QED BY <1>1, <1>2, <1>6, <1>7, <1>8, <1>10, <2>1, <3>1, <3>3 DEF CpuOk
  <2>3. CASE Len(stack[t]) = 2
    <3>1. stack[t][1].pc = "iret" /\ stack[t][2].pc \in Interrupted /\ g = 1
      BY <1>5, <1>6, <2>3 DEF Parked
    <3>2. Running(stack[t], "S_RUN", 1, 1, FALSE)
      BY <2>3, <3>1 DEF Running, HighPcs, Held
    <3>3. Standing(t, stack[t], "S_RUN", 1, 1, "thread", FALSE, irq'[c], Members(c_runqueue'[c]))
      BY <1>9, <3>1, <3>2 DEF Standing
    <3> QED BY <1>1, <1>2, <1>6, <1>7, <1>8, <1>10, <2>1, <3>1, <3>3 DEF CpuOk
  <2> QED BY <1>2, <2>2, <2>3
<1>22. CpusOk'
  BY <1>0, <1>18, <1>19, <1>21, OthersStand
<1>23. OffOk'
  <2> SUFFICES ASSUME NEW u \in Thr, \A d \in CPU : curthread[d] # u
               PROVE  Resting(stack'[u], t_state'[u], t_curspl'[u], t_iplhigh_count'[u])
    BY <1>1 DEF OffOk
  <2>0. u # t /\ Resting(stack[u], t_state[u], t_curspl[u], t_iplhigh_count[u])
    BY <1>0, <1>2 DEF OffOk
  <2>1. CASE u \in Z
    <3>1. t_curspl[u] = 1
      BY <2>0 DEF Resting
    <3>2. Resting(s, "free", 1, 1)
      BY <1>12, <1>13 DEF Resting, Parked
    <3> QED BY <1>7, <1>8, <1>10, <1>14, <2>0, <2>1, <3>1, <3>2
  <2>2. CASE u \notin Z
    BY <1>7, <1>8, <1>10, <1>14, <2>0, <2>2
  <2> QED BY <2>1, <2>2
<1>24. LocksOf(c)'
  <2>1. Top(c)' = stack[t][1] /\ stack[t][1].pc \in {"run", "iret"}
    <3>1. stack[t][1].pc \in {"run", "iret"}
      BY <1>6 DEF Parked
    <3> QED BY <1>1, <1>2, <1>6, <1>14, <3>1 DEF Top
  <2>2. \A d \in CPU : rqlock'[d] # c
    <3>1. \A d \in CPU : d # c => rqlock[d] # c
      BY <1>0, <1>1 DEF LocksOf, RqHeld, RqSend
    <3> QED BY <1>15, <3>1, NoCPUIs
  <2>3. \A d \in CPU : ~RqHeld(c, d)' /\ ~IpiHeld(c, d) /\ ~IpiHeld(c, d)' /\ ~WcHeld(c) /\ ~WcHeld(c)'
    BY <1>1, <1>7, <2>1 DEF RqHeld, RqSend, IpiHeld, WcHeld
  <2> QED BY <1>0, <1>1, <2>2, <2>3 DEF LocksOf
<1>25. LocksOk'
  <2>1. OtherLocks(c)
    <3>1. rqlock[c] = c
      BY <1>0, <1>1 DEF LocksOf, RqHeld
    <3> QED BY <1>1, <1>15, <3>1, NoCPUIs DEF OtherLocks
  <2> QED BY <1>0, <1>18, <1>20, <1>24, <2>1, OthersLocks
<1>26. HandsOk'
  <2>1. HandOk(c)'
    <3>1. Top(c)' = stack[t][1] /\ stack[t][1].pc \in {"run", "iret"}
      <4>1. stack[t][1].pc \in {"run", "iret"}
        BY <1>6 DEF Parked
      <4> QED BY <1>1, <1>2, <1>6, <1>14, <4>1 DEF Top
    <3> QED BY <3>1 DEF HandOk
  <2> QED BY <1>0, <1>16, <1>18, <1>19, <1>20, <2>1, OthersHands
<1>27. ListInv'
  <2>1. ListOf("zombies", c)' = <<>>
    BY <1>15 DEF ListOf
  <2>2. \A u \in Thr : Low(u)' = Low(u) /\ High(u)' = High(u)
    <3> SUFFICES ASSUME NEW u \in Thr PROVE Low(u)' = Low(u) /\ High(u)' = High(u)
      OBVIOUS
    <3>1. CASE u \in Z
      <4>1. stack'[u] = s /\ Carried(f) = <<>>
        BY <1>12, <1>14, <3>1 DEF Carried
      <4>2. Low(u)' = <<>> /\ High(u)' = <<>>
        BY <1>13, <4>1 DEF Low, High
      <4> QED BY <1>4, <3>1, <4>2
    <3>2. CASE u \notin Z
      BY <1>14, <3>2 DEF Low, High
    <3> QED BY <3>1, <3>2
  <2>3. \A k \in Kind : \A n \in Int : (k = "zombies" /\ n = c) \/ ListOf(k, n)' = ListOf(k, n)
    <3> SUFFICES ASSUME NEW k \in Kind, NEW n \in Int, ~(k = "zombies" /\ n = c)
                 PROVE  ListOf(k, n)' = ListOf(k, n)
      OBVIOUS
    <3> QED BY <1>1, <1>15, <2>2 DEF ListOf
  <2>0. "zombies" \in Kind /\ c \in Int /\ Z = Members(ListOf("zombies", c))
    BY <1>3, SchedAssumption DEF Kind, CPU, ListOf
  <2>4. \A u \in Thr : \A k \in Kind : \A n \in Int : In(u, k, n)' <=> u \notin Z /\ In(u, k, n)
    <3> SUFFICES ASSUME NEW u \in Thr, NEW k \in Kind, NEW n \in Int
                 PROVE  In(u, k, n)' <=> u \notin Z /\ In(u, k, n)
      OBVIOUS
    <3>1. CASE k = "zombies" /\ n = c
      BY <2>0, <2>1, <3>1, MembersEmpty DEF In
    <3>2. CASE ~(k = "zombies" /\ n = c)
      <4>1. In(u, k, n)' <=> In(u, k, n)
        BY <2>3, <3>2 DEF In
      <4>2. u \in Z => ~In(u, k, n)
        BY <1>0, <1>4, <2>0, <3>2 DEF ListInv, OneList
      <4> QED BY <4>1, <4>2
    <3> QED BY <3>1, <3>2
  <2>5. ListsOnce'
    BY <1>0, <2>1, <2>3, MembersEmpty DEF ListInv, ListsOnce
  <2>6. \A u \in Thr : Current(u)' <=> Current(u)
    <3>1. \A d \in CPU : Leaving(d)' <=> Leaving(d)
      BY <1>1, <1>7 DEF Leaving
    <3> QED BY <1>1, <3>1 DEF Current
  <2>7. \A u \in Thr : u \notin Z => Stays(u)
    <3>1. Current(t)
      BY <1>1, <1>2, <1>6 DEF Current, Leaving
    <3> QED BY <1>6, <1>10, <1>11, <2>6, <3>1 DEF Stays
  <2>8. \A d \in CPU : t_cpu'[curthread'[d]] = d
    <3>1. \A d \in CPU : curthread[d] \in Thr /\ curthread[d] \notin Z
      BY <1>0, <1>4 DEF CpuTypes
    <3> QED BY <1>0, <1>1, <1>11, <3>1 DEF CpusExact
  <2>9. Leaves(Z)
    BY <1>10, <2>4, <2>7, <2>8 DEF Leaves
  <2> QED BY <1>0, <2>5, <2>9, LeaveLists
<1> QED BY <1>16, <1>17, <1>22, <1>23, <1>25, <1>26, <1>27 DEF SchedInv, ShapeInv, SchedTypes

\* No CPU is on a thread that does not exist.
LEMMA CurrentLives ==
    ASSUME SchedInv, NEW c \in CPU
    PROVE  t_state[curthread[c]] # "free"
<1>1. PICK t \in Thr : /\ t = curthread[c] /\ Len(stack[t]) \in {1, 2}
         /\ Standing(t, stack[t], t_state[t], t_curspl[t], t_iplhigh_count[t], mode[c], c_isidle[c], irq[c],
                     Members(c_runqueue[c]))
  BY StandsOn
<1>2. mode[c] \in Modes /\ c_isidle[c] \in BOOLEAN
  BY Parts DEF CpuTypes
<1>3. CASE mode[c] \in {"thread", "halted"}
  <2>1. Running(stack[t], t_state[t], t_curspl[t], t_iplhigh_count[t], c_isidle[c])
    BY <1>1, <1>3 DEF Standing
  <2> QED BY <1>1, <1>2, <2>1 DEF Running
<1>4. CASE mode[c] \notin {"thread", "halted"}
  BY <1>1, <1>2, <1>4 DEF Standing, Modes
<1> QED BY <1>3, <1>4

\* What a thread that does not exist yet is like.
LEMMA Unborn ==
    ASSUME SchedInv, NEW t \in Thr, t_state[t] = "free"
    PROVE  /\ \A c \in CPU : curthread[c] # t
           /\ \A k \in Kind : \A n \in Int : ~In(t, k, n)
           /\ Len(stack[t]) = 1 /\ Low(t) = <<>> /\ High(t) = <<>>
<1>1. \A c \in CPU : curthread[c] # t
  BY CurrentLives
<1>2. \A k \in Kind : \A n \in Int : ~In(t, k, n)
  BY Parts DEF AllListed, Listed
<1>3. Len(stack[t]) = 1 /\ stack[t][1].pc = "run" /\ FrameOk(stack[t][1])
  BY <1>1, Parts DEF OffOk, Resting, Parked, StacksOk
<1>4. Low(t) = <<>> /\ High(t) = <<>>
  BY <1>3 DEF Low, High, Carried, FrameOk
<1> QED BY <1>1, <1>2, <1>3, <1>4

\* thread_fork makes a thread, which its parent has in hand.
LEMMA ForkKept ==
    ASSUME SchedInv, NEW c \in CPU, NEW new \in Thr, thread_fork(c, new)
    PROVE  SchedInv'
<1>0. /\ CpuTypes /\ ListTypes /\ LockTypes /\ ThreadTypes /\ StackTypes /\ StacksOk /\ ListInv /\ HandsOk /\ LocksOf(c)
      /\ CpusOk /\ OffOk /\ LocksOk /\ CpusExact /\ ListStates
  BY Parts DEF LocksOk
<1>1. /\ mode[c] = "thread" /\ Top(c).pc = "run" /\ t_state[new] = "free"
      /\ UNCHANGED <<curthread, mode, c_isidle, irq, c_runqueue, c_zombies, wc, rqlock, ipilock, wclock>>
  BY DEF thread_fork, Executes, cpuVars, lockVars
<1>2. PICK t \in Thr : /\ t = curthread[c] /\ Top(c) = stack[t][1] /\ Len(stack[t]) = 1 /\ stack[t] \in Seq(FrameRecord)
         /\ FrameOk(stack[t][1]) /\ t_state[t] = "S_RUN" /\ c_isidle[c] = FALSE
         /\ t_curspl[t] = 0 /\ t_iplhigh_count[t] = 0 /\ irq[c] = TRUE
  <2>1. Len(stack[curthread[c]]) = 1
    BY <1>1, Executing DEF HighPcs
  <2>2. c_isidle[c] \in BOOLEAN /\ irq[c] \in BOOLEAN /\ stack[curthread[c]] \in Seq(FrameRecord)
    BY <1>0 DEF CpuTypes, StackTypes
  <2>3. Held("run") = 0
    BY DEF Held
  <2> QED BY <1>1, <2>1, <2>2, <2>3, Executing DEF Running
<1>3. /\ (\A d \in CPU : curthread[d] # new) /\ (\A k \in Kind : \A n \in Int : ~In(new, k, n))
      /\ Len(stack[new]) = 1 /\ Low(new) = <<>> /\ High(new) = <<>> /\ new # t
  BY <1>1, <1>2, Unborn
<1>4. PICK f \in FrameRecord : f = Frame("run") /\ f.pc = "run" /\ f.carry = <<>>
  <2>1. "run" \in Pcs
    BY DEF Pcs, LowPcs
  <2> QED BY <2>1, FrameIs
<1>5. PICK s : s = <<f>> /\ s \in Seq(FrameRecord) /\ Len(s) = 1 /\ s[1] = f
  <2>1. <<f>> \in Seq(FrameRecord) /\ Len(<<f>>) = 1 /\ <<f>>[1] = f
    OBVIOUS
  <2> QED BY <2>1, Zenon
<1>6. PICK one \in Seq(Thr) : one = <<new>> /\ Members(one) = {new} /\ Once(one) /\ one # <<>>
  BY MembersOne
<1>7. PICK g \in FrameRecord : g = [Frame("wake") EXCEPT !.carry = one] /\ g.pc = "wake" /\ g.carry = one
  <2>1. "wake" \in Pcs
    BY DEF Pcs, LowPcs
  <2>2. PICK w \in FrameRecord : w = Frame("wake") /\ w.pc = "wake"
    BY <2>1, FrameIs
  <2>3. PICK x : x = [w EXCEPT !.carry = one]
    OBVIOUS
  <2>4. x \in FrameRecord /\ x.pc = "wake" /\ x.carry = one
    BY <2>2, <2>3 DEF FrameRecord
  <2> QED BY <2>2, <2>3, <2>4
<1>8. PICK s1 \in [Thr -> Seq(FrameRecord)] : s1 = [stack EXCEPT ![new] = s] /\ s1[new] = s /\ \A u \in Thr : u # new => s1[u] = stack[u]
  <2>1. PICK x : x = [stack EXCEPT ![new] = s]
    OBVIOUS
  <2>2. x \in [Thr -> Seq(FrameRecord)] /\ x[new] = s /\ \A u \in Thr : u # new => x[u] = stack[u]
    BY <1>0, <1>5, <2>1 DEF StackTypes
  <2> QED BY <2>1, <2>2
<1>9. PICK s2 : s2 = [stack[t] EXCEPT ![1] = g] /\ s2 \in Seq(FrameRecord) /\ Len(s2) = 1 /\ s2[1] = g
  <2>1. PICK x : x = [stack[t] EXCEPT ![1] = g]
    OBVIOUS
  <2>2. x \in Seq(FrameRecord) /\ Len(x) = 1 /\ x[1] = g
    BY <1>2, <1>7, <2>1
  <2> QED BY <2>1, <2>2
<1>10. /\ stack' \in [Thr -> Seq(FrameRecord)] /\ stack'[new] = s /\ stack'[t] = s2
       /\ \A u \in Thr : u # new /\ u # t => stack'[u] = stack[u]
  <2>1. stack' = [s1 EXCEPT ![t][1] = g]
    BY <1>2, <1>4, <1>5, <1>6, <1>7, <1>8 DEF thread_fork
  <2>2. stack' = [s1 EXCEPT ![t] = s2]
    BY <1>3, <1>8, <1>9, <2>1
  <2> QED BY <1>3, <1>8, <1>9, <2>2
<1>11. /\ t_state' \in [Thr -> States] /\ t_state'[new] = "S_READY" /\ (\A u \in Thr : u # new => t_state'[u] = t_state[u])
       /\ t_curspl' \in [Thr -> {0, 1}] /\ t_curspl'[new] = 1 /\ (\A u \in Thr : u # new => t_curspl'[u] = t_curspl[u])
  <2>1. t_state' = [t_state EXCEPT ![new] = "S_READY"] /\ t_curspl' = [t_curspl EXCEPT ![new] = 1]
    BY DEF thread_fork
  <2> QED BY <1>0, <2>1 DEF ThreadTypes, States
<1>12. /\ t_iplhigh_count' \in [Thr -> Int] /\ t_iplhigh_count'[new] = 2
       /\ (\A u \in Thr : u # new => t_iplhigh_count'[u] = t_iplhigh_count[u])
       /\ t_cpu' \in [Thr -> CPU] /\ t_cpu'[new] = c /\ (\A u \in Thr : u # new => t_cpu'[u] = t_cpu[u])
  <2>1. t_cpu' = [t_cpu EXCEPT ![new] = c] /\ t_iplhigh_count' = [t_iplhigh_count EXCEPT ![new] = 2]
    BY DEF thread_fork, ForkedCount
  <2> QED BY <1>0, <2>1 DEF ThreadTypes
<1>13. CpuTypes' /\ ListTypes' /\ LockTypes' /\ ThreadTypes' /\ StackTypes'
  BY <1>0, <1>1, <1>10, <1>11, <1>12 DEF CpuTypes, ListTypes, LockTypes, ThreadTypes, StackTypes
<1>14. StacksOk'
  <2>1. FrameOk(f) /\ FrameOk(g)
    BY <1>4, <1>6, <1>7 DEF FrameOk
  <2> QED BY <1>0, <1>5, <1>9, <1>10, <2>1 DEF StacksOk
<1>15. OtherCpus(c)
  <2>1. \A d \in CPU : d # c => curthread[d] \in Thr /\ curthread[d] # t /\ curthread[d] # new
    BY <1>0, <1>2, <1>3, Mine DEF CpuTypes
  <2> QED BY <1>1, <1>10, <1>11, <1>12, <2>1 DEF OtherCpus
<1>16. QueuesKept(c)
  BY <1>0, <1>1 DEF QueuesKept, ListTypes
<1>17. HandsKept(c)
  <2> SUFFICES ASSUME NEW e \in CPU, e # c, mode[e] = "thread"
               PROVE  /\ Top(e).pc = "send" => /\ t_cpu'[InHand(e)] = t_cpu[InHand(e)]
                                               /\ InHand(e) \in Members(c_runqueue'[t_cpu[InHand(e)]])
                      /\ Top(e).pc = "migsend" => \A u \in Members(Top(e).carry) : t_cpu'[u] = t_cpu[u]
    BY DEF HandsKept
  <2>1. ASSUME Top(e).pc = "send"
        PROVE  t_cpu'[InHand(e)] = t_cpu[InHand(e)] /\ InHand(e) \in Members(c_runqueue'[t_cpu[InHand(e)]])
    <3>1. /\ InHand(e) \in Thr /\ t_cpu[InHand(e)] \in CPU
          /\ InHand(e) \in Members(c_runqueue[t_cpu[InHand(e)]])
      BY <2>1, Telling
    <3>2. PICK d \in CPU : d = t_cpu[InHand(e)]
      BY <3>1
    <3>3. d \in Int /\ "rq" \in Kind /\ In(InHand(e), "rq", d)
      BY <3>1, <3>2, SchedAssumption DEF CPU, ListOf, Kind, In
    <3>4. InHand(e) # new
      BY <1>3, <3>3
    <3> QED BY <1>1, <1>12, <3>1, <3>4
  <2>2. ASSUME Top(e).pc = "migsend", NEW u \in Members(Top(e).carry) PROVE t_cpu'[u] = t_cpu[u]
    <3>1. PICK v \in Thr : v = curthread[e] /\ Top(e) = stack[v][1] /\ Top(e) \in FrameRecord
      BY Executing
    <3>2. ListOf(TopKind(v), v) = Top(e).carry /\ TopKind(v) \in Kind /\ v \in Int
      BY <2>2, <3>1, TopList DEF Carried, TopKind
    <3>3. u \in Thr
      BY <3>1, MembersIn DEF FrameRecord
    <3>4. u # new
      BY <1>3, <3>2 DEF In
    <3> QED BY <1>12, <3>3, <3>4
  <2> QED BY <2>1, <2>2
<1>18. CpuOk(c)'
  <2>1. Running(s2, "S_RUN", 0, 0, FALSE)
    <3>1. Held("wake") = 0 /\ "wake" \in LowPcs
      BY DEF Held, LowPcs
    <3>2. Len(s2) = 1 /\ s2[1].pc = "wake"
      BY <1>7, <1>9
    <3> QED BY <3>1, <3>2 DEF Running
  <2>2. Standing(t, s2, "S_RUN", 0, 0, "thread", FALSE, TRUE, Members(c_runqueue[c]))
    BY <2>1 DEF Standing
  <2> QED BY <1>1, <1>2, <1>3, <1>10, <1>11, <1>12, <2>2 DEF CpuOk
<1>19. CpusOk'
  BY <1>0, <1>15, <1>16, <1>18, OthersStand
<1>20. OffOk'
  <2> SUFFICES ASSUME NEW u \in Thr, \A d \in CPU : curthread[d] # u
               PROVE  Resting(stack'[u], t_state'[u], t_curspl'[u], t_iplhigh_count'[u])
    BY <1>1 DEF OffOk
  <2>1. CASE u = new
    <3>1. Resting(s, "S_READY", 1, 2)
      BY <1>4, <1>5 DEF Resting, Parked
    <3> QED BY <1>10, <1>11, <1>12, <2>1, <3>1
  <2>2. CASE u # new
    <3>1. u # t /\ Resting(stack[u], t_state[u], t_curspl[u], t_iplhigh_count[u])
      BY <1>0, <1>2 DEF OffOk
    <3> QED BY <1>10, <1>11, <1>12, <2>2, <3>1
  <2> QED BY <2>1, <2>2
<1>21. Top(c)' = g
  BY <1>1, <1>2, <1>9, <1>10 DEF Top
<1>22. LocksOf(c)'
  <2>1. \A d \in CPU : ~RqHeld(c, d) /\ ~RqHeld(c, d)' /\ ~IpiHeld(c, d) /\ ~IpiHeld(c, d)' /\ ~WcHeld(c) /\ ~WcHeld(c)'
    BY <1>1, <1>7, <1>21 DEF RqHeld, RqSend, IpiHeld, WcHeld
  <2> QED BY <1>0, <1>1, <2>1 DEF LocksOf
<1>23. LocksOk'
  <2>1. OtherLocks(c)
    BY <1>1 DEF OtherLocks
  <2> QED BY <1>0, <1>15, <1>17, <1>22, <2>1, OthersLocks
<1>24. HandsOk'
  <2>1. HandOk(c)'
    BY <1>7, <1>21 DEF HandOk
  <2> QED BY <1>0, <1>13, <1>15, <1>16, <1>17, <2>1, OthersHands
<1>25. ListInv'
  <2>0. "low" \in Kind /\ t \in Int
    BY SchedAssumption DEF Kind, Thr
  <2>1. ListOf("low", t) = <<>>
    <3>1. Low(t) = <<>>
      BY <1>1, <1>2 DEF Low, Carried, FrameOk
    <3> QED BY <3>1 DEF ListOf
  <2>2. ListOf("low", t)' = one
    <3>1. Low(t)' = one
      <4>1. Carried(g) = one
        BY <1>7 DEF Carried
      <4> QED BY <1>9, <1>10, <4>1 DEF Low
    <3> QED BY <3>1 DEF ListOf
  <2>3. \A k \in Kind : \A n \in Int : (k = "low" /\ n = t) \/ ListOf(k, n)' = ListOf(k, n)
    <3>1. Low(new)' = Low(new) /\ High(new)' = High(new)
      <4>1. Carried(f) = <<>>
        BY <1>4 DEF Carried
      <4>2. Low(new)' = <<>> /\ High(new)' = <<>>
        BY <1>5, <1>10, <4>1 DEF Low, High
      <4> QED BY <1>3, <4>2
    <3>2. High(t)' = High(t)
      <4>1. Len(stack[t]) = 1 /\ Len(stack'[t]) = 1
        BY <1>2, <1>9, <1>10
      <4> QED BY <4>1 DEF High
    <3>3. \A u \in Thr : u # new /\ u # t => Low(u)' = Low(u) /\ High(u)' = High(u)
      BY <1>10 DEF Low, High
    <3> SUFFICES ASSUME NEW k \in Kind, NEW n \in Int, ~(k = "low" /\ n = t)
                 PROVE  ListOf(k, n)' = ListOf(k, n)
      OBVIOUS
    <3> QED BY <1>1, <3>1, <3>2, <3>3 DEF ListOf
  <2>4. \A u \in Thr : \A k \in Kind : \A n \in Int :
             In(u, k, n)' <=> IF u \in {new} THEN k = "low" /\ n = t ELSE In(u, k, n)
    <3> SUFFICES ASSUME NEW u \in Thr, NEW k \in Kind, NEW n \in Int
                 PROVE  In(u, k, n)' <=> IF u \in {new} THEN k = "low" /\ n = t ELSE In(u, k, n)
      OBVIOUS
    <3>1. CASE k = "low" /\ n = t
      BY <1>6, <2>1, <2>2, <3>1, MembersEmpty DEF In
    <3>2. CASE ~(k = "low" /\ n = t)
      <4>1. In(u, k, n)' <=> In(u, k, n)
        BY <2>3, <3>2 DEF In
      <4> QED BY <1>3, <3>2, <4>1
    <3> QED BY <3>1, <3>2
  <2>5. ListsOnce'
    BY <1>0, <1>6, <2>2, <2>3 DEF ListInv, ListsOnce
  <2>6. \A u \in Thr : Current(u)' <=> Current(u)
    BY <1>1 DEF Current, Leaving
  <2>7. \A u \in Thr : u \notin {new} => Stays(u)
    BY <1>11, <1>12, <2>6 DEF Stays
  <2>8. \A d \in CPU : t_cpu'[curthread'[d]] = d
    <3>1. \A d \in CPU : curthread[d] \in Thr
      BY <1>0 DEF CpuTypes
    <3> QED BY <1>0, <1>1, <1>3, <1>12, <3>1 DEF CpusExact
  <2>9. \A u \in {new} : /\ ~Current(u)'
                         /\ IF "low" = "zombies" THEN t_state'[u] = "S_ZOMBIE" ELSE t_state'[u] \in {"S_READY", "S_SLEEP"}
                         /\ "low" \in {"rq", "zombies"} => t_cpu'[u] = t
    <3>1. ~Current(new)'
      BY <1>1, <1>3 DEF Current
    <3> QED BY <1>11, <3>1
  <2>10. Moves({new}, "low", t)
    BY <2>4, <2>7, <2>8, <2>9 DEF Moves
  <2>11. {new} \in SUBSET Thr
    OBVIOUS
  <2> QED BY <1>0, <2>0, <2>5, <2>10, <2>11, MoveLists
<1> QED BY <1>13, <1>14, <1>19, <1>20, <1>23, <1>24, <1>25 DEF SchedInv, ShapeInv, SchedTypes

-----------------------------------------------------------------------------
(* The invariant holds *)

\* thread_bootstrap and cpu_create: every CPU is on its boot thread, and no list
\* has a thread.
LEMMA InitSchedInv == TsInit => SchedInv
<1> SUFFICES ASSUME TsInit PROVE SchedInv
  OBVIOUS
<1> USE DEF TsInit
<1>1. PICK f \in FrameRecord : f = Frame("run") /\ f.pc = "run" /\ f.carry = <<>>
  <2>1. "run" \in Pcs
    BY DEF Pcs, LowPcs
  <2> QED BY <2>1, FrameIs
<1>2. PICK s : s = <<f>> /\ s \in Seq(FrameRecord) /\ Len(s) = 1 /\ s[1] = f
  <2>1. <<f>> \in Seq(FrameRecord) /\ Len(<<f>>) = 1 /\ <<f>>[1] = f
    OBVIOUS
  <2> QED BY <2>1, Zenon
<1>3. stack = [t \in Thr |-> s]
  BY <1>1, <1>2
<1>4. /\ \A c \in CPU : c \in Int /\ c + 1 \in Thr /\ (c + 1 = 1 <=> c = 0) /\ c + 1 <= NCPU /\ (c + 1) - 1 = c
      /\ 0 \in CPU /\ \A t \in Thr : t \in Int /\ (t <= NCPU => t - 1 \in CPU)
  BY SchedAssumption DEF CPU, Thr
<1>5. CpuTypes
  <2>1. curthread \in [CPU -> Thr]
    BY <1>4 DEF BootThread
  <2>2. mode \in [CPU -> Modes]
    BY DEF Modes
  <2> QED BY <2>1, <2>2 DEF CpuTypes
<1>6. ListTypes /\ LockTypes
  BY DEF ListTypes, LockTypes, Holder
<1>7. ThreadTypes
  <2>1. t_cpu \in [Thr -> CPU]
    BY <1>4
  <2>2. t_state \in [Thr -> States]
    BY DEF States
  <2>3. t_curspl \in [Thr -> {0, 1}] /\ t_iplhigh_count \in [Thr -> Int]
    OBVIOUS
  <2> QED BY <2>1, <2>2, <2>3 DEF ThreadTypes
<1>8. StackTypes /\ StacksOk
  <2>1. FrameOk(f)
    BY <1>1 DEF FrameOk
  <2> QED BY <1>2, <1>3, <2>1 DEF StackTypes, StacksOk
<1>9. CpusOk
  <2> SUFFICES ASSUME NEW c \in CPU PROVE CpuOk(c)
    BY DEF CpusOk
  <2>1. curthread[c] = c + 1 /\ stack[c + 1] = s /\ c_isidle[c] = FALSE
    BY <1>3, <1>4 DEF BootThread
  <2>2. CASE c = 0
    <3>1. mode[c] = "thread" /\ irq[c] = TRUE /\ t_state[c + 1] = "S_RUN" /\ t_curspl[c + 1] = 0 /\ t_iplhigh_count[c + 1] = 0
      BY <1>4, <2>2
    <3>2. Running(s, "S_RUN", 0, 0, FALSE)
      BY <1>1, <1>2 DEF Running, LowPcs, Held
    <3>3. Standing(c + 1, s, "S_RUN", 0, 0, "thread", FALSE, TRUE, Members(c_runqueue[c]))
      BY <3>2 DEF Standing
    <3> QED BY <2>1, <3>1, <3>3 DEF CpuOk
  <2>3. CASE c # 0
    <3>1. /\ mode[c] = "off" /\ irq[c] = FALSE /\ t_state[c + 1] = "S_READY" /\ t_curspl[c + 1] = 1
          /\ t_iplhigh_count[c + 1] = 1
      BY <1>4, <2>3
    <3>2. Standing(c + 1, s, "S_READY", 1, 1, "off", FALSE, FALSE, Members(c_runqueue[c]))
      BY <1>1, <1>2 DEF Standing
    <3> QED BY <2>1, <3>1, <3>2 DEF CpuOk
  <2> QED BY <2>2, <2>3
<1>10. \A t \in Thr : t <= NCPU => curthread[t - 1] = t /\ t - 1 \in CPU
  BY <1>4 DEF BootThread
<1>11. OffOk
  <2> SUFFICES ASSUME NEW t \in Thr, \A c \in CPU : curthread[c] # t
               PROVE  Resting(stack[t], t_state[t], t_curspl[t], t_iplhigh_count[t])
    BY DEF OffOk
  <2>1. ~(t <= NCPU) /\ t # 1
    BY <1>4, <1>10, SchedAssumption
  <2>2. Resting(s, "free", 1, 1)
    BY <1>1, <1>2 DEF Resting, Parked
  <2> QED BY <1>3, <2>1, <2>2
<1>12. LocksOk
  <2>1. \A c \in CPU : mode[c] \in {"thread", "off"} /\ Top(c) = f
    BY <1>2, <1>3, <1>4 DEF Top, BootThread
  <2>2. \A c, d \in CPU : ~RqHeld(c, d) /\ ~IpiHeld(c, d) /\ ~WcHeld(c)
    BY <1>1, <2>1 DEF RqHeld, RqSend, IpiHeld, WcHeld
  <2> QED BY <2>2, NoCPUIs DEF LocksOk, LocksOf
<1>13. HandsOk
  <2>1. \A c \in CPU : Top(c) = f
    BY <1>2, <1>3, <1>4 DEF Top, BootThread
  <2> QED BY <1>1, <2>1 DEF HandsOk, HandOk
<1>14. \A k, n : ListOf(k, n) = <<>>
  <2>1. \A u \in Thr : Low(u) = <<>> /\ High(u) = <<>>
    <3>1. Carried(f) = <<>>
      BY <1>1 DEF Carried
    <3> QED BY <1>2, <1>3, <3>1 DEF Low, High
  <2> QED BY <2>1 DEF ListOf
<1>15. \A t, k, n : ~In(t, k, n)
  BY <1>14, MembersEmpty DEF In
<1>16. AllListed
  <2> SUFFICES ASSUME NEW t \in Thr, t_state[t] # "free" PROVE Current(t)
    BY <1>15 DEF AllListed, Listed
  <2>1. t <= NCPU
    BY <1>4, SchedAssumption
  <2>2. mode[t - 1] # "pick" /\ ~c_isidle[t - 1]
    BY <1>10, <2>1
  <2> QED BY <1>10, <2>1, <2>2 DEF Current, Leaving
<1>17. CpusExact
  <2>1. \A c \in CPU : t_cpu[curthread[c]] = c
    BY <1>4 DEF BootThread
  <2> QED BY <1>15, <2>1 DEF CpusExact
<1>18. ListInv
  BY <1>14, <1>15, <1>16, <1>17, MembersEmpty DEF ListInv, ListsOnce, OneList, ListStates
<1> QED BY <1>5, <1>6, <1>7, <1>8, <1>9, <1>11, <1>12, <1>13, <1>18 DEF SchedInv, ShapeInv, SchedTypes

\* wchan_wakeone and wchan_wakeall.
LEMMA WakeKept ==
    ASSUME SchedInv, NEW c \in CPU, wchan_wakeone(c) \/ wchan_wakeall(c)
    PROVE  SchedInv'
<1>1. wc \in Seq(Thr) /\ Len(wc) \in Nat /\ (wc # <<>> => Len(wc) >= 1)
  BY Parts DEF ListTypes
<1>2. CASE wchan_wakeone(c)
  <2>1. PICK n \in Nat : n = (IF wc = <<>> THEN 0 ELSE 1) /\ n <= Len(wc)
    BY <1>1
  <2>2. mode[c] = "thread" /\ Top(c).pc = "device" /\ Woken(c, n)
    BY <1>2, <2>1 DEF wchan_wakeone, Executes
  <2> QED BY <2>1, <2>2, WokenKept
<1>3. CASE wchan_wakeall(c)
  <2>1. PICK n \in Nat : n = Len(wc) /\ n <= Len(wc)
    BY <1>1
  <2>2. mode[c] = "thread" /\ Top(c).pc \in {"run", "device"} /\ Woken(c, n)
    BY <1>3, <2>1 DEF wchan_wakeall, Executes
  <2> QED BY <2>1, <2>2, WokenKept
<1> QED BY <1>2, <1>3

\* Nothing happens.
LEMMA StutterKept ==
    ASSUME SchedInv, UNCHANGED tsVars
    PROVE  SchedInv'
<1> USE DEF tsVars, cpuVars, queueVars, lockVars, splVars
<1>1. ShapeInv'
  <2>1. SchedTypes' /\ StacksOk'
    BY DEF SchedInv, ShapeInv, SchedTypes, CpuTypes, ListTypes, LockTypes, ThreadTypes, StackTypes, StacksOk
  <2>2. CpusOk' /\ OffOk'
    BY DEF SchedInv, ShapeInv, CpusOk, CpuOk, OffOk
  <2> QED BY <2>1, <2>2 DEF ShapeInv
<1>2. LocksOk'
  <2>1. \A c \in CPU : Top(c)' = Top(c)
    BY DEF Top
  <2> QED BY <2>1 DEF SchedInv, LocksOk, LocksOf, RqHeld, RqSend, InHand, IpiHeld, WcHeld
<1>3. HandsOk'
  <2>1. \A c \in CPU : Top(c)' = Top(c)
    BY DEF Top
  <2> QED BY <2>1 DEF SchedInv, HandsOk, HandOk, InHand
<1>4. ListInv'
  <2>1. \A t \in Thr : Current(t)' <=> Current(t)
    BY DEF Current, Leaving
  <2>2. SameLists
    BY DEF SameLists, Low, High
  <2> QED BY <2>1, <2>2, ListsAlone DEF SchedInv
<1> QED BY <1>1, <1>2, <1>3, <1>4 DEF SchedInv

\* Every step keeps the invariant.
LEMMA NextSchedInv == SchedInv /\ [TsNext]_tsVars => SchedInv'
<1> SUFFICES ASSUME SchedInv, [TsNext]_tsVars PROVE SchedInv'
  OBVIOUS
<1>1. CASE UNCHANGED tsVars
  BY <1>1, StutterKept
<1>2. ASSUME NEW c \in CPU, Continue(c) PROVE SchedInv'
  <2>1. CASE Interrupt(c, "ipi") \/ IpiLock(c) \/ IpiHandled(c) \/ IpiHalt(c) \/ lamebus_clear_ipi(c)
    BY <2>1, InterruptKept, IpiLockKept, IpiHandledKept, IpiHaltKept, ClearIpiKept
  <2>2. CASE Iret(c) \/ thread_yield(c) \/ wchan_sleep(c)
    BY <2>2, IretKept, YieldKept, SleepKept
  <2>3. CASE PickNext(c) \/ PickIdle(c) \/ Unidle(c) \/ Resume(c)
    BY <2>3, PickNextKept, PickIdleKept, UnidleKept, ResumeKept
  <2>4. CASE wchan_wakeone(c) \/ thread_make_runnable(c) \/ SendUnidle(c)
    BY <2>4, WakeKept, RunnableKept, SendUnidleKept
  <2>5. CASE hardclock(c) \/ MigrateCount(c) \/ MigrateTake(c) \/ MigrateSend(c) \/ MigrateBack(c)
    BY <2>5, HardclockKept, MigrateCountKept, MigrateTakeKept, MigrateSendKept, MigrateBackKept
  <2>6. CASE ipi_broadcast(c) \/ ShutdownEnd(c)
    BY <2>6, BroadcastKept, ShutdownEndKept
  <2> QED BY <1>2, <2>1, <2>2, <2>3, <2>4, <2>5, <2>6 DEF Continue
<1>3. ASSUME NEW c \in CPU, Choose(c) PROVE SchedInv'
  <2>1. CASE Interrupt(c, "timer") \/ Interrupt(c, "device")
    BY <2>1, InterruptKept
  <2>2. CASE thread_yield(c) \/ wchan_lock(c) \/ thread_exit(c) \/ wchan_wakeall(c)
    BY <2>2, YieldKept, WchanLockKept, ExitKept, WakeKept
  <2>3. CASE \E t \in Thr : thread_fork(c, t)
    BY <2>3, ForkKept
  <2>4. CASE cpu_hatch(c) \/ ShutdownBegin(c)
    BY <2>4, HatchKept, ShutdownBeginKept
  <2> QED BY <1>3, <2>1, <2>2, <2>3, <2>4 DEF Choose
<1> QED BY <1>1, <1>2, <1>3 DEF TsNext

\* The inductive invariant of the scheduler holds in every state: what CPUs and
\* threads are doing (ShapeInv), the spinlocks (LocksOk), the lists that threads
\* are on (ListInv), and what CPUs have in hand (HandsOk).
THEOREM SchedInvariant == TsSpec => []SchedInv
BY InitSchedInv, NextSchedInv, PTL DEF TsSpec

-----------------------------------------------------------------------------
(* An idle CPU is told *)

\* What has to be invariant beside SchedInv.
LineTypes == ipiline \in [CPU -> BOOLEAN]
ToldInv == LineTypes /\ IdleTold

\* The step gives no other CPU a thread to run, and takes no interrupt from it.
TellsNoCpu(c) ==
    /\ LineTypes'
    /\ mode'[c] # "idle"
    /\ \A d \in CPU : d # c => /\ mode'[d] = mode[d] /\ c_runqueue'[d] = c_runqueue[d]
                               /\ (ipiline[d] => ipiline'[d]) /\ rqlock'[d] = rqlock[d]

\* Then no CPU has to be told.
LEMMA ToldSame ==
    ASSUME ToldInv, NEW c \in CPU, TellsNoCpu(c)
    PROVE  ToldInv'
BY DEF ToldInv, IdleTold, TellsNoCpu

\* Steps of a CPU that concern no run queue but its own.
LEMMA OwnStepsTell ==
    ASSUME SchedInv, LineTypes, NEW c \in CPU,
           \/ Iret(c) \/ thread_yield(c) \/ wchan_sleep(c) \/ thread_exit(c)
           \/ PickNext(c) \/ Unidle(c) \/ Resume(c) \/ cpu_hatch(c)
    PROVE  TellsNoCpu(c)
<1>1. CpuTypes /\ ListTypes /\ LockTypes
  BY Parts
<1> USE <1>1 DEF CpuTypes, ListTypes, LockTypes, LineTypes, TellsNoCpu, queueVars, lockVars, ipiVars, Executes
<1>2. CASE Iret(c)
  BY <1>2 DEF Iret
<1>3. CASE thread_yield(c)
  BY <1>3 DEF thread_yield, Away, cpuVars
<1>4. CASE wchan_sleep(c)
  BY <1>4 DEF wchan_sleep, Away
<1>5. CASE thread_exit(c)
  BY <1>5 DEF thread_exit, Away
<1>6. CASE PickNext(c)
  BY <1>6 DEF PickNext
<1>7. CASE Unidle(c)
  BY <1>7 DEF Unidle
<1>8. CASE Resume(c)
  BY <1>8 DEF Resume
<1>9. CASE cpu_hatch(c)
  BY <1>9 DEF cpu_hatch
<1> QED BY <1>2, <1>3, <1>4, <1>5, <1>6, <1>7, <1>8, <1>9

\* Steps that concern no run queue, and those of migration that concern the own.
LEMMA PlainStepsTell ==
    ASSUME SchedInv, LineTypes, NEW c \in CPU,
           \/ (\E source \in {"ipi", "timer", "device"} : Interrupt(c, source))
           \/ IpiLock(c) \/ IpiHandled(c) \/ IpiHalt(c) \/ lamebus_clear_ipi(c)
           \/ wchan_lock(c) \/ wchan_wakeone(c) \/ wchan_wakeall(c) \/ hardclock(c)
           \/ (\E t \in Thr : thread_fork(c, t))
           \/ MigrateCount(c) \/ MigrateTake(c) \/ MigrateBack(c)
           \/ ShutdownBegin(c) \/ ipi_broadcast(c) \/ ShutdownEnd(c)
    PROVE  TellsNoCpu(c)
<1>1. CpuTypes /\ ListTypes /\ LockTypes
  BY Parts
<1> USE <1>1 DEF CpuTypes, ListTypes, LockTypes, LineTypes, TellsNoCpu, cpuVars, queueVars, lockVars, ipiVars, Executes
<1>2. CASE \E source \in {"ipi", "timer", "device"} : Interrupt(c, source)
  BY <1>2 DEF Interrupt
<1>3. CASE IpiLock(c) \/ IpiHalt(c) \/ wchan_lock(c)
  BY <1>3 DEF IpiLock, IpiHalt, wchan_lock
<1>4. CASE IpiHandled(c)
  BY <1>4 DEF IpiHandled
<1>5. CASE lamebus_clear_ipi(c)
  <2>1. /\ mode' = mode /\ mode[c] = "thread" /\ c_runqueue' = c_runqueue /\ rqlock' = rqlock
        /\ ipiline' = [ipiline EXCEPT ![c] = FALSE]
    BY <1>5 DEF lamebus_clear_ipi
  <2> QED BY <2>1
<1>6. CASE wchan_wakeone(c) \/ wchan_wakeall(c)
  BY <1>6 DEF wchan_wakeone, wchan_wakeall, Woken
<1>7. CASE hardclock(c) \/ MigrateCount(c)
  BY <1>7 DEF hardclock, MigrateCount
<1>8. CASE \E t \in Thr : thread_fork(c, t)
  BY <1>8 DEF thread_fork
<1>9. CASE MigrateTake(c) \/ MigrateBack(c)
  BY <1>9 DEF MigrateTake, MigrateBack
<1>10. CASE ShutdownBegin(c) \/ ShutdownEnd(c)
  BY <1>10 DEF ShutdownBegin, ShutdownEnd
<1>11. CASE ipi_broadcast(c)
  <2>1. mode' = mode /\ mode[c] = "thread" /\ c_runqueue' = c_runqueue /\ rqlock' = rqlock
    BY <1>11 DEF ipi_broadcast
  <2>2. PICK i : ipiline' = ipiline \/ ipiline' = [ipiline EXCEPT ![i] = TRUE]
    BY <1>11 DEF ipi_broadcast, ipi_send
  <2>3. LineTypes' /\ \A d \in CPU : ipiline[d] => ipiline'[d]
    BY <2>2
  <2> QED BY <2>1, <2>3
<1> QED BY <1>2, <1>3, <1>4, <1>5, <1>6, <1>7, <1>8, <1>9, <1>10, <1>11

\* thread_switch idles on an empty run queue only.
LEMMA PickIdleTells ==
    ASSUME SchedInv, ToldInv, NEW c \in CPU, PickIdle(c)
    PROVE  ToldInv'
<1>1. CpuTypes /\ LockTypes
  BY Parts
<1>2. /\ mode' = [mode EXCEPT ![c] = "idle"] /\ rqlock' = [rqlock EXCEPT ![c] = NoCPU] /\ c_runqueue' = c_runqueue
      /\ ipiline' = ipiline /\ c_runqueue[c] = <<>>
  BY DEF PickIdle, queueVars, ipiVars
<1>3. LineTypes'
  BY <1>2 DEF ToldInv, LineTypes
<1>4. ASSUME NEW d \in CPU, mode'[d] = "idle", c_runqueue'[d] # <<>> PROVE ipiline'[d] \/ rqlock'[d] # NoCPU
  <2>1. d # c
    BY <1>2, <1>4
  <2>2. mode'[d] = mode[d] /\ rqlock'[d] = rqlock[d]
    BY <1>1, <1>2, <2>1 DEF CpuTypes, LockTypes
  <2> QED BY <1>2, <1>4, <2>2 DEF ToldInv, IdleTold
<1> QED BY <1>3, <1>4 DEF ToldInv, IdleTold

\* An idle CPU has c_isidle.
LEMMA IdleIs ==
    ASSUME SchedInv, NEW d \in CPU, mode[d] = "idle"
    PROVE  c_isidle[d]
BY StandsOn DEF Standing

\* thread_make_runnable keeps the run queue locked until an idle CPU has been told.
LEMMA RunnableTells ==
    ASSUME SchedInv, ToldInv, NEW c \in CPU, thread_make_runnable(c)
    PROVE  ToldInv'
<1>1. CpuTypes /\ ListTypes /\ LockTypes /\ mode[c] = "thread"
  BY Parts DEF thread_make_runnable, Executes
<1>2. PICK tg : tg = t_cpu[InHand(c)]
  OBVIOUS
<1>3. /\ UNCHANGED <<mode, ipiline>>
      /\ c_runqueue' = [c_runqueue EXCEPT ![tg] = Append(@, InHand(c))]
      /\ IF c_isidle[tg] THEN rqlock' = [rqlock EXCEPT ![tg] = c] ELSE rqlock' = rqlock
  BY <1>2 DEF thread_make_runnable, Tells, ipiVars
<1>4. LineTypes'
  BY <1>3 DEF ToldInv, LineTypes
<1>5. ASSUME NEW d \in CPU, mode'[d] = "idle", c_runqueue'[d] # <<>> PROVE ipiline'[d] \/ rqlock'[d] # NoCPU
  <2>1. CASE d = tg
    <3>1. c_isidle[tg]
      BY <1>3, <1>5, <2>1, IdleIs
    <3>2. rqlock'[d] = c
      BY <1>1, <1>3, <2>1, <3>1 DEF LockTypes
    <3> QED BY <3>2, NoCPUIs
  <2>2. CASE d # tg
    <3>1. c_runqueue'[d] = c_runqueue[d] /\ rqlock'[d] = rqlock[d]
      BY <1>1, <1>3, <2>2 DEF ListTypes, LockTypes
    <3> QED BY <1>3, <1>5, <3>1 DEF ToldInv, IdleTold
  <2> QED BY <2>1, <2>2
<1> QED BY <1>4, <1>5 DEF ToldInv, IdleTold

\* ipi_send comes before the run queue is unlocked.
LEMMA SendTells ==
    ASSUME SchedInv, ToldInv, NEW c \in CPU, SendUnidle(c)
    PROVE  ToldInv'
<1>1. CpuTypes /\ ListTypes /\ LockTypes /\ ipiline \in [CPU -> BOOLEAN]
  BY Parts DEF ToldInv, LineTypes
<1>2. PICK tg : tg = t_cpu[InHand(c)]
  OBVIOUS
<1>3. /\ UNCHANGED <<mode, c_runqueue>>
      /\ ipiline' = [ipiline EXCEPT ![tg] = TRUE] /\ rqlock' = [rqlock EXCEPT ![tg] = NoCPU]
  BY <1>2 DEF SendUnidle, ipi_send, queueVars
<1>4. LineTypes'
  BY <1>1, <1>3 DEF LineTypes
<1>5. ASSUME NEW d \in CPU, mode'[d] = "idle", c_runqueue'[d] # <<>> PROVE ipiline'[d] \/ rqlock'[d] # NoCPU
  <2>1. CASE d = tg
    BY <1>1, <1>3, <2>1
  <2>2. CASE d # tg
    <3>1. (ipiline'[d] <=> ipiline[d]) /\ rqlock'[d] = rqlock[d]
      BY <1>1, <1>3, <2>2 DEF LockTypes
    <3> QED BY <1>3, <1>5, <3>1 DEF ToldInv, IdleTold
  <2> QED BY <2>1, <2>2
<1> QED BY <1>4, <1>5 DEF ToldInv, IdleTold

\* thread_consider_migration tells an idle CPU that it has given threads to.
LEMMA MigrateTells ==
    ASSUME SchedInv, ToldInv, NEW c \in CPU, MigrateSend(c)
    PROVE  ToldInv'
<1>1. CpuTypes /\ ListTypes /\ LockTypes /\ ipiline \in [CPU -> BOOLEAN]
  BY Parts DEF ToldInv, LineTypes
<1>2. PICK i, goes : /\ UNCHANGED <<mode, c_isidle, rqlock>>
         /\ \/ UNCHANGED <<c_runqueue, ipiline>>
            \/ /\ c_runqueue' = [c_runqueue EXCEPT ![i] = @ \o goes]
               /\ IF goes # <<>> /\ c_isidle[i] THEN ipiline' = [ipiline EXCEPT ![i] = TRUE] ELSE ipiline' = ipiline
  BY DEF MigrateSend, cpuVars, lockVars, ipi_send
<1>3. LineTypes'
  BY <1>1, <1>2 DEF LineTypes
<1>4. ASSUME NEW d \in CPU, mode'[d] = "idle", c_runqueue'[d] # <<>> PROVE ipiline'[d] \/ rqlock'[d] # NoCPU
  <2>1. c_isidle[d] /\ c_runqueue[d] \in Seq(Thr)
    BY <1>1, <1>2, <1>4, IdleIs DEF ListTypes
  <2>2. (c_runqueue'[d] = c_runqueue[d] /\ (ipiline[d] => ipiline'[d])) \/ ipiline'[d]
    <3>1. CASE UNCHANGED <<c_runqueue, ipiline>>
      BY <3>1
    <3>2. CASE /\ c_runqueue' = [c_runqueue EXCEPT ![i] = @ \o goes]
               /\ IF goes # <<>> /\ c_isidle[i] THEN ipiline' = [ipiline EXCEPT ![i] = TRUE] ELSE ipiline' = ipiline
      <4>1. CASE d # i
        BY <1>1, <3>2, <4>1 DEF ListTypes
      <4>2. CASE d = i /\ goes # <<>>
        BY <1>1, <2>1, <3>2, <4>2
      <4>3. CASE d = i /\ goes = <<>>
        <5>1. c_runqueue[d] \o <<>> = c_runqueue[d]
          BY <2>1
        <5> QED BY <1>1, <3>2, <4>3, <5>1 DEF ListTypes
      <4> QED BY <4>1, <4>2, <4>3
    <3> QED BY <1>2, <3>1, <3>2
  <2> QED BY <1>2, <1>4, <2>2 DEF ToldInv, IdleTold
<1> QED BY <1>3, <1>4 DEF ToldInv, IdleTold

\* Every step keeps it.
LEMMA NextTold == SchedInv /\ ToldInv /\ [TsNext]_tsVars => ToldInv'
<1> SUFFICES ASSUME SchedInv, ToldInv, [TsNext]_tsVars PROVE ToldInv'
  OBVIOUS
<1>0. LineTypes
  BY DEF ToldInv
<1>1. CASE UNCHANGED tsVars
  BY <1>1 DEF ToldInv, LineTypes, IdleTold, tsVars, cpuVars, queueVars, lockVars, ipiVars
<1>2. ASSUME NEW c \in CPU, Continue(c) \/ Choose(c) PROVE ToldInv'
  <2>1. CASE \/ Iret(c) \/ thread_yield(c) \/ wchan_sleep(c) \/ thread_exit(c)
             \/ PickNext(c) \/ Unidle(c) \/ Resume(c) \/ cpu_hatch(c)
    BY <1>0, <2>1, OwnStepsTell, ToldSame
  <2>2. CASE \/ (\E source \in {"ipi", "timer", "device"} : Interrupt(c, source))
             \/ IpiLock(c) \/ IpiHandled(c) \/ IpiHalt(c) \/ lamebus_clear_ipi(c)
             \/ wchan_lock(c) \/ wchan_wakeone(c) \/ wchan_wakeall(c) \/ hardclock(c)
             \/ (\E t \in Thr : thread_fork(c, t))
             \/ MigrateCount(c) \/ MigrateTake(c) \/ MigrateBack(c)
             \/ ShutdownBegin(c) \/ ipi_broadcast(c) \/ ShutdownEnd(c)
    <3>1. TellsNoCpu(c)
      BY <1>0, <2>2, PlainStepsTell
    <3> QED BY <3>1, ToldSame
  <2>3. CASE PickIdle(c) \/ thread_make_runnable(c) \/ SendUnidle(c) \/ MigrateSend(c)
    BY <2>3, PickIdleTells, RunnableTells, SendTells, MigrateTells
  <2>4. "ipi" \in {"ipi", "timer", "device"} /\ "timer" \in {"ipi", "timer", "device"} /\ "device" \in {"ipi", "timer", "device"}
    OBVIOUS
  <2> QED BY <1>2, <2>1, <2>2, <2>3, <2>4, Zenon DEF Continue, Choose
<1> QED BY <1>1, <1>2 DEF TsNext

\* A CPU that waits for an interrupt although it has a thread to run is going
\* to get one (thread_make_runnable, thread_consider_migration): who gives it the
\* thread tells it before the run queue is unlocked.
THEOREM IdleToldThm == TsSpec => []IdleTold
<1>1. TsInit => ToldInv
  BY DEF TsInit, ToldInv, LineTypes, IdleTold
<1>2. ToldInv => IdleTold
  BY DEF ToldInv
<1> QED BY <1>1, <1>2, NextTold, SchedInvariant, PTL DEF TsSpec

-----------------------------------------------------------------------------
(* Interrupt levels *)

\* The spinlocks that a CPU holds are as many as its thread has counted.
LEMMA LocksCounted ==
    ASSUME SchedInv, NEW c \in CPU, mode[c] \notin {"off", "halted"}
    PROVE  t_iplhigh_count[curthread[c]] = t_curspl[curthread[c]]
             + (Cardinality({d \in CPU : rqlock[d] = c}) + Cardinality({d \in CPU : ipilock[d] = c})
                + (IF wclock = c THEN 1 ELSE 0))
<1> DEFINE R == {d \in CPU : rqlock[d] = c}
           I == {d \in CPU : ipilock[d] = c}
<1>1. PICK t \in Thr : /\ t = curthread[c] /\ Top(c) = stack[t][1] /\ t_curspl[t] \in {0, 1}
         /\ Standing(t, stack[t], t_state[t], t_curspl[t], t_iplhigh_count[t], mode[c], c_isidle[c], irq[c],
                     Members(c_runqueue[c]))
  BY StandsOn
<1>2. /\ \A d \in CPU : (rqlock[d] = c <=> RqHeld(c, d)) /\ (ipilock[d] = c <=> IpiHeld(c, d))
      /\ wclock = c <=> WcHeld(c)
  BY Parts DEF LocksOk, LocksOf
<1>3. Cardinality({}) = 0 /\ \A d \in CPU : Cardinality({d}) = 1
  BY FS_EmptySet, FS_Singleton
<1>4. CASE mode[c] \in {"pick", "resume"}
  <2>1. R = {c} /\ I = {} /\ wclock # c
    BY <1>2, <1>4 DEF RqHeld, RqSend, IpiHeld, WcHeld
  <2>2. t_iplhigh_count[t] = 2 /\ t_curspl[t] = 1
    BY <1>1, <1>4 DEF Standing
  <2> QED BY <1>1, <1>3, <2>1, <2>2
<1>5. CASE mode[c] \in {"idle", "unidle"}
  <2>1. R = {} /\ I = {} /\ wclock # c
    BY <1>2, <1>5 DEF RqHeld, RqSend, IpiHeld, WcHeld
  <2>2. t_iplhigh_count[t] = 1 /\ t_curspl[t] = 1
    BY <1>1, <1>5 DEF Standing
  <2> QED BY <1>1, <1>3, <2>1, <2>2
<1>6. CASE mode[c] = "thread"
  <2>0. t_iplhigh_count[t] = t_curspl[t] + Held(Top(c).pc)
    BY <1>1, <1>6, Executing
  <2>1. CASE Top(c).pc = "send"
    <3>1. PICK e \in CPU : e = t_cpu[InHand(c)]
      BY <1>6, <2>1, Telling
    <3>2. R = {e} /\ I = {} /\ wclock # c
      BY <1>2, <1>6, <2>1, <3>1 DEF RqHeld, RqSend, IpiHeld, WcHeld
    <3>3. Held("send") = 1
      BY DEF Held
    <3> QED BY <1>1, <1>3, <2>0, <2>1, <3>2, <3>3
  <2>2. CASE Top(c).pc = "ipibits"
    <3>1. R = {} /\ I = {c} /\ wclock # c
      BY <1>2, <1>6, <2>2 DEF RqHeld, RqSend, IpiHeld, WcHeld
    <3>2. Held("ipibits") = 1
      BY DEF Held
    <3> QED BY <1>1, <1>3, <2>0, <2>2, <3>1, <3>2
  <2>3. CASE Top(c).pc = "sleep"
    <3>1. R = {} /\ I = {} /\ wclock = c
      BY <1>2, <1>6, <2>3 DEF RqHeld, RqSend, IpiHeld, WcHeld
    <3>2. Held("sleep") = 1
      BY DEF Held
    <3> QED BY <1>1, <1>3, <2>0, <2>3, <3>1, <3>2
  <2>4. CASE Top(c).pc \notin {"send", "ipibits", "sleep"}
    <3>1. R = {} /\ I = {} /\ wclock # c
      BY <1>2, <1>6, <2>4 DEF RqHeld, RqSend, IpiHeld, WcHeld
    <3>2. Held(Top(c).pc) = 0
      BY <2>4 DEF Held
    <3>3. Cardinality(R) = 0 /\ Cardinality(I) = 0 /\ (IF wclock = c THEN 1 ELSE 0) = 0
      BY <1>3, <3>1
    <3>4. t_iplhigh_count[t] = t_curspl[t] + 0
      BY <2>0, <3>2, Zenon
    <3> HIDE DEF R, I
    <3> QED BY <1>1, <3>3, <3>4 DEF R, I
  <2> QED BY <2>1, <2>2, <2>3, <2>4
<1>7. mode[c] \in Modes
  BY Parts DEF CpuTypes
<1> QED BY <1>4, <1>5, <1>6, <1>7 DEF Modes

\* The interrupt level adds up (spinlock_acquire, thread_fork, thread_switch):
\* a thread has counted exactly the spinlocks that its CPU holds, a thread that
\* waits has counted the run queue lock that it will release, and interrupts are
\* on exactly when nothing is counted.
THEOREM IplExactThm == TsSpec => []IplExact
<1>1. SchedInv => IplExact
  <2> SUFFICES ASSUME SchedInv PROVE IplExact
    OBVIOUS
  <2>1. ASSUME NEW c \in CPU, mode[c] \notin {"off", "halted"}
        PROVE  /\ irq[c] => t_iplhigh_count[curthread[c]] = 0
               /\ mode[c] = "thread" /\ ~irq[c] => t_iplhigh_count[curthread[c]] > 0
    <3>1. irq[c] => mode[c] = "thread"
      BY <2>1, StandsOn DEF Standing
    <3>2. Held(Top(c).pc) \in {0, 1}
      BY DEF Held
    <3>3. CASE mode[c] = "thread"
      <4>1. /\ irq[c] <=> t_iplhigh_count[curthread[c]] = 0
            /\ t_iplhigh_count[curthread[c]] = t_curspl[curthread[c]] + Held(Top(c).pc)
            /\ t_curspl[curthread[c]] \in {0, 1}
        BY <3>3, Executing
      <4> QED BY <3>2, <4>1
    <3>4. CASE mode[c] # "thread"
      BY <3>1, <3>4
    <3> QED BY <3>3, <3>4
  <2>2. ASSUME NEW t \in Thr, t_state[t] = "S_READY", On(t) = {} PROVE t_iplhigh_count[t] = 2
    <3>1. \A c \in CPU : curthread[c] # t
      BY <2>2 DEF On
    <3>2. Resting(stack[t], t_state[t], t_curspl[t], t_iplhigh_count[t])
      BY <3>1, Parts DEF OffOk
    <3> QED BY <2>2, <3>2 DEF Resting
  <2> QED BY <2>1, <2>2, LocksCounted DEF IplExact
<1> QED BY <1>1, SchedInvariant, PTL

-----------------------------------------------------------------------------
(* Every thread is in one place *)

\* Where a thread is on a list.
Spots(s, t) == {j \in DOMAIN s : s[j] = t}

\* A list without repetitions has a thread once or not at all.
LEMMA OneSpot ==
    ASSUME NEW s \in Seq(Thr), Once(s), NEW t
    PROVE  /\ t \notin Members(s) => Spots(s, t) = {}
           /\ t \in Members(s) => \E j \in Nat : Spots(s, t) = {j}
<1>0. DOMAIN s = 1..Len(s) /\ Len(s) \in Nat
  OBVIOUS
<1>1. t \notin Members(s) => Spots(s, t) = {}
  BY DEF Members, Spots
<1>2. ASSUME t \in Members(s) PROVE \E j \in Nat : Spots(s, t) = {j}
  <2>1. PICK j \in 1..Len(s) : s[j] = t
    BY <1>0, <1>2 DEF Members
  <2>2. \A i \in 1..Len(s) : s[i] = t => i = j
    BY <2>1 DEF Once
  <2>3. Spots(s, t) = {j}
    BY <1>0, <2>1, <2>2 DEF Spots
  <2> QED BY <1>0, <2>1, <2>3
<1> QED BY <1>1, <1>2

\* The parts of Places.
RunPlaces(t, c) == {<<"runqueue", c, i>> : i \in Spots(c_runqueue[c], t)}
ZombiePlaces(t, c) == {<<"zombies", c, i>> : i \in Spots(c_zombies[c], t)}
WchanPlaces(t) == {<<"wchan", i>> : i \in Spots(wc, t)}
FramesWith(t, u) == {j \in DOMAIN stack[u] : t \in Members(Carried(stack[u][j]))}
FramePlaces(t, u) == {<<"frame", u, k>> : k \in FramesWith(t, u)}
Live == {x \in Thr : t_state[x] # "free"}

\* What Places consists of.
LEMMA PlacesIs ==
    ASSUME NEW t
    PROVE  Places(t) = (UNION {RunPlaces(t, c) \union ZombiePlaces(t, c) : c \in CPU}) \union WchanPlaces(t)
                       \union (UNION {FramePlaces(t, u) : u \in Live})
BY DEF Places, RunPlaces, ZombiePlaces, WchanPlaces, FramePlaces, FramesWith, Live, Spots

\* A thread is at as many places of a list as on the list.
LEMMA ListPlaces ==
    ASSUME SchedInv, NEW t \in Thr
    PROVE  /\ \A c \in CPU : /\ ~In(t, "rq", c) => RunPlaces(t, c) = {}
                             /\ In(t, "rq", c) => \E x : RunPlaces(t, c) = {x}
                             /\ ~In(t, "zombies", c) => ZombiePlaces(t, c) = {}
                             /\ In(t, "zombies", c) => \E x : ZombiePlaces(t, c) = {x}
           /\ ~In(t, "wc", 0) => WchanPlaces(t) = {}
           /\ In(t, "wc", 0) => \E x : WchanPlaces(t) = {x}
<1>0. \A k \in Kind : \A n \in Int : ListOf(k, n) \in Seq(Thr) /\ Once(ListOf(k, n))
  BY Parts, ListTyped DEF ListsOnce
<1>1. \A c \in CPU : c \in Int /\ ListOf("rq", c) = c_runqueue[c] /\ ListOf("zombies", c) = c_zombies[c]
  BY SchedAssumption DEF CPU, ListOf
<1>2. ListOf("wc", 0) = wc /\ "rq" \in Kind /\ "zombies" \in Kind /\ "wc" \in Kind
  BY DEF ListOf, Kind
<1>3. ASSUME NEW c \in CPU
      PROVE  /\ ~In(t, "rq", c) => RunPlaces(t, c) = {}
             /\ In(t, "rq", c) => \E x : RunPlaces(t, c) = {x}
  <2>1. PICK s \in Seq(Thr) : s = c_runqueue[c] /\ Once(s) /\ (In(t, "rq", c) <=> t \in Members(s))
    BY <1>0, <1>1, <1>2 DEF In
  <2>2. CASE t \notin Members(s)
    BY <2>1, <2>2, OneSpot DEF RunPlaces
  <2>3. CASE t \in Members(s)
    <3>1. PICK j \in Nat : Spots(s, t) = {j}
      BY <2>1, <2>3, OneSpot
    <3>2. RunPlaces(t, c) = {<<"runqueue", c, j>>}
      BY <2>1, <3>1 DEF RunPlaces
    <3> QED BY <2>1, <2>3, <3>2
  <2> QED BY <2>2, <2>3
<1>4. ASSUME NEW c \in CPU
      PROVE  /\ ~In(t, "zombies", c) => ZombiePlaces(t, c) = {}
             /\ In(t, "zombies", c) => \E x : ZombiePlaces(t, c) = {x}
  <2>1. PICK s \in Seq(Thr) : s = c_zombies[c] /\ Once(s) /\ (In(t, "zombies", c) <=> t \in Members(s))
    BY <1>0, <1>1, <1>2 DEF In
  <2>2. CASE t \notin Members(s)
    BY <2>1, <2>2, OneSpot DEF ZombiePlaces
  <2>3. CASE t \in Members(s)
    <3>1. PICK j \in Nat : Spots(s, t) = {j}
      BY <2>1, <2>3, OneSpot
    <3>2. ZombiePlaces(t, c) = {<<"zombies", c, j>>}
      BY <2>1, <3>1 DEF ZombiePlaces
    <3> QED BY <2>1, <2>3, <3>2
  <2> QED BY <2>2, <2>3
<1>5. /\ ~In(t, "wc", 0) => WchanPlaces(t) = {}
      /\ In(t, "wc", 0) => \E x : WchanPlaces(t) = {x}
  <2>1. wc \in Seq(Thr) /\ Once(wc) /\ (In(t, "wc", 0) <=> t \in Members(wc))
    BY <1>0, <1>2 DEF In
  <2>2. CASE t \notin Members(wc)
    BY <2>1, <2>2, OneSpot DEF WchanPlaces
  <2>3. CASE t \in Members(wc)
    <3>1. PICK j \in Nat : Spots(wc, t) = {j}
      BY <2>1, <2>3, OneSpot
    <3>2. WchanPlaces(t) = {<<"wchan", j>>}
      BY <3>1 DEF WchanPlaces
    <3> QED BY <2>1, <2>3, <3>2
  <2> QED BY <2>2, <2>3
<1> QED BY <1>3, <1>4, <1>5

\* The same for the frames of a thread.
LEMMA HandPlaces ==
    ASSUME SchedInv, NEW t \in Thr, NEW u \in Thr
    PROVE  /\ ~In(t, "low", u) /\ ~In(t, "high", u) => FramePlaces(t, u) = {}
           /\ In(t, "low", u) \/ In(t, "high", u) => (\E x : FramePlaces(t, u) = {x}) /\ u \in Live
<1>0. "low" \in Kind /\ "high" \in Kind /\ u \in Int
  BY SchedAssumption DEF Kind, Thr
<1>1. /\ In(t, "low", u) <=> t \in Members(Low(u))
      /\ In(t, "high", u) <=> t \in Members(High(u))
      /\ ~(In(t, "low", u) /\ In(t, "high", u))
  <2>1. ListOf("low", u) = Low(u) /\ ListOf("high", u) = High(u)
    BY DEF ListOf
  <2> QED BY <1>0, <2>1, Parts DEF In, OneList
<1>2. stack[u] \in Seq(FrameRecord) /\ Len(stack[u]) \in {1, 2} /\ DOMAIN stack[u] = 1..Len(stack[u])
  <2>1. stack[u] \in Seq(FrameRecord) /\ Len(stack[u]) \in {1, 2}
    BY Parts DEF StackTypes, StacksOk
  <2> QED BY <2>1
<1>3. In(t, "low", u) \/ In(t, "high", u) => u \in Live
  BY <1>1, Unborn, MembersEmpty DEF Live
<1>4. CASE Len(stack[u]) = 1
  <2>1. DOMAIN stack[u] = {1} /\ Low(u) = Carried(stack[u][1]) /\ High(u) = <<>>
    BY <1>2, <1>4 DEF Low, High
  <2>2. FramesWith(t, u) = IF In(t, "low", u) THEN {1} ELSE {}
    BY <1>1, <2>1 DEF FramesWith
  <2>3. ~In(t, "high", u)
    BY <1>1, <2>1, MembersEmpty
  <2>4. CASE In(t, "low", u)
    <3>1. FramePlaces(t, u) = {<<"frame", u, 1>>}
      BY <2>2, <2>4 DEF FramePlaces
    <3> QED BY <1>3, <2>4, <3>1
  <2>5. CASE ~In(t, "low", u)
    BY <2>2, <2>3, <2>5 DEF FramePlaces
  <2> QED BY <2>4, <2>5
<1>5. CASE Len(stack[u]) = 2
  <2>1. DOMAIN stack[u] = {1, 2} /\ Low(u) = Carried(stack[u][2]) /\ High(u) = Carried(stack[u][1])
    BY <1>2, <1>5 DEF Low, High
  <2>2. CASE In(t, "low", u)
    <3>1. FramesWith(t, u) = {2}
      BY <1>1, <2>1, <2>2 DEF FramesWith
    <3>2. FramePlaces(t, u) = {<<"frame", u, 2>>}
      BY <3>1 DEF FramePlaces
    <3> QED BY <1>3, <2>2, <3>2
  <2>3. CASE In(t, "high", u)
    <3>1. FramesWith(t, u) = {1}
      BY <1>1, <2>1, <2>3 DEF FramesWith
    <3>2. FramePlaces(t, u) = {<<"frame", u, 1>>}
      BY <3>1 DEF FramePlaces
    <3> QED BY <1>3, <2>3, <3>2
  <2>4. CASE ~In(t, "low", u) /\ ~In(t, "high", u)
    <3>1. FramesWith(t, u) = {}
      BY <1>1, <2>1, <2>4 DEF FramesWith
    <3>2. FramePlaces(t, u) = {}
      BY <3>1 DEF FramePlaces
    <3> QED BY <2>4, <3>2
  <2> QED BY <2>2, <2>3, <2>4
<1> QED BY <1>2, <1>4, <1>5

\* A thread on no list is nowhere; a thread on one list is in one place.
LEMMA PlacesCount ==
    ASSUME SchedInv, NEW t \in Thr
    PROVE  Cardinality(Places(t)) = IF Listed(t) THEN 1 ELSE 0
<1>0. /\ "rq" \in Kind /\ "zombies" \in Kind /\ "wc" \in Kind /\ "low" \in Kind /\ "high" \in Kind /\ 0 \in Int
      /\ (\A c \in CPU : c \in Int) /\ (\A u \in Thr : u \in Int)
  BY SchedAssumption DEF Kind, CPU, Thr
<1>1. /\ \A c \in CPU : /\ ~In(t, "rq", c) => RunPlaces(t, c) = {}
                        /\ In(t, "rq", c) => \E x : RunPlaces(t, c) = {x}
                        /\ ~In(t, "zombies", c) => ZombiePlaces(t, c) = {}
                        /\ In(t, "zombies", c) => \E x : ZombiePlaces(t, c) = {x}
      /\ ~In(t, "wc", 0) => WchanPlaces(t) = {}
      /\ In(t, "wc", 0) => \E x : WchanPlaces(t) = {x}
  BY ListPlaces
<1>2. \A u \in Thr :
        /\ ~In(t, "low", u) /\ ~In(t, "high", u) => FramePlaces(t, u) = {}
        /\ In(t, "low", u) \/ In(t, "high", u) => (\E x : FramePlaces(t, u) = {x}) /\ u \in Live
  BY HandPlaces
<1>3. PICK P : P = Places(t)
  OBVIOUS
<1>4. P = (UNION {RunPlaces(t, c) \union ZombiePlaces(t, c) : c \in CPU}) \union WchanPlaces(t)
          \union (UNION {FramePlaces(t, u) : u \in Live})
  BY <1>3, PlacesIs
<1>5. \A x : x \in P <=> \/ \E c \in CPU : x \in RunPlaces(t, c) \/ x \in ZombiePlaces(t, c)
                         \/ x \in WchanPlaces(t)
                         \/ \E u \in Live : x \in FramePlaces(t, u)
  <2>1. PICK A : A = UNION {RunPlaces(t, c) \union ZombiePlaces(t, c) : c \in CPU}
    OBVIOUS
  <2>2. PICK B : B = UNION {FramePlaces(t, u) : u \in Live}
    OBVIOUS
  <2>3. \A x : x \in A <=> \E c \in CPU : x \in RunPlaces(t, c) \/ x \in ZombiePlaces(t, c)
    BY <2>1
  <2>4. \A x : x \in B <=> \E u \in Live : x \in FramePlaces(t, u)
    BY <2>2
  <2>5. P = A \union WchanPlaces(t) \union B
    BY <1>4, <2>1, <2>2, Zenon
  <2>6. \A x : x \in P <=> x \in A \/ x \in WchanPlaces(t) \/ x \in B
    BY <2>5
  <2> QED BY <2>3, <2>4, <2>6
<1>6. Live \subseteq Thr
  BY DEF Live
<1>7. CASE ~Listed(t)
  <2>1. \A k \in Kind : \A n \in Int : ~In(t, k, n)
    BY <1>7 DEF Listed
  <2>2. \A c \in CPU : RunPlaces(t, c) = {} /\ ZombiePlaces(t, c) = {}
    BY <1>0, <1>1, <2>1
  <2>3. WchanPlaces(t) = {} /\ \A u \in Live : FramePlaces(t, u) = {}
    BY <1>0, <1>1, <1>2, <1>6, <2>1
  <2>4. P = {}
    BY <1>5, <2>2, <2>3
  <2> QED BY <1>3, <1>7, <2>4, FS_EmptySet
<1>8. CASE Listed(t)
  <2>1. PICK k \in Kind, n \in Int : In(t, k, n)
    BY <1>8 DEF Listed
  <2>2. \A l \in Kind : \A m \in Int : In(t, l, m) => l = k /\ m = n
    BY <2>1, Parts DEF OneList
  <2>3. /\ k \in {"rq", "zombies"} => n \in CPU
        /\ k = "wc" => n = 0
        /\ k \in {"low", "high"} => n \in Thr
    BY <2>1, MembersEmpty DEF In, ListOf
  <2>4. \A c \in CPU : c # n \/ k # "rq" => RunPlaces(t, c) = {}
    BY <1>0, <1>1, <2>2
  <2>5. \A c \in CPU : c # n \/ k # "zombies" => ZombiePlaces(t, c) = {}
    BY <1>0, <1>1, <2>2
  <2>6. k # "wc" => WchanPlaces(t) = {}
    BY <1>0, <1>1, <2>2
  <2>7. \A u \in Live : u # n \/ k \notin {"low", "high"} => FramePlaces(t, u) = {}
    BY <1>0, <1>2, <1>6, <2>2
  <2>8. \E x : P = {x}
    <3>1. CASE k = "rq"
      <4>1. PICK x : RunPlaces(t, n) = {x}
        BY <1>1, <2>1, <2>3, <3>1
      <4>2. \A y : y \in P <=> y = x
        BY <1>5, <2>3, <2>4, <2>5, <2>6, <2>7, <3>1, <4>1
      <4>3. P = {x}
        BY <4>2
      <4> QED BY <4>3
    <3>2. CASE k = "zombies"
      <4>1. PICK x : ZombiePlaces(t, n) = {x}
        BY <1>1, <2>1, <2>3, <3>2
      <4>2. \A y : y \in P <=> y = x
        BY <1>5, <2>3, <2>4, <2>5, <2>6, <2>7, <3>2, <4>1
      <4>3. P = {x}
        BY <4>2
      <4> QED BY <4>3
    <3>3. CASE k = "wc"
      <4>1. PICK x : WchanPlaces(t) = {x}
        BY <1>1, <2>1, <2>3, <3>3
      <4>2. \A y : y \in P <=> y = x
        BY <1>5, <2>4, <2>5, <2>7, <3>3, <4>1
      <4>3. P = {x}
        BY <4>2
      <4> QED BY <4>3
    <3>4. CASE k \in {"low", "high"}
      <4>1. PICK x : FramePlaces(t, n) = {x} /\ n \in Live
        BY <1>2, <2>1, <2>3, <3>4
      <4>2. \A y : y \in P <=> y = x
        BY <1>5, <2>4, <2>5, <2>6, <2>7, <3>4, <4>1
      <4>3. P = {x}
        BY <4>2
      <4> QED BY <4>3
    <3> QED BY <3>1, <3>2, <3>3, <3>4 DEF Kind
  <2>9. Cardinality(P) = 1
    BY <2>8, FS_Singleton
  <2> QED BY <1>3, <1>8, <2>9
<1> QED BY <1>7, <1>8

\* No thread is lost and none is queued twice (thread_switch,
\* thread_make_runnable, thread_consider_migration), no stack is used by two
\* CPUs, and none is freed under a CPU (exorcise), for any number of CPUs and
\* threads.
THEOREM ThreadsAccountedThm == TsSpec => []ThreadsAccounted
<1>1. SchedInv => ThreadsAccounted
  <2> SUFFICES ASSUME SchedInv, NEW t \in Thr
               PROVE  /\ Cardinality(Places(t)) =
                            IF t_state[t] = "free" \/ \E c \in On(t) : ~Leaving(c) THEN 0 ELSE 1
                      /\ Cardinality(On(t)) <= 1
                      /\ \A c \in On(t) : /\ t_state[t] # "free"
                                          /\ \A d \in CPU \ {c} : t \notin Members(c_runqueue[d])
    BY DEF ThreadsAccounted
  <2>1. Current(t) <=> \E c \in On(t) : ~Leaving(c)
    BY DEF Current, On
  <2>2. Listed(t) <=> t_state[t] # "free" /\ ~Current(t)
    BY Parts DEF AllListed
  <2>3. Cardinality(Places(t)) = IF t_state[t] = "free" \/ \E c \in On(t) : ~Leaving(c) THEN 0 ELSE 1
    BY <2>1, <2>2, PlacesCount
  <2>4. Cardinality(On(t)) <= 1
    <3>1. CASE On(t) = {}
      <4>1. Cardinality(On(t)) = 0
        BY <3>1, FS_EmptySet
      <4> QED BY <4>1
    <3>2. CASE On(t) # {}
      <4>1. PICK c \in CPU : curthread[c] = t
        BY <3>2 DEF On
      <4>2. \A d \in CPU : d # c => curthread[d] # t
        BY <4>1, Parts, Mine
      <4>3. On(t) = {c}
        BY <4>1, <4>2 DEF On
      <4>4. Cardinality(On(t)) = 1
        BY <4>3, FS_Singleton
      <4> QED BY <4>4
    <3> QED BY <3>1, <3>2
  <2>5. ASSUME NEW c \in On(t), NEW d \in CPU \ {c} PROVE t \notin Members(c_runqueue[d])
    <3>1. c \in CPU /\ curthread[c] = t /\ d \in CPU /\ d # c /\ "rq" \in {"rq", "zombies"}
      BY <2>5 DEF On
    <3>2. In(t, "rq", d) <=> t \in Members(c_runqueue[d])
      BY <3>1 DEF In, ListOf
    <3> QED BY <3>1, <3>2, ListedHere
  <2>6. \A c \in On(t) : t_state[t] # "free"
    BY CurrentLives DEF On
  <2> QED BY <2>3, <2>4, <2>5, <2>6
<1> QED BY <1>1, SchedInvariant, PTL
=============================================================================
