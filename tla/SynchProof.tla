----------------------------- MODULE SynchProof -----------------------------
(***************************************************************************)
(* Mutual exclusion of the sleep lock of kern/thread/synch.c, for every set *)
(* of threads.  The inductive invariant says who owns lk_lock and lk_holder *)
(* at each place in the code, and that a thread on a wait channel, or on    *)
(* its way from one to the run queue, is asleep and on one list only: what  *)
(* wakes a thread moves no other one.  Then that Synch implements Monitor,   *)
(* that no wake-up is lost, of a lock or of a semaphore, and that the cat     *)
(* and mouse simulation built on them keeps its rules.                       *)
(***************************************************************************)
EXTENDS MCSync, TLAPS, FiniteSetTheorems

\* Places at which a thread has lk_lock, and at which it is lk_holder.
Spinning == {"test", "take", "taken", "busy", "bridge", "clear", "wakeone", "wake", "unspin"}
Owning == {"taken", "in", "signal", "broadcast", "notify", "release", "clear"}

SpinOwner == \A t \in Thread : pc[t] \in Spinning <=> lk_lock = t
LockOwner == \A t \in Thread : pc[t] \in Owning <=> lk_holder = t
FreeToTake == \A t \in Thread : pc[t] = "take" => lk_holder = None

\* Threads on a list are asleep.
LkSleepers == \A i \in 1..Len(lk_wchan) : pc[lk_wchan[i]] = "asleep"
CvSleepers == \A i \in 1..Len(cv_wchan) : pc[cv_wchan[i]] = "cvasleep"
PrivateSleepers ==
    \A t \in Thread : \A i \in 1..Len(private[t]) :
        pc[private[t][i]] \in {"asleep", "cvasleep"}

\* A list names a thread once.
Once(list) == \A i, j \in 1..Len(list) : list[i] = list[j] => i = j
Apart(list, other) == \A i \in 1..Len(list), j \in 1..Len(other) : list[i] # other[j]

ListsOnce == Once(lk_wchan) /\ Once(cv_wchan) /\ \A t \in Thread : Once(private[t])
ListsApart ==
    \A t \in Thread :
        /\ Apart(private[t], lk_wchan)
        /\ Apart(private[t], cv_wchan)
        /\ \A u \in Thread : t # u => Apart(private[t], private[u])

Sleepers == LkSleepers /\ CvSleepers /\ PrivateSleepers /\ ListsOnce /\ ListsApart

\* The inductive invariant.
IInv == TypeOK /\ SpinOwner /\ LockOwner /\ FreeToTake /\ Sleepers

Lists == <<lk_wchan, cv_wchan, private>>

\* A thread that is awake is on no list: when it alone moves on, every list
\* still holds sleepers only.
LEMMA AwakeMoves ==
  ASSUME TypeOK, Sleepers, NEW t \in Thread, NEW label \in Label,
         pc[t] \notin {"asleep", "cvasleep"},
         Goto(t, label), UNCHANGED Lists
  PROVE  Sleepers'
  <1>1. LkSleepers'
    BY DEF TypeOK, Sleepers, LkSleepers, Goto, Lists
  <1>2. CvSleepers'
    BY DEF TypeOK, Sleepers, CvSleepers, Goto, Lists
  <1>3. PrivateSleepers'
    BY DEF TypeOK, Sleepers, PrivateSleepers, Goto, Lists
  <1>4. ListsOnce' /\ ListsApart'
    BY DEF Sleepers, ListsOnce, ListsApart, Once, Apart, Lists
  <1> QED
    BY <1>1, <1>2, <1>3, <1>4 DEF Sleepers

\* thread_make_runnable moves the first thread of the private list and nobody
\* else that sleeps.
LEMMA WakeMoves ==
  ASSUME TypeOK, Sleepers, NEW t \in Thread, NEW label \in Label,
         pc[t] \notin {"asleep", "cvasleep"}, label \notin {"asleep", "cvasleep"},
         Wake(t, label), UNCHANGED <<lk_wchan, cv_wchan>>
  PROVE  /\ Sleepers'
         /\ \E w \in Thread :
              /\ w # t /\ pc[w] \in {"asleep", "cvasleep"}
              /\ pc' \in [Thread -> Label]
              /\ private' \in [Thread -> Seq(Thread)]
              /\ pc'[w] = "acquire" /\ pc'[t] \in {pc[t], label}
              /\ \A u \in Thread \ {t, w} : pc'[u] = pc[u]
  <1> DEFINE s == private[t]
             w == Head(s)
  <1>1. s \in Seq(Thread) /\ s # <<>> /\ Len(s) \in Nat /\ Len(s) >= 1 /\ w = s[1] /\ w \in Thread
    BY DEF TypeOK, Wake
  <1>2. /\ Tail(s) \in Seq(Thread)
        /\ Len(Tail(s)) = Len(s) - 1
        /\ \A i \in 1..Len(Tail(s)) : Tail(s)[i] = s[i + 1] /\ i + 1 \in 1..Len(s)
    BY <1>1
  <1>3. pc[w] \in {"asleep", "cvasleep"} /\ w # t
    BY <1>1 DEF Sleepers, PrivateSleepers
  <1>4. /\ private' = [private EXCEPT ![t] = Tail(s)]
        /\ pc' = [pc EXCEPT ![w] = "acquire", ![t] = IF Tail(s) = <<>> THEN label ELSE @]
    BY DEF Wake
  <1> HIDE DEF w, s
  <1>5. /\ pc' \in [Thread -> Label]
        /\ pc'[w] = "acquire" /\ pc'[t] \in {pc[t], label}
        /\ \A u \in Thread \ {t, w} : pc'[u] = pc[u]
    BY <1>1, <1>3, <1>4 DEF TypeOK, Label
  <1>6. private' \in [Thread -> Seq(Thread)]
    BY <1>2, <1>4 DEF TypeOK
  <1>7. /\ private'[t] = Tail(s)
        /\ \A u \in Thread \ {t} : private'[u] = private[u]
    BY <1>4 DEF TypeOK
  <1>8. LkSleepers' /\ CvSleepers'
    <2>1. Apart(s, lk_wchan) /\ Apart(s, cv_wchan)
      BY DEF Sleepers, ListsApart, s
    <2>2. 1 \in 1..Len(s)
      BY <1>1
    <2>3. \A i \in 1..Len(lk_wchan) : lk_wchan[i] \in Thread \ {t, w}
      <3>1. \A i \in 1..Len(lk_wchan) : lk_wchan[i] # w
        BY <1>1, <2>1, <2>2 DEF Apart
      <3>2. \A i \in 1..Len(lk_wchan) : lk_wchan[i] \in Thread
        BY DEF TypeOK
      <3> QED
        BY <3>1, <3>2 DEF Sleepers, LkSleepers
    <2>4. \A i \in 1..Len(cv_wchan) : cv_wchan[i] \in Thread \ {t, w}
      <3>1. \A i \in 1..Len(cv_wchan) : cv_wchan[i] # w
        BY <1>1, <2>1, <2>2 DEF Apart
      <3>2. \A i \in 1..Len(cv_wchan) : cv_wchan[i] \in Thread
        BY DEF TypeOK
      <3> QED
        BY <3>1, <3>2 DEF Sleepers, CvSleepers
    <2> QED
      BY <1>5, <2>3, <2>4 DEF Sleepers, LkSleepers, CvSleepers
  <1>9. PrivateSleepers'
    <2> SUFFICES ASSUME NEW u \in Thread, NEW i \in 1..Len(private'[u])
                 PROVE  pc'[private'[u][i]] \in {"asleep", "cvasleep"}
      BY DEF PrivateSleepers
    <2>1. CASE u = t
      <3>1. private'[u][i] = s[i + 1] /\ i + 1 \in 1..Len(s)
        BY <1>2, <1>7, <2>1
      <3>2. s[i + 1] \in Thread \ {w}
        BY <1>1, <3>1 DEF Sleepers, ListsOnce, Once, s
      <3>3. pc[s[i + 1]] \in {"asleep", "cvasleep"}
        BY <3>1 DEF Sleepers, PrivateSleepers, s
      <3> QED
        BY <1>5, <3>1, <3>2, <3>3
    <2>2. CASE u # t
      <3>1. private'[u] = private[u] /\ i \in 1..Len(private[u])
        BY <1>7, <2>2
      <3>2. private[u][i] \in Thread \ {w}
        <4>1. Apart(private[u], s) /\ 1 \in 1..Len(s)
          BY <1>1, <2>2 DEF Sleepers, ListsApart, s
        <4>2. private[u][i] # w
          BY <1>1, <3>1, <4>1 DEF Apart
        <4>3. private[u] \in Seq(Thread)
          BY DEF TypeOK
        <4> QED
          BY <3>1, <4>2, <4>3
      <3>3. pc[private[u][i]] \in {"asleep", "cvasleep"}
        BY <3>1 DEF Sleepers, PrivateSleepers
      <3> QED
        BY <1>5, <3>1, <3>2, <3>3
    <2> QED
      BY <2>1, <2>2
  <1>10. ListsOnce'
    <2>1. Once(s)
      BY DEF Sleepers, ListsOnce, s
    <2>2. Once(Tail(s))
      BY <1>1, <1>2, <2>1 DEF Once
    <2> QED
      BY <1>7, <2>2 DEF Sleepers, ListsOnce, Once
  <1>11. ListsApart'
    <2>1. \A u \in Thread : /\ Apart(private[u], lk_wchan)
                            /\ Apart(private[u], cv_wchan)
                            /\ u # t => Apart(s, private[u]) /\ Apart(private[u], s)
      BY DEF Sleepers, ListsApart, s
    <2>2. Apart(Tail(s), lk_wchan) /\ Apart(Tail(s), cv_wchan)
      BY <1>2, <2>1 DEF Apart, s
    <2>3. \A u \in Thread \ {t} : Apart(Tail(s), private[u]) /\ Apart(private[u], Tail(s))
      BY <1>2, <2>1 DEF Apart
    <2> SUFFICES ASSUME NEW u \in Thread
                 PROVE  /\ Apart(private'[u], lk_wchan)
                        /\ Apart(private'[u], cv_wchan)
                        /\ \A v \in Thread : u # v => Apart(private'[u], private'[v])
      BY DEF ListsApart, Apart
    <2>4. CASE u = t
      BY <1>7, <2>2, <2>3, <2>4
    <2>5. CASE u # t
      BY <1>7, <2>1, <2>3, <2>5 DEF Sleepers, ListsApart
    <2> QED
      BY <2>4, <2>5
  <1> QED
    BY <1>3, <1>5, <1>6, <1>8, <1>9, <1>10, <1>11, <1>1 DEF Sleepers

\* a and b hold threads of list, each thread once, none in both.
Within(a, list) == \A i \in 1..Len(a) : \E k \in 1..Len(list) : a[i] = list[k]
Split(list, a, b) ==
    /\ a \in Seq(Thread) /\ b \in Seq(Thread)
    /\ Within(a, list) /\ Within(b, list)
    /\ Once(a) /\ Once(b) /\ Apart(a, b)

\* wchan_wakeone takes the first sleeper and leaves the others.
LEMMA FirstSplits ==
  ASSUME NEW list \in Seq(Thread), Once(list)
  PROVE  Split(list, First(list), ButFirst(list))
  <1>1. CASE list = <<>>
    BY <1>1 DEF Split, First, ButFirst, Within, Once, Apart
  <1>2. CASE list # <<>>
    <2> DEFINE a == First(list)
               b == ButFirst(list)
    <2>1. a \in Seq(Thread) /\ Len(a) = 1 /\ a[1] = list[1] /\ 1 \in 1..Len(list)
      BY <1>2 DEF First
    <2>2. /\ b \in Seq(Thread) /\ Len(b) = Len(list) - 1
          /\ \A i \in 1..Len(b) : i + 1 \in 1..Len(list) /\ b[i] = list[i + 1]
      BY <1>2 DEF ButFirst
    <2> HIDE DEF a, b
    <2>3. Within(a, list) /\ Within(b, list)
      BY <2>1, <2>2 DEF Within
    <2>4. Once(a)
      BY <2>1 DEF Once
    <2>5. Once(b)
      <3> SUFFICES ASSUME NEW i \in 1..Len(b), NEW j \in 1..Len(b), b[i] = b[j]
                   PROVE  i = j
        BY DEF Once
      <3>1. i \in Nat /\ j \in Nat
        BY <2>2
      <3>2. i + 1 \in 1..Len(list) /\ j + 1 \in 1..Len(list) /\ list[i + 1] = list[j + 1]
        BY <2>2
      <3>3. i + 1 = j + 1
        BY <3>2 DEF Once
      <3> QED
        BY <3>1, <3>3
    <2>6. Apart(a, b)
      BY <2>1, <2>2 DEF Once, Apart
    <2> QED
      BY <2>1, <2>2, <2>3, <2>4, <2>5, <2>6 DEF Split, a, b
  <1> QED
    BY <1>1, <1>2

\* wchan_wakeall takes them all.
LEMMA AllSplits ==
  ASSUME NEW list \in Seq(Thread), Once(list)
  PROVE  Split(list, list, <<>>)
  BY DEF Split, Within, Once, Apart

\* A wait channel gives some of its sleepers to the private list of a thread
\* that is awake.
LEMMA LkPicked ==
  ASSUME TypeOK, Sleepers, NEW t \in Thread, NEW label \in Label,
         pc[t] \notin {"asleep", "cvasleep"}, label \notin {"asleep", "cvasleep"},
         Goto(t, label), NEW a, NEW b, Split(lk_wchan, a, b),
         private' = [private EXCEPT ![t] = a], lk_wchan' = b, cv_wchan' = cv_wchan
  PROVE  Sleepers' /\ private' \in [Thread -> Seq(Thread)] /\ lk_wchan' \in Seq(Thread)
  <1>1. /\ a \in Seq(Thread) /\ b \in Seq(Thread)
        /\ Within(a, lk_wchan) /\ Within(b, lk_wchan)
        /\ Once(a) /\ Once(b) /\ Apart(a, b)
    BY DEF Split
  <1>2. /\ private' \in [Thread -> Seq(Thread)]
        /\ private'[t] = a
        /\ \A u \in Thread \ {t} : private'[u] = private[u]
    BY <1>1 DEF TypeOK
  <1>3. \A u \in Thread : pc[u] \in {"asleep", "cvasleep"} => pc'[u] = pc[u]
    BY DEF TypeOK, Goto
  <1>4. \A k \in 1..Len(lk_wchan) : lk_wchan[k] \in Thread /\ pc[lk_wchan[k]] = "asleep"
    BY DEF TypeOK, Sleepers, LkSleepers
  <1>5. \A k \in 1..Len(cv_wchan) : cv_wchan[k] \in Thread /\ pc[cv_wchan[k]] = "cvasleep"
    BY DEF TypeOK, Sleepers, CvSleepers
  <1>6. LkSleepers' /\ CvSleepers'
    <2>1. LkSleepers'
      BY <1>1, <1>3, <1>4, <1>5 DEF LkSleepers, Within
    <2>2. CvSleepers'
      BY <1>1, <1>3, <1>4, <1>5 DEF CvSleepers, Within
    <2> QED
      BY <2>1, <2>2
  <1>7. PrivateSleepers'
    <2> SUFFICES ASSUME NEW u \in Thread, NEW i \in 1..Len(private'[u])
                 PROVE  pc'[private'[u][i]] \in {"asleep", "cvasleep"}
      BY DEF PrivateSleepers
    <2>1. CASE u = t
      BY <1>1, <1>2, <1>3, <1>4, <2>1 DEF Within
    <2>2. CASE u # t
      <3>1. private'[u] = private[u] /\ private[u] \in Seq(Thread)
        BY <1>2, <2>2 DEF TypeOK
      <3>2. private[u][i] \in Thread /\ pc[private[u][i]] \in {"asleep", "cvasleep"}
        BY <3>1 DEF Sleepers, PrivateSleepers
      <3> QED
        BY <1>3, <3>1, <3>2
    <2> QED
      BY <2>1, <2>2
  <1>8. ListsOnce'
    <2>1. \A u \in Thread : Once(private'[u])
      BY <1>1, <1>2 DEF Sleepers, ListsOnce
    <2>2. Once(lk_wchan') /\ Once(cv_wchan')
      BY <1>1 DEF Sleepers, ListsOnce
    <2> QED
      BY <2>1, <2>2 DEF ListsOnce, Once
  <1>9. ListsApart'
    <2>1. \A u \in Thread : Apart(private[u], a) /\ Apart(a, private[u]) /\ Apart(private[u], b)
      <3>1. \A u \in Thread : Apart(private[u], lk_wchan)
        BY DEF Sleepers, ListsApart
      <3> QED
        BY <1>1, <3>1 DEF Apart, Within
    <2>2. Apart(a, cv_wchan)
      <3> SUFFICES ASSUME NEW i \in 1..Len(a), NEW j \in 1..Len(cv_wchan)
                   PROVE  a[i] # cv_wchan[j]
        BY DEF Apart
      <3>1. PICK k \in 1..Len(lk_wchan) : a[i] = lk_wchan[k]
        BY <1>1 DEF Within
      <3> QED
        BY <1>4, <1>5, <3>1
    <2>3. \A u \in Thread : /\ Apart(private'[u], lk_wchan')
                            /\ Apart(private'[u], cv_wchan')
      BY <1>1, <1>2, <2>1, <2>2 DEF Sleepers, ListsApart
    <2>4. \A u, v \in Thread : u # v => Apart(private'[u], private'[v])
      BY <1>2, <2>1 DEF Sleepers, ListsApart
    <2> QED
      BY <2>3, <2>4 DEF ListsApart, Apart
  <1> QED
    BY <1>1, <1>2, <1>6, <1>7, <1>8, <1>9 DEF Sleepers

\* A wait channel gives some of its sleepers to the private list of a thread
\* that is awake.
LEMMA CvPicked ==
  ASSUME TypeOK, Sleepers, NEW t \in Thread, NEW label \in Label,
         pc[t] \notin {"asleep", "cvasleep"}, label \notin {"asleep", "cvasleep"},
         Goto(t, label), NEW a, NEW b, Split(cv_wchan, a, b),
         private' = [private EXCEPT ![t] = a], cv_wchan' = b, lk_wchan' = lk_wchan
  PROVE  Sleepers' /\ private' \in [Thread -> Seq(Thread)] /\ cv_wchan' \in Seq(Thread)
  <1>1. /\ a \in Seq(Thread) /\ b \in Seq(Thread)
        /\ Within(a, cv_wchan) /\ Within(b, cv_wchan)
        /\ Once(a) /\ Once(b) /\ Apart(a, b)
    BY DEF Split
  <1>2. /\ private' \in [Thread -> Seq(Thread)]
        /\ private'[t] = a
        /\ \A u \in Thread \ {t} : private'[u] = private[u]
    BY <1>1 DEF TypeOK
  <1>3. \A u \in Thread : pc[u] \in {"asleep", "cvasleep"} => pc'[u] = pc[u]
    BY DEF TypeOK, Goto
  <1>4. \A k \in 1..Len(cv_wchan) : cv_wchan[k] \in Thread /\ pc[cv_wchan[k]] = "cvasleep"
    BY DEF TypeOK, Sleepers, CvSleepers
  <1>5. \A k \in 1..Len(lk_wchan) : lk_wchan[k] \in Thread /\ pc[lk_wchan[k]] = "asleep"
    BY DEF TypeOK, Sleepers, LkSleepers
  <1>6. LkSleepers' /\ CvSleepers'
    <2>1. LkSleepers'
      BY <1>1, <1>3, <1>4, <1>5 DEF LkSleepers, Within
    <2>2. CvSleepers'
      BY <1>1, <1>3, <1>4, <1>5 DEF CvSleepers, Within
    <2> QED
      BY <2>1, <2>2
  <1>7. PrivateSleepers'
    <2> SUFFICES ASSUME NEW u \in Thread, NEW i \in 1..Len(private'[u])
                 PROVE  pc'[private'[u][i]] \in {"asleep", "cvasleep"}
      BY DEF PrivateSleepers
    <2>1. CASE u = t
      BY <1>1, <1>2, <1>3, <1>4, <2>1 DEF Within
    <2>2. CASE u # t
      <3>1. private'[u] = private[u] /\ private[u] \in Seq(Thread)
        BY <1>2, <2>2 DEF TypeOK
      <3>2. private[u][i] \in Thread /\ pc[private[u][i]] \in {"asleep", "cvasleep"}
        BY <3>1 DEF Sleepers, PrivateSleepers
      <3> QED
        BY <1>3, <3>1, <3>2
    <2> QED
      BY <2>1, <2>2
  <1>8. ListsOnce'
    <2>1. \A u \in Thread : Once(private'[u])
      BY <1>1, <1>2 DEF Sleepers, ListsOnce
    <2>2. Once(cv_wchan') /\ Once(lk_wchan')
      BY <1>1 DEF Sleepers, ListsOnce
    <2> QED
      BY <2>1, <2>2 DEF ListsOnce, Once
  <1>9. ListsApart'
    <2>1. \A u \in Thread : Apart(private[u], a) /\ Apart(a, private[u]) /\ Apart(private[u], b)
      <3>1. \A u \in Thread : Apart(private[u], cv_wchan)
        BY DEF Sleepers, ListsApart
      <3> QED
        BY <1>1, <3>1 DEF Apart, Within
    <2>2. Apart(a, lk_wchan)
      <3> SUFFICES ASSUME NEW i \in 1..Len(a), NEW j \in 1..Len(lk_wchan)
                   PROVE  a[i] # lk_wchan[j]
        BY DEF Apart
      <3>1. PICK k \in 1..Len(cv_wchan) : a[i] = cv_wchan[k]
        BY <1>1 DEF Within
      <3> QED
        BY <1>4, <1>5, <3>1
    <2>3. \A u \in Thread : /\ Apart(private'[u], cv_wchan')
                            /\ Apart(private'[u], lk_wchan')
      BY <1>1, <1>2, <2>1, <2>2 DEF Sleepers, ListsApart
    <2>4. \A u, v \in Thread : u # v => Apart(private'[u], private'[v])
      BY <1>2, <2>1 DEF Sleepers, ListsApart
    <2> QED
      BY <2>3, <2>4 DEF ListsApart, Apart
  <1> QED
    BY <1>1, <1>2, <1>6, <1>7, <1>8, <1>9 DEF Sleepers

\* A thread that is awake goes to sleep at the end of a wait channel.
LEMMA LkSlept ==
  ASSUME TypeOK, Sleepers, NEW t \in Thread,
         pc[t] \notin {"asleep", "cvasleep"}, Goto(t, "asleep"),
         lk_wchan' = Append(lk_wchan, t), cv_wchan' = cv_wchan, private' = private
  PROVE  Sleepers' /\ lk_wchan' \in Seq(Thread)
  <1>1. /\ lk_wchan' \in Seq(Thread)
        /\ Len(lk_wchan') = Len(lk_wchan) + 1 /\ Len(lk_wchan) \in Nat
        /\ \A i \in 1..Len(lk_wchan') :
             \/ i \in 1..Len(lk_wchan) /\ lk_wchan'[i] = lk_wchan[i]
             \/ i = Len(lk_wchan) + 1 /\ lk_wchan'[i] = t
    BY DEF TypeOK
  <1>2. \A i \in 1..Len(lk_wchan) : lk_wchan[i] \in Thread \ {t} /\ pc[lk_wchan[i]] = "asleep"
    BY DEF TypeOK, Sleepers, LkSleepers
  <1>3. \A i \in 1..Len(cv_wchan) : cv_wchan[i] \in Thread \ {t}
    BY DEF TypeOK, Sleepers, CvSleepers
  <1>4. \A u \in Thread : \A i \in 1..Len(private[u]) : private[u][i] \in Thread \ {t}
    BY DEF TypeOK, Sleepers, PrivateSleepers
  <1>5. pc'[t] = "asleep" /\ \A u \in Thread \ {t} : pc'[u] = pc[u]
    BY DEF TypeOK, Goto, Label
  <1>6. LkSleepers' /\ CvSleepers' /\ PrivateSleepers'
    BY <1>1, <1>2, <1>3, <1>4, <1>5 DEF Sleepers, LkSleepers, CvSleepers, PrivateSleepers
  <1>7. ListsOnce'
    <2>1. Once(lk_wchan')
      BY <1>1, <1>2 DEF Sleepers, ListsOnce, Once
    <2> QED
      BY <2>1 DEF Sleepers, ListsOnce, Once
  <1>8. ListsApart'
    <2>1. \A u \in Thread : Apart(private[u], lk_wchan')
      BY <1>1, <1>4 DEF Sleepers, ListsApart, Apart
    <2> QED
      BY <2>1 DEF Sleepers, ListsApart, Apart
  <1> QED
    BY <1>1, <1>6, <1>7, <1>8 DEF Sleepers

\* A thread that is awake goes to sleep at the end of a wait channel.
LEMMA CvSlept ==
  ASSUME TypeOK, Sleepers, NEW t \in Thread,
         pc[t] \notin {"asleep", "cvasleep"}, Goto(t, "cvasleep"),
         cv_wchan' = Append(cv_wchan, t), lk_wchan' = lk_wchan, private' = private
  PROVE  Sleepers' /\ cv_wchan' \in Seq(Thread)
  <1>1. /\ cv_wchan' \in Seq(Thread)
        /\ Len(cv_wchan') = Len(cv_wchan) + 1 /\ Len(cv_wchan) \in Nat
        /\ \A i \in 1..Len(cv_wchan') :
             \/ i \in 1..Len(cv_wchan) /\ cv_wchan'[i] = cv_wchan[i]
             \/ i = Len(cv_wchan) + 1 /\ cv_wchan'[i] = t
    BY DEF TypeOK
  <1>2. \A i \in 1..Len(cv_wchan) : cv_wchan[i] \in Thread \ {t} /\ pc[cv_wchan[i]] = "cvasleep"
    BY DEF TypeOK, Sleepers, CvSleepers
  <1>3. \A i \in 1..Len(lk_wchan) : lk_wchan[i] \in Thread \ {t}
    BY DEF TypeOK, Sleepers, LkSleepers
  <1>4. \A u \in Thread : \A i \in 1..Len(private[u]) : private[u][i] \in Thread \ {t}
    BY DEF TypeOK, Sleepers, PrivateSleepers
  <1>5. pc'[t] = "cvasleep" /\ \A u \in Thread \ {t} : pc'[u] = pc[u]
    BY DEF TypeOK, Goto, Label
  <1>6. LkSleepers' /\ CvSleepers' /\ PrivateSleepers'
    BY <1>1, <1>2, <1>3, <1>4, <1>5 DEF Sleepers, LkSleepers, CvSleepers, PrivateSleepers
  <1>7. ListsOnce'
    <2>1. Once(cv_wchan')
      BY <1>1, <1>2 DEF Sleepers, ListsOnce, Once
    <2> QED
      BY <2>1 DEF Sleepers, ListsOnce, Once
  <1>8. ListsApart'
    <2>1. \A u \in Thread : Apart(private[u], cv_wchan')
      BY <1>1, <1>4 DEF Sleepers, ListsApart, Apart
    <2> QED
      BY <2>1 DEF Sleepers, ListsApart, Apart
  <1> QED
    BY <1>1, <1>6, <1>7, <1>8 DEF Sleepers

\* Who owns what at each place in the code.
Owners == SpinOwner /\ LockOwner /\ FreeToTake

\* No lock has a holder when the machine starts.
LEMMA InitIInv == Init => IInv
  BY ThreadAssumption
     DEF Init, IInv, TypeOK, Label, SpinOwner, Spinning, LockOwner, Owning, FreeToTake,
         Sleepers, LkSleepers, CvSleepers, PrivateSleepers, ListsOnce, ListsApart, Once, Apart

\* Every step keeps the inductive invariant.
LEMMA NextIInv == IInv /\ [Next]_vars => IInv'
  <1> SUFFICES ASSUME IInv, [Next]_vars
               PROVE  TypeOK' /\ Owners' /\ Sleepers'
    BY DEF IInv, Owners
  <1> USE ThreadAssumption
  <1>0. TypeOK /\ Owners /\ Sleepers
    BY DEF IInv, Owners
  <1>1. ASSUME NEW t \in Thread, AcquireCall(t)
        PROVE  TypeOK' /\ Owners' /\ Sleepers'
    <2>1. TypeOK'
      BY <1>0, <1>1 DEF AcquireCall, Goto, TypeOK, Label, spinlock_acquire, spinlock_release
    <2>2. Owners'
      BY <1>0, <1>1 DEF AcquireCall, Goto, TypeOK, spinlock_acquire, spinlock_release,
                        SpinOwner, Spinning, LockOwner, Owning, FreeToTake, Owners
    <2>3. Sleepers'
      BY <1>0, <1>1, AwakeMoves DEF AcquireCall, Goto, Lists, Label
    <2> QED
      BY <2>1, <2>2, <2>3
  <1>2. ASSUME NEW t \in Thread, AcquireSpin(t)
        PROVE  TypeOK' /\ Owners' /\ Sleepers'
    <2>1. TypeOK'
      BY <1>0, <1>2 DEF AcquireSpin, Goto, TypeOK, Label, spinlock_acquire, spinlock_release
    <2>2. Owners'
      BY <1>0, <1>2 DEF AcquireSpin, Goto, TypeOK, spinlock_acquire, spinlock_release,
                        SpinOwner, Spinning, LockOwner, Owning, FreeToTake, Owners
    <2>3. Sleepers'
      BY <1>0, <1>2, AwakeMoves DEF AcquireSpin, Goto, Lists, Label
    <2> QED
      BY <2>1, <2>2, <2>3
  <1>3. ASSUME NEW t \in Thread, AcquireTest(t)
        PROVE  TypeOK' /\ Owners' /\ Sleepers'
    <2>1. TypeOK'
      BY <1>0, <1>3 DEF AcquireTest, Goto, TypeOK, Label, spinlock_acquire, spinlock_release
    <2>2. Owners'
      BY <1>0, <1>3 DEF AcquireTest, Goto, TypeOK, spinlock_acquire, spinlock_release,
                        SpinOwner, Spinning, LockOwner, Owning, FreeToTake, Owners
    <2>3. Sleepers'
      BY <1>0, <1>3, AwakeMoves DEF AcquireTest, Goto, Lists, Label
    <2> QED
      BY <2>1, <2>2, <2>3
  <1>4. ASSUME NEW t \in Thread, AcquireTake(t)
        PROVE  TypeOK' /\ Owners' /\ Sleepers'
    <2>1. TypeOK'
      BY <1>0, <1>4 DEF AcquireTake, Goto, TypeOK, Label, spinlock_acquire, spinlock_release
    <2>2. Owners'
      BY <1>0, <1>4 DEF AcquireTake, Goto, TypeOK, spinlock_acquire, spinlock_release,
                        SpinOwner, Spinning, LockOwner, Owning, FreeToTake, Owners
    <2>3. Sleepers'
      BY <1>0, <1>4, AwakeMoves DEF AcquireTake, Goto, Lists, Label
    <2> QED
      BY <2>1, <2>2, <2>3
  <1>5. ASSUME NEW t \in Thread, AcquireReturn(t)
        PROVE  TypeOK' /\ Owners' /\ Sleepers'
    <2>1. TypeOK'
      BY <1>0, <1>5 DEF AcquireReturn, Goto, TypeOK, Label, spinlock_acquire, spinlock_release
    <2>2. Owners'
      BY <1>0, <1>5 DEF AcquireReturn, Goto, TypeOK, spinlock_acquire, spinlock_release,
                        SpinOwner, Spinning, LockOwner, Owning, FreeToTake, Owners
    <2>3. Sleepers'
      BY <1>0, <1>5, AwakeMoves DEF AcquireReturn, Goto, Lists, Label
    <2> QED
      BY <2>1, <2>2, <2>3
  <1>6. ASSUME NEW t \in Thread, AcquireBridge(t)
        PROVE  TypeOK' /\ Owners' /\ Sleepers'
    <2>1. TypeOK'
      BY <1>0, <1>6 DEF AcquireBridge, Goto, TypeOK, Label, spinlock_acquire, spinlock_release
    <2>2. Owners'
      BY <1>0, <1>6 DEF AcquireBridge, Goto, TypeOK, spinlock_acquire, spinlock_release,
                        SpinOwner, Spinning, LockOwner, Owning, FreeToTake, Owners
    <2>3. Sleepers'
      BY <1>0, <1>6, AwakeMoves DEF AcquireBridge, Goto, Lists, Label
    <2> QED
      BY <2>1, <2>2, <2>3
  <1>7. ASSUME NEW t \in Thread, AcquireUnspin(t)
        PROVE  TypeOK' /\ Owners' /\ Sleepers'
    <2>1. TypeOK'
      BY <1>0, <1>7 DEF AcquireUnspin, Goto, TypeOK, Label, spinlock_acquire, spinlock_release
    <2>2. Owners'
      BY <1>0, <1>7 DEF AcquireUnspin, Goto, TypeOK, spinlock_acquire, spinlock_release,
                        SpinOwner, Spinning, LockOwner, Owning, FreeToTake, Owners
    <2>3. Sleepers'
      BY <1>0, <1>7, AwakeMoves DEF AcquireUnspin, Goto, Lists, Label
    <2> QED
      BY <2>1, <2>2, <2>3
  <1>8. ASSUME NEW t \in Thread, AcquireSleep(t)
        PROVE  TypeOK' /\ Owners' /\ Sleepers'
    <2>1. Sleepers' /\ lk_wchan' \in Seq(Thread)
      BY <1>0, <1>8, LkSlept DEF AcquireSleep
    <2>2. TypeOK'
      BY <1>0, <1>8, <2>1 DEF AcquireSleep, Goto, TypeOK, Label, spinlock_release
    <2>3. Owners'
      BY <1>0, <1>8 DEF AcquireSleep, Goto, TypeOK, SpinOwner, Spinning, LockOwner, Owning, FreeToTake, Owners
    <2> QED
      BY <2>1, <2>2, <2>3
  <1>9. ASSUME NEW t \in Thread, ReleaseCall(t)
        PROVE  TypeOK' /\ Owners' /\ Sleepers'
    <2>1. TypeOK'
      BY <1>0, <1>9 DEF ReleaseCall, Goto, TypeOK, Label, spinlock_acquire, spinlock_release
    <2>2. Owners'
      BY <1>0, <1>9 DEF ReleaseCall, Goto, TypeOK, spinlock_acquire, spinlock_release,
                        SpinOwner, Spinning, LockOwner, Owning, FreeToTake, Owners
    <2>3. Sleepers'
      BY <1>0, <1>9, AwakeMoves DEF ReleaseCall, Goto, Lists, Label
    <2> QED
      BY <2>1, <2>2, <2>3
  <1>10. ASSUME NEW t \in Thread, ReleaseSpin(t)
        PROVE  TypeOK' /\ Owners' /\ Sleepers'
    <2>1. TypeOK'
      BY <1>0, <1>10 DEF ReleaseSpin, Goto, TypeOK, Label, spinlock_acquire, spinlock_release
    <2>2. Owners'
      BY <1>0, <1>10 DEF ReleaseSpin, Goto, TypeOK, spinlock_acquire, spinlock_release,
                        SpinOwner, Spinning, LockOwner, Owning, FreeToTake, Owners
    <2>3. Sleepers'
      BY <1>0, <1>10, AwakeMoves DEF ReleaseSpin, Goto, Lists, Label
    <2> QED
      BY <2>1, <2>2, <2>3
  <1>11. ASSUME NEW t \in Thread, ReleaseClear(t)
        PROVE  TypeOK' /\ Owners' /\ Sleepers'
    <2>1. TypeOK'
      BY <1>0, <1>11 DEF ReleaseClear, Goto, TypeOK, Label, spinlock_acquire, spinlock_release
    <2>2. Owners'
      BY <1>0, <1>11 DEF ReleaseClear, Goto, TypeOK, spinlock_acquire, spinlock_release,
                        SpinOwner, Spinning, LockOwner, Owning, FreeToTake, Owners
    <2>3. Sleepers'
      BY <1>0, <1>11, AwakeMoves DEF ReleaseClear, Goto, Lists, Label
    <2> QED
      BY <2>1, <2>2, <2>3
  <1>12. ASSUME NEW t \in Thread, ReleasePick(t)
        PROVE  TypeOK' /\ Owners' /\ Sleepers'
    <2> DEFINE label == IF lk_wchan = <<>> THEN "unspin" ELSE "wake"
    <2>1. Split(lk_wchan, First(lk_wchan), ButFirst(lk_wchan))
      BY <1>0, FirstSplits DEF TypeOK, Sleepers, ListsOnce
    <2>2. /\ label \in Label \ {"asleep", "cvasleep"} /\ Goto(t, label)
          /\ pc[t] \notin {"asleep", "cvasleep"}
          /\ private' = [private EXCEPT ![t] = First(lk_wchan)]
          /\ lk_wchan' = ButFirst(lk_wchan)
          /\ cv_wchan' = cv_wchan
      BY <1>12 DEF ReleasePick, Label
    <2>3. Sleepers' /\ private' \in [Thread -> Seq(Thread)] /\ lk_wchan' \in Seq(Thread)
      <3> HIDE DEF label
      <3> QED
        BY <1>0, <2>1, <2>2, LkPicked
    <2>4. TypeOK'
      BY <1>0, <1>12, <2>3 DEF ReleasePick, Goto, TypeOK, Label
    <2>5. Owners'
      BY <1>0, <1>12 DEF ReleasePick, Goto, TypeOK, SpinOwner, Spinning, LockOwner, Owning, FreeToTake, Owners
    <2> QED
      BY <2>3, <2>4, <2>5
  <1>13. ASSUME NEW t \in Thread, ReleaseWake(t)
        PROVE  TypeOK' /\ Owners' /\ Sleepers'
    <2>1. /\ "unspin" \in Label /\ Wake(t, "unspin")
          /\ pc[t] = "wake"
          /\ UNCHANGED <<lk_holder, lk_lock, lk_wc_lock, lk_wchan, cv_wc_lock, cv_wchan, in_wait>>
      BY <1>13 DEF ReleaseWake, Label
    <2>2. Sleepers'
      BY <1>0, <2>1, WakeMoves
    <2>3. PICK w \in Thread :
            /\ w # t /\ pc[w] \in {"asleep", "cvasleep"}
            /\ pc' \in [Thread -> Label]
            /\ private' \in [Thread -> Seq(Thread)]
            /\ pc'[w] = "acquire" /\ pc'[t] \in {pc[t], "unspin"}
            /\ \A u \in Thread \ {t, w} : pc'[u] = pc[u]
      BY <1>0, <2>1, WakeMoves
    <2>4. TypeOK'
      BY <1>0, <2>1, <2>3 DEF TypeOK
    <2>5. Owners'
      <3>1. SpinOwner'
        BY <1>0, <2>1, <2>3 DEF Owners, SpinOwner, Spinning
      <3>2. LockOwner'
        BY <1>0, <2>1, <2>3 DEF Owners, LockOwner, Owning
      <3>3. FreeToTake'
        BY <1>0, <2>1, <2>3 DEF Owners, FreeToTake
      <3> QED
        BY <3>1, <3>2, <3>3 DEF Owners
    <2> QED
      BY <2>2, <2>4, <2>5
  <1>14. ASSUME NEW t \in Thread, ReleaseReturn(t)
        PROVE  TypeOK' /\ Owners' /\ Sleepers'
    <2>1. TypeOK'
      BY <1>0, <1>14 DEF ReleaseReturn, Goto, TypeOK, Label, spinlock_acquire, spinlock_release
    <2>2. Owners'
      BY <1>0, <1>14 DEF ReleaseReturn, Goto, TypeOK, spinlock_acquire, spinlock_release,
                        SpinOwner, Spinning, LockOwner, Owning, FreeToTake, Owners
    <2>3. Sleepers'
      BY <1>0, <1>14, AwakeMoves DEF ReleaseReturn, Goto, Lists, Label
    <2> QED
      BY <2>1, <2>2, <2>3
  <1>15. ASSUME NEW t \in Thread, WaitLock(t)
        PROVE  TypeOK' /\ Owners' /\ Sleepers'
    <2>1. TypeOK'
      BY <1>0, <1>15 DEF WaitLock, Goto, TypeOK, Label, spinlock_acquire, spinlock_release
    <2>2. Owners'
      BY <1>0, <1>15 DEF WaitLock, Goto, TypeOK, spinlock_acquire, spinlock_release,
                        SpinOwner, Spinning, LockOwner, Owning, FreeToTake, Owners
    <2>3. Sleepers'
      BY <1>0, <1>15, AwakeMoves DEF WaitLock, Goto, Lists, Label
    <2> QED
      BY <2>1, <2>2, <2>3
  <1>16. ASSUME NEW t \in Thread, WaitSleep(t)
        PROVE  TypeOK' /\ Owners' /\ Sleepers'
    <2>1. Sleepers' /\ cv_wchan' \in Seq(Thread)
      BY <1>0, <1>16, CvSlept DEF WaitSleep
    <2>2. TypeOK'
      BY <1>0, <1>16, <2>1 DEF WaitSleep, Goto, TypeOK, Label, spinlock_release
    <2>3. Owners'
      BY <1>0, <1>16 DEF WaitSleep, Goto, TypeOK, SpinOwner, Spinning, LockOwner, Owning, FreeToTake, Owners
    <2> QED
      BY <2>1, <2>2, <2>3
  <1>17. ASSUME NEW t \in Thread, NotifyCall(t, "signal")
        PROVE  TypeOK' /\ Owners' /\ Sleepers'
    <2>1. TypeOK'
      BY <1>0, <1>17 DEF NotifyCall, Goto, TypeOK, Label, spinlock_acquire, spinlock_release
    <2>2. Owners'
      BY <1>0, <1>17 DEF NotifyCall, Goto, TypeOK, spinlock_acquire, spinlock_release,
                        SpinOwner, Spinning, LockOwner, Owning, FreeToTake, Owners
    <2>3. Sleepers'
      BY <1>0, <1>17, AwakeMoves DEF NotifyCall, Goto, Lists, Label
    <2> QED
      BY <2>1, <2>2, <2>3
  <1>18. ASSUME NEW t \in Thread, NotifyCall(t, "broadcast")
        PROVE  TypeOK' /\ Owners' /\ Sleepers'
    <2>1. TypeOK'
      BY <1>0, <1>18 DEF NotifyCall, Goto, TypeOK, Label, spinlock_acquire, spinlock_release
    <2>2. Owners'
      BY <1>0, <1>18 DEF NotifyCall, Goto, TypeOK, spinlock_acquire, spinlock_release,
                        SpinOwner, Spinning, LockOwner, Owning, FreeToTake, Owners
    <2>3. Sleepers'
      BY <1>0, <1>18, AwakeMoves DEF NotifyCall, Goto, Lists, Label
    <2> QED
      BY <2>1, <2>2, <2>3
  <1>19. ASSUME NEW t \in Thread, SignalPick(t)
        PROVE  TypeOK' /\ Owners' /\ Sleepers'
    <2> DEFINE label == IF cv_wchan = <<>> THEN "in" ELSE "notify"
    <2>1. Split(cv_wchan, First(cv_wchan), ButFirst(cv_wchan))
      BY <1>0, FirstSplits DEF TypeOK, Sleepers, ListsOnce
    <2>2. /\ label \in Label \ {"asleep", "cvasleep"} /\ Goto(t, label)
          /\ pc[t] \notin {"asleep", "cvasleep"}
          /\ private' = [private EXCEPT ![t] = First(cv_wchan)]
          /\ cv_wchan' = ButFirst(cv_wchan)
          /\ lk_wchan' = lk_wchan
      BY <1>19 DEF SignalPick, Label
    <2>3. Sleepers' /\ private' \in [Thread -> Seq(Thread)] /\ cv_wchan' \in Seq(Thread)
      <3> HIDE DEF label
      <3> QED
        BY <1>0, <2>1, <2>2, CvPicked
    <2>4. TypeOK'
      BY <1>0, <1>19, <2>3 DEF SignalPick, Goto, TypeOK, Label
    <2>5. Owners'
      BY <1>0, <1>19 DEF SignalPick, Goto, TypeOK, SpinOwner, Spinning, LockOwner, Owning, FreeToTake, Owners
    <2> QED
      BY <2>3, <2>4, <2>5
  <1>20. ASSUME NEW t \in Thread, BroadcastPick(t)
        PROVE  TypeOK' /\ Owners' /\ Sleepers'
    <2> DEFINE label == IF cv_wchan = <<>> THEN "in" ELSE "notify"
    <2>1. Split(cv_wchan, cv_wchan, <<>>)
      BY <1>0, AllSplits DEF TypeOK, Sleepers, ListsOnce
    <2>2. /\ label \in Label \ {"asleep", "cvasleep"} /\ Goto(t, label)
          /\ pc[t] \notin {"asleep", "cvasleep"}
          /\ private' = [private EXCEPT ![t] = cv_wchan]
          /\ cv_wchan' = <<>>
          /\ lk_wchan' = lk_wchan
      BY <1>20 DEF BroadcastPick, Label
    <2>3. Sleepers' /\ private' \in [Thread -> Seq(Thread)] /\ cv_wchan' \in Seq(Thread)
      <3> HIDE DEF label
      <3> QED
        BY <1>0, <2>1, <2>2, CvPicked
    <2>4. TypeOK'
      BY <1>0, <1>20, <2>3 DEF BroadcastPick, Goto, TypeOK, Label
    <2>5. Owners'
      BY <1>0, <1>20 DEF BroadcastPick, Goto, TypeOK, SpinOwner, Spinning, LockOwner, Owning, FreeToTake, Owners
    <2> QED
      BY <2>3, <2>4, <2>5
  <1>21. ASSUME NEW t \in Thread, NotifyWake(t)
        PROVE  TypeOK' /\ Owners' /\ Sleepers'
    <2>1. /\ "in" \in Label /\ Wake(t, "in")
          /\ pc[t] = "notify"
          /\ UNCHANGED <<lk_holder, lk_lock, lk_wc_lock, lk_wchan, cv_wc_lock, cv_wchan, in_wait>>
      BY <1>21 DEF NotifyWake, Label
    <2>2. Sleepers'
      BY <1>0, <2>1, WakeMoves
    <2>3. PICK w \in Thread :
            /\ w # t /\ pc[w] \in {"asleep", "cvasleep"}
            /\ pc' \in [Thread -> Label]
            /\ private' \in [Thread -> Seq(Thread)]
            /\ pc'[w] = "acquire" /\ pc'[t] \in {pc[t], "in"}
            /\ \A u \in Thread \ {t, w} : pc'[u] = pc[u]
      BY <1>0, <2>1, WakeMoves
    <2>4. TypeOK'
      BY <1>0, <2>1, <2>3 DEF TypeOK
    <2>5. Owners'
      <3>1. SpinOwner'
        BY <1>0, <2>1, <2>3 DEF Owners, SpinOwner, Spinning
      <3>2. LockOwner'
        BY <1>0, <2>1, <2>3 DEF Owners, LockOwner, Owning
      <3>3. FreeToTake'
        BY <1>0, <2>1, <2>3 DEF Owners, FreeToTake
      <3> QED
        BY <3>1, <3>2, <3>3 DEF Owners
    <2> QED
      BY <2>2, <2>4, <2>5
  <1>22. CASE UNCHANGED vars
    BY <1>0, <1>22
       DEF vars, TypeOK, SpinOwner, Spinning, LockOwner, Owning, FreeToTake, Owners,
           Sleepers, LkSleepers, CvSleepers, PrivateSleepers, ListsOnce, ListsApart, Once, Apart
  <1> QED
    BY <1>1, <1>2, <1>3, <1>4, <1>5, <1>6, <1>7, <1>8, <1>9, <1>10, <1>11, <1>12, <1>13, <1>14, <1>15, <1>16, <1>17, <1>18, <1>19, <1>20, <1>21,
       <1>22 DEF Next, Kernel, Use

\* The inductive invariant holds in every reachable state of lock_acquire,
\* lock_release, cv_wait, cv_signal and cv_broadcast, for any set of threads.
THEOREM SynchInvariant == Spec => []IInv
  BY InitIInv, NextIInv, PTL DEF Spec

\* Mutual exclusion (synch.c:202-253): lk_lock makes the test and the taking
\* of lk_holder one step, so the lock has one holder at a time, for any set of
\* threads and any mix of lock and condition variable calls.
THEOREM MutualExclusionThm == Spec => []MutualExclusion
  <1>1. IInv => MutualExclusion
    BY ThreadAssumption DEF IInv, LockOwner, Owning, MutualExclusion, Inside
  <1> QED
    BY <1>1, SynchInvariant, PTL

-----------------------------------------------------------------------------
(* Synch implements Monitor.  What the invariant above does not say, and the *)
(* refinement needs, is that a thread in cv_wait keeps the channel locked    *)
(* from before it gives the lock up until it is on the list: a cv_signal     *)
(* that finds the list empty is a cv_signal with no waiter.                  *)

\* Places of cv_wait between wchan_lock and the end of wchan_sleep.
Waiting == {"release", "clear", "wakeone", "wake", "unspin", "cvsleep"}

WcOwner ==
    \A t \in Thread :
        /\ in_wait[t] => pc[t] \in Waiting /\ cv_wc_lock = t
        /\ pc[t] = "cvsleep" => in_wait[t]

RInv == IInv /\ WcOwner

\* No thread is inside an operation at the start.
LEMMA InitRInv == Init => RInv
  BY InitIInv DEF Init, RInv, WcOwner

\* cv_wait keeps wc_lock across lock_release, and nobody else drops it.
LEMMA NextWcOwner ==
  ASSUME RInv, [Next]_vars
  PROVE  WcOwner'
  <1> USE ThreadAssumption
  <1>0. TypeOK /\ WcOwner /\ Sleepers
    BY DEF RInv, IInv
  <1>1. ASSUME NEW t \in Thread, AcquireCall(t) \/ AcquireSpin(t) \/ AcquireTest(t) \/ AcquireTake(t)
                                 \/ AcquireReturn(t) \/ AcquireBridge(t) \/ AcquireUnspin(t)
                                 \/ AcquireSleep(t)
        PROVE  WcOwner'
    BY <1>0, <1>1 DEF AcquireCall, AcquireSpin, AcquireTest, AcquireTake, AcquireReturn,
         AcquireBridge, AcquireUnspin, AcquireSleep, Goto, TypeOK, WcOwner, Waiting
  <1>2. ASSUME NEW t \in Thread, ReleaseCall(t) \/ ReleaseSpin(t) \/ ReleaseClear(t)
                                 \/ ReleasePick(t) \/ ReleaseReturn(t)
        PROVE  WcOwner'
    BY <1>0, <1>2 DEF ReleaseCall, ReleaseSpin, ReleaseClear, ReleasePick, ReleaseReturn,
         Goto, TypeOK, WcOwner, Waiting
  <1>3. ASSUME NEW t \in Thread, WaitLock(t) \/ WaitSleep(t)
        PROVE  WcOwner'
    BY <1>0, <1>3 DEF WaitLock, WaitSleep, Goto, TypeOK, WcOwner, Waiting,
         spinlock_acquire, spinlock_release
  <1>4. ASSUME NEW t \in Thread, NotifyCall(t, "signal") \/ NotifyCall(t, "broadcast")
                                 \/ SignalPick(t) \/ BroadcastPick(t)
        PROVE  WcOwner'
    BY <1>0, <1>4 DEF NotifyCall, SignalPick, BroadcastPick, Goto, TypeOK, WcOwner, Waiting
  <1>5. ASSUME NEW t \in Thread, ReleaseWake(t)
        PROVE  WcOwner'
    <2>1. /\ "unspin" \in Label /\ Wake(t, "unspin") /\ pc[t] = "wake"
          /\ UNCHANGED <<lk_wchan, cv_wchan, in_wait, cv_wc_lock>>
      BY <1>5 DEF ReleaseWake, Label
    <2>2. PICK w \in Thread :
            /\ w # t /\ pc[w] \in {"asleep", "cvasleep"}
            /\ pc'[w] = "acquire" /\ pc'[t] \in {pc[t], "unspin"}
            /\ \A u \in Thread \ {t, w} : pc'[u] = pc[u]
      BY <1>0, <2>1, WakeMoves
    <2> QED
      BY <1>0, <2>1, <2>2 DEF WcOwner, Waiting
  <1>6. ASSUME NEW t \in Thread, NotifyWake(t)
        PROVE  WcOwner'
    <2>1. /\ "in" \in Label /\ Wake(t, "in") /\ pc[t] = "notify"
          /\ UNCHANGED <<lk_wchan, cv_wchan, in_wait, cv_wc_lock>>
      BY <1>6 DEF NotifyWake, Label
    <2>2. PICK w \in Thread :
            /\ w # t /\ pc[w] \in {"asleep", "cvasleep"}
            /\ pc'[w] = "acquire" /\ pc'[t] \in {pc[t], "in"}
            /\ \A u \in Thread \ {t, w} : pc'[u] = pc[u]
      BY <1>0, <2>1, WakeMoves
    <2> QED
      BY <1>0, <2>1, <2>2 DEF WcOwner, Waiting
  <1>7. CASE UNCHANGED vars
    BY <1>0, <1>7 DEF vars, WcOwner
  <1> QED
    BY <1>1, <1>2, <1>3, <1>4, <1>5, <1>6, <1>7 DEF Next, Kernel, Use

\* The strengthened invariant holds in every reachable state.
THEOREM SynchRInv == Spec => []RInv
  <1>1. RInv /\ [Next]_vars => RInv'
    BY NextIInv, NextWcOwner DEF RInv
  <1> QED
    BY <1>1, InitRInv, PTL DEF Spec

-----------------------------------------------------------------------------
\* The monitor state that a state of synch.c stands for.
St == [t \in Thread |-> Standing(t)]

\* A step that changes one thread's place and no cv_wchan changes at most that
\* thread's standing.
LEMMA OneMoves ==
  ASSUME TypeOK, NEW t \in Thread, NEW label \in Label, Goto(t, label),
         cv_wchan' = cv_wchan, \A u \in Thread \ {t} : in_wait'[u] = in_wait[u]
  PROVE  St' = [St EXCEPT ![t] = Standing(t)']
  <1>1. \A u \in Thread \ {t} : pc'[u] = pc[u]
    BY DEF TypeOK, Goto
  <1>2. \A u \in Thread \ {t} : Standing(u)' = Standing(u)
    BY <1>1 DEF Standing
  <1> QED
    BY <1>2 DEF St

\* Steps of the monitor, in terms of St.
LEMMA MonitorStep ==
  ASSUME NEW t \in Thread,
         \/ Standing(t) = "out" /\ St' = [St EXCEPT ![t] = "enter"] /\ lk_holder' = lk_holder
         \/ /\ Standing(t) = "enter" /\ lk_holder = None
            /\ lk_holder' = t /\ St' = [St EXCEPT ![t] = "in"]
         \/ /\ Standing(t) = "in" /\ lk_holder = t /\ lk_holder' = None
            /\ St' = [St EXCEPT ![t] = "out"] \/ St' = [St EXCEPT ![t] = "wait"]
         \/ /\ Standing(t) = "in" /\ lk_holder = t /\ lk_holder' = lk_holder
            /\ St' = [St EXCEPT ![t] = "sig"] \/ St' = [St EXCEPT ![t] = "bcast"]
  PROVE  Abs!Next
  BY DEF Abs!Next, Abs!Call, Abs!Acquire, Abs!Release, Abs!Wait, Abs!Begin, St

\* The threads whose steps inside lock_acquire, lock_release and cv_wait the
\* monitor does not see.
LEMMA HiddenSteps ==
  ASSUME RInv, NEW t \in Thread,
         \/ AcquireSpin(t) \/ AcquireTest(t) \/ AcquireReturn(t) \/ AcquireBridge(t)
         \/ AcquireUnspin(t) \/ AcquireSleep(t) \/ ReleaseCall(t) \/ ReleaseSpin(t)
         \/ ReleasePick(t) \/ ReleaseReturn(t) \/ WaitLock(t)
  PROVE  St' = St /\ lk_holder' = lk_holder
  <1>0. TypeOK
    BY DEF RInv, IInv
  <1> DEFINE Hidden(label) ==
        /\ Goto(t, label) /\ label \in Label
        /\ cv_wchan' = cv_wchan /\ lk_holder' = lk_holder
        /\ \A u \in Thread \ {t} : in_wait'[u] = in_wait[u]
        /\ Standing(t)' = Standing(t)
  <1>1. ASSUME NEW label, Hidden(label)
        PROVE  St' = St /\ lk_holder' = lk_holder
    <2>1. St' = [St EXCEPT ![t] = Standing(t)']
      BY <1>0, <1>1, OneMoves
    <2> QED
      BY <1>1, <2>1 DEF St
  <1>2. CASE AcquireSpin(t)
    <2>1. Hidden("test")
      BY <1>0, <1>2 DEF AcquireSpin, Goto, TypeOK, Standing, Entering, Label
    <2> QED
      BY <1>1, <2>1
  <1>3. CASE AcquireTest(t)
    <2>1. Hidden(IF lk_holder = None THEN "take" ELSE "busy")
      BY <1>0, <1>3 DEF AcquireTest, Goto, TypeOK, Standing, Entering, Label
    <2> QED
      BY <1>1, <2>1
  <1>4. CASE AcquireReturn(t)
    <2>1. Hidden("in")
      BY <1>0, <1>4 DEF AcquireReturn, Goto, TypeOK, Standing, Entering, Label
    <2> QED
      BY <1>1, <2>1
  <1>5. CASE AcquireBridge(t)
    <2>1. Hidden("bridge")
      BY <1>0, <1>5 DEF AcquireBridge, Goto, TypeOK, Standing, Entering, Label
    <2> QED
      BY <1>1, <2>1
  <1>6. CASE AcquireUnspin(t)
    <2>1. Hidden("gosleep")
      BY <1>0, <1>6 DEF AcquireUnspin, Goto, TypeOK, Standing, Entering, Label
    <2> QED
      BY <1>1, <2>1
  <1>7. CASE AcquireSleep(t)
    <2>1. Hidden("asleep")
      BY <1>0, <1>7 DEF AcquireSleep, Goto, TypeOK, Standing, Entering, Label
    <2> QED
      BY <1>1, <2>1
  <1>8. CASE ReleaseCall(t)
    <2>1. Hidden("release")
      BY <1>0, <1>8 DEF ReleaseCall, Goto, TypeOK, Standing, Entering, Label
    <2> QED
      BY <1>1, <2>1
  <1>9. CASE ReleaseSpin(t)
    <2>1. Hidden("clear")
      BY <1>0, <1>9 DEF ReleaseSpin, Goto, TypeOK, Standing, Entering, Label
    <2> QED
      BY <1>1, <2>1
  <1>10. CASE ReleasePick(t)
    <2>1. Hidden(IF lk_wchan = <<>> THEN "unspin" ELSE "wake")
      BY <1>0, <1>10 DEF ReleasePick, Goto, TypeOK, Standing, Entering, Label
    <2> QED
      BY <1>1, <2>1
  <1>11. CASE ReleaseReturn(t)
    <2>1. Hidden(IF in_wait[t] THEN "cvsleep" ELSE "out")
      BY <1>0, <1>11 DEF ReleaseReturn, Goto, TypeOK, Standing, Entering, Label
    <2> QED
      BY <1>1, <2>1
  <1>12. CASE WaitLock(t)
    <2>1. Hidden("release")
      BY <1>0, <1>12 DEF WaitLock, Goto, TypeOK, Standing, Entering, Label
    <2> QED
      BY <1>1, <2>1
  <1> QED
    BY <1>2, <1>3, <1>4, <1>5, <1>6, <1>7, <1>8, <1>9, <1>10, <1>11, <1>12

\* The steps of lock_acquire, lock_release and cv_wait that the monitor sees,
\* and the calls of cv_signal and cv_broadcast.
LEMMA SeenSteps ==
  ASSUME RInv, NEW t \in Thread,
         \/ AcquireCall(t) \/ AcquireTake(t) \/ ReleaseClear(t)
         \/ NotifyCall(t, "signal") \/ NotifyCall(t, "broadcast")
  PROVE  Abs!Next
  <1>0. TypeOK /\ LockOwner /\ FreeToTake
    BY DEF RInv, IInv
  <1>1. CASE AcquireCall(t)
    <2>1. Standing(t) = "out" /\ Standing(t)' = "enter" /\ lk_holder' = lk_holder
      BY <1>0, <1>1 DEF AcquireCall, Goto, TypeOK, Standing, Entering
    <2>2. St' = [St EXCEPT ![t] = "enter"]
      BY <1>0, <1>1, <2>1, OneMoves DEF AcquireCall, Label
    <2> QED
      BY <2>1, <2>2, MonitorStep
  <1>2. CASE AcquireTake(t)
    <2>1. /\ Standing(t) = "enter" /\ Standing(t)' = "in"
          /\ lk_holder = None /\ lk_holder' = t
      BY <1>0, <1>2 DEF AcquireTake, Goto, TypeOK, Standing, Entering, FreeToTake
    <2>2. St' = [St EXCEPT ![t] = "in"]
      BY <1>0, <1>2, <2>1, OneMoves DEF AcquireTake, Label
    <2> QED
      BY <2>1, <2>2, MonitorStep
  <1>3. CASE ReleaseClear(t)
    <2>1. /\ Standing(t) = "in" /\ Standing(t)' \in {"out", "wait"}
          /\ lk_holder = t /\ lk_holder' = None
      BY <1>0, <1>3 DEF ReleaseClear, Goto, TypeOK, Standing, Entering, LockOwner, Owning
    <2>2. St' = [St EXCEPT ![t] = Standing(t)']
      BY <1>0, <1>3, OneMoves DEF ReleaseClear, Label
    <2> QED
      BY <2>1, <2>2, MonitorStep
  <1>4. CASE NotifyCall(t, "signal") \/ NotifyCall(t, "broadcast")
    <2>1. /\ Standing(t) = "in" /\ Standing(t)' \in {"sig", "bcast"}
          /\ lk_holder = t /\ lk_holder' = lk_holder
      BY <1>0, <1>4 DEF NotifyCall, Goto, TypeOK, Standing, Entering, LockOwner, Owning
    <2>2. St' = [St EXCEPT ![t] = Standing(t)']
      BY <1>0, <1>4, OneMoves DEF NotifyCall, Label
    <2> QED
      BY <2>1, <2>2, MonitorStep
  <1> QED
    BY <1>1, <1>2, <1>3, <1>4

\* A thread made runnable was off the waiters' list already, and a thread that
\* falls asleep in cv_wait was a waiter already.
LEMMA HiddenMoves ==
  ASSUME RInv, NEW t \in Thread, WaitSleep(t) \/ ReleaseWake(t) \/ NotifyWake(t)
  PROVE  St' = St /\ lk_holder' = lk_holder
  <1>0. TypeOK /\ Sleepers
    BY DEF RInv, IInv
  <1>1. CASE WaitSleep(t)
    <2>1. /\ pc[t] = "cvsleep" /\ cv_wchan' = Append(cv_wchan, t)
          /\ lk_holder' = lk_holder
          /\ pc'[t] = "cvasleep" /\ \A u \in Thread \ {t} : pc'[u] = pc[u]
          /\ \A u \in Thread \ {t} : in_wait'[u] = in_wait[u]
      BY <1>0, <1>1 DEF WaitSleep, Goto, TypeOK
    <2>2. Members(cv_wchan') = Members(cv_wchan) \union {t}
      <3>1. cv_wchan \in Seq(Thread)
        BY <1>0 DEF TypeOK
      <3>2. /\ cv_wchan' \in Seq(Thread) /\ Len(cv_wchan) \in Nat
            /\ Len(cv_wchan') = Len(cv_wchan) + 1
            /\ \A i \in 1..Len(cv_wchan) : cv_wchan'[i] = cv_wchan[i]
            /\ cv_wchan'[Len(cv_wchan) + 1] = t
        BY <2>1, <3>1
      <3>3. DOMAIN cv_wchan = 1..Len(cv_wchan) /\ DOMAIN cv_wchan' = 1..(Len(cv_wchan) + 1)
        BY <3>1, <3>2
      <3> QED
        BY <3>2, <3>3 DEF Members
    <2>3. Standing(t)' = Standing(t)
      BY <2>1, <2>2 DEF Standing, Entering
    <2>4. \A u \in Thread \ {t} : Standing(u)' = Standing(u)
      BY <2>1, <2>2 DEF Standing
    <2> QED
      BY <2>1, <2>3, <2>4 DEF St
  <1>2. CASE ReleaseWake(t)
    <2>1. /\ "unspin" \in Label /\ Wake(t, "unspin") /\ pc[t] = "wake"
          /\ UNCHANGED <<lk_holder, lk_wchan, cv_wchan, in_wait>>
      BY <1>2 DEF ReleaseWake, Label
    <2>2. private[t] \in Seq(Thread) /\ private[t] # <<>>
      BY <1>0, <2>1 DEF TypeOK, Wake
    <2>3. PICK w \in Thread : w = Head(private[t])
      BY <2>2
    <2>4. w \in Thread /\ pc[w] \in {"asleep", "cvasleep"} /\ w # t /\ w \notin Members(cv_wchan)
      <3>1. private[t] \in Seq(Thread) /\ 1 \in 1..Len(private[t]) /\ w = private[t][1]
        BY <2>2, <2>3
      <3>2. Apart(private[t], cv_wchan) /\ cv_wchan \in Seq(Thread)
        BY <1>0 DEF TypeOK, Sleepers, ListsApart
      <3>3. pc[w] \in {"asleep", "cvasleep"}
        BY <1>0, <3>1 DEF Sleepers, PrivateSleepers
      <3> QED
        BY <2>1, <3>1, <3>2, <3>3 DEF Apart, Members
    <2>5. pc' = [pc EXCEPT ![w] = "acquire",
                           ![t] = IF Tail(private[t]) = <<>> THEN "unspin" ELSE @]
      BY <2>1, <2>3 DEF Wake
    <2>6. /\ pc'[w] = "acquire" /\ pc'[t] \in {"wake", "unspin"}
          /\ \A u \in Thread \ {t, w} : pc'[u] = pc[u]
      BY <1>0, <2>1, <2>4, <2>5 DEF TypeOK
    <2>7. Standing(w)' = Standing(w) /\ Standing(t)' = Standing(t)
      BY <2>1, <2>4, <2>6 DEF Standing, Entering
    <2>8. \A u \in Thread \ {t, w} : Standing(u)' = Standing(u)
      BY <2>1, <2>6 DEF Standing
    <2> QED
      BY <2>1, <2>7, <2>8 DEF St
  <1>3. CASE NotifyWake(t)
    <2>1. /\ "in" \in Label /\ Wake(t, "in") /\ pc[t] = "notify"
          /\ UNCHANGED <<lk_holder, lk_wchan, cv_wchan, in_wait>>
      BY <1>3 DEF NotifyWake, Label
    <2>2. private[t] \in Seq(Thread) /\ private[t] # <<>>
      BY <1>0, <2>1 DEF TypeOK, Wake
    <2>3. PICK w \in Thread : w = Head(private[t])
      BY <2>2
    <2>4. w \in Thread /\ pc[w] \in {"asleep", "cvasleep"} /\ w # t /\ w \notin Members(cv_wchan)
      <3>1. private[t] \in Seq(Thread) /\ 1 \in 1..Len(private[t]) /\ w = private[t][1]
        BY <2>2, <2>3
      <3>2. Apart(private[t], cv_wchan) /\ cv_wchan \in Seq(Thread)
        BY <1>0 DEF TypeOK, Sleepers, ListsApart
      <3>3. pc[w] \in {"asleep", "cvasleep"}
        BY <1>0, <3>1 DEF Sleepers, PrivateSleepers
      <3> QED
        BY <2>1, <3>1, <3>2, <3>3 DEF Apart, Members
    <2>5. pc' = [pc EXCEPT ![w] = "acquire",
                           ![t] = IF Tail(private[t]) = <<>> THEN "in" ELSE @]
      BY <2>1, <2>3 DEF Wake
    <2>6. /\ pc'[w] = "acquire" /\ pc'[t] \in {"notify", "in"}
          /\ \A u \in Thread \ {t, w} : pc'[u] = pc[u]
      BY <1>0, <2>1, <2>4, <2>5 DEF TypeOK
    <2>7. Standing(w)' = Standing(w) /\ Standing(t)' = Standing(t)
      BY <2>1, <2>4, <2>6 DEF Standing, Entering
    <2>8. \A u \in Thread \ {t, w} : Standing(u)' = Standing(u)
      BY <2>1, <2>6 DEF Standing
    <2> QED
      BY <2>1, <2>7, <2>8 DEF St
  <1> QED
    BY <1>1, <1>2, <1>3

\* While nobody has the channel locked the waiters are the threads on its list.
LEMMA WaitersListed ==
  ASSUME RInv, cv_wc_lock = None
  PROVE  Abs!Waiters = Members(cv_wchan)
  <1>0. TypeOK /\ Sleepers /\ WcOwner
    BY DEF RInv, IInv
  <1>1. ASSUME NEW u \in Thread
        PROVE  Standing(u) = "wait" <=> u \in Members(cv_wchan)
    <2>1. ~ in_wait[u] /\ pc[u] # "cvsleep"
      BY <1>0, ThreadAssumption DEF WcOwner
    <2>2. u \in Members(cv_wchan) => pc[u] = "cvasleep"
      BY <1>0 DEF TypeOK, Members, Sleepers, CvSleepers
    <2> QED
      BY <1>0, <2>1, <2>2 DEF Standing, Entering, TypeOK, Label
  <1>2. Members(cv_wchan) \subseteq Thread
    BY <1>0 DEF Members, TypeOK
  <1> QED
    BY <1>1, <1>2 DEF Abs!Waiters

\* cv_signal and cv_broadcast take effect when they empty the list or take its
\* head.
LEMMA NotifySteps ==
  ASSUME RInv, NEW t \in Thread, SignalPick(t) \/ BroadcastPick(t)
  PROVE  Abs!Next
  <1>0. TypeOK /\ Sleepers /\ LockOwner
    BY DEF RInv, IInv
  <1>1. /\ cv_wc_lock = None /\ lk_holder' = lk_holder /\ in_wait' = in_wait
        /\ pc'[t] \in {"in", "notify"} /\ \A u \in Thread \ {t} : pc'[u] = pc[u]
        /\ pc[t] \in {"signal", "broadcast"}
    BY <1>0 DEF SignalPick, BroadcastPick, Goto, TypeOK
  <1>2. lk_holder = t
    BY <1>0, <1>1 DEF LockOwner, Owning
  <1>3. Abs!Waiters = Members(cv_wchan)
    BY <1>1, WaitersListed
  <1>4. /\ cv_wchan \in Seq(Thread)
        /\ Members(cv_wchan) \subseteq Thread
        /\ \A u \in Members(cv_wchan) : pc[u] = "cvasleep" /\ u # t
    BY <1>0, <1>1 DEF TypeOK, Members, Sleepers, CvSleepers
  <1>5. Standing(t)' = "in"
    BY <1>1 DEF Standing, Entering
  <1>6. \A u \in Thread \ {t} :
           IF u \in Members(cv_wchan) \ Members(cv_wchan')
             THEN Standing(u)' = "enter"
             ELSE u \notin Members(cv_wchan') \ Members(cv_wchan) => Standing(u)' = Standing(u)
    BY <1>1, <1>4 DEF Standing, Entering
  <1>7. CASE BroadcastPick(t)
    <2>1. pc[t] = "broadcast" /\ Members(cv_wchan') = {}
      BY <1>7 DEF BroadcastPick, Members
    <2>2. Standing(t) = "bcast"
      BY <2>1 DEF Standing, Entering
    <2>3. St' = [u \in Thread |-> IF u = t THEN "in"
                                 ELSE IF u \in Members(cv_wchan) THEN "enter" ELSE St[u]]
      BY <1>5, <1>6, <2>1 DEF St
    <2>4. Abs!Broadcast(t)
      BY <1>1, <1>2, <1>3, <2>2, <2>3 DEF Abs!Broadcast, St
    <2> QED
      BY <2>4 DEF Abs!Next
  <1>8. CASE SignalPick(t)
    <2>1. pc[t] = "signal" /\ cv_wchan' = ButFirst(cv_wchan)
      BY <1>8 DEF SignalPick
    <2>2. Standing(t) = "sig"
      BY <2>1 DEF Standing, Entering
    <2>3. CASE cv_wchan = <<>>
      <3>1. Members(cv_wchan) = {} /\ Members(cv_wchan') = {}
        BY <2>1, <2>3 DEF Members, ButFirst
      <3>2. St' = [St EXCEPT ![t] = "in"]
        BY <1>5, <1>6, <3>1 DEF St
      <3>3. Abs!Signal(t)
        BY <1>1, <1>2, <1>3, <2>2, <3>1, <3>2 DEF Abs!Signal, St
      <3> QED
        BY <3>3 DEF Abs!Next
    <2>4. CASE cv_wchan # <<>>
      <3> DEFINE w == Head(cv_wchan)
      <3>1. w = cv_wchan[1] /\ 1 \in 1..Len(cv_wchan) /\ DOMAIN cv_wchan = 1..Len(cv_wchan)
        BY <1>4, <2>4
      <3>2. /\ cv_wchan' = Tail(cv_wchan) /\ Len(cv_wchan) \in Nat
            /\ DOMAIN cv_wchan' = 1..(Len(cv_wchan) - 1)
            /\ \A i \in 1..(Len(cv_wchan) - 1) : cv_wchan'[i] = cv_wchan[i + 1] /\ i + 1 \in 1..Len(cv_wchan)
        BY <1>4, <2>1, <2>4 DEF ButFirst
      <3> HIDE DEF w
      <3>3. Once(cv_wchan)
        BY <1>0 DEF Sleepers, ListsOnce
      <3>4. w \in Members(cv_wchan)
        BY <3>1 DEF Members
      <3>5. w \notin Members(cv_wchan')
        BY <3>1, <3>2, <3>3 DEF Members, Once
      <3>6. Members(cv_wchan') \subseteq Members(cv_wchan)
        BY <3>1, <3>2 DEF Members
      <3>7. Members(cv_wchan) \subseteq Members(cv_wchan') \union {w}
        <4> SUFFICES ASSUME NEW i \in 1..Len(cv_wchan), i # 1
                     PROVE  cv_wchan[i] \in Members(cv_wchan')
          BY <3>1 DEF Members
        <4>1. i - 1 \in 1..(Len(cv_wchan) - 1) /\ (i - 1) + 1 = i
          BY <3>2
        <4> QED
          BY <3>2, <4>1 DEF Members
      <3>8. St' = [St EXCEPT ![w] = "enter", ![t] = "in"]
        BY <1>4, <1>5, <1>6, <3>4, <3>5, <3>6, <3>7 DEF St
      <3>9. Abs!Signal(t)
        BY <1>1, <1>2, <1>3, <2>2, <3>4, <3>8 DEF Abs!Signal, St
      <3> QED
        BY <3>9 DEF Abs!Next
    <2> QED
      BY <2>3, <2>4
  <1> QED
    BY <1>7, <1>8

\* Locks and condition variables of synch.c implement Monitor, for any set of
\* threads: cv_wait gives the lock up and becomes a waiter in one step for
\* every cv_signal and cv_broadcast (synch.c:319-323).
THEOREM ImplementsMonitorThm == Spec => ImplementsMonitor
  <1>1. Init => Abs!Init
    BY DEF Init, Abs!Init, Standing, Entering
  <1>2. RInv /\ [Next]_vars => [Abs!Next]_(Abs!vars)
    <2> SUFFICES ASSUME RInv, [Next]_vars
                 PROVE  Abs!Next \/ (St' = St /\ lk_holder' = lk_holder)
      BY DEF Abs!vars, St
    <2>1. CASE UNCHANGED vars
      BY <2>1 DEF vars, St, Standing
    <2>2. CASE Next
      BY <2>2, HiddenSteps, HiddenMoves, SeenSteps, NotifySteps DEF Next, Kernel, Use
    <2> QED
      BY <2>1, <2>2
  <1> QED
    BY <1>1, <1>2, SynchRInv, PTL DEF Spec, ImplementsMonitor, Abs!Spec

-----------------------------------------------------------------------------
(* Wake-ups *)

\* Whoever goes to sleep for the lock keeps lk_wc_lock, from a moment at which
\* the lock was held; a lock_release after that moment cannot look at the list
\* before the sleeper is on it.
Bridging == {"bridge", "gosleep"}
OnTheWayToLock == {"acquire", "test", "take", "wakeone", "wake"}
Coming == \E t \in Thread : pc[t] \in OnTheWayToLock
LkWcOwner == \A t \in Thread : pc[t] \in Bridging => lk_wc_lock = t
HeldWhenBusy == \A t \in Thread : pc[t] \in {"busy", "bridge"} => lk_holder # None
SomebodyComes ==
    lk_holder = None /\ (lk_wchan # <<>> \/ \E t \in Thread : pc[t] = "gosleep") => Coming

LockWakeups == LkWcOwner /\ HeldWhenBusy /\ SomebodyComes

\* A step of one thread that leaves the lock, its holder and its channel alone,
\* and that does not end its way to the lock.
LEMMA Elsewhere ==
  ASSUME IInv, LockWakeups, NEW t \in Thread, NEW label \in Label,
         pc[t] \notin OnTheWayToLock \union {"busy", "bridge", "gosleep"},
         label \notin {"busy", "bridge", "gosleep"},
         Goto(t, label), UNCHANGED <<lk_wc_lock, lk_wchan>>,
         lk_holder' = None => lk_holder = None \/ label \in OnTheWayToLock,
         lk_holder # None /\ lk_holder' = None => lk_lock = t
  PROVE  LockWakeups'
  <1>1. /\ pc'[t] = label /\ \A u \in Thread : u # t => pc'[u] = pc[u]
    BY DEF IInv, TypeOK, Goto
  <1>2. LkWcOwner'
    BY <1>1 DEF LockWakeups, LkWcOwner, Bridging
  <1>3. HeldWhenBusy'
    BY <1>1, ThreadAssumption DEF LockWakeups, HeldWhenBusy, IInv, SpinOwner, Spinning
  <1>4. SomebodyComes'
    BY <1>1 DEF LockWakeups, SomebodyComes, Coming
  <1> QED BY <1>2, <1>3, <1>4 DEF LockWakeups

\* A wake-up puts a thread on its way.
LEMMA WakeComes ==
  ASSUME IInv, LockWakeups, NEW t \in Thread, NEW label \in Label,
         pc[t] \notin {"asleep", "cvasleep"} \union Bridging \union {"busy"},
         label \notin {"asleep", "cvasleep"} \union Bridging \union {"busy"},
         Wake(t, label), UNCHANGED <<lk_holder, lk_wc_lock, lk_wchan, cv_wchan>>
  PROVE  LockWakeups'
  <1>1. PICK w \in Thread :
              /\ w # t /\ pc[w] \in {"asleep", "cvasleep"}
              /\ pc'[w] = "acquire" /\ pc'[t] \in {pc[t], label}
              /\ \A u \in Thread \ {t, w} : pc'[u] = pc[u]
    BY WakeMoves DEF IInv
  <1>2. LkWcOwner' /\ HeldWhenBusy'
    BY <1>1 DEF LockWakeups, LkWcOwner, HeldWhenBusy, Bridging
  <1>3. Coming'
    BY <1>1 DEF Coming, OnTheWayToLock
  <1> QED BY <1>2, <1>3 DEF LockWakeups, SomebodyComes

\* No step of lock or condition variable loses a wake-up.
LEMMA NextLockWakeups ==
  ASSUME IInv, LockWakeups, [Next]_vars
  PROVE  LockWakeups'
  <1> USE ThreadAssumption
  <1>1. ASSUME NEW t \in Thread, AcquireCall(t) PROVE LockWakeups'
    BY <1>1, Elsewhere DEF AcquireCall, OnTheWayToLock, Label
  <1>2. ASSUME NEW t \in Thread, AcquireSpin(t) \/ AcquireTest(t) PROVE LockWakeups'
    <2>1. /\ pc[t] \in {"acquire", "test"} /\ pc'[t] \in {"test", "take", "busy"}
          /\ (pc'[t] = "busy" => lk_holder # None)
          /\ \A u \in Thread : u # t => pc'[u] = pc[u]
      BY <1>2 DEF IInv, TypeOK, AcquireSpin, AcquireTest, Goto
    <2>2. UNCHANGED <<lk_holder, lk_wc_lock, lk_wchan>>
      BY <1>2 DEF AcquireSpin, AcquireTest
    <2>3. LkWcOwner' /\ HeldWhenBusy'
      BY <2>1, <2>2 DEF LockWakeups, LkWcOwner, HeldWhenBusy, Bridging
    <2>4. SomebodyComes'
      BY <2>1, <2>2 DEF SomebodyComes, Coming, OnTheWayToLock
    <2> QED BY <2>3, <2>4 DEF LockWakeups
  <1>3. ASSUME NEW t \in Thread, AcquireTake(t) PROVE LockWakeups'
    BY <1>3 DEF AcquireTake, Goto, IInv, TypeOK, LockWakeups, LkWcOwner, HeldWhenBusy, SomebodyComes, Bridging
  <1>4. ASSUME NEW t \in Thread, AcquireReturn(t) PROVE LockWakeups'
    BY <1>4, Elsewhere DEF AcquireReturn, OnTheWayToLock, Label
  <1>5. ASSUME NEW t \in Thread, AcquireBridge(t) \/ AcquireUnspin(t) PROVE LockWakeups'
    <2>1. lk_holder # None /\ lk_holder' # None
      BY <1>5 DEF LockWakeups, HeldWhenBusy, AcquireBridge, AcquireUnspin
    <2>2. LkWcOwner'
      BY <1>5 DEF LockWakeups, LkWcOwner, AcquireBridge, AcquireUnspin, Goto, spinlock_acquire, Bridging, IInv, TypeOK
    <2> QED BY <2>1, <2>2 DEF LockWakeups, HeldWhenBusy, SomebodyComes
  <1>6. ASSUME NEW t \in Thread, AcquireSleep(t) PROVE LockWakeups'
    <2>1. /\ pc[t] = "gosleep" /\ pc'[t] = "asleep" /\ \A u \in Thread : u # t => pc'[u] = pc[u]
      BY <1>6 DEF IInv, TypeOK, AcquireSleep, Goto
    <2>2. LkWcOwner'
      BY <1>6, <2>1 DEF LockWakeups, LkWcOwner, AcquireSleep, Bridging
    <2>3. HeldWhenBusy' /\ lk_holder' = lk_holder
      BY <1>6, <2>1 DEF LockWakeups, HeldWhenBusy, AcquireSleep
    <2>4. SomebodyComes'
      BY <2>1, <2>3 DEF LockWakeups, SomebodyComes, Coming, OnTheWayToLock
    <2> QED BY <2>2, <2>3, <2>4 DEF LockWakeups
  <1>7. ASSUME NEW t \in Thread, ReleaseCall(t) \/ ReleaseSpin(t) \/ WaitLock(t)
                                 \/ NotifyCall(t, "signal") \/ NotifyCall(t, "broadcast")
        PROVE  LockWakeups'
    <2>1. CASE ReleaseCall(t)
      BY <2>1, Elsewhere DEF ReleaseCall, OnTheWayToLock, Label
    <2>2. CASE ReleaseSpin(t)
      BY <2>2, Elsewhere DEF ReleaseSpin, OnTheWayToLock, Label
    <2>3. CASE WaitLock(t)
      BY <2>3, Elsewhere DEF WaitLock, OnTheWayToLock, Label
    <2>4. CASE NotifyCall(t, "signal")
      BY <2>4, Elsewhere DEF NotifyCall, OnTheWayToLock, Label
    <2>5. CASE NotifyCall(t, "broadcast")
      BY <2>5, Elsewhere DEF NotifyCall, OnTheWayToLock, Label
    <2> QED BY <1>7, <2>1, <2>2, <2>3, <2>4, <2>5
  <1>8. ASSUME NEW t \in Thread, ReleaseClear(t) PROVE LockWakeups'
    BY <1>8, Elsewhere DEF ReleaseClear, OnTheWayToLock, Label, IInv, SpinOwner, Spinning
  <1>9. ASSUME NEW t \in Thread, ReleasePick(t) PROVE LockWakeups'
    <2>1. /\ pc[t] = "wakeone" /\ lk_wc_lock = None /\ UNCHANGED <<lk_holder, lk_wc_lock>>
          /\ pc'[t] = IF lk_wchan = <<>> THEN "unspin" ELSE "wake"
          /\ \A u \in Thread : u # t => pc'[u] = pc[u]
      BY <1>9 DEF IInv, TypeOK, ReleasePick, Goto
    <2>2. \A u \in Thread : pc[u] \notin Bridging
      BY <2>1 DEF LockWakeups, LkWcOwner
    <2>3. LkWcOwner' /\ HeldWhenBusy'
      BY <2>1, <2>2 DEF LockWakeups, LkWcOwner, HeldWhenBusy, Bridging
    <2>4. CASE lk_wchan = <<>>
      <3>1. lk_wchan' = <<>>
        BY <1>9, <2>4 DEF ReleasePick, ButFirst
      <3> QED BY <2>1, <2>2, <2>3, <2>4, <3>1 DEF LockWakeups, SomebodyComes, Bridging
    <2>5. CASE lk_wchan # <<>>
      BY <2>1, <2>3, <2>5 DEF LockWakeups, SomebodyComes, Coming, OnTheWayToLock
    <2> QED BY <2>4, <2>5
  <1>10. ASSUME NEW t \in Thread, ReleaseWake(t) PROVE LockWakeups'
    BY <1>10, WakeComes DEF ReleaseWake, Bridging, Label
  <1>11. ASSUME NEW t \in Thread, NotifyWake(t) PROVE LockWakeups'
    BY <1>11, WakeComes DEF NotifyWake, Bridging, Label
  <1>12. ASSUME NEW t \in Thread, ReleaseReturn(t) PROVE LockWakeups'
    <2>1. CASE in_wait[t]
      BY <1>12, <2>1, Elsewhere DEF ReleaseReturn, OnTheWayToLock, Label
    <2>2. CASE ~in_wait[t]
      BY <1>12, <2>2, Elsewhere DEF ReleaseReturn, OnTheWayToLock, Label
    <2> QED BY <2>1, <2>2
  <1>13. ASSUME NEW t \in Thread, WaitSleep(t) PROVE LockWakeups'
    BY <1>13, Elsewhere DEF WaitSleep, OnTheWayToLock, Label
  <1>14. ASSUME NEW t \in Thread, SignalPick(t) \/ BroadcastPick(t) PROVE LockWakeups'
    <2>1. CASE cv_wchan = <<>>
      BY <1>14, <2>1, Elsewhere DEF SignalPick, BroadcastPick, OnTheWayToLock, Label
    <2>2. CASE cv_wchan # <<>>
      BY <1>14, <2>2, Elsewhere DEF SignalPick, BroadcastPick, OnTheWayToLock, Label
    <2> QED BY <2>1, <2>2
  <1>15. CASE UNCHANGED vars
    BY <1>15 DEF vars, LockWakeups, LkWcOwner, HeldWhenBusy, SomebodyComes, Coming
  <1> QED
    BY <1>1, <1>2, <1>3, <1>4, <1>5, <1>6, <1>7, <1>8, <1>9, <1>10, <1>11, <1>12, <1>13, <1>14, <1>15
       DEF Next, Kernel, Use

\* At the start nobody sleeps.
LEMMA InitLockWakeups == Init => LockWakeups
  BY DEF Init, LockWakeups, LkWcOwner, HeldWhenBusy, SomebodyComes, Bridging

\* The lock's half of WakeupsKept.
LEMMA LockWakeupsKept == LockWakeups => NoLostWakeup
  BY DEF LockWakeups, SomebodyComes, NoLostWakeup, Coming, OnTheWayToLock

-----------------------------------------------------------------------------
(* The semaphore *)

SemLabel == {"out", "P", "test", "bridge", "gosleep", "asleep", "V", "wakeone", "wake", "unspin"}

SemTypes ==
    /\ sem_count \in Nat /\ sem_wc_lock \in SemThread \union {NoThread}
    /\ sem_wchan \in Seq(SemThread)
    /\ starget \in [SemThread -> SemThread \union {NoThread}]
    /\ spc \in [SemThread -> SemLabel]

SemWcOwner == \A t \in SemThread : spc[t] \in Bridging => sem_wc_lock = t

\* Who is on the list, or was taken off it and not woken yet, sleeps; a thread
\* is on the list once and is woken by one V.
SemSleepers ==
    /\ \A i \in 1..Len(sem_wchan) : spc[sem_wchan[i]] = "asleep"
    /\ Once(sem_wchan)
    /\ \A t \in SemThread : spc[t] = "wake" =>
         /\ starget[t] \in SemThread /\ spc[starget[t]] = "asleep"
         /\ \A i \in 1..Len(sem_wchan) : sem_wchan[i] # starget[t]
         /\ \A u \in SemThread : spc[u] = "wake" /\ u # t => starget[u] # starget[t]

\* Threads that sleep, or keep sem_wc_lock because they are about to.
Sleepy == sem_wchan # <<>> \/ \E t \in SemThread : spc[t] \in Bridging
UnitsExact == IsFiniteSet(OnTheWay) /\ (Sleepy => sem_count <= Cardinality(OnTheWay))

SemInv == SemTypes /\ SemWcOwner /\ SemSleepers /\ UnitsExact

\* Nobody sleeps, or is about to, at the start.
LEMMA SemInitInv == SemInit => SemInv
  <1> SUFFICES ASSUME SemInit PROVE SemInv
    OBVIOUS
  <1>1. OnTheWay = {} /\ IsFiniteSet({})
    BY FS_EmptySet DEF SemInit, OnTheWay
  <1> QED
    BY <1>1, SemaphoreAssumption
       DEF SemInit, SemInv, SemTypes, SemLabel, SemWcOwner, SemSleepers, Once, UnitsExact, Sleepy, Bridging

\* A thread that is neither asleep nor waking one moves.
LEMMA SemMoves ==
  ASSUME SemInv, NEW t \in SemThread, NEW label \in SemLabel, SemGoto(t, label)
  PROVE  /\ spc' \in [SemThread -> SemLabel] /\ spc'[t] = label
         /\ \A u \in SemThread : u # t => spc'[u] = spc[u]
  BY DEF SemInv, SemTypes, SemGoto

\* The sleepers are left alone.
LEMMA SemAwake ==
  ASSUME SemInv, NEW t \in SemThread, NEW label \in SemLabel, SemGoto(t, label),
         spc[t] \notin {"asleep", "wake"}, label # "wake", UNCHANGED <<sem_wchan, starget>>
  PROVE  SemSleepers'
  <1>1. /\ spc'[t] = label /\ \A u \in SemThread : u # t => spc'[u] = spc[u]
    BY SemMoves
  <1>2. sem_wchan \in Seq(SemThread) /\ \A i \in 1..Len(sem_wchan) : sem_wchan[i] \in SemThread
    BY DEF SemInv, SemTypes
  <1> QED BY <1>1, <1>2 DEF SemInv, SemSleepers, Once

\* The number of threads on their way after one of them arrives, leaves, or
\* neither.
LEMMA Counted ==
  ASSUME SemInv, NEW t \in SemThread, NEW label \in SemLabel, SemGoto(t, label)
  PROVE  /\ IsFiniteSet(OnTheWay') /\ Cardinality(OnTheWay) \in Nat /\ Cardinality(OnTheWay') \in Nat
         /\ (t \in OnTheWay <=> t \in OnTheWay') => Cardinality(OnTheWay') = Cardinality(OnTheWay)
         /\ t \notin OnTheWay /\ t \in OnTheWay' => Cardinality(OnTheWay') = Cardinality(OnTheWay) + 1
         /\ t \in OnTheWay /\ t \notin OnTheWay' => Cardinality(OnTheWay') = Cardinality(OnTheWay) - 1
  <1>0. IsFiniteSet(OnTheWay)
    BY DEF SemInv, UnitsExact
  <1>1. \A u \in SemThread : u # t => (u \in OnTheWay' <=> u \in OnTheWay)
    BY SemMoves DEF OnTheWay
  <1>2. OnTheWay \subseteq SemThread /\ OnTheWay' \subseteq SemThread
    BY DEF OnTheWay
  <1>3. CASE t \in OnTheWay <=> t \in OnTheWay'
    <2>1. OnTheWay' = OnTheWay
      BY <1>1, <1>2, <1>3
    <2> QED BY <1>0, <1>3, <2>1, FS_CardinalityType
  <1>4. CASE t \notin OnTheWay /\ t \in OnTheWay'
    <2>1. OnTheWay' = OnTheWay \union {t}
      BY <1>1, <1>2, <1>4
    <2> QED BY <1>0, <1>4, <2>1, FS_AddElement, FS_CardinalityType
  <1>5. CASE t \in OnTheWay /\ t \notin OnTheWay'
    <2>1. OnTheWay' = OnTheWay \ {t}
      BY <1>1, <1>2, <1>5
    <2> QED BY <1>0, <1>5, <2>1, FS_RemoveElement, FS_CardinalityType
  <1> QED BY <1>3, <1>4, <1>5

\* P and V as far as nobody is put on the list or taken off it.
LEMMA SemPlain ==
  ASSUME SemInv, NEW t \in SemThread,
         \/ PCall(t) \/ PSpin(t) \/ PTake(t) \/ PBridge(t) \/ PUnspin(t)
         \/ VCall(t) \/ VCount(t) \/ VReturn(t)
  PROVE  SemInv'
  <1>0. SemTypes /\ SemWcOwner /\ UnitsExact
    BY DEF SemInv
  <1>1. PICK label \in SemLabel : SemGoto(t, label) /\ spc[t] \notin {"asleep", "wake"} /\ label # "wake"
                                  /\ (label = "bridge" <=> PBridge(t))
    BY DEF PCall, PSpin, PTake, PBridge, PUnspin, VCall, VCount, VReturn, SemLabel
  <1>2. /\ spc' \in [SemThread -> SemLabel] /\ spc'[t] = label
        /\ \A u \in SemThread : u # t => spc'[u] = spc[u]
    BY <1>1, SemMoves
  <1>3. UNCHANGED <<sem_wchan, starget>>
    BY DEF PCall, PSpin, PTake, PBridge, PUnspin, VCall, VCount, VReturn
  <1>4. SemSleepers'
    BY <1>1, <1>3, SemAwake
  <1>5. SemTypes'
    <2>1. sem_count' \in Nat
      BY <1>0 DEF SemTypes, PCall, PSpin, PTake, PBridge, PUnspin, VCall, VCount, VReturn
    <2>2. sem_wc_lock' \in SemThread \union {NoThread}
      BY <1>0 DEF SemTypes, PCall, PSpin, PTake, PBridge, PUnspin, VCall, VCount, VReturn
    <2> QED BY <1>0, <1>2, <1>3, <2>1, <2>2 DEF SemTypes
  <1>6. SemWcOwner'
    <2>1. CASE PBridge(t)
      BY <1>0, <1>2, <2>1, SemaphoreAssumption DEF SemWcOwner, PBridge, Bridging
    <2>2. CASE ~PBridge(t)
      <3>1. sem_wc_lock' = sem_wc_lock
        BY <2>2 DEF PCall, PSpin, PTake, PBridge, PUnspin, VCall, VCount, VReturn
      <3>2. spc'[t] \in Bridging => spc[t] \in Bridging
        BY <1>2, <2>2 DEF PCall, PSpin, PTake, PBridge, PUnspin, VCall, VCount, VReturn, SemGoto, Bridging, SemTypes
      <3> QED BY <1>0, <1>2, <3>1, <3>2 DEF SemWcOwner
    <2> QED BY <2>1, <2>2
  <1>7. UnitsExact'
    <2>0. sem_count \in Nat /\ IsFiniteSet(OnTheWay')
      BY <1>0, <1>1, Counted DEF SemTypes
    <2>1. CASE PCall(t) \/ VCall(t) \/ PSpin(t) \/ PUnspin(t) \/ VReturn(t)
      <3>1. sem_count' = sem_count
        BY <2>1 DEF PCall, VCall, PSpin, PUnspin, VReturn
      <3>2. Sleepy' => Sleepy
        BY <1>0, <1>2, <1>3, <2>1 DEF Sleepy, Bridging, PCall, VCall, PSpin, PUnspin, VReturn, SemGoto, SemTypes
      <3>3. t \in OnTheWay => t \in OnTheWay'
        BY <1>0, <1>2, <2>1 DEF OnTheWay, PCall, VCall, PSpin, PUnspin, VReturn, SemGoto, SemTypes
      <3>4. Cardinality(OnTheWay') >= Cardinality(OnTheWay) /\ Cardinality(OnTheWay) \in Nat /\ Cardinality(OnTheWay') \in Nat
        BY <1>1, <3>3, Counted
      <3> QED BY <1>0, <2>0, <3>1, <3>2, <3>4 DEF UnitsExact
    <2>2. CASE PTake(t)
      <3>1. sem_count' = sem_count - 1 /\ t \in OnTheWay /\ spc'[t] = "out"
        BY <1>0, <2>2 DEF PTake, OnTheWay, SemGoto, SemTypes
      <3>2. (Sleepy' => Sleepy) /\ t \notin OnTheWay'
        BY <1>2, <1>3, <3>1 DEF Sleepy, Bridging, OnTheWay
      <3>3. Cardinality(OnTheWay') = Cardinality(OnTheWay) - 1 /\ Cardinality(OnTheWay) \in Nat
        BY <1>1, <3>1, <3>2, Counted
      <3> QED BY <1>0, <2>0, <3>1, <3>2, <3>3 DEF UnitsExact
    <2>3. CASE PBridge(t)
      BY <1>1, <2>0, <2>3, Counted DEF PBridge, UnitsExact
    <2>4. CASE VCount(t)
      <3>1. sem_count' = sem_count + 1 /\ spc[t] = "V" /\ spc'[t] = "wakeone"
        BY <1>0, <2>4 DEF VCount, SemGoto, SemTypes
      <3>2. (Sleepy' => Sleepy) /\ t \notin OnTheWay /\ t \in OnTheWay'
        BY <1>2, <1>3, <3>1 DEF Sleepy, Bridging, OnTheWay
      <3>3. Cardinality(OnTheWay') = Cardinality(OnTheWay) + 1 /\ Cardinality(OnTheWay) \in Nat
        BY <1>1, <3>2, Counted
      <3> QED BY <1>0, <2>0, <3>1, <3>2, <3>3 DEF UnitsExact
    <2> QED BY <2>1, <2>2, <2>3, <2>4
  <1> QED BY <1>4, <1>5, <1>6, <1>7 DEF SemInv

\* wchan_sleep: the thread was about to, and nothing else has changed.
LEMMA SemSlept ==
  ASSUME SemInv, NEW t \in SemThread, PSleep(t)
  PROVE  SemInv'
  <1>0. SemTypes /\ SemWcOwner /\ SemSleepers /\ UnitsExact
    BY DEF SemInv
  <1>1. /\ SemGoto(t, "asleep") /\ "asleep" \in SemLabel /\ spc[t] = "gosleep"
        /\ sem_wchan' = Append(sem_wchan, t) /\ sem_wc_lock' = NoThread
        /\ UNCHANGED <<sem_count, starget>>
    BY DEF PSleep, SemLabel
  <1>2. /\ spc' \in [SemThread -> SemLabel] /\ spc'[t] = "asleep"
        /\ \A u \in SemThread : u # t => spc'[u] = spc[u]
    BY <1>1, SemMoves
  <1>3. SemTypes'
    BY <1>0, <1>1, <1>2 DEF SemTypes
  <1>4. SemWcOwner'
    BY <1>0, <1>1, <1>2 DEF SemWcOwner, Bridging
  <1>5. /\ Len(sem_wchan') = Len(sem_wchan) + 1 /\ Len(sem_wchan) \in Nat /\ sem_wchan'[Len(sem_wchan) + 1] = t
        /\ \A i \in 1..Len(sem_wchan) : sem_wchan'[i] = sem_wchan[i] /\ sem_wchan[i] # t /\ sem_wchan[i] \in SemThread
    BY <1>0, <1>1 DEF SemTypes, SemSleepers
  <1>6. SemSleepers'
    <2>1. \A i \in 1..Len(sem_wchan') : i \in 1..Len(sem_wchan) \/ i = Len(sem_wchan) + 1
      BY <1>5
    <2>2. \A i \in 1..Len(sem_wchan') : spc'[sem_wchan'[i]] = "asleep"
      BY <1>0, <1>2, <1>5, <2>1 DEF SemSleepers
    <2>3. Once(sem_wchan')
      BY <1>0, <1>5, <2>1 DEF SemSleepers, Once
    <2>4. \A u \in SemThread : spc'[u] = "wake" => spc[u] = "wake" /\ u # t /\ starget'[u] = starget[u]
      BY <1>1, <1>2
    <2>5. \A u \in SemThread : spc[u] = "wake" => starget[u] # t
      BY <1>0, <1>1 DEF SemSleepers
    <2> QED BY <1>0, <1>2, <1>5, <2>1, <2>2, <2>3, <2>4, <2>5 DEF SemSleepers
  <1>7. UnitsExact'
    <2>1. Sleepy
      BY <1>1 DEF Sleepy, Bridging
    <2>2. t \notin OnTheWay /\ t \notin OnTheWay'
      BY <1>1, <1>2 DEF OnTheWay
    <2> QED BY <1>0, <1>1, <2>1, <2>2, Counted DEF UnitsExact
  <1> QED BY <1>3, <1>4, <1>6, <1>7 DEF SemInv

\* wchan_wakeone finds nobody, and nobody is about to sleep, or takes the
\* first thread.
LEMMA SemPicked ==
  ASSUME SemInv, NEW t \in SemThread, VPick(t)
  PROVE  SemInv'
  <1>0. SemTypes /\ SemWcOwner /\ SemSleepers /\ UnitsExact
    BY DEF SemInv
  <1>1. spc[t] = "wakeone" /\ sem_wc_lock = NoThread /\ UNCHANGED <<sem_count, sem_wc_lock>>
    BY DEF VPick
  <1>2. \A u \in SemThread : spc[u] \notin Bridging
    BY <1>0, <1>1, SemaphoreAssumption DEF SemWcOwner
  <1>3. CASE sem_wchan = <<>>
    <2>1. SemGoto(t, "unspin") /\ "unspin" \in SemLabel /\ UNCHANGED <<sem_wchan, starget>>
      BY <1>3 DEF VPick, SemLabel
    <2>2. /\ spc' \in [SemThread -> SemLabel] /\ spc'[t] = "unspin"
          /\ \A u \in SemThread : u # t => spc'[u] = spc[u]
      BY <2>1, SemMoves
    <2>3. SemSleepers'
      BY <1>1, <2>1, SemAwake
    <2>4. SemTypes' /\ SemWcOwner' /\ ~Sleepy'
      BY <1>0, <1>1, <1>2, <1>3, <2>1, <2>2 DEF SemTypes, SemWcOwner, Bridging, Sleepy
    <2>5. IsFiniteSet(OnTheWay')
      BY <2>1, Counted
    <2> QED BY <2>3, <2>4, <2>5 DEF SemInv, UnitsExact
  <1>4. CASE sem_wchan # <<>>
    <2>1. /\ SemGoto(t, "wake") /\ "wake" \in SemLabel
          /\ starget' = [starget EXCEPT ![t] = Head(sem_wchan)] /\ sem_wchan' = Tail(sem_wchan)
      BY <1>4 DEF VPick, SemLabel
    <2>2. /\ spc' \in [SemThread -> SemLabel] /\ spc'[t] = "wake"
          /\ \A u \in SemThread : u # t => spc'[u] = spc[u]
      BY <2>1, SemMoves
    <2>3. PICK w \in SemThread : w = Head(sem_wchan) /\ w = sem_wchan[1] /\ 1 \in 1..Len(sem_wchan)
      BY <1>0, <1>4 DEF SemTypes
    <2>4. /\ sem_wchan' \in Seq(SemThread) /\ Len(sem_wchan') = Len(sem_wchan) - 1 /\ Len(sem_wchan) \in Nat
          /\ \A i \in 1..Len(sem_wchan') : sem_wchan'[i] = sem_wchan[i + 1] /\ i + 1 \in 1..Len(sem_wchan) /\ i + 1 # 1
      BY <1>0, <1>4, <2>1 DEF SemTypes
    <2>5. /\ starget'[t] = w /\ starget' \in [SemThread -> SemThread \union {NoThread}]
          /\ \A u \in SemThread : u # t => starget'[u] = starget[u]
      BY <1>0, <2>1, <2>3 DEF SemTypes
    <2>6. SemTypes' /\ SemWcOwner'
      BY <1>0, <1>1, <1>2, <2>2, <2>4, <2>5 DEF SemTypes, SemWcOwner, Bridging
    <2>7. spc[w] = "asleep" /\ w # t
      BY <1>0, <1>1, <2>3 DEF SemSleepers
    <2>8. \A i \in 1..Len(sem_wchan) : sem_wchan[i] \in SemThread /\ sem_wchan[i] # t
      BY <1>0, <1>1 DEF SemTypes, SemSleepers
    <2>9. \A i \in 1..Len(sem_wchan') : spc'[sem_wchan'[i]] = "asleep" /\ sem_wchan'[i] # w
      BY <1>0, <2>2, <2>3, <2>4, <2>8 DEF SemSleepers, Once
    <2>10. Once(sem_wchan')
      BY <1>0, <2>4 DEF SemSleepers, Once
    <2>11. \A u \in SemThread : spc[u] = "wake" => starget[u] # w
      BY <1>0, <2>3 DEF SemSleepers
    <2>12. ASSUME NEW u \in SemThread, spc'[u] = "wake"
           PROVE  /\ starget'[u] \in SemThread /\ spc'[starget'[u]] = "asleep"
                  /\ \A i \in 1..Len(sem_wchan') : sem_wchan'[i] # starget'[u]
                  /\ \A v \in SemThread : spc'[v] = "wake" /\ v # u => starget'[v] # starget'[u]
      <3>1. CASE u = t
        BY <2>2, <2>5, <2>7, <2>9, <2>11, <3>1
      <3>2. CASE u # t
        <4>1. spc[u] = "wake" /\ starget'[u] = starget[u]
          BY <2>2, <2>5, <2>12, <3>2
        <4>2. /\ starget[u] \in SemThread /\ spc[starget[u]] = "asleep" /\ starget[u] # t
              /\ \A i \in 1..Len(sem_wchan) : sem_wchan[i] # starget[u]
          BY <1>0, <1>1, <4>1 DEF SemSleepers
        <4>3. \A v \in SemThread : spc'[v] = "wake" /\ v # u => starget'[v] # starget'[u]
          BY <1>0, <2>2, <2>5, <2>11, <4>1 DEF SemSleepers
        <4> QED BY <2>2, <2>4, <4>1, <4>2, <4>3
      <3> QED BY <3>1, <3>2
    <2>13. SemSleepers'
      BY <2>9, <2>10, <2>12 DEF SemSleepers
    <2>14. UnitsExact'
      <3>1. Sleepy /\ t \in OnTheWay /\ t \in OnTheWay'
        BY <1>1, <1>4, <2>2 DEF Sleepy, OnTheWay
      <3> QED BY <1>0, <1>1, <2>1, <3>1, Counted DEF UnitsExact
    <2> QED BY <2>6, <2>13, <2>14 DEF SemInv
  <1> QED BY <1>3, <1>4

\* thread_make_runnable: one thread leaves V's wake-up and another is on its
\* way instead.
LEMMA SemWoken ==
  ASSUME SemInv, NEW t \in SemThread, VWake(t)
  PROVE  SemInv'
  <1>0. SemTypes /\ SemWcOwner /\ SemSleepers /\ UnitsExact
    BY DEF SemInv
  <1>1. spc[t] = "wake" /\ UNCHANGED <<sem_count, sem_wc_lock, sem_wchan>>
    BY DEF VWake
  <1>2. PICK w \in SemThread : w = starget[t] /\ spc[w] = "asleep" /\ w # t
    BY <1>0, <1>1 DEF SemSleepers
  <1>3. /\ spc' = [spc EXCEPT ![w] = "P", ![t] = "unspin"]
        /\ starget' = [starget EXCEPT ![t] = NoThread]
    BY <1>2 DEF VWake
  <1>4. /\ spc' \in [SemThread -> SemLabel] /\ spc'[t] = "unspin" /\ spc'[w] = "P"
        /\ \A u \in SemThread \ {t, w} : spc'[u] = spc[u]
    BY <1>0, <1>2, <1>3 DEF SemTypes, SemLabel
  <1>5. /\ starget' \in [SemThread -> SemThread \union {NoThread}]
        /\ \A u \in SemThread : u # t => starget'[u] = starget[u]
    BY <1>0, <1>3 DEF SemTypes
  <1>6. SemTypes' /\ SemWcOwner'
    BY <1>0, <1>1, <1>4, <1>5 DEF SemTypes, SemWcOwner, Bridging
  <1>7. \A i \in 1..Len(sem_wchan) : sem_wchan[i] \in SemThread \ {t, w}
    BY <1>0, <1>1, <1>2 DEF SemTypes, SemSleepers
  <1>8. \A u \in SemThread : spc'[u] = "wake" =>
          /\ spc[u] = "wake" /\ u # t /\ starget'[u] = starget[u] /\ starget[u] \in SemThread \ {t, w}
    BY <1>0, <1>1, <1>2, <1>4, <1>5 DEF SemSleepers
  <1>9. SemSleepers'
    <2>1. \A i \in 1..Len(sem_wchan') : spc'[sem_wchan'[i]] = "asleep"
      BY <1>0, <1>1, <1>4, <1>7 DEF SemSleepers
    <2>2. \A u \in SemThread : spc'[u] = "wake" => spc'[starget'[u]] = "asleep"
      BY <1>0, <1>4, <1>8 DEF SemSleepers
    <2> QED BY <1>0, <1>1, <1>8, <2>1, <2>2 DEF SemSleepers
  <1>10. Cardinality(OnTheWay') = Cardinality(OnTheWay) /\ IsFiniteSet(OnTheWay')
    <2>1. t \in OnTheWay /\ w \notin OnTheWay /\ IsFiniteSet(OnTheWay)
      BY <1>0, <1>1, <1>2 DEF OnTheWay, UnitsExact
    <2>2. OnTheWay' = (OnTheWay \ {t}) \union {w}
      <3>1. t \notin OnTheWay' /\ w \in OnTheWay'
        BY <1>4 DEF OnTheWay
      <3>2. \A u \in SemThread \ {t, w} : u \in OnTheWay' <=> u \in OnTheWay
        BY <1>4 DEF OnTheWay
      <3>3. OnTheWay \subseteq SemThread /\ OnTheWay' \subseteq SemThread
        BY DEF OnTheWay
      <3> QED BY <1>2, <2>1, <3>1, <3>2, <3>3
    <2>3. IsFiniteSet(OnTheWay \ {t}) /\ Cardinality(OnTheWay \ {t}) = Cardinality(OnTheWay) - 1
      BY <2>1, FS_RemoveElement
    <2>4. w \notin OnTheWay \ {t}
      BY <2>1
    <2>5. IsFiniteSet(OnTheWay') /\ Cardinality(OnTheWay') = Cardinality(OnTheWay \ {t}) + 1
      BY <2>2, <2>3, <2>4, FS_AddElement
    <2> QED BY <2>1, <2>3, <2>5, FS_CardinalityType
  <1>11. Sleepy' => Sleepy
    BY <1>1, <1>2, <1>4 DEF Sleepy, Bridging
  <1>12. UnitsExact'
    BY <1>0, <1>1, <1>10, <1>11 DEF UnitsExact
  <1> QED BY <1>6, <1>9, <1>12 DEF SemInv

\* Every step of the semaphore keeps the invariant.
LEMMA SemNextInv == SemInv /\ [SemNext]_semVars => SemInv'
  <1>1. ASSUME SemInv, SemNext PROVE SemInv'
    BY <1>1, SemPlain, SemSlept, SemPicked, SemWoken DEF SemNext, SemKernel
  <1>2. ASSUME SemInv, UNCHANGED semVars PROVE SemInv'
    BY <1>2 DEF semVars, SemInv, SemTypes, SemWcOwner, SemSleepers, UnitsExact, Sleepy, OnTheWay
  <1> QED BY <1>1, <1>2

\* The semaphore's half of WakeupsKept.
LEMMA SemWakeupsKept == SemInv => UnitsSpokenFor
  BY DEF SemInv, UnitsExact, Sleepy, UnitsSpokenFor

\* No wake-up is lost, of a lock, a condition variable or a semaphore
\* (synch.c:104-143, 202-253), for any number of threads: while threads sleep
\* for a free lock somebody is on the way to it, and while threads sleep in P
\* there are as many on their way as there are units.
THEOREM WakeupsKeptThm == SyncSpec => []WakeupsKept
  <1> DEFINE Both == IInv /\ LockWakeups /\ SemInv
  <1>1. SyncInit => Both
    BY InitIInv, InitLockWakeups, SemInitInv DEF SyncInit
  <1>2. Both /\ [SyncNext]_syncVars => Both'
    <2> SUFFICES ASSUME Both, [SyncNext]_syncVars PROVE Both'
      OBVIOUS
    <2>1. [Next]_vars /\ [SemNext]_semVars
      BY DEF SyncNext, syncVars, vars, semVars
    <2> QED BY <2>1, NextIInv, NextLockWakeups, SemNextInv
  <1>3. Both => WakeupsKept
    BY LockWakeupsKept, SemWakeupsKept DEF WakeupsKept
  <1> QED BY <1>1, <1>2, <1>3, PTL DEF SyncSpec

-----------------------------------------------------------------------------
(* The cat and mouse simulation keeps the rules of the problem, for any number *)
(* of cats, mice, bowls and meals.  The rules do not follow from the turn: a     *)
(* creature may eat on its turn while the last one of the other species has yet  *)
(* to leave.  They follow from the counters, which must be exact, and from the   *)
(* bowl locks, which must be held exactly between the choice of a bowl and its   *)
(* release.                                                                     *)

CreatureAt == {"unborn", "sleep", "turn", "bowl", "look", "wait", "asleep", "woken", "again",
          "eat", "eating", "after", "leave", "stats", "done", "finished"}
Eats == {"eat", "eating", "after"}
Sleeps == {"wait", "asleep", "woken", "again"}
HasBowl == {"look", "again", "wait", "eat", "eating", "after", "leave"}

\* The creatures of species s that are at a label of L, when they are where c
\* says.
At(c, s, L) == {x \in Creature : Kind(x) = s /\ c[x] \in L}
AtAll(c, L) == {x \in Creature : c[x] \in L}

\* The meals taken so far, numbered from NumLoops down.
Meals(l, s) == {m \in {x \in Creature : Kind(x) = s} \X (1..NumLoops) : m[2] > l[m[1]]}

CmTypes ==
    /\ lk_for_bowls \in [Bowl -> Creature \union {NoOne}]
    /\ eating \in [Species -> Nat] /\ sleeping \in [Species -> Nat]
    /\ bowls \in [Bowl -> Species \union {NoOne}]
    /\ cpc \in [Creature -> CreatureAt] /\ bowl \in [Creature -> Bowl]
    /\ loops \in [Creature -> 0..NumLoops]
    /\ CatMouseWait \in Nat /\ waited \in Nat /\ wait_count \in [Species -> Nat]
    /\ panicked = FALSE

LocksExact == \A b \in Bowl : \A x \in Creature : lk_for_bowls[b] = x <=> (bowl[x] = b /\ cpc[x] \in HasBowl)

BowlsExact ==
    /\ \A x \in Creature : cpc[x] = "eating" => bowls[bowl[x]] = Kind(x)
    /\ \A b \in Bowl : bowls[b] # NoOne => \E x \in Creature : cpc[x] = "eating" /\ bowl[x] = b

OneSpecies == \A x, y \in Creature : cpc[x] \in Eats /\ cpc[y] \in Eats => Kind(x) = Kind(y)

CreaturesCounted ==
    \A s \in Species :
        /\ eating[s] = Cardinality(At(cpc, s, Eats))
        /\ sleeping[s] = Cardinality(At(cpc, s, Sleeps))

DriverExact ==
    /\ waited + CatMouseWait = Cardinality(AtAll(cpc, {"finished"}))
    /\ \A x \in Creature : cpc[x] \in {"done", "finished"} <=> loops[x] = 0
    /\ \A s \in Species : wait_count[s] = Cardinality(Meals(loops, s))

CmInv == CmTypes /\ LocksExact /\ BowlsExact /\ OneSpecies /\ CreaturesCounted /\ DriverExact

-----------------------------------------------------------------------------
(* Counting *)

\* What the kinds and the labels are: a creature is of its species.
LEMMA Kinds ==
  /\ IsFiniteSet(Creature)
  /\ \A x \in Creature : Kind(x) \in Species /\ Other(Kind(x)) \in Species
  /\ \A s \in Species : Other(s) \in Species /\ Other(s) # s /\ Other(Other(s)) = s /\ s # NoOne
  /\ NoOne \notin Creature
  <1>1. IsFiniteSet(Creature)
    BY CatMouseAssumption, FS_Union DEF Creature
  <1> QED
    BY <1>1, CatMouseAssumption DEF Creature, Kind, Other, Species

\* A set counts one more with a new element, one less without an old one.
LEMMA OneMore ==
  ASSUME NEW S, NEW T, NEW x, IsFiniteSet(S), x \notin S, T = S \union {x}
  PROVE  Cardinality(T) = Cardinality(S) + 1 /\ Cardinality(S) \in Nat /\ Cardinality(T) \in Nat
  BY FS_AddElement, FS_CardinalityType

LEMMA OneLess ==
  ASSUME NEW S, NEW T, NEW x, IsFiniteSet(S), x \in S, T = S \ {x}
  PROVE  Cardinality(T) = Cardinality(S) - 1 /\ Cardinality(S) \in Nat /\ Cardinality(T) \in Nat
  <1>1. IsFiniteSet(T) /\ x \notin T /\ S = T \union {x}
    BY FS_Subset
  <1>2. Cardinality(S) = Cardinality(T) + 1 /\ Cardinality(T) \in Nat
    BY <1>1, OneMore
  <1> QED
    BY <1>2

\* The creatures at a place are finitely many.
LEMMA AtFinite ==
  ASSUME NEW c, NEW s, NEW L
  PROVE  IsFiniteSet(At(c, s, L)) /\ Cardinality(At(c, s, L)) \in Nat
  BY Kinds, FS_Subset, FS_CardinalityType DEF At

\* When creature x moves from where c has it to where d has it, the creatures
\* at a place are one more, one less or as many as they were.
LEMMA Moves ==
  ASSUME NEW c, NEW d, NEW s, NEW L, NEW x \in Creature,
         \A y \in Creature \ {x} : c[y] \in L <=> d[y] \in L
  PROVE  /\ Kind(x) # s \/ (c[x] \in L <=> d[x] \in L)
               => Cardinality(At(d, s, L)) = Cardinality(At(c, s, L))
         /\ Kind(x) = s /\ c[x] \notin L /\ d[x] \in L
               => Cardinality(At(d, s, L)) = Cardinality(At(c, s, L)) + 1
         /\ Kind(x) = s /\ c[x] \in L /\ d[x] \notin L
               => Cardinality(At(d, s, L)) = Cardinality(At(c, s, L)) - 1
  <1>1. CASE Kind(x) # s \/ (c[x] \in L <=> d[x] \in L)
    <2>1. At(d, s, L) = At(c, s, L)
      BY <1>1 DEF At
    <2> QED
      BY <1>1, <2>1
  <1>2. CASE Kind(x) = s /\ c[x] \notin L /\ d[x] \in L
    <2>1. x \notin At(c, s, L) /\ At(d, s, L) = At(c, s, L) \union {x}
      BY <1>2 DEF At
    <2>2. Cardinality(At(d, s, L)) = Cardinality(At(c, s, L)) + 1
      BY <2>1, AtFinite, OneMore
    <2> QED
      BY <1>2, <2>2
  <1>3. CASE Kind(x) = s /\ c[x] \in L /\ d[x] \notin L
    <2>1. x \in At(c, s, L) /\ At(d, s, L) = At(c, s, L) \ {x}
      BY <1>3 DEF At
    <2>2. Cardinality(At(d, s, L)) = Cardinality(At(c, s, L)) - 1
      BY <2>1, AtFinite, OneLess
    <2> QED
      BY <1>3, <2>2
  <1> QED
    BY <1>1, <1>2, <1>3

\* Nobody counted, nobody there.
LEMMA NobodyThere ==
  ASSUME NEW c, NEW s, NEW L, Cardinality(At(c, s, L)) = 0
  PROVE  \A y \in Creature : Kind(y) = s => c[y] \notin L
  <1>1. At(c, s, L) = {}
    BY AtFinite, FS_EmptySet
  <1> QED
    BY <1>1 DEF At

-----------------------------------------------------------------------------
(* What a step that leaves a part of the state alone keeps *)

LEMMA DriverKept ==
  ASSUME DriverExact,
         \A y \in Creature : cpc'[y] = "finished" <=> cpc[y] = "finished",
         \A y \in Creature : cpc'[y] = "done" <=> cpc[y] = "done",
         UNCHANGED driver
  PROVE  DriverExact'
  <1>1. AtAll(cpc', {"finished"}) = AtAll(cpc, {"finished"})
    BY DEF AtAll
  <1>2. waited' = waited /\ CatMouseWait' = CatMouseWait /\ loops' = loops /\ wait_count' = wait_count
    BY DEF driver
  <1>3. (waited + CatMouseWait = Cardinality(AtAll(cpc, {"finished"})))'
    BY <1>1, <1>2 DEF DriverExact
  <1>4. (\A x \in Creature : cpc[x] \in {"done", "finished"} <=> loops[x] = 0)'
    BY <1>2 DEF DriverExact
  <1>5. (\A s \in Species : wait_count[s] = Cardinality(Meals(loops, s)))'
    BY <1>2 DEF DriverExact
  <1> QED
    BY <1>3, <1>4, <1>5 DEF DriverExact

LEMMA BowlsKept ==
  ASSUME CmTypes, BowlsExact,
         \A y \in Creature : cpc'[y] = "eating" <=> cpc[y] = "eating",
         \A y \in Creature : cpc[y] = "eating" => bowl'[y] = bowl[y],
         UNCHANGED bowls
  PROVE  BowlsExact'
  BY DEF BowlsExact, CmTypes

LEMMA LocksKept ==
  ASSUME CmTypes, LocksExact,
         \A y \in Creature : cpc'[y] \in HasBowl <=> cpc[y] \in HasBowl,
         \A y \in Creature : cpc[y] \in HasBowl => bowl'[y] = bowl[y],
         UNCHANGED lk_for_bowls
  PROVE  LocksExact'
  BY DEF LocksExact, CmTypes

LEMMA SpeciesKept ==
  ASSUME OneSpecies, \A y \in Creature : cpc'[y] \in Eats => cpc[y] \in Eats
  PROVE  OneSpecies'
  BY DEF OneSpecies

LEMMA CountedKept ==
  ASSUME CreaturesCounted,
         \A y \in Creature : cpc'[y] \in Eats <=> cpc[y] \in Eats,
         \A y \in Creature : cpc'[y] \in Sleeps <=> cpc[y] \in Sleeps,
         UNCHANGED <<eating, sleeping>>
  PROVE  CreaturesCounted'
  <1>1. \A s \in Species : At(cpc', s, Eats) = At(cpc, s, Eats) /\ At(cpc', s, Sleeps) = At(cpc, s, Sleeps)
    BY DEF At
  <1> QED
    BY <1>1 DEF CreaturesCounted

-----------------------------------------------------------------------------
(* One lemma per action *)

\* A creature that chooses a bowl has no lock and does not eat.
LEMMA ChooseBowlKeeps ==
  ASSUME CmInv, NEW x \in Creature, ChooseBowl(x)
  PROVE  CmInv'
  <1> USE DEF CmInv
  <1>1. cpc[x] = "sleep" /\ cpc' = [cpc EXCEPT ![x] = "turn"]
    BY DEF ChooseBowl, CmGoto
  <1>2. PICK b \in Bowl : bowl' = [bowl EXCEPT ![x] = b]
    BY DEF ChooseBowl
  <1>3. UNCHANGED <<lk_for_bowls, eating, sleeping, cat_mouse_turn, bowls, driver, panicked>>
    BY DEF ChooseBowl, sync
  <1>4. CmTypes'
    BY <1>1, <1>2, <1>3 DEF CmTypes, CreatureAt, driver
  <1>5. \A y \in Creature :
          /\ cpc'[y] \in HasBowl <=> cpc[y] \in HasBowl
          /\ cpc'[y] \in Eats <=> cpc[y] \in Eats
          /\ cpc'[y] \in Sleeps <=> cpc[y] \in Sleeps
          /\ cpc'[y] = "eating" <=> cpc[y] = "eating"
          /\ cpc'[y] = "finished" <=> cpc[y] = "finished"
          /\ cpc'[y] = "done" <=> cpc[y] = "done"
          /\ cpc[y] \in HasBowl => bowl'[y] = bowl[y]
    BY <1>1, <1>2 DEF CmTypes, HasBowl, Eats, Sleeps
  <1>6. \A y \in Creature : cpc[y] = "eating" => bowl'[y] = bowl[y]
    BY <1>5 DEF HasBowl
  <1>7. LocksExact' /\ BowlsExact'
    BY <1>3, <1>5, <1>6, LocksKept, BowlsKept
  <1>8. OneSpecies' /\ CreaturesCounted' /\ DriverExact'
    BY <1>3, <1>5, SpeciesKept, CountedKept, DriverKept
  <1> QED
    BY <1>4, <1>7, <1>8

\* Taking the turn changes the turn only, and the rules do not rest on it.
LEMMA TakeTurnKeeps ==
  ASSUME CmInv, NEW x \in Creature, TakeTurn(x)
  PROVE  CmInv'
  <1> USE DEF CmInv
  <1>1. cpc[x] = "turn" /\ cpc' = [cpc EXCEPT ![x] = "bowl"]
    BY DEF TakeTurn, CmGoto
  <1>3. UNCHANGED <<lk_for_bowls, eating, sleeping, bowls, bowl, driver, panicked>>
    BY DEF TakeTurn
  <1>4. CmTypes'
    BY <1>1, <1>3 DEF CmTypes, CreatureAt, driver
  <1>5. \A y \in Creature :
          /\ cpc'[y] \in HasBowl <=> cpc[y] \in HasBowl
          /\ cpc'[y] \in Eats <=> cpc[y] \in Eats
          /\ cpc'[y] \in Sleeps <=> cpc[y] \in Sleeps
          /\ cpc'[y] = "eating" <=> cpc[y] = "eating"
          /\ cpc'[y] = "finished" <=> cpc[y] = "finished"
          /\ cpc'[y] = "done" <=> cpc[y] = "done"
    BY <1>1 DEF CmTypes, HasBowl, Eats, Sleeps
  <1>7. LocksExact' /\ BowlsExact'
    BY <1>3, <1>5, LocksKept, BowlsKept
  <1>8. OneSpecies' /\ CreaturesCounted' /\ DriverExact'
    BY <1>3, <1>5, SpeciesKept, CountedKept, DriverKept
  <1> QED
    BY <1>4, <1>7, <1>8

\* lock_acquire takes a lock that nobody holds.
LEMMA LockBowlKeeps ==
  ASSUME CmInv, NEW x \in Creature, LockBowl(x)
  PROVE  CmInv'
  <1> USE DEF CmInv
  <1>1. PICK l \in {"look", "again"} :
          /\ cpc' = [cpc EXCEPT ![x] = l]
          /\ (cpc[x] = "bowl" /\ l = "look") \/ (cpc[x] = "woken" /\ l = "again")
    BY DEF LockBowl, CmGoto
  <1>2. bowl[x] \in Bowl /\ lk_for_bowls[bowl[x]] = NoOne /\ lk_for_bowls' = [lk_for_bowls EXCEPT ![bowl[x]] = x]
    BY DEF LockBowl, CmTypes
  <1>3. UNCHANGED <<eating, sleeping, bowls, bowl, driver, panicked>>
    BY DEF LockBowl, sync
  <1>4. CmTypes'
    BY <1>1, <1>2, <1>3 DEF CmTypes, CreatureAt, driver
  <1>5. \A y \in Creature :
          /\ cpc'[y] \in Eats <=> cpc[y] \in Eats
          /\ cpc'[y] \in Sleeps <=> cpc[y] \in Sleeps
          /\ cpc'[y] = "eating" <=> cpc[y] = "eating"
          /\ cpc'[y] = "finished" <=> cpc[y] = "finished"
          /\ cpc'[y] = "done" <=> cpc[y] = "done"
    BY <1>1 DEF CmTypes, Eats, Sleeps
  <1>6. LocksExact'
    <2>1. cpc[x] \notin HasBowl /\ cpc'[x] \in HasBowl /\ \A y \in Creature \ {x} : cpc'[y] = cpc[y]
      BY <1>1 DEF CmTypes, HasBowl
    <2> QED
      BY <1>2, <1>3, <2>1, Kinds DEF LocksExact, CmTypes
  <1>7. BowlsExact'
    BY <1>3, <1>5, BowlsKept
  <1>8. OneSpecies' /\ CreaturesCounted' /\ DriverExact'
    BY <1>3, <1>5, SpeciesKept, CountedKept, DriverKept
  <1> QED
    BY <1>4, <1>6, <1>7, <1>8

\* Giving up the bowl's lock, as cv_wait and after_eating do: the creature held
\* it, and takes no part in a meal.
LEMMA UnlockKeeps ==
  ASSUME CmInv, NEW x \in Creature, NEW l \in CreatureAt,
         cpc' = [cpc EXCEPT ![x] = l],
         (cpc[x] = "wait" /\ l = "asleep") \/ (cpc[x] = "leave" /\ l = "stats"),
         lk_for_bowls' = [lk_for_bowls EXCEPT ![bowl[x]] = NoOne],
         UNCHANGED <<sync, bowls, bowl, driver, panicked>>
  PROVE  CmInv'
  <1> USE DEF CmInv
  <1>3. UNCHANGED <<eating, sleeping, bowls, bowl, driver, panicked>>
    BY DEF sync
  <1>4. CmTypes'
    BY <1>3 DEF CmTypes, CreatureAt, driver
  <1>5. \A y \in Creature :
          /\ cpc'[y] \in Eats <=> cpc[y] \in Eats
          /\ cpc'[y] \in Sleeps <=> cpc[y] \in Sleeps
          /\ cpc'[y] = "eating" <=> cpc[y] = "eating"
          /\ cpc'[y] = "finished" <=> cpc[y] = "finished"
          /\ cpc'[y] = "done" <=> cpc[y] = "done"
    BY DEF CmTypes, Eats, Sleeps
  <1>6. LocksExact'
    <2>1. cpc[x] \in HasBowl /\ cpc'[x] \notin HasBowl /\ \A y \in Creature \ {x} : cpc'[y] = cpc[y]
      BY DEF CmTypes, HasBowl
    <2> QED
      BY <1>3, <2>1, Kinds DEF LocksExact, CmTypes
  <1>7. BowlsExact'
    BY <1>3, <1>5, BowlsKept
  <1>8. OneSpecies' /\ CreaturesCounted' /\ DriverExact'
    BY <1>3, <1>5, SpeciesKept, CountedKept, DriverKept
  <1> QED
    BY <1>4, <1>6, <1>7, <1>8

\* The parts of the invariant that a look at the counters leaves alone, whether
\* the creature goes on to wait or to eat.
LEMMA LookMoves ==
  ASSUME CmInv, NEW x \in Creature, cpc[x] \in {"look", "again"},
         NEW l \in {"wait", "eat"}, CmGoto(x, l),
         eating' \in [Species -> Nat], sleeping' \in [Species -> Nat],
         UNCHANGED <<lk_for_bowls, bowls, bowl, driver, panicked>>
  PROVE  /\ CmTypes' /\ LocksExact' /\ BowlsExact' /\ DriverExact'
         /\ cpc'[x] = l /\ \A y \in Creature \ {x} : cpc'[y] = cpc[y]
  <1> USE DEF CmInv
  <1>1. cpc' = [cpc EXCEPT ![x] = l]
    BY DEF CmGoto
  <1>2. CmTypes'
    BY <1>1 DEF CmTypes, CreatureAt, driver
  <1>3. \A y \in Creature :
          /\ cpc'[y] \in HasBowl <=> cpc[y] \in HasBowl
          /\ cpc'[y] = "eating" <=> cpc[y] = "eating"
          /\ cpc'[y] = "finished" <=> cpc[y] = "finished"
          /\ cpc'[y] = "done" <=> cpc[y] = "done"
    BY <1>1 DEF CmTypes, HasBowl
  <1>4. LocksExact' /\ BowlsExact' /\ DriverExact'
    BY <1>3, LocksKept, BowlsKept, DriverKept
  <1>5. cpc'[x] = l /\ \A y \in Creature \ {x} : cpc'[y] = cpc[y]
    BY <1>1 DEF CmTypes
  <1> QED
    BY <1>2, <1>4, <1>5

\* The while loop of before_eating: who goes to sleep is counted once, also
\* when it slept before, and who goes to eat finds nobody of the other species.
LEMMA LookKeeps ==
  ASSUME CmInv, NEW x \in Creature, Look(x)
  PROVE  CmInv'
  <1> USE DEF CmInv
  <1>s. PICK s \in Species : s = Kind(x)
    BY Kinds
  <1>a. PICK awake : awake = IF cpc[x] = "again" THEN sleeping[s] - 1 ELSE sleeping[s]
    OBVIOUS
  <1>0. eating[s] \in Nat /\ sleeping[s] \in Nat
    BY DEF CmTypes
  <1>1. cpc[x] \in {"look", "again"} /\ cpc[x] \notin Eats /\ (cpc[x] \in Sleeps <=> cpc[x] = "again")
    BY DEF Look, Eats, Sleeps
  <1>2. UNCHANGED <<lk_for_bowls, bowls, bowl, driver, panicked>>
    BY DEF Look
  <1>c. sleeping[s] = Cardinality(At(cpc, s, Sleeps)) /\ eating[s] = Cardinality(At(cpc, s, Eats))
    BY DEF CreaturesCounted
  <1>3. awake \in Nat
    <2>2. CASE cpc[x] = "again"
      <3>1. x \in At(cpc, s, Sleeps)
        BY <1>s, <2>2 DEF At, Sleeps
      <3>2. At(cpc, s, Sleeps) # {}
        BY <3>1
      <3>3. Cardinality(At(cpc, s, Sleeps)) # 0
        BY <3>2, AtFinite, FS_EmptySet
      <3> QED
        BY <1>0, <1>a, <1>c, <2>2, <3>3
    <2> QED
      BY <1>0, <1>a, <2>2
  <1>5. CASE MayNotEat(s) /\ sleeping' = [sleeping EXCEPT ![s] = awake + 1] /\ CmGoto(x, "wait") /\ UNCHANGED eating
    <2>0. eating' \in [Species -> Nat] /\ sleeping' \in [Species -> Nat]
      BY <1>3, <1>5 DEF CmTypes
    <2>1. /\ CmTypes' /\ LocksExact' /\ BowlsExact' /\ DriverExact'
          /\ cpc'[x] = "wait" /\ \A y \in Creature \ {x} : cpc'[y] = cpc[y]
      BY <1>1, <1>2, <1>5, <2>0, LookMoves
    <2>a. cpc'[x] \notin Eats /\ cpc'[x] \in Sleeps
      BY <2>1 DEF Eats, Sleeps
    <2>b. \A y \in Creature \ {x} : (cpc[y] \in Eats <=> cpc'[y] \in Eats) /\ (cpc[y] \in Sleeps <=> cpc'[y] \in Sleeps)
      BY <2>1
    <2>2. OneSpecies'
      BY <2>a, <2>b, SpeciesKept
    <2>4. \A r \in Species : eating'[r] = Cardinality(At(cpc', r, Eats))
      <3>1. \A r \in Species : Cardinality(At(cpc', r, Eats)) = Cardinality(At(cpc, r, Eats))
        BY <1>1, <2>a, <2>b, Moves
      <3> QED
        BY <1>5, <3>1 DEF CreaturesCounted
    <2>5. \A r \in Species : r # s => sleeping'[r] = Cardinality(At(cpc', r, Sleeps))
      <3>1. \A r \in Species : r # s => Cardinality(At(cpc', r, Sleeps)) = Cardinality(At(cpc, r, Sleeps))
        BY <1>s, <2>b, Moves
      <3>2. \A r \in Species : r # s => sleeping'[r] = sleeping[r]
        BY <1>5 DEF CmTypes
      <3> QED
        BY <3>1, <3>2 DEF CreaturesCounted
    <2>6. sleeping'[s] = Cardinality(At(cpc', s, Sleeps))
      <3>0. sleeping'[s] = awake + 1
        BY <1>5 DEF CmTypes
      <3>1. CASE cpc[x] = "again"
        <4>1. Cardinality(At(cpc', s, Sleeps)) = Cardinality(At(cpc, s, Sleeps))
          BY <1>s, <1>1, <2>a, <2>b, <3>1, Moves
        <4> QED
          BY <1>0, <1>a, <1>c, <3>0, <3>1, <4>1
      <3>2. CASE cpc[x] # "again"
        <4>1. Cardinality(At(cpc', s, Sleeps)) = Cardinality(At(cpc, s, Sleeps)) + 1
          BY <1>s, <1>1, <2>a, <2>b, <3>2, Moves
        <4> QED
          BY <1>0, <1>a, <1>c, <3>0, <3>2, <4>1
      <3> QED
        BY <3>1, <3>2
    <2>3. CreaturesCounted'
      BY <2>4, <2>5, <2>6 DEF CreaturesCounted
    <2> QED
      BY <2>1, <2>2, <2>3
  <1>6. CASE ~ MayNotEat(s) /\ sleeping' = [sleeping EXCEPT ![s] = awake] /\ eating' = [eating EXCEPT ![s] = @ + 1] /\ CmGoto(x, "eat")
    <2>0. eating' \in [Species -> Nat] /\ sleeping' \in [Species -> Nat]
      BY <1>0, <1>3, <1>6 DEF CmTypes
    <2>1. /\ CmTypes' /\ LocksExact' /\ BowlsExact' /\ DriverExact'
          /\ cpc'[x] = "eat" /\ \A y \in Creature \ {x} : cpc'[y] = cpc[y]
      BY <1>1, <1>2, <1>6, <2>0, LookMoves
    <2>a. cpc'[x] \in Eats /\ cpc'[x] \notin Sleeps
      BY <2>1 DEF Eats, Sleeps
    <2>b. \A y \in Creature \ {x} : (cpc[y] \in Eats <=> cpc'[y] \in Eats) /\ (cpc[y] \in Sleeps <=> cpc'[y] \in Sleeps)
      BY <2>1
    <2>2. OneSpecies'
      <3>1. Other(s) \in Species /\ eating[Other(s)] = 0
        BY <1>6, Kinds DEF MayNotEat, CmTypes
      <3>2. \A y \in Creature : Kind(y) = Other(s) => cpc[y] \notin Eats
        BY <3>1, NobodyThere DEF CreaturesCounted
      <3>3. \A y \in Creature : cpc'[y] \in Eats => Kind(y) = s
        BY <1>s, <2>b, <3>2 DEF Kind, Other
      <3> QED
        BY <3>3 DEF OneSpecies
    <2>4. \A r \in Species : r # s => eating'[r] = Cardinality(At(cpc', r, Eats))
      <3>1. \A r \in Species : r # s => Cardinality(At(cpc', r, Eats)) = Cardinality(At(cpc, r, Eats))
        BY <1>s, <2>b, Moves
      <3>2. \A r \in Species : r # s => eating'[r] = eating[r]
        BY <1>6 DEF CmTypes
      <3> QED
        BY <3>1, <3>2 DEF CreaturesCounted
    <2>5. \A r \in Species : r # s => sleeping'[r] = Cardinality(At(cpc', r, Sleeps))
      <3>1. \A r \in Species : r # s => Cardinality(At(cpc', r, Sleeps)) = Cardinality(At(cpc, r, Sleeps))
        BY <1>s, <2>b, Moves
      <3>2. \A r \in Species : r # s => sleeping'[r] = sleeping[r]
        BY <1>6 DEF CmTypes
      <3> QED
        BY <3>1, <3>2 DEF CreaturesCounted
    <2>7. eating'[s] = Cardinality(At(cpc', s, Eats))
      <3>1. Cardinality(At(cpc', s, Eats)) = Cardinality(At(cpc, s, Eats)) + 1
        BY <1>s, <1>1, <2>a, <2>b, Moves
      <3>2. eating'[s] = eating[s] + 1
        BY <1>6 DEF CmTypes
      <3> QED
        BY <1>c, <3>1, <3>2
    <2>6. sleeping'[s] = Cardinality(At(cpc', s, Sleeps))
      <3>0. sleeping'[s] = awake
        BY <1>6 DEF CmTypes
      <3>1. CASE cpc[x] = "again"
        <4>1. Cardinality(At(cpc', s, Sleeps)) = Cardinality(At(cpc, s, Sleeps)) - 1
          BY <1>s, <1>1, <2>a, <2>b, <3>1, Moves
        <4> QED
          BY <1>0, <1>a, <1>c, <3>0, <3>1, <4>1
      <3>2. CASE cpc[x] # "again"
        <4>1. Cardinality(At(cpc', s, Sleeps)) = Cardinality(At(cpc, s, Sleeps))
          BY <1>s, <1>1, <2>a, <2>b, <3>2, Moves
        <4> QED
          BY <1>0, <1>a, <1>c, <3>0, <3>2, <4>1
      <3> QED
        BY <3>1, <3>2
    <2>3. CreaturesCounted'
      BY <2>4, <2>5, <2>6, <2>7 DEF CreaturesCounted
    <2> QED
      BY <2>1, <2>2, <2>3
  <1> QED
    BY <1>s, <1>a, <1>5, <1>6 DEF Look

\* The checks of cat_eat and mouse_eat succeed: whoever is recorded at the bowl
\* holds its lock, and whoever eats is of one species.
LEMMA StartMealKeeps ==
  ASSUME CmInv, NEW x \in Creature, StartMeal(x)
  PROVE  CmInv'
  <1> USE DEF CmInv
  <1>0. cpc[x] = "eat" /\ bowl[x] \in Bowl /\ Kind(x) \in Species
    BY Kinds DEF StartMeal, CmTypes
  <1>1. bowls[bowl[x]] = NoOne
    <2>1. SUFFICES ASSUME bowls[bowl[x]] # NoOne PROVE FALSE
      OBVIOUS
    <2>2. PICK y \in Creature : cpc[y] = "eating" /\ bowl[y] = bowl[x]
      BY <1>0, <2>1 DEF BowlsExact
    <2>3. lk_for_bowls[bowl[x]] = x
      BY <1>0 DEF LocksExact, HasBowl
    <2>4. lk_for_bowls[bowl[x]] = y
      BY <1>0, <2>2 DEF LocksExact, HasBowl
    <2> QED
      BY <1>0, <2>2, <2>3, <2>4
  <1>2. ~ \E b \in Bowl : bowls[b] = Other(Kind(x))
    <2>1. SUFFICES ASSUME NEW b \in Bowl, bowls[b] = Other(Kind(x)) PROVE FALSE
      OBVIOUS
    <2>2. Other(Kind(x)) \in Species /\ Other(Kind(x)) # Kind(x) /\ Other(Kind(x)) # NoOne
      BY <1>0, Kinds
    <2>3. PICK y \in Creature : cpc[y] = "eating" /\ bowl[y] = b
      BY <2>1, <2>2 DEF BowlsExact
    <2>4. Kind(y) = Other(Kind(x))
      BY <2>1, <2>3 DEF BowlsExact
    <2>5. Kind(x) = Kind(y)
      BY <1>0, <2>3 DEF OneSpecies, Eats
    <2> QED
      BY <2>2, <2>4, <2>5
  <1>3. /\ bowls' = [bowls EXCEPT ![bowl[x]] = Kind(x)]
        /\ cpc' = [cpc EXCEPT ![x] = "eating"]
        /\ UNCHANGED <<lk_for_bowls, eating, sleeping, bowl, driver, panicked>>
    BY <1>1, <1>2 DEF StartMeal, CmGoto, sync
  <1>4. CmTypes'
    BY <1>0, <1>3 DEF CmTypes, CreatureAt, driver
  <1>5. \A y \in Creature :
          /\ cpc'[y] \in HasBowl <=> cpc[y] \in HasBowl
          /\ cpc'[y] \in Eats <=> cpc[y] \in Eats
          /\ cpc'[y] \in Sleeps <=> cpc[y] \in Sleeps
          /\ cpc'[y] = "finished" <=> cpc[y] = "finished"
          /\ cpc'[y] = "done" <=> cpc[y] = "done"
    BY <1>0, <1>3 DEF CmTypes, HasBowl, Eats, Sleeps
  <1>6. BowlsExact'
    <2>1. cpc'[x] = "eating" /\ \A y \in Creature \ {x} : cpc'[y] = cpc[y]
      BY <1>3 DEF CmTypes
    <2>2. bowls'[bowl[x]] = Kind(x) /\ \A b \in Bowl \ {bowl[x]} : bowls'[b] = bowls[b]
      BY <1>0, <1>3 DEF CmTypes
    <2>3. ASSUME NEW y \in Creature, cpc'[y] = "eating" PROVE bowls'[bowl'[y]] = Kind(y)
      <3>1. CASE y = x
        BY <1>3, <2>2, <3>1
      <3>2. CASE y # x
        <4>1. cpc[y] = "eating" /\ bowl[y] \in Bowl
          BY <2>1, <2>3, <3>2 DEF CmTypes
        <4>2. bowls[bowl[y]] = Kind(y)
          BY <4>1 DEF BowlsExact
        <4>3. bowl[y] # bowl[x]
          BY <1>1, <4>2, Kinds
        <4> QED
          BY <1>3, <2>2, <4>1, <4>2, <4>3
      <3> QED
        BY <3>1, <3>2
    <2>4. ASSUME NEW b \in Bowl, bowls'[b] # NoOne PROVE \E y \in Creature : cpc'[y] = "eating" /\ bowl'[y] = b
      <3>1. CASE b = bowl[x]
        BY <1>3, <2>1, <3>1
      <3>2. CASE b # bowl[x]
        <4>1. PICK y \in Creature : cpc[y] = "eating" /\ bowl[y] = b
          BY <2>2, <2>4, <3>2 DEF BowlsExact
        <4> QED
          BY <1>3, <2>1, <3>2, <4>1
      <3> QED
        BY <3>1, <3>2
    <2> QED
      BY <2>3, <2>4 DEF BowlsExact
  <1>7. LocksExact'
    BY <1>3, <1>5, LocksKept
  <1>8. OneSpecies' /\ CreaturesCounted' /\ DriverExact'
    BY <1>3, <1>5, SpeciesKept, CountedKept, DriverKept
  <1> QED
    BY <1>4, <1>6, <1>7, <1>8

\* Nobody else was recorded at the bowl while its lock was held.
LEMMA EndMealKeeps ==
  ASSUME CmInv, NEW x \in Creature, EndMeal(x)
  PROVE  CmInv'
  <1> USE DEF CmInv
  <1>0. cpc[x] = "eating" /\ bowl[x] \in Bowl /\ bowls[bowl[x]] = Kind(x)
    BY DEF EndMeal, CmTypes, BowlsExact
  <1>3. /\ bowls' = [bowls EXCEPT ![bowl[x]] = NoOne]
        /\ cpc' = [cpc EXCEPT ![x] = "after"]
        /\ UNCHANGED <<lk_for_bowls, eating, sleeping, bowl, driver, panicked>>
    BY <1>0 DEF EndMeal, CmGoto, sync
  <1>4. CmTypes'
    BY <1>0, <1>3 DEF CmTypes, CreatureAt, driver
  <1>5. \A y \in Creature :
          /\ cpc'[y] \in HasBowl <=> cpc[y] \in HasBowl
          /\ cpc'[y] \in Eats <=> cpc[y] \in Eats
          /\ cpc'[y] \in Sleeps <=> cpc[y] \in Sleeps
          /\ cpc'[y] = "finished" <=> cpc[y] = "finished"
          /\ cpc'[y] = "done" <=> cpc[y] = "done"
    BY <1>0, <1>3 DEF CmTypes, HasBowl, Eats, Sleeps
  <1>6. BowlsExact'
    <2>1. cpc'[x] = "after" /\ \A y \in Creature \ {x} : cpc'[y] = cpc[y]
      BY <1>3 DEF CmTypes
    <2>2. bowls'[bowl[x]] = NoOne /\ \A b \in Bowl \ {bowl[x]} : bowls'[b] = bowls[b]
      BY <1>0, <1>3 DEF CmTypes
    <2>3. ASSUME NEW y \in Creature, cpc'[y] = "eating" PROVE bowls'[bowl'[y]] = Kind(y)
      <3>1. cpc[y] = "eating" /\ bowl[y] \in Bowl /\ y # x
        BY <2>1, <2>3 DEF CmTypes
      <3>2. bowls[bowl[y]] = Kind(y)
        BY <3>1 DEF BowlsExact
      <3>3. lk_for_bowls[bowl[x]] = x /\ lk_for_bowls[bowl[y]] = y
        BY <1>0, <3>1 DEF LocksExact, HasBowl
      <3> QED
        BY <1>3, <2>2, <3>1, <3>2, <3>3
    <2>4. ASSUME NEW b \in Bowl, bowls'[b] # NoOne PROVE \E y \in Creature : cpc'[y] = "eating" /\ bowl'[y] = b
      <3>1. b # bowl[x] /\ bowls[b] # NoOne
        BY <2>2, <2>4
      <3>2. PICK y \in Creature : cpc[y] = "eating" /\ bowl[y] = b
        BY <3>1 DEF BowlsExact
      <3> QED
        BY <1>3, <2>1, <3>1, <3>2
    <2> QED
      BY <2>3, <2>4 DEF BowlsExact
  <1>7. LocksExact'
    BY <1>3, <1>5, LocksKept
  <1>8. OneSpecies' /\ CreaturesCounted' /\ DriverExact'
    BY <1>3, <1>5, SpeciesKept, CountedKept, DriverKept
  <1> QED
    BY <1>4, <1>6, <1>7, <1>8

\* after_eating: one fewer eats; the creatures it wakes still count as asleep.
LEMMA AfterKeeps ==
  ASSUME CmInv, NEW x \in Creature, After(x)
  PROVE  CmInv'
  <1> USE DEF CmInv
  <1>s. PICK s \in Species : s = Kind(x)
    BY Kinds
  <1>0. cpc[x] = "after" /\ eating[s] \in Nat
    BY DEF After, CmTypes
  <1>1. /\ eating' = [eating EXCEPT ![s] = eating[s] - 1]
        /\ UNCHANGED <<lk_for_bowls, sleeping, bowls, bowl, driver, panicked>>
    BY <1>s DEF After
  <1>2. /\ cpc' \in [Creature -> CreatureAt] /\ cpc'[x] = "leave"
        /\ \A y \in Creature \ {x} : cpc'[y] = cpc[y] \/ (cpc[y] = "asleep" /\ cpc'[y] = "woken")
    <2>1. \/ CmGoto(x, "leave")
          \/ \E r \in {Kind(x), Other(Kind(x))} : cpc' = [Broadcast(r, "woken") EXCEPT ![x] = "leave"]
      BY DEF After
    <2>2. CASE CmGoto(x, "leave")
      BY <2>2 DEF CmGoto, CmTypes, CreatureAt
    <2>3. ASSUME NEW r, cpc' = [Broadcast(r, "woken") EXCEPT ![x] = "leave"]
          PROVE  <1>2!:
      <3>1. PICK f : f = Broadcast(r, "woken")
        OBVIOUS
      <3>2. f \in [Creature -> CreatureAt] /\ \A y \in Creature : f[y] = cpc[y] \/ (cpc[y] = "asleep" /\ f[y] = "woken")
        BY <3>1 DEF Broadcast, CmTypes, CreatureAt
      <3>3. cpc' = [f EXCEPT ![x] = "leave"]
        BY <2>3, <3>1
      <3>4. cpc' \in [Creature -> CreatureAt]
        BY <3>2, <3>3 DEF CreatureAt
      <3> QED
        BY <3>2, <3>3, <3>4
    <2> QED
      BY <2>1, <2>2, <2>3
  <1>3. \A y \in Creature :
          /\ cpc'[y] \in HasBowl <=> cpc[y] \in HasBowl
          /\ cpc'[y] \in Eats => cpc[y] \in Eats
          /\ cpc'[y] \in Sleeps <=> cpc[y] \in Sleeps
          /\ cpc'[y] = "eating" <=> cpc[y] = "eating"
          /\ cpc'[y] = "finished" <=> cpc[y] = "finished"
          /\ cpc'[y] = "done" <=> cpc[y] = "done"
    BY <1>0, <1>2 DEF HasBowl, Eats, Sleeps
  <1>4. cpc[x] \in Eats /\ cpc'[x] \notin Eats /\ \A y \in Creature \ {x} : cpc[y] \in Eats <=> cpc'[y] \in Eats
    BY <1>0, <1>2 DEF Eats
  <1>5. eating[s] = Cardinality(At(cpc, s, Eats)) /\ Cardinality(At(cpc', s, Eats)) = Cardinality(At(cpc, s, Eats)) - 1
    BY <1>s, <1>4, Moves DEF CreaturesCounted
  <1>6. eating[s] - 1 \in Nat
    BY <1>0, <1>5, AtFinite
  <1>7. CmTypes'
    <2>1. eating' \in [Species -> Nat]
      BY <1>1, <1>6 DEF CmTypes
    <2> QED
      BY <1>1, <1>2, <2>1 DEF CmTypes, driver
  <1>8. LocksExact' /\ BowlsExact' /\ OneSpecies' /\ DriverExact'
    BY <1>1, <1>3, LocksKept, BowlsKept, SpeciesKept, DriverKept
  <1>9. CreaturesCounted'
    <2>1. \A r \in Species : At(cpc', r, Sleeps) = At(cpc, r, Sleeps)
      BY <1>3 DEF At
    <2>2. \A r \in Species : sleeping'[r] = Cardinality(At(cpc', r, Sleeps))
      BY <1>1, <2>1 DEF CreaturesCounted
    <2>3. \A r \in Species : r # s => Cardinality(At(cpc', r, Eats)) = Cardinality(At(cpc, r, Eats))
      BY <1>s, <1>4, Moves
    <2>4. eating'[s] = eating[s] - 1 /\ \A r \in Species : r # s => eating'[r] = eating[r]
      BY <1>1 DEF CmTypes
    <2>5. \A r \in Species : eating'[r] = Cardinality(At(cpc', r, Eats))
      BY <1>5, <2>3, <2>4 DEF CreaturesCounted
    <2> QED
      BY <2>2, <2>5 DEF CreaturesCounted
  <1> QED
    BY <1>7, <1>8, <1>9

\* The meals of a species are finitely many.
LEMMA MealsFinite ==
  ASSUME NEW l, NEW s
  PROVE  IsFiniteSet(Meals(l, s)) /\ Cardinality(Meals(l, s)) \in Nat
  <1>1. IsFiniteSet({x \in Creature : Kind(x) = s})
    BY Kinds, FS_Subset
  <1>2. IsFiniteSet(1..NumLoops)
    BY CatMouseAssumption, FS_Interval
  <1>3. IsFiniteSet({x \in Creature : Kind(x) = s} \X (1..NumLoops))
    BY <1>1, <1>2, FS_Product
  <1>4. Meals(l, s) \subseteq {x \in Creature : Kind(x) = s} \X (1..NumLoops)
    BY DEF Meals
  <1> QED
    BY <1>3, <1>4, FS_Subset, FS_CardinalityType

\* One turn of the loop of a creature is one meal of its species, and no meal
\* of the other.
LEMMA OneMeal ==
  ASSUME NEW l \in [Creature -> 0..NumLoops], NEW x \in Creature, l[x] # 0,
         NEW k, k[x] = l[x] - 1, \A y \in Creature \ {x} : k[y] = l[y], NEW s
  PROVE  Cardinality(Meals(k, s)) = Cardinality(Meals(l, s)) + (IF Kind(x) = s THEN 1 ELSE 0)
  <1>0. l[x] \in 1..NumLoops /\ NumLoops \in Nat
    BY CatMouseAssumption
  <1>1. k[x] = l[x] - 1 /\ \A y \in Creature \ {x} : k[y] = l[y]
    OBVIOUS
  <1>2. CASE Kind(x) # s
    <2>1. \A m \in {y \in Creature : Kind(y) = s} \X (1..NumLoops) : k[m[1]] = l[m[1]]
      BY <1>1, <1>2
    <2>2. Meals(k, s) = Meals(l, s)
      BY <2>1 DEF Meals
    <2> QED
      BY <1>2, <2>2, MealsFinite
  <1>3. CASE Kind(x) = s
    <2>1. <<x, l[x]>> \in {y \in Creature : Kind(y) = s} \X (1..NumLoops)
      BY <1>0, <1>3
    <2>2. <<x, l[x]>> \notin Meals(l, s)
      BY <1>0 DEF Meals
    <2>3. ASSUME NEW m \in {y \in Creature : Kind(y) = s} \X (1..NumLoops)
          PROVE  m[2] > k[m[1]] <=> (m[2] > l[m[1]] \/ m = <<x, l[x]>>)
      <3>1. PICK y \in Creature, j \in 1..NumLoops : m = <<y, j>>
        OBVIOUS
      <3>2. l[y] \in 0..NumLoops
        OBVIOUS
      <3>3. j > k[y] <=> (j > l[y] \/ (y = x /\ j = l[x]))
        <4>1. CASE y = x
          BY <1>0, <1>1, <4>1
        <4>2. CASE y # x
          BY <1>1, <4>2
        <4> QED
          BY <4>1, <4>2
      <3> QED
        BY <3>1, <3>3
    <2>4. Meals(k, s) = Meals(l, s) \union {<<x, l[x]>>}
      BY <2>1, <2>3 DEF Meals
    <2>5. Cardinality(Meals(k, s)) = Cardinality(Meals(l, s)) + 1
      BY <2>2, <2>4, MealsFinite, OneMore
    <2> QED
      BY <1>3, <2>5
  <1> QED
    BY <1>2, <1>3

\* The end of the loop: every meal is counted, and a creature that took its last
\* one, and no other, is done.
LEMMA UpdateStatsKeeps ==
  ASSUME CmInv, NEW x \in Creature, UpdateStats(x)
  PROVE  CmInv'
  <1> USE DEF CmInv
  <1>0. /\ cpc[x] = "stats" /\ loops[x] \in 0..NumLoops /\ loops[x] # 0 /\ NumLoops \in Nat
        /\ Kind(x) \in Species /\ wait_count[Kind(x)] \in Nat
    BY Kinds, CatMouseAssumption DEF UpdateStats, CmTypes, DriverExact
  <1>1. PICK l \in {"done", "sleep"} : cpc' = [cpc EXCEPT ![x] = l] /\ (l = "done" <=> loops[x] = 1)
    BY DEF UpdateStats, CmGoto
  <1>2. /\ loops' = [loops EXCEPT ![x] = loops[x] - 1]
        /\ wait_count' = [wait_count EXCEPT ![Kind(x)] = wait_count[Kind(x)] + 1]
        /\ UNCHANGED <<lk_for_bowls, eating, sleeping, bowls, bowl, CatMouseWait, waited, cleaned, panicked>>
    BY DEF UpdateStats, sync
  <1>3. CmTypes'
    <2>1. loops' \in [Creature -> 0..NumLoops] /\ wait_count' \in [Species -> Nat]
      BY <1>0, <1>2 DEF CmTypes
    <2> QED
      BY <1>1, <1>2, <2>1 DEF CmTypes, CreatureAt
  <1>4. \A y \in Creature :
          /\ cpc'[y] \in HasBowl <=> cpc[y] \in HasBowl
          /\ cpc'[y] \in Eats <=> cpc[y] \in Eats
          /\ cpc'[y] \in Sleeps <=> cpc[y] \in Sleeps
          /\ cpc'[y] = "eating" <=> cpc[y] = "eating"
    BY <1>0, <1>1 DEF CmTypes, HasBowl, Eats, Sleeps
  <1>5. LocksExact' /\ BowlsExact'
    BY <1>2, <1>4, LocksKept, BowlsKept
  <1>6. OneSpecies' /\ CreaturesCounted'
    BY <1>2, <1>4, SpeciesKept, CountedKept
  <1>7. cpc'[x] = l /\ \A y \in Creature \ {x} : cpc'[y] = cpc[y]
    BY <1>1 DEF CmTypes
  <1>8. (\A y \in Creature : cpc[y] \in {"done", "finished"} <=> loops[y] = 0)'
    <2>1. loops'[x] = loops[x] - 1 /\ \A y \in Creature \ {x} : loops'[y] = loops[y]
      BY <1>2 DEF CmTypes
    <2> QED
      BY <1>0, <1>1, <1>7, <2>1 DEF DriverExact
  <1>9. (waited + CatMouseWait = Cardinality(AtAll(cpc, {"finished"})))'
    <2>1. AtAll(cpc', {"finished"}) = AtAll(cpc, {"finished"})
      BY <1>0, <1>1, <1>7 DEF AtAll
    <2> QED
      BY <1>2, <2>1 DEF DriverExact
  <1>10. (\A s \in Species : wait_count[s] = Cardinality(Meals(loops, s)))'
    <2>1. \A s \in Species : Cardinality(Meals(loops', s)) = Cardinality(Meals(loops, s)) + (IF Kind(x) = s THEN 1 ELSE 0)
      <3>1. loops \in [Creature -> 0..NumLoops] /\ loops[x] # 0 /\ loops' = [loops EXCEPT ![x] = loops[x] - 1]
        BY <1>0, <1>2 DEF CmTypes
      <3>2. PICK k, l0 : k = loops' /\ l0 = loops
        OBVIOUS
      <3>4. /\ l0 \in [Creature -> 0..NumLoops] /\ l0[x] # 0
            /\ k[x] = l0[x] - 1 /\ \A y \in Creature \ {x} : k[y] = l0[y]
        BY <3>1, <3>2
      <3>3. ASSUME NEW s \in Species
            PROVE  Cardinality(Meals(k, s)) = Cardinality(Meals(l0, s)) + (IF Kind(x) = s THEN 1 ELSE 0)
        BY <3>4, OneMeal
      <3> QED
        BY <3>2, <3>3
    <2>2. \A s \in Species : wait_count'[s] = wait_count[s] + (IF Kind(x) = s THEN 1 ELSE 0)
      BY <1>2 DEF CmTypes
    <2> QED
      BY <2>1, <2>2 DEF DriverExact
  <1>11. DriverExact'
    BY <1>8, <1>9, <1>10 DEF DriverExact
  <1> QED
    BY <1>3, <1>5, <1>6, <1>11

\* V(CatMouseWait): a creature that is done tells the driver, and does so once.
LEMMA FinishKeeps ==
  ASSUME CmInv, NEW x \in Creature, Finish(x)
  PROVE  CmInv'
  <1> USE DEF CmInv
  <1>1. cpc[x] = "done" /\ cpc' = [cpc EXCEPT ![x] = "finished"]
    BY DEF Finish, CmGoto
  <1>2. /\ CatMouseWait' = CatMouseWait + 1
        /\ UNCHANGED <<lk_for_bowls, eating, sleeping, bowls, bowl, loops, waited, wait_count, panicked>>
    BY DEF Finish, sync
  <1>3. CmTypes'
    BY <1>1, <1>2 DEF CmTypes, CreatureAt
  <1>4. \A y \in Creature :
          /\ cpc'[y] \in HasBowl <=> cpc[y] \in HasBowl
          /\ cpc'[y] \in Eats <=> cpc[y] \in Eats
          /\ cpc'[y] \in Sleeps <=> cpc[y] \in Sleeps
          /\ cpc'[y] = "eating" <=> cpc[y] = "eating"
    BY <1>1 DEF CmTypes, HasBowl, Eats, Sleeps
  <1>5. LocksExact' /\ BowlsExact' /\ OneSpecies' /\ CreaturesCounted'
    BY <1>2, <1>4, LocksKept, BowlsKept, SpeciesKept, CountedKept
  <1>6. cpc'[x] = "finished" /\ \A y \in Creature \ {x} : cpc'[y] = cpc[y]
    BY <1>1 DEF CmTypes
  <1>7. (waited + CatMouseWait = Cardinality(AtAll(cpc, {"finished"})))'
    <2>1. x \notin AtAll(cpc, {"finished"}) /\ IsFiniteSet(AtAll(cpc, {"finished"}))
      BY <1>1, Kinds, FS_Subset DEF AtAll
    <2>2. AtAll(cpc', {"finished"}) = AtAll(cpc, {"finished"}) \union {x}
      BY <1>6 DEF AtAll
    <2>3. Cardinality(AtAll(cpc', {"finished"})) = Cardinality(AtAll(cpc, {"finished"})) + 1
      BY <2>1, <2>2, OneMore
    <2> QED
      BY <1>2, <2>3 DEF DriverExact, CmTypes
  <1>8. (\A y \in Creature : cpc[y] \in {"done", "finished"} <=> loops[y] = 0)'
    BY <1>1, <1>2, <1>6 DEF DriverExact
  <1>9. (\A s \in Species : wait_count[s] = Cardinality(Meals(loops, s)))'
    BY <1>2 DEF DriverExact
  <1>10. DriverExact'
    BY <1>7, <1>8, <1>9 DEF DriverExact
  <1> QED
    BY <1>3, <1>5, <1>10

\* thread_fork: a new creature starts outside.
LEMMA ForkCreatureKeeps ==
  ASSUME CmInv, NEW x \in Creature, ForkCreature(x)
  PROVE  CmInv'
  <1> USE DEF CmInv
  <1>1. cpc[x] = "unborn" /\ cpc' = [cpc EXCEPT ![x] = "sleep"]
    BY DEF ForkCreature, CmGoto, Unborn
  <1>3. UNCHANGED <<lk_for_bowls, eating, sleeping, bowls, bowl, driver, panicked>>
    BY DEF ForkCreature, sync
  <1>4. CmTypes'
    BY <1>1, <1>3 DEF CmTypes, CreatureAt, driver
  <1>5. \A y \in Creature :
          /\ cpc'[y] \in HasBowl <=> cpc[y] \in HasBowl
          /\ cpc'[y] \in Eats <=> cpc[y] \in Eats
          /\ cpc'[y] \in Sleeps <=> cpc[y] \in Sleeps
          /\ cpc'[y] = "eating" <=> cpc[y] = "eating"
          /\ cpc'[y] = "finished" <=> cpc[y] = "finished"
          /\ cpc'[y] = "done" <=> cpc[y] = "done"
    BY <1>1 DEF CmTypes, HasBowl, Eats, Sleeps
  <1>7. LocksExact' /\ BowlsExact'
    BY <1>3, <1>5, LocksKept, BowlsKept
  <1>8. OneSpecies' /\ CreaturesCounted' /\ DriverExact'
    BY <1>3, <1>5, SpeciesKept, CountedKept, DriverKept
  <1> QED
    BY <1>4, <1>7, <1>8

\* P(CatMouseWait), and the cleanup that follows the last one.
LEMMA DriverKeeps ==
  ASSUME CmInv, WaitForOne \/ cleanup_bowls
  PROVE  CmInv'
  <1> USE DEF CmInv
  <1>1. UNCHANGED <<lk_for_bowls, eating, sleeping, bowls, cpc, bowl, loops, wait_count, panicked>>
    BY DEF WaitForOne, cleanup_bowls, sync
  <1>2. /\ waited' \in Nat /\ CatMouseWait' \in Nat
        /\ waited' + CatMouseWait' = waited + CatMouseWait
    BY DEF WaitForOne, cleanup_bowls, CmTypes
  <1>3. CmTypes'
    BY <1>1, <1>2 DEF CmTypes
  <1>4. LocksExact' /\ BowlsExact' /\ OneSpecies' /\ CreaturesCounted'
    BY <1>1, LocksKept, BowlsKept, SpeciesKept, CountedKept
  <1>5. DriverExact'
    BY <1>1, <1>2 DEF DriverExact
  <1> QED
    BY <1>3, <1>4, <1>5

\* Nothing is held, counted or eaten when the menu starts the simulation.
LEMMA CmInitEstablishes == CmInit => CmInv
  <1> SUFFICES ASSUME CmInit PROVE CmInv
    OBVIOUS
  <1> USE DEF CmInit, catmouse_sync_init, initialize_bowls
  <1>0. NumBowls \in Nat \ {0} /\ NumLoops \in Nat \ {0}
    BY CatMouseAssumption
  <1>1. CmTypes
    BY <1>0 DEF CmTypes, CreatureAt, Bowl
  <1>2. LocksExact /\ BowlsExact /\ OneSpecies
    BY Kinds DEF LocksExact, BowlsExact, OneSpecies, HasBowl, Eats
  <1>3. CreaturesCounted
    <2>1. \A s \in Species : At(cpc, s, Eats) = {} /\ At(cpc, s, Sleeps) = {}
      BY DEF At, Eats, Sleeps
    <2> QED
      BY <2>1, FS_EmptySet DEF CreaturesCounted
  <1>4. DriverExact
    <2>1. AtAll(cpc, {"finished"}) = {}
      BY DEF AtAll
    <2>2. \A s \in Species : Meals(loops, s) = {}
      <3>1. SUFFICES ASSUME NEW s \in Species, NEW m \in Meals(loops, s) PROVE FALSE
        OBVIOUS
      <3>2. PICK y \in Creature, j \in 1..NumLoops : m = <<y, j>> /\ j > loops[y]
        BY DEF Meals
      <3> QED
        BY <1>0, <3>2
    <2>3. \A x \in Creature : cpc[x] \notin {"done", "finished"} /\ loops[x] # 0
      BY <1>0
    <2>4. Cardinality({}) = 0
      BY FS_EmptySet
    <2> QED
      BY <2>1, <2>2, <2>3, <2>4 DEF DriverExact
  <1> QED
    BY <1>1, <1>2, <1>3, <1>4 DEF CmInv

\* Every step keeps the invariant.
LEMMA CmNextKeeps == CmInv /\ [CmNext]_cmVars => CmInv'
  <1> SUFFICES ASSUME CmInv, [CmNext]_cmVars PROVE CmInv'
    OBVIOUS
  <1>1. ASSUME NEW x \in Creature, Creatures(x) PROVE CmInv'
    <2>a. cat_simulation(x) \/ mouse_simulation(x)
      BY <1>1 DEF Creatures
    <2>b. \/ ChooseBowl(x) \/ before_eating(x) \/ StartMeal(x) \/ EndMeal(x)
          \/ after_eating(x) \/ UpdateStats(x) \/ Finish(x)
      BY <2>a DEF cat_simulation, mouse_simulation, cat_before_eating, mouse_before_eating,
                  cat_eat, mouse_eat, cat_after_eating, mouse_after_eating
    <2>1. \/ ChooseBowl(x) \/ TakeTurn(x) \/ LockBowl(x) \/ Look(x) \/ Wait(x) \/ StartMeal(x)
          \/ EndMeal(x) \/ After(x) \/ Leave(x) \/ UpdateStats(x) \/ Finish(x)
      BY <2>b DEF before_eating, after_eating
    <2>2. CASE Wait(x)
      BY <2>2, UnlockKeeps DEF Wait, CmGoto, CreatureAt
    <2>3. CASE Leave(x)
      BY <2>3, UnlockKeeps DEF Leave, CmGoto, CreatureAt
    <2> QED
      BY <2>1, <2>2, <2>3, ChooseBowlKeeps, TakeTurnKeeps, LockBowlKeeps, LookKeeps, StartMealKeeps,
         EndMealKeeps, AfterKeeps, UpdateStatsKeeps, FinishKeeps
  <1>2. CASE catmouse
    BY <1>2, ForkCreatureKeeps, DriverKeeps DEF catmouse
  <1>3. CASE UNCHANGED cmVars
    BY <1>3 DEF cmVars, CmInv, CmTypes, LocksExact, BowlsExact, OneSpecies, CreaturesCounted, DriverExact
  <1> QED
    BY <1>1, <1>2, <1>3 DEF CmNext

\* The invariant implies the rules of the problem, the meaning of the counters
\* and the safety of the cleanup.
LEMMA CmInvSound == CmInv => CatMouseSound
  <1> SUFFICES ASSUME CmInv PROVE CatMouseSound
    OBVIOUS
  <1> USE DEF CmInv
  <1>1. NeverPanics
    BY DEF NeverPanics, CmTypes
  <1>2. CountersExact
    BY DEF CountersExact, CreaturesCounted, At, Eats, Sleeps
  <1>3. ASSUME AllFinished PROVE CleanupSafe
    <2>1. AtAll(cpc, {"finished"}) = Creature
      <3>1. AtAll(cpc, {"finished"}) \subseteq Creature
        BY DEF AtAll
      <3>2. /\ Cardinality(AtAll(cpc, {"finished"})) <= Cardinality(Creature)
            /\ Cardinality(AtAll(cpc, {"finished"})) = Cardinality(Creature) => AtAll(cpc, {"finished"}) = Creature
        BY <3>1, Kinds, FS_Subset
      <3>3. Cardinality(Creature) \in Nat /\ Cardinality(AtAll(cpc, {"finished"})) \in Nat
        BY <3>1, Kinds, FS_Subset, FS_CardinalityType
      <3>4. Cardinality(AtAll(cpc, {"finished"})) >= Cardinality(Creature)
        BY <1>3, <3>3 DEF DriverExact, AllFinished, CmTypes
      <3> QED
        BY <3>2, <3>3, <3>4
    <2>2. \A x \in Creature : cpc[x] = "finished" /\ loops[x] = 0
      BY <2>1 DEF AtAll, DriverExact
    <2>3. \A b \in Bowl : lk_for_bowls[b] = NoOne
      BY <2>2 DEF LocksExact, HasBowl, CmTypes
    <2>4. \A s \in Species : wait_count[s] = Cardinality({x \in Creature : Kind(x) = s}) * NumLoops
      <3>1. SUFFICES ASSUME NEW s \in Species
                     PROVE  Cardinality(Meals(loops, s)) = Cardinality({x \in Creature : Kind(x) = s}) * NumLoops
        BY DEF DriverExact
      <3>2. Meals(loops, s) = {x \in Creature : Kind(x) = s} \X (1..NumLoops)
        <4>1. ASSUME NEW m \in {x \in Creature : Kind(x) = s} \X (1..NumLoops) PROVE m[2] > loops[m[1]]
          BY <2>2, CatMouseAssumption
        <4> QED
          BY <4>1 DEF Meals
      <3>3. IsFiniteSet({x \in Creature : Kind(x) = s})
        BY Kinds, FS_Subset
      <3>4. IsFiniteSet(1..NumLoops) /\ Cardinality(1..NumLoops) = NumLoops
        BY CatMouseAssumption, FS_Interval
      <3> QED
        BY <3>2, <3>3, <3>4, FS_Product
    <2>5. {x \in Creature : Kind(x) = "cat"} = Cat /\ {x \in Creature : Kind(x) = "mouse"} = Mouse
      BY CatMouseAssumption DEF Creature, Kind
    <2>6. Cardinality(Cat) \in Nat /\ Cardinality(Mouse) \in Nat /\ NumLoops \in Nat
      BY CatMouseAssumption, FS_CardinalityType
    <2>7. wait_count["cat"] = Cardinality(Cat) * NumLoops /\ wait_count["mouse"] = Cardinality(Mouse) * NumLoops
      BY <2>4, <2>5 DEF Species
    <2>8. \A m, n \in Nat : m * n = n * m
      OBVIOUS
    <2> QED
      BY <2>2, <2>3, <2>6, <2>7, <2>8 DEF CleanupSafe
  <1> QED
    BY <1>1, <1>2, <1>3 DEF CatMouseSound, CleanupSafe

\* Whatever the numbers of cats, mice, bowls and meals, and whatever the
\* interleaving: no check of cat_eat or mouse_eat (catmouse.c) fails, the
\* counters of catmouse_synch.c are exact, and when the driver has come back from
\* its last P(CatMouseWait) no creature and no lock is in use any more and every
\* meal is in the statistics.
THEOREM CatMouseSoundThm == CmSpec => []CatMouseSound
  <1>1. CmInit => CmInv
    BY CmInitEstablishes
  <1>2. CmInv /\ [CmNext]_cmVars => CmInv'
    BY CmNextKeeps
  <1>3. CmInv => CatMouseSound
    BY CmInvSound
  <1> QED
    BY <1>1, <1>2, <1>3, PTL DEF CmSpec
=============================================================================
