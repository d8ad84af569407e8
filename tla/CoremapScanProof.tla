-------------------------- MODULE CoremapScanProof --------------------------
(***************************************************************************)
(* Proofs about CoremapScan: the loops of coremap_alloc and coremap_dealloc  *)
(* under coremap_lock implement the one-step allocator of Coremap, and a     *)
(* search that fails was right to, for any number of owners, any amount of   *)
(* RAM and any requests.  Then the two heaps: Kmalloc, which takes its pages  *)
(* from the coremap, and UserMalloc, which grows by sbrk.                    *)
(***************************************************************************)
EXTENDS CoremapScan, CoremapProof, Kmalloc, UserMalloc, FiniteSetTheorems, WellFoundedInduction

Locals == [npages : Nat, i : Nat, length : Nat, start : Nat, end : Nat]

ScanTypes ==
    /\ coremap_lock \in Owners \union {NoOwner}
    /\ pc \in [Owners -> {"idle", "scan", "fill", "fillrest", "free"}]
    /\ loc \in [Owners -> Locals]

\* Whoever is inside a call has the lock, and nobody is before vm_bootstrap.
LockExact ==
    /\ \A o \in Owners : coremap_lock = o <=> pc[o] # "idle"
    /\ vm_bootstrap_flag = 0 => coremap_lock = NoOwner

\* The block somebody holds begins at an entry of the coremap.
HeldInside ==
    \A o \in Owners : held[o] # NoBlock =>
        vm_bootstrap_flag = 1 /\ held[o].addr - firstaddr \in Index

\* All entries from a to b - 1 are free.
FreeFrom(a, b) == \A k \in a .. (b - 1) : coremap[k].used = 0

\* The search has seen the entries below i: the last `length` of them are free,
\* the one before those is not, and no run of npages ended below i.
Scanning(o) ==
    LET r == loc[o]
    IN  /\ held[o] = NoBlock /\ r.npages \in 0 .. MaxRequest
        /\ num_of_coremap_pages + r.length <= r.i
        /\ FreeFrom(r.i - r.length, r.i)
        /\ r.i - r.length > num_of_coremap_pages => coremap[r.i - r.length - 1].used = 1
        /\ r.npages > 0 =>
             /\ r.length < r.npages
             /\ \A s \in num_of_coremap_pages .. (r.i - r.npages) : ~FreeFrom(s, s + r.npages)

\* The search has stopped at the lowest run.
Found(o) ==
    LET r == loc[o]
    IN  /\ held[o] = NoBlock /\ r.npages \in 1 .. MaxRequest
        /\ r.i = r.start + r.npages - 1
        /\ FirstFit(r.start, r.npages)

\* Entries start .. end - 1 of the run are marked.
Marking(o) ==
    LET r == loc[o]
    IN  r.i < num_of_pages /\ r.start < r.end /\ r.end <= r.i + 1

\* Entries from i on are still to be cleared.
Clearing(o) == loc[o].i <= loc[o].end

CallsExact ==
    \A o \in Owners :
        /\ pc[o] = "scan" => Scanning(o)
        /\ pc[o] = "fill" => Found(o)
        /\ pc[o] = "fillrest" => Marking(o)
        /\ pc[o] = "free" => Clearing(o)

ScanInv == TypeOK /\ Layout /\ ScanTypes /\ LockExact /\ HeldInside /\ CallsExact

-----------------------------------------------------------------------------
\* Only one owner is inside a call.
LEMMA OthersIdle ==
    ASSUME ScanTypes, LockExact, NEW o \in Owners, coremap_lock \in {o, NoOwner}
    PROVE  \A q \in Owners : q # o => pc[q] = "idle"
BY NoOwnerAssumption DEF ScanTypes, LockExact

\* Calls leave the layout of memory alone.
LEMMA RamKept ==
    ASSUME UNCHANGED ramVars
    PROVE  /\ num_of_pages' = num_of_pages /\ num_of_coremap_pages' = num_of_coremap_pages
           /\ Index' = Index /\ (Layout => Layout') /\ vm_bootstrap_flag' = vm_bootstrap_flag
           /\ firstaddr' = firstaddr /\ lastaddr' = lastaddr /\ stolen' = stolen
           /\ firstpaddr' = firstpaddr /\ lastpaddr' = lastpaddr
BY DEF ramVars, num_of_pages, num_of_coremap_pages, Index, Layout

\* The state of a call is the business of the one owner that is in it.
LEMMA OnlyMine ==
    ASSUME NEW o \in Owners, \A q \in Owners : q # o => pc'[q] = "idle",
           pc'[o] = "scan" => Scanning(o)', pc'[o] = "fill" => Found(o)',
           pc'[o] = "fillrest" => Marking(o)', pc'[o] = "free" => Clearing(o)'
    PROVE  CallsExact'
BY DEF CallsExact

\* What every step inside a call keeps.
LEMMA FramePart ==
    ASSUME ScanInv, UNCHANGED ramVars,
           coremap' \in [Index -> [used : {0, 1}, count : Nat]],
           held' \in [Owners -> [addr : Nat, npages : Nat]]
    PROVE  TypeOK' /\ Layout'
BY RamKept DEF ScanInv, TypeOK, ramVars

\* Boot: nobody is in a call before vm_bootstrap is done.
LEMMA ScanInitInv == ScanInit => ScanInv
<1> SUFFICES ASSUME ScanInit PROVE ScanInv
  OBVIOUS
<1>1. TypeOK /\ Layout
  BY InitIInv DEF ScanInit, IInv
<1>2. ScanTypes
  BY DEF ScanInit, ScanTypes, NoLocals, Locals
<1>3. LockExact
  BY NoOwnerAssumption DEF ScanInit, LockExact
<1>4. HeldInside
  BY DEF ScanInit, Init, HeldInside
<1>5. CallsExact
  BY DEF ScanInit, CallsExact
<1> QED BY <1>1, <1>2, <1>3, <1>4, <1>5 DEF ScanInv

\* ram_stealmem and vm_bootstrap.
LEMMA BootKept ==
    ASSUME ScanInv, Boot
    PROVE  ScanInv'
<1> USE RamAssumption
<1>1. vm_bootstrap_flag = 0 /\ UNCHANGED <<coremap_lock, pc, loc, held>>
  BY DEF Boot, ram_stealmem, vm_bootstrap
<1>2. coremap_lock = NoOwner /\ \A o \in Owners : pc[o] = "idle" /\ held[o] = NoBlock
  BY <1>1, NoOwnerAssumption DEF ScanInv, LockExact, HeldInside
<1>3. TypeOK' /\ Layout'
  <2>1. CASE \E n \in 0 .. MaxRequest : ram_stealmem(n)
    <3>1. PICK n \in 0 .. MaxRequest : ram_stealmem(n)
      BY <2>1
    <3>2. Index' = Index
      BY <3>1 DEF ram_stealmem, Index, num_of_pages
    <3>3. TypeOK'
      BY <3>1, <3>2 DEF ScanInv, TypeOK, ram_stealmem
    <3>4. Layout'
      BY <3>1 DEF ScanInv, TypeOK, Layout, ram_stealmem
    <3> QED BY <3>3, <3>4
  <2>2. CASE vm_bootstrap
    <3> DEFINE n == lastpaddr - firstpaddr
    <3>1. n \in Nat /\ Index' = 0 .. (n - 1)
      BY <2>2 DEF ScanInv, TypeOK, Layout, vm_bootstrap, num_of_pages, Index
    <3>2. TypeOK'
      BY <2>2, <3>1 DEF ScanInv, TypeOK, vm_bootstrap, FreshCoremap
    <3>3. Layout'
      BY <2>2 DEF ScanInv, TypeOK, Layout, vm_bootstrap
    <3> QED BY <3>2, <3>3
  <2> QED BY <2>1, <2>2 DEF Boot
<1>4. ScanTypes' /\ LockExact'
  BY <1>1, <1>2, NoOwnerAssumption DEF ScanInv, ScanTypes, LockExact
<1>5. HeldInside' /\ CallsExact'
  BY <1>1, <1>2 DEF HeldInside, CallsExact
<1> QED BY <1>3, <1>4, <1>5 DEF ScanInv

\* coremap_alloc begins above the coremap with nothing counted.
LEMMA AllocLockKept ==
    ASSUME ScanInv, NEW o \in Owners, NEW n \in 0 .. MaxRequest, AllocLock(o, n)
    PROVE  ScanInv'
<1> USE RamAssumption
<1>0. num_of_pages \in Nat /\ num_of_coremap_pages \in Nat
  BY SizesNat DEF ScanInv
<1>1. UNCHANGED ramVars /\ coremap' = coremap /\ held' = held
  BY DEF AllocLock
<1>2. TypeOK' /\ Layout'
  BY <1>1, FramePart DEF ScanInv, TypeOK
<1>3. \A q \in Owners : q # o => pc[q] = "idle"
  BY OthersIdle DEF ScanInv, AllocLock
<1>4. /\ pc' = [pc EXCEPT ![o] = "scan"] /\ coremap_lock = NoOwner /\ coremap_lock' = o
      /\ held[o] = NoBlock
      /\ loc' = [loc EXCEPT ![o] = [npages |-> n, i |-> num_of_coremap_pages, length |-> 0, start |-> 0, end |-> 0]]
  <2>1. [NoLocals EXCEPT !.npages = n, !.i = num_of_coremap_pages]
          = [npages |-> n, i |-> num_of_coremap_pages, length |-> 0, start |-> 0, end |-> 0]
    <3>1. PICK r : r = [NoLocals EXCEPT !.npages = n]
      OBVIOUS
    <3>2. r = [npages |-> n, i |-> 0, length |-> 0, start |-> 0, end |-> 0]
      BY <3>1 DEF NoLocals
    <3>3. [r EXCEPT !.i = num_of_coremap_pages]
            = [npages |-> n, i |-> num_of_coremap_pages, length |-> 0, start |-> 0, end |-> 0]
      BY <3>2
    <3> QED BY <3>1, <3>3
  <2> QED BY <2>1 DEF AllocLock, Goto
<1>5. ScanTypes'
  BY <1>0, <1>4 DEF ScanInv, ScanTypes, Locals
<1>6. LockExact'
  BY <1>3, <1>4, NoOwnerAssumption DEF ScanInv, ScanTypes, LockExact, AllocLock, ramVars
<1>7. HeldInside'
  BY <1>1, RamKept DEF ScanInv, HeldInside
<1>8. loc'[o] = [npages |-> n, i |-> num_of_coremap_pages, length |-> 0, start |-> 0, end |-> 0]
      /\ pc'[o] = "scan" /\ \A q \in Owners : q # o => pc'[q] = "idle"
  BY <1>3, <1>4 DEF ScanInv, ScanTypes
<1>9. Scanning(o)'
  <2>1. /\ num_of_coremap_pages' = num_of_coremap_pages /\ coremap' = coremap /\ held'[o] = NoBlock
        /\ loc'[o].npages = n /\ loc'[o].i = num_of_coremap_pages /\ loc'[o].length = 0 /\ n \in Nat
    BY <1>1, <1>4, <1>8, RamKept
  <2> QED BY <1>0, <2>1 DEF Scanning, FreeFrom
<1>10. CallsExact'
  BY <1>8, <1>9, OnlyMine
<1> QED BY <1>2, <1>5, <1>6, <1>7, <1>10 DEF ScanInv

\* What the search does to the locals of its owner: when it stops, and when it
\* goes on.
LEMMA ScanLocals ==
    ASSUME ScanInv, NEW o \in Owners, NEW x \in Nat
    PROVE  \E l : /\ l = [loc EXCEPT ![o].length = x]
                  /\ l \in [Owners -> Locals] /\ l[o].length = x /\ l[o].npages = loc[o].npages
                  /\ l[o].i = loc[o].i
<1>1. PICK l : l = [loc EXCEPT ![o].length = x]
  OBVIOUS
<1>2. loc \in [Owners -> [npages : Nat, i : Nat, length : Nat, start : Nat, end : Nat]]
  BY DEF ScanInv, ScanTypes, Locals
<1>3. /\ l \in [Owners -> [npages : Nat, i : Nat, length : Nat, start : Nat, end : Nat]]
      /\ l[o].length = x /\ l[o].npages = loc[o].npages /\ l[o].i = loc[o].i
  BY <1>1, <1>2
<1> QED BY <1>1, <1>3 DEF Locals

\* The search stops: the length and the start of the run are noted.
LEMMA ScanStops ==
    ASSUME ScanInv, NEW o \in Owners, NEW x \in Nat, NEW y \in Nat,
           loc' = [loc EXCEPT ![o].length = x, ![o].start = y]
    PROVE  /\ loc' \in [Owners -> Locals] /\ loc'[o].length = x /\ loc'[o].start = y
           /\ loc'[o].npages = loc[o].npages /\ loc'[o].i = loc[o].i
<1>1. PICK l : /\ l = [loc EXCEPT ![o].length = x]
               /\ l \in [Owners -> Locals] /\ l[o].length = x /\ l[o].npages = loc[o].npages
               /\ l[o].i = loc[o].i
  BY ScanLocals
<1>2. loc' = [l EXCEPT ![o].start = y]
  BY <1>1, Zenon
<1>3. PICK w : w = loc'
  OBVIOUS
<1>4. w = [l EXCEPT ![o].start = y]
  BY <1>2, <1>3
<1>5. /\ l \in [Owners -> Locals] /\ l[o].length = x /\ l[o].npages = loc[o].npages
      /\ l[o].i = loc[o].i
  BY <1>1
<1>6. /\ w \in [Owners -> Locals] /\ w[o].length = x /\ w[o].start = y
      /\ w[o].npages = loc[o].npages /\ w[o].i = loc[o].i
  BY <1>4, <1>5 DEF Locals
<1> QED BY <1>3, <1>6

\* The search goes on with the next entry.
LEMMA ScanGoesOn ==
    ASSUME ScanInv, NEW o \in Owners, NEW x \in Nat, NEW y \in Nat,
           loc' = [loc EXCEPT ![o].length = x, ![o].i = y]
    PROVE  /\ loc' \in [Owners -> Locals] /\ loc'[o].length = x /\ loc'[o].i = y
           /\ loc'[o].npages = loc[o].npages
<1>1. PICK l : /\ l = [loc EXCEPT ![o].length = x]
               /\ l \in [Owners -> Locals] /\ l[o].length = x /\ l[o].npages = loc[o].npages
  BY ScanLocals
<1>2. loc' = [l EXCEPT ![o].i = y]
  BY <1>1, Zenon
<1>3. PICK w : w = loc'
  OBVIOUS
<1>4. w = [l EXCEPT ![o].i = y]
  BY <1>2, <1>3
<1>5. l \in [Owners -> Locals] /\ l[o].length = x /\ l[o].npages = loc[o].npages
  BY <1>1
<1>6. /\ w \in [Owners -> Locals] /\ w[o].length = x /\ w[o].i = y /\ w[o].npages = loc[o].npages
  BY <1>4, <1>5 DEF Locals
<1> QED BY <1>3, <1>6

\* The search: a free entry lengthens the run that is being counted, a used
\* one ends it, and the first run that reaches npages is the lowest one.
LEMMA AllocScanKept ==
    ASSUME ScanInv, NEW o \in Owners, AllocScan(o)
    PROVE  ScanInv'
<1> USE RamAssumption
<1>0. num_of_pages \in Nat /\ num_of_coremap_pages \in Nat
  BY SizesNat DEF ScanInv
<1>1. /\ UNCHANGED ramVars /\ coremap' = coremap /\ held' = held /\ coremap_lock' = coremap_lock
      /\ pc[o] = "scan" /\ loc[o].i < num_of_pages
  BY DEF AllocScan
<1>2. TypeOK' /\ Layout'
  BY <1>1, FramePart DEF ScanInv, TypeOK
<1>3. coremap_lock = o /\ \A q \in Owners : q # o => pc[q] = "idle"
  BY <1>1, OthersIdle DEF ScanInv, LockExact
<1>4. Scanning(o)
  BY <1>1 DEF ScanInv, CallsExact
<1>5. PICK i, len, n : i = loc[o].i /\ len = loc[o].length /\ n = loc[o].npages
  OBVIOUS
<1>6. i \in Nat /\ len \in Nat /\ n \in 0 .. MaxRequest /\ i < num_of_pages
  BY <1>1, <1>4, <1>5 DEF ScanInv, ScanTypes, Locals, Scanning
<1>7. /\ held[o] = NoBlock /\ num_of_coremap_pages + len <= i
      /\ \A k \in (i - len) .. (i - 1) : coremap[k].used = 0
      /\ i - len > num_of_coremap_pages => coremap[i - len - 1].used = 1
      /\ n > 0 => len < n
      /\ n > 0 => \A s \in num_of_coremap_pages .. (i - n) : \E k \in s .. (s + n - 1) : coremap[k].used # 0
  BY <1>4, <1>5 DEF Scanning, FreeFrom
<1>8. coremap[i].used \in {0, 1}
  <2>1. i \in Index
    BY <1>0, <1>6 DEF Index
  <2> QED BY <2>1 DEF ScanInv, TypeOK
<1>9. num_of_pages' = num_of_pages /\ num_of_coremap_pages' = num_of_coremap_pages /\ Index' = Index
  BY <1>1, RamKept
<1>10. HeldInside'
  BY <1>1, RamKept DEF ScanInv, HeldInside
\* A run of n that ends at i begins where the count began.
<1>11. ASSUME n > 0, coremap[i].used = 0, NEW s \in num_of_coremap_pages .. (i + 1 - n),
              \A k \in s .. (s + n - 1) : coremap[k].used = 0
       PROVE  s = i + 1 - n /\ n <= len + 1
  <2>1. ~(s \in num_of_coremap_pages .. (i - n))
    BY <1>7, <1>11
  <2>2. s = i + 1 - n
    BY <1>0, <1>6, <1>11, <2>1
  <2>3. ASSUME n > len + 1 PROVE FALSE
    <3>1. i - len > num_of_coremap_pages /\ i - len - 1 \in s .. (s + n - 1)
      BY <1>0, <1>6, <1>11, <2>2, <2>3
    <3>2. coremap[i - len - 1].used = 1
      BY <1>7, <3>1
    <3> QED BY <1>11, <3>1, <3>2
  <2> QED BY <1>6, <2>2, <2>3
<1>12. CASE RunComplete(o)
  <2>1. /\ coremap[i].used = 0 /\ n = len + 1 /\ n \in 1 .. MaxRequest
        /\ loc' = [loc EXCEPT ![o].length = len + 1, ![o].start = i - (len + 1) + 1]
        /\ pc' = [pc EXCEPT ![o] = "fill"]
    BY <1>5, <1>6, <1>12 DEF AllocScan, RunComplete, LengthAt, Goto
  <2>2. i - (len + 1) + 1 = i - len /\ i - len \in Nat /\ len + 1 \in Nat
    BY <1>0, <1>6, <1>7
  <2>3. /\ loc' \in [Owners -> Locals] /\ loc'[o].length = len + 1 /\ loc'[o].start = i - len
        /\ loc'[o].npages = n /\ loc'[o].i = i
    <3>1. loc' = [loc EXCEPT ![o].length = len + 1, ![o].start = i - len]
      BY <2>1, <2>2
    <3>2. /\ loc' \in [Owners -> Locals] /\ loc'[o].length = len + 1 /\ loc'[o].start = i - len
          /\ loc'[o].npages = loc[o].npages /\ loc'[o].i = loc[o].i
      BY <2>2, <3>1, ScanStops
    <3> QED BY <1>5, <3>2
  <2>4. ScanTypes' /\ LockExact'
    BY <1>1, <1>3, <2>1, <2>3, RamKept DEF ScanInv, ScanTypes, LockExact
  <2>5. pc'[o] = "fill" /\ \A q \in Owners : q # o => pc'[q] = "idle"
    BY <1>3, <2>1 DEF ScanInv, ScanTypes
  <2>6. FirstFit(i - len, n)'
    <3>1. n > 0 /\ i - len \in Index
      BY <1>0, <1>6, <1>7, <2>1, <2>2 DEF Index
    <3>2. i - len + n = i + 1
      BY <1>6, <2>1
    <3>3. \A k \in (i - len) .. (i - len + n - 1) : coremap[k].used = 0
      BY <1>6, <1>7, <2>1, <3>2
    <3>4. ASSUME NEW r \in Index, r < i - len, r >= num_of_coremap_pages,
                 \A k \in r .. (r + n - 1) : coremap[k].used = 0
          PROVE  FALSE
      <4>1. r \in num_of_coremap_pages .. (i + 1 - n)
        BY <1>0, <1>6, <2>1, <3>4 DEF Index
      <4>2. r = i + 1 - n
        BY <1>11, <2>1, <3>1, <3>4, <4>1
      <4> QED BY <1>6, <2>1, <3>4, <4>2
    <3>5. FreeRun(i - len, n)
      BY <1>0, <1>6, <1>7, <3>2, <3>3 DEF FreeRun
    <3>6. FirstFit(i - len, n)
      BY <3>1, <3>4, <3>5 DEF FirstFit, FreeRun
    <3> QED BY <1>1, <1>9, <3>6 DEF FirstFit, FreeRun
  <2>7. Found(o)'
    BY <1>1, <1>6, <1>7, <2>1, <2>3, <2>6 DEF Found
  <2>8. CallsExact'
    BY <2>5, <2>7, OnlyMine
  <2> QED BY <1>2, <1>10, <2>4, <2>8 DEF ScanInv
<1>13. CASE ~RunComplete(o)
  <2>0. PICK x : x = LengthAt(o)
    OBVIOUS
  <2>1. /\ x = (IF coremap[i].used = 0 THEN len + 1 ELSE 0) /\ ~(coremap[i].used = 0 /\ x = n)
        /\ loc' = [loc EXCEPT ![o].length = x, ![o].i = i + 1] /\ pc' = pc
    BY <1>5, <1>13, <2>0 DEF AllocScan, RunComplete, LengthAt
  <2>2. x \in Nat /\ i + 1 \in Nat
    BY <1>6, <2>1
  <2>3. /\ loc' \in [Owners -> Locals] /\ loc'[o].length = x /\ loc'[o].i = i + 1
        /\ loc'[o].npages = n
    <3>0. loc' = [loc EXCEPT ![o].length = x, ![o].i = i + 1]
      BY <2>1
    <3>1. /\ loc' \in [Owners -> Locals] /\ loc'[o].length = x /\ loc'[o].i = i + 1
          /\ loc'[o].npages = loc[o].npages
      BY <2>2, <3>0, ScanGoesOn, Zenon
    <3> QED BY <1>5, <3>1
  <2>4. ScanTypes' /\ LockExact'
    BY <1>1, <1>3, <2>1, <2>3, RamKept DEF ScanInv, ScanTypes, LockExact
  <2>5. pc'[o] = "scan" /\ \A q \in Owners : q # o => pc'[q] = "idle"
    BY <1>1, <1>3, <2>1
  <2>6. num_of_coremap_pages + x <= i + 1 /\ (n > 0 => x < n)
    BY <1>0, <1>6, <1>7, <2>1
  <2>7. \A k \in (i + 1 - x) .. i : coremap[k].used = 0
    <3>1. CASE coremap[i].used = 0
      BY <1>6, <1>7, <2>1, <3>1
    <3>2. CASE coremap[i].used # 0
      BY <1>6, <2>1, <3>2
    <3> QED BY <3>1, <3>2
  <2>8. i + 1 - x > num_of_coremap_pages => coremap[i - x].used = 1
    <3>1. CASE coremap[i].used = 0
      <4>1. x = len + 1 /\ i + 1 - x = i - len /\ i - x = i - len - 1
        BY <1>6, <2>1, <3>1
      <4> QED BY <1>7, <4>1
    <3>2. CASE coremap[i].used # 0
      <4>1. x = 0 /\ i - x = i
        BY <1>6, <2>1, <3>2
      <4> QED BY <1>8, <3>2, <4>1
    <3> QED BY <3>1, <3>2
  <2>9. ASSUME n > 0, NEW s \in num_of_coremap_pages .. (i + 1 - n),
               \A k \in s .. (s + n - 1) : coremap[k].used = 0
        PROVE  FALSE
    <3>1. CASE coremap[i].used = 0
      BY <1>6, <1>11, <2>1, <2>6, <2>9, <3>1
    <3>2. CASE coremap[i].used # 0
      <4>1. ~(s \in num_of_coremap_pages .. (i - n))
        BY <1>7, <2>9
      <4>2. i \in s .. (s + n - 1)
        BY <1>0, <1>6, <2>9, <4>1
      <4> QED BY <2>9, <3>2, <4>2
    <3> QED BY <3>1, <3>2
  <2>10. Scanning(o)'
    <3>1. i + 1 - x - 1 = i - x /\ i + 1 - 1 = i
      BY <1>6, <2>2
    <3>2. /\ \A k \in (i + 1 - x) .. (i + 1 - 1) : coremap'[k].used = 0
          /\ i + 1 - x > num_of_coremap_pages => coremap'[i + 1 - x - 1].used = 1
      BY <1>1, <2>7, <2>8, <3>1
    <3>3. n > 0 => \A s \in num_of_coremap_pages .. (i + 1 - n) :
                      ~(\A k \in s .. (s + n - 1) : coremap'[k].used = 0)
      BY <1>1, <2>9
    <3>4. held'[o] = NoBlock /\ n \in 0 .. MaxRequest
      BY <1>1, <1>6, <1>7
    <3>5. PICK r : r = loc'[o]
      OBVIOUS
    <3>6. r.length = x /\ r.i = i + 1 /\ r.npages = n
      BY <2>3, <3>5
    <3>7. /\ num_of_coremap_pages' + r.length <= r.i
          /\ \A k \in (r.i - r.length) .. (r.i - 1) : coremap'[k].used = 0
          /\ r.i - r.length > num_of_coremap_pages' => coremap'[r.i - r.length - 1].used = 1
          /\ r.npages > 0 => r.length < r.npages
      BY <1>0, <1>6, <1>9, <2>2, <2>6, <3>2, <3>6
    <3>8. r.npages > 0 => \A s \in num_of_coremap_pages' .. (r.i - r.npages) :
                             ~(\A k \in s .. (s + r.npages - 1) : coremap'[k].used = 0)
      BY <1>0, <1>6, <1>9, <3>3, <3>6
    <3> QED BY <3>4, <3>5, <3>6, <3>7, <3>8 DEF Scanning, FreeFrom
  <2>11. CallsExact'
    BY <2>5, <2>10, OnlyMine
  <2> QED BY <1>2, <1>10, <2>4, <2>11 DEF ScanInv
<1> QED BY <1>12, <1>13

\* A call that ends gives the lock back and forgets its locals.
LEMMA EndKept ==
    ASSUME ScanInv, NEW o \in Owners, pc[o] # "idle",
           coremap_lock' = NoOwner, loc' = [loc EXCEPT ![o] = NoLocals], Goto(o, "idle"),
           UNCHANGED <<ramVars, coremap, held>>
    PROVE  ScanInv'
<1>1. TypeOK' /\ Layout'
  BY FramePart DEF ScanInv, TypeOK
<1>2. coremap_lock = o /\ \A q \in Owners : q # o => pc[q] = "idle"
  BY OthersIdle DEF ScanInv, LockExact
<1>3. pc' = [pc EXCEPT ![o] = "idle"] /\ \A q \in Owners : pc'[q] = "idle"
  BY <1>2 DEF Goto, ScanInv, ScanTypes
<1>4. ScanTypes'
  BY <1>3 DEF ScanInv, ScanTypes, Locals, NoLocals
<1>5. LockExact'
  BY <1>3, NoOwnerAssumption DEF LockExact
<1>6. HeldInside'
  BY RamKept DEF ScanInv, HeldInside
<1>7. CallsExact'
  BY <1>3 DEF CallsExact
<1> QED BY <1>1, <1>4, <1>5, <1>6, <1>7 DEF ScanInv

\* The first entry of the run gets the length, and the owner its block.
LEMMA AllocFillFirstKept ==
    ASSUME ScanInv, NEW o \in Owners, AllocFillFirst(o)
    PROVE  ScanInv'
<1> USE RamAssumption
<1>0. num_of_pages \in Nat /\ num_of_coremap_pages \in Nat
  BY SizesNat DEF ScanInv
<1>1. /\ UNCHANGED ramVars /\ coremap_lock' = coremap_lock /\ pc[o] = "fill"
      /\ pc' = [pc EXCEPT ![o] = "fillrest"]
  BY DEF AllocFillFirst, Goto
<1>2. Found(o)
  BY <1>1 DEF ScanInv, CallsExact
<1>3. PICK s, n : s = loc[o].start /\ n = loc[o].npages
  OBVIOUS
<1>4. /\ s \in Nat /\ s \in Index /\ n \in Nat /\ n > 0 /\ loc[o].i = s + n - 1 /\ s + n <= num_of_pages
      /\ vm_bootstrap_flag = 1
  <2>1. s \in Nat /\ s \in Index /\ n \in Nat /\ n > 0 /\ loc[o].i = s + n - 1 /\ s + n <= num_of_pages
    BY <1>0, <1>2, <1>3 DEF Found, FirstFit, FreeRun, Index
  <2>2. vm_bootstrap_flag = 1
    BY <1>1, NoOwnerAssumption DEF ScanInv, LockExact, TypeOK
  <2> QED BY <2>1, <2>2
<1>5. /\ coremap' = [coremap EXCEPT ![s] = [used |-> 1, count |-> n]]
      /\ held' = [held EXCEPT ![o] = [addr |-> firstaddr + s, npages |-> n]]
      /\ loc' = [loc EXCEPT ![o].end = s + 1]
  BY <1>3 DEF AllocFillFirst
<1>6. firstaddr \in Nat
  BY DEF ScanInv, TypeOK
<1>7. TypeOK' /\ Layout'
  <2>1. coremap' \in [Index -> [used : {0, 1}, count : Nat]]
    BY <1>4, <1>5 DEF ScanInv, TypeOK
  <2>2. held' \in [Owners -> [addr : Nat, npages : Nat]]
    BY <1>4, <1>5, <1>6 DEF ScanInv, TypeOK
  <2> QED BY <1>1, <2>1, <2>2, FramePart
<1>8. \A q \in Owners : q # o => pc[q] = "idle"
  BY <1>1, OthersIdle DEF ScanInv, LockExact
<1>9. /\ loc' \in [Owners -> Locals] /\ loc'[o].end = s + 1 /\ loc'[o].start = s /\ loc'[o].i = s + n - 1
  BY <1>3, <1>4, <1>5 DEF ScanInv, ScanTypes, Locals
<1>10. ScanTypes'
  BY <1>1, <1>9 DEF ScanInv, ScanTypes
<1>11. LockExact'
  BY <1>1, <1>8, RamKept DEF ScanInv, ScanTypes, LockExact
<1>12. HeldInside'
  <2> SUFFICES ASSUME NEW q \in Owners, held'[q] # NoBlock
               PROVE  vm_bootstrap_flag' = 1 /\ held'[q].addr - firstaddr' \in Index'
    BY DEF HeldInside
  <2>1. CASE q = o
    <3>1. held'[q].addr = firstaddr + s
      BY <1>5, <2>1 DEF ScanInv, TypeOK
    <3>2. held'[q].addr - firstaddr = s
      BY <1>4, <1>6, <3>1
    <3> QED BY <1>1, <1>4, <3>2, RamKept
  <2>2. CASE q # o
    <3>1. held'[q] = held[q]
      BY <1>5, <2>2 DEF ScanInv, TypeOK
    <3> QED BY <1>1, <3>1, RamKept DEF ScanInv, HeldInside
  <2> QED BY <2>1, <2>2
<1>13. pc'[o] = "fillrest" /\ \A q \in Owners : q # o => pc'[q] = "idle"
  BY <1>1, <1>8 DEF ScanInv, ScanTypes
<1>14. Marking(o)'
  BY <1>0, <1>1, <1>4, <1>9, RamKept DEF Marking
<1>15. CallsExact'
  BY <1>13, <1>14, OnlyMine
<1> QED BY <1>7, <1>10, <1>11, <1>12, <1>15 DEF ScanInv

\* The rest of the run, entry by entry.
LEMMA AllocFillRestKept ==
    ASSUME ScanInv, NEW o \in Owners, AllocFillRest(o)
    PROVE  ScanInv'
<1>0. num_of_pages \in Nat
  BY SizesNat DEF ScanInv
<1>1. /\ UNCHANGED ramVars /\ coremap_lock' = coremap_lock /\ pc[o] = "fillrest" /\ held' = held /\ pc' = pc
  BY DEF AllocFillRest
<1>2. PICK e : e = loc[o].end
  OBVIOUS
<1>3. /\ coremap' = [coremap EXCEPT ![e] = [used |-> 1, count |-> 1]]
      /\ loc' = [loc EXCEPT ![o].end = e + 1] /\ e <= loc[o].i /\ e \in Nat /\ loc[o].i \in Nat
      /\ loc[o].start \in Nat
  BY <1>2 DEF AllocFillRest, ScanInv, ScanTypes, Locals
<1>4. loc[o].i < num_of_pages /\ loc[o].start < e
  BY <1>1, <1>2 DEF ScanInv, CallsExact, Marking
<1>5. TypeOK' /\ Layout'
  <2>1. coremap' \in [Index -> [used : {0, 1}, count : Nat]]
    BY <1>3 DEF ScanInv, TypeOK
  <2> QED BY <1>1, <2>1, FramePart DEF ScanInv, TypeOK
<1>6. /\ loc' \in [Owners -> Locals] /\ loc'[o].end = e + 1 /\ loc'[o].start = loc[o].start
      /\ loc'[o].i = loc[o].i
  BY <1>3 DEF ScanInv, ScanTypes, Locals
<1>7. ScanTypes' /\ LockExact'
  BY <1>1, <1>6, RamKept DEF ScanInv, ScanTypes, LockExact
<1>8. HeldInside'
  BY <1>1, RamKept DEF ScanInv, HeldInside
<1>9. \A q \in Owners : q # o => pc'[q] = "idle"
  BY <1>1, OthersIdle DEF ScanInv, LockExact
<1>10. Marking(o)'
  BY <1>0, <1>1, <1>3, <1>4, <1>6, RamKept DEF Marking
<1>11. CallsExact'
  BY <1>1, <1>9, <1>10, OnlyMine
<1> QED BY <1>5, <1>7, <1>8, <1>11 DEF ScanInv

\* coremap_dealloc computes the end of the block.
LEMMA DeallocLockKept ==
    ASSUME ScanInv, NEW o \in Owners, DeallocLock(o)
    PROVE  ScanInv'
<1>1. /\ UNCHANGED ramVars /\ coremap' = coremap /\ coremap_lock = NoOwner /\ coremap_lock' = o
      /\ held[o] # NoBlock /\ vm_bootstrap_flag = 1
      /\ pc' = [pc EXCEPT ![o] = "free"] /\ held' = [held EXCEPT ![o] = NoBlock]
  BY DEF DeallocLock, Goto
<1>2. PICK s, n : s = held[o].addr - firstaddr /\ n = coremap[s].count
  OBVIOUS
<1>3. s \in Nat /\ n \in Nat
  <2>1. s \in Index
    BY <1>1, <1>2 DEF ScanInv, HeldInside
  <2> QED BY <1>2, <2>1 DEF ScanInv, TypeOK, Index
<1>4. loc' = [loc EXCEPT ![o] = [npages |-> 0, i |-> s, length |-> 0, start |-> 0, end |-> s + n]]
  <2>1. PICK r : r = [NoLocals EXCEPT !.i = s]
    OBVIOUS
  <2>2. r = [npages |-> 0, i |-> s, length |-> 0, start |-> 0, end |-> 0]
    BY <2>1 DEF NoLocals
  <2>3. [r EXCEPT !.end = s + n] = [npages |-> 0, i |-> s, length |-> 0, start |-> 0, end |-> s + n]
    BY <2>2
  <2>4. [NoLocals EXCEPT !.i = s, !.end = s + n] = [npages |-> 0, i |-> s, length |-> 0, start |-> 0, end |-> s + n]
    BY <2>1, <2>3
  <2> QED BY <1>2, <2>4 DEF DeallocLock
<1>5. TypeOK' /\ Layout'
  <2>1. held' \in [Owners -> [addr : Nat, npages : Nat]]
    BY <1>1 DEF ScanInv, TypeOK, NoBlock
  <2> QED BY <1>1, <2>1, FramePart DEF ScanInv, TypeOK
<1>6. \A q \in Owners : q # o => pc[q] = "idle"
  BY <1>1, OthersIdle DEF ScanInv
<1>7. ScanTypes'
  BY <1>1, <1>3, <1>4 DEF ScanInv, ScanTypes, Locals
<1>8. LockExact'
  BY <1>1, <1>6, NoOwnerAssumption, RamKept DEF ScanInv, ScanTypes, LockExact
<1>9. HeldInside'
  BY <1>1, RamKept DEF ScanInv, HeldInside, TypeOK
<1>10. pc'[o] = "free" /\ \A q \in Owners : q # o => pc'[q] = "idle"
  BY <1>1, <1>6 DEF ScanInv, ScanTypes
<1>11. loc'[o].i = s /\ loc'[o].end = s + n
  BY <1>4 DEF ScanInv, ScanTypes
<1>12. Clearing(o)'
  BY <1>3, <1>11 DEF Clearing
<1>13. CallsExact'
  BY <1>10, <1>12, OnlyMine
<1> QED BY <1>5, <1>7, <1>8, <1>9, <1>13 DEF ScanInv

\* And clears it, entry by entry.
LEMMA DeallocEntryKept ==
    ASSUME ScanInv, NEW o \in Owners, DeallocEntry(o)
    PROVE  ScanInv'
<1>1. /\ UNCHANGED ramVars /\ coremap_lock' = coremap_lock /\ pc[o] = "free" /\ held' = held /\ pc' = pc
  BY DEF DeallocEntry
<1>2. PICK i : i = loc[o].i
  OBVIOUS
<1>3. /\ coremap' = [coremap EXCEPT ![i] = [used |-> 0, count |-> 0]]
      /\ loc' = [loc EXCEPT ![o].i = i + 1] /\ i < loc[o].end /\ i \in Nat /\ loc[o].end \in Nat
  BY <1>2 DEF DeallocEntry, ScanInv, ScanTypes, Locals
<1>4. TypeOK' /\ Layout'
  <2>1. coremap' \in [Index -> [used : {0, 1}, count : Nat]]
    BY <1>3 DEF ScanInv, TypeOK
  <2> QED BY <1>1, <2>1, FramePart DEF ScanInv, TypeOK
<1>5. loc' \in [Owners -> Locals] /\ loc'[o].i = i + 1 /\ loc'[o].end = loc[o].end
  BY <1>3 DEF ScanInv, ScanTypes, Locals
<1>6. ScanTypes' /\ LockExact'
  BY <1>1, <1>5, RamKept DEF ScanInv, ScanTypes, LockExact
<1>7. HeldInside'
  BY <1>1, RamKept DEF ScanInv, HeldInside
<1>8. \A q \in Owners : q # o => pc'[q] = "idle"
  BY <1>1, OthersIdle DEF ScanInv, LockExact
<1>9. Clearing(o)'
  BY <1>3, <1>5 DEF Clearing
<1>10. CallsExact'
  BY <1>1, <1>8, <1>9, OnlyMine
<1> QED BY <1>4, <1>6, <1>7, <1>10 DEF ScanInv

\* A step that changes nothing keeps the invariant.
LEMMA ScanStutterKept ==
    ASSUME ScanInv, UNCHANGED scanVars
    PROVE  ScanInv'
<1>1. UNCHANGED <<ramVars, coremap, held, coremap_lock, pc, loc>>
  BY DEF scanVars, vars, ramVars
<1>2. TypeOK' /\ Layout'
  BY <1>1, FramePart DEF ScanInv, TypeOK
<1>3. ScanTypes' /\ LockExact' /\ HeldInside'
  BY <1>1, RamKept DEF ScanInv, ScanTypes, LockExact, HeldInside
<1>4. CallsExact'
  BY <1>1, RamKept DEF ScanInv, CallsExact, Scanning, Found, FirstFit, FreeRun, FreeFrom, Marking, Clearing
<1> QED BY <1>2, <1>3, <1>4 DEF ScanInv

-----------------------------------------------------------------------------
\* The coremap as it stands when the calls in progress are done.
AbsMap == [k \in DOMAIN coremap |-> AbsEntry(k)]

\* The entries that the one owner inside a call has yet to rewrite.
Pending(o) ==
    IF pc[o] = "fillrest" THEN loc[o].end .. loc[o].i
    ELSE IF pc[o] = "free" THEN loc[o].i .. (loc[o].end - 1)
    ELSE {}

\* What AbsMap is when nobody but o is inside a call.
AbsMapWith(o) ==
    (\A q \in Owners : q # o => pc[q] = "idle") =>
        AbsMap = [k \in Index |-> IF k \in Pending(o)
                                  THEN IF pc[o] = "fillrest" THEN [used |-> 1, count |-> 1]
                                                             ELSE [used |-> 0, count |-> 0]
                                  ELSE coremap[k]]

AbsMapShape == \A o \in Owners : AbsMapWith(o)

\* AbsMap in terms of the one owner inside a call.
LEMMA AbsMapIs == ScanInv => AbsMapShape
<1> SUFFICES ASSUME ScanInv, NEW o \in Owners, \A q \in Owners : q # o => pc[q] = "idle"
             PROVE  AbsMap = [k \in Index |-> IF k \in Pending(o)
                                     THEN IF pc[o] = "fillrest" THEN [used |-> 1, count |-> 1]
                                                                ELSE [used |-> 0, count |-> 0]
                                     ELSE coremap[k]]
  BY DEF AbsMapShape, AbsMapWith
<1>1. DOMAIN coremap = Index
  BY DEF ScanInv, TypeOK
<1>2. ASSUME NEW k \in Index
      PROVE  AbsEntry(k) = IF k \in Pending(o)
                           THEN IF pc[o] = "fillrest" THEN [used |-> 1, count |-> 1]
                                                      ELSE [used |-> 0, count |-> 0]
                           ELSE coremap[k]
  <2>1. CASE pc[o] = "fillrest"
    BY <2>1 DEF AbsEntry, Pending
  <2>2. CASE pc[o] = "free"
    BY <2>2 DEF AbsEntry, Pending
  <2>3. CASE pc[o] # "fillrest" /\ pc[o] # "free"
    BY <2>3 DEF AbsEntry, Pending
  <2> QED BY <2>1, <2>2, <2>3
<1> QED BY <1>1, <1>2 DEF AbsMap

\* The same of the state after a step.
LEMMA ShapeLater == ScanInv' => AbsMapShape'
BY AbsMapIs, PTL

\* Outside the two loops that rewrite entries the abstract coremap is the real one.
LEMMA AbsMapQuiet ==
    ScanInv /\ (\A q \in Owners : pc[q] \notin {"fillrest", "free"}) => AbsMap = coremap
<1> SUFFICES ASSUME ScanInv, \A q \in Owners : pc[q] \notin {"fillrest", "free"}
             PROVE  AbsMap = coremap
  OBVIOUS
<1>1. DOMAIN coremap = Index /\ coremap = [k \in Index |-> coremap[k]]
  BY DEF ScanInv, TypeOK
<1>2. \A k \in Index : AbsEntry(k) = coremap[k]
  BY DEF AbsEntry
<1> QED BY <1>1, <1>2 DEF AbsMap

\* The same of the state after a step.
LEMMA QuietLater ==
    ScanInv' /\ (\A q \in Owners : pc'[q] \notin {"fillrest", "free"}) => AbsMap' = coremap'
<1>1. (ScanInv /\ (\A q \in Owners : pc[q] \notin {"fillrest", "free"}) => AbsMap = coremap)'
  BY AbsMapQuiet, PTL
<1> QED BY <1>1

\* The loops change no abstract entry.
LEMMA LoopsInvisible ==
    ASSUME ScanInv, ScanInv', NEW o \in Owners,
           AllocFillRest(o) \/ AllocDone(o) \/ DeallocEntry(o) \/ DeallocDone(o)
    PROVE  AbsMap' = AbsMap
<1>1. /\ pc[o] \in {"fillrest", "free"} /\ UNCHANGED ramVars /\ pc'[o] \in {pc[o], "idle"}
      /\ \A q \in Owners : q # o => pc'[q] = pc[q]
  BY DEF AllocFillRest, AllocDone, DeallocEntry, DeallocDone, Goto, ScanInv, ScanTypes
<1>2. \A q \in Owners : q # o => pc[q] = "idle" /\ pc'[q] = "idle"
  BY <1>1, OthersIdle DEF ScanInv, LockExact
<1>3. AbsMapShape /\ AbsMapShape'
  BY AbsMapIs, ShapeLater
<1>4. /\ AbsMap = [k \in Index |-> IF k \in Pending(o)
                                   THEN IF pc[o] = "fillrest" THEN [used |-> 1, count |-> 1]
                                                              ELSE [used |-> 0, count |-> 0]
                                   ELSE coremap[k]]
      /\ AbsMap' = [k \in Index |-> IF k \in Pending(o)'
                                    THEN IF pc'[o] = "fillrest" THEN [used |-> 1, count |-> 1]
                                                                ELSE [used |-> 0, count |-> 0]
                                    ELSE coremap'[k]]
  BY <1>1, <1>2, <1>3, RamKept DEF AbsMapShape, AbsMapWith
<1>5. loc[o].i \in Nat /\ loc[o].end \in Nat /\ coremap \in [Index -> [used : {0, 1}, count : Nat]]
  BY DEF ScanInv, ScanTypes, Locals, TypeOK
<1>6. CASE AllocFillRest(o)
  <2>1. /\ pc[o] = "fillrest" /\ pc' = pc /\ loc[o].end <= loc[o].i
        /\ coremap' = [coremap EXCEPT ![loc[o].end] = [used |-> 1, count |-> 1]]
        /\ loc' = [loc EXCEPT ![o].end = loc[o].end + 1]
    BY <1>6 DEF AllocFillRest
  <2>2. loc'[o].end = loc[o].end + 1 /\ loc'[o].i = loc[o].i
    BY <2>1 DEF ScanInv, ScanTypes, Locals
  <2>3. Pending(o) = loc[o].end .. loc[o].i /\ Pending(o)' = (loc[o].end + 1) .. loc[o].i
    BY <2>1, <2>2 DEF Pending
  <2>4. \A k \in Index : k = loc[o].end \/ coremap'[k] = coremap[k]
    BY <1>5, <2>1
  <2>5. \A k \in Index : k = loc[o].end => coremap'[k] = [used |-> 1, count |-> 1]
    BY <1>5, <2>1
  <2>6. \A k \in Index : k \in Pending(o) <=> k = loc[o].end \/ k \in Pending(o)'
    BY <1>5, <2>1, <2>3 DEF Index
  <2> QED BY <1>4, <2>1, <2>4, <2>5, <2>6
<1>7. CASE DeallocEntry(o)
  <2>1. /\ pc[o] = "free" /\ pc' = pc /\ loc[o].i < loc[o].end
        /\ coremap' = [coremap EXCEPT ![loc[o].i] = [used |-> 0, count |-> 0]]
        /\ loc' = [loc EXCEPT ![o].i = loc[o].i + 1]
    BY <1>7 DEF DeallocEntry
  <2>2. loc'[o].i = loc[o].i + 1 /\ loc'[o].end = loc[o].end
    BY <2>1 DEF ScanInv, ScanTypes, Locals
  <2>3. Pending(o) = loc[o].i .. (loc[o].end - 1) /\ Pending(o)' = (loc[o].i + 1) .. (loc[o].end - 1)
    BY <2>1, <2>2 DEF Pending
  <2>4. \A k \in Index : k = loc[o].i \/ coremap'[k] = coremap[k]
    BY <1>5, <2>1
  <2>5. \A k \in Index : k = loc[o].i => coremap'[k] = [used |-> 0, count |-> 0]
    BY <1>5, <2>1
  <2>6. \A k \in Index : k \in Pending(o) <=> k = loc[o].i \/ k \in Pending(o)'
    BY <1>5, <2>1, <2>3 DEF Index
  <2> QED BY <1>4, <2>1, <2>4, <2>5, <2>6
<1>8. CASE AllocDone(o) \/ DeallocDone(o)
  <2>1. Pending(o) = {} /\ coremap' = coremap
    BY <1>5, <1>8 DEF Pending, AllocDone, DeallocDone
  <2>2. pc'[o] = "idle"
    BY <1>8 DEF AllocDone, DeallocDone, Goto, ScanInv, ScanTypes
  <2>3. Pending(o)' = {}
    BY <2>2 DEF Pending
  <2> QED BY <1>4, <2>1, <2>3
<1> QED BY <1>6, <1>7, <1>8

\* coremap_alloc takes effect when it marks the first entry of its run.
LEMMA AllocVisible ==
    ASSUME ScanInv, ScanInv', NEW o \in Owners, AllocFillFirst(o)
    PROVE  Abs!coremap_alloc(o, loc[o].npages)
<1> USE RamAssumption
<1>1. UNCHANGED ramVars /\ pc[o] = "fill" /\ pc' = [pc EXCEPT ![o] = "fillrest"]
  BY DEF AllocFillFirst, Goto
<1>2. Found(o) /\ \A q \in Owners : q # o => pc[q] = "idle"
  BY <1>1, OthersIdle DEF ScanInv, CallsExact, LockExact
<1>3. AbsMap = coremap
  BY <1>1, <1>2, AbsMapQuiet
<1>4. PICK s, n : s = loc[o].start /\ n = loc[o].npages
  OBVIOUS
<1>5. /\ held[o] = NoBlock /\ n \in Nat /\ n > 0 /\ loc[o].i = s + n - 1 /\ FirstFit(s, n)
      /\ s \in Nat /\ s \in Index
  BY <1>2, <1>4 DEF Found, FirstFit, Index
<1>6. /\ coremap' = [coremap EXCEPT ![s] = [used |-> 1, count |-> n]]
      /\ held' = [held EXCEPT ![o] = [addr |-> firstaddr + s, npages |-> n]]
      /\ loc' = [loc EXCEPT ![o].end = s + 1]
  BY <1>4 DEF AllocFillFirst
<1>7. vm_bootstrap_flag = 1
  BY <1>1, NoOwnerAssumption DEF ScanInv, LockExact, TypeOK
<1>8. AbsMap' = Filled(coremap, s, n)
  <2>1. AbsMapShape'
    BY ShapeLater
  <2>2. pc'[o] = "fillrest" /\ \A q \in Owners : q # o => pc'[q] = "idle"
    BY <1>1, <1>2 DEF ScanInv, ScanTypes
  <2>3. loc'[o].end = s + 1 /\ loc'[o].i = s + n - 1
    BY <1>5, <1>6 DEF ScanInv, ScanTypes, Locals
  <2>4. Pending(o)' = (s + 1) .. (s + n - 1)
    BY <2>2, <2>3 DEF Pending
  <2>5. AbsMap' = [k \in Index |-> IF k \in (s + 1) .. (s + n - 1) THEN [used |-> 1, count |-> 1]
                                                                   ELSE coremap'[k]]
    BY <1>1, <2>1, <2>2, <2>4, RamKept DEF AbsMapShape, AbsMapWith
  <2>6. DOMAIN coremap = Index /\ coremap \in [Index -> [used : {0, 1}, count : Nat]]
    BY DEF ScanInv, TypeOK
  <2>7. \A k \in Index : coremap'[k] = IF k = s THEN [used |-> 1, count |-> n] ELSE coremap[k]
    BY <1>5, <1>6, <2>6
  <2>8. \A k \in Index : k \in s .. (s + n - 1) <=> k = s \/ k \in (s + 1) .. (s + n - 1)
    BY <1>5 DEF Index
  <2>9. s \notin (s + 1) .. (s + n - 1)
    BY <1>5
  <2> QED BY <2>5, <2>6, <2>7, <2>8, <2>9 DEF Filled
<1>9. Abs!FirstFit(s, n) /\ s \in Abs!Index
  BY <1>3, <1>5 DEF AbsMap, FirstFit, FreeRun, Index, num_of_pages, num_of_coremap_pages, CoremapPages,
     Abs!FirstFit, Abs!FreeRun, Abs!Index, Abs!num_of_pages, Abs!num_of_coremap_pages, Abs!CoremapPages
<1>10. AbsMap' = Abs!Filled(AbsMap, s, n)
  BY <1>3, <1>8 DEF Filled, Abs!Filled
<1>11. UNCHANGED <<firstpaddr, lastpaddr, vm_bootstrap_flag, firstaddr, lastaddr, stolen>>
  BY <1>1 DEF ramVars
<1>12. held[o] = Abs!NoBlock
  BY <1>5 DEF NoBlock, Abs!NoBlock
<1> QED BY <1>4, <1>6, <1>7, <1>9, <1>10, <1>11, <1>12 DEF Abs!coremap_alloc, AbsMap

\* coremap_dealloc takes effect when it has the lock: the entries it is going
\* to clear are those that Emptied clears.
LEMMA DeallocVisible ==
    ASSUME ScanInv, ScanInv', NEW o \in Owners, DeallocLock(o)
    PROVE  Abs!coremap_dealloc(o)
<1>1. /\ UNCHANGED ramVars /\ coremap' = coremap /\ coremap_lock = NoOwner
      /\ held[o] # NoBlock /\ vm_bootstrap_flag = 1
      /\ pc' = [pc EXCEPT ![o] = "free"] /\ held' = [held EXCEPT ![o] = NoBlock]
  BY DEF DeallocLock, Goto
<1>2. \A q \in Owners : pc[q] = "idle"
  BY <1>1, NoOwnerAssumption DEF ScanInv, LockExact
<1>3. AbsMap = coremap
  BY <1>2, AbsMapQuiet
<1>4. PICK s, n : s = held[o].addr - firstaddr /\ n = coremap[s].count
  OBVIOUS
<1>5. loc'[o].i = s /\ loc'[o].end = s + n
  <2>1. PICK r : r = [NoLocals EXCEPT !.i = s]
    OBVIOUS
  <2>2. r = [npages |-> 0, i |-> s, length |-> 0, start |-> 0, end |-> 0]
    BY <2>1 DEF NoLocals
  <2>3. [r EXCEPT !.end = s + n] = [npages |-> 0, i |-> s, length |-> 0, start |-> 0, end |-> s + n]
    BY <2>2
  <2>4. [NoLocals EXCEPT !.i = s, !.end = s + n] = [npages |-> 0, i |-> s, length |-> 0, start |-> 0, end |-> s + n]
    BY <2>1, <2>3
  <2>5. loc' = [loc EXCEPT ![o] = [npages |-> 0, i |-> s, length |-> 0, start |-> 0, end |-> s + n]]
    BY <1>4, <2>4 DEF DeallocLock
  <2> QED BY <2>5 DEF ScanInv, ScanTypes
<1>6. pc'[o] = "free" /\ \A q \in Owners : q # o => pc'[q] = "idle"
  BY <1>1, <1>2 DEF ScanInv, ScanTypes
<1>7. AbsMapShape'
  BY ShapeLater
<1>8. Pending(o)' = s .. (s + n - 1)
  <2>1. s \in Index
    BY <1>1, <1>4 DEF ScanInv, HeldInside
  <2>2. s \in Nat /\ n \in Nat
    BY <1>4, <2>1 DEF ScanInv, TypeOK, Index
  <2> QED BY <1>5, <1>6, <2>2 DEF Pending
<1>9. AbsMap' = [k \in Index |-> IF k \in s .. (s + n - 1) THEN [used |-> 0, count |-> 0] ELSE coremap[k]]
  BY <1>1, <1>6, <1>7, <1>8, RamKept DEF AbsMapShape, AbsMapWith
<1>10. DOMAIN coremap = Index
  BY DEF ScanInv, TypeOK
<1>11. AbsMap' = Abs!Emptied(AbsMap, held[o].addr - firstaddr)
  BY <1>3, <1>4, <1>9, <1>10 DEF Abs!Emptied
<1>12. UNCHANGED <<firstpaddr, lastpaddr, vm_bootstrap_flag, firstaddr, lastaddr, stolen>>
  BY <1>1 DEF ramVars
<1>13. held[o] # Abs!NoBlock /\ held' = [held EXCEPT ![o] = Abs!NoBlock]
  BY <1>1 DEF NoBlock, Abs!NoBlock
<1> QED BY <1>1, <1>11, <1>12, <1>13 DEF Abs!coremap_dealloc, AbsMap

\* Before and while vm_bootstrap runs nobody is in a call.
LEMMA BootVisible ==
    ASSUME ScanInv, ScanInv', Boot
    PROVE  Abs!Next
<1>1. vm_bootstrap_flag = 0 /\ pc' = pc
  BY DEF Boot, ram_stealmem, vm_bootstrap
<1>2. \A q \in Owners : pc[q] = "idle"
  BY <1>1, NoOwnerAssumption DEF ScanInv, LockExact
<1>3. AbsMap = coremap
  BY <1>2, AbsMapQuiet
<1>4. ScanInv' /\ (\A q \in Owners : pc'[q] \notin {"fillrest", "free"}) => AbsMap' = coremap'
  BY QuietLater
<1>5. AbsMap' = coremap'
  BY <1>1, <1>2, <1>4
<1>6. CASE \E n \in 0 .. MaxRequest : ram_stealmem(n)
  <2>1. PICK n \in 0 .. MaxRequest : ram_stealmem(n)
    BY <1>6
  <2>2. Abs!ram_stealmem(n)
    BY <1>3, <1>5, <2>1 DEF ram_stealmem, Abs!ram_stealmem, AbsMap
  <2> QED BY <2>1, <2>2 DEF Abs!Next
<1>7. CASE vm_bootstrap
  <2>1. Abs!vm_bootstrap
    BY <1>3, <1>5, <1>7 DEF vm_bootstrap, Abs!vm_bootstrap, AbsMap, FreshCoremap, Abs!FreshCoremap,
       CoremapPages, Abs!CoremapPages
  <2> QED BY <2>1 DEF Abs!Next
<1> QED BY <1>6, <1>7 DEF Boot

\* Taking the lock, searching and giving up change nothing that others see.
LEMMA SearchInvisible ==
    ASSUME ScanInv, ScanInv', NEW o \in Owners,
           (\E n \in 0 .. MaxRequest : AllocLock(o, n)) \/ AllocScan(o) \/ AllocFail(o)
    PROVE  AbsMap' = AbsMap
<1>1. /\ coremap' = coremap /\ pc[o] \notin {"fillrest", "free"} /\ pc'[o] \notin {"fillrest", "free"}
      /\ coremap_lock \in {o, NoOwner} /\ \A q \in Owners : q # o => pc'[q] = pc[q]
  <2>1. CASE \E n \in 0 .. MaxRequest : AllocLock(o, n)
    BY <2>1 DEF AllocLock, Goto, ScanInv, ScanTypes
  <2>2. CASE AllocScan(o)
    <3>1. coremap_lock = o
      BY <2>2 DEF AllocScan, ScanInv, LockExact
    <3>2. coremap' = coremap /\ pc[o] = "scan" /\ (pc' = pc \/ pc' = [pc EXCEPT ![o] = "fill"])
      BY <2>2 DEF AllocScan, Goto
    <3> QED BY <3>1, <3>2 DEF ScanInv, ScanTypes
  <2>3. CASE AllocFail(o)
    <3>1. coremap_lock = o
      BY <2>3 DEF AllocFail, ScanInv, LockExact
    <3>2. coremap' = coremap /\ pc[o] = "scan" /\ pc' = [pc EXCEPT ![o] = "idle"]
      BY <2>3 DEF AllocFail, Goto
    <3> QED BY <3>1, <3>2 DEF ScanInv, ScanTypes
  <2> QED BY <2>1, <2>2, <2>3
<1>2. \A q \in Owners : q # o => pc[q] = "idle"
  BY <1>1, OthersIdle DEF ScanInv
<1>3. AbsMap = coremap
  BY <1>1, <1>2, AbsMapQuiet
<1>4. ScanInv' /\ (\A q \in Owners : pc'[q] \notin {"fillrest", "free"}) => AbsMap' = coremap'
  BY QuietLater
<1>5. \A q \in Owners : pc'[q] \notin {"fillrest", "free"}
  BY <1>1, <1>2
<1> QED BY <1>1, <1>3, <1>4, <1>5

\* Every step of a call keeps the invariant.
LEMMA StepKept ==
    ASSUME ScanInv, NEW o \in Owners, Step(o)
    PROVE  ScanInv'
<1>1. CASE AllocScan(o)
  BY <1>1, AllocScanKept
<1>2. CASE AllocFail(o) \/ AllocDone(o) \/ DeallocDone(o)
  <2>1. /\ pc[o] # "idle" /\ coremap_lock' = NoOwner /\ loc' = [loc EXCEPT ![o] = NoLocals]
        /\ Goto(o, "idle") /\ UNCHANGED <<ramVars, coremap, held>>
    BY <1>2 DEF AllocFail, AllocDone, DeallocDone
  <2> QED BY <2>1, EndKept
<1>3. CASE AllocFillFirst(o)
  BY <1>3, AllocFillFirstKept
<1>4. CASE AllocFillRest(o)
  BY <1>4, AllocFillRestKept
<1>5. CASE DeallocEntry(o)
  BY <1>5, DeallocEntryKept
<1> QED BY <1>1, <1>2, <1>3, <1>4, <1>5 DEF Step

\* The invariant is inductive.
LEMMA ScanNextKept == ScanInv /\ [ScanNext]_scanVars => ScanInv'
<1> SUFFICES ASSUME ScanInv, [ScanNext]_scanVars PROVE ScanInv'
  OBVIOUS
<1>1. CASE Boot
  BY <1>1, BootKept
<1>2. CASE \E o \in Owners, n \in 0 .. MaxRequest : AllocLock(o, n)
  BY <1>2, AllocLockKept
<1>3. CASE \E o \in Owners : DeallocLock(o)
  BY <1>3, DeallocLockKept
<1>4. CASE \E o \in Owners : Step(o)
  BY <1>4, StepKept
<1>5. CASE UNCHANGED scanVars
  BY <1>5, ScanStutterKept
<1> QED BY <1>1, <1>2, <1>3, <1>4, <1>5 DEF ScanNext

\* ScanInv is an invariant of the loops of coremap_alloc and coremap_dealloc
\* (dumbvm.c:151-209), whoever contends for coremap_lock.
THEOREM ScanInvariant == ScanSpec => []ScanInv
BY ScanInitInv, ScanNextKept, PTL DEF ScanSpec

\* coremap_alloc (dumbvm.c:177-205) returns 0 only when no run of free frames
\* above the coremap is long enough, for any request and any amount of memory.
THEOREM FailureIsRealThm == ScanSpec => []FailureIsReal
<1>1. ScanInv => FailureIsReal
  <2> SUFFICES ASSUME ScanInv, NEW o \in Owners, pc[o] = "scan", loc[o].i = num_of_pages,
                      loc[o].npages > 0, NEW s \in Index, FreeRun(s, loc[o].npages)
               PROVE  FALSE
    BY DEF FailureIsReal
  <2>0. num_of_pages \in Nat /\ num_of_coremap_pages \in Nat
    BY SizesNat DEF ScanInv
  <2>1. Scanning(o) /\ loc[o].npages \in Nat
    BY DEF ScanInv, CallsExact, ScanTypes, Locals
  <2>2. s \in num_of_coremap_pages .. (loc[o].i - loc[o].npages)
    BY <2>0, <2>1 DEF FreeRun, Index
  <2> QED BY <2>1, <2>2 DEF Scanning, FreeFrom, FreeRun
<1> QED BY ScanInvariant, <1>1, PTL

\* The initial states are those of Coremap.
LEMMA InitVisible == ScanInit => Abs!Init
<1> SUFFICES ASSUME ScanInit PROVE Abs!Init
  OBVIOUS
<1>1. AbsMap = coremap
  <2>1. ScanInv
    BY ScanInitInv
  <2>2. \A q \in Owners : pc[q] \notin {"fillrest", "free"}
    BY DEF ScanInit
  <2> QED BY <2>1, <2>2, AbsMapQuiet
<1> QED BY <1>1 DEF ScanInit, Init, Abs!Init, AbsMap, NoBlock, Abs!NoBlock

\* Every step is a step of Coremap or leaves what it describes alone.
LEMMA StepVisible == ScanInv /\ ScanInv' /\ [ScanNext]_scanVars => [Abs!Next]_Abs!vars
<1> SUFFICES ASSUME ScanInv, ScanInv', [ScanNext]_scanVars PROVE [Abs!Next]_Abs!vars
  OBVIOUS
<1>0. UNCHANGED <<ramVars, held>> /\ AbsMap' = AbsMap => UNCHANGED Abs!vars
  BY DEF ramVars, AbsMap, Abs!vars
<1>1. CASE Boot
  BY <1>1, BootVisible
<1>2. CASE \E o \in Owners, n \in 0 .. MaxRequest : AllocLock(o, n)
  <2>1. PICK o \in Owners : \E n \in 0 .. MaxRequest : AllocLock(o, n)
    BY <1>2
  <2>2. UNCHANGED <<ramVars, held>>
    BY <2>1 DEF AllocLock
  <2> QED BY <1>0, <2>1, <2>2, SearchInvisible
<1>3. CASE \E o \in Owners : DeallocLock(o)
  <2>1. PICK o \in Owners : DeallocLock(o)
    BY <1>3
  <2> QED BY <2>1, DeallocVisible DEF Abs!Next
<1>4. CASE \E o \in Owners : Step(o)
  <2>1. PICK o \in Owners : Step(o)
    BY <1>4
  <2>2. CASE AllocScan(o) \/ AllocFail(o)
    <3>1. UNCHANGED <<ramVars, held>>
      BY <2>2 DEF AllocScan, AllocFail
    <3> QED BY <1>0, <2>2, <3>1, SearchInvisible
  <2>3. CASE AllocFillFirst(o)
    <3>1. loc[o].npages \in 0 .. MaxRequest
      <4>1. Found(o)
        BY <2>3 DEF AllocFillFirst, ScanInv, CallsExact
      <4> QED BY <4>1, RamAssumption DEF Found
    <3>2. Abs!coremap_alloc(o, loc[o].npages)
      BY <2>3, AllocVisible
    <3> QED BY <3>1, <3>2 DEF Abs!Next
  <2>4. CASE AllocFillRest(o) \/ AllocDone(o) \/ DeallocEntry(o) \/ DeallocDone(o)
    <3>1. UNCHANGED <<ramVars, held>>
      BY <2>4 DEF AllocFillRest, AllocDone, DeallocEntry, DeallocDone
    <3> QED BY <1>0, <2>4, <3>1, LoopsInvisible
  <2> QED BY <2>1, <2>2, <2>3, <2>4 DEF Step
<1>5. CASE UNCHANGED scanVars
  <2>1. UNCHANGED <<ramVars, held, coremap, pc, loc>>
    BY <1>5 DEF scanVars, vars, ramVars
  <2>2. AbsMap' = AbsMap
    BY <2>1 DEF AbsMap, AbsEntry
  <2> QED BY <1>0, <2>1, <2>2
<1> QED BY <1>1, <1>2, <1>3, <1>4, <1>5 DEF ScanNext

\* The loops of coremap_alloc and coremap_dealloc, entry by entry under
\* coremap_lock (dumbvm.c:151-209), implement the one-step first-fit allocator
\* of Coremap, for any number of threads that contend for the lock.
THEOREM ImplementsCoremapThm == ScanSpec => ImplementsCoremap
BY ScanInvariant, InitVisible, StepVisible, PTL DEF ScanSpec, ImplementsCoremap, Abs!Spec

\* What is proved of the one-step allocator, read for the abstract coremap.
Facts == INSTANCE CoremapProof WITH coremap <- [k \in DOMAIN coremap |-> AbsEntry(k)]

\* So no frame has two users while the loops of several threads are under way
\* (dumbvm.c:151-209), not even between two entries of a run.
THEOREM ScanFramesExclusive == ScanSpec => []FramesExclusive
<1>1. Facts!Spec => []Facts!FramesExclusive
  BY RamAssumption, Facts!FramesExclusiveThm DEF RamAssumption, Facts!RamAssumption
<1>2. ImplementsCoremap => Facts!Spec
  <2>1. Abs!Init => Facts!Init
    BY DEF Abs!Init, Facts!Init, Abs!NoBlock, Facts!NoBlock
  <2>2. Abs!Next => Facts!Next
    BY DEF Abs!Next, Facts!Next, Abs!ram_stealmem, Facts!ram_stealmem, Abs!vm_bootstrap, Facts!vm_bootstrap,
       Abs!FreshCoremap, Facts!FreshCoremap, Abs!CoremapPages, Facts!CoremapPages,
       Abs!coremap_alloc, Facts!coremap_alloc, Abs!NoBlock, Facts!NoBlock, Abs!Index, Facts!Index,
       Abs!FirstFit, Facts!FirstFit, Abs!FreeRun, Facts!FreeRun, Abs!num_of_pages, Facts!num_of_pages,
       Abs!num_of_coremap_pages, Facts!num_of_coremap_pages, Abs!Filled, Facts!Filled,
       Abs!coremap_dealloc, Facts!coremap_dealloc, Abs!Emptied, Facts!Emptied
  <2>3. UNCHANGED Abs!vars => UNCHANGED Facts!vars
    BY DEF Abs!vars, Facts!vars
  <2> QED BY <2>1, <2>2, <2>3, PTL DEF ImplementsCoremap, Abs!Spec, Facts!Spec
<1>3. Facts!FramesExclusive => FramesExclusive
  BY DEF FramesExclusive, Facts!FramesExclusive, Frames, Facts!Frames, NoBlock, Facts!NoBlock, CoremapFrames,
     Facts!CoremapFrames, num_of_coremap_pages, Facts!num_of_coremap_pages, CoremapPages, Facts!CoremapPages,
     num_of_pages, Facts!num_of_pages
<1> QED BY ImplementsCoremapThm, <1>1, <1>2, <1>3, PTL

-----------------------------------------------------------------------------
(***************************************************************************)
(* The kernel heap (Kmalloc).                                              *)
(***************************************************************************)

\* A list that holds the elements of S, each once.
ListOf(list, S) ==
    /\ list \in Seq(S)
    /\ \A x \in S : \E i \in 1 .. Len(list) : list[i] = x
    /\ \A i, j \in 1 .. Len(list) : list[i] = list[j] => i = j

\* Lowest finds an element.
LEMMA LowestIsIn ==
  ASSUME NEW S \in SUBSET Nat, S # {}
  PROVE  Lowest(S) \in S
  <1> DEFINE R == OpToRel(<, Nat)
  <1>1. \E i \in S : \A j \in S : ~ (<<j, i>> \in R)
    <2>1. IsWellFoundedOn(R, Nat)
      BY NatLessThanWellFounded
    <2> HIDE DEF R
    <2> QED
      BY <2>1, WFMin
  <1>2. \A i, j \in Nat : <<j, i>> \notin R => i <= j
    BY DEF OpToRel
  <1> HIDE DEF R
  <1>3. \E i \in S : \A j \in S : i <= j
    BY <1>1, <1>2
  <1> QED
    BY <1>3, Zenon DEF Lowest

LEMMA OnceEach ==
  ASSUME NEW S, NEW list, ListOf(list, S),
         NEW i \in 1 .. Len(list), NEW j \in 1 .. Len(list), list[i] = list[j]
  PROVE  i = j
  BY DEF ListOf

\* A list in front of which one element is put.
LEMMA PushList ==
  ASSUME NEW S, NEW list, ListOf(list, S), NEW r, r \notin S
  PROVE  ListOf(<<r>> \o list, S \union {r})
  <1> DEFINE l == <<r>> \o list
  <1>1. list \in Seq(S) /\ Len(list) \in Nat
    BY DEF ListOf
  <1>2. l \in Seq(S \union {r}) /\ Len(l) = Len(list) + 1
    BY <1>1
  <1>3. l[1] = r /\ \A i \in 1 .. Len(list) : l[i + 1] = list[i]
    BY <1>1
  <1> HIDE DEF l
  <1>4. \A i \in 1 .. Len(l) : i = 1 \/ (i - 1 \in 1 .. Len(list) /\ l[i] = list[i - 1])
    BY <1>1, <1>2, <1>3
  <1>5. \A i \in 1 .. Len(list) : list[i] \in S
    BY <1>1
  <1>6. ASSUME NEW x \in S \union {r}
        PROVE  \E i \in 1 .. Len(l) : l[i] = x
    <2>1. CASE x = r
      BY <2>1, <1>1, <1>2, <1>3
    <2>2. CASE x \in S
      <3>1. PICK i \in 1 .. Len(list) : list[i] = x
        BY <2>2 DEF ListOf
      <3> QED
        BY <3>1, <1>1, <1>2, <1>3
    <2> QED
      BY <2>1, <2>2
  <1>7. ASSUME NEW i \in 1 .. Len(l), NEW j \in 1 .. Len(l), l[i] = l[j]
        PROVE  i = j
    <2>1. CASE i = 1 /\ j = 1
      BY <2>1
    <2>2. CASE i # 1 /\ j # 1
      <3>1. i - 1 \in 1 .. Len(list) /\ j - 1 \in 1 .. Len(list) /\ list[i - 1] = list[j - 1]
        BY <2>2, <1>4, <1>7
      <3>2. i - 1 = j - 1
        BY <3>1, OnceEach
      <3> QED
        BY <3>2, <1>1, <1>2
    <2>3. CASE i = 1 /\ j # 1
      BY <2>3, <1>3, <1>4, <1>5, <1>7
    <2>4. CASE i # 1 /\ j = 1
      BY <2>4, <1>3, <1>4, <1>5, <1>7
    <2> QED
      BY <2>1, <2>2, <2>3, <2>4
  <1>8. ListOf(l, S \union {r})
    BY <1>2, <1>6, <1>7 DEF ListOf
  <1> QED
    BY <1>8 DEF l

\* A list without its first element.
LEMMA TailList ==
  ASSUME NEW S, NEW list, ListOf(list, S), list # <<>>
  PROVE  /\ Head(list) \in S
         /\ ListOf(Tail(list), S \ {Head(list)})
  <1>1. list \in Seq(S) /\ Len(list) \in Nat /\ Len(list) > 0
    BY DEF ListOf
  <1>2. Head(list) = list[1] /\ Head(list) \in S
    BY <1>1
  <1> DEFINE l == Tail(list)
  <1>3. l \in Seq(S) /\ Len(l) = Len(list) - 1 /\ \A i \in 1 .. Len(l) : l[i] = list[i + 1]
    BY <1>1
  <1> HIDE DEF l
  <1>4. \A i \in 1 .. Len(l) : i + 1 \in 1 .. Len(list) /\ i + 1 # 1
    BY <1>1, <1>3
  <1>5. ASSUME NEW i \in 1 .. Len(l)
        PROVE  l[i] \in S \ {Head(list)}
    <2>1. i + 1 \in 1 .. Len(list) /\ 1 \in 1 .. Len(list) /\ l[i] = list[i + 1] /\ i + 1 # 1
      BY <1>1, <1>3
    <2>2. list[i + 1] # list[1]
      BY <2>1, OnceEach
    <2> QED
      BY <1>1, <1>2, <2>1, <2>2
  <1>6. l \in Seq(S \ {Head(list)})
    BY <1>3, <1>5
  <1>7. ASSUME NEW x \in S \ {Head(list)}
        PROVE  \E i \in 1 .. Len(l) : l[i] = x
    <2>1. PICK i \in 1 .. Len(list) : list[i] = x
      BY DEF ListOf
    <2>2. i # 1 /\ i - 1 \in 1 .. Len(l) /\ (i - 1) + 1 = i
      BY <2>1, <1>1, <1>2, <1>3
    <2> QED
      BY <2>1, <2>2, <1>3
  <1>8. ASSUME NEW i \in 1 .. Len(l), NEW j \in 1 .. Len(l), l[i] = l[j]
        PROVE  i = j
    <2>1. list[i + 1] = list[j + 1]
      BY <1>3, <1>8
    <2>2. i + 1 = j + 1
      BY <1>4, <2>1, OnceEach
    <2> QED
      BY <2>2, <1>1, <1>3
  <1>9. ListOf(l, S \ {Head(list)})
    BY <1>6, <1>7, <1>8 DEF ListOf
  <1> QED
    BY <1>2, <1>9 DEF l

\* remove_lists takes one element out of a list.
LEMMA WithoutList ==
  ASSUME NEW S, NEW list, ListOf(list, S), NEW r \in S
  PROVE  ListOf(Without(r, list), S \ {r})
  <1> DEFINE n == Len(list)
             K == {i \in DOMAIN list : list[i] = r}
             k == Lowest(K)
             l == [i \in 1 .. (n - 1) |-> IF i < k THEN list[i] ELSE list[i + 1]]
  <1>1. list \in Seq(S) /\ n \in Nat /\ DOMAIN list = 1 .. n
    BY DEF ListOf
  <1>2. PICK m \in 1 .. n : list[m] = r
    BY DEF ListOf
  <1>3. k \in 1 .. n /\ list[k] = r
    <2>1. K \in SUBSET Nat /\ K # {}
      BY <1>1, <1>2
    <2>2. k \in K
      <3> HIDE DEF K
      <3> QED
        BY <2>1, LowestIsIn
    <2> QED
      BY <2>2, <1>1
  <1>4. Without(r, list) = l
    BY <1>1, <1>2 DEF Without, RangeOf
  <1> HIDE DEF k, K
  <1>5. n > 0 /\ n - 1 \in Nat
    BY <1>1, <1>3
  <1>6. \A i \in 1 .. (n - 1) : l[i] = IF i < k THEN list[i] ELSE list[i + 1]
    OBVIOUS
  <1>7. \A i \in 1 .. n : list[i] \in S /\ (i # k => list[i] # r)
    BY <1>1, <1>3 DEF ListOf
  <1>8. \A i \in 1 .. (n - 1) : i \in 1 .. n /\ i + 1 \in 1 .. n /\ (i < k => i # k) /\ (~ (i < k) => i + 1 # k)
    BY <1>1, <1>3
  <1>9. \A i \in 1 .. (n - 1) : l[i] \in S \ {r}
    BY <1>6, <1>7, <1>8
  <1>10. l \in Seq(S \ {r}) /\ Len(l) = n - 1
    BY <1>5, <1>9
  <1>11. ASSUME NEW x \in S \ {r}
         PROVE  \E i \in 1 .. (n - 1) : l[i] = x
    <2>1. PICK i \in 1 .. n : list[i] = x
      BY DEF ListOf
    <2>2. CASE i < k
      BY <2>1, <2>2, <1>1, <1>3, <1>6
    <2>3. CASE i > k
      <3>1. i - 1 \in 1 .. (n - 1) /\ ~ (i - 1 < k) /\ (i - 1) + 1 = i
        BY <2>3, <1>1, <1>3
      <3> QED
        BY <3>1, <2>1, <1>6
    <2>4. i # k
      BY <2>1, <1>3
    <2> QED
      BY <2>2, <2>3, <2>4, <1>1, <1>3
  <1>12. ASSUME NEW i \in 1 .. (n - 1), NEW j \in 1 .. (n - 1), l[i] = l[j]
         PROVE  i = j
    <2> DEFINE f(h) == IF h < k THEN h ELSE h + 1
    <2>1. l[i] = list[f(i)] /\ l[j] = list[f(j)]
      BY <1>6
    <2>2. f(i) \in 1 .. n /\ f(j) \in 1 .. n
      BY <1>8
    <2>3. f(i) = f(j)
      BY <2>1, <2>2, <1>12 DEF ListOf
    <2> QED
      BY <2>3, <1>1, <1>3
  <1> HIDE DEF l
  <1>13. ListOf(l, S \ {r})
    BY <1>10, <1>11, <1>12 DEF ListOf
  <1> QED
    BY <1>4, <1>13

\* A list is as long as its set is large.
LEMMA ListCounts ==
  ASSUME NEW S, NEW list, ListOf(list, S)
  PROVE  /\ IsFiniteSet(S) /\ Cardinality(S) = Len(list) /\ Len(list) \in Nat
         /\ RangeOf(list) = S
  <1>1. list \in Seq(S) /\ Len(list) \in Nat
    BY DEF ListOf
  <1>2. list \in Bijection(1 .. Len(list), S)
    BY <1>1 DEF ListOf, Bijection, Injection, Surjection, IsInjective
  <1>3. ExistsBijection(1 .. Len(list), S)
    BY <1>2 DEF ExistsBijection
  <1>4. IsFiniteSet(1 .. Len(list)) /\ Cardinality(1 .. Len(list)) = Len(list)
    BY <1>1, FS_Interval
  <1>5. IsFiniteSet(S) /\ Cardinality(S) = Len(list)
    BY <1>3, <1>4, FS_Bijection
  <1>6. RangeOf(list) = S
    BY <1>1 DEF ListOf, RangeOf
  <1> QED
    BY <1>1, <1>5, <1>6

-----------------------------------------------------------------------------
(* Sizes, offsets and addresses *)

\* What is assumed of the sizes, by block type.
LEMMA SizesAre ==
  /\ PAGE_SIZE \in Nat \ {0} /\ NPAGEREFS \in Nat
  /\ Len(sizes) \in Nat \ {0} /\ BlkType = 1 .. Len(sizes) /\ 1 \in BlkType
  /\ LARGEST_SUBPAGE_SIZE \in Nat \ {0} /\ Len(sizes) \in BlkType
  /\ \A b \in BlkType : sizes[b] \in Nat \ {0} /\ sizes[b] < PAGE_SIZE /\ sizes[b] <= LARGEST_SUBPAGE_SIZE
  <1>1. sizes \in Seq(Nat \ {0}) /\ sizes # <<>> /\ BlkType = DOMAIN sizes
    BY KmAssumption DEF BlkType
  <1>2. Len(sizes) \in Nat \ {0} /\ BlkType = 1 .. Len(sizes)
    BY <1>1
  <1>3. \A b \in BlkType : sizes[b] \in Nat \ {0}
    BY <1>1
  <1>4. 1 \in BlkType /\ Len(sizes) \in BlkType
    BY <1>2
  <1> QED
    BY <1>2, <1>3, <1>4, KmAssumption DEF LARGEST_SUBPAGE_SIZE

\* blocktype finds a type for whatever subpage_kmalloc is asked for.
LEMMA BlocktypeFound ==
  ASSUME NEW sz \in Nat, sz < LARGEST_SUBPAGE_SIZE
  PROVE  blocktype(sz) \in BlkType
  <1> DEFINE B == {b \in BlkType : sz <= sizes[b]}
  <1>1. Len(sizes) \in B
    BY SizesAre DEF LARGEST_SUBPAGE_SIZE
  <1>2. B \in SUBSET Nat /\ B # {}
    BY <1>1, SizesAre
  <1>3. Lowest(B) \in B
    <2> HIDE DEF B
    <2> QED
      BY <1>2, LowestIsIn
  <1> QED
    BY <1>3 DEF blocktype

\* Quotient and remainder.
LEMMA DivisionOf ==
  ASSUME NEW m \in Nat, NEW S \in Nat \ {0}
  PROVE  m \div S \in Nat /\ m % S \in 0..(S - 1) /\ m = (m \div S) * S + (m % S)
  OBVIOUS

LEMMA QuotientOf ==
  ASSUME NEW n \in Nat, NEW S \in Nat \ {0}, NEW q \in Nat, NEW r \in 0..(S - 1), n = q * S + r
  PROVE  n \div S = q /\ n % S = r
  OBVIOUS

\* Multiples keep their order and their distance.
LEMMA MultiplesApart ==
  ASSUME NEW i \in Nat, NEW j \in Nat, i < j, NEW s \in Nat
  PROVE  i * s \in Nat /\ j * s \in Nat /\ i * s + s <= j * s
  <1>1. j - (i + 1) \in Nat /\ j = (j - (i + 1)) + (i + 1)
    OBVIOUS
  <1> DEFINE d == j - (i + 1)
  <1>2. d \in Nat /\ j = d + i + 1
    BY <1>1
  <1> HIDE DEF d
  <1>3. j * s = d * s + i * s + s /\ d * s \in Nat /\ i * s \in Nat
    BY <1>2
  <1> QED
    BY <1>3

\* The offsets of the blocks of a page.
Offsets(b) == {j * sizes[b] : j \in 0 .. (Blocks(b) - 1)}

LEMMA BlocksFit ==
  ASSUME NEW b \in BlkType
  PROVE  Blocks(b) \in Nat \ {0} /\ Blocks(b) * sizes[b] <= PAGE_SIZE
  <1> DEFINE s == sizes[b]  n == Blocks(b)
  <1>1. s \in Nat \ {0} /\ s < PAGE_SIZE /\ PAGE_SIZE \in Nat
    BY SizesAre
  <1>2. n \in Nat /\ PAGE_SIZE % s \in 0 .. (s - 1) /\ PAGE_SIZE = n * s + (PAGE_SIZE % s)
    BY <1>1, DivisionOf DEF Blocks
  <1> HIDE DEF n, s
  <1>3. n # 0
    BY <1>1, <1>2
  <1>4. n * s \in Nat
    BY <1>1, <1>2
  <1>5. n * s <= PAGE_SIZE
    BY <1>2, <1>4, <1>1
  <1> QED
    BY <1>2, <1>3, <1>5 DEF n, s

\* A block lies in its page, on a boundary of blocks.
LEMMA OffsetFits ==
  ASSUME NEW b \in BlkType, NEW o \in Offsets(b)
  PROVE  o \in Nat /\ o + sizes[b] <= PAGE_SIZE /\ o % sizes[b] = 0
  <1>1. PICK j \in 0 .. (Blocks(b) - 1) : o = j * sizes[b]
    BY DEF Offsets
  <1>2. Blocks(b) \in Nat \ {0} /\ Blocks(b) * sizes[b] <= PAGE_SIZE /\ PAGE_SIZE \in Nat
    BY BlocksFit, SizesAre
  <1>3. sizes[b] \in Nat \ {0}
    BY SizesAre
  <1>4. j \in Nat /\ j < Blocks(b)
    BY <1>2
  <1>5. o \in Nat /\ o + sizes[b] <= Blocks(b) * sizes[b] /\ Blocks(b) * sizes[b] \in Nat
    BY <1>1, <1>2, <1>3, <1>4, MultiplesApart
  <1>6. 0 \in 0 .. (sizes[b] - 1) /\ o = j * sizes[b] + 0
    BY <1>1, <1>3, <1>4, <1>5
  <1>7. o % sizes[b] = 0
    BY <1>3, <1>4, <1>5, <1>6, QuotientOf
  <1> QED
    BY <1>2, <1>3, <1>5, <1>7

\* Two blocks of one page do not overlap.
LEMMA OffsetsApart ==
  ASSUME NEW b \in BlkType, NEW o \in Offsets(b), NEW u \in Offsets(b), o # u
  PROVE  o + sizes[b] <= u \/ u + sizes[b] <= o
  <1>1. PICK i \in 0 .. (Blocks(b) - 1) : o = i * sizes[b]
    BY DEF Offsets
  <1>2. PICK j \in 0 .. (Blocks(b) - 1) : u = j * sizes[b]
    BY DEF Offsets
  <1>3. i \in Nat /\ j \in Nat /\ sizes[b] \in Nat /\ i # j
    BY <1>1, <1>2, BlocksFit, SizesAre
  <1>4. CASE i < j
    BY <1>1, <1>2, <1>3, <1>4, MultiplesApart
  <1>5. CASE j < i
    BY <1>1, <1>2, <1>3, <1>5, MultiplesApart
  <1> QED
    BY <1>3, <1>4, <1>5

\* The free list of a fresh page has every block once.
LEMMA FreshListIs ==
  ASSUME NEW b \in BlkType
  PROVE  ListOf(FreshList(b), Offsets(b)) /\ FreshList(b) # <<>> /\ Len(FreshList(b)) = Blocks(b)
  <1> DEFINE n == Blocks(b)  s == sizes[b]  l == FreshList(b)
  <1>1. n \in Nat \ {0} /\ s \in Nat \ {0}
    BY BlocksFit, SizesAre
  <1>2. l = [i \in 1 .. n |-> (n - i) * s]
    BY DEF FreshList
  <1>3. Offsets(b) = {j * s : j \in 0 .. (n - 1)}
    BY DEF Offsets
  <1> HIDE DEF n, s, l
  <1>4. \A i \in 1 .. n : l[i] = (n - i) * s /\ n - i \in 0 .. (n - 1)
    BY <1>1, <1>2
  <1>5. \A i \in 1 .. n : l[i] \in Offsets(b)
    BY <1>3, <1>4
  <1>6. l \in Seq(Offsets(b)) /\ Len(l) = n
    BY <1>1, <1>2, <1>5
  <1>7. ASSUME NEW x \in Offsets(b)
        PROVE  \E i \in 1 .. n : l[i] = x
    <2>1. PICK j \in 0 .. (n - 1) : x = j * s
      BY <1>3
    <2>2. n - j \in 1 .. n /\ n - (n - j) = j
      BY <1>1
    <2> QED
      BY <2>1, <2>2, <1>4
  <1>8. ASSUME NEW i \in 1 .. n, NEW j \in 1 .. n, l[i] = l[j]
        PROVE  i = j
    <2>1. n - i \in Nat /\ n - j \in Nat /\ (n - i) * s = (n - j) * s /\ s \in Nat /\ s # 0
      BY <1>1, <1>4, <1>8
    <2>2. ~ (n - i < n - j)
      BY <2>1, MultiplesApart
    <2>3. ~ (n - j < n - i)
      BY <2>1, MultiplesApart
    <2> QED
      BY <1>1, <2>2, <2>3
  <1>9. ListOf(l, Offsets(b))
    BY <1>6, <1>7, <1>8 DEF ListOf
  <1>10. l # <<>>
    BY <1>1, <1>6
  <1> QED
    BY <1>6, <1>9, <1>10 DEF l, n

\* The addresses of n pages from page p on.
LEMMA AddressInPages ==
  ASSUME NEW p \in Nat, NEW n \in Nat, NEW a \in Int,
         a >= p * PAGE_SIZE, a < p * PAGE_SIZE + n * PAGE_SIZE
  PROVE  a \div PAGE_SIZE \in p .. (p + n - 1)
  <1> DEFINE s == PAGE_SIZE  q == a \div PAGE_SIZE  m == a % PAGE_SIZE
  <1>1. s \in Nat \ {0}
    BY SizesAre
  <1>2. p * s \in Nat /\ n * s \in Nat /\ (p + n) * s = p * s + n * s
    BY <1>1
  <1>3. a \in Nat
    BY <1>2
  <1>4. q \in Nat /\ m \in 0 .. (s - 1) /\ a = q * s + m
    BY <1>1, <1>3, DivisionOf
  <1> HIDE DEF q, m, s
  <1>5. q * s \in Nat
    BY <1>1, <1>4
  <1>6. ~ (q < p)
    <2>1. SUFFICES ASSUME q < p PROVE FALSE
      OBVIOUS
    <2>2. q * s + s <= p * s
      BY <2>1, <1>1, <1>4, MultiplesApart
    <2>3. a >= p * s
      BY DEF s
    <2> QED
      BY <2>2, <2>3, <1>1, <1>2, <1>4, <1>5
  <1>7. ~ (p + n - 1 < q)
    <2>1. SUFFICES ASSUME p + n - 1 < q PROVE FALSE
      OBVIOUS
    <2>2. p + n \in Nat /\ (p + n = q \/ p + n < q)
      BY <2>1, <1>4
    <2>3. (p + n) * s <= q * s
      BY <2>2, <1>1, <1>2, <1>4, <1>5, MultiplesApart
    <2>4. a < p * s + n * s
      BY DEF s
    <2> QED
      BY <2>3, <2>4, <1>1, <1>2, <1>4, <1>5
  <1>8. q \in p .. (p + n - 1)
    BY <1>4, <1>6, <1>7
  <1> QED
    BY <1>8 DEF q

-----------------------------------------------------------------------------
(* The inductive invariant *)

KmBlock == [page : KPage, offset : Nat, size : Nat]

KmTypes ==
    /\ pageref \in [PageRef -> [page : Nat, blktype : BlkType, free : Seq(Nat)]]
    /\ inuse \subseteq PageRef
    /\ sizebases \in [BlkType -> Seq(PageRef)]
    /\ allbase \in Seq(PageRef)
    /\ kpages \subseteq KPage
    /\ kcount \in [KPage -> Nat]
    /\ kpc \in [KThread -> [at : {"idle", "getpage", "gotpage", "freepage"},
                            page : Nat, blktype : BlkType]]
    /\ live \subseteq KmBlock

\* The lists hold the pagerefs in use, all of them and those of each size.
RefsOf(b) == {r \in inuse : pageref[r].blktype = b}
ListsFit == ListOf(allbase, inuse) /\ \A b \in BlkType : ListOf(sizebases[b], RefsOf(b))

\* The offsets at which blocks of page p are in use, and what the free list of a
\* pageref is to hold: the others.
UsedIn(blks, p) == {o \in Nat : \E x \in blks : x.page = p /\ x.offset = o}
PageFits(ref, used) ==
    /\ used # {} /\ used \subseteq Offsets(ref.blktype)
    /\ ListOf(ref.free, Offsets(ref.blktype) \ used)
RefsFit ==
    \A r \in inuse :
        /\ pageref[r].page \in KPage /\ kcount[pageref[r].page] = 1
        /\ PageFits(pageref[r], UsedIn(live, pageref[r].page))

\* A block in use is a number of whole pages, or a block of a page in the lists.
Large(blk) == blk.size >= PAGE_SIZE
PagesOf(blk) == blk.page .. (blk.page + kcount[blk.page] - 1)
LargeFits(blk) ==
    /\ blk.offset = 0 /\ kcount[blk.page] > 0
    /\ blk.size = kcount[blk.page] * PAGE_SIZE /\ PagesOf(blk) \subseteq KPage
SmallFits(blk) ==
    \E r \in inuse : pageref[r].page = blk.page /\ blk.size = sizes[pageref[r].blktype]
LiveFit == \A blk \in live : LargeFits(blk) \/ SmallFits(blk)

\* What a thread carries outside the lock is a page of its own.
ThreadsFit ==
    \A t \in KThread :
        \/ kpc[t] = AtHome
        \/ kpc[t].at = "getpage" /\ kpc[t].page = 0
        \/ /\ kpc[t].at \in {"gotpage", "freepage"}
           /\ kpc[t].page \in KPage /\ kcount[kpc[t].page] = 1

\* Every page has an owner, and only one.
Covered ==
    \A p \in KPage :
        \/ p \in kpages
        \/ \E r \in inuse : pageref[r].page = p
        \/ \E x \in live : Large(x) /\ p \in PagesOf(x)
        \/ \E t \in KThread : kpc[t].page = p
RefsApart ==
    \A r \in inuse :
        /\ pageref[r].page \notin kpages
        /\ \A s \in inuse : pageref[s].page = pageref[r].page => s = r
LargeApart ==
    \A x \in live : Large(x) => \A p \in PagesOf(x) :
        /\ p \notin kpages
        /\ \A r \in inuse : pageref[r].page # p
        /\ \A y \in live : Large(y) /\ p \in PagesOf(y) => x = y
ThreadsApart ==
    \A t \in KThread :
        /\ kpc[t].page \notin kpages
        /\ \A r \in inuse : pageref[r].page # kpc[t].page
        /\ \A x \in live : Large(x) => kpc[t].page \notin PagesOf(x)
        /\ \A u \in KThread : kpc[u].page = kpc[t].page /\ kpc[t].page # 0 => u = t
PagesApart == RefsApart /\ LargeApart /\ ThreadsApart

KmInv == KmTypes /\ ListsFit /\ RefsFit /\ LiveFit /\ ThreadsFit /\ Covered /\ PagesApart

LEMMA KmInitOk ==
  KmInit => KmInv
  <1> SUFFICES ASSUME KmInit
               PROVE  KmInv
    OBVIOUS
  <1> USE DEF KmInit
  <1>1. 1 \in BlkType
    BY SizesAre
  <1>2. NoRef \in [page : Nat, blktype : BlkType, free : Seq(Nat)]
    BY <1>1 DEF NoRef
  <1>3. AtHome \in [at : {"idle", "getpage", "gotpage", "freepage"}, page : Nat, blktype : BlkType]
    BY <1>1 DEF AtHome
  <1>4. KmTypes
    BY <1>2, <1>3 DEF KmTypes
  <1>5. \A S : S = {} => ListOf(<<>>, S)
    BY DEF ListOf
  <1>6. ListsFit
    <2>1. \A b \in BlkType : RefsOf(b) = {}
      BY DEF RefsOf
    <2> QED
      BY <1>5, <2>1 DEF ListsFit
  <1>7. RefsFit /\ LiveFit /\ ThreadsFit /\ Covered
    BY DEF RefsFit, LiveFit, ThreadsFit, Covered
  <1>8. \A t \in KThread : kpc[t].page = 0
    BY DEF AtHome
  <1>9. 0 \notin KPage
    BY KmAssumption
  <1>10. PagesApart
    BY <1>8, <1>9 DEF PagesApart, RefsApart, LargeApart, ThreadsApart
  <1> QED
    BY <1>4, <1>6, <1>7, <1>10 DEF KmInv

\* Small blocks are smaller than a page, large ones are not.
LEMMA SmallOrLarge ==
  ASSUME KmInv, NEW x \in live
  PROVE  /\ x \in KmBlock /\ x.page \in KPage /\ x.offset \in Nat /\ x.size \in Nat
         /\ Large(x) <=> LargeFits(x)
         /\ ~ Large(x) <=> SmallFits(x)
  <1>1. x \in KmBlock /\ x.page \in KPage /\ x.offset \in Nat /\ x.size \in Nat
    BY DEF KmInv, KmTypes, KmBlock
  <1>2. PAGE_SIZE \in Nat \ {0} /\ kcount[x.page] \in Nat
    BY <1>1, SizesAre DEF KmInv, KmTypes
  <1>3. LargeFits(x) => Large(x)
    <2>1. \A n \in Nat : n > 0 => n * PAGE_SIZE >= PAGE_SIZE
      BY <1>2
    <2> QED
      BY <2>1, <1>2 DEF LargeFits, Large
  <1>4. SmallFits(x) => ~ Large(x)
    <2>1. \A r \in inuse : pageref[r].blktype \in BlkType
      BY DEF KmInv, KmTypes
    <2> QED
      BY <2>1, <1>2, SizesAre DEF SmallFits, Large
  <1>5. LargeFits(x) \/ SmallFits(x)
    BY DEF KmInv, LiveFit
  <1> QED
    BY <1>1, <1>3, <1>4, <1>5

\* The page of a block in use is neither free nor carried by a thread.
LEMMA LivePage ==
  ASSUME KmInv, NEW x \in live
  PROVE  /\ x.page \notin kpages /\ x.page \in PagesOf(x)
         /\ \A t \in KThread : kpc[t].page # x.page
         /\ Large(x) => \A r \in inuse : pageref[r].page # x.page
  <1>1. x.page \in Nat /\ kcount[x.page] \in Nat
    BY SmallOrLarge, KmAssumption DEF KmInv, KmTypes
  <1>2. CASE Large(x)
    <2>1. kcount[x.page] > 0
      BY <1>2, SmallOrLarge DEF LargeFits
    <2>2. x.page \in PagesOf(x)
      BY <1>1, <2>1 DEF PagesOf
    <2> QED
      BY <1>2, <2>2 DEF KmInv, PagesApart, LargeApart, ThreadsApart
  <1>3. CASE ~ Large(x)
    <2>1. PICK r \in inuse : pageref[r].page = x.page
      BY <1>3, SmallOrLarge DEF SmallFits
    <2>2. kcount[x.page] = 1
      BY <2>1 DEF KmInv, RefsFit
    <2>3. x.page \in PagesOf(x)
      BY <1>1, <2>2 DEF PagesOf
    <2> QED
      BY <1>3, <2>1, <2>3 DEF KmInv, PagesApart, RefsApart, ThreadsApart
  <1> QED
    BY <1>2, <1>3

\* A small block is known by its page and offset.
LEMMA SameBlock ==
  ASSUME KmInv, NEW x \in live, NEW y \in live, ~ Large(x),
         x.page = y.page, x.offset = y.offset
  PROVE  x = y
  <1>1. PICK r \in inuse : pageref[r].page = x.page /\ x.size = sizes[pageref[r].blktype]
    BY SmallOrLarge DEF SmallFits
  <1>2. ~ Large(y)
    BY <1>1, LivePage
  <1>3. PICK s \in inuse : pageref[s].page = y.page /\ y.size = sizes[pageref[s].blktype]
    BY <1>2, SmallOrLarge DEF SmallFits
  <1>4. r = s
    BY <1>1, <1>3 DEF KmInv, PagesApart, RefsApart
  <1>5. x \in KmBlock /\ y \in KmBlock
    BY SmallOrLarge
  <1> QED
    BY <1>1, <1>3, <1>4, <1>5 DEF KmBlock

-----------------------------------------------------------------------------
(* One step *)

\* A thread moves on with the page that it carries, or with none.
LEMMA PlaceChanges ==
  ASSUME KmInv, NEW t \in KThread, NEW new,
         new \in [at : {"idle", "getpage", "gotpage", "freepage"}, page : Nat, blktype : BlkType],
         new.page = kpc[t].page,
         \/ new = AtHome
         \/ new.at = "getpage" /\ new.page = 0
         \/ new.at \in {"gotpage", "freepage"} /\ new.page \in KPage /\ kcount[new.page] = 1,
         kpc' = [kpc EXCEPT ![t] = new],
         UNCHANGED <<pageref, inuse, sizebases, allbase, kpages, kcount, live>>
  PROVE  KmInv'
  <1>1. KmTypes'
    BY DEF KmInv, KmTypes
  <1>2. ListsFit'
    BY DEF KmInv, ListsFit, RefsOf
  <1>3. RefsFit'
    BY DEF KmInv, RefsFit
  <1>4. LiveFit'
    BY DEF KmInv, LiveFit, LargeFits, SmallFits, PagesOf
  <1>5. kpc'[t] = new /\ \A u \in KThread : u # t => kpc'[u] = kpc[u]
    BY DEF KmInv, KmTypes
  <1>6. ThreadsFit'
    BY <1>5 DEF KmInv, ThreadsFit
  <1>7. \A u \in KThread : kpc'[u].page = kpc[u].page
    BY <1>5
  <1>8. Covered'
    BY <1>7 DEF KmInv, Covered, Large, PagesOf
  <1>9. PagesApart'
    BY <1>7 DEF KmInv, PagesApart, RefsApart, LargeApart, ThreadsApart, Large, PagesOf
  <1> QED
    BY <1>1, <1>2, <1>3, <1>4, <1>6, <1>8, <1>9 DEF KmInv

LEMMA KmallocMissOk ==
  ASSUME KmInv, NEW t \in KThread, NEW sz \in Requests, KmallocMiss(t, sz)
  PROVE  KmInv'
  <1> DEFINE new == [at |-> "getpage", page |-> 0, blktype |-> blocktype(sz)]
  <1>1. blocktype(sz) \in BlkType
    BY BlocktypeFound, KmAssumption DEF KmallocMiss
  <1>2. new.page = kpc[t].page /\ new.at = "getpage" /\ new.page = 0
    BY DEF KmallocMiss, AtHome
  <1>3. new \in [at : {"idle", "getpage", "gotpage", "freepage"}, page : Nat, blktype : BlkType]
    BY <1>1
  <1>4. /\ kpc' = [kpc EXCEPT ![t] = new]
        /\ UNCHANGED <<pageref, inuse, sizebases, allbase, kpages, kcount, live>>
    BY DEF KmallocMiss
  <1> HIDE DEF new
  <1> QED
    BY <1>2, <1>3, <1>4, PlaceChanges

LEMMA NoPageRefOk ==
  ASSUME KmInv, NEW t \in KThread, NoPageRef(t)
  PROVE  KmInv'
  <1> DEFINE new == [kpc[t] EXCEPT !.at = "freepage"]
  <1>1. kpc[t] \in [at : {"idle", "getpage", "gotpage", "freepage"}, page : Nat, blktype : BlkType]
    BY DEF KmInv, KmTypes
  <1>2. kpc[t].page \in KPage /\ kcount[kpc[t].page] = 1
    BY DEF KmInv, ThreadsFit, NoPageRef, AtHome
  <1>3. /\ new \in [at : {"idle", "getpage", "gotpage", "freepage"}, page : Nat, blktype : BlkType]
        /\ new.page = kpc[t].page /\ new.at = "freepage"
    BY <1>1
  <1>4. /\ kpc' = [kpc EXCEPT ![t] = new]
        /\ UNCHANGED <<pageref, inuse, sizebases, allbase, kpages, kcount, live>>
    BY DEF NoPageRef
  <1> HIDE DEF new
  <1>5. new.at \in {"gotpage", "freepage"} /\ new.page \in KPage /\ kcount[new.page] = 1
    BY <1>2, <1>3
  <1> QED
    BY <1>3, <1>4, <1>5, PlaceChanges

\* Pages that alloc_kpages hands out are free and become those of one
\* allocation; the count of no other allocation changes.
LEMMA PagesTaken ==
  ASSUME KmInv, NEW n \in Nat \ {0}, NEW q \in KPage, alloc_kpages(n, q)
  PROVE  /\ q .. (q + n - 1) \subseteq kpages /\ q \in kpages /\ q \in Nat \ {0}
         /\ kpages' = kpages \ (q .. (q + n - 1))
         /\ kcount' \in [KPage -> Nat] /\ kcount'[q] = n
         /\ \A p \in KPage : p # q => kcount'[p] = kcount[p]
         /\ \A x \in live : x.page # q /\ x.page \in KPage
         /\ \A r \in inuse : pageref[r].page # q
         /\ \A t \in KThread : kpc[t].page # q
  <1>1. Run(n) \in SUBSET Nat /\ Run(n) # {}
    BY KmAssumption DEF alloc_kpages, Run
  <1>2. q \in Run(n)
    BY <1>1, LowestIsIn DEF alloc_kpages
  <1>3. q .. (q + n - 1) \subseteq kpages /\ q \in Nat \ {0}
    BY <1>2, KmAssumption DEF Run
  <1>4. q \in q .. (q + n - 1)
    BY <1>3
  <1>5. /\ kpages' = kpages \ (q .. (q + n - 1))
        /\ kcount' = [kcount EXCEPT ![q] = n]
    BY DEF alloc_kpages, TakenPages
  <1>6. q \in kpages
    BY <1>3, <1>4
  <1>7. \A x \in live : x.page # q /\ x.page \in KPage
    BY <1>6, LivePage, SmallOrLarge
  <1>8. \A r \in inuse : pageref[r].page # q
    BY <1>6 DEF KmInv, PagesApart, RefsApart
  <1>9. \A t \in KThread : kpc[t].page # q
    BY <1>6 DEF KmInv, PagesApart, ThreadsApart
  <1>10. /\ kcount' \in [KPage -> Nat] /\ kcount'[q] = n
         /\ \A p \in KPage : p # q => kcount'[p] = kcount[p]
    BY <1>5 DEF KmInv, KmTypes
  <1> QED
    BY <1>3, <1>5, <1>6, <1>7, <1>8, <1>9, <1>10

LEMMA GetPageOk ==
  ASSUME KmInv, NEW t \in KThread, GetPage(t)
  PROVE  KmInv'
  <1> USE DEF GetPage
  <1>0. kpc[t] \in [at : {"idle", "getpage", "gotpage", "freepage"}, page : Nat, blktype : BlkType]
    BY DEF KmInv, KmTypes
  <1>1. kpc[t].page = 0
    BY DEF KmInv, ThreadsFit, AtHome
  <1>2. CASE /\ Run(1) = {} /\ kpc' = [kpc EXCEPT ![t] = AtHome]
             /\ UNCHANGED <<kpages, kcount>>
    <2>1. AtHome.page = kpc[t].page
      BY <1>1 DEF AtHome
    <2>2. AtHome \in [at : {"idle", "getpage", "gotpage", "freepage"}, page : Nat, blktype : BlkType]
      BY SizesAre DEF AtHome
    <2> QED
      BY <1>2, <2>1, <2>2, PlaceChanges
  <1>3. ASSUME NEW q \in KPage, alloc_kpages(1, q),
               kpc' = [kpc EXCEPT ![t].at = "gotpage", ![t].page = q]
        PROVE  KmInv'
    <2>1. /\ q .. (q + 1 - 1) \subseteq kpages /\ q \in kpages /\ q \in Nat \ {0}
          /\ kpages' = kpages \ (q .. (q + 1 - 1))
          /\ kcount' \in [KPage -> Nat] /\ kcount'[q] = 1
          /\ \A p \in KPage : p # q => kcount'[p] = kcount[p]
          /\ \A x \in live : x.page # q /\ x.page \in KPage
          /\ \A r \in inuse : pageref[r].page # q
          /\ \A u \in KThread : kpc[u].page # q
      BY <1>3, PagesTaken
    <2>2. kpages' = kpages \ {q}
      <3>1. q .. (q + 1 - 1) = {q}
        BY <2>1
      <3> QED
        BY <2>1, <3>1
    <2>3. /\ kpc'[t] = [at |-> "gotpage", page |-> q, blktype |-> kpc[t].blktype]
          /\ \A u \in KThread : u # t => kpc'[u] = kpc[u]
          /\ kpc' \in [KThread -> [at : {"idle", "getpage", "gotpage", "freepage"},
                                   page : Nat, blktype : BlkType]]
      BY <1>0, <1>3, <2>1 DEF KmInv, KmTypes
    <2>4. kpc'[t].page = q /\ kpc'[t].at = "gotpage"
      BY <2>3
    <2>5. KmTypes'
      BY <2>1, <2>2, <2>3 DEF KmInv, KmTypes
    <2>6. ListsFit'
      BY DEF KmInv, ListsFit, RefsOf
    <2>7. \A r \in inuse : pageref[r].page \in KPage /\ kcount'[pageref[r].page] = kcount[pageref[r].page]
      BY <2>1 DEF KmInv, RefsFit
    <2>8. RefsFit'
      BY <2>7 DEF KmInv, RefsFit
    <2>9. \A x \in live : kcount'[x.page] = kcount[x.page]
      BY <2>1
    <2>10. \A x \in live : PagesOf(x)' = PagesOf(x)
      BY <2>9 DEF PagesOf
    <2>11. LiveFit'
      BY <2>9, <2>10 DEF KmInv, LiveFit, LargeFits, SmallFits
    <2>12. ThreadsFit'
      BY <2>1, <2>3, <2>4 DEF KmInv, ThreadsFit
    <2>13. Covered'
      <3> SUFFICES ASSUME NEW p \in KPage
                   PROVE  \/ p \in kpages'
                          \/ \E r \in inuse : pageref[r].page = p
                          \/ \E x \in live : Large(x) /\ p \in PagesOf(x)
                          \/ \E u \in KThread : kpc'[u].page = p
        BY <2>10 DEF Covered, Large
      <3>1. CASE p = q
        BY <3>1, <2>4
      <3>2. CASE \E u \in KThread : kpc[u].page = p
        <4>1. PICK u \in KThread : kpc[u].page = p
          BY <3>2
        <4>2. u # t
          BY <4>1, <1>1, KmAssumption
        <4> QED
          BY <4>1, <4>2, <2>3
      <3> QED
        BY <3>1, <3>2, <2>2 DEF KmInv, Covered
    <2>14. RefsApart'
      BY <2>2 DEF KmInv, PagesApart, RefsApart
    <2>15. LargeApart'
      BY <2>2, <2>10 DEF KmInv, PagesApart, LargeApart, Large
    <2>16. ThreadsApart'
      <3> SUFFICES ASSUME NEW u \in KThread
                   PROVE  /\ kpc'[u].page \notin kpages'
                          /\ \A r \in inuse : pageref[r].page # kpc'[u].page
                          /\ \A x \in live : Large(x) => kpc'[u].page \notin PagesOf(x)
                          /\ \A v \in KThread : kpc'[v].page = kpc'[u].page /\ kpc'[u].page # 0 => v = u
        BY <2>10 DEF ThreadsApart, Large
      <3>1. CASE u = t
        <4>1. \A x \in live : Large(x) => q \notin PagesOf(x)
          BY <2>1 DEF KmInv, PagesApart, LargeApart
        <4> QED
          BY <3>1, <4>1, <2>1, <2>2, <2>3, <2>4
      <3>2. CASE u # t
        BY <3>2, <2>1, <2>2, <2>3, <2>4 DEF KmInv, PagesApart, ThreadsApart
      <3> QED
        BY <3>1, <3>2
    <2> QED
      BY <2>5, <2>6, <2>8, <2>11, <2>12, <2>13, <2>14, <2>15, <2>16 DEF KmInv, PagesApart
  <1> QED
    BY <1>2, <1>3

\* free_kpages of a page that a thread carries.
LEMMA FreePageOk ==
  ASSUME KmInv, NEW t \in KThread, FreePage(t)
  PROVE  KmInv'
  <1> USE DEF FreePage
  <1> DEFINE q == kpc[t].page
  <1>1. q \in KPage /\ kcount[q] = 1 /\ q \in Nat /\ q # 0
    <2>1. kpc[t].at = "freepage" /\ AtHome.at = "idle"
      BY DEF AtHome
    <2>2. kpc[t].page \in KPage /\ kcount[kpc[t].page] = 1
      BY <2>1 DEF KmInv, ThreadsFit
    <2> QED
      BY <2>2, KmAssumption
  <1>2. kpages' = kpages \union {q}
    <2>1. q .. (q + kcount[q] - 1) = {q}
      BY <1>1
    <2> QED
      BY <2>1 DEF free_kpages
  <1>3. /\ kcount' \in [KPage -> Nat]
        /\ \A p \in KPage : p # q => kcount'[p] = kcount[p]
    BY <1>1 DEF free_kpages, KmInv, KmTypes
  <1>4. /\ \A x \in live : x.page # q /\ x.page \in KPage
        /\ \A r \in inuse : pageref[r].page # q
        /\ \A u \in KThread : u # t => kpc[u].page # q
        /\ \A x \in live : Large(x) => q \notin PagesOf(x)
    <2>1. \A x \in live : x.page # q /\ x.page \in KPage
      BY LivePage, SmallOrLarge
    <2> QED
      BY <2>1, <1>1 DEF KmInv, PagesApart, ThreadsApart
  <1>5. AtHome \in [at : {"idle", "getpage", "gotpage", "freepage"}, page : Nat, blktype : BlkType]
    BY SizesAre DEF AtHome
  <1>6. /\ kpc'[t] = AtHome /\ kpc'[t].page = 0
        /\ \A u \in KThread : u # t => kpc'[u] = kpc[u]
        /\ kpc' \in [KThread -> [at : {"idle", "getpage", "gotpage", "freepage"},
                                 page : Nat, blktype : BlkType]]
    BY <1>5 DEF KmInv, KmTypes, AtHome
  <1> HIDE DEF q
  <1>7. KmTypes'
    BY <1>1, <1>2, <1>3, <1>6 DEF KmInv, KmTypes
  <1>8. ListsFit'
    BY DEF KmInv, ListsFit, RefsOf
  <1>9. RefsFit'
    BY <1>3, <1>4 DEF KmInv, RefsFit
  <1>10. \A x \in live : kcount'[x.page] = kcount[x.page]
    BY <1>3, <1>4
  <1>11. \A x \in live : PagesOf(x)' = PagesOf(x)
    BY <1>10 DEF PagesOf
  <1>12. LiveFit'
    BY <1>10, <1>11 DEF KmInv, LiveFit, LargeFits, SmallFits
  <1>13. ThreadsFit'
    BY <1>3, <1>4, <1>6 DEF KmInv, ThreadsFit
  <1>14. Covered'
    <2>1. \A u \in KThread : u # t => kpc'[u].page = kpc[u].page
      BY <1>6
    <2>2. \A p \in KPage : p # q => \/ p \in kpages
                                    \/ \E r \in inuse : pageref[r].page = p
                                    \/ \E x \in live : Large(x) /\ p \in PagesOf(x)
                                    \/ \E u \in KThread : u # t /\ kpc[u].page = p
      BY DEF q, KmInv, Covered
    <2> QED
      BY <2>1, <2>2, <1>2, <1>11 DEF Covered, Large
  <1>15. RefsApart'
    BY <1>2, <1>4 DEF KmInv, PagesApart, RefsApart
  <1>16. LargeApart'
    BY <1>2, <1>4, <1>11 DEF KmInv, PagesApart, LargeApart, Large
  <1>17. ThreadsApart'
    <2>1. 0 \notin kpages' /\ \A r \in inuse : pageref[r].page # 0
      BY <1>7, KmAssumption DEF KmInv, KmTypes, RefsFit
    <2>2. \A x \in live : Large(x) => 0 \notin PagesOf(x)
      BY KmAssumption, SmallOrLarge DEF LargeFits
    <2>3. ASSUME NEW u \in KThread
          PROVE  /\ kpc'[u].page \notin kpages'
                 /\ \A r \in inuse : pageref[r].page # kpc'[u].page
                 /\ \A x \in live : Large(x) => kpc'[u].page \notin PagesOf(x)
                 /\ \A v \in KThread : kpc'[v].page = kpc'[u].page /\ kpc'[u].page # 0 => v = u
      <3>1. CASE u = t
        BY <3>1, <2>1, <2>2, <1>6
      <3>2. CASE u # t
        BY <3>2, <1>2, <1>4, <1>6 DEF KmInv, PagesApart, ThreadsApart
      <3> QED
        BY <3>1, <3>2
    <2> QED
      BY <2>3, <1>11 DEF ThreadsApart, Large
  <1> QED
    BY <1>7, <1>8, <1>9, <1>12, <1>13, <1>14, <1>15, <1>16, <1>17 DEF KmInv, PagesApart

\* A large request: whole pages.
LEMMA KmallocPagesOk ==
  ASSUME KmInv, NEW t \in KThread, NEW sz \in Requests, KmallocPages(t, sz)
  PROVE  KmInv'
  <1> DEFINE n == (sz + PAGE_SIZE - 1) \div PAGE_SIZE
  <1>1. n \in Nat \ {0}
    <2>1. sz \in Nat /\ sz >= 1 /\ PAGE_SIZE \in Nat \ {0}
      BY KmAssumption, SizesAre DEF KmallocPages
    <2> DEFINE a == sz + PAGE_SIZE - 1
    <2>2. a \in Nat /\ a >= PAGE_SIZE
      BY <2>1
    <2> HIDE DEF a
    <2>3. a \div PAGE_SIZE \in Nat /\ a % PAGE_SIZE \in 0 .. (PAGE_SIZE - 1)
          /\ a = (a \div PAGE_SIZE) * PAGE_SIZE + (a % PAGE_SIZE)
      BY <2>1, <2>2, DivisionOf
    <2>4. a \div PAGE_SIZE # 0
      BY <2>1, <2>2, <2>3
    <2> QED
      BY <2>3, <2>4 DEF a
  <1>2. PICK q \in KPage :
           /\ alloc_kpages(n, q)
           /\ live' = live \union {[page |-> q, offset |-> 0, size |-> n * PAGE_SIZE]}
    BY DEF KmallocPages
  <1>3. UNCHANGED <<pageref, inuse, sizebases, allbase, kpc>>
    BY DEF KmallocPages
  <1> HIDE DEF n
  <1> DEFINE new == [page |-> q, offset |-> 0, size |-> n * PAGE_SIZE]
  <1>4. /\ q .. (q + n - 1) \subseteq kpages /\ q \in kpages /\ q \in Nat \ {0}
        /\ kpages' = kpages \ (q .. (q + n - 1))
        /\ kcount' \in [KPage -> Nat] /\ kcount'[q] = n
        /\ \A p \in KPage : p # q => kcount'[p] = kcount[p]
        /\ \A x \in live : x.page # q /\ x.page \in KPage
        /\ \A r \in inuse : pageref[r].page # q
        /\ \A u \in KThread : kpc[u].page # q
    BY <1>1, <1>2, PagesTaken
  <1>5. n * PAGE_SIZE \in Nat /\ n * PAGE_SIZE >= PAGE_SIZE
    BY <1>1, SizesAre
  <1>6. /\ new \in KmBlock /\ new.page = q /\ new.offset = 0 /\ new.size = n * PAGE_SIZE
        /\ new.offset \in Nat
    BY <1>5 DEF KmBlock
  <1>7. live' = live \union {new}
    BY <1>2
  <1> HIDE DEF new
  <1>8. Large(new)
    BY <1>5, <1>6 DEF Large
  <1>9. kpages \subseteq KPage /\ live \subseteq KmBlock
    BY DEF KmInv, KmTypes
  <1>10. KmTypes'
    BY <1>3, <1>4, <1>6, <1>7 DEF KmInv, KmTypes
  <1>11. ListsFit'
    BY <1>3 DEF KmInv, ListsFit, RefsOf
  <1>12. ASSUME NEW r \in inuse
         PROVE  /\ pageref[r].page \in KPage /\ kcount'[pageref[r].page] = 1
                /\ PageFits(pageref[r], UsedIn(live', pageref[r].page))
    <2>1. pageref[r].page \in KPage /\ kcount'[pageref[r].page] = 1
      BY <1>4 DEF KmInv, RefsFit
    <2>2. pageref[r].page # new.page
      BY <1>4, <1>6
    <2>3. UsedIn(live', pageref[r].page) = UsedIn(live, pageref[r].page)
      BY <2>2, <1>7 DEF UsedIn
    <2> QED
      BY <2>1, <2>3 DEF KmInv, RefsFit
  <1>13. RefsFit'
    BY <1>3, <1>12 DEF RefsFit
  <1>14. \A x \in live : kcount'[x.page] = kcount[x.page]
    BY <1>4
  <1>15. \A x \in live : PagesOf(x)' = PagesOf(x)
    BY <1>14 DEF PagesOf
  <1>16. PagesOf(new)' = q .. (q + n - 1)
    <2>1. PagesOf(new)' = new.page .. (new.page + kcount'[new.page] - 1)
      BY DEF PagesOf
    <2> QED
      BY <2>1, <1>4, <1>6
  <1>17. LargeFits(new)'
    BY <1>1, <1>4, <1>6, <1>9, <1>16 DEF LargeFits
  <1>18. \A x \in live : (LargeFits(x) \/ SmallFits(x)) => (LargeFits(x)' \/ SmallFits(x)')
    BY <1>3, <1>14, <1>15 DEF LargeFits, SmallFits
  <1>19. LiveFit'
    BY <1>7, <1>17, <1>18 DEF KmInv, LiveFit
  <1>20. ThreadsFit'
    BY <1>3, <1>4 DEF KmInv, ThreadsFit
  <1>21. Covered'
    <2>1. \A x \in live : Large(x)' <=> Large(x)
      BY DEF Large
    <2>2. Large(new)'
      BY <1>8 DEF Large
    <2>3. ASSUME NEW p \in KPage
          PROVE  \/ p \in kpages'
                 \/ \E r \in inuse : pageref[r].page = p
                 \/ \E x \in live' : Large(x)' /\ p \in PagesOf(x)'
                 \/ \E u \in KThread : kpc[u].page = p
      <3>1. CASE p \in q .. (q + n - 1)
        BY <3>1, <2>2, <1>7, <1>16
      <3>2. CASE \E x \in live : Large(x) /\ p \in PagesOf(x)
        BY <3>2, <2>1, <1>7, <1>15
      <3> QED
        BY <3>1, <3>2, <1>4 DEF KmInv, Covered
    <2> QED
      BY <2>3, <1>3 DEF Covered
  <1>22. RefsApart'
    BY <1>3, <1>4 DEF KmInv, PagesApart, RefsApart
  <1>23. LargeApart'
    <2>1. ASSUME NEW x \in live', Large(x), NEW p \in PagesOf(x)'
          PROVE  /\ p \notin kpages'
                 /\ \A r \in inuse : pageref[r].page # p
                 /\ \A y \in live' : Large(y) /\ p \in PagesOf(y)' => x = y
      <3>1. CASE x = new
        <4>1. p \in q .. (q + n - 1) /\ p \in kpages
          BY <3>1, <1>4, <1>16
        <4>2. \A y \in live : Large(y) => p \notin PagesOf(y)
          BY <4>1 DEF KmInv, PagesApart, LargeApart
        <4>3. \A r \in inuse : pageref[r].page # p
          BY <4>1 DEF KmInv, PagesApart, RefsApart
        <4> QED
          BY <3>1, <4>1, <4>2, <4>3, <1>4, <1>7, <1>15
      <3>2. CASE x \in live
        <4>1. p \in PagesOf(x) /\ p \notin kpages
          BY <3>2, <2>1, <1>15 DEF KmInv, PagesApart, LargeApart
        <4>2. p \notin q .. (q + n - 1)
          BY <4>1, <1>4
        <4>3. /\ \A r \in inuse : pageref[r].page # p
              /\ \A y \in live : Large(y) /\ p \in PagesOf(y) => x = y
          BY <3>2, <4>1, <2>1 DEF KmInv, PagesApart, LargeApart
        <4> QED
          BY <4>1, <4>2, <4>3, <1>4, <1>7, <1>15, <1>16
      <3> QED
        BY <3>1, <3>2, <1>7
    <2> QED
      BY <2>1, <1>3 DEF LargeApart, Large
  <1>24. ThreadsApart'
    <2>1. ASSUME NEW u \in KThread
          PROVE  /\ kpc[u].page \notin kpages'
                 /\ \A r \in inuse : pageref[r].page # kpc[u].page
                 /\ \A x \in live' : Large(x) => kpc[u].page \notin PagesOf(x)'
                 /\ \A v \in KThread : kpc[v].page = kpc[u].page /\ kpc[u].page # 0 => v = u
      <3>1. kpc[u].page \notin kpages
        BY DEF KmInv, PagesApart, ThreadsApart
      <3>2. kpc[u].page \notin PagesOf(new)'
        BY <3>1, <1>4, <1>16
      <3> QED
        BY <3>1, <3>2, <1>4, <1>7, <1>15 DEF KmInv, PagesApart, ThreadsApart
    <2> QED
      BY <2>1, <1>3 DEF ThreadsApart, Large
  <1> QED
    BY <1>10, <1>11, <1>13, <1>19, <1>20, <1>21, <1>22, <1>23, <1>24 DEF KmInv, PagesApart

\* A pointer into no page of the lists is a large block.
LEMMA KfreePagesOk ==
  ASSUME KmInv, NEW t \in KThread, NEW blk \in live, KfreePages(t, blk)
  PROVE  KmInv'
  <1> USE DEF KfreePages
  <1>1. \A r \in inuse : pageref[r].page # blk.page
    <2>1. \A r \in inuse : \E i \in DOMAIN allbase : allbase[i] = r
      BY DEF KmInv, ListsFit, ListOf
    <2> QED
      BY <2>1 DEF On
  <1>2. Large(blk) /\ LargeFits(blk) /\ blk.page \in KPage
    BY <1>1, SmallOrLarge DEF SmallFits
  <1> DEFINE q == blk.page  run == PagesOf(blk)
  <1>3. /\ kpages' = kpages \union run
        /\ kcount' \in [KPage -> Nat]
        /\ \A p \in KPage : p # q => kcount'[p] = kcount[p]
    BY <1>2 DEF free_kpages, KmInv, KmTypes, PagesOf
  <1>4. /\ \A x \in live \ {blk} : x.page # q /\ x.page \in KPage
        /\ \A r \in inuse : pageref[r].page \notin run
        /\ \A u \in KThread : kpc[u].page \notin run
        /\ \A x \in live \ {blk} : Large(x) => PagesOf(x) \intersect run = {}
    <2>1. q \in run
      BY LivePage
    <2>2. /\ \A r \in inuse : pageref[r].page \notin run
          /\ \A u \in KThread : kpc[u].page \notin run
      BY <1>2 DEF KmInv, PagesApart, LargeApart, ThreadsApart
    <2>3. \A x \in live \ {blk} : Large(x) => PagesOf(x) \intersect run = {}
      BY <1>2 DEF KmInv, PagesApart, LargeApart
    <2>4. \A x \in live \ {blk} : x.page # q /\ x.page \in KPage
      <3> SUFFICES ASSUME NEW x \in live \ {blk} PROVE x.page # q /\ x.page \in KPage
        OBVIOUS
      <3>1. CASE Large(x)
        BY <3>1, <2>1, <2>3, LivePage, SmallOrLarge
      <3>2. CASE ~ Large(x)
        BY <3>2, <1>1, SmallOrLarge DEF SmallFits
      <3> QED
        BY <3>1, <3>2
    <2> QED
      BY <2>2, <2>3, <2>4
  <1>5. q \in run /\ run \subseteq KPage
    BY <1>2, LivePage DEF LargeFits
  <1>6. live' = live \ {blk} /\ UNCHANGED <<pageref, inuse, sizebases, allbase, kpc>>
    OBVIOUS
  <1> HIDE DEF q, run
  <1>7. KmTypes'
    BY <1>3, <1>5, <1>6 DEF KmInv, KmTypes
  <1>8. ListsFit'
    BY <1>6 DEF KmInv, ListsFit, RefsOf
  <1>9. ASSUME NEW r \in inuse
        PROVE  /\ pageref[r].page \in KPage /\ kcount'[pageref[r].page] = 1
               /\ PageFits(pageref[r], UsedIn(live', pageref[r].page))
    <2>1. pageref[r].page \in KPage /\ kcount'[pageref[r].page] = 1
      BY <1>3, <1>4, <1>5 DEF KmInv, RefsFit
    <2>2. UsedIn(live', pageref[r].page) = UsedIn(live, pageref[r].page)
      BY <1>1, <1>6 DEF UsedIn
    <2> QED
      BY <2>1, <2>2 DEF KmInv, RefsFit
  <1>10. RefsFit'
    BY <1>6, <1>9 DEF RefsFit
  <1>11. \A x \in live' : kcount'[x.page] = kcount[x.page] /\ x \in live
    BY <1>3, <1>4, <1>6
  <1>12. \A x \in live' : PagesOf(x)' = PagesOf(x)
    BY <1>11 DEF PagesOf
  <1>13. LiveFit'
    BY <1>6, <1>11, <1>12 DEF KmInv, LiveFit, LargeFits, SmallFits
  <1>14. ThreadsFit'
    BY <1>3, <1>4, <1>5, <1>6 DEF KmInv, ThreadsFit
  <1>15. Covered'
    <2>1. ASSUME NEW p \in KPage
          PROVE  \/ p \in kpages'
                 \/ \E r \in inuse : pageref[r].page = p
                 \/ \E x \in live' : Large(x) /\ p \in PagesOf(x)'
                 \/ \E u \in KThread : kpc[u].page = p
      <3>1. CASE \E x \in live : Large(x) /\ p \in PagesOf(x)
        <4>1. PICK x \in live : Large(x) /\ p \in PagesOf(x)
          BY <3>1
        <4>2. CASE x = blk
          BY <4>1, <4>2, <1>3 DEF run
        <4>3. CASE x # blk
          BY <4>1, <4>3, <1>6, <1>12
        <4> QED
          BY <4>2, <4>3
      <3> QED
        BY <3>1, <1>3 DEF KmInv, Covered
    <2> QED
      BY <2>1, <1>6 DEF Covered, Large
  <1>16. RefsApart'
    BY <1>3, <1>4, <1>6 DEF KmInv, PagesApart, RefsApart
  <1>17. LargeApart'
    <2>1. ASSUME NEW x \in live', Large(x), NEW p \in PagesOf(x)
          PROVE  /\ p \notin kpages'
                 /\ \A r \in inuse : pageref[r].page # p
                 /\ \A y \in live' : Large(y) /\ p \in PagesOf(y) => x = y
      <3>1. x \in live \ {blk} /\ x \in live
        BY <1>6
      <3>2. p \notin run
        BY <3>1, <2>1, <1>4
      <3>3. /\ p \notin kpages
            /\ \A r \in inuse : pageref[r].page # p
            /\ \A y \in live : Large(y) /\ p \in PagesOf(y) => x = y
        BY <3>1, <2>1 DEF KmInv, PagesApart, LargeApart
      <3> QED
        BY <3>2, <3>3, <1>3, <1>6
    <2> QED
      BY <2>1, <1>6, <1>12 DEF LargeApart, Large
  <1>18. ThreadsApart'
    <2>1. ASSUME NEW u \in KThread
          PROVE  /\ kpc[u].page \notin kpages'
                 /\ \A r \in inuse : pageref[r].page # kpc[u].page
                 /\ \A x \in live' : Large(x) => kpc[u].page \notin PagesOf(x)
                 /\ \A v \in KThread : kpc[v].page = kpc[u].page /\ kpc[u].page # 0 => v = u
      BY <1>3, <1>4, <1>6 DEF KmInv, PagesApart, ThreadsApart
    <2> QED
      BY <2>1, <1>6, <1>12 DEF ThreadsApart, Large
  <1> QED
    BY <1>7, <1>8, <1>10, <1>13, <1>14, <1>15, <1>16, <1>17, <1>18 DEF KmInv, PagesApart

\* Blocks of pages in the lists come and go; no page changes its owner.
LEMMA SmallChange ==
  ASSUME KmInv,
         UNCHANGED <<inuse, sizebases, allbase, kpages, kcount, kpc>>,
         pageref' \in [PageRef -> [page : Nat, blktype : BlkType, free : Seq(Nat)]],
         \A r \in inuse : /\ pageref'[r].page = pageref[r].page
                          /\ pageref'[r].blktype = pageref[r].blktype
                          /\ PageFits(pageref'[r], UsedIn(live', pageref[r].page)),
         live' \subseteq KmBlock,
         \A x : Large(x) => (x \in live' <=> x \in live),
         \A x \in live' \ live : SmallFits(x)
  PROVE  KmInv'
  <1>1. KmTypes'
    BY DEF KmInv, KmTypes
  <1>2. ListsFit'
    <2>1. \A b \in BlkType : RefsOf(b)' = RefsOf(b)
      BY DEF RefsOf
    <2> QED
      BY <2>1 DEF KmInv, ListsFit
  <1>3. RefsFit'
    BY DEF KmInv, RefsFit
  <1>4. ASSUME NEW x
        PROVE  /\ PagesOf(x)' = PagesOf(x) /\ Large(x)' = Large(x)
               /\ LargeFits(x)' <=> LargeFits(x)
               /\ SmallFits(x)' <=> SmallFits(x)
    BY DEF PagesOf, Large, LargeFits, SmallFits
  <1>5. LiveFit'
    <2>1. \A x \in live' : x \in live \/ SmallFits(x)
      OBVIOUS
    <2>2. \A x \in live' : LargeFits(x) \/ SmallFits(x)
      BY <2>1 DEF KmInv, LiveFit
    <2> QED
      BY <1>4, <2>2 DEF LiveFit
  <1>6. ThreadsFit'
    BY DEF KmInv, ThreadsFit
  <1>7. Covered'
    <2>1. \A p \in KPage : \/ p \in kpages
                           \/ \E r \in inuse : pageref'[r].page = p
                           \/ \E x \in live' : Large(x) /\ p \in PagesOf(x)
                           \/ \E u \in KThread : kpc[u].page = p
      BY DEF KmInv, Covered
    <2> QED
      BY <1>4, <2>1 DEF Covered
  <1>8. RefsApart'
    BY DEF KmInv, PagesApart, RefsApart
  <1>9. LargeApart'
    <2>1. \A x \in live' : Large(x) => \A p \in PagesOf(x) :
             /\ p \notin kpages
             /\ \A r \in inuse : pageref'[r].page # p
             /\ \A y \in live' : Large(y) /\ p \in PagesOf(y) => x = y
      BY DEF KmInv, PagesApart, LargeApart
    <2> QED
      BY <1>4, <2>1 DEF LargeApart
  <1>10. ThreadsApart'
    <2>1. \A t \in KThread :
             /\ kpc[t].page \notin kpages
             /\ \A r \in inuse : pageref'[r].page # kpc[t].page
             /\ \A x \in live' : Large(x) => kpc[t].page \notin PagesOf(x)
             /\ \A u \in KThread : kpc[u].page = kpc[t].page /\ kpc[t].page # 0 => u = t
      BY DEF KmInv, PagesApart, ThreadsApart
    <2> QED
      BY <1>4, <2>1 DEF ThreadsApart
  <1> QED
    BY <1>1, <1>2, <1>3, <1>5, <1>6, <1>7, <1>8, <1>9, <1>10 DEF KmInv, PagesApart

\* Taking the first block off a free list.
LEMMA BlockTaken ==
  ASSUME NEW b \in BlkType, NEW free, NEW used \in SUBSET Nat,
         used \subseteq Offsets(b), ListOf(free, Offsets(b) \ used), free # <<>>
  PROVE  /\ Head(free) \in Offsets(b) \ used /\ Head(free) \in Nat
         /\ ListOf(Tail(free), Offsets(b) \ (used \union {Head(free)}))
         /\ used \union {Head(free)} \subseteq Offsets(b)
         /\ Tail(free) \in Seq(Nat)
  <1>1. Head(free) \in Offsets(b) \ used /\ ListOf(Tail(free), (Offsets(b) \ used) \ {Head(free)})
    BY TailList
  <1>2. (Offsets(b) \ used) \ {Head(free)} = Offsets(b) \ (used \union {Head(free)})
    OBVIOUS
  <1>3. \A o \in Offsets(b) : o \in Nat
    BY OffsetFits
  <1>4. Tail(free) \in Seq(Offsets(b) \ (used \union {Head(free)}))
    BY <1>1, <1>2 DEF ListOf
  <1>5. Tail(free) \in Seq(Nat)
    BY <1>3, <1>4
  <1> QED
    BY <1>1, <1>2, <1>3, <1>5

LEMMA KmallocHitOk ==
  ASSUME KmInv, NEW t \in KThread, NEW sz \in Requests, KmallocHit(t, sz)
  PROVE  KmInv'
  <1> DEFINE b == blocktype(sz)
             i == Lowest(WithSpace(b))
             r == sizebases[b][i]
             p == pageref[r].page
             free == pageref[r].free
             new == Block(pageref[r], sizes[b])
  <1>1. b \in BlkType
    BY BlocktypeFound, KmAssumption DEF KmallocHit
  <1>2. /\ WithSpace(b) # {}
        /\ pageref' = Taken(pageref, r) /\ live' = live \union {new}
        /\ UNCHANGED <<inuse, sizebases, allbase, kpages, kcount, kpc>>
    BY DEF KmallocHit
  <1> HIDE DEF b
  <1>3. ListOf(sizebases[b], RefsOf(b))
    BY <1>1 DEF KmInv, ListsFit
  <1>4. i \in DOMAIN sizebases[b] /\ free # <<>>
    <2>1. WithSpace(b) \in SUBSET Nat
      BY <1>3 DEF ListOf, WithSpace
    <2>2. i \in WithSpace(b)
      BY <1>2, <2>1, LowestIsIn
    <2> QED
      BY <2>2 DEF WithSpace
  <1>5. r \in inuse /\ pageref[r].blktype = b
    <2>1. r \in RefsOf(b)
      BY <1>3, <1>4 DEF ListOf
    <2> QED
      BY <2>1 DEF RefsOf
  <1> HIDE DEF i, r
  <1>6. r \in PageRef /\ pageref[r] \in [page : Nat, blktype : BlkType, free : Seq(Nat)]
    BY <1>5 DEF KmInv, KmTypes
  <1>7. p \in KPage /\ PageFits(pageref[r], UsedIn(live, p))
    BY <1>5 DEF KmInv, RefsFit
  <1> DEFINE used == UsedIn(live, p)
  <1>8. used \in SUBSET Nat /\ used # {} /\ used \subseteq Offsets(b) /\ ListOf(free, Offsets(b) \ used)
    BY <1>5, <1>7 DEF PageFits, UsedIn
  <1> HIDE DEF used
  <1>9. /\ Head(free) \in Offsets(b) \ used /\ Head(free) \in Nat
        /\ ListOf(Tail(free), Offsets(b) \ (used \union {Head(free)}))
        /\ used \union {Head(free)} \subseteq Offsets(b)
        /\ Tail(free) \in Seq(Nat)
    BY <1>1, <1>4, <1>8, BlockTaken
  <1>10. new = [page |-> p, offset |-> Head(free), size |-> sizes[b]]
    BY DEF Block
  <1>11. new \in KmBlock /\ new.page = p /\ new.offset = Head(free) /\ new.size = sizes[b]
    BY <1>1, <1>7, <1>9, <1>10, SizesAre DEF KmBlock
  <1>12. ~ Large(new)
    BY <1>1, <1>11, SizesAre DEF Large
  <1>13. /\ pageref'[r] = [page |-> p, blktype |-> b, free |-> Tail(free)]
         /\ \A s \in PageRef : s # r => pageref'[s] = pageref[s]
         /\ pageref' \in [PageRef -> [page : Nat, blktype : BlkType, free : Seq(Nat)]]
    BY <1>2, <1>5, <1>6, <1>9 DEF Taken, KmInv, KmTypes
  <1> HIDE DEF new, p, free
  <1>14. ASSUME NEW s \in inuse
         PROVE  /\ pageref'[s].page = pageref[s].page
                /\ pageref'[s].blktype = pageref[s].blktype
                /\ PageFits(pageref'[s], UsedIn(live', pageref[s].page))
    <2>0. s \in PageRef
      BY DEF KmInv, KmTypes
    <2>1. CASE s = r
      <3>1. pageref[s].page = p /\ pageref[s].blktype = b
        BY <2>1, <1>5 DEF p
      <3>2. UsedIn(live', p) = used \union {Head(free)}
        BY <1>2, <1>9, <1>11 DEF used, UsedIn
      <3>3. PageFits(pageref'[s], used \union {Head(free)})
        BY <2>1, <1>9, <1>13 DEF PageFits
      <3> QED
        BY <2>1, <3>1, <3>2, <3>3, <1>13
    <2>2. CASE s # r
      <3>1. pageref[s].page # p
        BY <2>2, <1>5 DEF p, KmInv, PagesApart, RefsApart
      <3>2. UsedIn(live', pageref[s].page) = UsedIn(live, pageref[s].page)
        BY <3>1, <1>2, <1>11 DEF UsedIn
      <3> QED
        BY <2>0, <2>2, <3>2, <1>13 DEF KmInv, RefsFit
    <2> QED
      BY <2>1, <2>2
  <1>15. live' \subseteq KmBlock
    BY <1>2, <1>11 DEF KmInv, KmTypes
  <1>16. SmallFits(new)
    BY <1>5, <1>11 DEF SmallFits, p
  <1>17. \A x : Large(x) => (x \in live' <=> x \in live)
    BY <1>2, <1>12
  <1>18. \A x \in live' \ live : SmallFits(x)
    BY <1>2, <1>16
  <1> QED
    BY <1>2, <1>13, <1>14, <1>15, <1>17, <1>18, SmallChange

\* The pageref of a pointer, as subpage_kfree finds it.
LEMMA FoundRef ==
  ASSUME KmInv, NEW p, On(p) # {}
  PROVE  LET r == allbase[Lowest(On(p))] IN r \in inuse /\ pageref[r].page = p
  <1>1. ListOf(allbase, inuse)
    BY DEF KmInv, ListsFit
  <1>2. On(p) \in SUBSET Nat
    BY <1>1 DEF ListOf, On
  <1>3. Lowest(On(p)) \in On(p)
    BY <1>2, LowestIsIn
  <1>4. Lowest(On(p)) \in DOMAIN allbase /\ pageref[allbase[Lowest(On(p))]].page = p
    BY <1>3 DEF On
  <1> QED
    BY <1>1, <1>4 DEF ListOf

\* A block comes back: what the free list and the used blocks are then.
LEMMA BlockReturned ==
  ASSUME KmInv, NEW blk \in live, NEW r \in inuse, pageref[r].page = blk.page
  PROVE  /\ ~ Large(blk) /\ blk.offset \in Nat
         /\ UsedIn(live \ {blk}, blk.page) = UsedIn(live, blk.page) \ {blk.offset}
         /\ UsedIn(live \ {blk}, blk.page) \subseteq Offsets(pageref[r].blktype)
         /\ ListOf(<<blk.offset>> \o pageref[r].free,
                   Offsets(pageref[r].blktype) \ UsedIn(live \ {blk}, blk.page))
         /\ <<blk.offset>> \o pageref[r].free \in Seq(Nat)
         /\ WholePage(pageref[r].blktype, <<blk.offset>> \o pageref[r].free)
               <=> UsedIn(live \ {blk}, blk.page) = {}
  <1> DEFINE b == pageref[r].blktype
             o == blk.offset
             free == pageref[r].free
             used == UsedIn(live, blk.page)
             rest == UsedIn(live \ {blk}, blk.page)
             l == <<o>> \o free
  <1>1. ~ Large(blk)
    BY LivePage
  <1>2. o \in Nat /\ b \in BlkType /\ free \in Seq(Nat)
    BY SmallOrLarge DEF KmInv, KmTypes
  <1>3. \A x \in live : x.page = blk.page /\ x.offset = o => x = blk
    BY <1>1, SameBlock
  <1>4. rest = used \ {o}
    BY <1>3 DEF UsedIn
  <1>5. o \in used
    BY <1>2 DEF UsedIn
  <1>6. used \subseteq Offsets(b) /\ ListOf(free, Offsets(b) \ used)
    BY DEF KmInv, RefsFit, PageFits
  <1> HIDE DEF used, rest, b, o, free
  <1>7. ListOf(l, (Offsets(b) \ used) \union {o})
    <2>1. o \notin Offsets(b) \ used
      BY <1>5
    <2> QED
      BY <1>6, <2>1, PushList
  <1>8. (Offsets(b) \ used) \union {o} = Offsets(b) \ rest
    BY <1>4, <1>5, <1>6
  <1>9. ListOf(l, Offsets(b) \ rest) /\ rest \subseteq Offsets(b)
    BY <1>4, <1>6, <1>7, <1>8
  <1>10. l \in Seq(Nat)
    BY <1>2
  <1> HIDE DEF l
  <1>11. WholePage(b, l) <=> rest = {}
    <2>1. IsFiniteSet(Offsets(b)) /\ Cardinality(Offsets(b)) = Blocks(b)
      <3>1. ListOf(FreshList(b), Offsets(b)) /\ Len(FreshList(b)) = Blocks(b)
        BY <1>2, FreshListIs
      <3> QED
        BY <3>1, ListCounts
    <2>2. Cardinality(Offsets(b) \ rest) = Len(l)
      BY <1>9, ListCounts
    <2>3. Offsets(b) \ rest \in SUBSET Offsets(b)
      OBVIOUS
    <2>4. Cardinality(Offsets(b)) = Cardinality(Offsets(b) \ rest) <=> Offsets(b) = Offsets(b) \ rest
      BY <2>1, <2>3, FS_Subset
    <2> QED
      BY <1>9, <2>1, <2>2, <2>4 DEF WholePage
  <1> QED
    BY <1>1, <1>2, <1>4, <1>9, <1>10, <1>11 DEF used, rest, b, o, free, l

LEMMA KfreeBlockOk ==
  ASSUME KmInv, NEW t \in KThread, NEW blk \in live, KfreeBlock(t, blk)
  PROVE  KmInv'
  <1> DEFINE q == blk.page
             r == allbase[Lowest(On(q))]
             b == pageref[r].blktype
             free == <<blk.offset>> \o pageref[r].free
  <1>1. /\ kpc[t] = AtHome /\ On(q) # {} /\ live' = live \ {blk}
        /\ UNCHANGED <<kpages, kcount>>
    BY DEF KfreeBlock
  <1>2. r \in inuse /\ pageref[r].page = q
    BY <1>1, FoundRef
  <1>3. /\ WholePage(b, free) => /\ sizebases' = [sizebases EXCEPT ![b] = Without(r, @)]
                                 /\ allbase' = Without(r, allbase)
                                 /\ inuse' = inuse \ {r}
                                 /\ pageref' = [pageref EXCEPT ![r] = NoRef]
                                 /\ kpc' = [kpc EXCEPT ![t] = [at |-> "freepage", page |-> q, blktype |-> b]]
        /\ ~ WholePage(b, free) => /\ pageref' = [pageref EXCEPT ![r].free = free]
                                   /\ UNCHANGED <<sizebases, allbase, inuse, kpc>>
    BY DEF KfreeBlock
  <1> HIDE DEF r
  <1>4. r \in PageRef /\ pageref[r] \in [page : Nat, blktype : BlkType, free : Seq(Nat)]
    BY <1>2 DEF KmInv, KmTypes
  <1>5. /\ ~ Large(blk) /\ blk.offset \in Nat
        /\ UsedIn(live', q) \subseteq Offsets(b)
        /\ ListOf(free, Offsets(b) \ UsedIn(live', q))
        /\ free \in Seq(Nat)
        /\ WholePage(b, free) <=> UsedIn(live', q) = {}
    BY <1>1, <1>2, BlockReturned
  <1>6. b \in BlkType /\ q \in KPage /\ kcount[q] = 1
    BY <1>2, <1>4 DEF KmInv, RefsFit
  <1> HIDE DEF free
  <1>7. \A s \in inuse : s # r => /\ pageref[s].page # q
                                  /\ UsedIn(live', pageref[s].page) = UsedIn(live, pageref[s].page)
    <2>1. \A s \in inuse : s # r => pageref[s].page # q
      BY <1>2 DEF KmInv, PagesApart, RefsApart
    <2> QED
      BY <2>1, <1>1 DEF UsedIn
  <1>8. live' \subseteq KmBlock /\ \A x : Large(x) => (x \in live' <=> x \in live)
    BY <1>1, <1>5 DEF KmInv, KmTypes
  <1>9. CASE ~ WholePage(b, free)
    <2>1. /\ pageref'[r] = [page |-> q, blktype |-> b, free |-> free]
          /\ \A s \in PageRef : s # r => pageref'[s] = pageref[s]
          /\ pageref' \in [PageRef -> [page : Nat, blktype : BlkType, free : Seq(Nat)]]
      <3>1. pageref' = [pageref EXCEPT ![r].free = free] /\ free \in Seq(Nat)
        BY <1>3, <1>5, <1>9
      <3>2. pageref \in [PageRef -> [page : Nat, blktype : BlkType, free : Seq(Nat)]]
        BY DEF KmInv, KmTypes
      <3> QED
        BY <3>1, <3>2, <1>2, <1>4
    <2>2. ASSUME NEW s \in inuse
          PROVE  /\ pageref'[s].page = pageref[s].page
                 /\ pageref'[s].blktype = pageref[s].blktype
                 /\ PageFits(pageref'[s], UsedIn(live', pageref[s].page))
      <3>1. CASE s = r
        <4>1. PageFits(pageref'[s], UsedIn(live', q))
          BY <3>1, <2>1, <1>5, <1>9 DEF PageFits
        <4> QED
          BY <3>1, <4>1, <2>1, <1>2
      <3>2. CASE s # r
        <4>1. s \in PageRef
          BY DEF KmInv, KmTypes
        <4> QED
          BY <3>2, <4>1, <2>1, <1>7 DEF KmInv, RefsFit
      <3> QED
        BY <3>1, <3>2
    <2>3. UNCHANGED <<inuse, sizebases, allbase, kpages, kcount, kpc>>
      BY <1>1, <1>3, <1>9
    <2>4. \A x \in live' \ live : SmallFits(x)
      BY <1>1
    <2> QED
      BY <2>1, <2>2, <2>3, <2>4, <1>8, SmallChange
  <1>10. CASE WholePage(b, free)
    <2> DEFINE new == [at |-> "freepage", page |-> q, blktype |-> b]
    <2>1. /\ sizebases' = [sizebases EXCEPT ![b] = Without(r, @)]
          /\ allbase' = Without(r, allbase)
          /\ inuse' = inuse \ {r}
          /\ pageref' = [pageref EXCEPT ![r] = NoRef]
          /\ kpc' = [kpc EXCEPT ![t] = new]
      BY <1>3, <1>10
    <2>2. UsedIn(live', q) = {}
      BY <1>5, <1>10
    <2>3. NoRef \in [page : Nat, blktype : BlkType, free : Seq(Nat)]
      BY SizesAre DEF NoRef
    <2>4. /\ pageref' \in [PageRef -> [page : Nat, blktype : BlkType, free : Seq(Nat)]]
          /\ \A s \in inuse' : s \in inuse /\ s # r /\ pageref'[s] = pageref[s]
      BY <2>1, <2>3 DEF KmInv, KmTypes
    <2>5. q \in Nat
      BY <1>6, KmAssumption
    <2>6. new \in [at : {"idle", "getpage", "gotpage", "freepage"}, page : Nat, blktype : BlkType]
      BY <2>5, <1>6
    <2>7. new.page = q /\ new.at = "freepage"
      OBVIOUS
    <2> HIDE DEF new
    <2>8. /\ kpc'[t] = new /\ \A u \in KThread : u # t => kpc'[u] = kpc[u]
          /\ kpc' \in [KThread -> [at : {"idle", "getpage", "gotpage", "freepage"},
                                   page : Nat, blktype : BlkType]]
      BY <2>1, <2>6 DEF KmInv, KmTypes
    <2>9. ListOf(allbase', inuse')
      BY <2>1, <1>2, WithoutList DEF KmInv, ListsFit
    <2>10. ASSUME NEW c \in BlkType
           PROVE  ListOf(sizebases'[c], RefsOf(c)') /\ sizebases'[c] \in Seq(PageRef)
      <3>1. ListOf(sizebases[c], RefsOf(c)) /\ sizebases[c] \in Seq(PageRef)
        BY DEF KmInv, ListsFit, KmTypes
      <3>2. CASE c = b
        <4>1. r \in RefsOf(c)
          BY <3>2, <1>2 DEF RefsOf
        <4>2. RefsOf(c)' = RefsOf(c) \ {r}
          BY <2>1, <2>4 DEF RefsOf
        <4>3. sizebases'[c] = Without(r, sizebases[c])
          BY <3>2, <2>1 DEF KmInv, KmTypes
        <4>4. ListOf(sizebases'[c], RefsOf(c) \ {r})
          BY <3>1, <4>1, <4>3, WithoutList
        <4>5. RefsOf(c) \subseteq PageRef
          BY DEF RefsOf, KmInv, KmTypes
        <4>6. sizebases'[c] \in Seq(PageRef)
          BY <4>4, <4>5 DEF ListOf
        <4> QED
          BY <4>2, <4>4, <4>6
      <3>3. CASE c # b
        <4>1. RefsOf(c)' = RefsOf(c)
          BY <3>3, <2>1, <2>4 DEF RefsOf
        <4>2. sizebases'[c] = sizebases[c]
          BY <3>3, <2>1 DEF KmInv, KmTypes
        <4> QED
          BY <3>1, <4>1, <4>2
      <3> QED
        BY <3>2, <3>3
    <2>11. ListsFit'
      BY <2>9, <2>10 DEF ListsFit
    <2>12. KmTypes'
      <3>1. allbase' \in Seq(PageRef)
        BY <2>1, <2>9 DEF ListOf, KmInv, KmTypes
      <3>2. sizebases' \in [BlkType -> Seq(PageRef)]
        <4>1. sizebases' = [c \in BlkType |-> sizebases'[c]]
          BY <2>1 DEF KmInv, KmTypes
        <4> QED
          BY <4>1, <2>10
      <3> QED
        BY <3>1, <3>2, <2>1, <2>4, <2>8, <1>1, <1>8 DEF KmInv, KmTypes
    <2>13. RefsFit'
      BY <2>4, <1>1, <1>7 DEF KmInv, RefsFit
    <2>14. ASSUME NEW x
           PROVE  PagesOf(x)' = PagesOf(x) /\ Large(x)' = Large(x) /\ LargeFits(x)' = LargeFits(x)
      BY <1>1 DEF PagesOf, Large, LargeFits
    <2>15. LiveFit'
      <3> SUFFICES ASSUME NEW x \in live'
                   PROVE  LargeFits(x) \/ SmallFits(x)'
        BY <2>14 DEF LiveFit
      <3>1. x \in live
        BY <1>1
      <3>2. CASE SmallFits(x)
        <4>1. PICK s \in inuse : pageref[s].page = x.page /\ x.size = sizes[pageref[s].blktype]
          BY <3>2 DEF SmallFits
        <4>2. x.offset \in Nat
          BY <3>1, SmallOrLarge
        <4>3. s # r
          BY <4>1, <4>2, <2>2, <1>2 DEF UsedIn
        <4>4. s \in inuse' /\ pageref'[s] = pageref[s]
          BY <4>3, <2>1, <2>4
        <4> QED
          BY <4>1, <4>4 DEF SmallFits
      <3> QED
        BY <3>1, <3>2 DEF KmInv, LiveFit
    <2>16. ThreadsFit'
      BY <2>7, <2>8, <1>1, <1>6 DEF KmInv, ThreadsFit
    <2>17. \A u \in KThread : kpc[u].page # q
      BY <1>2 DEF KmInv, PagesApart, ThreadsApart
    <2>18. kpc[t].page = 0 /\ 0 \notin KPage
      BY <1>1, KmAssumption DEF AtHome
    <2>19. Covered'
      <3>1. ASSUME NEW p \in KPage
            PROVE  \/ p \in kpages
                   \/ \E s \in inuse' : pageref'[s].page = p
                   \/ \E x \in live' : Large(x) /\ p \in PagesOf(x)
                   \/ \E u \in KThread : kpc'[u].page = p
        <4>1. CASE p = q
          BY <4>1, <2>7, <2>8
        <4>2. CASE \E s \in inuse : pageref[s].page = p /\ p # q
          <5>1. PICK s \in inuse : pageref[s].page = p /\ p # q
            BY <4>2
          <5>2. s \in inuse' /\ pageref'[s] = pageref[s]
            BY <5>1, <2>1, <2>4, <1>2
          <5> QED
            BY <5>1, <5>2
        <4>3. CASE \E u \in KThread : kpc[u].page = p
          <5>1. PICK u \in KThread : kpc[u].page = p
            BY <4>3
          <5>2. u # t
            BY <5>1, <2>18
          <5> QED
            BY <5>1, <5>2, <2>8
        <4> QED
          BY <4>1, <4>2, <4>3, <1>8 DEF KmInv, Covered
      <3> QED
        BY <3>1, <2>14, <1>1 DEF Covered
    <2>20. RefsApart'
      BY <2>4, <1>1 DEF KmInv, PagesApart, RefsApart
    <2>21. LargeApart'
      <3>1. \A x \in live' : Large(x) => \A p \in PagesOf(x) :
               /\ p \notin kpages
               /\ \A s \in inuse' : pageref'[s].page # p
               /\ \A y \in live' : Large(y) /\ p \in PagesOf(y) => x = y
        BY <2>4, <1>8 DEF KmInv, PagesApart, LargeApart
      <3> QED
        BY <3>1, <2>14, <1>1 DEF LargeApart
    <2>22. ThreadsApart'
      <3>1. ASSUME NEW u \in KThread
            PROVE  /\ kpc'[u].page \notin kpages
                   /\ \A s \in inuse' : pageref'[s].page # kpc'[u].page
                   /\ \A x \in live' : Large(x) => kpc'[u].page \notin PagesOf(x)
                   /\ \A v \in KThread : kpc'[v].page = kpc'[u].page /\ kpc'[u].page # 0 => v = u
        <4>1. CASE u = t
          <5>1. kpc'[u].page = q
            BY <4>1, <2>7, <2>8
          <5>2. q \notin kpages
            BY LivePage
          <5>3. \A s \in inuse' : pageref'[s].page # q
            BY <2>4, <1>7
          <5>4. \A x \in live' : Large(x) => q \notin PagesOf(x)
            BY <1>2, <1>8 DEF KmInv, PagesApart, LargeApart
          <5>5. \A v \in KThread : kpc'[v].page = q => v = t
            BY <2>8, <2>17
          <5> QED
            BY <4>1, <5>1, <5>2, <5>3, <5>4, <5>5
        <4>2. CASE u # t
          <5>1. kpc'[u] = kpc[u] /\ kpc[u].page # q
            BY <4>2, <2>8, <2>17
          <5>2. \A v \in KThread : v # t => kpc'[v] = kpc[v]
            BY <2>8
          <5>3. kpc'[t].page = q
            BY <2>7, <2>8
          <5>4. /\ kpc[u].page \notin kpages
                /\ \A s \in inuse : pageref[s].page # kpc[u].page
                /\ \A x \in live : Large(x) => kpc[u].page \notin PagesOf(x)
                /\ \A v \in KThread : kpc[v].page = kpc[u].page /\ kpc[u].page # 0 => v = u
            BY DEF KmInv, PagesApart, ThreadsApart
          <5> QED
            BY <5>1, <5>2, <5>3, <5>4, <2>4, <1>8
        <4> QED
          BY <4>1, <4>2
      <3> QED
        BY <3>1, <2>14, <1>1 DEF ThreadsApart
    <2> QED
      BY <2>11, <2>12, <2>13, <2>15, <2>16, <2>19, <2>20, <2>21, <2>22 DEF KmInv, PagesApart
  <1> QED
    BY <1>9, <1>10

LEMMA AddPageOk ==
  ASSUME KmInv, NEW t \in KThread, AddPage(t)
  PROVE  KmInv'
  <1> DEFINE b == kpc[t].blktype
             q == kpc[t].page
             r == Lowest(PageRef \ inuse)
             fresh == FreshList(b)
             ref == [page |-> q, blktype |-> b, free |-> fresh]
             new == Block(ref, sizes[b])
             left == [page |-> q, blktype |-> b, free |-> Tail(fresh)]
  <1>1. /\ kpc[t].at = "gotpage" /\ inuse # PageRef
        /\ inuse' = inuse \union {r}
        /\ pageref' = Taken([pageref EXCEPT ![r] = ref], r)
        /\ sizebases' = [sizebases EXCEPT ![b] = <<r>> \o @]
        /\ allbase' = <<r>> \o allbase
        /\ live' = live \union {new}
        /\ kpc' = [kpc EXCEPT ![t] = AtHome]
        /\ UNCHANGED <<kpages, kcount>>
    BY DEF AddPage
  <1>2. b \in BlkType /\ q \in Nat
    BY DEF KmInv, KmTypes
  <1>0. /\ inuse' = inuse \union {r} /\ live' = live \union {new}
        /\ kpages' = kpages /\ kcount' = kcount
    BY <1>1
  <1>3. q \in KPage /\ kcount[q] = 1 /\ q # 0
    <2>1. kpc[t].at = "gotpage" /\ AtHome.at = "idle"
      BY <1>1 DEF AtHome
    <2>2. kpc[t].page \in KPage /\ kcount[kpc[t].page] = 1
      BY <2>1 DEF KmInv, ThreadsFit
    <2> QED
      BY <2>2, KmAssumption
  <1>4. r \in PageRef /\ r \notin inuse
    <2>1. PageRef \ inuse \in SUBSET Nat /\ PageRef \ inuse # {}
      <3>1. PageRef \subseteq Nat
        BY SizesAre DEF PageRef
      <3>2. inuse \subseteq PageRef /\ inuse # PageRef
        BY <1>1 DEF KmInv, KmTypes
      <3> QED
        BY <3>1, <3>2
    <2>2. Lowest(PageRef \ inuse) \in PageRef \ inuse
      BY <2>1, LowestIsIn
    <2> QED
      BY <2>2
  <1>5. /\ ListOf(fresh, Offsets(b)) /\ fresh # <<>>
    BY <1>2, FreshListIs
  <1>6. /\ Head(fresh) \in Offsets(b) /\ Head(fresh) \in Nat
        /\ ListOf(Tail(fresh), Offsets(b) \ {Head(fresh)})
        /\ Tail(fresh) \in Seq(Nat)
    <2> HIDE DEF fresh, b
    <2>1. Head(fresh) \in Offsets(b) /\ ListOf(Tail(fresh), Offsets(b) \ {Head(fresh)})
      BY <1>5, TailList
    <2>2. \A o \in Offsets(b) : o \in Nat
      BY <1>2, OffsetFits
    <2>3. Tail(fresh) \in Seq(Nat)
      BY <2>1, <2>2 DEF ListOf
    <2> QED
      BY <2>1, <2>2, <2>3
  <1>7. new = [page |-> q, offset |-> Head(fresh), size |-> sizes[b]]
    BY DEF Block
  <1> HIDE DEF r, fresh, b, q
  <1>8. left \in [page : Nat, blktype : BlkType, free : Seq(Nat)]
    BY <1>2, <1>6
  <1>9. /\ pageref' = [pageref EXCEPT ![r] = left]
        /\ pageref' \in [PageRef -> [page : Nat, blktype : BlkType, free : Seq(Nat)]]
    <2>1. pageref \in [PageRef -> [page : Nat, blktype : BlkType, free : Seq(Nat)]]
      BY DEF KmInv, KmTypes
    <2>2. pageref' = [pageref EXCEPT ![r] = left]
      <3> DEFINE mid == [pageref EXCEPT ![r] = ref]
      <3>1. mid[r] = ref /\ DOMAIN mid = PageRef /\ \A s \in PageRef : s # r => mid[s] = pageref[s]
        BY <2>1, <1>4
      <3>2. pageref' = [mid EXCEPT ![r].free = Tail(mid[r].free)]
        BY <1>1 DEF Taken
      <3> HIDE DEF mid
      <3>3. [ref EXCEPT !.free = Tail(ref.free)] = left
        <4>1. ref.free = fresh
          OBVIOUS
        <4>2. \A rest : [ref EXCEPT !.free = rest] = [page |-> q, blktype |-> b, free |-> rest]
          OBVIOUS
        <4> QED
          BY <4>1, <4>2
      <3>4. pageref' = [mid EXCEPT ![r] = left]
        BY <3>1, <3>2, <3>3
      <3> HIDE DEF left
      <3> QED
        BY <2>1, <3>1, <3>4
    <2> HIDE DEF left
    <2> QED
      BY <2>1, <2>2, <1>4, <1>8
  <1>10. left.page = q /\ left.blktype = b /\ left.free = Tail(fresh)
    OBVIOUS
  <1>11. new.page = q /\ new.offset = Head(fresh) /\ new.size = sizes[b] /\ new \in KmBlock
    BY <1>2, <1>3, <1>6, <1>7, SizesAre DEF KmBlock
  <1> HIDE DEF left, new
  <1>12. pageref'[r] = left /\ \A s \in inuse : s # r /\ s \in PageRef /\ pageref'[s] = pageref[s]
    BY <1>4, <1>9 DEF KmInv, KmTypes
  <1>13. ~ Large(new)
    BY <1>2, <1>11, SizesAre DEF Large
  <1>14. /\ \A x \in live : x.page # q
         /\ \A s \in inuse : pageref[s].page # q
         /\ \A u \in KThread : kpc[u].page = q => u = t
         /\ \A x \in live : Large(x) => q \notin PagesOf(x)
         /\ q \notin kpages
    <2>1. \A x \in live : x.page # q
      BY LivePage DEF q
    <2> QED
      BY <2>1, <1>3 DEF KmInv, PagesApart, ThreadsApart, q
  <1>15. UsedIn(live', q) = {Head(fresh)}
    BY <1>0, <1>6, <1>11, <1>14 DEF UsedIn
  <1>16. \A s \in inuse : UsedIn(live', pageref[s].page) = UsedIn(live, pageref[s].page)
    BY <1>0, <1>11, <1>14 DEF UsedIn
  <1>17. \A x : Large(x) => (x \in live' <=> x \in live)
    BY <1>0, <1>13
  <1>18. AtHome \in [at : {"idle", "getpage", "gotpage", "freepage"}, page : Nat, blktype : BlkType]
    BY SizesAre DEF AtHome
  <1>19. /\ kpc'[t] = AtHome /\ kpc'[t].page = 0
         /\ \A u \in KThread : u # t => kpc'[u] = kpc[u]
         /\ kpc' \in [KThread -> [at : {"idle", "getpage", "gotpage", "freepage"},
                                  page : Nat, blktype : BlkType]]
    BY <1>1, <1>18 DEF KmInv, KmTypes, AtHome
  <1>20. ListOf(allbase', inuse')
    BY <1>1, <1>4, PushList DEF KmInv, ListsFit
  <1>21. ASSUME NEW c \in BlkType
         PROVE  ListOf(sizebases'[c], RefsOf(c)') /\ sizebases'[c] \in Seq(PageRef)
    <2>1. ListOf(sizebases[c], RefsOf(c)) /\ sizebases[c] \in Seq(PageRef)
      BY DEF KmInv, ListsFit, KmTypes
    <2>2. CASE c = b
      <3>1. r \notin RefsOf(c)
        BY <1>4 DEF RefsOf
      <3>2. RefsOf(c)' = RefsOf(c) \union {r}
        BY <2>2, <1>1, <1>10, <1>12 DEF RefsOf
      <3>3. sizebases'[c] = <<r>> \o sizebases[c]
        BY <2>2, <1>1 DEF KmInv, KmTypes
      <3>4. sizebases'[c] \in Seq(PageRef)
        BY <2>1, <3>3, <1>4
      <3> QED
        BY <2>1, <3>1, <3>2, <3>3, <3>4, PushList
    <2>3. CASE c # b
      <3>1. RefsOf(c)' = RefsOf(c)
        BY <2>3, <1>1, <1>4, <1>10, <1>12 DEF RefsOf
      <3>2. sizebases'[c] = sizebases[c]
        BY <2>3, <1>1 DEF KmInv, KmTypes
      <3> QED
        BY <2>1, <3>1, <3>2
    <2> QED
      BY <2>2, <2>3
  <1>22. ListsFit'
    BY <1>20, <1>21 DEF ListsFit
  <1>23. KmTypes'
    <2>1. allbase' \in Seq(PageRef)
      BY <1>1, <1>4 DEF KmInv, KmTypes
    <2>2. sizebases' \in [BlkType -> Seq(PageRef)]
      <3>1. sizebases' = [c \in BlkType |-> sizebases'[c]]
        BY <1>1 DEF KmInv, KmTypes
      <3> QED
        BY <3>1, <1>21
    <2>3. inuse' \subseteq PageRef /\ live' \subseteq KmBlock
      BY <1>1, <1>4, <1>11 DEF KmInv, KmTypes
    <2> QED
      BY <2>1, <2>2, <2>3, <1>1, <1>9, <1>19 DEF KmInv, KmTypes
  <1>24. RefsFit'
    <2>1. ASSUME NEW s \in inuse'
          PROVE  /\ pageref'[s].page \in KPage /\ kcount[pageref'[s].page] = 1
                 /\ PageFits(pageref'[s], UsedIn(live', pageref'[s].page))
      <3>1. CASE s = r
        <4>1. PageFits(left, {Head(fresh)})
          BY <1>6, <1>10 DEF PageFits
        <4> QED
          BY <3>1, <4>1, <1>3, <1>10, <1>12, <1>15
      <3>2. CASE s \in inuse
        BY <3>2, <1>12, <1>16 DEF KmInv, RefsFit
      <3> QED
        BY <3>1, <3>2, <1>0
    <2> QED
      BY <2>1, <1>0 DEF RefsFit
  <1>25. ASSUME NEW x
         PROVE  PagesOf(x)' = PagesOf(x) /\ Large(x)' = Large(x) /\ LargeFits(x)' = LargeFits(x)
    BY <1>0 DEF PagesOf, Large, LargeFits
  <1>26. LiveFit'
    <2>1. ASSUME NEW x \in live', x = new
          PROVE  SmallFits(x)'
      BY <2>1, <1>0, <1>10, <1>11, <1>12 DEF SmallFits
    <2>2. ASSUME NEW x \in live
          PROVE  SmallFits(x) => SmallFits(x)'
      BY <1>0, <1>12 DEF SmallFits
    <2>3. \A x \in live : LargeFits(x) \/ SmallFits(x)
      BY DEF KmInv, LiveFit
    <2>4. \A x \in live' : LargeFits(x)' \/ SmallFits(x)'
      BY <2>1, <2>2, <2>3, <1>0, <1>25
    <2> QED
      BY <2>4 DEF LiveFit
  <1>27. ThreadsFit'
    BY <1>0, <1>19 DEF KmInv, ThreadsFit
  <1>28. Covered'
    <2>1. ASSUME NEW p \in KPage
          PROVE  \/ p \in kpages
                 \/ \E s \in inuse' : pageref'[s].page = p
                 \/ \E x \in live' : Large(x) /\ p \in PagesOf(x)
                 \/ \E u \in KThread : kpc'[u].page = p
      <3>1. CASE p = q
        BY <3>1, <1>0, <1>10, <1>12
      <3>2. CASE \E s \in inuse : pageref[s].page = p
        BY <3>2, <1>0, <1>12
      <3>3. CASE p # q /\ \E u \in KThread : kpc[u].page = p
        <4>1. PICK u \in KThread : kpc[u].page = p
          BY <3>3
        <4>2. u # t
          BY <3>3, <4>1 DEF q
        <4> QED
          BY <4>1, <4>2, <1>19
      <3> QED
        BY <3>1, <3>2, <3>3, <1>17 DEF KmInv, Covered
    <2> QED
      BY <2>1, <1>0, <1>25 DEF Covered
  <1>29. RefsApart'
    <2>1. ASSUME NEW s \in inuse'
          PROVE  /\ pageref'[s].page \notin kpages
                 /\ \A c \in inuse' : pageref'[c].page = pageref'[s].page => c = s
      <3>1. CASE s = r
        BY <3>1, <1>0, <1>10, <1>12, <1>14
      <3>2. CASE s \in inuse
        <4>1. /\ pageref[s].page \notin kpages
              /\ \A c \in inuse : pageref[c].page = pageref[s].page => c = s
          BY <3>2 DEF KmInv, PagesApart, RefsApart
        <4> QED
          BY <3>2, <4>1, <1>0, <1>10, <1>12, <1>14
      <3> QED
        BY <3>1, <3>2, <1>0
    <2> QED
      BY <2>1, <1>0 DEF RefsApart
  <1>30. LargeApart'
    <2>1. ASSUME NEW x \in live', Large(x), NEW p \in PagesOf(x)
          PROVE  /\ p \notin kpages
                 /\ \A s \in inuse' : pageref'[s].page # p
                 /\ \A y \in live' : Large(y) /\ p \in PagesOf(y) => x = y
      <3>1. x \in live
        BY <2>1, <1>17
      <3>2. p # q
        BY <3>1, <2>1, <1>14
      <3>3. /\ p \notin kpages
            /\ \A s \in inuse : pageref[s].page # p
            /\ \A y \in live : Large(y) /\ p \in PagesOf(y) => x = y
        BY <3>1, <2>1 DEF KmInv, PagesApart, LargeApart
      <3> QED
        BY <3>2, <3>3, <1>0, <1>10, <1>12, <1>17
    <2> QED
      BY <2>1, <1>0, <1>25 DEF LargeApart
  <1>31. ThreadsApart'
    <2>1. ASSUME NEW u \in KThread
          PROVE  /\ kpc'[u].page \notin kpages
                 /\ \A s \in inuse' : pageref'[s].page # kpc'[u].page
                 /\ \A x \in live' : Large(x) => kpc'[u].page \notin PagesOf(x)
                 /\ \A v \in KThread : kpc'[v].page = kpc'[u].page /\ kpc'[u].page # 0 => v = u
      <3>1. CASE u = t
        <4>1. 0 \notin KPage /\ kpages \subseteq KPage
          BY KmAssumption DEF KmInv, KmTypes
        <4>2. \A s \in inuse' : pageref'[s].page # 0
          BY <4>1, <1>0, <1>24 DEF RefsFit
        <4>3. \A x \in live : Large(x) => 0 \notin PagesOf(x)
          BY <4>1, SmallOrLarge DEF LargeFits
        <4> QED
          BY <3>1, <4>1, <4>2, <4>3, <1>17, <1>19
      <3>2. CASE u # t
        <4>1. kpc'[u] = kpc[u] /\ kpc[u].page # q
          BY <3>2, <1>14, <1>19
        <4>2. /\ kpc[u].page \notin kpages
              /\ \A s \in inuse : pageref[s].page # kpc[u].page
              /\ \A x \in live : Large(x) => kpc[u].page \notin PagesOf(x)
              /\ \A v \in KThread : kpc[v].page = kpc[u].page /\ kpc[u].page # 0 => v = u
          BY DEF KmInv, PagesApart, ThreadsApart
        <4> QED
          BY <4>1, <4>2, <1>0, <1>10, <1>12, <1>17, <1>19
      <3> QED
        BY <3>1, <3>2
    <2> QED
      BY <2>1, <1>0, <1>25 DEF ThreadsApart
  <1> QED
    BY <1>22, <1>23, <1>24, <1>26, <1>27, <1>28, <1>29, <1>30, <1>31 DEF KmInv, PagesApart

LEMMA KmNextOk ==
  KmInv /\ [KmNext]_kmVars => KmInv'
  <1> SUFFICES ASSUME KmInv, [KmNext]_kmVars
               PROVE  KmInv'
    OBVIOUS
  <1>1. CASE UNCHANGED kmVars
    <2> USE <1>1 DEF kmVars
    <2>1. KmTypes' /\ ListsFit' /\ RefsFit' /\ ThreadsFit'
      BY DEF KmInv, KmTypes, ListsFit, RefsOf, RefsFit, ThreadsFit
    <2>2. LiveFit'
      BY DEF KmInv, LiveFit, LargeFits, SmallFits, PagesOf
    <2>3. Covered'
      BY DEF KmInv, Covered, Large, PagesOf
    <2>4. PagesApart'
      BY DEF KmInv, PagesApart, RefsApart, LargeApart, ThreadsApart, Large, PagesOf
    <2> QED
      BY <2>1, <2>2, <2>3, <2>4 DEF KmInv
  <1>2. ASSUME NEW t \in KThread, NEW sz \in Requests,
               KmallocHit(t, sz) \/ KmallocMiss(t, sz) \/ KmallocPages(t, sz)
        PROVE  KmInv'
    BY <1>2, KmallocHitOk, KmallocMissOk, KmallocPagesOk
  <1>3. ASSUME NEW t \in KThread, GetPage(t) \/ AddPage(t) \/ NoPageRef(t) \/ FreePage(t)
        PROVE  KmInv'
    BY <1>3, GetPageOk, AddPageOk, NoPageRefOk, FreePageOk
  <1>4. ASSUME NEW t \in KThread, NEW blk \in live, KfreeBlock(t, blk) \/ KfreePages(t, blk)
        PROVE  KmInv'
    BY <1>4, KfreeBlockOk, KfreePagesOk
  <1> QED
    BY <1>1, <1>2, <1>3, <1>4 DEF KmNext

-----------------------------------------------------------------------------
(* What follows from the invariant *)

\* The pages of a block in use are not free, and a small block has one.
LEMMA PagesTakenBy ==
  ASSUME KmInv, NEW x \in live
  PROVE  /\ PagesOf(x) \subseteq KPage \ kpages
         /\ ~ Large(x) => PagesOf(x) = {x.page} /\ kcount[x.page] = 1
  <1>1. CASE Large(x)
    BY <1>1, SmallOrLarge DEF LargeFits, KmInv, PagesApart, LargeApart
  <1>2. CASE ~ Large(x)
    <2>1. kcount[x.page] = 1
      BY <1>2, SmallOrLarge DEF SmallFits, KmInv, RefsFit
    <2>2. x.page \in Nat /\ x.page \in KPage
      BY SmallOrLarge, KmAssumption
    <2>3. PagesOf(x) = {x.page}
      BY <2>1, <2>2 DEF PagesOf
    <2> QED
      BY <1>2, <2>1, <2>2, <2>3, LivePage
  <1> QED
    BY <1>1, <1>2

\* The bytes of a block are on its pages.
LEMMA BytesOnPages ==
  ASSUME KmInv, NEW x \in live
  PROVE  /\ x.page \in Nat /\ x.page * PAGE_SIZE \in Nat /\ kcount[x.page] \in Nat
         /\ kcount[x.page] * PAGE_SIZE \in Nat
         /\ x.offset + x.size <= kcount[x.page] * PAGE_SIZE
         /\ \A a \in Bytes(x) : a \div PAGE_SIZE \in PagesOf(x) /\ a \in Int
  <1> DEFINE p == x.page  n == kcount[x.page]
  <1>1. PAGE_SIZE \in Nat \ {0} /\ p \in Nat /\ n \in Nat /\ x.offset \in Nat /\ x.size \in Nat
    BY SizesAre, SmallOrLarge, KmAssumption DEF KmInv, KmTypes
  <1>2. p * PAGE_SIZE \in Nat /\ n * PAGE_SIZE \in Nat
    BY <1>1
  <1>3. x.offset + x.size <= n * PAGE_SIZE
    <2>1. CASE Large(x)
      BY <2>1, <1>2, SmallOrLarge DEF LargeFits
    <2>2. CASE ~ Large(x)
      <3>1. PICK r \in inuse : pageref[r].page = x.page /\ x.size = sizes[pageref[r].blktype]
        BY <2>2, SmallOrLarge DEF SmallFits
      <3>2. pageref[r].blktype \in BlkType
        BY DEF KmInv, KmTypes
      <3>3. x.offset \in UsedIn(live, pageref[r].page)
        BY <3>1, <1>1 DEF UsedIn
      <3>4. x.offset \in Offsets(pageref[r].blktype)
        BY <3>3 DEF KmInv, RefsFit, PageFits
      <3>5. x.offset + x.size <= PAGE_SIZE
        BY <3>1, <3>2, <3>4, OffsetFits
      <3>6. n = 1
        BY <2>2, PagesTakenBy
      <3>7. n * PAGE_SIZE = PAGE_SIZE
        BY <3>6, <1>1
      <3> QED
        BY <3>5, <3>7
    <2> QED
      BY <2>1, <2>2
  <1>4. ASSUME NEW a \in Bytes(x)
        PROVE  a \div PAGE_SIZE \in PagesOf(x) /\ a \in Int
    <2> DEFINE m == p * PAGE_SIZE  k == n * PAGE_SIZE
    <2>0. m \in Nat /\ k \in Nat
      BY <1>2
    <2>1. a \in Int /\ a >= m + x.offset /\ a <= m + x.offset + x.size - 1
      BY <1>1, <1>2 DEF Bytes
    <2>2. x.offset + x.size <= k
      BY <1>3
    <2>3. a >= m /\ a < m + k
      <3> HIDE DEF m, k
      <3> QED
        BY <2>0, <2>1, <2>2, <1>1
    <2>4. a >= p * PAGE_SIZE /\ a < p * PAGE_SIZE + n * PAGE_SIZE
      BY <2>3
    <2>5. a \div PAGE_SIZE \in p .. (p + n - 1)
      BY <2>1, <2>4, <1>1, AddressInPages
    <2> QED
      BY <2>1, <2>5 DEF PagesOf
  <1> QED
    BY <1>1, <1>2, <1>3, <1>4

LEMMA BlocksDisjointOk ==
  ASSUME KmInv
  PROVE  BlocksDisjoint
  <1>1. ASSUME NEW x \in live, NEW a \in Bytes(x)
        PROVE  a \div PAGE_SIZE \in KPage \ kpages
    BY BytesOnPages, PagesTakenBy
  <1>2. ASSUME NEW x \in live, NEW y \in live, x # y
        PROVE  Bytes(x) \intersect Bytes(y) = {}
    <2> SUFFICES ASSUME NEW a \in Bytes(x), a \in Bytes(y)
                 PROVE  FALSE
      OBVIOUS
    <2> DEFINE p == a \div PAGE_SIZE
    <2>1. p \in PagesOf(x) /\ p \in PagesOf(y)
      BY BytesOnPages
    <2>2. CASE Large(x) /\ Large(y)
      BY <1>2, <2>1, <2>2 DEF KmInv, PagesApart, LargeApart
    <2>3. CASE Large(x) /\ ~ Large(y)
      <3>1. p = y.page
        BY <2>1, <2>3, PagesTakenBy
      <3>2. PICK r \in inuse : pageref[r].page = y.page
        BY <2>3, SmallOrLarge DEF SmallFits
      <3> QED
        BY <3>1, <3>2, <2>1, <2>3 DEF KmInv, PagesApart, LargeApart
    <2>4. CASE ~ Large(x) /\ Large(y)
      <3>1. p = x.page
        BY <2>1, <2>4, PagesTakenBy
      <3>2. PICK r \in inuse : pageref[r].page = x.page
        BY <2>4, SmallOrLarge DEF SmallFits
      <3> QED
        BY <3>1, <3>2, <2>1, <2>4 DEF KmInv, PagesApart, LargeApart
    <2>5. CASE ~ Large(x) /\ ~ Large(y)
      <3>1. x.page = p /\ y.page = p
        BY <2>1, <2>5, PagesTakenBy
      <3>2. x.offset # y.offset
        BY <1>2, <2>5, <3>1, SameBlock
      <3>3. PICK r \in inuse : pageref[r].page = x.page /\ x.size = sizes[pageref[r].blktype]
        BY <2>5, SmallOrLarge DEF SmallFits
      <3>4. PICK s \in inuse : pageref[s].page = y.page /\ y.size = sizes[pageref[s].blktype]
        BY <2>5, SmallOrLarge DEF SmallFits
      <3>5. r = s
        BY <3>1, <3>3, <3>4 DEF KmInv, PagesApart, RefsApart
      <3> DEFINE b == pageref[r].blktype
      <3>6. b \in BlkType /\ x.size = sizes[b] /\ y.size = sizes[b] /\ sizes[b] \in Nat
        BY <3>3, <3>4, <3>5, SizesAre DEF KmInv, KmTypes
      <3>7. x.offset \in Nat /\ y.offset \in Nat
        BY SmallOrLarge
      <3>8. x.offset \in Offsets(b) /\ y.offset \in Offsets(b)
        <4>1. x.offset \in UsedIn(live, pageref[r].page) /\ y.offset \in UsedIn(live, pageref[r].page)
          BY <3>1, <3>3, <3>7 DEF UsedIn
        <4> QED
          BY <4>1 DEF KmInv, RefsFit, PageFits
      <3> HIDE DEF b, p
      <3>9. x.offset + x.size <= y.offset \/ y.offset + y.size <= x.offset
        BY <3>2, <3>6, <3>8, OffsetsApart
      <3> DEFINE m == x.page * PAGE_SIZE
      <3>10. m \in Nat /\ y.page * PAGE_SIZE = m /\ a \in Int
        BY <3>1, BytesOnPages
      <3>11. a \in (m + x.offset) .. (m + x.offset + x.size - 1)
        BY DEF Bytes
      <3>12. a \in (m + y.offset) .. (m + y.offset + y.size - 1)
        BY <3>10 DEF Bytes
      <3> HIDE DEF m
      <3> QED
        BY <3>6, <3>7, <3>9, <3>10, <3>11, <3>12
    <2> QED
      BY <2>2, <2>3, <2>4, <2>5
  <1> QED
    BY <1>1, <1>2 DEF BlocksDisjoint

\* The list of all pages is as long as the lists of the sizes together.
LEMMA ListsTogether ==
  ASSUME KmInv
  PROVE  Len(allbase) = Cardinality(UNION {{<<b, i>> : i \in DOMAIN sizebases[b]} : b \in BlkType})
  <1> DEFINE P == UNION {{<<b, i>> : i \in DOMAIN sizebases[b]} : b \in BlkType}
             f == [e \in P |-> sizebases[e[1]][e[2]]]
  <1>1. \A e : e \in P <=> \E b \in BlkType : \E i \in DOMAIN sizebases[b] : e = <<b, i>>
    OBVIOUS
  <1>2. \A b \in BlkType : ListOf(sizebases[b], RefsOf(b)) /\ DOMAIN sizebases[b] = 1 .. Len(sizebases[b])
    BY DEF KmInv, ListsFit, ListOf
  <1> HIDE DEF P
  <1>3. ASSUME NEW e \in P
        PROVE  /\ e[1] \in BlkType /\ e[2] \in DOMAIN sizebases[e[1]] /\ e = <<e[1], e[2]>>
               /\ f[e] = sizebases[e[1]][e[2]] /\ f[e] \in RefsOf(e[1])
    <2>1. e[1] \in BlkType /\ e[2] \in DOMAIN sizebases[e[1]] /\ e = <<e[1], e[2]>>
      BY <1>1
    <2>2. sizebases[e[1]][e[2]] \in RefsOf(e[1])
      BY <2>1, <1>2 DEF ListOf
    <2> QED
      BY <2>1, <2>2
  <1>4. f \in [P -> inuse]
    BY <1>3 DEF RefsOf
  <1>5. ASSUME NEW d \in P, NEW e \in P, f[d] = f[e]
        PROVE  d = e
    <2>1. d[1] = e[1]
      BY <1>3, <1>5 DEF RefsOf
    <2>2. d[2] = e[2]
      <3>1. /\ d[2] \in 1 .. Len(sizebases[d[1]]) /\ e[2] \in 1 .. Len(sizebases[d[1]])
            /\ sizebases[d[1]][d[2]] = sizebases[d[1]][e[2]]
        BY <2>1, <1>2, <1>3, <1>5
      <3>2. ListOf(sizebases[d[1]], RefsOf(d[1]))
        BY <1>2, <1>3
      <3> QED
        BY <3>1, <3>2, OnceEach
    <2> QED
      BY <2>1, <2>2, <1>3
  <1>6. ASSUME NEW r \in inuse
        PROVE  \E e \in P : f[e] = r
    <2>1. pageref[r].blktype \in BlkType /\ r \in RefsOf(pageref[r].blktype)
      BY DEF KmInv, KmTypes, RefsOf
    <2>2. PICK i \in DOMAIN sizebases[pageref[r].blktype] : sizebases[pageref[r].blktype][i] = r
      BY <2>1, <1>2 DEF ListOf
    <2>3. <<pageref[r].blktype, i>> \in P
      BY <2>1, <2>2, <1>1
    <2> QED
      BY <2>2, <2>3
  <1> HIDE DEF f
  <1>7. f \in Bijection(P, inuse)
    BY <1>4, <1>5, <1>6 DEF Bijection, Injection, Surjection, IsInjective
  <1>8. IsFiniteSet(inuse) /\ Cardinality(inuse) = Len(allbase)
    BY ListCounts DEF KmInv, ListsFit
  <1>9. IsFiniteSet(P)
    BY <1>7, <1>8, FS_Injection DEF Bijection
  <1>10. Cardinality(P) = Cardinality(inuse)
    <2>1. ExistsBijection(P, inuse)
      BY <1>7 DEF ExistsBijection
    <2> QED
      BY <2>1, <1>9, FS_Bijection
  <1> QED
    BY <1>8, <1>10 DEF P

LEMMA ListsExactOk ==
  ASSUME KmInv
  PROVE  ListsExact
  <1>1. /\ RangeOf(allbase) = inuse /\ Cardinality(inuse) = Len(allbase) /\ IsFiniteSet(inuse)
        /\ Len(allbase) \in Nat
    BY ListCounts DEF KmInv, ListsFit
  <1>2. ASSUME NEW b \in BlkType
        PROVE  /\ RangeOf(sizebases[b]) = RefsOf(b)
               /\ Cardinality(RangeOf(sizebases[b])) = Len(sizebases[b])
    BY ListCounts DEF KmInv, ListsFit
  <1>3. inuse \subseteq PageRef /\ \A r \in inuse : pageref[r].blktype \in BlkType
    BY DEF KmInv, KmTypes
  <1>4. Len(allbase) <= NPAGEREFS
    <2>1. IsFiniteSet(PageRef) /\ Cardinality(PageRef) = NPAGEREFS
      BY SizesAre, FS_Interval DEF PageRef
    <2> QED
      BY <1>1, <1>3, <2>1, FS_Subset
  <1>5. ASSUME NEW r \in inuse
        PROVE  checksubpage(r)
    <2> DEFINE b == pageref[r].blktype
    <2>1. ListOf(pageref[r].free, Offsets(b) \ UsedIn(live, pageref[r].page)) /\ b \in BlkType
      BY <1>3 DEF KmInv, RefsFit, PageFits
    <2>2. RangeOf(pageref[r].free) \subseteq Offsets(b)
      BY <2>1, ListCounts
    <2>3. ASSUME NEW o \in Offsets(b)
          PROVE  o \in 0 .. (PAGE_SIZE - 1) /\ o % sizes[b] = 0
      <3>1. o \in Nat /\ o + sizes[b] <= PAGE_SIZE /\ o % sizes[b] = 0
        BY <2>1, OffsetFits
      <3>2. sizes[b] \in Nat \ {0} /\ PAGE_SIZE \in Nat
        BY <2>1, SizesAre
      <3> HIDE DEF b
      <3> QED
        BY <3>1, <3>2
    <2> QED
      BY <2>2, <2>3 DEF checksubpage
  <1>6. checksubpages
    <2>1. RangeOf(allbase) \union UNION {RangeOf(sizebases[b]) : b \in BlkType} \subseteq inuse
      BY <1>1, <1>2 DEF RefsOf
    <2> QED
      BY <2>1, <1>4, <1>5, ListsTogether DEF checksubpages
  <1>7. ASSUME NEW r \in inuse
        PROVE  LET used == {blk.offset : blk \in {x \in live : x.page = pageref[r].page}}
                   free == RangeOf(pageref[r].free)
               IN /\ Cardinality(free) = Len(pageref[r].free)
                  /\ used # {} /\ used \intersect free = {}
                  /\ Cardinality(used) + Cardinality(free) = Blocks(pageref[r].blktype)
    <2> DEFINE used == {blk.offset : blk \in {x \in live : x.page = pageref[r].page}}
               free == RangeOf(pageref[r].free)
               b == pageref[r].blktype
    <2>1. used = UsedIn(live, pageref[r].page)
      <3>1. \A x \in live : x.offset \in Nat
        BY SmallOrLarge
      <3> QED
        BY <3>1 DEF UsedIn
    <2>2. used # {} /\ used \subseteq Offsets(b) /\ ListOf(pageref[r].free, Offsets(b) \ used)
      BY <2>1 DEF KmInv, RefsFit, PageFits
    <2> HIDE DEF used
    <2>3. /\ free = Offsets(b) \ used /\ IsFiniteSet(Offsets(b) \ used)
          /\ Cardinality(Offsets(b) \ used) = Len(pageref[r].free)
      BY <2>2, ListCounts
    <2>4. IsFiniteSet(Offsets(b)) /\ Cardinality(Offsets(b)) = Blocks(b)
      BY <1>3, FreshListIs, ListCounts
    <2> HIDE DEF free
    <2>5. IsFiniteSet(used)
      BY <2>2, <2>4, FS_Subset
    <2>6. used \union free = Offsets(b) /\ used \intersect free = {}
      BY <2>2, <2>3
    <2>7. Cardinality(used) \in Nat /\ Cardinality(free) \in Nat
      BY <2>3, <2>5, FS_CardinalityType
    <2>8. Cardinality(used \union free)
            = Cardinality(used) + Cardinality(free) - Cardinality(used \intersect free)
      BY <2>3, <2>5, FS_Union
    <2>9. Cardinality(used) + Cardinality(free) = Blocks(b)
      <3>1. Cardinality(used \intersect free) = 0
        BY <2>6, FS_EmptySet
      <3>2. Cardinality(used \union free) = Blocks(b)
        BY <2>4, <2>6
      <3> QED
        BY <2>7, <2>8, <3>1, <3>2
    <2>10. /\ Cardinality(free) = Len(pageref[r].free)
           /\ used # {} /\ used \intersect free = {}
           /\ Cardinality(used) + Cardinality(free) = Blocks(b)
      BY <2>2, <2>3, <2>6, <2>9
    <2> QED
      BY <2>10 DEF used, free
  <1> QED
    BY <1>1, <1>2, <1>6, <1>7 DEF ListsExact, RefsOf

LEMMA NoPageLostOk ==
  ASSUME KmInv
  PROVE  NoPageLost
  <1> SUFFICES ASSUME NEW p \in KPage
               PROVE  Cardinality({<<"free", q>> : q \in {p} \intersect kpages}
                        \union {<<"ref", r>> : r \in {x \in inuse : pageref[x].page = p}}
                        \union {<<"big", blk>> : blk \in {x \in live : x.size >= PAGE_SIZE
                                                            /\ p * PAGE_SIZE \in Bytes(x)}}
                        \union {<<"thread", t>> : t \in {x \in KThread : kpc[x].page = p}}) = 1
    BY DEF NoPageLost
  <1> DEFINE F == {<<"free", q>> : q \in {p} \intersect kpages}
             R == {<<"ref", r>> : r \in {x \in inuse : pageref[x].page = p}}
             B == {<<"big", blk>> : blk \in {x \in live : x.size >= PAGE_SIZE
                                                /\ p * PAGE_SIZE \in Bytes(x)}}
             T == {<<"thread", t>> : t \in {x \in KThread : kpc[x].page = p}}
  <1>0. p \in Nat /\ p # 0
    BY KmAssumption
  <1>1. ASSUME NEW x \in live, Large(x)
        PROVE  p * PAGE_SIZE \in Bytes(x) <=> p \in PagesOf(x)
    <2> DEFINE s == PAGE_SIZE  c == x.page  n == kcount[x.page]
    <2>1. /\ s \in Nat \ {0} /\ c \in Nat /\ n \in Nat /\ x.offset = 0 /\ x.size = n * s
      BY <1>1, SizesAre, BytesOnPages, SmallOrLarge DEF LargeFits
    <2>2. p * s \in Nat /\ c * s \in Nat /\ n * s \in Nat /\ (c + n) * s = c * s + n * s
      BY <1>0, <2>1
    <2>3. Bytes(x) = (c * s) .. (c * s + n * s - 1)
      BY <2>1, <2>2 DEF Bytes
    <2>4. ASSUME p * s \in Bytes(x)
          PROVE  p \in PagesOf(x)
      <3>1. (p * PAGE_SIZE) \div PAGE_SIZE \in PagesOf(x)
        BY <2>4, BytesOnPages
      <3>2. (p * PAGE_SIZE) \div PAGE_SIZE = p
        <4>1. 0 \in 0 .. (PAGE_SIZE - 1) /\ p * PAGE_SIZE = p * PAGE_SIZE + 0 /\ p * PAGE_SIZE \in Nat
          BY <2>1, <2>2
        <4> QED
          BY <4>1, <1>0, <2>1, QuotientOf
      <3> QED
        BY <3>1, <3>2
    <2>5. ASSUME p \in PagesOf(x)
          PROVE  p * s \in Bytes(x)
      <3>1. c <= p /\ p < c + n
        BY <2>1, <2>5, <1>0 DEF PagesOf
      <3> HIDE DEF c, n, s
      <3>2. c * s <= p * s
        BY <3>1, <1>0, <2>1, <2>2, MultiplesApart
      <3>3. p * s + s <= (c + n) * s
        BY <3>1, <1>0, <2>1, MultiplesApart
      <3> QED
        BY <3>2, <3>3, <2>1, <2>2, <2>3
    <2> QED
      BY <2>4, <2>5
  <1>2. B = {<<"big", blk>> : blk \in {x \in live : Large(x) /\ p \in PagesOf(x)}}
    BY <1>1 DEF Large
  <1>3. \E o : F \union R \union B \union T = {o}
    <2>1. CASE p \in kpages
      <3>1. F = {<<"free", p>>}
        BY <2>1
      <3>2. R = {} /\ T = {}
        BY <2>1 DEF KmInv, PagesApart, RefsApart, ThreadsApart
      <3>3. B = {}
        BY <2>1, <1>2 DEF KmInv, PagesApart, LargeApart
      <3> QED
        BY <3>1, <3>2, <3>3
    <2>2. ASSUME NEW r \in inuse, pageref[r].page = p
          PROVE  \E o : F \union R \union B \union T = {o}
      <3>1. F = {} /\ R = {<<"ref", r>>}
        BY <2>2 DEF KmInv, PagesApart, RefsApart
      <3>2. T = {}
        BY <2>2 DEF KmInv, PagesApart, ThreadsApart
      <3>3. B = {}
        BY <2>2, <1>2 DEF KmInv, PagesApart, LargeApart
      <3> QED
        BY <3>1, <3>2, <3>3
    <2>3. ASSUME NEW x \in live, Large(x), p \in PagesOf(x)
          PROVE  \E o : F \union R \union B \union T = {o}
      <3>1. F = {} /\ R = {}
        BY <2>3 DEF KmInv, PagesApart, LargeApart
      <3>2. T = {}
        BY <2>3 DEF KmInv, PagesApart, ThreadsApart
      <3>3. B = {<<"big", x>>}
        BY <2>3, <1>2 DEF KmInv, PagesApart, LargeApart
      <3> QED
        BY <3>1, <3>2, <3>3
    <2>4. ASSUME NEW t \in KThread, kpc[t].page = p
          PROVE  \E o : F \union R \union B \union T = {o}
      <3>1. F = {} /\ R = {}
        BY <2>4 DEF KmInv, PagesApart, ThreadsApart
      <3>2. T = {<<"thread", t>>}
        BY <2>4, <1>0 DEF KmInv, PagesApart, ThreadsApart
      <3>3. B = {}
        BY <2>4, <1>2 DEF KmInv, PagesApart, ThreadsApart
      <3> QED
        BY <3>1, <3>2, <3>3
    <2> QED
      BY <2>1, <2>2, <2>3, <2>4 DEF KmInv, Covered
  <1>4. Cardinality(F \union R \union B \union T) = 1
    <2> HIDE DEF F, R, B, T
    <2> QED
      BY <1>3, FS_Singleton
  <1> QED
    BY <1>4

\* Soundness of the kernel heap (kmalloc.c) for any number of threads, pages and
\* pagerefs and any block sizes smaller than a page: whatever interleaving of
\* kmalloc and kfree, although pages change hands outside kmalloc_spinlock, no byte
\* has two users, the lists agree with the pool and the free lists with the blocks
\* in use, and no page is lost when memory or pagerefs run out.
THEOREM KernelHeapSoundThm ==
  KmSpec => []KernelHeapSound
  <1>1. KmInv => KernelHeapSound
    BY BlocksDisjointOk, ListsExactOk, NoPageLostOk DEF KernelHeapSound
  <1> QED
    BY <1>1, KmInitOk, KmNextOk, PTL DEF KmSpec

-----------------------------------------------------------------------------
(***************************************************************************)
(* The C library's heap (UserMalloc).                                      *)
(***************************************************************************)

MHeader == [prev : Nat, next : Nat, inuse : BOOLEAN]

\* Headers tile the heap from 0 to top: the next header is where this one says,
\* nothing is in between, and back links are right.
HeaderFits(h, top, c) ==
    /\ c + h[c].next <= top
    /\ c + h[c].next # top => h[c + h[c].next].next > 0
    /\ \A d \in Unit : c < d /\ d < c + h[c].next => h[d].next = 0
    /\ c = 0 => h[c].prev = 0
    /\ c # 0 => h[c].prev > 0 /\ h[c].prev <= c /\ h[c - h[c].prev].next = h[c].prev
Tiled(h, top) ==
    /\ h \in [Unit -> MHeader]
    /\ top > 0 => h[0].next > 0
    /\ \A c \in Unit : h[c].next = 0 => h[c] = Blank
    /\ \A c \in Unit : h[c].next > 0 => HeaderFits(h, top, c)

\* A free block whose next block is free too.
FreePair(h, top, c) ==
    /\ h[c].next > 0 /\ c + h[c].next # top
    /\ ~ h[c].inuse /\ ~ h[c + h[c].next].inuse
NoFreePair == \A c \in Unit : ~ FreePair(hdr, heaptop, c)

\* A block of the program is the data of a header in use, and large enough.
BlocksKnown ==
    /\ DOMAIN userBlocks \subseteq 1 .. HeapMax
    /\ \A x \in DOMAIN userBlocks :
         /\ userBlocks[x] \in Nat
         /\ hdr[x - 1].next > 0 /\ hdr[x - 1].inuse
         /\ (hdr[x - 1].next - 1) * MBLOCKSIZE >= userBlocks[x]

UmInv ==
    /\ heaptop \in 0 .. HeapMax
    /\ Tiled(hdr, heaptop) /\ NoFreePair /\ BlocksKnown

LEMMA UnitsAre ==
  ASSUME NEW top \in 0 .. HeapMax
  PROVE  HeapMax \in Nat /\ top \in Nat /\ \A c \in Int : c \in Unit <=> 0 <= c /\ c < HeapMax
  BY UmAssumption DEF Unit

\* What a header knows of its neighbours.
LEMMA NextHeader ==
  ASSUME NEW top \in 0 .. HeapMax, NEW h, Tiled(h, top), NEW c \in Unit, h[c].next > 0
  PROVE  /\ c \in Nat /\ h[c] \in MHeader /\ h[c].next \in Nat /\ h[c].prev \in Nat
         /\ c < top /\ c + h[c].next <= top
         /\ c + h[c].next # top => /\ c + h[c].next \in Unit
                                   /\ h[c + h[c].next].next > 0
                                   /\ h[c + h[c].next].prev = h[c].next
         /\ c # 0 => /\ c - h[c].prev \in Unit /\ h[c - h[c].prev].next > 0
                     /\ c - h[c].prev + h[c - h[c].prev].next = c
  <1>1. HeaderFits(h, top, c) /\ h[c] \in MHeader /\ c \in Nat
    BY UnitsAre DEF Tiled, Unit
  <1>2. h[c].next \in Nat /\ h[c].prev \in Nat
    BY <1>1 DEF MHeader
  <1> DEFINE e == c + h[c].next
  <1>3. e \in Nat /\ e <= top /\ c < e
    BY <1>1, <1>2 DEF HeaderFits
  <1>4. ASSUME e # top
        PROVE  e \in Unit /\ h[e].next > 0 /\ h[e].prev = h[c].next
    <2>1. e \in Unit
      BY <1>3, <1>4, UnitsAre
    <2>2. h[e].next > 0
      BY <1>1, <1>4 DEF HeaderFits
    <2>3. HeaderFits(h, top, e) /\ h[e] \in MHeader
      BY <2>1, <2>2 DEF Tiled
    <2> DEFINE p == h[e].prev  d == e - p
    <2>4. p \in Nat
      BY <2>3 DEF MHeader
    <2> HIDE DEF p
    <2>5. p > 0 /\ p <= e /\ h[d].next = p
      BY <1>1, <1>3, <2>3 DEF HeaderFits, p
    <2>6. d \in Nat /\ d < e
      BY <1>3, <2>4, <2>5
    <2>7. d \in Unit
      <3>1. e < HeapMax /\ HeapMax \in Nat
        BY <1>3, <2>1, UnitsAre
      <3> QED
        BY <3>1, <2>6, <1>3, UnitsAre
    <2>8. HeaderFits(h, top, d) /\ d + h[d].next = e
      BY <2>4, <2>5, <2>6, <2>7, <1>3 DEF Tiled
    <2> HIDE DEF d
    <2>9. ~ (d < c)
      BY <2>8, <1>1, <1>2, <1>3 DEF HeaderFits
    <2>10. ~ (c < d)
      BY <1>1, <2>4, <2>5, <2>6, <2>7 DEF HeaderFits
    <2>11. d = c
      BY <2>6, <2>9, <2>10, <1>1
    <2> QED
      BY <2>1, <2>2, <2>5, <2>11 DEF p
  <1>5. ASSUME c # 0
        PROVE  /\ c - h[c].prev \in Unit /\ h[c - h[c].prev].next > 0
               /\ c - h[c].prev + h[c - h[c].prev].next = c
    <2>1. h[c].prev > 0 /\ h[c].prev <= c /\ h[c - h[c].prev].next = h[c].prev
      BY <1>1, <1>5 DEF HeaderFits
    <2>2. c - h[c].prev \in Nat /\ c - h[c].prev < c
      BY <2>1, <1>1, <1>2
    <2>3. c - h[c].prev \in Unit
      BY <2>2, <1>1, UnitsAre
    <2> QED
      BY <2>1, <2>3, <1>1, <1>2
  <1> QED
    BY <1>1, <1>2, <1>3, <1>4, <1>5

-----------------------------------------------------------------------------
(* The walk *)

\* The body of WalkFrom.
Visits(f, a) ==
    IF a >= heaptop \/ hdr[a].next = 0 THEN {a}
    ELSE {a} \union (IF a + hdr[a].next <= HeapMax THEN f[a + hdr[a].next] ELSE {})

\* A set of natural numbers has a least one.
LEMMA LeastNatural ==
  ASSUME NEW S \in SUBSET Nat, S # {}
  PROVE  \E i \in S : \A j \in S : i <= j
  <1> DEFINE R == OpToRel(<, Nat)
  <1>1. \E i \in S : \A j \in S : ~ (<<j, i>> \in R)
    <2>1. IsWellFoundedOn(R, Nat)
      BY NatLessThanWellFounded
    <2> HIDE DEF R
    <2> QED
      BY <2>1, WFMin
  <1>2. \A i, j \in Nat : <<j, i>> \notin R => i <= j
    BY DEF OpToRel
  <1> HIDE DEF R
  <1> QED
    BY <1>1, <1>2

\* There is a function as WalkFrom is defined: links go upwards.
LEMMA WalkDefined ==
  ASSUME heaptop \in 0 .. HeapMax, hdr \in [Unit -> MHeader]
  PROVE  WalkFrom = [a \in 0 .. HeapMax |-> Visits(WalkFrom, a)]
  <1> DEFINE N == HeapMax
             Works(n) == \E f : f = [a \in (N - n) .. N |-> Visits(f, a)]
             bad == {n \in Nat : n <= N /\ ~ Works(n)}
  <1>0. N \in Nat /\ heaptop \in Nat /\ heaptop <= N
    BY UnitsAre
  <1>1. \A a \in 0 .. N : ~ (a >= heaptop) => hdr[a].next \in Nat
    <2> SUFFICES ASSUME NEW a \in 0 .. N, ~ (a >= heaptop)
                 PROVE  hdr[a].next \in Nat
      OBVIOUS
    <2>1. a \in Unit
      BY <1>0, UnitsAre
    <2> QED
      BY <2>1 DEF MHeader
  <1>2. Works(0)
    <2> DEFINE f == [a \in (N - 0) .. N |-> {a}]
    <2>1. (N - 0) .. N = {N}
      BY <1>0
    <2>2. ASSUME NEW a \in {N}
          PROVE  Visits(f, a) = {a}
      BY <1>0, <1>1 DEF Visits
    <2>3. f = [a \in (N - 0) .. N |-> Visits(f, a)]
      BY <2>1, <2>2
    <2> QED
      BY <2>3
  <1>3. ASSUME NEW n \in Nat, n + 1 <= N, Works(n)
        PROVE  Works(n + 1)
    <2>1. PICK f : f = [a \in (N - n) .. N |-> Visits(f, a)]
      BY <1>3
    <2> DEFINE m == N - (n + 1)
               g == [a \in m .. N |-> IF a = m THEN Visits(f, m) ELSE f[a]]
    <2>2. m \in Nat /\ m + 1 = N - n
      BY <1>0, <1>3
    <2> HIDE DEF m
    <2>3. \A a \in m .. N : a \in 0 .. N /\ (a # m => a \in (N - n) .. N)
      BY <2>2, <1>0
    <2>4. \A a \in (N - n) .. N : g[a] = f[a]
      BY <2>2, <1>0
    <2>5. ASSUME NEW a \in m .. N
          PROVE  Visits(g, a) = Visits(f, a)
      <3>1. CASE a >= heaptop \/ hdr[a].next = 0
        BY <3>1 DEF Visits
      <3>2. CASE ~ (a >= heaptop \/ hdr[a].next = 0) /\ a + hdr[a].next <= N
        <4>1. hdr[a].next \in Nat /\ hdr[a].next # 0
          BY <3>2, <2>3, <1>1
        <4>2. a + hdr[a].next \in (N - n) .. N
          BY <4>1, <3>2, <2>2, <1>0
        <4>3. g[a + hdr[a].next] = f[a + hdr[a].next]
          BY <4>2, <2>4
        <4> HIDE DEF g
        <4> QED
          BY <4>3 DEF Visits
      <3>3. CASE ~ (a >= heaptop \/ hdr[a].next = 0) /\ ~ (a + hdr[a].next <= N)
        BY <3>3 DEF Visits
      <3> QED
        BY <3>1, <3>2, <3>3
    <2>6. ASSUME NEW a \in m .. N
          PROVE  g[a] = Visits(g, a)
      <3>1. CASE a = m
        BY <3>1, <2>5
      <3>2. CASE a # m
        <4>1. g[a] = f[a] /\ a \in (N - n) .. N
          BY <3>2, <2>3
        <4>2. f[a] = Visits(f, a)
          BY <2>1, <4>1
        <4> HIDE DEF g
        <4> QED
          BY <4>1, <4>2, <2>5
      <3> QED
        BY <3>1, <3>2
    <2>7. g = [a \in m .. N |-> g[a]]
      OBVIOUS
    <2> HIDE DEF g
    <2>8. g = [a \in m .. N |-> Visits(g, a)]
      BY <2>6, <2>7
    <2> QED
      BY <2>8 DEF m
  <1>4. bad = {}
    <2> HIDE DEF Works
    <2> SUFFICES ASSUME bad # {} PROVE FALSE
      OBVIOUS
    <2>1. bad \in SUBSET Nat
      OBVIOUS
    <2>2. PICK n \in bad : \A j \in bad : n <= j
      <3> HIDE DEF bad
      <3> QED
        BY <2>1, LeastNatural
    <2>3. n # 0
      BY <1>2
    <2>4. n - 1 \in Nat /\ n - 1 <= N /\ n - 1 \notin bad /\ (n - 1) + 1 = n /\ n <= N
      BY <2>2, <2>3, <1>0
    <2>5. Works(n - 1)
      BY <2>4
    <2>6. Works((n - 1) + 1)
      BY <2>4, <2>5, <1>3
    <2> QED
      BY <2>4, <2>6
  <1>5. Works(N)
    <2> HIDE DEF Works
    <2> QED
      BY <1>0, <1>4
  <1>6. (N - N) .. N = 0 .. HeapMax
    BY <1>0
  <1>7. \E f : f = [a \in 0 .. HeapMax |-> Visits(f, a)]
    BY <1>5, <1>6
  <1>8. WalkFrom = CHOOSE f : f = [a \in 0 .. HeapMax |-> Visits(f, a)]
    BY DEF WalkFrom, Visits
  <1> QED
    BY <1>7, <1>8

\* The walk of a tiled heap visits every header.
LEMMA WalkIs ==
  ASSUME heaptop \in 0 .. HeapMax, Tiled(hdr, heaptop)
  PROVE  Walk = {a \in Unit : hdr[a].next > 0}
  <1> DEFINE N == HeapMax
             From(c) == {d \in Unit : d >= c /\ hdr[d].next > 0} \union {heaptop}
             bad == {n \in Nat : \E c \in Unit : hdr[c].next > 0 /\ n = heaptop - c /\ WalkFrom[c] # From(c)}
  <1>0. N \in Nat /\ heaptop \in Nat /\ heaptop <= N
    BY UnitsAre
  <1>1. WalkFrom = [a \in 0 .. HeapMax |-> Visits(WalkFrom, a)]
    BY WalkDefined DEF Tiled
  <1>2. \A a \in 0 .. HeapMax : WalkFrom[a] = Visits(WalkFrom, a)
    BY <1>1
  <1>3. WalkFrom[heaptop] = {heaptop}
    <2>1. heaptop \in 0 .. HeapMax
      BY <1>0
    <2>2. Visits(WalkFrom, heaptop) = {heaptop}
      BY <1>0 DEF Visits
    <2> QED
      BY <2>1, <2>2, <1>2
  <1>4. ASSUME NEW c \in Unit, hdr[c].next > 0,
               c + hdr[c].next # heaptop => WalkFrom[c + hdr[c].next] = From(c + hdr[c].next)
        PROVE  WalkFrom[c] = From(c)
    <2> DEFINE e == c + hdr[c].next
    <2>1. /\ c \in Nat /\ hdr[c].next \in Nat /\ c < heaptop /\ e <= heaptop
          /\ HeaderFits(hdr, heaptop, c)
      BY <1>4, NextHeader DEF Tiled
    <2>2. c \in 0 .. HeapMax /\ e \in Nat /\ e <= HeapMax /\ c < e
      BY <2>1, <1>0, <1>4
    <2>3. WalkFrom[c] = {c} \union WalkFrom[e]
      <3>1. Visits(WalkFrom, c) = {c} \union WalkFrom[e]
        BY <1>4, <2>1, <2>2 DEF Visits
      <3> QED
        BY <3>1, <1>2, <2>2
    <2>4. \A d \in Unit : c < d /\ d < e => hdr[d].next = 0
      BY <2>1 DEF HeaderFits
    <2>5. \A d \in Unit : d \in Nat
      BY UnitsAre DEF Unit
    <2>6. \A d \in Unit : d >= heaptop => ~ (hdr[d].next > 0)
      BY <1>0, <2>5, NextHeader
    <2>7. CASE e = heaptop
      <3>1. \A d \in Unit : d >= c /\ hdr[d].next > 0 <=> d = c
        BY <1>4, <2>1, <2>4, <2>5, <2>6, <2>7
      <3>2. WalkFrom[c] = {c} \union {heaptop}
        BY <2>3, <2>7, <1>3
      <3> QED
        BY <3>1, <3>2, <1>4
    <2>8. CASE e # heaptop
      <3>1. \A d \in Unit : d >= c /\ hdr[d].next > 0 <=> d = c \/ (d >= e /\ hdr[d].next > 0)
        BY <1>4, <2>1, <2>2, <2>4, <2>5
      <3>2. WalkFrom[c] = {c} \union From(e)
        BY <2>3, <2>8, <1>4
      <3> QED
        BY <3>1, <3>2, <1>4
    <2> QED
      BY <2>7, <2>8
  <1>5. bad = {}
    <2> HIDE DEF From
    <2> SUFFICES ASSUME bad # {} PROVE FALSE
      OBVIOUS
    <2>1. bad \in SUBSET Nat
      OBVIOUS
    <2>2. PICK n \in bad : \A j \in bad : n <= j
      <3> HIDE DEF bad
      <3> QED
        BY <2>1, LeastNatural
    <2>3. PICK c \in Unit : hdr[c].next > 0 /\ n = heaptop - c /\ WalkFrom[c] # From(c)
      BY <2>2
    <2> DEFINE e == c + hdr[c].next
    <2>4. e # heaptop /\ WalkFrom[e] # From(e)
      BY <2>3, <1>4
    <2>5. /\ c \in Nat /\ hdr[c].next \in Nat /\ e <= heaptop
          /\ e \in Unit /\ hdr[e].next > 0
      BY <2>3, <2>4, NextHeader
    <2>6. heaptop - e \in Nat /\ heaptop - e < n
      BY <2>3, <2>4, <2>5, <1>0
    <2> HIDE DEF e
    <2>7. heaptop - e \in bad
      BY <2>4, <2>5, <2>6
    <2> QED
      BY <2>1, <2>2, <2>6, <2>7
  <1>6. ASSUME NEW c \in Unit, hdr[c].next > 0
        PROVE  WalkFrom[c] = From(c)
    <2>1. c \in Nat /\ c < heaptop
      BY <1>6, NextHeader
    <2>2. heaptop - c \in Nat
      BY <2>1, <1>0
    <2> HIDE DEF From
    <2> QED
      BY <1>5, <1>6, <2>2
  <1>7. CASE heaptop = 0
    <2>1. \A d \in Unit : ~ (hdr[d].next > 0)
      BY <1>7, NextHeader
    <2> QED
      BY <2>1, <1>3, <1>7 DEF Walk
  <1>8. CASE heaptop # 0
    <2>1. 0 \in Unit /\ hdr[0].next > 0
      BY <1>0, <1>8, UnitsAre DEF Tiled
    <2>2. WalkFrom[0] = From(0)
      BY <2>1, <1>6
    <2>3. \A d \in Unit : d >= 0
      BY <1>0, UnitsAre DEF Unit
    <2>4. \A d \in Unit : hdr[d].next > 0 => d # heaptop
      BY <1>0, NextHeader
    <2> QED
      BY <2>2, <2>3, <2>4 DEF Walk
  <1> QED
    BY <1>7, <1>8

LEMMA HeapTiledOk ==
  ASSUME UmInv
  PROVE  UserHeapSound
  <1>1. heaptop \in 0 .. HeapMax /\ Tiled(hdr, heaptop)
    BY DEF UmInv
  <1>2. Walk = {a \in Unit : hdr[a].next > 0}
    BY <1>1, WalkIs
  <1>3. Consistent
    <2> SUFFICES ASSUME NEW a \in Unit, hdr[a].next > 0
                 PROVE  /\ hdr[a].next > 0
                        /\ a + hdr[a].next <= heaptop
                        /\ IF a = 0 THEN hdr[a].prev = 0
                           ELSE hdr[a - hdr[a].prev].next = hdr[a].prev /\ hdr[a].prev > 0
      BY <1>2 DEF Consistent
    <2>1. HeaderFits(hdr, heaptop, a)
      BY <1>1 DEF Tiled
    <2> QED
      BY <2>1 DEF HeaderFits
  <1>4. Walk = {a \in Unit : hdr[a] # Blank}
    <2>1. \A a \in Unit : hdr[a].next \in Nat /\ (hdr[a].next = 0 <=> hdr[a] = Blank)
      BY <1>1 DEF Tiled, MHeader, Blank
    <2> QED
      BY <1>2, <2>1
  <1>5. \A a \in Walk : a + hdr[a].next # heaptop /\ ~hdr[a].inuse => hdr[a + hdr[a].next].inuse
    BY <1>2 DEF UmInv, NoFreePair, FreePair
  <1>6. ASSUME NEW x \in DOMAIN userBlocks
        PROVE  /\ hdr[x - 1].inuse
               /\ M_SIZE(hdr, x - 1) * MBLOCKSIZE >= userBlocks[x]
               /\ \A a \in x .. (x + M_SIZE(hdr, x - 1) - 1) : a \in Unit /\ hdr[a] = Blank
    <2>1. /\ x \in 1 .. HeapMax /\ hdr[x - 1].next > 0 /\ hdr[x - 1].inuse
          /\ (hdr[x - 1].next - 1) * MBLOCKSIZE >= userBlocks[x]
      BY DEF UmInv, BlocksKnown
    <2> DEFINE c == x - 1  n == hdr[c].next
    <2>2. c \in Unit /\ c \in Nat /\ x = c + 1 /\ HeapMax \in Nat
      BY <2>1, <1>1, UnitsAre
    <2>3. n \in Nat /\ n > 0 /\ c + n <= heaptop /\ HeaderFits(hdr, heaptop, c)
      BY <1>1, <2>1, <2>2, NextHeader DEF Tiled
    <2>4. M_SIZE(hdr, x - 1) = n - 1
      BY DEF M_SIZE
    <2> HIDE DEF n
    <2>5. ASSUME NEW a \in x .. (x + (n - 1) - 1)
          PROVE  a \in Unit /\ hdr[a] = Blank
      <3>1. a \in Int /\ c < a /\ a < c + n
        BY <2>2, <2>3
      <3>2. heaptop <= HeapMax /\ heaptop \in Nat
        BY <1>1, UnitsAre
      <3>3. a \in Unit
        BY <3>1, <3>2, <2>2, <2>3, <1>1, UnitsAre
      <3>4. hdr[a].next = 0
        BY <3>1, <3>3, <2>3 DEF HeaderFits, n
      <3> QED
        BY <3>3, <3>4, <1>1 DEF Tiled
    <2> QED
      BY <2>1, <2>4, <2>5 DEF n
  <1> QED
    BY <1>3, <1>4, <1>5, <1>6 DEF UserHeapSound, HeapTiled, UserBlocksSound

-----------------------------------------------------------------------------
(* What malloc and free do to the headers *)

\* Only mh_inuse of the header at a changes.
IsMark(g, h, a) ==
    /\ g \in [Unit -> MHeader]
    /\ g[a].next = h[a].next /\ g[a].prev = h[a].prev
    /\ \A c \in Unit : c # a => g[c] = h[c]

LEMMA MarkIs ==
  ASSUME NEW h \in [Unit -> MHeader], NEW a \in Unit, NEW g
  PROVE  /\ g = [h EXCEPT ![a].inuse = TRUE] => IsMark(g, h, a) /\ g[a].inuse
         /\ g = [h EXCEPT ![a].inuse = FALSE] => IsMark(g, h, a) /\ ~ g[a].inuse
  <1>1. h[a] \in MHeader
    OBVIOUS
  <1>2. ASSUME g = [h EXCEPT ![a].inuse = TRUE]
        PROVE  IsMark(g, h, a) /\ g[a].inuse
    <2> DEFINE r == [h[a] EXCEPT !.inuse = TRUE]
    <2>1. r \in MHeader /\ r.next = h[a].next /\ r.prev = h[a].prev /\ r.inuse
      BY <1>1 DEF MHeader
    <2>2. g = [h EXCEPT ![a] = r]
      BY <1>2
    <2> HIDE DEF r
    <2>3. g \in [Unit -> MHeader] /\ g[a] = r /\ \A c \in Unit : c # a => g[c] = h[c]
      BY <2>1, <2>2
    <2> QED
      BY <2>1, <2>3 DEF IsMark
  <1>3. ASSUME g = [h EXCEPT ![a].inuse = FALSE]
        PROVE  IsMark(g, h, a) /\ ~ g[a].inuse
    <2> DEFINE r == [h[a] EXCEPT !.inuse = FALSE]
    <2>1. r \in MHeader /\ r.next = h[a].next /\ r.prev = h[a].prev /\ ~ r.inuse
      BY <1>1 DEF MHeader
    <2>2. g = [h EXCEPT ![a] = r]
      BY <1>3
    <2> HIDE DEF r
    <2>3. g \in [Unit -> MHeader] /\ g[a] = r /\ \A c \in Unit : c # a => g[c] = h[c]
      BY <2>1, <2>2
    <2> QED
      BY <2>1, <2>3 DEF IsMark
  <1> QED
    BY <1>2, <1>3

LEMMA MarkTiled ==
  ASSUME NEW top \in 0 .. HeapMax, NEW h, Tiled(h, top), NEW a \in Unit, h[a].next > 0,
         NEW g, IsMark(g, h, a)
  PROVE  /\ Tiled(g, top)
         /\ \A c \in Unit : g[c].next = h[c].next /\ g[c].prev = h[c].prev
         /\ \A c \in Unit : c # a => g[c] = h[c]
  <1>2. g \in [Unit -> MHeader] /\ \A c \in Unit : c # a => g[c] = h[c]
    BY DEF IsMark
  <1>3. g[a].next = h[a].next /\ g[a].prev = h[a].prev
    BY DEF IsMark
  <1>4. \A c \in Unit : g[c].next = h[c].next /\ g[c].prev = h[c].prev
    BY <1>2, <1>3
  <1> HIDE <1>3
  <1>5. top > 0 => 0 \in Unit
    BY UnitsAre
  <1>6. ASSUME NEW c \in Unit, g[c].next = 0
        PROVE  g[c] = Blank
    <2>1. h[c].next = 0 /\ c # a
      BY <1>4, <1>6
    <2> QED
      BY <2>1, <1>2 DEF Tiled
  <1>7. ASSUME NEW c \in Unit, g[c].next > 0
        PROVE  HeaderFits(g, top, c)
    <2>1. h[c].next > 0 /\ HeaderFits(h, top, c)
      BY <1>4, <1>7 DEF Tiled
    <2>2. /\ c + h[c].next # top => c + h[c].next \in Unit
          /\ c # 0 => c - h[c].prev \in Unit
      BY <2>1, NextHeader
    <2> QED
      BY <2>1, <2>2, <1>4 DEF HeaderFits
  <1>8. Tiled(g, top)
    BY <1>2, <1>4, <1>5, <1>6, <1>7 DEF Tiled
  <1> QED
    BY <1>2, <1>4, <1>8

\* Two headers in a row.
LEMMA HeadersApart ==
  ASSUME NEW top \in 0 .. HeapMax, NEW h, Tiled(h, top), NEW a \in Unit, h[a].next > 0,
         NEW c \in Unit, h[c].next > 0, c # a
  PROVE  c + h[c].next <= a \/ c >= a + h[a].next
  <1>1. HeaderFits(h, top, a) /\ HeaderFits(h, top, c)
    BY DEF Tiled
  <1>2. a \in Nat /\ c \in Nat /\ h[a].next \in Nat /\ h[c].next \in Nat
    BY NextHeader
  <1> QED
    BY <1>1, <1>2 DEF HeaderFits

\* g is h with the block at a, which ends at above, cut in two at n.
IsCut(g, h, top, a, n, above) ==
    /\ g \in [Unit -> MHeader]
    /\ g[a].next = n - a /\ g[a].prev = h[a].prev
    /\ g[n].next = above - n /\ g[n].prev = n - a
    /\ above # top => g[above].next = h[above].next /\ g[above].prev = above - n
    /\ \A c \in Unit : c # a /\ c # n /\ (c = above => above = top) => g[c] = h[c]

\* __malloc_split, when there is room for another block.
LEMMA CutTiled ==
  ASSUME NEW top \in 0 .. HeapMax, NEW h, Tiled(h, top), NEW a \in Unit, h[a].next > 0,
         NEW n \in Nat, NEW above \in Nat, a < n, n < above, above = a + h[a].next,
         NEW g, IsCut(g, h, top, a, n, above)
  PROVE  /\ Tiled(g, top) /\ n \in Unit /\ h[n].next = 0
         /\ \A c \in Unit : c # a /\ h[c].next > 0 => g[c].next = h[c].next
  <1>1. a \in Nat /\ h[a].next \in Nat /\ h[a].prev \in Nat /\ above <= top /\ HeaderFits(h, top, a)
    BY NextHeader DEF Tiled
  <1>2. top \in Nat /\ top <= HeapMax /\ HeapMax \in Nat
    BY UnitsAre
  <1>3. n \in Unit /\ (above # top => above \in Unit)
    BY <1>1, <1>2, UnitsAre
  <1>4. \A d \in Unit : a < d /\ d < above => h[d].next = 0
    BY <1>1 DEF HeaderFits
  <1>5. h[n].next = 0
    BY <1>3, <1>4
  <1>6. above # top => h[above].next > 0 /\ HeaderFits(h, top, above)
    BY <1>1, <1>3 DEF HeaderFits, Tiled
  <1>7. \A d \in Unit : d \in Nat
    BY UnitsAre DEF Unit
  <1>8. ASSUME NEW c \in Unit, h[c].next > 0
        PROVE  c # n /\ (c # a => g[c].next = h[c].next) /\ g[c].next > 0
    <2>1. c # n
      BY <1>5, <1>8
    <2>2. CASE c = a
      <3>1. g[a].next = n - a
        BY DEF IsCut
      <3> QED
        BY <2>1, <2>2, <3>1, <1>1
    <2>3. CASE c # a
      <3>1. g[c].next = h[c].next
        BY <2>1, <2>3 DEF IsCut
      <3> QED
        BY <2>1, <2>3, <3>1, <1>8
    <2> QED
      BY <2>2, <2>3
  <1>9. ASSUME NEW d \in Unit, d # n, h[d].next = 0
        PROVE  g[d] = h[d]
    <2>1. d # a /\ (d = above => above = top)
      BY <1>1, <1>6, <1>9
    <2> QED
      BY <2>1, <1>9 DEF IsCut
  <1>10. HeaderFits(g, top, a)
    <2>1. ASSUME NEW d \in Unit, a < d, d < n
          PROVE  g[d].next = 0
      <3>1. d \in Nat /\ d < above /\ d # n
        BY <2>1, <1>7
      <3>2. h[d].next = 0
        BY <2>1, <3>1, <1>4
      <3> QED
        BY <3>1, <3>2, <1>9
    <2>2. ASSUME a # 0
          PROVE  h[a].prev > 0 /\ h[a].prev <= a /\ g[a - h[a].prev].next = h[a].prev
      <3> DEFINE p == a - h[a].prev
      <3>1. h[a].prev > 0 /\ h[a].prev <= a /\ h[p].next = h[a].prev
        BY <2>2, <1>1 DEF HeaderFits
      <3>2. p \in Unit /\ p < a
        BY <2>2, <3>1, <1>1, NextHeader
      <3> HIDE DEF p
      <3>3. p # a /\ h[p].next > 0
        BY <3>1, <3>2, <1>1, <1>7
      <3>4. g[p].next = h[p].next
        BY <3>2, <3>3, <1>8
      <3> QED
        BY <3>1, <3>4 DEF p
    <2>3. a = 0 => h[a].prev = 0
      BY <1>1 DEF HeaderFits
    <2>4. g[a].next = n - a /\ g[a].prev = h[a].prev /\ g[n].next = above - n
      BY DEF IsCut
    <2>5. a + g[a].next = n /\ g[n].next > 0 /\ n <= top
      BY <2>4, <1>1, <1>2
    <2> HIDE <2>4
    <2>6. g[a].prev = h[a].prev
      BY DEF IsCut
    <2> QED
      BY <2>1, <2>2, <2>3, <2>5, <2>6 DEF HeaderFits
  <1>11. HeaderFits(g, top, n)
    <2>1. ASSUME NEW d \in Unit, n < d, d < above
          PROVE  g[d].next = 0
      <3>1. d \in Nat /\ a < d /\ d # n
        BY <2>1, <1>1, <1>7
      <3>2. h[d].next = 0
        BY <2>1, <3>1, <1>4
      <3> QED
        BY <3>1, <3>2, <1>9
    <2>2. above # top => g[above].next > 0
      BY <1>3, <1>6, <1>8
    <2>3. g[n].next = above - n /\ g[n].prev = n - a /\ g[a].next = n - a
      BY DEF IsCut
    <2>4. n + g[n].next = above /\ n # 0 /\ n - g[n].prev = a /\ g[n].prev > 0 /\ g[n].prev <= n
          /\ g[a].next = g[n].prev
      BY <2>3, <1>1
    <2> QED
      BY <2>1, <2>2, <2>4, <1>1 DEF HeaderFits
  <1>12. ASSUME above # top
         PROVE  HeaderFits(g, top, above)
    <2> DEFINE e == above + h[above].next
    <2>1. above \in Unit /\ h[above].next > 0 /\ HeaderFits(h, top, above) /\ h[above].next \in Nat
      BY <1>3, <1>6, <1>12, NextHeader
    <2>2. e <= top
      BY <2>1 DEF HeaderFits
    <2>3. e # top => e \in Unit /\ h[e].next > 0
      BY <2>1, NextHeader
    <2>4. e # top => g[e].next > 0
      BY <2>3, <1>8
    <2>5. \A d \in Unit : above < d /\ d < e => h[d].next = 0
      BY <2>1 DEF HeaderFits
    <2>6. \A d \in Unit : above < d /\ d < e => g[d].next = 0
      BY <2>5, <1>7, <1>9
    <2>7. g[above].next = h[above].next /\ g[above].prev = above - n /\ g[n].next = above - n
      BY <1>12 DEF IsCut
    <2>8. /\ above # 0 /\ g[above].prev > 0 /\ g[above].prev <= above
          /\ above - g[above].prev = n
      BY <2>7
    <2>9. above + g[above].next = e
      BY <2>7
    <2>10. g[above - g[above].prev].next = g[above].prev
      BY <2>7, <2>8
    <2> HIDE DEF e
    <2> QED
      BY <2>2, <2>4, <2>6, <2>8, <2>9, <2>10 DEF HeaderFits
  <1>13. ASSUME NEW c \in Unit, c # a, c # n, c = above => above = top, g[c].next > 0
         PROVE  HeaderFits(g, top, c)
    <2>1. g[c] = h[c] /\ h[c].next > 0
      BY <1>13 DEF IsCut
    <2>2. HeaderFits(h, top, c) /\ c \in Nat /\ h[c].next \in Nat /\ h[c].prev \in Nat
      BY <2>1, NextHeader DEF Tiled
    <2> DEFINE e == c + h[c].next  p == c - h[c].prev
    <2>3. e # top => e \in Unit /\ h[e].next > 0
      BY <2>1, NextHeader
    <2>4. e # top => g[e].next > 0
      BY <2>3, <1>8
    <2>5. e <= a \/ c >= above
      BY <2>1, <1>13, HeadersApart
    <2>6. \A d \in Unit : c < d /\ d < e => g[d].next = 0
      <3>1. \A d \in Unit : c < d /\ d < e => h[d].next = 0
        BY <2>2 DEF HeaderFits
      <3>2. e \in Nat
        BY <2>2
      <3> HIDE DEF e
      <3>3. ~ (c < n /\ n < e)
        BY <2>2, <2>5, <3>2, <1>1
      <3> QED
        BY <3>1, <3>3, <1>9
    <2>7. ASSUME c # 0
          PROVE  h[c].prev > 0 /\ h[c].prev <= c /\ g[p].next = h[c].prev
      <3>1. p \in Unit /\ h[p].next > 0 /\ p + h[p].next = c
        BY <2>1, <2>7, NextHeader
      <3>2. h[c].prev > 0 /\ h[c].prev <= c /\ h[p].next = h[c].prev
        BY <2>2, <2>7 DEF HeaderFits
      <3>3. c # above
        <4>1. CASE above = top
          BY <4>1, <2>1, <1>2, NextHeader
        <4>2. CASE above # top
          BY <4>2, <1>13
        <4> QED
          BY <4>1, <4>2
      <3>4. p # a
        BY <3>1, <3>3
      <3> HIDE DEF p
      <3>5. g[p].next = h[p].next
        BY <3>1, <3>4, <1>8
      <3> QED
        BY <3>2, <3>5
    <2>8. c = 0 => h[c].prev = 0
      BY <2>2 DEF HeaderFits
    <2>9. e <= top
      BY <2>2 DEF HeaderFits
    <2> QED
      BY <2>1, <2>4, <2>6, <2>7, <2>8, <2>9 DEF HeaderFits
  <1>14. ASSUME NEW c \in Unit, g[c].next = 0
         PROVE  g[c] = Blank
    <2>1. c # n
      <3>1. g[n].next = above - n
        BY DEF IsCut
      <3> QED
        BY <3>1, <1>14
    <2>2. h[c].next \in Nat
      BY DEF Tiled, MHeader
    <2>3. h[c].next = 0
      BY <2>2, <1>8, <1>14
    <2> QED
      BY <2>1, <2>3, <1>9 DEF Tiled
  <1>15. top > 0 => g[0].next > 0
    <2>1. top > 0 => 0 \in Unit /\ h[0].next > 0
      BY UnitsAre DEF Tiled
    <2> QED
      BY <2>1, <1>8
  <1>16. \A c \in Unit : g[c].next > 0 => HeaderFits(g, top, c)
    BY <1>10, <1>11, <1>12, <1>13
  <1>17. g \in [Unit -> MHeader]
    BY DEF IsCut
  <1> QED
    BY <1>3, <1>5, <1>8, <1>14, <1>15, <1>16, <1>17 DEF Tiled

\* g is h with the block at b, which ends at above, made part of the one at a.
IsJoin(g, h, top, a, b, above) ==
    /\ g \in [Unit -> MHeader]
    /\ g[a].next = above - a /\ g[a].prev = h[a].prev
    /\ g[b] = Blank
    /\ above # top => g[above].next = h[above].next /\ g[above].prev = above - a
    /\ \A c \in Unit : c # a /\ c # b /\ (c = above => above = top) => g[c] = h[c]

\* __malloc_trymerge, when both blocks are free.
LEMMA JoinTiled ==
  ASSUME NEW top \in 0 .. HeapMax, NEW h, Tiled(h, top), NEW a \in Unit, h[a].next > 0,
         NEW b \in Unit, b = a + h[a].next, h[b].next > 0, NEW above \in Nat, above = b + h[b].next,
         NEW g, IsJoin(g, h, top, a, b, above)
  PROVE  /\ Tiled(g, top) /\ a < b /\ b < above /\ above <= top
         /\ above # top => above \in Unit /\ h[above].next > 0
         /\ \A c \in Unit : c # a /\ c # b => g[c].next = h[c].next
  <1>1. /\ a \in Nat /\ h[a].next \in Nat /\ h[a].prev \in Nat /\ HeaderFits(h, top, a)
        /\ b \in Nat /\ h[b].next \in Nat /\ above <= top /\ HeaderFits(h, top, b) /\ a < b /\ b < above
    BY NextHeader DEF Tiled
  <1>2. top \in Nat /\ top <= HeapMax /\ HeapMax \in Nat
    BY UnitsAre
  <1>3. above # top => above \in Unit /\ h[above].next > 0 /\ HeaderFits(h, top, above)
    BY NextHeader DEF Tiled
  <1>7. \A d \in Unit : d \in Nat
    BY UnitsAre DEF Unit
  <1>8. ASSUME NEW c \in Unit, c # a, c # b
        PROVE  g[c].next = h[c].next
    BY <1>8 DEF IsJoin
  <1>9. ASSUME NEW c \in Unit, h[c].next > 0, c # b
        PROVE  g[c].next > 0
    <2>1. g[a].next = above - a
      BY DEF IsJoin
    <2>2. g[a].next > 0
      BY <2>1, <1>1
    <2> QED
      BY <2>2, <1>8, <1>9
  <1>4. g[b].next = 0
    BY DEF IsJoin, Blank
  <1>5. ASSUME NEW d \in Unit, h[d].next = 0
        PROVE  g[d].next = 0
    BY <1>5, <1>8
  <1>10. HeaderFits(g, top, a)
    <2>1. ASSUME NEW d \in Unit, a < d, d < above
          PROVE  g[d].next = 0
      <3>1. d \in Nat
        BY <1>7
      <3>2. CASE d = b
        BY <3>2, <1>4
      <3>3. CASE d # b
        <4>1. h[d].next = 0
          BY <3>1, <3>3, <2>1, <1>1 DEF HeaderFits
        <4> QED
          BY <4>1, <1>5
      <3> QED
        BY <3>2, <3>3
    <2>2. ASSUME a # 0
          PROVE  h[a].prev > 0 /\ h[a].prev <= a /\ g[a - h[a].prev].next = h[a].prev
      <3> DEFINE p == a - h[a].prev
      <3>1. h[a].prev > 0 /\ h[a].prev <= a /\ h[p].next = h[a].prev
        BY <2>2, <1>1 DEF HeaderFits
      <3>2. p \in Unit /\ p < a
        BY <2>2, <3>1, <1>1, NextHeader
      <3> HIDE DEF p
      <3>3. p # a /\ p # b
        BY <3>2, <1>1, <1>7
      <3>4. g[p].next = h[p].next
        BY <3>2, <3>3, <1>8
      <3> QED
        BY <3>1, <3>4 DEF p
    <2>3. a = 0 => h[a].prev = 0
      BY <1>1 DEF HeaderFits
    <2>4. g[a].next = above - a /\ g[a].prev = h[a].prev
      BY DEF IsJoin
    <2>5. a + g[a].next = above
      BY <2>4, <1>1
    <2>7. above # top => g[above].next > 0
      BY <1>1, <1>3, <1>9
    <2> QED
      BY <2>1, <2>2, <2>3, <2>4, <2>5, <2>7, <1>1 DEF HeaderFits
  <1>12. ASSUME above # top
         PROVE  HeaderFits(g, top, above)
    <2> DEFINE e == above + h[above].next
    <2>1. above \in Unit /\ h[above].next > 0 /\ HeaderFits(h, top, above) /\ h[above].next \in Nat
      BY <1>3, <1>12, NextHeader
    <2>2. e <= top /\ above < e /\ e # b
      <3>1. e <= top
        BY <2>1 DEF HeaderFits
      <3>2. above < e
        BY <2>1
      <3> QED
        BY <3>1, <3>2, <2>1, <1>1
    <2>3. e # top => e \in Unit /\ h[e].next > 0
      BY <2>1, NextHeader
    <2>4. e # top => g[e].next > 0
      BY <2>2, <2>3, <1>9
    <2>5. \A d \in Unit : above < d /\ d < e => h[d].next = 0
      BY <2>1 DEF HeaderFits
    <2>6. \A d \in Unit : above < d /\ d < e => g[d].next = 0
      BY <2>5, <1>5
    <2>7. g[above].next = h[above].next /\ g[above].prev = above - a /\ g[a].next = above - a
      BY <1>12 DEF IsJoin
    <2>8. /\ above # 0 /\ g[above].prev > 0 /\ g[above].prev <= above
          /\ above - g[above].prev = a
      <3>1. above # 0 /\ above - a > 0 /\ above - a <= above /\ above - (above - a) = a
        BY <1>1
      <3> QED
        BY <2>7, <3>1
    <2>9. above + g[above].next = e
      BY <2>7
    <2>10. g[above - g[above].prev].next = g[above].prev
      BY <2>7, <2>8
    <2> HIDE DEF e
    <2> QED
      BY <2>2, <2>4, <2>6, <2>8, <2>9, <2>10 DEF HeaderFits
  <1>13. ASSUME NEW c \in Unit, c # a, c # b, c = above => above = top, g[c].next > 0
         PROVE  HeaderFits(g, top, c)
    <2>1. g[c] = h[c] /\ h[c].next > 0
      BY <1>13 DEF IsJoin
    <2>2. HeaderFits(h, top, c) /\ c \in Nat /\ h[c].next \in Nat /\ h[c].prev \in Nat
      BY <2>1, NextHeader DEF Tiled
    <2> DEFINE e == c + h[c].next  p == c - h[c].prev
    <2>3. e # top => e \in Unit /\ h[e].next > 0 /\ h[e].prev = h[c].next
      BY <2>1, NextHeader
    <2>31. h[b].prev = h[a].next
      <3>1. a + h[a].next # top
        BY <1>1
      <3> QED
        BY <3>1, NextHeader
    <2>32. e # b
      BY <2>3, <2>31, <2>2, <1>1, <1>13
    <2>4. e # top => g[e].next > 0
      BY <2>3, <2>32, <1>9
    <2>6. \A d \in Unit : c < d /\ d < e => g[d].next = 0
      <3>1. \A d \in Unit : c < d /\ d < e => h[d].next = 0
        BY <2>2 DEF HeaderFits
      <3> HIDE DEF e
      <3> QED
        BY <3>1, <1>5
    <2>7. ASSUME c # 0
          PROVE  h[c].prev > 0 /\ h[c].prev <= c /\ g[p].next = h[c].prev
      <3>1. p \in Unit /\ h[p].next > 0 /\ p + h[p].next = c
        BY <2>1, <2>7, NextHeader
      <3>2. h[c].prev > 0 /\ h[c].prev <= c /\ h[p].next = h[c].prev
        BY <2>2, <2>7 DEF HeaderFits
      <3>3. c # above
        <4>1. CASE above = top
          BY <4>1, <2>1, <1>2, NextHeader
        <4>2. CASE above # top
          BY <4>2, <1>13
        <4> QED
          BY <4>1, <4>2
      <3>4. p # a /\ p # b
        BY <3>1, <3>3, <1>13
      <3> HIDE DEF p
      <3>5. g[p].next = h[p].next
        BY <3>1, <3>4, <1>8
      <3> QED
        BY <3>2, <3>5
    <2>8. c = 0 => h[c].prev = 0
      BY <2>2 DEF HeaderFits
    <2>9. e <= top
      BY <2>2 DEF HeaderFits
    <2> QED
      BY <2>1, <2>4, <2>6, <2>7, <2>8, <2>9 DEF HeaderFits
  <1>14. ASSUME NEW c \in Unit, g[c].next = 0
         PROVE  g[c] = Blank
    <2>1. CASE c = b
      BY <2>1 DEF IsJoin
    <2>2. CASE c # b
      <3>1. h[c].next \in Nat
        BY DEF Tiled, MHeader
      <3>2. h[c].next = 0
        BY <2>2, <3>1, <1>9, <1>14
      <3>3. c # a /\ (c = above => above = top)
        BY <3>2, <1>1, <1>3
      <3> QED
        BY <2>2, <3>2, <3>3 DEF Tiled, IsJoin
    <2> QED
      BY <2>1, <2>2
  <1>15. top > 0 => g[0].next > 0
    <2>1. top > 0 => 0 \in Unit /\ h[0].next > 0 /\ 0 # b
      BY <1>1, UnitsAre DEF Tiled
    <2> QED
      BY <2>1, <1>9
  <1>16. \A c \in Unit : g[c].next > 0 => HeaderFits(g, top, c)
    BY <1>4, <1>10, <1>12, <1>13
  <1>17. g \in [Unit -> MHeader]
    BY DEF IsJoin
  <1> QED
    BY <1>1, <1>3, <1>8, <1>14, <1>15, <1>16, <1>17 DEF Tiled

\* The last block ends at top.
LEMMA LastHeader ==
  ASSUME NEW top \in 0 .. HeapMax, NEW h, Tiled(h, top), top > 0
  PROVE  \E c \in Unit : h[c].next > 0 /\ c + h[c].next = top
  <1> DEFINE left == {n \in Nat : \E c \in Unit : h[c].next > 0 /\ n = top - c}
  <1>1. top \in Nat /\ 0 \in Unit /\ h[0].next > 0
    BY UnitsAre DEF Tiled
  <1>2. left \in SUBSET Nat /\ top \in left
    BY <1>1
  <1>3. PICK n \in left : \A j \in left : n <= j
    <2> HIDE DEF left
    <2> QED
      BY <1>2, LeastNatural
  <1>4. PICK c \in Unit : h[c].next > 0 /\ n = top - c
    BY <1>3
  <1> DEFINE e == c + h[c].next
  <1>5. ASSUME e # top PROVE FALSE
    <2>1. e \in Unit /\ h[e].next > 0 /\ e <= top /\ c \in Nat /\ h[c].next \in Nat
      BY <1>4, <1>5, NextHeader
    <2>2. top - e \in Nat /\ top - e < n
      BY <2>1, <1>1, <1>4
    <2> HIDE DEF e
    <2>3. top - e \in left
      BY <2>1, <2>2
    <2> QED
      BY <2>2, <2>3, <1>2, <1>3
  <1> QED
    BY <1>4, <1>5

\* There is no header from top on.
LEMMA NothingAbove ==
  ASSUME NEW top \in 0 .. HeapMax, NEW h, Tiled(h, top), NEW c \in Unit, c >= top
  PROVE  h[c].next = 0 /\ h[c] = Blank
  <1>1. h[c].next \in Nat /\ c \in Nat /\ top \in Nat
    BY UnitsAre DEF Tiled, MHeader, Unit
  <1>2. ~ (h[c].next > 0)
    BY <1>1, NextHeader
  <1> QED
    BY <1>1, <1>2 DEF Tiled

LEMMA MergeIsJoin ==
  ASSUME heaptop \in 0 .. HeapMax, NEW h, Tiled(h, heaptop), NEW a \in Unit, h[a].next > 0,
         NEW b \in Unit, b = a + h[a].next, h[b].next > 0, NEW above \in Nat, above = b + h[b].next,
         ~ h[a].inuse, ~ h[b].inuse, NEW g, g = Merge(h, a)
  PROVE  /\ IsJoin(g, h, heaptop, a, b, above)
         /\ g[a].inuse = h[a].inuse
         /\ above # heaptop => g[above].inuse = h[above].inuse
  <1>1. /\ h \in [Unit -> MHeader] /\ a \in Nat /\ h[a].next \in Nat /\ b \in Nat /\ h[b].next \in Nat
        /\ a # b /\ a # above /\ b # above
    BY NextHeader DEF Tiled
  <1>2. above # heaptop => above \in Unit
    BY NextHeader
  <1> DEFINE n == h[a].next + h[b].next
             j == [h EXCEPT ![a].next = n, ![b] = Blank]
  <1>3. n \in Nat /\ n = above - a
    BY <1>1
  <1>4. Blank \in MHeader
    BY DEF Blank, MHeader
  <1>5. g = IF above = heaptop THEN j ELSE [j EXCEPT ![above].prev = j[a].next]
    <2> DEFINE At(y, z) == IF h[a].inuse \/ h[y].inuse THEN h
                           ELSE IF z = heaptop THEN [h EXCEPT ![a].next = h[a].next + h[y].next, ![y] = Blank]
                           ELSE [[h EXCEPT ![a].next = h[a].next + h[y].next, ![y] = Blank] EXCEPT
                                   ![z].prev = [h EXCEPT ![a].next = h[a].next + h[y].next, ![y] = Blank][a].next]
    <2>1. g = At(a + h[a].next, (a + h[a].next) + h[a + h[a].next].next)
      BY DEF Merge
    <2> HIDE DEF At
    <2>2. g = At(b, above)
      BY <2>1
    <2> QED
      BY <2>2 DEF At
  <1> HIDE DEF n
  <1>6. h[a] \in MHeader
    BY <1>1
  <1> DEFINE r == [h[a] EXCEPT !.next = n]
  <1>7. r \in MHeader /\ r.next = n /\ r.prev = h[a].prev /\ r.inuse = h[a].inuse
    BY <1>3, <1>6 DEF MHeader
  <1>8. j[a] = r /\ j[b] = Blank /\ \A c \in Unit : c # a /\ c # b => j[c] = h[c]
    BY <1>1
  <1>9. j \in [Unit -> MHeader]
    BY <1>1, <1>4, <1>7, <1>8
  <1> HIDE DEF j, r
  <1>10. CASE above = heaptop
    BY <1>3, <1>5, <1>7, <1>8, <1>9, <1>10 DEF IsJoin
  <1>11. CASE above # heaptop
    <2> DEFINE q == [h[above] EXCEPT !.prev = n]
    <2>1. above \in Unit /\ j[above] = h[above] /\ h[above] \in MHeader
      BY <1>1, <1>2, <1>8, <1>11
    <2>2. q \in MHeader /\ q.prev = n /\ q.next = h[above].next /\ q.inuse = h[above].inuse
      BY <2>1, <1>3 DEF MHeader
    <2>3. j[a].next = n
      BY <1>7, <1>8
    <2>4. g = [j EXCEPT ![above] = q]
      BY <2>1, <2>3, <1>5, <1>11
    <2> HIDE DEF q
    <2>5. g[above] = q /\ \A c \in Unit : c # above => g[c] = j[c]
      BY <2>1, <2>4, <1>9
    <2>6. g \in [Unit -> MHeader]
      BY <2>1, <2>2, <2>4, <1>9
    <2>7. g[a] = r /\ g[b] = Blank
      BY <2>5, <1>1, <1>8
    <2>8. \A c \in Unit : c # a /\ c # b /\ (c = above => above = heaptop) => g[c] = h[c]
      BY <2>5, <1>8, <1>11
    <2> QED
      BY <2>2, <2>5, <2>6, <2>7, <2>8, <1>3, <1>7 DEF IsJoin
  <1> QED
    BY <1>10, <1>11

\* __malloc_trymerge keeps the heap tiled, leaves the blocks in use alone and
\* brings no two free blocks together.
LEMMA MergeOk ==
  ASSUME heaptop \in 0 .. HeapMax, NEW h, Tiled(h, heaptop), NEW a \in Unit, h[a].next > 0,
         a + h[a].next # heaptop, ~ FreePair(h, heaptop, a + h[a].next),
         NEW g, g = Merge(h, a)
  PROVE  /\ Tiled(g, heaptop)
         /\ \A c \in Unit : h[c].next > 0 /\ h[c].inuse => g[c].next = h[c].next /\ g[c].inuse
         /\ g[a].next > 0 /\ g[a].inuse = h[a].inuse
         /\ \A c \in Unit : FreePair(g, heaptop, c) =>
              c # a /\ FreePair(h, heaptop, c) /\ g[c].next = h[c].next
  <1> DEFINE b == a + h[a].next  above == b + h[b].next
  <1>1. /\ a \in Nat /\ h[a].next \in Nat /\ b \in Unit /\ h[b].next > 0
        /\ b \in Nat /\ h[b].next \in Nat
    <2>1. a \in Nat /\ h[a].next \in Nat /\ b \in Unit /\ h[b].next > 0
      BY NextHeader
    <2> HIDE DEF b
    <2> QED
      BY <2>1, NextHeader
  <1>2. above \in Nat
    BY <1>1
  <1>3. CASE h[a].inuse \/ h[b].inuse
    <2>1. g = h
      BY <1>3 DEF Merge
    <2>2. ~ FreePair(h, heaptop, a)
      BY <1>3 DEF FreePair
    <2> QED
      BY <2>1, <2>2
  <1>4. CASE ~ h[a].inuse /\ ~ h[b].inuse
    <2>0. b = a + h[a].next /\ above = b + h[b].next /\ ~ FreePair(h, heaptop, b)
      OBVIOUS
    <2> HIDE DEF b, above
    <2>1. /\ IsJoin(g, h, heaptop, a, b, above) /\ g[a].inuse = h[a].inuse
          /\ above # heaptop => g[above].inuse = h[above].inuse
      BY <1>1, <1>2, <1>4, <2>0, MergeIsJoin
    <2>2. /\ Tiled(g, heaptop) /\ a < b /\ b < above /\ above <= heaptop
          /\ above # heaptop => above \in Unit /\ h[above].next > 0
          /\ \A c \in Unit : c # a /\ c # b => g[c].next = h[c].next
      BY <1>1, <1>2, <2>0, <2>1, JoinTiled
    <2>3. g[a].next = above - a /\ g[b] = Blank
      BY <2>1 DEF IsJoin
    <2>4. g[a].next > 0 /\ a + g[a].next = above /\ g[b].next = 0
      BY <2>2, <2>3, <1>1, <1>2 DEF Blank
    <2>5. \A c \in Unit : c # a /\ c # b => g[c].inuse = h[c].inuse
      BY <2>1 DEF IsJoin
    <2>6. \A c \in Unit : h[c].next > 0 /\ h[c].inuse => g[c].next = h[c].next /\ g[c].inuse
      BY <2>2, <2>5, <1>4
    <2>7. ASSUME NEW c \in Unit, FreePair(g, heaptop, c)
          PROVE  c # a /\ FreePair(h, heaptop, c) /\ g[c].next = h[c].next
      <3>1. c # b
        BY <2>4, <2>7 DEF FreePair
      <3>2. c # a
        <4> SUFFICES ASSUME c = a PROVE FALSE
          OBVIOUS
        <4>1. above # heaptop /\ ~ g[above].inuse
          BY <2>4, <2>7 DEF FreePair
        <4>2. ~ h[above].inuse
          BY <4>1, <2>1
        <4> QED
          BY <4>1, <4>2, <2>0, <1>1, <1>4 DEF FreePair
      <3>3. g[c].next = h[c].next /\ g[c].inuse = h[c].inuse
        BY <3>1, <3>2, <2>2, <2>5
      <3> DEFINE e == c + g[c].next
      <3>4. g[c].next > 0 /\ e # heaptop /\ ~ g[c].inuse /\ ~ g[e].inuse
        BY <2>7 DEF FreePair
      <3>5. e \in Unit /\ g[e].next > 0
        BY <3>4, <2>2, NextHeader
      <3> HIDE DEF e
      <3>6. e # b
        BY <3>5, <2>4
      <3>7. ~ h[e].inuse
        <4>1. CASE e = a
          BY <4>1, <1>4
        <4>2. CASE e # a
          BY <4>2, <3>4, <3>5, <3>6, <2>5
        <4> QED
          BY <4>1, <4>2
      <3>8. e = c + h[c].next
        BY <3>3 DEF e
      <3> QED
        BY <3>2, <3>3, <3>4, <3>7, <3>8 DEF FreePair
    <2> QED
      BY <2>1, <2>2, <2>4, <2>6, <2>7
  <1> QED
    BY <1>3, <1>4

\* The end of free leaves no two free blocks side by side.
LEMMA MergedOk ==
  ASSUME heaptop \in 0 .. HeapMax, NEW h, Tiled(h, heaptop), NEW a \in Unit, h[a].next > 0,
         \A c \in Unit : FreePair(h, heaptop, c) => c = a \/ c + h[c].next = a,
         ~ h[a].inuse, NEW g, g = Merged(h, a)
  PROVE  /\ Tiled(g, heaptop)
         /\ \A c \in Unit : h[c].next > 0 /\ h[c].inuse => g[c].next = h[c].next /\ g[c].inuse
         /\ \A c \in Unit : ~ FreePair(g, heaptop, c)
  <1> DEFINE up == IF a + h[a].next = heaptop THEN h ELSE Merge(h, a)
  <1>1. a \in Nat /\ h[a].next \in Nat
    BY NextHeader
  <1>2. /\ Tiled(up, heaptop) /\ up[a].next > 0 /\ ~ up[a].inuse
        /\ \A c \in Unit : h[c].next > 0 /\ h[c].inuse => up[c].next = h[c].next /\ up[c].inuse
        /\ \A c \in Unit : FreePair(up, heaptop, c) => c + up[c].next = a
    <2>1. CASE a + h[a].next = heaptop
      <3>1. up = h /\ ~ FreePair(h, heaptop, a)
        BY <2>1 DEF FreePair
      <3> QED
        BY <3>1
    <2>2. CASE a + h[a].next # heaptop
      <3> DEFINE b == a + h[a].next
      <3>1. b \in Unit /\ b \in Nat /\ b > a /\ h[b].next > 0 /\ h[b].next \in Nat
        <4>1. b \in Unit /\ b \in Nat /\ b > a /\ h[b].next > 0
          BY <2>2, <1>1, NextHeader
        <4> HIDE DEF b
        <4> QED
          BY <4>1, NextHeader
      <3>2. ~ FreePair(h, heaptop, b)
        <4> HIDE DEF b
        <4>1. b # a /\ b + h[b].next # a
          BY <3>1, <1>1
        <4> QED
          BY <3>1, <4>1
      <3>3. up = Merge(h, a)
        BY <2>2
      <3> HIDE DEF up
      <3>4. /\ Tiled(up, heaptop) /\ up[a].next > 0 /\ up[a].inuse = h[a].inuse
            /\ \A c \in Unit : h[c].next > 0 /\ h[c].inuse => up[c].next = h[c].next /\ up[c].inuse
            /\ \A c \in Unit : FreePair(up, heaptop, c) =>
                 c # a /\ FreePair(h, heaptop, c) /\ up[c].next = h[c].next
        BY <2>2, <3>2, <3>3, MergeOk
      <3> QED
        BY <3>4
    <2> QED
      BY <2>1, <2>2
  <1>3. g = IF a = 0 THEN up ELSE Merge(up, a - up[a].prev)
    BY DEF Merged
  <1> HIDE DEF up
  <1>4. CASE a = 0
    <2>1. ASSUME NEW c \in Unit, FreePair(up, heaptop, c) PROVE FALSE
      <3>1. c + up[c].next = a /\ up[c].next > 0
        BY <2>1, <1>2 DEF FreePair
      <3>2. c \in Nat /\ up[c].next \in Nat
        BY <3>1, <1>2, NextHeader
      <3> QED
        BY <3>1, <3>2, <1>4
    <2> QED
      BY <1>2, <1>3, <1>4, <2>1
  <1>5. CASE a # 0
    <2> DEFINE p == a - up[a].prev
    <2>1. p \in Unit /\ up[p].next > 0 /\ p + up[p].next = a
      BY <1>2, <1>5, NextHeader
    <2>2. g = Merge(up, p)
      BY <1>3, <1>5
    <2>20. up[a].next \in Nat /\ a < heaptop
      BY <1>2, NextHeader
    <2> HIDE DEF p
    <2>3. p + up[p].next # heaptop
      BY <2>1, <2>20, <1>1, UnitsAre
    <2>4. ~ FreePair(up, heaptop, p + up[p].next)
      <3>1. ~ FreePair(up, heaptop, a)
        BY <1>1, <1>2, <2>20
      <3> QED
        BY <3>1, <2>1
    <2>5. /\ Tiled(g, heaptop)
          /\ \A c \in Unit : up[c].next > 0 /\ up[c].inuse => g[c].next = up[c].next /\ g[c].inuse
          /\ \A c \in Unit : FreePair(g, heaptop, c) => c # p /\ FreePair(up, heaptop, c)
      BY <1>2, <2>1, <2>2, <2>3, <2>4, MergeOk
    <2>6. ASSUME NEW c \in Unit, FreePair(g, heaptop, c) PROVE FALSE
      <3>1. c # p /\ c + up[c].next = a /\ up[c].next > 0
        BY <2>5, <2>6, <1>2 DEF FreePair
      <3>2. c \in Nat /\ up[c].next \in Nat /\ up[a].prev = up[c].next
        <4>1. c + up[c].next # heaptop
          BY <3>1, <2>20, <1>1, UnitsAre
        <4>2. up[c + up[c].next].prev = up[c].next
          BY <4>1, <3>1, <1>2, NextHeader
        <4>3. c \in Nat /\ up[c].next \in Nat
          BY <3>1, <1>2, NextHeader
        <4> QED
          BY <4>2, <4>3, <3>1
      <3>3. p \in Nat /\ up[p].next \in Nat /\ up[a].prev = up[p].next
        BY <2>1, <2>3, <1>2, NextHeader
      <3> QED
        BY <3>1, <3>2, <3>3, <2>1
    <2>7. ASSUME NEW c \in Unit, h[c].next > 0, h[c].inuse
          PROVE  g[c].next = h[c].next /\ g[c].inuse
      <3>1. up[c].next = h[c].next /\ up[c].inuse
        BY <2>7, <1>2
      <3>2. up[c].next > 0
        BY <3>1, <2>7
      <3> QED
        BY <3>1, <3>2, <2>5
    <2> QED
      BY <2>5, <2>6, <2>7
  <1> QED
    BY <1>4, <1>5

LEMMA SplitIsCut ==
  ASSUME heaptop \in 0 .. HeapMax, NEW h, Tiled(h, heaptop), NEW a \in Unit, h[a].next > 0,
         NEW size \in Nat, NEW n \in Nat, n = a + size + 1,
         NEW above \in Nat, above = a + h[a].next,
         ~ (h[a].next - 1 - size < 2), NEW g, g = Split(h, a, size)
  PROVE  /\ IsCut(g, h, heaptop, a, n, above) /\ a < n /\ n < above
         /\ ~ g[n].inuse /\ (above # heaptop => g[above].inuse = h[above].inuse)
  <1>1. h \in [Unit -> MHeader] /\ a \in Nat /\ h[a].next \in Nat /\ above <= heaptop
    BY NextHeader DEF Tiled
  <1>2. above # heaptop => above \in Unit
    BY NextHeader
  <1>3. a < n /\ n < above /\ n - a = size + 1
    BY <1>1
  <1>4. n \in Unit
    BY <1>1, <1>3, UnitsAre
  <1> DEFINE r == [prev |-> size + 1, next |-> above - n, inuse |-> FALSE]
             s == [h[a] EXCEPT !.next = size + 1]
             j == [h EXCEPT ![n] = r, ![a].next = size + 1]
  <1>5. g = IF above = heaptop THEN j ELSE [j EXCEPT ![above].prev = above - n]
    <2> DEFINE At(y, z) == IF h[a].next - 1 - size < 2 THEN h
                           ELSE IF z = heaptop
                           THEN [h EXCEPT ![y] = [prev |-> size + 1, next |-> z - y, inuse |-> FALSE],
                                          ![a].next = size + 1]
                           ELSE [[h EXCEPT ![y] = [prev |-> size + 1, next |-> z - y, inuse |-> FALSE],
                                           ![a].next = size + 1] EXCEPT ![z].prev = z - y]
    <2>1. g = At(a + size + 1, a + h[a].next)
      BY DEF Split, M_SIZE
    <2> HIDE DEF At
    <2>2. g = At(n, above)
      BY <2>1
    <2> QED
      BY <2>2 DEF At
  <1>6. r \in MHeader /\ r.next = above - n /\ r.prev = size + 1 /\ ~ r.inuse
    BY <1>3 DEF MHeader
  <1>7. h[a] \in MHeader
    BY <1>1
  <1>8. s \in MHeader /\ s.next = size + 1 /\ s.prev = h[a].prev
    BY <1>7 DEF MHeader
  <1> HIDE DEF r
  <1>9. j[n] = r /\ j[a] = s /\ \A c \in Unit : c # a /\ c # n => j[c] = h[c]
    BY <1>1, <1>3, <1>4
  <1>10. j \in [Unit -> MHeader]
    BY <1>1, <1>6, <1>8, <1>9
  <1> HIDE DEF j, s
  <1>11. CASE above = heaptop
    BY <1>3, <1>5, <1>6, <1>8, <1>9, <1>10, <1>11 DEF IsCut
  <1>12. CASE above # heaptop
    <2> DEFINE q == [h[above] EXCEPT !.prev = above - n]
    <2>1. above \in Unit /\ j[above] = h[above] /\ h[above] \in MHeader
      BY <1>1, <1>2, <1>3, <1>9, <1>12
    <2>2. q \in MHeader /\ q.prev = above - n /\ q.next = h[above].next /\ q.inuse = h[above].inuse
      BY <2>1, <1>3 DEF MHeader
    <2>3. g = [j EXCEPT ![above] = q]
      BY <2>1, <1>5, <1>12
    <2> HIDE DEF q
    <2>4. g[above] = q /\ \A c \in Unit : c # above => g[c] = j[c]
      BY <2>1, <2>3, <1>10
    <2>5. g \in [Unit -> MHeader]
      BY <2>1, <2>2, <2>3, <1>10
    <2>6. g[a] = s /\ g[n] = r
      BY <2>4, <1>1, <1>3, <1>4, <1>9
    <2>7. \A c \in Unit : c # a /\ c # n /\ (c = above => above = heaptop) => g[c] = h[c]
      BY <2>4, <1>9, <1>12
    <2> QED
      BY <2>2, <2>4, <2>5, <2>6, <2>7, <1>3, <1>6, <1>8 DEF IsCut
  <1> QED
    BY <1>11, <1>12

\* A request is rounded up to whole units.
LEMMA RoundedUp ==
  ASSUME NEW bytes \in Sizes
  PROVE  /\ bytes \in Nat /\ Rounded(bytes) \in Nat
         /\ \A n \in Nat : n >= Rounded(bytes) => n * MBLOCKSIZE >= bytes
  <1> DEFINE m == MBLOCKSIZE  q == (bytes + m - 1) \div m  k == (bytes + m - 1) % m
  <1>1. bytes \in Nat /\ m \in Nat /\ m > 0
    BY UmAssumption
  <1>2. bytes + m - 1 \in Nat
    BY <1>1
  <1> HIDE DEF m
  <1>3. q \in Int /\ k \in 0 .. (m - 1) /\ bytes + m - 1 = m * q + k
    BY <1>1, <1>2
  <1>4. q \in Nat
    BY <1>1, <1>2
  <1> HIDE DEF q, k
  <1>5. m * q >= bytes
    <2>1. m * q \in Int
      BY <1>1, <1>4
    <2> QED
      BY <2>1, <1>1, <1>3
  <1>6. ASSUME NEW n \in Nat, n >= q
        PROVE  n * m >= bytes
    <2>1. PICK d \in Nat : n = q + d
      <3>1. n - q \in Nat /\ n = q + (n - q)
        BY <1>4, <1>6
      <3> QED
        BY <3>1
    <2>2. n * m = m * q + d * m /\ d * m \in Nat /\ m * q \in Nat
      BY <2>1, <1>1, <1>4
    <2> QED
      BY <2>2, <1>1, <1>5
  <1>7. Rounded(bytes) = q
    BY DEF Rounded, q, m
  <1> QED
    BY <1>1, <1>4, <1>6, <1>7 DEF m

LEMMA BottomIsIn ==
  ASSUME NEW S \in SUBSET Unit, S # {}
  PROVE  Bottom(S) \in S
  <1>1. S \in SUBSET Nat
    BY DEF Unit
  <1>2. \E i \in S : \A j \in S : i <= j
    BY <1>1, LeastNatural
  <1> QED
    BY <1>2 DEF Bottom

LEMMA UmInitOk ==
  ASSUME UmInit
  PROVE  UmInv
  <1>1. \A c \in Unit : hdr[c] = Blank
    BY DEF UmInit
  <1>2. hdr \in [Unit -> MHeader]
    BY DEF UmInit, MHeader, Blank
  <1>3. \A c \in Unit : hdr[c].next = 0
    BY <1>1 DEF Blank
  <1>4. Tiled(hdr, heaptop) /\ NoFreePair
    BY <1>1, <1>2, <1>3 DEF UmInit, Tiled, NoFreePair, FreePair
  <1>5. heaptop \in 0 .. HeapMax
    BY UmAssumption DEF UmInit
  <1>6. BlocksKnown
    BY DEF UmInit, BlocksKnown
  <1> QED
    BY <1>4, <1>5, <1>6 DEF UmInv

\* The blocks of the program after malloc gave it the data of the header at a.
LEMMA GivenKnown ==
  ASSUME UmInv, NEW bytes \in Sizes, NEW a \in Unit, Given(a, bytes),
         hdr'[a].inuse, hdr'[a].next \in Nat, hdr'[a].next > 0, hdr'[a].next - 1 >= Rounded(bytes),
         \A c \in Unit : hdr[c].next > 0 /\ hdr[c].inuse => hdr'[c].next = hdr[c].next /\ hdr'[c].inuse
  PROVE  BlocksKnown'
  <1>1. a \in Nat /\ a + 1 \in 1 .. HeapMax
    BY UmAssumption DEF Unit
  <1>2. (hdr'[a].next - 1) * MBLOCKSIZE >= bytes /\ bytes \in Nat
    <2>1. hdr'[a].next - 1 \in Nat
      OBVIOUS
    <2> QED
      BY <2>1, RoundedUp
  <1>3. DOMAIN userBlocks' = DOMAIN userBlocks \union {a + 1}
    BY DEF Given
  <1>4. ASSUME NEW x \in DOMAIN userBlocks'
        PROVE  /\ userBlocks'[x] \in Nat
               /\ hdr'[x - 1].next > 0 /\ hdr'[x - 1].inuse
               /\ (hdr'[x - 1].next - 1) * MBLOCKSIZE >= userBlocks'[x]
    <2>1. CASE x = a + 1
      <3>1. x - 1 = a /\ userBlocks'[x] = bytes
        BY <2>1, <1>1 DEF Given
      <3> QED
        BY <3>1, <1>2
    <2>2. CASE x # a + 1
      <3>1. x \in DOMAIN userBlocks /\ userBlocks'[x] = userBlocks[x]
        BY <2>2, <1>3 DEF Given
      <3>2. /\ x \in 1 .. HeapMax /\ userBlocks[x] \in Nat
            /\ hdr[x - 1].next > 0 /\ hdr[x - 1].inuse
            /\ (hdr[x - 1].next - 1) * MBLOCKSIZE >= userBlocks[x]
        BY <3>1 DEF UmInv, BlocksKnown
      <3>3. x - 1 \in Unit
        BY <3>2, UmAssumption DEF Unit
      <3>4. hdr'[x - 1].next = hdr[x - 1].next /\ hdr'[x - 1].inuse
        BY <3>2, <3>3
      <3> QED
        BY <3>1, <3>2, <3>4
    <2> QED
      BY <2>1, <2>2
  <1>5. DOMAIN userBlocks' \subseteq 1 .. HeapMax
    BY <1>1, <1>3 DEF UmInv, BlocksKnown
  <1> QED
    BY <1>4, <1>5 DEF BlocksKnown

LEMMA UmMallocFit ==
  ASSUME UmInv, NEW bytes \in Sizes, MallocFit(bytes)
  PROVE  UmInv'
  <1> DEFINE size == Rounded(bytes)  a == Bottom(Fits(size))  above == a + hdr[a].next
             n == a + size + 1  g == Split(hdr, a, size)
  <1>0. /\ Fits(size) # {} /\ hdr' = [g EXCEPT ![a].inuse = TRUE] /\ Given(a, bytes)
        /\ heaptop' = heaptop
    BY DEF MallocFit
  <1>1. heaptop \in 0 .. HeapMax /\ Tiled(hdr, heaptop) /\ size \in Nat
    BY RoundedUp DEF UmInv
  <1>2. a \in Unit /\ hdr[a].next > 0 /\ ~ hdr[a].inuse /\ hdr[a].next - 1 >= size
    <2>1. Walk = {c \in Unit : hdr[c].next > 0}
      BY <1>1, WalkIs
    <2>2. Fits(size) \in SUBSET Unit
      BY <2>1 DEF Fits
    <2>3. a \in Fits(size)
      BY <2>2, <1>0, BottomIsIn
    <2> HIDE DEF a
    <2> QED
      BY <2>1, <2>3 DEF Fits, M_SIZE
  <1>3. a \in Nat /\ hdr[a].next \in Nat /\ above <= heaptop
        /\ (above # heaptop => above \in Unit /\ hdr[above].next > 0)
    BY <1>1, <1>2, NextHeader
  <1>4. above # heaptop => hdr[above].inuse
    BY <1>2 DEF UmInv, NoFreePair, FreePair
  <1>5. \A c \in Unit : ~ FreePair(hdr, heaptop, c)
    BY DEF UmInv, NoFreePair
  <1> HIDE DEF size, a
  \* The result of __malloc_split, before the block is marked.
  <1>6. /\ Tiled(g, heaptop) /\ g[a].next > 0 /\ g[a].next - 1 >= size
        /\ \A c \in Unit : c # a /\ hdr[c].next > 0 => g[c].next = hdr[c].next /\ g[c].inuse = hdr[c].inuse
        /\ \A c \in Unit : FreePair(g, heaptop, c) => c = a \/ c + g[c].next = a
    <2>1. CASE hdr[a].next - 1 - size < 2
      <3>1. g = hdr
        BY <2>1 DEF Split, M_SIZE
      <3> HIDE DEF g
      <3> QED
        BY <3>1, <1>1, <1>2, <1>5
    <2>2. CASE ~ (hdr[a].next - 1 - size < 2)
      <3>0. above \in Nat /\ n \in Nat /\ above = a + hdr[a].next /\ n = a + size + 1 /\ g = Split(hdr, a, size)
        BY <1>1, <1>3
      <3> HIDE DEF g, n, above
      <3>1. /\ IsCut(g, hdr, heaptop, a, n, above) /\ a < n /\ n < above
            /\ ~ g[n].inuse /\ (above # heaptop => g[above].inuse = hdr[above].inuse)
        BY <1>1, <1>2, <2>2, <3>0, SplitIsCut
      <3>2. /\ Tiled(g, heaptop) /\ n \in Unit /\ hdr[n].next = 0
            /\ \A c \in Unit : c # a /\ hdr[c].next > 0 => g[c].next = hdr[c].next
        BY <1>1, <1>2, <3>0, <3>1, CutTiled
      <3>3. g[a].next = n - a /\ g[n].next = above - n
        BY <3>1 DEF IsCut
      <3>4. g[a].next > 0 /\ g[a].next - 1 >= size /\ a + g[a].next = n /\ n + g[n].next = above
        BY <3>0, <3>1, <3>3, <1>1, <1>3
      <3>5. ASSUME NEW c \in Unit, c # a, hdr[c].next > 0
            PROVE  g[c].inuse = hdr[c].inuse
        <4>1. c # n
          BY <3>2, <3>5
        <4>2. CASE c = above /\ above # heaptop
          BY <4>2, <3>1
        <4>3. CASE ~ (c = above /\ above # heaptop)
          BY <4>1, <4>3, <3>1, <3>5 DEF IsCut
        <4> QED
          BY <4>2, <4>3
      <3>6. ASSUME NEW c \in Unit, FreePair(g, heaptop, c), c # a, c + g[c].next # a
            PROVE  FALSE
        <4> DEFINE e == c + g[c].next
        <4>1. g[c].next > 0 /\ e # heaptop /\ ~ g[c].inuse /\ ~ g[e].inuse
          BY <3>6 DEF FreePair
        <4>2. e \in Unit /\ g[e].next > 0
          BY <3>2, <4>1, <1>1, NextHeader
        <4>3. c # n
          <5> SUFFICES ASSUME c = n PROVE FALSE
            OBVIOUS
          <5>1. e = above
            BY <3>4
          <5> HIDE DEF e
          <5> QED
            BY <5>1, <4>1, <3>1, <1>4
        <4>4. hdr[c].next > 0 /\ g[c].next = hdr[c].next /\ g[c].inuse = hdr[c].inuse
          <5>1. CASE c = above /\ above # heaptop
            BY <5>1, <1>3, <3>1, <3>2, <3>6
          <5>2. CASE ~ (c = above /\ above # heaptop)
            <6>1. g[c] = hdr[c]
              BY <5>2, <4>3, <3>1, <3>6 DEF IsCut
            <6> QED
              BY <6>1, <4>1
          <5> QED
            BY <5>1, <5>2
        <4>5. e = c + hdr[c].next
          BY <4>4
        <4> HIDE DEF e
        <4>6. hdr[e].next > 0
          BY <4>1, <4>2, <4>4, <4>5, <1>1, NextHeader
        <4>7. e # a
          BY <3>6 DEF e
        <4>8. g[e].inuse = hdr[e].inuse
          BY <4>2, <4>6, <4>7, <3>5
        <4>9. FreePair(hdr, heaptop, c)
          BY <4>1, <4>4, <4>5, <4>8 DEF FreePair
        <4> QED
          BY <4>9, <1>5
      <3> QED
        BY <3>2, <3>4, <3>5, <3>6
    <2> QED
      BY <2>1, <2>2
  <1>7. g[a].next \in Nat
    BY <1>1, <1>2, <1>6, NextHeader
  <1> HIDE DEF g
  <1>8. /\ Tiled(hdr', heaptop)
        /\ \A c \in Unit : hdr'[c].next = g[c].next
        /\ hdr'[a].inuse /\ \A c \in Unit : c # a => hdr'[c] = g[c]
    <2>1. Tiled(g, heaptop) /\ g[a].next > 0
      BY <1>6
    <2>2. IsMark(hdr', g, a) /\ hdr'[a].inuse
      <3>1. g \in [Unit -> MHeader] /\ hdr' = [g EXCEPT ![a].inuse = TRUE]
        BY <2>1, <1>0 DEF Tiled
      <3> QED
        BY <3>1, <1>2, MarkIs
    <2> QED
      BY <2>1, <2>2, <1>1, <1>2, MarkTiled
  <1>9. NoFreePair'
    <2> SUFFICES ASSUME NEW c \in Unit, FreePair(hdr', heaptop, c) PROVE FALSE
      BY <1>0 DEF NoFreePair
    <2> DEFINE e == c + hdr'[c].next
    <2>1. hdr'[c].next > 0 /\ e # heaptop /\ ~ hdr'[c].inuse /\ ~ hdr'[e].inuse
      BY DEF FreePair
    <2>2. e \in Unit
      BY <2>1, <1>1, <1>8, NextHeader
    <2>3. c # a /\ e # a /\ e = c + g[c].next
      BY <2>1, <1>8
    <2> HIDE DEF e
    <2>4. FreePair(g, heaptop, c)
      BY <2>1, <2>2, <2>3, <1>8 DEF FreePair
    <2> QED
      BY <2>3, <2>4, <1>6
  <1>10. \A c \in Unit : hdr[c].next > 0 /\ hdr[c].inuse => hdr'[c].next = hdr[c].next /\ hdr'[c].inuse
    BY <1>2, <1>6, <1>8
  <1>11. BlocksKnown'
    <2>1. hdr'[a].inuse /\ hdr'[a].next = g[a].next
      BY <1>2, <1>8
    <2>2. hdr'[a].next \in Nat /\ hdr'[a].next > 0 /\ hdr'[a].next - 1 >= Rounded(bytes)
      BY <2>1, <1>6, <1>7 DEF size
    <2> QED
      BY <2>1, <2>2, <1>0, <1>2, <1>10, GivenKnown
  <1> QED
    BY <1>0, <1>1, <1>8, <1>9, <1>11 DEF UmInv

\* rightprevblock, when malloc has walked the whole heap.
LEMMA LastSizeIs ==
  ASSUME heaptop \in 0 .. HeapMax, Tiled(hdr, heaptop)
  PROVE  /\ heaptop = 0 => LastSize = 0
         /\ heaptop > 0 => \E c \in Unit : /\ hdr[c].next > 0 /\ c + hdr[c].next = heaptop
                                           /\ LastSize = hdr[c].next
  <1> DEFINE below == {a \in Walk : a + hdr[a].next = heaptop}
  <1>1. Walk = {a \in Unit : hdr[a].next > 0}
    BY WalkIs
  <1>2. LastSize = IF below = {} THEN 0 ELSE hdr[Bottom(below)].next
    BY DEF LastSize
  <1>3. below \in SUBSET Unit /\ \A a \in below : hdr[a].next > 0 /\ a + hdr[a].next = heaptop
    BY <1>1
  <1>4. CASE heaptop = 0
    <2>1. \A c \in Unit : ~ (hdr[c].next > 0)
      BY <1>4, NextHeader
    <2>2. below = {}
      BY <1>3, <2>1
    <2> QED
      BY <1>2, <1>4, <2>2
  <1>5. CASE heaptop > 0
    <2>1. \E c \in Unit : hdr[c].next > 0 /\ c + hdr[c].next = heaptop
      BY <1>5, LastHeader
    <2>2. below # {}
      BY <1>1, <2>1
    <2> HIDE DEF below
    <2>3. Bottom(below) \in below
      BY <1>3, <2>2, BottomIsIn
    <2> QED
      BY <1>2, <1>3, <1>5, <2>2, <2>3
  <1>6. heaptop \in Nat
    BY UnitsAre
  <1> QED
    BY <1>4, <1>5, <1>6

LEMMA UmMallocSbrk ==
  ASSUME UmInv, NEW bytes \in Sizes, MallocSbrk(bytes)
  PROVE  UmInv'
  <1> DEFINE size == Rounded(bytes)  top == heaptop + size + 1
             r == [prev |-> LastSize, next |-> size + 1, inuse |-> TRUE]
  <1>0. /\ top <= HeapMax /\ hdr' = [hdr EXCEPT ![heaptop] = r] /\ heaptop' = top
        /\ Given(heaptop, bytes)
    BY DEF MallocSbrk
  <1>1. heaptop \in 0 .. HeapMax /\ Tiled(hdr, heaptop) /\ size \in Nat
    BY RoundedUp DEF UmInv
  <1> HIDE DEF size
  <1>2. /\ heaptop \in Nat /\ HeapMax \in Nat /\ heaptop < top /\ top \in 0 .. HeapMax
        /\ heaptop \in Unit
    BY <1>0, <1>1, UnitsAre
  <1>3. \A d \in Unit : d \in Nat
    BY DEF Unit
  <1>4. hdr \in [Unit -> MHeader]
    BY <1>1 DEF Tiled
  <1>5. /\ LastSize \in Nat /\ (heaptop = 0 => LastSize = 0)
        /\ heaptop # 0 => /\ LastSize > 0 /\ LastSize <= heaptop /\ heaptop - LastSize \in Unit
                          /\ heaptop - LastSize # heaptop /\ hdr[heaptop - LastSize].next = LastSize
    <2>1. CASE heaptop = 0
      BY <2>1, <1>1, LastSizeIs
    <2>2. CASE heaptop # 0
      <3>1. PICK c \in Unit : hdr[c].next > 0 /\ c + hdr[c].next = heaptop /\ LastSize = hdr[c].next
        BY <2>2, <1>1, <1>2, LastSizeIs
      <3>2. c \in Nat /\ hdr[c].next \in Nat
        BY <3>1, <1>1, NextHeader
      <3>3. heaptop - LastSize = c /\ LastSize \in Nat /\ LastSize > 0 /\ LastSize <= heaptop
        BY <3>1, <3>2
      <3> QED
        BY <2>2, <3>1, <3>2, <3>3
    <2> QED
      BY <2>1, <2>2
  <1>6. r \in MHeader /\ r.next = size + 1 /\ r.prev = LastSize /\ r.inuse
    BY <1>1, <1>5 DEF MHeader
  <1> HIDE DEF r
  <1>7. hdr' \in [Unit -> MHeader] /\ hdr'[heaptop] = r /\ \A c \in Unit : c # heaptop => hdr'[c] = hdr[c]
    BY <1>0, <1>2, <1>4, <1>6
  <1>8. hdr'[heaptop].next = size + 1 /\ hdr'[heaptop].next > 0 /\ heaptop + hdr'[heaptop].next = top
    BY <1>1, <1>2, <1>6, <1>7
  <1> HIDE DEF top
  <1>9. \A d \in Unit : d >= heaptop => hdr[d].next = 0
    BY <1>1, NothingAbove
  <1>10. HeaderFits(hdr', top, heaptop)
    <2>1. ASSUME NEW d \in Unit, heaptop < d
          PROVE  hdr'[d].next = 0
      <3>1. d # heaptop /\ d >= heaptop
        BY <2>1, <1>2, <1>3
      <3> QED
        BY <3>1, <1>7, <1>9
    <2>2. hdr'[heaptop].prev = LastSize
      BY <1>6, <1>7
    <2>3. ASSUME heaptop # 0
          PROVE  /\ LastSize > 0 /\ LastSize <= heaptop
                 /\ hdr'[heaptop - LastSize].next = LastSize
      BY <2>3, <1>5, <1>7
    <2>4. top <= top
      BY <1>2
    <2> QED
      BY <2>1, <2>2, <2>3, <2>4, <1>5, <1>8 DEF HeaderFits
  <1>11. ASSUME NEW c \in Unit, c # heaptop, hdr'[c].next > 0
         PROVE  /\ HeaderFits(hdr', top, c) /\ c + hdr'[c].next # top
                /\ c + hdr'[c].next # heaptop => c + hdr'[c].next \in Unit
    <2>1. hdr'[c] = hdr[c] /\ hdr[c].next > 0
      BY <1>7, <1>11
    <2>2. /\ HeaderFits(hdr, heaptop, c) /\ c \in Nat /\ hdr[c].next \in Nat /\ hdr[c].prev \in Nat
          /\ c < heaptop
      BY <2>1, <1>1, NextHeader DEF Tiled
    <2> DEFINE e == c + hdr[c].next  p == c - hdr[c].prev
    <2>3. e \in Nat /\ e <= heaptop /\ c < e
      BY <2>1, <2>2 DEF HeaderFits
    <2>4. e # heaptop => e \in Unit /\ hdr[e].next > 0
      BY <2>1, <1>1, NextHeader
    <2>5. e <= top /\ e # top
      BY <2>3, <1>2
    <2>6. hdr'[e].next > 0
      <3> HIDE DEF e
      <3>1. CASE e = heaptop
        BY <3>1, <1>8
      <3>2. CASE e # heaptop
        BY <3>2, <2>4, <1>7
      <3> QED
        BY <3>1, <3>2
    <2>7. ASSUME NEW d \in Unit, c < d, d < e
          PROVE  hdr'[d].next = 0
      <3>1. hdr[d].next = 0
        BY <2>2, <2>7 DEF HeaderFits
      <3>2. d # heaptop
        BY <2>3, <2>7, <1>2, <1>3
      <3> QED
        BY <3>1, <3>2, <1>7
    <2>8. ASSUME c # 0
          PROVE  hdr[c].prev > 0 /\ hdr[c].prev <= c /\ hdr'[p].next = hdr[c].prev
      <3>1. hdr[c].prev > 0 /\ hdr[c].prev <= c /\ hdr[p].next = hdr[c].prev
        BY <2>2, <2>8 DEF HeaderFits
      <3>2. p \in Unit
        BY <2>1, <2>8, <1>1, NextHeader
      <3>3. p # heaptop
        BY <3>1, <2>2, <1>2
      <3> HIDE DEF p
      <3> QED
        BY <3>1, <3>2, <3>3, <1>7
    <2>9. c = 0 => hdr[c].prev = 0
      BY <2>2 DEF HeaderFits
    <2>10. HeaderFits(hdr', top, c)
      BY <2>1, <2>5, <2>6, <2>7, <2>8, <2>9 DEF HeaderFits
    <2> QED
      BY <2>1, <2>4, <2>5, <2>10
  <1>12. \A c \in Unit : hdr'[c].next > 0 => HeaderFits(hdr', top, c)
    BY <1>10, <1>11
  <1>13. \A c \in Unit : hdr'[c].next = 0 => hdr'[c] = Blank
    BY <1>1, <1>7, <1>8 DEF Tiled
  <1>14. hdr'[0].next > 0
    <2>1. CASE heaptop = 0
      BY <2>1, <1>8
    <2>2. CASE heaptop # 0
      <3>1. hdr[0].next > 0 /\ 0 \in Unit
        BY <2>2, <1>1, <1>2, UnitsAre DEF Tiled
      <3> QED
        BY <2>2, <3>1, <1>7
    <2> QED
      BY <2>1, <2>2
  <1>15. Tiled(hdr', top)
    BY <1>7, <1>12, <1>13, <1>14 DEF Tiled
  <1>16. NoFreePair'
    <2> SUFFICES ASSUME NEW c \in Unit, FreePair(hdr', top, c) PROVE FALSE
      BY <1>0 DEF NoFreePair
    <2> DEFINE e == c + hdr'[c].next
    <2>1. hdr'[c].next > 0 /\ ~ hdr'[c].inuse /\ ~ hdr'[e].inuse
      BY DEF FreePair
    <2>2. c # heaptop /\ e # heaptop
      BY <2>1, <1>6, <1>7
    <2>3. e \in Unit
      BY <2>1, <2>2, <1>11
    <2>4. hdr'[c] = hdr[c] /\ e = c + hdr[c].next
      BY <2>2, <1>7
    <2> HIDE DEF e
    <2>5. hdr'[e] = hdr[e]
      BY <2>2, <2>3, <1>7
    <2>6. FreePair(hdr, heaptop, c)
      BY <2>1, <2>2, <2>4, <2>5 DEF FreePair
    <2> QED
      BY <2>6 DEF UmInv, NoFreePair
  <1>17. \A c \in Unit : hdr[c].next > 0 /\ hdr[c].inuse => hdr'[c].next = hdr[c].next /\ hdr'[c].inuse
    <2>1. hdr[heaptop].next = 0
      BY <1>2, <1>9
    <2> QED
      BY <2>1, <1>7
  <1>18. BlocksKnown'
    <2>1. hdr'[heaptop].inuse
      BY <1>6, <1>7
    <2>2. hdr'[heaptop].next \in Nat /\ hdr'[heaptop].next - 1 >= Rounded(bytes)
      BY <1>1, <1>8 DEF size
    <2> QED
      BY <2>1, <2>2, <1>0, <1>2, <1>8, <1>17, GivenKnown
  <1> QED
    BY <1>0, <1>2, <1>15, <1>16, <1>18 DEF UmInv

LEMMA UmFree ==
  ASSUME UmInv, NEW x \in DOMAIN userBlocks, Free(x)
  PROVE  UmInv'
  <1> DEFINE a == x - 1  h == [hdr EXCEPT ![a].inuse = FALSE]
  <1>0. /\ hdr' = Merged(h, a) /\ heaptop' = heaptop
        /\ userBlocks' = [y \in DOMAIN userBlocks \ {x} |-> userBlocks[y]]
    BY DEF Free
  <1>1. heaptop \in 0 .. HeapMax /\ Tiled(hdr, heaptop) /\ hdr \in [Unit -> MHeader]
    BY DEF UmInv, Tiled
  <1>2. x \in 1 .. HeapMax /\ hdr[a].next > 0
    BY DEF UmInv, BlocksKnown
  <1>3. a \in Unit /\ a \in Nat
    BY <1>2, UmAssumption DEF Unit
  <1>4. IsMark(h, hdr, a) /\ ~ h[a].inuse
    <2>1. h = [hdr EXCEPT ![a].inuse = FALSE]
      OBVIOUS
    <2> HIDE DEF h, a
    <2> QED
      BY <2>1, <1>1, <1>3, MarkIs
  <1>40. a = x - 1
    OBVIOUS
  <1> HIDE DEF h, a
  <1>5. /\ Tiled(h, heaptop) /\ \A c \in Unit : h[c].next = hdr[c].next
        /\ \A c \in Unit : c # a => h[c] = hdr[c]
    BY <1>1, <1>2, <1>3, <1>4, MarkTiled
  <1>6. ASSUME NEW c \in Unit, FreePair(h, heaptop, c), c # a, c + h[c].next # a
        PROVE  FALSE
    <2> DEFINE e == c + h[c].next
    <2>1. h[c].next > 0 /\ e # heaptop /\ ~ h[c].inuse /\ ~ h[e].inuse
      BY <1>6 DEF FreePair
    <2>2. e \in Unit /\ e # a /\ e = c + hdr[c].next
      BY <2>1, <1>1, <1>5, <1>6, NextHeader
    <2> HIDE DEF e
    <2>3. FreePair(hdr, heaptop, c)
      BY <2>1, <2>2, <1>5, <1>6 DEF FreePair
    <2> QED
      BY <2>3 DEF UmInv, NoFreePair
  <1>7. /\ Tiled(hdr', heaptop)
        /\ \A c \in Unit : h[c].next > 0 /\ h[c].inuse => hdr'[c].next = h[c].next /\ hdr'[c].inuse
        /\ \A c \in Unit : ~ FreePair(hdr', heaptop, c)
    <2>1. h[a].next > 0
      BY <1>2, <1>3, <1>5
    <2>2. \A c \in Unit : FreePair(h, heaptop, c) => c = a \/ c + h[c].next = a
      BY <1>6
    <2> QED
      BY <2>1, <2>2, <1>0, <1>1, <1>3, <1>4, <1>5, MergedOk
  <1>8. NoFreePair'
    BY <1>0, <1>7 DEF NoFreePair
  <1>9. DOMAIN userBlocks' = DOMAIN userBlocks \ {x}
    BY <1>0
  <1>10. ASSUME NEW y \in DOMAIN userBlocks'
         PROVE  /\ userBlocks'[y] \in Nat
                /\ hdr'[y - 1].next > 0 /\ hdr'[y - 1].inuse
                /\ (hdr'[y - 1].next - 1) * MBLOCKSIZE >= userBlocks'[y]
    <2>1. y \in DOMAIN userBlocks /\ y # x /\ userBlocks'[y] = userBlocks[y]
      BY <1>0, <1>9
    <2>2. /\ y \in 1 .. HeapMax /\ userBlocks[y] \in Nat
          /\ hdr[y - 1].next > 0 /\ hdr[y - 1].inuse
          /\ (hdr[y - 1].next - 1) * MBLOCKSIZE >= userBlocks[y]
      BY <2>1 DEF UmInv, BlocksKnown
    <2>3. y - 1 \in Unit
      BY <2>2, UmAssumption DEF Unit
    <2>4. y - 1 # a
      BY <2>1, <2>2, <1>2, <1>40
    <2>5. h[y - 1] = hdr[y - 1]
      BY <2>3, <2>4, <1>5
    <2>6. hdr'[y - 1].next = hdr[y - 1].next /\ hdr'[y - 1].inuse
      BY <2>2, <2>3, <2>5, <1>7
    <2> QED
      BY <2>1, <2>2, <2>6
  <1>11. BlocksKnown'
    BY <1>9, <1>10 DEF UmInv, BlocksKnown
  <1> QED
    BY <1>0, <1>1, <1>7, <1>8, <1>11 DEF UmInv

LEMMA UmStutters ==
  ASSUME UmInv, UNCHANGED umVars
  PROVE  UmInv'
  <1>1. hdr' = hdr /\ heaptop' = heaptop /\ userBlocks' = userBlocks
    BY DEF umVars
  <1> QED
    BY <1>1 DEF UmInv, NoFreePair, BlocksKnown

\* The C library's heap (malloc.c) is sound after any sequence of malloc and free
\* and of sbrks that fail, for any block size, heap size and requests: its headers
\* tile it with right back links and no free neighbours, so the checks of malloc's
\* loop never fail, and every block is as large as asked and its user's own.
THEOREM UserHeapSoundThm == UmSpec => []UserHeapSound
  <1>1. UmInit => UmInv
    BY UmInitOk
  <1>2. UmInv /\ [UmNext]_umVars => UmInv'
    <2> SUFFICES ASSUME UmInv, [UmNext]_umVars PROVE UmInv'
      OBVIOUS
    <2>1. ASSUME NEW bytes \in Sizes, MallocFit(bytes) PROVE UmInv'
      BY <2>1, UmMallocFit
    <2>2. ASSUME NEW bytes \in Sizes, MallocSbrk(bytes) PROVE UmInv'
      BY <2>2, UmMallocSbrk
    <2>3. ASSUME NEW bytes \in Sizes, MallocNull(bytes) PROVE UmInv'
      <3>1. UNCHANGED umVars
        BY <2>3 DEF MallocNull
      <3> QED
        BY <3>1, UmStutters
    <2>4. ASSUME NEW x \in DOMAIN userBlocks, Free(x) PROVE UmInv'
      BY <2>4, UmFree
    <2>5. CASE UNCHANGED umVars
      BY <2>5, UmStutters
    <2> QED
      BY <2>1, <2>2, <2>3, <2>4, <2>5 DEF UmNext
  <1>3. UmInv => UserHeapSound
    BY HeapTiledOk
  <1> QED
    BY <1>1, <1>2, <1>3, PTL DEF UmSpec
=============================================================================
