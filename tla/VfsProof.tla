------------------------------ MODULE VfsProof ------------------------------
(***************************************************************************)
(* Proofs about the VFS layer, for any processes and any devices whose       *)
(* volumes' names differ.  Reference counts are exact although the calls of   *)
(* processes interleave: the inductive invariant says which vnodes a call     *)
(* holds at each of its steps, and that every vnode somebody has belongs to   *)
(* an entry of the table and, when it is a root, to a mounted file system.    *)
(***************************************************************************)
EXTENDS Vfs, FiniteSetTheorems, WellFoundedInduction, TLAPS

\* What a call still has to do, and what it holds for that.
Steps == {<<>>, <<"dropvn">>, <<"dropold">>, <<"setcurdir", "dropold", "dropvn">>, <<"dropold", "dropvn">>, <<"incopen">>}

JobExact(p) ==
    LET j == job[p]
    IN  /\ j.todo \in Steps
        /\ j.todo = <<>> => j = NoJob
        /\ j.todo \in {<<"dropvn">>, <<"incopen">>, <<"setcurdir", "dropold", "dropvn">>} =>
              j.vn # NoVnode /\ j.old = NoVnode
        /\ j.todo = <<"dropold">> => j.vn = NoVnode /\ j.old # NoVnode
        /\ j.todo = <<"dropold", "dropvn">> => j.vn # NoVnode
        /\ j.todo = <<"incopen">> => held[p] = NoVnode

\* A vnode that somebody may have: its entry is in the table, and a root's
\* file system is mounted.
Known(v) ==
    \E i \in DOMAIN knowndevs : v = DevOf(i) \/ (v = RootOf(i) /\ knowndevs[i].fs)
Directory(v) == v = NoVnode \/ (Known(v) /\ IsRoot(v))

VfsTypes ==
    /\ knowndevs \in Seq([kd_name : {a.name : a \in Attach},
                          kd_rawname : {NoName} \union {mkrawname(a.name) : a \in Attach},
                          fs : BOOLEAN, volname : {NoName} \union {Label[a.name] : a \in Attach}])
    /\ Len(knowndevs) <= MaxDevs
    /\ ref \in [Vnodes -> Int]
    /\ p_cwd \in [Proc -> Vnodes \union {NoVnode}] /\ held \in [Proc -> Vnodes \union {NoVnode}]
    /\ bootfs_vnode \in Vnodes \union {NoVnode}
    /\ job \in [Proc -> [todo : Steps, vn : Vnodes \union {NoVnode}, old : Vnodes \union {NoVnode}]]

VnodesKnown ==
    /\ Directory(bootfs_vnode)
    /\ \A p \in Proc : /\ Directory(p_cwd[p]) /\ Directory(job[p].old)
                       /\ \A v \in {held[p], job[p].vn} : v = NoVnode \/ Known(v)

\* The entries of the table are those of devices, and a volume name is the
\* label of a mounted device.
EntriesExact ==
    \A i \in DOMAIN knowndevs :
        LET kd == knowndevs[i]
        IN  \E a \in Attach :
              /\ kd.kd_name = a.name
              /\ kd.kd_rawname = IF a.mountable THEN mkrawname(a.name) ELSE NoName
              /\ kd.volname \in {NoName, Label[a.name]} /\ (kd.volname # NoName => a.mountable)

\* The counts, for every place the table has and may have.
RefsExact ==
    \A i \in 1..MaxDevs :
        /\ ref[RootOf(i)] = Holders(RootOf(i))
        /\ ref[DevOf(i)] = Holders(DevOf(i)) + (IF i \in DOMAIN knowndevs THEN 1 ELSE 0)

VfsInv ==
    /\ VfsTypes /\ VnodesKnown /\ EntriesExact /\ NamesUnambiguous /\ RefsExact
    /\ \A p \in Proc : JobExact(p)

-----------------------------------------------------------------------------
(* Vnodes and names *)

V0 == Vnodes \union {NoVnode}

LEMMA VnodesAre ==
  /\ MaxDevs \in Nat
  /\ \A i, j : /\ RootOf(i) # DevOf(j) /\ RootOf(i) # NoVnode /\ DevOf(i) # NoVnode
               /\ (RootOf(i) = RootOf(j) => i = j) /\ (DevOf(i) = DevOf(j) => i = j)
               /\ IsRoot(RootOf(i)) /\ ~IsRoot(DevOf(i))
  /\ NoVnode \notin Vnodes
  /\ \A v \in Vnodes : \E i \in 1..MaxDevs : v = RootOf(i) \/ v = DevOf(i)
  /\ \A i \in 1..MaxDevs : RootOf(i) \in Vnodes /\ DevOf(i) \in Vnodes
  <1>1. MaxDevs \in Nat
    BY VfsAssumption, FS_CardinalityType DEF MaxDevs
  <1>2. \A i, j : /\ RootOf(i) # DevOf(j) /\ RootOf(i) # NoVnode /\ DevOf(i) # NoVnode
                  /\ (RootOf(i) = RootOf(j) => i = j) /\ (DevOf(i) = DevOf(j) => i = j)
                  /\ IsRoot(RootOf(i)) /\ ~IsRoot(DevOf(i))
    BY DEF RootOf, DevOf, NoVnode, IsRoot
  <1>3. \A v \in Vnodes : \E i \in 1..MaxDevs : v = RootOf(i) \/ v = DevOf(i)
    BY DEF Vnodes
  <1>4. \A i \in 1..MaxDevs : RootOf(i) \in Vnodes /\ DevOf(i) \in Vnodes
    BY DEF Vnodes
  <1> QED
    BY <1>1, <1>2, <1>3, <1>4

\* A set of numbers has a least one.
LEMMA FirstOne ==
  ASSUME NEW S \in SUBSET Nat, S # {}
  PROVE  Min(S) \in S
  <1> DEFINE R == OpToRel(<, Nat)
  <1>1. IsWellFoundedOn(R, Nat)
    BY NatLessThanWellFounded
  <1>2. \A i, j \in Nat : <<j, i>> \notin R => i <= j
    BY DEF OpToRel
  <1> HIDE DEF R
  <1>3. PICK i \in S : \A j \in S : ~ (<<j, i>> \in R)
    BY <1>1, WFMin
  <1>4. \E x \in S : \A y \in S : x <= y
    BY <1>2, <1>3
  <1> QED
    BY <1>4 DEF Min

\* What a name stands for is in the table; a path starts from something known.
LEMMA GetrootIs ==
  ASSUME VfsTypes, NEW n, vfs_getroot(n) # NoVnode
  PROVE  Known(vfs_getroot(n))
  <1> DEFINE has == {i \in DOMAIN knowndevs : n \in NamesOf(knowndevs[i])}
             i == Min(has)
             kd == knowndevs[i]
  <1>1. has # {}
    BY DEF vfs_getroot
  <1>2. has \in SUBSET Nat
    BY DEF VfsTypes
  <1>3. i \in DOMAIN knowndevs
    BY <1>1, <1>2, FirstOne
  <1>4. vfs_getroot(n) = (IF kd.fs /\ n # kd.kd_rawname THEN RootOf(i)
                          ELSE IF n = kd.kd_name /\ kd.kd_rawname # NoName THEN NoVnode ELSE DevOf(i))
    BY <1>1 DEF vfs_getroot
  <1> HIDE DEF i
  <1> QED
    BY <1>3, <1>4 DEF Known

LEMMA GetdeviceIs ==
  ASSUME VfsInv, NEW p \in Proc, NEW path \in Paths, getdevice(p, path) # NoVnode
  PROVE  Known(getdevice(p, path))
  <1>1. path.kind \in {"relative", "slash", "colon", "device"}
    BY DEF Paths
  <1> QED
    BY <1>1, GetrootIs DEF getdevice, vfs_getcurdir, VfsInv, VnodesKnown, Directory

LEMMA KnownIs ==
  ASSUME VfsTypes, NEW v, Known(v)
  PROVE  v \in Vnodes /\ v # NoVnode
  <1>1. PICK i \in DOMAIN knowndevs : v = DevOf(i) \/ (v = RootOf(i) /\ knowndevs[i].fs)
    BY DEF Known
  <1>2. i \in 1..MaxDevs
    BY <1>1, VnodesAre DEF VfsTypes
  <1> QED
    BY <1>1, <1>2, VnodesAre

-----------------------------------------------------------------------------
(* Counting *)

Is(a, v) == IF a = v THEN 1 ELSE 0
Count(f, v) == Cardinality({p \in Proc : f[p] = v})
VnOf(j) == [p \in Proc |-> j[p].vn]
OldOf(j) == [p \in Proc |-> j[p].old]

\* What process p has of v.
Has(p, v) == Is(p_cwd[p], v) + Is(held[p], v) + Is(job[p].vn, v) + Is(job[p].old, v)

LEMMA IsNumber == \A a, v : Is(a, v) \in {0, 1}
  BY DEF Is

LEMMA CountIs ==
  ASSUME NEW f, NEW v
  PROVE  Count(f, v) \in Nat /\ (Count(f, v) = 0 <=> \A p \in Proc : f[p] # v)
  <1> DEFINE S == {p \in Proc : f[p] = v}
  <1>1. IsFiniteSet(S)
    BY VfsAssumption, FS_Subset
  <1>2. Cardinality(S) \in Nat /\ (Cardinality(S) = 0 <=> S = {})
    BY <1>1, FS_CardinalityType, FS_EmptySet
  <1> QED
    BY <1>2 DEF Count

\* One process changes what it has.
LEMMA CountMoves ==
  ASSUME NEW f, NEW g, NEW v, NEW p \in Proc, \A q \in Proc \ {p} : g[q] = f[q]
  PROVE  Count(g, v) = Count(f, v) - Is(f[p], v) + Is(g[p], v)
  <1> DEFINE S == {q \in Proc : f[q] = v}  T == {q \in Proc : g[q] = v}  U == S \ {p}
  <1>1. IsFiniteSet(S) /\ IsFiniteSet(T) /\ IsFiniteSet(U)
    BY VfsAssumption, FS_Subset
  <1>2. U = T \ {p}
    OBVIOUS
  <1>6. Cardinality(U) = IF p \in S THEN Cardinality(S) - 1 ELSE Cardinality(S)
    BY <1>1, FS_RemoveElement
  <1>7. Cardinality(U) = IF p \in T THEN Cardinality(T) - 1 ELSE Cardinality(T)
    BY <1>1, <1>2, FS_RemoveElement
  <1>8. Cardinality(S) \in Nat /\ Cardinality(T) \in Nat
    BY <1>1, FS_CardinalityType
  <1>9. (p \in S <=> f[p] = v) /\ (p \in T <=> g[p] = v)
    OBVIOUS
  <1>3. Cardinality(S) = Cardinality(U) + Is(f[p], v)
    BY <1>6, <1>8, <1>9 DEF Is
  <1>4. Cardinality(T) = Cardinality(U) + Is(g[p], v)
    BY <1>7, <1>8, <1>9 DEF Is
  <1>5. Cardinality(U) \in Nat /\ Is(f[p], v) \in Nat /\ Is(g[p], v) \in Nat
    BY <1>1, FS_CardinalityType, IsNumber
  <1> QED
    BY <1>3, <1>4, <1>5 DEF Count

LEMMA HoldersIs ==
  ASSUME NEW v
  PROVE  /\ Holders(v) = Count(p_cwd, v) + Count(held, v) + Count(VnOf(job), v) + Count(OldOf(job), v)
                         + Is(bootfs_vnode, v)
         /\ Holders(v) \in Nat
         /\ Holders(v) = 0 <=> (bootfs_vnode # v /\ \A p \in Proc : Has(p, v) = 0)
  <1>1. {p \in Proc : job[p].vn = v} = {p \in Proc : VnOf(job)[p] = v}
        /\ {p \in Proc : job[p].old = v} = {p \in Proc : OldOf(job)[p] = v}
    BY DEF VnOf, OldOf
  <1>2. Holders(v) = Count(p_cwd, v) + Count(held, v) + Count(VnOf(job), v) + Count(OldOf(job), v)
                     + Is(bootfs_vnode, v)
    BY <1>1 DEF Holders, Count, Is
  <1> DEFINE a == Count(p_cwd, v)  b == Count(held, v)  c == Count(VnOf(job), v)  d == Count(OldOf(job), v)
             e == Is(bootfs_vnode, v)
  <1>3. /\ a \in Nat /\ b \in Nat /\ c \in Nat /\ d \in Nat /\ e \in Nat
        /\ a = 0 <=> \A p \in Proc : p_cwd[p] # v
        /\ b = 0 <=> \A p \in Proc : held[p] # v
        /\ c = 0 <=> \A p \in Proc : VnOf(job)[p] # v
        /\ d = 0 <=> \A p \in Proc : OldOf(job)[p] # v
        /\ e = 0 <=> bootfs_vnode # v
    BY CountIs DEF Is
  <1>4. \A p \in Proc : VnOf(job)[p] = job[p].vn /\ OldOf(job)[p] = job[p].old
    BY DEF VnOf, OldOf
  <1>5. \A p \in Proc : Has(p, v) = 0 <=> p_cwd[p] # v /\ held[p] # v /\ job[p].vn # v /\ job[p].old # v
    BY DEF Has, Is
  <1> HIDE DEF a, b, c, d, e
  <1>6. Holders(v) = a + b + c + d + e
    BY <1>2 DEF a, b, c, d, e
  <1>7. Holders(v) \in Nat /\ (Holders(v) = 0 <=> a = 0 /\ b = 0 /\ c = 0 /\ d = 0 /\ e = 0)
    BY <1>3, <1>6
  <1> QED
    BY <1>2, <1>3, <1>4, <1>5, <1>7

\* A step of process p, which may change the boot file system too.
LEMMA HoldersMove ==
  ASSUME NEW p \in Proc, NEW v,
         \A q \in Proc \ {p} : p_cwd'[q] = p_cwd[q] /\ held'[q] = held[q] /\ job'[q] = job[q]
  PROVE  Holders(v)' = Holders(v) + (Has(p, v)' - Has(p, v)) + (Is(bootfs_vnode', v) - Is(bootfs_vnode, v))
  <1>1. Count(p_cwd', v) = Count(p_cwd, v) - Is(p_cwd[p], v) + Is(p_cwd'[p], v)
    <2>1. \A q \in Proc \ {p} : p_cwd'[q] = p_cwd[q]
      OBVIOUS
    <2> QED
      BY <2>1, CountMoves
  <1>2. Count(held', v) = Count(held, v) - Is(held[p], v) + Is(held'[p], v)
    <2>1. \A q \in Proc \ {p} : held'[q] = held[q]
      OBVIOUS
    <2> QED
      BY <2>1, CountMoves
  <1>3. Count(VnOf(job'), v) = Count(VnOf(job), v) - Is(VnOf(job)[p], v) + Is(VnOf(job')[p], v)
    <2>1. \A q \in Proc \ {p} : VnOf(job')[q] = VnOf(job)[q]
      BY DEF VnOf
    <2> QED
      BY <2>1, CountMoves
  <1>4. Count(OldOf(job'), v) = Count(OldOf(job), v) - Is(OldOf(job)[p], v) + Is(OldOf(job')[p], v)
    <2>1. \A q \in Proc \ {p} : OldOf(job')[q] = OldOf(job)[q]
      BY DEF OldOf
    <2> QED
      BY <2>1, CountMoves
  <1>5. VnOf(job)[p] = job[p].vn /\ OldOf(job)[p] = job[p].old /\ VnOf(job')[p] = job'[p].vn /\ OldOf(job')[p] = job'[p].old
    BY DEF VnOf, OldOf
  <1>6. Holders(v) = Count(p_cwd, v) + Count(held, v) + Count(VnOf(job), v) + Count(OldOf(job), v) + Is(bootfs_vnode, v)
    BY HoldersIs
  <1>7. Holders(v)' = Count(p_cwd', v) + Count(held', v) + Count(VnOf(job'), v) + Count(OldOf(job'), v)
                      + Is(bootfs_vnode', v)
    <2>1. {q \in Proc : job'[q].vn = v} = {q \in Proc : VnOf(job')[q] = v}
          /\ {q \in Proc : job'[q].old = v} = {q \in Proc : OldOf(job')[q] = v}
      BY DEF VnOf, OldOf
    <2> QED
      BY <2>1 DEF Holders, Count, Is
  <1>8. \A f : Count(f, v) \in Nat
    BY CountIs
  <1>9. /\ Has(p, v)' = Is(p_cwd'[p], v) + Is(held'[p], v) + Is(job'[p].vn, v) + Is(job'[p].old, v)
        /\ Has(p, v) = Is(p_cwd[p], v) + Is(held[p], v) + Is(job[p].vn, v) + Is(job[p].old, v)
    BY DEF Has
  <1> QED
    BY <1>1, <1>2, <1>3, <1>4, <1>5, <1>6, <1>7, <1>8, <1>9, IsNumber

LEMMA IncrefIs ==
  ASSUME NEW r \in [Vnodes -> Int], NEW v \in Vnodes
  PROVE  /\ vn_incref(r, v) \in [Vnodes -> Int]
         /\ \A u \in Vnodes : vn_incref(r, v)[u] = r[u] + Is(v, u)
  BY DEF vn_incref, Is

LEMMA FirstRef ==
  ASSUME NEW r \in [Vnodes -> Int], NEW v \in Vnodes
  PROVE  [r EXCEPT ![v] = 1] \in [Vnodes -> Int]
  OBVIOUS

\* Giving up a root, or nothing, and giving up a vnode that is not only the
\* device table's.
LEMMA DecrefIs ==
  ASSUME NEW r \in [Vnodes -> Int], NEW v \in V0, v = NoVnode \/ IsRoot(v) \/ r[v] # 1
  PROVE  /\ vn_decref(r, v) \in [Vnodes -> Int]
         /\ \A u \in Vnodes : vn_decref(r, v)[u] = r[u] - Is(v, u)
  <1>1. CASE v = NoVnode
    BY <1>1, VnodesAre DEF vn_decref, Is
  <1>2. CASE v # NoVnode
    BY <1>2 DEF vn_decref, Is, V0
  <1> QED
    BY <1>1, <1>2

LEMMA HeldCounts ==
  ASSUME VfsInv, NEW p \in Proc, NEW v, Known(v), Has(p, v) # 0
  PROVE  IsRoot(v) \/ ref[v] # 1
  <1>1. PICK i \in DOMAIN knowndevs : v = DevOf(i) \/ v = RootOf(i)
    BY DEF Known
  <1>2. i \in 1..MaxDevs
    BY VnodesAre DEF VfsInv, VfsTypes
  <1>3. Holders(v) \in Nat /\ Holders(v) # 0
    BY HoldersIs
  <1> QED
    BY <1>1, <1>2, <1>3, VnodesAre DEF VfsInv, RefsExact

-----------------------------------------------------------------------------
(* The steps of a process *)

KnownTo(p) ==
    /\ Directory(p_cwd[p]) /\ Directory(job[p].old)
    /\ \A v \in {held[p], job[p].vn} : v = NoVnode \/ Known(v)

\* A step of process p that leaves the table alone keeps the invariant when it
\* counts what the process takes and gives up.
LEMMA ProcStep ==
  ASSUME VfsInv, NEW p \in Proc, UNCHANGED knowndevs, VfsTypes',
         \A q \in Proc \ {p} : p_cwd'[q] = p_cwd[q] /\ held'[q] = held[q] /\ job'[q] = job[q],
         JobExact(p)', KnownTo(p)', Directory(bootfs_vnode)',
         \A v \in Vnodes : ref'[v] = ref[v] + (Has(p, v)' - Has(p, v)) + (Is(bootfs_vnode', v) - Is(bootfs_vnode, v))
  PROVE  VfsInv'
  <1>1. \A v : Known(v)' <=> Known(v)
    BY DEF Known
  <1>2. \A q \in Proc \ {p} : KnownTo(q)'
    BY <1>1 DEF KnownTo, VfsInv, VnodesKnown, Directory
  <1>3. VnodesKnown'
    BY <1>2 DEF VnodesKnown, KnownTo
  <1>4. EntriesExact' /\ NamesUnambiguous'
    BY DEF VfsInv, EntriesExact, NamesUnambiguous, NamesOf, FSOP_GETVOLNAME
  <1>5. \A q \in Proc : JobExact(q)'
    BY DEF VfsInv, JobExact
  <1>6. \A v : Holders(v)' = Holders(v) + (Has(p, v)' - Has(p, v)) + (Is(bootfs_vnode', v) - Is(bootfs_vnode, v))
    BY HoldersMove
  <1>7. \A v : Holders(v) \in Nat
    BY HoldersIs
  <1>8. \A v : Has(p, v)' \in Int /\ Has(p, v) \in Int /\ Is(bootfs_vnode', v) \in Int /\ Is(bootfs_vnode, v) \in Int
    BY IsNumber DEF Has
  <1>9. RefsExact'
    <2> SUFFICES ASSUME NEW i \in 1..MaxDevs
                 PROVE  /\ ref'[RootOf(i)] = Holders(RootOf(i))'
                        /\ ref'[DevOf(i)] = Holders(DevOf(i))' + (IF i \in DOMAIN knowndevs' THEN 1 ELSE 0)
      BY DEF RefsExact
    <2>1. RootOf(i) \in Vnodes /\ DevOf(i) \in Vnodes
      BY VnodesAre
    <2>2. /\ ref[RootOf(i)] = Holders(RootOf(i))
          /\ ref[DevOf(i)] = Holders(DevOf(i)) + (IF i \in DOMAIN knowndevs THEN 1 ELSE 0)
      BY DEF VfsInv, RefsExact
    <2> QED
      BY <1>6, <1>7, <1>8, <2>1, <2>2
  <1> QED
    BY <1>3, <1>4, <1>5, <1>9 DEF VfsInv

\* What the words of a call stand for.
LEMMA StepsAre ==
  ASSUME NEW t \in Steps, t # <<>>
  PROVE  /\ Head(t) = "setcurdir" => t = <<"setcurdir", "dropold", "dropvn">> /\ Tail(t) = <<"dropold", "dropvn">>
         /\ Head(t) = "incopen" => t = <<"incopen">>
         /\ Head(t) = "dropvn" => t = <<"dropvn">> /\ Len(t) = 1
         /\ Head(t) = "dropold" => \/ t = <<"dropold">> /\ Len(t) = 1
                                   \/ t = <<"dropold", "dropvn">> /\ Len(t) = 2 /\ Tail(t) = <<"dropvn">>
  <1>1. /\ Len(<<"dropvn">>) = 1 /\ Len(<<"dropold">>) = 1 /\ Len(<<"incopen">>) = 1
        /\ Len(<<"dropold", "dropvn">>) = 2 /\ Len(<<"setcurdir", "dropold", "dropvn">>) = 3
    OBVIOUS
  <1>2. /\ Head(<<"dropvn">>) = "dropvn" /\ Head(<<"dropold">>) = "dropold" /\ Head(<<"incopen">>) = "incopen"
        /\ Head(<<"dropold", "dropvn">>) = "dropold" /\ Head(<<"setcurdir", "dropold", "dropvn">>) = "setcurdir"
    OBVIOUS
  <1>3. Tail(<<"dropold", "dropvn">>) = <<"dropvn">>
    OBVIOUS
  <1>4. Tail(<<"setcurdir", "dropold", "dropvn">>) = <<"dropold", "dropvn">>
    OBVIOUS
  <1> QED
    BY <1>1, <1>2, <1>3, <1>4, Zenon DEF Steps

\* vfs_lookup, vfs_lookparent and vfs_getcwd.
LEMMA LookupKeeps ==
  ASSUME VfsInv, NEW p \in Proc, NEW vn, Known(vn), job[p] = NoJob,
         NEW todo \in {<<"dropvn">>, <<"incopen">>, <<"setcurdir", "dropold", "dropvn">>},
         todo = <<"incopen">> => held[p] = NoVnode,
         ref' = vn_incref(ref, vn),
         job' = [job EXCEPT ![p] = [NoJob EXCEPT !.todo = todo, !.vn = vn]],
         UNCHANGED <<knowndevs, open, p_cwd, bootfs_vnode, held>>
  PROVE  VfsInv'
  <1>1. vn \in Vnodes /\ vn # NoVnode
    BY KnownIs DEF VfsInv
  <1>2. /\ job'[p].todo = todo /\ job'[p].vn = vn /\ job'[p].old = NoVnode
        /\ \A q \in Proc \ {p} : job'[q] = job[q]
    BY DEF VfsInv, VfsTypes, NoJob
  <1>3. ref' \in [Vnodes -> Int] /\ \A u \in Vnodes : ref'[u] = ref[u] + Is(vn, u)
    BY <1>1, IncrefIs DEF VfsInv, VfsTypes
  <1>4. VfsTypes'
    <2>1. job' \in [Proc -> [todo : Steps, vn : Vnodes \union {NoVnode}, old : Vnodes \union {NoVnode}]]
      BY <1>1 DEF VfsInv, VfsTypes, NoJob, Steps
    <2> QED
      BY <1>3, <2>1 DEF VfsInv, VfsTypes
  <1>5. JobExact(p)'
    <2>1. job'[p].todo = todo /\ job'[p].vn = vn /\ job'[p].old = NoVnode
      BY <1>2
    <2>2. todo \in Steps /\ todo # <<>> /\ todo # <<"dropold">> /\ todo # <<"dropold", "dropvn">>
      BY DEF Steps
    <2> QED
      BY <1>1, <2>1, <2>2 DEF JobExact
  <1>6. KnownTo(p)' /\ Directory(bootfs_vnode)'
    BY <1>2 DEF KnownTo, VfsInv, VnodesKnown, Directory, Known
  <1>7. \A v \in Vnodes : Has(p, v)' - Has(p, v) = Is(vn, v) /\ Is(bootfs_vnode', v) - Is(bootfs_vnode, v) = 0
    <2> TAKE v \in Vnodes
    <2>1. Is(NoVnode, v) = 0
      BY VnodesAre DEF Is
    <2>2. Has(p, v) = Is(p_cwd[p], v) + Is(held[p], v) + 0 + 0
      BY <2>1 DEF Has, NoJob
    <2>4. job'[p].vn = vn /\ job'[p].old = NoVnode
      BY <1>2
    <2>5. Has(p, v)' = Is(p_cwd'[p], v) + Is(held'[p], v) + Is(job'[p].vn, v) + Is(job'[p].old, v)
      BY DEF Has
    <2>3. Has(p, v)' = Is(p_cwd[p], v) + Is(held[p], v) + Is(vn, v) + 0
      BY <2>1, <2>4, <2>5
    <2> QED
      BY <2>2, <2>3, IsNumber
  <1>8. \A v \in Vnodes : ref[v] \in Int /\ Is(vn, v) \in Int
    BY IsNumber DEF VfsInv, VfsTypes
  <1>9. \A v \in Vnodes : ref'[v] = ref[v] + (Has(p, v)' - Has(p, v)) + (Is(bootfs_vnode', v) - Is(bootfs_vnode, v))
    BY <1>3, <1>7, <1>8
  <1> QED
    BY <1>2, <1>4, <1>5, <1>6, <1>9, ProcStep

LEMMA LookupsKeep ==
  ASSUME VfsInv, NEW p \in Proc,
         VfsChdir(p) \/ VfsOpen(p) \/ VfsMkdir(p) \/ VfsReadlink(p) \/ VfsGetcwd(p)
  PROVE  VfsInv'
  <1>1. ASSUME NEW todo \in {<<"dropvn">>, <<"incopen">>, <<"setcurdir", "dropold", "dropvn">>},
               todo = <<"incopen">> => held[p] = NoVnode, job[p] = NoJob,
               vfs_lookup(p, todo) \/ vfs_lookparent(p, todo)
        PROVE  VfsInv'
    <2>1. PICK path \in Paths :
            LET vn == getdevice(p, path)
            IN  /\ vn # NoVnode
                /\ ref' = vn_incref(ref, vn)
                /\ job' = [job EXCEPT ![p] = [NoJob EXCEPT !.todo = todo, !.vn = vn]]
                /\ UNCHANGED <<knowndevs, open, p_cwd, bootfs_vnode, held>>
      BY <1>1, Zenon DEF vfs_lookup, vfs_lookparent
    <2> DEFINE vn == getdevice(p, path)
    <2>2. Known(vn)
      BY <2>1, GetdeviceIs
    <2> HIDE DEF vn
    <2>3. /\ ref' = vn_incref(ref, vn)
          /\ job' = [job EXCEPT ![p] = [NoJob EXCEPT !.todo = todo, !.vn = vn]]
          /\ UNCHANGED <<knowndevs, open, p_cwd, bootfs_vnode, held>>
      BY <2>1 DEF vn
    <2> QED
      BY <1>1, <2>2, <2>3, LookupKeeps
  <1>2. CASE VfsChdir(p)
    BY <1>1, <1>2 DEF VfsChdir
  <1>3. CASE VfsOpen(p)
    BY <1>1, <1>3 DEF VfsOpen
  <1>4. CASE VfsMkdir(p)
    BY <1>1, <1>4 DEF VfsMkdir
  <1>5. CASE VfsReadlink(p)
    BY <1>1, <1>5 DEF VfsReadlink
  <1>6. CASE VfsGetcwd(p)
    <2>1. Known(p_cwd[p])
      BY <1>6 DEF VfsGetcwd, VfsInv, VnodesKnown, Directory
    <2> QED
      BY <1>6, <2>1, LookupKeeps DEF VfsGetcwd
  <1> QED
    BY <1>2, <1>3, <1>4, <1>5, <1>6

\* A call hands on what the process has: vfs_close and vfs_clearcurdir.
LEMMA CloseKeeps ==
  ASSUME VfsInv, NEW p \in Proc, VfsClose(p)
  PROVE  VfsInv'
  <1>1. /\ job'[p].todo = <<"dropvn">> /\ job'[p].vn = held[p] /\ job'[p].old = NoVnode
        /\ \A q \in Proc \ {p} : job'[q] = job[q] /\ held'[q] = held[q]
        /\ held'[p] = NoVnode /\ held[p] # NoVnode
        /\ job[p].vn = NoVnode /\ job[p].old = NoVnode
    BY DEF VfsInv, VfsTypes, NoJob, VfsClose
  <1>2. UNCHANGED <<knowndevs, ref, p_cwd, bootfs_vnode>>
    BY DEF VfsClose
  <1>3. VfsTypes'
    <2>1. job' \in [Proc -> [todo : Steps, vn : Vnodes \union {NoVnode}, old : Vnodes \union {NoVnode}]]
          /\ held' \in [Proc -> Vnodes \union {NoVnode}]
      BY DEF VfsInv, VfsTypes, NoJob, Steps, VfsClose
    <2> QED
      BY <1>2, <2>1 DEF VfsInv, VfsTypes
  <1>4. JobExact(p)'
    BY <1>1 DEF JobExact, Steps
  <1>5. KnownTo(p)' /\ Directory(bootfs_vnode)'
    BY <1>1, <1>2 DEF KnownTo, VfsInv, VnodesKnown, Directory, Known
  <1>6. \A v \in Vnodes : ref'[v] = ref[v] + (Has(p, v)' - Has(p, v)) + (Is(bootfs_vnode', v) - Is(bootfs_vnode, v))
    <2> TAKE v \in Vnodes
    <2>1. Has(p, v)' = Is(p_cwd'[p], v) + Is(held'[p], v) + Is(job'[p].vn, v) + Is(job'[p].old, v)
          /\ Has(p, v) = Is(p_cwd[p], v) + Is(held[p], v) + Is(job[p].vn, v) + Is(job[p].old, v)
      BY DEF Has
    <2>2. ref[v] \in Int
      BY DEF VfsInv, VfsTypes
    <2> QED
      BY <1>1, <1>2, <2>1, <2>2, IsNumber
  <1> QED
    BY <1>1, <1>2, <1>3, <1>4, <1>5, <1>6, ProcStep

LEMMA ClearKeeps ==
  ASSUME VfsInv, NEW p \in Proc, vfs_clearcurdir(p)
  PROVE  VfsInv'
  <1>1. /\ job'[p].todo = <<"dropold">> /\ job'[p].vn = NoVnode /\ job'[p].old = p_cwd[p]
        /\ \A q \in Proc \ {p} : job'[q] = job[q] /\ p_cwd'[q] = p_cwd[q]
        /\ p_cwd'[p] = NoVnode /\ p_cwd[p] # NoVnode
        /\ job[p].vn = NoVnode /\ job[p].old = NoVnode
    BY DEF VfsInv, VfsTypes, NoJob, vfs_clearcurdir
  <1>2. UNCHANGED <<knowndevs, ref, held, bootfs_vnode>>
    BY DEF vfs_clearcurdir
  <1>3. VfsTypes'
    <2>1. job' \in [Proc -> [todo : Steps, vn : Vnodes \union {NoVnode}, old : Vnodes \union {NoVnode}]]
          /\ p_cwd' \in [Proc -> Vnodes \union {NoVnode}]
      BY DEF VfsInv, VfsTypes, NoJob, Steps, vfs_clearcurdir
    <2> QED
      BY <1>2, <2>1 DEF VfsInv, VfsTypes
  <1>4. JobExact(p)'
    BY <1>1 DEF JobExact, Steps
  <1>5. KnownTo(p)' /\ Directory(bootfs_vnode)'
    BY <1>1, <1>2 DEF KnownTo, VfsInv, VnodesKnown, Directory, Known
  <1>6. \A v \in Vnodes : ref'[v] = ref[v] + (Has(p, v)' - Has(p, v)) + (Is(bootfs_vnode', v) - Is(bootfs_vnode, v))
    <2> TAKE v \in Vnodes
    <2>1. Has(p, v)' = Is(p_cwd'[p], v) + Is(held'[p], v) + Is(job'[p].vn, v) + Is(job'[p].old, v)
          /\ Has(p, v) = Is(p_cwd[p], v) + Is(held[p], v) + Is(job[p].vn, v) + Is(job[p].old, v)
      BY DEF Has
    <2>2. ref[v] \in Int
      BY DEF VfsInv, VfsTypes
    <2> QED
      BY <1>1, <1>2, <2>1, <2>2, IsNumber
  <1> QED
    BY <1>1, <1>2, <1>3, <1>4, <1>5, <1>6, ProcStep

\* The step of a call that gives up v, the vnode or the old directory of its
\* job.
LEMMA FinishKeeps ==
  ASSUME VfsInv, NEW p \in Proc, NEW v \in V0, v = NoVnode \/ IsRoot(v) \/ ref[v] # 1,
         ref' = vn_decref(ref, v), UNCHANGED <<knowndevs, bootfs_vnode, held, p_cwd>>,
         job' \in [Proc -> [todo : Steps, vn : Vnodes \union {NoVnode}, old : Vnodes \union {NoVnode}]],
         \A q \in Proc \ {p} : job'[q] = job[q],
         JobExact(p)', KnownTo(p)',
         \A u \in Vnodes : Is(job[p].vn, u) + Is(job[p].old, u) = Is(job'[p].vn, u) + Is(job'[p].old, u) + Is(v, u)
  PROVE  VfsInv'
  <1>1. ref' \in [Vnodes -> Int] /\ \A u \in Vnodes : ref'[u] = ref[u] - Is(v, u)
    BY DecrefIs DEF VfsInv, VfsTypes
  <1>2. VfsTypes'
    BY <1>1 DEF VfsInv, VfsTypes
  <1>3. Directory(bootfs_vnode)'
    BY DEF VfsInv, VnodesKnown, Directory, Known
  <1>4. \A u \in Vnodes : ref'[u] = ref[u] + (Has(p, u)' - Has(p, u)) + (Is(bootfs_vnode', u) - Is(bootfs_vnode, u))
    <2> TAKE u \in Vnodes
    <2>1. Has(p, u)' = Is(p_cwd'[p], u) + Is(held'[p], u) + Is(job'[p].vn, u) + Is(job'[p].old, u)
          /\ Has(p, u) = Is(p_cwd[p], u) + Is(held[p], u) + Is(job[p].vn, u) + Is(job[p].old, u)
      BY DEF Has
    <2>2. ref[u] \in Int
      BY DEF VfsInv, VfsTypes
    <2> QED
      BY <1>1, <2>1, <2>2, IsNumber
  <1> QED
    BY <1>2, <1>3, <1>4, ProcStep

LEMMA DropvnKeeps ==
  ASSUME VfsInv, NEW p \in Proc, job[p].todo = <<"dropvn">>, VfsFinish(p, job[p].vn),
         UNCHANGED <<knowndevs, bootfs_vnode, held, p_cwd>>
  PROVE  VfsInv'
  <1> DEFINE v == job[p].vn
  <1>1. v # NoVnode /\ job[p].old = NoVnode /\ Known(v) /\ v \in V0
    BY DEF VfsInv, JobExact, VnodesKnown, VfsTypes, V0
  <1>2. job'[p] = NoJob /\ \A q \in Proc \ {p} : job'[q] = job[q]
    BY DEF VfsInv, VfsTypes, VfsFinish
  <1>3. job' \in [Proc -> [todo : Steps, vn : Vnodes \union {NoVnode}, old : Vnodes \union {NoVnode}]]
    BY DEF VfsInv, VfsTypes, VfsFinish, NoJob, Steps
  <1>4. NoJob.todo = <<>> /\ NoJob.vn = NoVnode /\ NoJob.old = NoVnode
    BY DEF NoJob
  <1>5. JobExact(p)'
    BY <1>2, <1>4 DEF JobExact, Steps
  <1>6. KnownTo(p)'
    BY <1>2, <1>4 DEF KnownTo, VfsInv, VnodesKnown, Directory, Known
  <1>7. Has(p, v) # 0
    BY IsNumber DEF Has, Is
  <1>8. IsRoot(v) \/ ref[v] # 1
    BY <1>1, <1>7, HeldCounts
  <1>9. ref' = vn_decref(ref, v)
    BY DEF VfsFinish
  <1>10. \A u \in Vnodes : Is(job[p].vn, u) + Is(job[p].old, u) = Is(job'[p].vn, u) + Is(job'[p].old, u) + Is(v, u)
    BY <1>1, <1>2, <1>4, VnodesAre DEF Is
  <1> HIDE DEF v
  <1> QED
    BY <1>1, <1>2, <1>3, <1>5, <1>6, <1>8, <1>9, <1>10, FinishKeeps

LEMMA DropoldKeeps ==
  ASSUME VfsInv, NEW p \in Proc, job[p].todo \in {<<"dropold">>, <<"dropold", "dropvn">>}, VfsFinish(p, job[p].old),
         UNCHANGED <<knowndevs, bootfs_vnode, held, p_cwd>>
  PROVE  VfsInv'
  <1> DEFINE v == job[p].old
  <1>1. v \in V0 /\ (v = NoVnode \/ IsRoot(v))
    BY DEF VfsInv, VnodesKnown, VfsTypes, V0, Directory
  <1>2. /\ job[p].todo = <<"dropold">> => job'[p].todo = <<>> /\ job'[p] = NoJob /\ job[p].vn = NoVnode
        /\ job[p].todo = <<"dropold", "dropvn">> => job'[p].todo = <<"dropvn">> /\ job[p].vn # NoVnode
        /\ job'[p].vn = job[p].vn /\ job'[p].old = NoVnode
        /\ \A q \in Proc \ {p} : job'[q] = job[q]
        /\ job' \in [Proc -> [todo : Steps, vn : Vnodes \union {NoVnode}, old : Vnodes \union {NoVnode}]]
    <2>1. CASE job[p].todo = <<"dropold">>
      <3>1. job[p].vn = NoVnode /\ job[p].todo # <<"dropold", "dropvn">>
        BY <2>1 DEF VfsInv, JobExact
      <3> QED
        BY <2>1, <3>1 DEF VfsInv, VfsTypes, VfsFinish, NoJob, Steps
    <2>2. CASE job[p].todo = <<"dropold", "dropvn">>
      <3>1. job[p].vn # NoVnode /\ job[p].todo # <<"dropold">>
        BY <2>2 DEF VfsInv, JobExact
      <3>2. Len(job[p].todo) = 2 /\ Tail(job[p].todo) = <<"dropvn">>
        BY <2>2
      <3>3. /\ job' = [job EXCEPT ![p] = job'[p]]
            /\ job'[p] = [job[p] EXCEPT !.todo = <<"dropvn">>, !.old = NoVnode]
        <4> DEFINE t == job[p].todo
        <4>1. job' = [job EXCEPT ![p] = IF Len(t) = 1 THEN NoJob ELSE [job[p] EXCEPT !.todo = Tail(t), !.old = NoVnode]]
          BY DEF VfsFinish
        <4>2. Len(t) # 1 /\ Tail(t) = <<"dropvn">>
          BY <3>2
        <4> HIDE DEF t
        <4>3. job' = [job EXCEPT ![p] = [job[p] EXCEPT !.todo = <<"dropvn">>, !.old = NoVnode]]
          BY <4>1, <4>2
        <4> QED
          BY <4>3 DEF VfsInv, VfsTypes
      <3>4. job[p] \in [todo : Steps, vn : Vnodes \union {NoVnode}, old : Vnodes \union {NoVnode}]
        BY DEF VfsInv, VfsTypes
      <3>5. /\ job'[p].todo = <<"dropvn">> /\ job'[p].vn = job[p].vn /\ job'[p].old = NoVnode
            /\ job'[p] \in [todo : Steps, vn : Vnodes \union {NoVnode}, old : Vnodes \union {NoVnode}]
        BY <3>3, <3>4 DEF Steps
      <3>6. job' \in [Proc -> [todo : Steps, vn : Vnodes \union {NoVnode}, old : Vnodes \union {NoVnode}]]
            /\ \A q \in Proc \ {p} : job'[q] = job[q]
        BY <3>3, <3>5 DEF VfsInv, VfsTypes
      <3> QED
        BY <2>2, <3>1, <3>5, <3>6
    <2> QED
      BY <2>1, <2>2
  <1>5. JobExact(p)'
    <2>1. CASE job[p].todo = <<"dropold">>
      <3>1. job'[p].todo = <<>> /\ job'[p] = NoJob
        BY <1>2, <2>1
      <3> QED
        BY <3>1 DEF JobExact, Steps
    <2>2. CASE job[p].todo = <<"dropold", "dropvn">>
      BY <1>2, <2>2 DEF JobExact, Steps
    <2> QED
      BY <2>1, <2>2
  <1>6. KnownTo(p)'
    BY <1>2 DEF KnownTo, VfsInv, VnodesKnown, Directory, Known
  <1>9. ref' = vn_decref(ref, v)
    BY DEF VfsFinish
  <1>10. \A u \in Vnodes : Is(job[p].vn, u) + Is(job[p].old, u) = Is(job'[p].vn, u) + Is(job'[p].old, u) + Is(v, u)
    BY <1>2, VnodesAre DEF Is
  <1> HIDE DEF v
  <1> QED
    BY <1>1, <1>2, <1>5, <1>6, <1>9, <1>10, FinishKeeps

LEMMA IncopenKeeps ==
  ASSUME VfsInv, NEW p \in Proc, job[p].todo = <<"incopen">>,
         held' = [held EXCEPT ![p] = job[p].vn], job' = [job EXCEPT ![p] = NoJob],
         UNCHANGED <<ref, p_cwd, knowndevs, bootfs_vnode>>
  PROVE  VfsInv'
  <1>1. job[p].vn # NoVnode /\ job[p].old = NoVnode /\ held[p] = NoVnode
    BY DEF VfsInv, JobExact
  <1>2. /\ job'[p].todo = <<>> /\ job'[p].vn = NoVnode /\ job'[p].old = NoVnode /\ job'[p] = NoJob
        /\ \A q \in Proc \ {p} : job'[q] = job[q] /\ held'[q] = held[q]
        /\ held'[p] = job[p].vn
    BY DEF VfsInv, VfsTypes, NoJob
  <1>3. VfsTypes'
    <2>1. job' \in [Proc -> [todo : Steps, vn : Vnodes \union {NoVnode}, old : Vnodes \union {NoVnode}]]
          /\ held' \in [Proc -> Vnodes \union {NoVnode}]
      BY DEF VfsInv, VfsTypes, NoJob, Steps
    <2> QED
      BY <2>1 DEF VfsInv, VfsTypes
  <1>4. JobExact(p)'
    <2>1. NoJob.todo = <<>> /\ job'[p] = NoJob
      BY <1>2
    <2> QED
      BY <2>1 DEF JobExact, Steps
  <1>5. KnownTo(p)' /\ Directory(bootfs_vnode)'
    BY <1>2 DEF KnownTo, VfsInv, VnodesKnown, Directory, Known
  <1>6. \A v \in Vnodes : ref'[v] = ref[v] + (Has(p, v)' - Has(p, v)) + (Is(bootfs_vnode', v) - Is(bootfs_vnode, v))
    <2> TAKE v \in Vnodes
    <2>1. Has(p, v)' = Is(p_cwd'[p], v) + Is(held'[p], v) + Is(job'[p].vn, v) + Is(job'[p].old, v)
          /\ Has(p, v) = Is(p_cwd[p], v) + Is(held[p], v) + Is(job[p].vn, v) + Is(job[p].old, v)
      BY DEF Has
    <2>2. ref[v] \in Int
      BY DEF VfsInv, VfsTypes
    <2> QED
      BY <1>1, <1>2, <2>1, <2>2, IsNumber
  <1> QED
    BY <1>2, <1>3, <1>4, <1>5, <1>6, ProcStep

LEMMA SetcurdirKeeps ==
  ASSUME VfsInv, NEW p \in Proc, job[p].todo = <<"setcurdir", "dropold", "dropvn">>, vfs_setcurdir(p),
         UNCHANGED <<held, knowndevs, bootfs_vnode>>
  PROVE  VfsInv'
  <1> DEFINE vn == job[p].vn
             Jobs == [todo : Steps, vn : Vnodes \union {NoVnode}, old : Vnodes \union {NoVnode}]
  <1>1. vn # NoVnode /\ vn \in Vnodes /\ Known(vn) /\ job[p].old = NoVnode /\ job[p] \in Jobs /\ Tail(job[p].todo) = <<"dropold", "dropvn">>
    <2>1. vn # NoVnode /\ job[p].old = NoVnode
      BY DEF VfsInv, JobExact
    <2>2. vn \in Vnodes /\ Known(vn) /\ job[p] \in Jobs
      BY <2>1 DEF VfsInv, VfsTypes, VnodesKnown
    <2> QED
      BY <2>1, <2>2
  <1>2. CASE IsRoot(vn)
    <2>1. /\ ref' = vn_incref(ref, vn)
          /\ p_cwd' = [p_cwd EXCEPT ![p] = vn]
          /\ job' = [job EXCEPT ![p].todo = <<"dropold", "dropvn">>, ![p].old = p_cwd[p]]
      BY <1>1, <1>2 DEF vfs_setcurdir
    <2>2. /\ job'[p].todo = <<"dropold", "dropvn">> /\ job'[p].vn = vn /\ job'[p].old = p_cwd[p]
          /\ \A q \in Proc \ {p} : job'[q] = job[q] /\ p_cwd'[q] = p_cwd[q]
          /\ p_cwd'[p] = vn
      BY <2>1 DEF VfsInv, VfsTypes
    <2>3. ref' \in [Vnodes -> Int] /\ \A u \in Vnodes : ref'[u] = ref[u] + Is(vn, u)
      BY <1>1, <2>1, IncrefIs DEF VfsInv, VfsTypes
    <2>4. VfsTypes'
      <3>1. job' \in [Proc -> Jobs] /\ p_cwd' \in [Proc -> Vnodes \union {NoVnode}]
        BY <1>1, <2>1 DEF VfsInv, VfsTypes, Steps
      <3> QED
        BY <2>3, <3>1 DEF VfsInv, VfsTypes
    <2>5. JobExact(p)'
      BY <1>1, <2>2 DEF JobExact, Steps
    <2>6. KnownTo(p)' /\ Directory(bootfs_vnode)'
      BY <1>1, <1>2, <2>2 DEF KnownTo, VfsInv, VnodesKnown, Directory, Known
    <2>7. \A v \in Vnodes : ref'[v] = ref[v] + (Has(p, v)' - Has(p, v)) + (Is(bootfs_vnode', v) - Is(bootfs_vnode, v))
      <3> TAKE v \in Vnodes
      <3>1. Has(p, v)' = Is(p_cwd'[p], v) + Is(held'[p], v) + Is(job'[p].vn, v) + Is(job'[p].old, v)
            /\ Has(p, v) = Is(p_cwd[p], v) + Is(held[p], v) + Is(job[p].vn, v) + Is(job[p].old, v)
        BY DEF Has
      <3>2. ref[v] \in Int /\ Is(NoVnode, v) = 0
        BY VnodesAre DEF VfsInv, VfsTypes, Is
      <3> HIDE DEF vn
      <3> QED
        BY <1>1, <2>2, <2>3, <3>1, <3>2, IsNumber DEF vn
    <2> QED
      BY <2>2, <2>4, <2>5, <2>6, <2>7, ProcStep
  <1>3. CASE ~IsRoot(vn)
    <2>1. job' = [job EXCEPT ![p].todo = <<"dropvn">>] /\ UNCHANGED <<ref, p_cwd>>
      BY <1>3 DEF vfs_setcurdir
    <2>2. /\ job'[p].todo = <<"dropvn">> /\ job'[p].vn = vn /\ job'[p].old = NoVnode
          /\ \A q \in Proc \ {p} : job'[q] = job[q]
      BY <1>1, <2>1 DEF VfsInv, VfsTypes
    <2>4. VfsTypes'
      <3>1. job' \in [Proc -> Jobs]
        BY <1>1, <2>1 DEF VfsInv, VfsTypes, Steps
      <3> QED
        BY <2>1, <3>1 DEF VfsInv, VfsTypes
    <2>5. JobExact(p)'
      BY <1>1, <2>2 DEF JobExact, Steps
    <2>6. KnownTo(p)' /\ Directory(bootfs_vnode)'
      BY <1>1, <2>1, <2>2 DEF KnownTo, VfsInv, VnodesKnown, Directory, Known
    <2>7. \A v \in Vnodes : ref'[v] = ref[v] + (Has(p, v)' - Has(p, v)) + (Is(bootfs_vnode', v) - Is(bootfs_vnode, v))
      <3> TAKE v \in Vnodes
      <3>1. Has(p, v)' = Is(p_cwd'[p], v) + Is(held'[p], v) + Is(job'[p].vn, v) + Is(job'[p].old, v)
            /\ Has(p, v) = Is(p_cwd[p], v) + Is(held[p], v) + Is(job[p].vn, v) + Is(job[p].old, v)
        BY DEF Has
      <3>2. ref[v] \in Int
        BY DEF VfsInv, VfsTypes
      <3> QED
        BY <1>1, <2>1, <2>2, <3>1, <3>2, IsNumber
    <2> QED
      BY <2>1, <2>2, <2>4, <2>5, <2>6, <2>7, ProcStep
  <1> QED
    BY <1>2, <1>3

LEMMA ContinueKeeps ==
  ASSUME VfsInv, NEW p \in Proc, VfsContinue(p)
  PROVE  VfsInv'
  <1> DEFINE t == job[p].todo
  <1>1. t \in Steps /\ t # <<>> /\ UNCHANGED <<knowndevs, bootfs_vnode>>
    BY DEF VfsContinue, VfsInv, JobExact
  <1>2. CASE Head(t) = "setcurdir" /\ vfs_setcurdir(p) /\ UNCHANGED <<open, held>>
    BY <1>1, <1>2, StepsAre, SetcurdirKeeps
  <1>3. CASE Head(t) = "dropold" /\ VfsFinish(p, job[p].old) /\ UNCHANGED <<open, held, p_cwd>>
    BY <1>1, <1>3, StepsAre, DropoldKeeps
  <1>4. CASE Head(t) = "dropvn" /\ VfsFinish(p, job[p].vn) /\ UNCHANGED <<open, held, p_cwd>>
    BY <1>1, <1>4, StepsAre, DropvnKeeps
  <1>5. CASE /\ Head(t) = "incopen" /\ held' = [held EXCEPT ![p] = job[p].vn]
             /\ job' = [job EXCEPT ![p] = NoJob] /\ UNCHANGED <<ref, p_cwd>>
    BY <1>1, <1>5, StepsAre, IncopenKeeps
  <1> QED
    BY <1>2, <1>3, <1>4, <1>5 DEF VfsContinue

\* The whole of vfs_setbootfs under the lock, the change of directory included.
LEMMA SetbootfsKeeps ==
  ASSUME VfsInv, NEW p \in Proc, NEW n, vfs_setbootfs(p, n)
  PROVE  VfsInv'
  <1> DEFINE vn == vfs_getroot(n)
             r1 == vn_incref(ref, vn)
             r2 == vn_incref(r1, vn)
             r3 == vn_decref(r2, p_cwd[p])
  <1>1. /\ vn # NoVnode /\ IsRoot(vn) /\ p_cwd' = [p_cwd EXCEPT ![p] = vn] /\ bootfs_vnode' = vn
        /\ ref' = vn_decref(r3, bootfs_vnode) /\ UNCHANGED <<knowndevs, open, held, job>>
    BY DEF vfs_setbootfs
  <1>2. vn \in Vnodes /\ Known(vn)
    BY <1>1, GetrootIs, KnownIs DEF VfsInv
  <1> HIDE DEF vn
  <1>3. ref \in [Vnodes -> Int] /\ p_cwd \in [Proc -> Vnodes \union {NoVnode}]
    BY DEF VfsInv, VfsTypes
  <1>4. r1 \in [Vnodes -> Int] /\ \A u \in Vnodes : r1[u] = ref[u] + Is(vn, u)
    BY <1>2, <1>3, IncrefIs
  <1> HIDE DEF r1
  <1>5. r2 \in [Vnodes -> Int] /\ \A u \in Vnodes : r2[u] = r1[u] + Is(vn, u)
    BY <1>2, <1>4, IncrefIs
  <1> HIDE DEF r2
  <1>6. /\ p_cwd[p] \in V0 /\ (p_cwd[p] = NoVnode \/ IsRoot(p_cwd[p]))
        /\ bootfs_vnode \in V0 /\ (bootfs_vnode = NoVnode \/ IsRoot(bootfs_vnode))
    BY DEF VfsInv, VfsTypes, VnodesKnown, Directory, V0
  <1>7. r3 \in [Vnodes -> Int] /\ \A u \in Vnodes : r3[u] = r2[u] - Is(p_cwd[p], u)
    BY <1>5, <1>6, DecrefIs
  <1> HIDE DEF r3
  <1>8. ref' \in [Vnodes -> Int] /\ \A u \in Vnodes : ref'[u] = r3[u] - Is(bootfs_vnode, u)
    BY <1>1, <1>6, <1>7, DecrefIs
  <1>9. p_cwd'[p] = vn /\ \A q \in Proc \ {p} : p_cwd'[q] = p_cwd[q]
    BY <1>1, <1>3
  <1>10. VfsTypes'
    BY <1>1, <1>2, <1>8 DEF VfsInv, VfsTypes
  <1>11. KnownTo(p)' /\ Directory(bootfs_vnode)'
    BY <1>1, <1>2, <1>9 DEF KnownTo, VfsInv, VnodesKnown, Directory, Known
  <1>12. JobExact(p)'
    BY <1>1 DEF JobExact, VfsInv
  <1>13. \A v \in Vnodes : ref'[v] = ref[v] + (Has(p, v)' - Has(p, v)) + (Is(bootfs_vnode', v) - Is(bootfs_vnode, v))
    <2> TAKE v \in Vnodes
    <2>1. Has(p, v)' = Is(p_cwd'[p], v) + Is(held'[p], v) + Is(job'[p].vn, v) + Is(job'[p].old, v)
          /\ Has(p, v) = Is(p_cwd[p], v) + Is(held[p], v) + Is(job[p].vn, v) + Is(job[p].old, v)
      BY DEF Has
    <2>2. ref[v] \in Int /\ r1[v] \in Int /\ r2[v] \in Int /\ r3[v] \in Int
      BY <1>3, <1>4, <1>5, <1>7
    <2> QED
      BY <1>1, <1>4, <1>5, <1>7, <1>8, <1>9, <2>1, <2>2, IsNumber
  <1> QED
    BY <1>1, <1>9, <1>10, <1>11, <1>12, <1>13, ProcStep

LEMMA ClearbootfsKeeps ==
  ASSUME VfsInv, vfs_clearbootfs
  PROVE  VfsInv'
  <1>1. PICK p \in Proc : TRUE
    BY VfsAssumption
  <1>2. /\ bootfs_vnode # NoVnode /\ ref' = vn_decref(ref, bootfs_vnode)
        /\ bootfs_vnode' = NoVnode /\ UNCHANGED <<knowndevs, open, p_cwd, held, job>>
    BY DEF vfs_clearbootfs
  <1>3. bootfs_vnode \in V0 /\ IsRoot(bootfs_vnode)
    BY <1>2 DEF VfsInv, VfsTypes, VnodesKnown, Directory, V0
  <1>4. ref' \in [Vnodes -> Int] /\ \A u \in Vnodes : ref'[u] = ref[u] - Is(bootfs_vnode, u)
    BY <1>2, <1>3, DecrefIs DEF VfsInv, VfsTypes
  <1>5. VfsTypes'
    BY <1>2, <1>4 DEF VfsInv, VfsTypes
  <1>6. KnownTo(p)' /\ Directory(bootfs_vnode)'
    BY <1>2 DEF KnownTo, VfsInv, VnodesKnown, Directory, Known
  <1>7. JobExact(p)'
    BY <1>2 DEF JobExact, VfsInv
  <1>8. \A v \in Vnodes : ref'[v] = ref[v] + (Has(p, v)' - Has(p, v)) + (Is(bootfs_vnode', v) - Is(bootfs_vnode, v))
    <2> TAKE v \in Vnodes
    <2>1. Has(p, v)' = Has(p, v) /\ Has(p, v) \in Int
      BY <1>2, IsNumber DEF Has
    <2>2. ref[v] \in Int /\ Is(NoVnode, v) = 0
      BY VnodesAre DEF VfsInv, VfsTypes, Is
    <2> QED
      BY <1>2, <1>4, <2>1, <2>2, IsNumber
  <1> QED
    BY <1>2, <1>5, <1>6, <1>7, <1>8, ProcStep

-----------------------------------------------------------------------------
(* The device table *)

LEMMA NobodyHas ==
  ASSUME VfsInv, NEW v \in Vnodes, ~Known(v)
  PROVE  Holders(v) = 0
  <1>1. bootfs_vnode # v /\ \A p \in Proc : p_cwd[p] # v /\ held[p] # v /\ job[p].vn # v /\ job[p].old # v
    BY VnodesAre DEF VfsInv, VnodesKnown, Directory
  <1>2. \A p \in Proc : Has(p, v) = 0
    BY <1>1 DEF Has, Is
  <1> QED
    BY <1>1, <1>2, HoldersIs

\* The table changes under nobody: what somebody has stays known.
LEMMA TableStep ==
  ASSUME VfsInv, UNCHANGED <<p_cwd, bootfs_vnode, held, job>>,
         VfsTypes', EntriesExact', NamesUnambiguous', RefsExact',
         \A v \in Vnodes : Known(v) /\ Holders(v) # 0 => Known(v)'
  PROVE  VfsInv'
  <1>1. \A v \in Vnodes \union {NoVnode} :
           Known(v) /\ (bootfs_vnode = v \/ \E p \in Proc : p_cwd[p] = v \/ held[p] = v \/ job[p].vn = v \/ job[p].old = v)
           => Known(v)'
    <2> SUFFICES ASSUME NEW v, Known(v),
                        bootfs_vnode = v \/ \E p \in Proc : p_cwd[p] = v \/ held[p] = v \/ job[p].vn = v \/ job[p].old = v
                 PROVE  Known(v)'
      OBVIOUS
    <2>1. bootfs_vnode = v \/ \E p \in Proc : Has(p, v) # 0
      BY DEF Has, Is
    <2>2. Holders(v) # 0
      BY <2>1, HoldersIs
    <2> QED
      BY <2>2, KnownIs DEF VfsInv
  <1>2. VfsTypes /\ VnodesKnown
    BY DEF VfsInv
  <1>3. VnodesKnown'
    BY <1>1, <1>2 DEF VnodesKnown, Directory, VfsTypes
  <1>4. \A p \in Proc : JobExact(p)'
    BY DEF VfsInv, JobExact
  <1> QED
    BY <1>3, <1>4 DEF VfsInv

Entries == [kd_name : {a.name : a \in Attach},
            kd_rawname : {NoName} \union {mkrawname(a.name) : a \in Attach},
            fs : BOOLEAN, volname : {NoName} \union {Label[a.name] : a \in Attach}]

LEMMA EntriesAre ==
  ASSUME VfsInv
  PROVE  /\ knowndevs \in Seq(Entries)
         /\ \A i \in DOMAIN knowndevs : knowndevs[i] \in Entries
         /\ DOMAIN knowndevs = 1..Len(knowndevs) /\ Len(knowndevs) \in Nat
  <1>1. knowndevs \in Seq(Entries)
    BY DEF VfsInv, VfsTypes, Entries
  <1> QED
    BY <1>1

LEMMA HoldersSame ==
  ASSUME UNCHANGED <<p_cwd, bootfs_vnode, held, job>>
  PROVE  \A v : Holders(v)' = Holders(v)
  BY DEF Holders

\* Entries may lose their file system when nobody has its root.
LEMMA UnmountKeeps ==
  ASSUME VfsInv, UNCHANGED <<ref, p_cwd, bootfs_vnode, held, job>>,
         knowndevs' \in Seq(Entries), DOMAIN knowndevs' = DOMAIN knowndevs,
         \A i \in DOMAIN knowndevs :
            knowndevs'[i] = knowndevs[i] \/ (FSOP_UNMOUNT(i) /\ knowndevs'[i] = Dropped(knowndevs[i]))
  PROVE  VfsInv'
  <1>1. /\ Len(knowndevs') = Len(knowndevs)
        /\ \A i \in DOMAIN knowndevs : knowndevs[i] \in Entries
    BY EntriesAre
  <1>2. VfsTypes'
    BY <1>1 DEF VfsInv, VfsTypes, Entries
  <1>3. \A i \in DOMAIN knowndevs :
           /\ knowndevs[i] \in Entries
           /\ knowndevs'[i].kd_name = knowndevs[i].kd_name
           /\ knowndevs'[i].kd_rawname = knowndevs[i].kd_rawname
           /\ knowndevs'[i].volname \in {NoName, knowndevs[i].volname}
           /\ knowndevs'[i].fs => knowndevs[i].fs
           /\ knowndevs'[i].fs # knowndevs[i].fs => FSOP_UNMOUNT(i)
           /\ knowndevs'[i].fs => knowndevs'[i] = knowndevs[i]
    BY <1>1 DEF Entries, Dropped
  <1>4. EntriesExact'
    <2> SUFFICES ASSUME NEW i \in DOMAIN knowndevs
                 PROVE  \E a \in Attach :
                           /\ knowndevs'[i].kd_name = a.name
                           /\ knowndevs'[i].kd_rawname = IF a.mountable THEN mkrawname(a.name) ELSE NoName
                           /\ knowndevs'[i].volname \in {NoName, Label[a.name]}
                           /\ (knowndevs'[i].volname # NoName => a.mountable)
      BY DEF EntriesExact
    <2> QED
      BY <1>3 DEF VfsInv, EntriesExact
  <1>5. \A i \in DOMAIN knowndevs : NamesOf(knowndevs'[i]) \subseteq NamesOf(knowndevs[i])
    BY <1>3 DEF NamesOf, FSOP_GETVOLNAME
  <1>6. NamesUnambiguous'
    BY <1>5 DEF VfsInv, NamesUnambiguous
  <1>7. RefsExact'
    BY HoldersSame DEF VfsInv, RefsExact
  <1>8. \A v \in Vnodes : Known(v) /\ Holders(v) # 0 => Known(v)'
    <2> SUFFICES ASSUME NEW v \in Vnodes, Known(v), Holders(v) # 0
                 PROVE  Known(v)'
      OBVIOUS
    <2>1. PICK i \in DOMAIN knowndevs : v = DevOf(i) \/ (v = RootOf(i) /\ knowndevs[i].fs)
      BY DEF Known
    <2>2. CASE v = DevOf(i)
      BY <2>2 DEF Known
    <2>3. CASE v = RootOf(i) /\ knowndevs[i].fs
      <3>1. i \in 1..MaxDevs
        BY VnodesAre DEF VfsInv, VfsTypes
      <3>2. ref[RootOf(i)] # 0
        BY <2>3, <3>1 DEF VfsInv, RefsExact
      <3>3. knowndevs'[i].fs
        BY <1>3, <2>3, <3>2 DEF FSOP_UNMOUNT, Entries
      <3> QED
        BY <2>3, <3>3 DEF Known
    <2> QED
      BY <2>1, <2>2, <2>3
  <1> QED
    BY <1>2, <1>4, <1>6, <1>7, <1>8, TableStep

LEMMA UnmountsKeep ==
  ASSUME VfsInv, (\E i \in DOMAIN knowndevs : vfs_unmount(i)) \/ vfs_unmountall
  PROVE  VfsInv'
  <1>1. knowndevs \in Seq(Entries) /\ \A i \in DOMAIN knowndevs : knowndevs[i] \in Entries
    BY EntriesAre
  <1>2. \A i \in DOMAIN knowndevs : Dropped(knowndevs[i]) \in Entries
    BY <1>1 DEF Entries, Dropped
  <1>3. ASSUME NEW i \in DOMAIN knowndevs, vfs_unmount(i)
        PROVE  VfsInv'
    <2>1. /\ FSOP_UNMOUNT(i) /\ knowndevs' = [knowndevs EXCEPT ![i] = Dropped(knowndevs[i])]
          /\ UNCHANGED <<ref, p_cwd, bootfs_vnode, held, job>>
      BY <1>3 DEF vfs_unmount
    <2>2. knowndevs' \in Seq(Entries) /\ DOMAIN knowndevs' = DOMAIN knowndevs
      BY <1>1, <1>2, <2>1
    <2> QED
      BY <2>1, <2>2, UnmountKeeps
  <1>4. ASSUME vfs_unmountall
        PROVE  VfsInv'
    <2>1. PICK failing \in SUBSET DOMAIN knowndevs :
            /\ knowndevs' = [i \in DOMAIN knowndevs |->
                   IF IsMountable(i) /\ knowndevs[i].fs /\ i \notin failing /\ FSOP_UNMOUNT(i)
                     THEN Dropped(knowndevs[i]) ELSE knowndevs[i]]
            /\ UNCHANGED <<ref, open, p_cwd, bootfs_vnode, held, job>>
      BY <1>4, Zenon DEF vfs_unmountall
    <2>2. /\ DOMAIN knowndevs' = DOMAIN knowndevs
          /\ \A i \in DOMAIN knowndevs :
                knowndevs'[i] = knowndevs[i] \/ (FSOP_UNMOUNT(i) /\ knowndevs'[i] = Dropped(knowndevs[i]))
      BY <2>1
    <2>3. DOMAIN knowndevs = 1..Len(knowndevs) /\ Len(knowndevs) \in Nat
      BY <1>1
    <2>4. knowndevs' \in [1..Len(knowndevs) -> Entries]
      BY <1>1, <1>2, <2>1, <2>3
    <2>5. knowndevs' \in Seq(Entries)
      BY <2>3, <2>4
    <2> QED
      BY <2>1, <2>2, <2>5, UnmountKeeps
  <1> QED
    BY <1>3, <1>4

\* The new names are those of no other device: badnames for the device's, and
\* for the volume's what is assumed of the labels.
LEMMA MountKeeps ==
  ASSUME VfsInv, NEW i \in DOMAIN knowndevs, vfs_mount(i)
  PROVE  VfsInv'
  <1> DEFINE lab == Label[knowndevs[i].kd_name]
  <1>1. /\ knowndevs[i].kd_rawname # NoName /\ ~knowndevs[i].fs
        /\ knowndevs' = [knowndevs EXCEPT ![i].fs = TRUE, ![i].volname = lab]
        /\ UNCHANGED <<ref, open, p_cwd, bootfs_vnode, held, job>>
    BY DEF vfs_mount, IsMountable
  <1>2. knowndevs \in Seq(Entries) /\ \A j \in DOMAIN knowndevs : knowndevs[j] \in Entries
    BY EntriesAre
  <1>3. PICK a \in Attach : /\ knowndevs[i].kd_name = a.name
                            /\ knowndevs[i].kd_rawname = IF a.mountable THEN mkrawname(a.name) ELSE NoName
                            /\ knowndevs[i].volname \in {NoName, Label[a.name]}
    BY DEF VfsInv, EntriesExact
  <1>4. a.mountable /\ lab = Label[a.name]
    BY <1>1, <1>3, VfsAssumption
  <1>5. /\ knowndevs'[i] = [knowndevs[i] EXCEPT !.fs = TRUE, !.volname = lab]
        /\ \A j \in DOMAIN knowndevs : j # i => knowndevs'[j] = knowndevs[j]
        /\ DOMAIN knowndevs' = DOMAIN knowndevs /\ Len(knowndevs') = Len(knowndevs)
    <2> HIDE DEF lab
    <2>1. knowndevs \in [1..Len(knowndevs) -> Entries] /\ Len(knowndevs) \in Nat
      BY EntriesAre
    <2>2. /\ \A j \in DOMAIN knowndevs : j # i => knowndevs'[j] = knowndevs[j]
          /\ DOMAIN knowndevs' = DOMAIN knowndevs /\ Len(knowndevs') = Len(knowndevs)
      BY <1>1, <2>1
    <2>3. knowndevs[i] \in Entries /\ knowndevs'[i] = [knowndevs[i] EXCEPT !.fs = TRUE, !.volname = lab]
      BY <1>1, <2>1 DEF Entries
    <2> QED
      BY <2>2, <2>3
  <1>14. /\ knowndevs'[i].kd_name = knowndevs[i].kd_name /\ knowndevs'[i].kd_rawname = knowndevs[i].kd_rawname
         /\ knowndevs'[i].fs = TRUE /\ knowndevs'[i].volname = lab
         /\ [knowndevs[i] EXCEPT !.fs = TRUE, !.volname = lab] \in Entries
    BY <1>2, <1>4, <1>5 DEF Entries
  <1>6. knowndevs' \in Seq(Entries)
    <2>1. knowndevs' \in [1..Len(knowndevs) -> Entries]
      BY <1>1, <1>2, <1>5, <1>14, EntriesAre
    <2> QED
      BY <2>1, EntriesAre
  <1>7. VfsTypes'
    BY <1>1, <1>5, <1>6 DEF VfsInv, VfsTypes, Entries
  <1>8. EntriesExact'
    <2> SUFFICES ASSUME NEW j \in DOMAIN knowndevs
                 PROVE  \E b \in Attach :
                           /\ knowndevs'[j].kd_name = b.name
                           /\ knowndevs'[j].kd_rawname = IF b.mountable THEN mkrawname(b.name) ELSE NoName
                           /\ knowndevs'[j].volname \in {NoName, Label[b.name]}
                           /\ (knowndevs'[j].volname # NoName => b.mountable)
      BY <1>5 DEF EntriesExact
    <2>1. CASE j = i
      BY <1>3, <1>4, <1>14, <2>1
    <2>2. CASE j # i
      BY <1>5, <2>2 DEF VfsInv, EntriesExact
    <2> QED
      BY <2>1, <2>2
  <1>9. NamesOf(knowndevs'[i]) \subseteq NamesOf(knowndevs[i]) \union ({lab} \ {NoName})
    BY <1>14 DEF NamesOf, FSOP_GETVOLNAME
  <1>10. ASSUME NEW j \in DOMAIN knowndevs, j # i, lab # NoName
         PROVE  lab \notin NamesOf(knowndevs[j])
    <2>1. PICK b \in Attach : /\ knowndevs[j].kd_name = b.name
                              /\ knowndevs[j].kd_rawname = IF b.mountable THEN mkrawname(b.name) ELSE NoName
                              /\ knowndevs[j].volname \in {NoName, Label[b.name]}
                              /\ (knowndevs[j].volname # NoName => b.mountable)
      BY DEF VfsInv, EntriesExact
    <2>2. a.name \in NamesOf(knowndevs[i]) /\ b.name \in NamesOf(knowndevs[j])
      BY <1>3, <2>1, VfsAssumption DEF NamesOf
    <2>3. a.name # b.name
      BY <1>10, <2>2 DEF VfsInv, NamesUnambiguous
    <2>4. lab \notin {b.name, mkrawname(b.name)} /\ (b.mountable => lab # Label[b.name])
      BY <1>4, <1>10, <2>3, LabelsDiffer
    <2> QED
      BY <1>10, <2>1, <2>4 DEF NamesOf, FSOP_GETVOLNAME
  <1>11. NamesUnambiguous'
    <2> SUFFICES ASSUME NEW j \in DOMAIN knowndevs, NEW k \in DOMAIN knowndevs, j # k
                 PROVE  NamesOf(knowndevs'[j]) \intersect NamesOf(knowndevs'[k]) = {}
      BY <1>5 DEF NamesUnambiguous
    <2>1. NamesOf(knowndevs[j]) \intersect NamesOf(knowndevs[k]) = {}
      BY DEF VfsInv, NamesUnambiguous
    <2>2. CASE j = i
      BY <1>5, <1>9, <1>10, <2>1, <2>2
    <2>3. CASE k = i
      BY <1>5, <1>9, <1>10, <2>1, <2>3
    <2>4. CASE j # i /\ k # i
      BY <1>5, <2>1, <2>4
    <2> QED
      BY <2>2, <2>3, <2>4
  <1>12. RefsExact'
    BY <1>1, <1>5, HoldersSame DEF VfsInv, RefsExact
  <1>13. \A v \in Vnodes : Known(v) => Known(v)'
    BY <1>5, <1>14 DEF Known
  <1> QED
    BY <1>1, <1>7, <1>8, <1>11, <1>12, <1>13, TableStep

LEMMA DoaddKeeps ==
  ASSUME VfsInv, NEW a \in Attach, vfs_doadd(a)
  PROVE  VfsInv'
  <1> DEFINE i == Len(knowndevs) + 1
             rawname == IF a.mountable THEN mkrawname(a.name) ELSE NoName
             kd == [kd_name |-> a.name, kd_rawname |-> rawname, fs |-> a.hasfs, volname |-> NoName]
  <1>1. /\ i <= MaxDevs /\ ~badnames(a.name, rawname, NoName)
        /\ knowndevs' = Append(knowndevs, kd) /\ ref' = [ref EXCEPT ![DevOf(i)] = 1]
        /\ UNCHANGED <<open, p_cwd, bootfs_vnode, held, job>>
    BY DEF vfs_doadd
  <1>2. /\ knowndevs \in Seq(Entries) /\ DOMAIN knowndevs = 1..Len(knowndevs) /\ Len(knowndevs) \in Nat
        /\ i \in 1..MaxDevs /\ i \notin DOMAIN knowndevs /\ MaxDevs \in Nat
    BY <1>1, EntriesAre, VnodesAre
  <1>3. kd \in Entries
    BY VfsAssumption DEF Entries
  <1>4. /\ kd.kd_name = a.name /\ kd.kd_rawname = rawname /\ kd.fs = a.hasfs /\ kd.volname = NoName
        /\ NamesOf(kd) = {a.name, rawname} \ {NoName}
    BY DEF NamesOf, FSOP_GETVOLNAME
  <1> HIDE DEF kd
  <1>5. /\ knowndevs' \in Seq(Entries) /\ Len(knowndevs') = i /\ DOMAIN knowndevs' = 1..i
        /\ knowndevs'[i] = kd /\ \A j \in DOMAIN knowndevs : knowndevs'[j] = knowndevs[j]
        /\ \A j \in DOMAIN knowndevs' : j = i \/ j \in DOMAIN knowndevs
    BY <1>1, <1>2, <1>3
  <1> HIDE DEF i, rawname
  <1>6. VfsTypes'
    <2>3. ref \in [Vnodes -> Int]
      BY DEF VfsInv, VfsTypes
    <2>4. ref' = [ref EXCEPT ![DevOf(i)] = 1]
      BY <1>1
    <2>1. ref' \in [Vnodes -> Int]
      BY <1>2, <2>3, <2>4, FirstRef, VnodesAre
    <2>2. Len(knowndevs') <= MaxDevs
      BY <1>2, <1>5
    <2> QED
      BY <1>1, <1>5, <2>1, <2>2 DEF VfsInv, VfsTypes, Entries
  <1>7. EntriesExact'
    <2> SUFFICES ASSUME NEW j \in DOMAIN knowndevs'
                 PROVE  \E b \in Attach :
                           /\ knowndevs'[j].kd_name = b.name
                           /\ knowndevs'[j].kd_rawname = IF b.mountable THEN mkrawname(b.name) ELSE NoName
                           /\ knowndevs'[j].volname \in {NoName, Label[b.name]}
                           /\ (knowndevs'[j].volname # NoName => b.mountable)
      BY DEF EntriesExact
    <2>1. CASE j = i
      BY <1>4, <1>5, <2>1 DEF rawname
    <2>2. CASE j \in DOMAIN knowndevs
      BY <1>5, <2>2 DEF VfsInv, EntriesExact
    <2> QED
      BY <1>5, <2>1, <2>2
  <1>8. \A j \in DOMAIN knowndevs : NamesOf(kd) \intersect NamesOf(knowndevs[j]) = {}
    BY <1>1, <1>4 DEF badnames, samestring
  <1>9. NamesUnambiguous'
    <2> SUFFICES ASSUME NEW j \in DOMAIN knowndevs', NEW k \in DOMAIN knowndevs', j # k
                 PROVE  NamesOf(knowndevs'[j]) \intersect NamesOf(knowndevs'[k]) = {}
      BY DEF NamesUnambiguous
    <2>1. CASE j = i
      BY <1>5, <1>8, <2>1
    <2>2. CASE k = i
      BY <1>5, <1>8, <2>2
    <2>3. CASE j \in DOMAIN knowndevs /\ k \in DOMAIN knowndevs
      BY <1>5, <2>3 DEF VfsInv, NamesUnambiguous
    <2> QED
      BY <1>5, <2>1, <2>2, <2>3
  <1>10. RefsExact'
    <2>1. ~Known(DevOf(i))
      BY <1>2, VnodesAre DEF Known
    <2>2. Holders(DevOf(i)) = 0
      BY <1>2, <2>1, NobodyHas, VnodesAre
    <2>3. \A v : Holders(v)' = Holders(v)
      BY <1>1, HoldersSame
    <2> SUFFICES ASSUME NEW j \in 1..MaxDevs
                 PROVE  /\ ref'[RootOf(j)] = Holders(RootOf(j))
                        /\ ref'[DevOf(j)] = Holders(DevOf(j)) + (IF j \in DOMAIN knowndevs' THEN 1 ELSE 0)
      BY <2>3 DEF RefsExact
    <2>4. /\ ref[RootOf(j)] = Holders(RootOf(j))
          /\ ref[DevOf(j)] = Holders(DevOf(j)) + (IF j \in DOMAIN knowndevs THEN 1 ELSE 0)
      BY DEF VfsInv, RefsExact
    <2>5. ref \in [Vnodes -> Int] /\ RootOf(j) \in Vnodes /\ DevOf(j) \in Vnodes /\ DevOf(i) \in Vnodes
      BY <1>2, VnodesAre DEF VfsInv, VfsTypes
    <2>6. ref'[RootOf(j)] = ref[RootOf(j)] /\ ref'[DevOf(j)] = IF j = i THEN 1 ELSE ref[DevOf(j)]
      BY <1>1, <2>5, VnodesAre
    <2>7. j # i => (j \in DOMAIN knowndevs' <=> j \in DOMAIN knowndevs)
      BY <1>2, <1>5 DEF i
    <2>8. i \in DOMAIN knowndevs'
      BY <1>2, <1>5
    <2> QED
      BY <2>2, <2>4, <2>6, <2>7, <2>8
  <1>11. \A v \in Vnodes : Known(v) => Known(v)'
    BY <1>2, <1>5 DEF Known, i
  <1> QED
    BY <1>1, <1>6, <1>7, <1>9, <1>10, <1>11, TableStep

-----------------------------------------------------------------------------
(* The theorem *)

LEMMA VfsInitial == VfsInit => VfsInv
  <1> SUFFICES ASSUME VfsInit
               PROVE  VfsInv
    OBVIOUS
  <1>1. /\ knowndevs = <<>> /\ ref = [v \in Vnodes |-> 0] /\ p_cwd = [p \in Proc |-> NoVnode]
        /\ bootfs_vnode = NoVnode /\ held = [p \in Proc |-> NoVnode] /\ job = [p \in Proc |-> NoJob]
    BY DEF VfsInit
  <1>2. NoJob.todo = <<>> /\ NoJob.vn = NoVnode /\ NoJob.old = NoVnode
    BY DEF NoJob
  <1>3. VfsTypes
    <2>1. NoJob \in [todo : Steps, vn : Vnodes \union {NoVnode}, old : Vnodes \union {NoVnode}]
      BY DEF NoJob, Steps
    <2>2. knowndevs \in Seq(Entries) /\ Len(knowndevs) = 0
      BY <1>1
    <2> QED
      BY <1>1, <2>1, <2>2, VnodesAre DEF VfsTypes, Entries
  <1>4. DOMAIN knowndevs = {}
    BY <1>1
  <1>5. EntriesExact /\ NamesUnambiguous
    BY <1>4 DEF EntriesExact, NamesUnambiguous
  <1>6. VnodesKnown
    BY <1>1, <1>2 DEF VnodesKnown, Directory
  <1>7. \A p \in Proc : JobExact(p)
    <2> TAKE p \in Proc
    <2>1. job[p] = NoJob /\ NoJob.todo = <<>>
      BY <1>1, <1>2
    <2> QED
      BY <2>1 DEF JobExact, Steps
  <1>8. RefsExact
    <2> SUFFICES ASSUME NEW i \in 1..MaxDevs
                 PROVE  ref[RootOf(i)] = Holders(RootOf(i)) /\ ref[DevOf(i)] = Holders(DevOf(i))
      BY <1>4, HoldersIs DEF RefsExact
    <2>1. RootOf(i) \in Vnodes /\ DevOf(i) \in Vnodes /\ NoVnode \notin Vnodes
      BY VnodesAre
    <2>2. \A p \in Proc : \A v \in Vnodes : Has(p, v) = 0
      BY <1>1, <1>2, <2>1 DEF Has, Is
    <2>3. \A v \in Vnodes : Holders(v) = 0
      BY <1>1, <2>1, <2>2, HoldersIs
    <2> QED
      BY <1>1, <2>1, <2>3
  <1> QED
    BY <1>3, <1>5, <1>6, <1>7, <1>8 DEF VfsInv

LEMMA VfsInvSound == VfsInv => VfsSound
  <1> SUFFICES ASSUME VfsInv
               PROVE  VfsSound
    OBVIOUS
  <1>1. \A i \in DOMAIN knowndevs : i \in 1..MaxDevs
    BY EntriesAre, VnodesAre DEF VfsInv, VfsTypes
  <1>2. CountsExact
    BY <1>1 DEF VfsInv, RefsExact, CountsExact
  <1>3. ASSUME NEW i \in DOMAIN knowndevs, ref[RootOf(i)] > 0
        PROVE  knowndevs[i].fs
    <2>1. Holders(RootOf(i)) # 0
      BY <1>1, <1>3 DEF VfsInv, RefsExact
    <2>2. Known(RootOf(i))
      BY <1>1, <2>1, NobodyHas, VnodesAre
    <2> QED
      BY <2>2, VnodesAre DEF Known
  <1>4. \A i \in DOMAIN knowndevs : \A p \in Proc : p_cwd[p] # DevOf(i) /\ bootfs_vnode # DevOf(i)
    BY VnodesAre DEF VfsInv, VnodesKnown, Directory
  <1> QED
    BY <1>2, <1>3, <1>4 DEF VfsSound, VfsInv

\* References are exact, no file system is unmounted under a current directory,
\* an open file or a call in progress, current directories are directories and
\* names stand for one thing (kern/vfs), however many processes and devices
\* there are and however their calls interleave.
THEOREM VfsSoundThm == VfsSpec => []VfsSound
  <1>1. VfsInv /\ [VfsNext]_vfsVars => VfsInv'
    <2> SUFFICES ASSUME VfsInv, [VfsNext]_vfsVars
                 PROVE  VfsInv'
      OBVIOUS
    <2>1. CASE \E a \in Attach : vfs_doadd(a)
      BY <2>1, DoaddKeeps
    <2>2. CASE \E i \in DOMAIN knowndevs : vfs_mount(i)
      BY <2>2, MountKeeps
    <2>3. CASE (\E i \in DOMAIN knowndevs : vfs_unmount(i)) \/ vfs_unmountall
      BY <2>3, UnmountsKeep
    <2>4. CASE vfs_clearbootfs
      BY <2>4, ClearbootfsKeeps
    <2>5. CASE \E p \in Proc : VfsChdir(p) \/ VfsOpen(p) \/ VfsMkdir(p) \/ VfsReadlink(p) \/ VfsGetcwd(p)
      BY <2>5, LookupsKeep
    <2>6. CASE \E p \in Proc : VfsClose(p)
      BY <2>6, CloseKeeps
    <2>7. CASE \E p \in Proc : vfs_clearcurdir(p)
      BY <2>7, ClearKeeps
    <2>8. CASE \E p \in Proc : VfsContinue(p)
      BY <2>8, ContinueKeeps
    <2>9. CASE \E p \in Proc : \E n : vfs_setbootfs(p, n)
      BY <2>9, SetbootfsKeeps
    <2>10. CASE UNCHANGED vfsVars
      <3>1. UNCHANGED <<knowndevs, ref, p_cwd, bootfs_vnode, held, job>>
        BY <2>10 DEF vfsVars
      <3>4. VfsTypes'
        BY <3>1 DEF VfsInv, VfsTypes
      <3>5. EntriesExact' /\ NamesUnambiguous'
        BY <3>1 DEF VfsInv, EntriesExact, NamesUnambiguous, NamesOf, FSOP_GETVOLNAME
      <3>2. VfsTypes' /\ EntriesExact' /\ NamesUnambiguous' /\ RefsExact'
        BY <3>1, <3>4, <3>5, HoldersSame DEF VfsInv, RefsExact
      <3>3. \A v \in Vnodes : Known(v) => Known(v)'
        BY <3>1 DEF Known
      <3> QED
        BY <3>1, <3>2, <3>3, TableStep
    <2> QED
      BY <2>1, <2>2, <2>3, <2>4, <2>5, <2>6, <2>7, <2>8, <2>9, <2>10 DEF VfsNext
  <1> QED
    BY <1>1, VfsInitial, VfsInvSound, PTL DEF VfsSpec
=============================================================================
