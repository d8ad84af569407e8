--------------------------------- MODULE Vfs ---------------------------------
(***************************************************************************)
(* The VFS layer of kern/vfs: the table of known devices and the file       *)
(* systems on them, names and how they are looked up, reference counts, the *)
(* current directories and the boot file system.                            *)
(*                                                                         *)
(* A name is a sequence of words, so that a raw name is made from a device  *)
(* name by adding one; the empty sequence is NULL.  The file systems have   *)
(* one vnode, the root; Sfs has the others.  Everything a call does under   *)
(* vfs_biglock is one step; the steps of a call interleave with those of    *)
(* other processes.  A process has one thread here.                         *)
(***************************************************************************)
EXTENDS Integers, Sequences, FiniteSets, FiniteSetsExt

CONSTANTS
    Proc,           \* processes with a current directory
    Attach,         \* the devices that are probed: name, mountable, hasfs
    Label           \* the volume name on each mountable device

VARIABLES
    knowndevs,      \* the device table
    ref, open,      \* vn_refcount and vn_opencount of every vnode
    p_cwd, bootfs_vnode,
    held,           \* the vnode each process has open
    job             \* what is left of each process's call, and its vnodes

vfsVars == <<knowndevs, ref, open, p_cwd, bootfs_vnode, held, job>>

NoName == <<>>
mkrawname(n) == n \o <<"raw">>

ASSUME VfsAssumption ==
    /\ IsFiniteSet(Proc) /\ Proc # {} /\ IsFiniteSet(Attach)
    /\ \A a \in Attach : a.name \in Seq(STRING) \ {NoName} /\ a.mountable \in BOOLEAN /\ a.hasfs \in BOOLEAN

\* The volumes' own names differ from each other and from the names of other
\* devices: vfs_mount does not look.
ASSUME LabelsDiffer ==
    \A a, b \in Attach : a.mountable /\ a.name # b.name /\ Label[a.name] # NoName =>
        /\ Label[a.name] \notin {b.name, mkrawname(b.name)}
        /\ b.mountable => Label[a.name] # Label[b.name]

\* Vnodes, by place in the table: the root of the file system and the device.
MaxDevs == Cardinality(Attach)
NoVnode == <<"none", 0>>
RootOf(i) == <<"root", i>>
DevOf(i) == <<"dev", i>>
Vnodes == {RootOf(i) : i \in 1..MaxDevs} \union {DevOf(i) : i \in 1..MaxDevs}
IsRoot(v) == v[1] = "root"

NoJob == [todo |-> <<>>, vn |-> NoVnode, old |-> NoVnode]

\* vfs_bootstrap, without null:, which is one of Attach.
VfsInit ==
    /\ knowndevs = <<>>
    /\ ref = [v \in Vnodes |-> 0] /\ open = [v \in Vnodes |-> 0]
    /\ p_cwd = [p \in Proc |-> NoVnode] /\ bootfs_vnode = NoVnode
    /\ held = [p \in Proc |-> NoVnode]
    /\ job = [p \in Proc |-> NoJob]

-----------------------------------------------------------------------------
(* Reference counts *)

vn_incref(r, v) == [r EXCEPT ![v] = @ + 1]

\* At the last reference the file system forgets its root; dev_reclaim does
\* nothing, so a device keeps its last reference.
vn_decref(r, v) ==
    IF v = NoVnode \/ (r[v] = 1 /\ ~IsRoot(v)) THEN r ELSE [r EXCEPT ![v] = @ - 1]

-----------------------------------------------------------------------------
(* Names *)

samestring(a, b) == a # NoName /\ a = b

\* The names of an entry: the device's, the raw device's, the volume's.
FSOP_GETVOLNAME(kd) == IF kd.fs THEN kd.volname ELSE NoName
NamesOf(kd) == {kd.kd_name, kd.kd_rawname, FSOP_GETVOLNAME(kd)} \ {NoName}

badnames(n1, n2, n3) ==
    \E i \in DOMAIN knowndevs : \E n \in NamesOf(knowndevs[i]) :
        samestring(n, n1) \/ samestring(n, n2) \/ samestring(n, n3)

\* The vnode a device name stands for, with a new reference, or NoVnode.  The
\* first entry that has the name counts.  A mountable device with nothing
\* mounted is ENXIO.
vfs_getroot(n) ==
    LET has == {i \in DOMAIN knowndevs : n \in NamesOf(knowndevs[i])}
        i == Min(has)
        kd == knowndevs[i]
    IN  IF has = {} THEN NoVnode
        ELSE IF kd.fs /\ n # kd.kd_rawname THEN RootOf(i)
        ELSE IF n = kd.kd_name /\ kd.kd_rawname # NoName THEN NoVnode
        ELSE DevOf(i)

\* A path is relative, or starts with a device, a slash or a colon.
Paths ==
    [kind : {"relative", "slash", "colon"}, dev : {NoName}]
        \union [kind : {"device"}, dev : UNION {{a.name, mkrawname(a.name), Label[a.name]} : a \in Attach}]

vfs_getcurdir(p) == p_cwd[p]

\* getdevice: the vnode the path starts from, NoVnode for an error.  ":" is the
\* root of the current file system, "/" the boot file system.
getdevice(p, path) ==
    CASE path.kind = "relative" -> vfs_getcurdir(p)
      [] path.kind = "device" -> vfs_getroot(path.dev)
      [] path.kind = "slash" -> bootfs_vnode
      [] path.kind = "colon" -> vfs_getcurdir(p)

-----------------------------------------------------------------------------
(* The device table *)

\* vfs_doadd: vfs_adddev and vfs_addfs.
vfs_doadd(a) ==
    LET rawname == IF a.mountable THEN mkrawname(a.name) ELSE NoName
        i == Len(knowndevs) + 1
    IN  /\ i <= MaxDevs
        /\ ~badnames(a.name, rawname, NoName)
        /\ knowndevs' = Append(knowndevs, [kd_name |-> a.name, kd_rawname |-> rawname,
                                           fs |-> a.hasfs, volname |-> NoName])
        /\ ref' = [ref EXCEPT ![DevOf(i)] = 1]
        /\ UNCHANGED <<open, p_cwd, bootfs_vnode, held, job>>

IsMountable(i) == knowndevs[i].kd_rawname # NoName

vfs_mount(i) ==
    /\ IsMountable(i) /\ ~knowndevs[i].fs
    /\ knowndevs' = [knowndevs EXCEPT ![i].fs = TRUE, ![i].volname = Label[knowndevs[i].kd_name]]
    /\ UNCHANGED <<ref, open, p_cwd, bootfs_vnode, held, job>>

Dropped(kd) == [kd EXCEPT !.fs = FALSE, !.volname = NoName]

\* FSOP_UNMOUNT: EBUSY while the file system has vnodes in memory.
\* Mutant: open files count, other references do not.
FSOP_UNMOUNT_opens(i) == open[RootOf(i)] = 0
FSOP_UNMOUNT(i) == ref[RootOf(i)] = 0

vfs_unmount(i) ==
    /\ IsMountable(i) /\ knowndevs[i].fs
    /\ FSOP_UNMOUNT(i)
    /\ knowndevs' = [knowndevs EXCEPT ![i] = Dropped(@)]
    /\ UNCHANGED <<ref, open, p_cwd, bootfs_vnode, held, job>>

\* Those whose sync fails twice, and the busy ones, stay.
vfs_unmountall ==
    \E failing \in SUBSET DOMAIN knowndevs :
        /\ knowndevs' = [i \in DOMAIN knowndevs |->
               IF IsMountable(i) /\ knowndevs[i].fs /\ i \notin failing /\ FSOP_UNMOUNT(i)
                 THEN Dropped(knowndevs[i]) ELSE knowndevs[i]]
        /\ UNCHANGED <<ref, open, p_cwd, bootfs_vnode, held, job>>

-----------------------------------------------------------------------------
(* Current directories and opening, step by step *)

\* vfs_lookup of a path without a file part.
vfs_lookup(p, todo) ==
    \E path \in Paths :
        LET vn == getdevice(p, path)
        IN  /\ vn # NoVnode
            /\ ref' = vn_incref(ref, vn)
            /\ job' = [job EXCEPT ![p] = [NoJob EXCEPT !.todo = todo, !.vn = vn]]
            /\ UNCHANGED <<knowndevs, open, p_cwd, bootfs_vnode, held>>

\* vfs_lookparent of a path with one component: the root that it starts from.
vfs_lookparent(p, todo) ==
    \E path \in Paths :
        LET vn == getdevice(p, path)
        IN  /\ vn # NoVnode /\ IsRoot(vn)
            /\ ref' = vn_incref(ref, vn)
            /\ job' = [job EXCEPT ![p] = [NoJob EXCEPT !.todo = todo, !.vn = vn]]
            /\ UNCHANGED <<knowndevs, open, p_cwd, bootfs_vnode, held>>

\* The operations that SFS refuses: vfs_mkdir, vfs_rmdir and vfs_symlink, and
\* vfs_readlink.  What the lookup returned is given up, whatever the answer.
VfsMkdir(p) == job[p] = NoJob /\ vfs_lookparent(p, <<"dropvn">>)
VfsReadlink(p) == job[p] = NoJob /\ vfs_lookup(p, <<"dropvn">>)

VfsChdir(p) == job[p] = NoJob /\ vfs_lookup(p, <<"setcurdir", "dropold", "dropvn">>)
VfsOpen(p) == job[p] = NoJob /\ held[p] = NoVnode /\ vfs_lookup(p, <<"incopen">>)

\* vfs_getcwd and vfs_getcurdir.
VfsGetcwd(p) ==
    /\ job[p] = NoJob /\ p_cwd[p] # NoVnode
    /\ ref' = vn_incref(ref, p_cwd[p])
    /\ job' = [job EXCEPT ![p] = [NoJob EXCEPT !.todo = <<"dropvn">>, !.vn = p_cwd[p]]]
    /\ UNCHANGED <<knowndevs, open, p_cwd, bootfs_vnode, held>>

VfsClose(p) ==
    /\ job[p] = NoJob /\ held[p] # NoVnode
    /\ open' = [open EXCEPT ![held[p]] = @ - 1]
    /\ job' = [job EXCEPT ![p] = [NoJob EXCEPT !.todo = <<"dropvn">>, !.vn = held[p]]]
    /\ held' = [held EXCEPT ![p] = NoVnode]
    /\ UNCHANGED <<knowndevs, ref, p_cwd, bootfs_vnode>>

vfs_clearcurdir(p) ==
    /\ job[p] = NoJob /\ p_cwd[p] # NoVnode
    /\ job' = [job EXCEPT ![p] = [NoJob EXCEPT !.todo = <<"dropold">>, !.old = p_cwd[p]]]
    /\ p_cwd' = [p_cwd EXCEPT ![p] = NoVnode]
    /\ UNCHANGED <<knowndevs, ref, open, bootfs_vnode, held>>

\* VOP_INCREF of the new directory, and the swap under p_lock; a device is
\* ENOTDIR.
vfs_setcurdir(p) ==
    LET vn == job[p].vn
    IN  IF IsRoot(vn)
          THEN /\ ref' = vn_incref(ref, vn)
               /\ p_cwd' = [p_cwd EXCEPT ![p] = vn]
               /\ job' = [job EXCEPT ![p].todo = Tail(@), ![p].old = p_cwd[p]]
          ELSE /\ job' = [job EXCEPT ![p].todo = <<"dropvn">>]
               /\ UNCHANGED <<ref, p_cwd>>

VfsFinish(p, v) ==
    /\ ref' = vn_decref(ref, v)
    /\ job' = [job EXCEPT ![p] = IF Len(@.todo) = 1 THEN NoJob
                                 ELSE [@ EXCEPT !.todo = Tail(job[p].todo), !.old = NoVnode]]

VfsContinue(p) ==
    /\ job[p] # NoJob
    /\ \/ Head(job[p].todo) = "setcurdir" /\ vfs_setcurdir(p) /\ UNCHANGED <<open, held>>
       \/ Head(job[p].todo) = "dropold" /\ VfsFinish(p, job[p].old) /\ UNCHANGED <<open, held, p_cwd>>
       \/ Head(job[p].todo) = "dropvn" /\ VfsFinish(p, job[p].vn) /\ UNCHANGED <<open, held, p_cwd>>
       \/ /\ Head(job[p].todo) = "incopen"
          /\ open' = [open EXCEPT ![job[p].vn] = @ + 1]
          /\ held' = [held EXCEPT ![p] = job[p].vn]
          /\ job' = [job EXCEPT ![p] = NoJob]
          /\ UNCHANGED <<ref, p_cwd>>
    /\ UNCHANGED <<knowndevs, bootfs_vnode>>

\* vfs_setbootfs: the whole of it, chdir included, under the lock.  A name with
\* a colon in it is EINVAL wherever the colon is.
vfs_setbootfs(p, n) ==
    LET vn == vfs_getroot(n)
        r == vn_decref(vn_incref(vn_incref(ref, vn), vn), p_cwd[p])
    IN  /\ job[p] = NoJob /\ vn # NoVnode /\ IsRoot(vn)
        /\ p_cwd' = [p_cwd EXCEPT ![p] = vn]
        /\ bootfs_vnode' = vn
        /\ ref' = vn_decref(r, bootfs_vnode)
        /\ UNCHANGED <<knowndevs, open, held, job>>

vfs_clearbootfs ==
    /\ bootfs_vnode # NoVnode
    /\ ref' = vn_decref(ref, bootfs_vnode)
    /\ bootfs_vnode' = NoVnode
    /\ UNCHANGED <<knowndevs, open, p_cwd, held, job>>

VfsNext ==
    \/ \E a \in Attach : vfs_doadd(a)
    \/ \E i \in DOMAIN knowndevs : vfs_mount(i) \/ vfs_unmount(i)
    \/ vfs_unmountall \/ vfs_clearbootfs
    \/ \E p \in Proc :
         \/ VfsChdir(p) \/ VfsOpen(p) \/ VfsGetcwd(p) \/ VfsClose(p) \/ vfs_clearcurdir(p) \/ VfsContinue(p)
         \/ VfsMkdir(p) \/ VfsReadlink(p)
         \/ \E a \in Attach : \E n \in {a.name, Label[a.name]} : vfs_setbootfs(p, n)

VfsSpec == VfsInit /\ [][VfsNext]_vfsVars

-----------------------------------------------------------------------------
(* Properties *)

Holders(v) ==
    Cardinality({p \in Proc : p_cwd[p] = v}) + Cardinality({p \in Proc : held[p] = v})
    + Cardinality({p \in Proc : job[p].vn = v}) + Cardinality({p \in Proc : job[p].old = v})
    + (IF bootfs_vnode = v THEN 1 ELSE 0)

\* Every vnode somebody has is counted once for each of them.
CountsExact ==
    \A i \in DOMAIN knowndevs :
        ref[RootOf(i)] = Holders(RootOf(i)) /\ ref[DevOf(i)] = Holders(DevOf(i)) + 1

\* No device, raw device or mounted volume shares its name with another.
NamesUnambiguous ==
    \A i, j \in DOMAIN knowndevs : i # j => NamesOf(knowndevs[i]) \intersect NamesOf(knowndevs[j]) = {}

\* A file system is never unmounted under a current directory, an open file or
\* a call in progress, whoever interleaves with the unmount (vnode.c, vfscwd.c,
\* vfs_unmount); a current directory is a directory (the assertions of
\* getdevice and vfs_getcwd); and a name stands for one thing (badnames), as
\* long as the volumes' own names differ.
VfsSound ==
    /\ CountsExact /\ NamesUnambiguous
    /\ \A i \in DOMAIN knowndevs :
          /\ ref[RootOf(i)] > 0 => knowndevs[i].fs
          /\ \A p \in Proc : p_cwd[p] # DevOf(i) /\ bootfs_vnode # DevOf(i)
=============================================================================
