--------------------------------- MODULE Sfs ---------------------------------
(***************************************************************************)
(* The SFS file system of kern/fs/sfs, entered through the path operations  *)
(* of kern/vfs/vfspath.c: open, close, write, truncate, link, remove,       *)
(* rename, sync, mount and unmount of one volume whose only directory is    *)
(* its root.                                                                *)
(*                                                                         *)
(* Every vnode operation runs under vfs_biglock from end to end, so it is   *)
(* one step; an operation on a path is several, between which other users   *)
(* of the volume run.  Inside a step the code is followed call by call on a *)
(* store: a record of the disk, the in-memory state, the error so far and   *)
(* what will go wrong.  Two things can: a block read fails for good (fault  *)
(* "eio"), or the machine stops after some number of block writes (fault    *)
(* "crash"); the fault strikes when `fuel' runs out.  Block writes report   *)
(* no errors: see sfs_rwblock in Disk.                                      *)
(***************************************************************************)
EXTENDS SfsDisk, Sfsck

CONSTANTS
    Name,           \* file names
    User,           \* users of the volume, each with at most one file open
    Extents,        \* the <<offset, length>> that are written
    MaxOps,         \* bound: path operations, writes, syncs and unmounts in a run
    MaxFaults,      \* bound: crashes and read errors in a run
    MaxFuel         \* bound: block reads or writes before a fault

VARIABLES
    disk,           \* the volume
    sfs_freemap, sfs_freemapdirty,
    sfs_vnodes,     \* the loaded inodes: sv_i, sv_dirty and the vnode's counts
    status,         \* "mounted", "off", "down" (crashed), "checked", "panic"
    op,             \* what is left of each user's operation, and its file
    opened,         \* the inode each user has open, or 0
    badness,        \* sfsck's last verdict
    spoiled,        \* a volume was mounted that sfsck had left Spoiled (history)
    content,        \* what a reader of each inode must find (history)
    durable,        \* the files as last synced, unless touched since (history)
    ops, faults     \* operations and faults so far

sfsVars == <<disk, sfs_freemap, sfs_freemapdirty, sfs_vnodes, status, op, opened,
             badness, spoiled, content, durable, ops, faults>>

Idle == [todo |-> <<>>, vn |-> 0, name |-> "", name2 |-> "", excl |-> FALSE]

SfsInit ==
    /\ disk = mksfs
    /\ sfs_freemap = {} /\ sfs_freemapdirty = FALSE /\ sfs_vnodes = <<>>
    /\ status = "off"
    /\ op = [h \in User |-> Idle] /\ opened = [h \in User |-> 0]
    /\ badness = EXIT_CLEAN /\ spoiled = FALSE
    /\ content = [b \in Block |-> <<>>] /\ durable = <<>>
    /\ ops = 0 /\ faults = 0

-----------------------------------------------------------------------------
(* The store *)

Store(fault, fuel) ==
    [disk |-> disk, map |-> sfs_freemap, mapdirty |-> sfs_freemapdirty, vn |-> sfs_vnodes,
     err |-> "ok", fault |-> fault, fuel |-> fuel,
     ret |-> 0,             \* what the last call handed back
     off |-> 0]             \* uio_offset

\* if (result) return result
Then(t, Op(_)) == IF t.err = "ok" THEN Op(t) ELSE t
Fail(t, e) == [t EXCEPT !.err = e]
Return(t, x) == [t EXCEPT !.ret = x]
KASSERT(t, ok) == IF ok THEN t ELSE Fail(t, "panic")

\* A call made whatever happened before, whose error is printed and dropped;
\* nothing is called in a machine that has stopped.
Stopped(t) == t.err \in {"panic", "halt"}
Ignoring(t, Op(_)) ==
    LET u == Op([t EXCEPT !.err = "ok"])
    IN  IF Stopped(t) THEN t ELSE IF Stopped(u) THEN u ELSE [u EXCEPT !.err = t.err]

inode(t, ino) == t.vn[ino].sv_i
Dirtied(t, ino, i) == [t EXCEPT !.vn[ino].sv_i = i, !.vn[ino].sv_dirty = TRUE]

sfs_rblock(t) ==
    IF t.fault # "eio" THEN t
    ELSE IF t.fuel = 0 THEN [t EXCEPT !.err = "EIO", !.fault = "none"]
    ELSE [t EXCEPT !.fuel = @ - 1]

sfs_wblock(t, b, c) ==
    IF t.fault # "crash" THEN [t EXCEPT !.disk[b] = c]
    ELSE IF t.fuel = 0 THEN Fail(t, "halt")
    ELSE [t EXCEPT !.disk[b] = c, !.fuel = @ - 1]

-----------------------------------------------------------------------------
(* Space allocation *)

\* Mutant: the block is not cleared before it is handed out.
sfs_balloc_stale(t) ==
    LET free == Block \ t.map
    IN  IF free = {} THEN Fail(t, "ENOSPC")
        ELSE Return([t EXCEPT !.map = @ \union {Min(free)}, !.mapdirty = TRUE], Min(free))

sfs_balloc(t) ==
    LET free == Block \ t.map
    IN  IF free = {} THEN Fail(t, "ENOSPC")
        ELSE Return(sfs_wblock([t EXCEPT !.map = @ \union {Min(free)}, !.mapdirty = TRUE],
                               Min(free), Zeros),
                    Min(free))

\* bitmap_unmark asserts that the bit is set.
sfs_bfree(t, b) ==
    Then(KASSERT(t, b \in t.map), LAMBDA u : [u EXCEPT !.map = @ \ {b}, !.mapdirty = TRUE])

sfs_sync_inode(t, ino) ==
    IF t.vn[ino].sv_dirty
      THEN [sfs_wblock(t, ino, InodeBlock(inode(t, ino))) EXCEPT !.vn[ino].sv_dirty = FALSE]
      ELSE t

-----------------------------------------------------------------------------
(* Block mapping *)

HandBack(t, b) == Return(KASSERT(t, b # 0 => b \in t.map), b)

BmapDirect(t, ino, fb, doalloc) ==
    LET b == inode(t, ino).sfi_direct[fb + 1]
    IN  IF b = 0 /\ doalloc
          THEN Then(sfs_balloc(t), LAMBDA u :
                    Dirtied(u, ino, [inode(u, ino) EXCEPT !.sfi_direct[fb + 1] = u.ret]))
          ELSE HandBack(t, b)

\* Get the indirect block, allocated or read.
LoadIndirect(t, ino) ==
    LET id == inode(t, ino).sfi_indirect
    IN  IF id = 0
          THEN Then(sfs_balloc(t), LAMBDA u :
                    Dirtied(u, ino, [inode(u, ino) EXCEPT !.sfi_indirect = u.ret]))
          ELSE Return(sfs_rblock(t), id)

BmapIndirect(t, ino, idoff, doalloc) ==
    IF inode(t, ino).sfi_indirect = 0 /\ ~doalloc THEN Return(t, 0)
    ELSE Then(LoadIndirect(t, ino), LAMBDA u :
           LET id == u.ret
               entries == AsIndirect(u.disk[id])
           IN  IF entries[idoff + 1] = 0 /\ doalloc
                 THEN Then(sfs_balloc(u), LAMBDA w :
                        sfs_wblock(w, id, IndirectBlock([entries EXCEPT ![idoff + 1] = w.ret])))
                 ELSE HandBack(u, entries[idoff + 1]))

sfs_bmap(t, ino, fb, doalloc) ==
    IF fb < SFS_NDIRECT THEN BmapDirect(t, ino, fb, doalloc)
    ELSE IF fb - SFS_NDIRECT >= SFS_DBPERIDB THEN Fail(t, "EFBIG")
    ELSE BmapIndirect(t, ino, fb - SFS_NDIRECT, doalloc)

-----------------------------------------------------------------------------
(* File I/O *)

\* sfs_partialio and sfs_blockio: write units to part of one block, which is
\* read first, or to all of it.
BlockWrite(t, ino, off, units) ==
    Then(sfs_bmap(t, ino, off \div PERBLOCK, TRUE), LAMBDA u :
    Then(IF Len(units) = PERBLOCK THEN u ELSE sfs_rblock(u), LAMBDA w :
        LET skip == off % PERBLOCK
            old == AsUnits(w.disk[w.ret])
            new == [i \in 1..PERBLOCK |-> IF i > skip /\ i <= skip + Len(units)
                                            THEN units[i - skip] ELSE old[i]]
        IN  [sfs_wblock(w, w.ret, UnitBlock(new)) EXCEPT !.off = off + Len(units)]))

\* "If writing, adjust file length", also after an error.
Extended(t, ino) ==
    IF t.off > inode(t, ino).sfi_size
      THEN Dirtied(t, ino, [inode(t, ino) EXCEPT !.sfi_size = t.off]) ELSE t

\* The writing half of sfs_io: a leading part of a block, whole blocks, a
\* trailing part.
sfs_io(t, ino, off, units) ==
    LET end == off + Len(units)
        lo(b) == IF off > b * PERBLOCK THEN off ELSE b * PERBLOCK
        hi(b) == IF end < (b + 1) * PERBLOCK THEN end ELSE (b + 1) * PERBLOCK
        first == off \div PERBLOCK
        blocks == [k \in 1..(BlocksOf(end) - first) |-> first + k - 1]
    IN  Extended(FoldLeft(LAMBDA acc, b : Then(acc, LAMBDA u :
                              BlockWrite(u, ino, lo(b), SubSeq(units, lo(b) - off + 1, hi(b) - off))),
                          [t EXCEPT !.off = off], blocks),
                 ino)

\* VOP_TRUNCATE.  Beyond has "<" where the direct
\* blocks have "<=", so block number blocklen of the file stays when it is indirect.
sfs_truncate(t, ino, len) ==
    LET blocklen == BlocksOf(len)
        i == inode(t, ino)
        direct == {k \in 1..SFS_NDIRECT : k - 1 >= blocklen /\ i.sfi_direct[k] # 0}
        id == i.sfi_indirect
        freed(u, S) == FoldLeft(LAMBDA acc, b : Then(acc, LAMBDA x : sfs_bfree(x, b)), u, SetToSeq(S))
        short == IF direct = {} THEN t
                 ELSE freed(Dirtied(t, ino, [i EXCEPT !.sfi_direct =
                                [k \in 1..SFS_NDIRECT |-> IF k \in direct THEN 0 ELSE @[k]]]),
                            {i.sfi_direct[k] : k \in direct})
        Indirect(u) ==
            LET old == AsIndirect(u.disk[id])
                Beyond == {k \in 1..SFS_DBPERIDB : blocklen < SFS_NDIRECT + k - 1 /\ old[k] # 0}
                new == [k \in 1..SFS_DBPERIDB |-> IF k \in Beyond THEN 0 ELSE old[k]]
                w == freed(u, {old[k] : k \in Beyond})
            IN  IF new = NoBlocks
                  THEN Then(sfs_bfree(w, id), LAMBDA x :
                            Dirtied(x, ino, [inode(x, ino) EXCEPT !.sfi_indirect = 0]))
                  ELSE IF Beyond = {} THEN w
                  ELSE sfs_wblock(w, id, IndirectBlock(new))
    IN  Then(IF blocklen < SFS_NDIRECT + SFS_DBPERIDB - 1 /\ id # 0
               THEN Then(sfs_rblock(short), Indirect) ELSE short,
             LAMBDA x : Dirtied(x, ino, [inode(x, ino) EXCEPT !.sfi_size = len]))

-----------------------------------------------------------------------------
(* The directory *)

\* One slot; a hole in the directory reads as zeros.
sfs_readdir(t, slot) ==
    Then(sfs_bmap(t, SFS_ROOT_LOCATION, slot \div PERBLOCK, FALSE), LAMBDA u :
        IF u.ret = 0 THEN Return(u, NoEntry)
        ELSE Return(sfs_rblock(u), AsUnits(u.disk[u.ret])[(slot % PERBLOCK) + 1]))

sfs_writedir(t, entry, slot) == sfs_io(t, SFS_ROOT_LOCATION, slot, <<entry>>)

\* The inode and slot of a name, 0 and -1 if there is none, and the last empty
\* slot on the way.
sfs_dir_findname(t, name) ==
    LET Slot(acc, k) ==
            LET seen == acc.ret
            IN  Then(Then(acc, LAMBDA u : sfs_readdir(u, k)), LAMBDA w :
                  IF w.ret.sfd_ino = SFS_NOINO THEN Return(w, [seen EXCEPT !.empty = k])
                  ELSE IF w.ret.sfd_name # name THEN Return(w, seen)
                  ELSE Return(KASSERT(w, seen.slot = -1),
                              [seen EXCEPT !.ino = w.ret.sfd_ino, !.slot = k]))
    IN  FoldLeft(Slot, Return(t, [ino |-> SFS_NOINO, slot |-> -1, empty |-> -1]),
                 [k \in 1..inode(t, SFS_ROOT_LOCATION).sfi_size |-> k - 1])

\* Hands back the slot.
sfs_dir_link(t, name, ino) ==
    Then(sfs_dir_findname(t, name), LAMBDA u :
        LET slot == IF u.ret.empty >= 0 THEN u.ret.empty
                    ELSE inode(u, SFS_ROOT_LOCATION).sfi_size
        IN  IF u.ret.slot >= 0 THEN Fail(u, "EEXIST")
            ELSE Return(sfs_writedir(u, [sfd_ino |-> ino, sfd_name |-> name], slot), slot))

sfs_dir_unlink(t, slot) == sfs_writedir(t, NoEntry, slot)

-----------------------------------------------------------------------------
(* Vnodes *)

\* An inode in memory: found, or read from its block.  Every loaded inode must
\* be in an allocated block.
sfs_loadvnode(t, ino, forcetype) ==
    IF ino \in DOMAIN t.vn
      THEN Return(KASSERT([t EXCEPT !.vn[ino].ref = @ + 1],
                         forcetype = "inval" /\ DOMAIN t.vn \subseteq t.map),
                  ino)
      ELSE Then(sfs_rblock(KASSERT(t, DOMAIN t.vn \union {ino} \subseteq t.map)), LAMBDA u :
             LET found == AsInode(u.disk[ino])
                 i == IF forcetype = "inval" THEN found ELSE [found EXCEPT !.sfi_type = forcetype]
             IN  Return(KASSERT([u EXCEPT !.vn = @ @@ (ino :> [sv_i |-> i, sv_dirty |-> i # found,
                                                              ref |-> 1, open |-> 0])],
                               /\ i.sfi_type # "inval"
                               /\ forcetype # "inval" => found.sfi_type = "inval"),
                        ino))

sfs_makeobj(t) == Then(sfs_balloc(t), LAMBDA u : sfs_loadvnode(u, u.ret, "file"))

\* Hands back the inode and the slot.
sfs_lookonce(t, name) ==
    Then(sfs_dir_findname(t, name), LAMBDA u :
        LET f == u.ret
        IN  IF f.slot < 0 THEN Fail(u, "ENOENT")
            ELSE Then(sfs_loadvnode(u, f.ino, "inval"), LAMBDA w :
                      Return(KASSERT(w, inode(w, f.ino).sfi_linkcount # 0), f)))

\* Mutant: the inode of a file without links is not freed.
sfs_reclaim_leaks(t, ino) ==
    Then(sfs_sync_inode(IF inode(t, ino).sfi_linkcount = 0 THEN sfs_truncate(t, ino, 0) ELSE t, ino),
         LAMBDA u : [u EXCEPT !.vn = [v \in DOMAIN @ \ {ino} |-> @[v]]])

\* The last reference goes.  The file goes with it if it has no links; an error
\* leaves the vnode in the table with a reference nobody has.
sfs_reclaim(t, ino) ==
    LET gone == inode(t, ino).sfi_linkcount = 0
    IN  Then(IF gone THEN sfs_truncate(t, ino, 0) ELSE t, LAMBDA u :
        Then(sfs_sync_inode(u, ino), LAMBDA w :
        Then(IF gone THEN sfs_bfree(w, ino) ELSE w, LAMBDA x :
             [KASSERT(x, x.vn[ino].ref = 1 /\ x.vn[ino].open = 0)
                EXCEPT !.vn = [v \in DOMAIN @ \ {ino} |-> @[v]]])))

vnode_decref(t, ino) ==
    Ignoring(t, LAMBDA u : IF u.vn[ino].ref > 1 THEN [u EXCEPT !.vn[ino].ref = @ - 1]
                           ELSE sfs_reclaim(u, ino))

vnode_incopen(t, ino) == [t EXCEPT !.vn[ino].open = @ + 1]

\* The last close syncs the inode.
vnode_decopen(t, ino) ==
    LET u == [t EXCEPT !.vn[ino].open = @ - 1]
    IN  IF u.vn[ino].open > 0 THEN u
        ELSE Ignoring(KASSERT(u, u.vn[ino].open = 0), LAMBDA w : sfs_sync_inode(w, ino))

\* An error here stops the machine.
sfs_getroot(t) ==
    LET u == sfs_loadvnode(t, SFS_ROOT_LOCATION, "inval")
    IN  IF u.err = "EIO" THEN Fail(u, "halt") ELSE u

AddLinks(t, ino, n) ==
    Dirtied(KASSERT(t, inode(t, ino).sfi_linkcount + n >= 0), ino,
            [inode(t, ino) EXCEPT !.sfi_linkcount = @ + n])

-----------------------------------------------------------------------------
(* Directory operations.  The caller holds a reference to the root. *)

sfs_creat(t, name, excl) ==
    Then(sfs_dir_findname(t, name), LAMBDA u :
        IF u.ret.slot >= 0
          THEN IF excl THEN Fail(u, "EEXIST") ELSE sfs_loadvnode(u, u.ret.ino, "inval")
          ELSE Then(sfs_makeobj(u), LAMBDA w :
                 LET ino == w.ret
                     x == sfs_dir_link(w, name, ino)
                 IN  IF x.err = "ok" THEN Return(AddLinks(x, ino, 1), ino)
                     ELSE vnode_decref(x, ino)))

sfs_link(t, name, ino) ==
    Then(sfs_dir_link(t, name, ino), LAMBDA u : AddLinks(u, ino, 1))

sfs_remove(t, name) ==
    Then(sfs_lookonce(t, name), LAMBDA u :
        LET ino == u.ret.ino
        IN  vnode_decref(Then(sfs_dir_unlink(u, u.ret.slot), LAMBDA w : AddLinks(w, ino, -1)),
                         ino))

\* The rest of sfs_rename when the old name was unlinked (m): if that failed,
\* the new name is unlinked again; if that fails too, the kernel panics.
Renamed(m, ino, newslot) ==
    LET Undone(t) == [Fail(t, IF t.err = "ok" THEN m.err ELSE "halt")
                        EXCEPT !.vn[ino].sv_i.sfi_linkcount = @ - 1]
    IN  IF m.err = "ok" THEN AddLinks(m, ino, -1)
        ELSE IF Stopped(m) THEN m
        ELSE Undone(sfs_dir_unlink([m EXCEPT !.err = "ok"], newslot))

\* Link the new name, then unlink the old.
sfs_rename(t, name1, name2) ==
    Then(sfs_lookonce(t, name1), LAMBDA u :
        LET ino == u.ret.ino
            Move(w) == Renamed(sfs_dir_unlink(AddLinks(w, ino, 1), u.ret.slot), ino, w.ret)
        IN  vnode_decref(Then(sfs_dir_link(u, name2, ino), Move), ino))

-----------------------------------------------------------------------------
(* Path operations: vfs_lookup, vfs_lookparent and vfspath.c.  Each is a     *)
(* list of calls, one lock section apiece.                                   *)

\* The entry points.
OpenCalls(creat, trunc) ==
    (IF creat THEN <<"lookparent", "creat", "decroot">> ELSE <<"lookup">>)
        \o <<"incopen">> \o (IF trunc THEN <<"trunc">> ELSE <<>>)

vfs_open(n, creat, excl, trunc) ==
    [Idle EXCEPT !.todo = OpenCalls(creat, trunc), !.name = n, !.excl = excl]
vfs_close(ino) == [Idle EXCEPT !.todo = <<"decopen", "decvn">>, !.vn = ino]
vfs_remove(n) == [Idle EXCEPT !.todo = <<"lookparent", "remove", "decroot">>, !.name = n]
vfs_link(n, m) ==
    [Idle EXCEPT !.todo = <<"lookup", "lookparent", "link", "decroot", "decvn">>,
                 !.name = n, !.name2 = m]
vfs_rename(n, m) ==
    [Idle EXCEPT !.todo = <<"lookparent", "lookparent", "rename", "decroot", "decroot">>,
                 !.name = n, !.name2 = m]

\* What each call does to the store.
Call(o, t) ==
    LET root == SFS_ROOT_LOCATION
    IN  CASE Head(o.todo) = "lookparent" -> sfs_getroot(t)
          [] Head(o.todo) = "lookup" ->
                Then(sfs_getroot(t), LAMBDA u :
                    LET w == sfs_lookonce(u, o.name)
                    IN  Return(vnode_decref(w, root), IF w.err = "ok" THEN w.ret.ino ELSE 0))
          [] Head(o.todo) = "creat" -> sfs_creat(t, o.name, o.excl)
          [] Head(o.todo) = "remove" -> sfs_remove(t, o.name)
          [] Head(o.todo) = "rename" -> sfs_rename(t, o.name, o.name2)
          [] Head(o.todo) = "link" -> sfs_link(t, o.name2, o.vn)
          [] Head(o.todo) = "decroot" -> vnode_decref(t, root)
          [] Head(o.todo) = "decvn" -> vnode_decref(t, o.vn)
          [] Head(o.todo) = "incopen" -> vnode_incopen(t, o.vn)
          [] Head(o.todo) = "decopen" -> vnode_decopen(t, o.vn)
          [] Head(o.todo) = "trunc" -> sfs_truncate(t, o.vn, 0)

\* What is left of the operation afterwards.
Left(o, err) ==
    CASE err = "ok" -> Tail(o.todo)
      [] Head(o.todo) \in {"lookup", "lookparent"} -> <<>>
      [] Head(o.todo) = "creat" -> <<"decroot">>
      [] Head(o.todo) = "trunc" -> <<"decopen", "decvn">>
      [] OTHER -> Tail(o.todo)

\* Nothing goes wrong, or one of the faults of the header does.
Faults == {[kind |-> "none", fuel |-> 0]} \union
          (IF faults < MaxFaults THEN [kind : {"eio", "crash"}, fuel : 0..MaxFuel] ELSE {})

\* The fault was met: otherwise the step is that of no fault.
Met(f, t) == (f.kind = "eio" => t.fault = "none") /\ (f.kind = "crash" => t.err = "halt")

\* The end of a lock section.  A machine that stops forgets all but the disk.
Commit(f, t) ==
    /\ Met(f, t)
    /\ disk' = t.disk
    /\ faults' = IF f.kind = "none" THEN faults ELSE faults + 1
    /\ status' = IF t.err = "panic" THEN "panic" ELSE IF t.err = "halt" THEN "down" ELSE status
    /\ IF t.err = "halt"
         THEN sfs_freemap' = {} /\ sfs_freemapdirty' = FALSE /\ sfs_vnodes' = <<>>
         ELSE sfs_freemap' = t.map /\ sfs_freemapdirty' = t.mapdirty /\ sfs_vnodes' = t.vn
    /\ UNCHANGED <<badness, spoiled>>

\* What stays as it was last synced when a file or a name is touched.
WithoutFile(ino) == [n \in {m \in DOMAIN durable : durable[m].ino # ino} |-> durable[n]]
WithoutName(name) == [n \in DOMAIN durable \ {name} |-> durable[n]]

\* One call of user h's operation o.
Run(h, o, f) ==
    \E t \in {Call(o, Store(f.kind, f.fuel))} :
    LET left == Left(o, t.err)
        call == Head(o.todo)
        vn == IF call \in {"lookup", "creat"} /\ t.err = "ok" THEN t.ret ELSE o.vn
        ok == t.err = "ok" /\ left = <<>> /\ call \in {"incopen", "trunc"}
    IN  /\ Commit(f, t)
        /\ op' = IF t.err = "halt" THEN [g \in User |-> Idle]
                 ELSE [op EXCEPT ![h] = IF left = <<>> THEN Idle ELSE [o EXCEPT !.todo = left, !.vn = vn]]
        /\ opened' = IF t.err = "halt" THEN [g \in User |-> 0]
                     ELSE [opened EXCEPT ![h] = IF ok THEN vn ELSE IF call = "decopen" THEN 0 ELSE @]
        /\ content' = CASE call = "trunc" ->
                              [content EXCEPT ![o.vn] = IF t.err = "ok" THEN <<>>
                                                        ELSE FileUnits(t.disk, inode(t, o.vn))]
                        [] call = "creat" /\ t.err = "ok" /\ t.ret \notin sfs_freemap ->
                              [content EXCEPT ![t.ret] = <<>>]
                        [] OTHER -> content
        /\ durable' = CASE call = "trunc" -> WithoutFile(o.vn)
                        [] call \in {"remove", "rename"} -> WithoutName(o.name)
                        [] OTHER -> durable

Begin(h, o, f) ==
    /\ op[h] = Idle /\ status = "mounted" /\ ops < MaxOps
    /\ ops' = ops + 1
    /\ Run(h, o, f)

Open(h, f) ==
    /\ opened[h] = 0
    /\ \E n \in Name, creat, excl, trunc \in BOOLEAN :
          (excl => creat /\ ~trunc) /\ Begin(h, vfs_open(n, creat, excl, trunc), f)
Close(h, f) == opened[h] # 0 /\ Begin(h, vfs_close(opened[h]), f)
Unlink(h, f) == opened[h] = 0 /\ \E n \in Name : Begin(h, vfs_remove(n), f)
Link(h, f) == opened[h] = 0 /\ \E n, m \in Name : Begin(h, vfs_link(n, m), f)
Rename(h, f) == opened[h] = 0 /\ \E n, m \in Name : Begin(h, vfs_rename(n, m), f)

Continue(h, f) ==
    /\ op[h] # Idle /\ status = "mounted"
    /\ Run(h, op[h], f)
    /\ UNCHANGED ops

\* What a file holds after its units off+1.. are written.
Overlaid(old, off, new) ==
    [u \in 1..(IF off + Len(new) > Len(old) THEN off + Len(new) ELSE Len(old)) |->
        IF u > off /\ u <= off + Len(new) THEN new[u - off]
        ELSE IF u <= Len(old) THEN old[u] ELSE NoEntry]

\* VOP_WRITE: what was written before an error stays, and the file reaches to
\* where it stopped, even if that is where it started.  The user writes what
\* was not there before.
Write(h, f) ==
    \E x \in Extents :
        LET ino == opened[h]
            old == content[ino]
            unit == IF x[1] < Len(old) /\ old[x[1] + 1] = Marked THEN NoEntry ELSE Marked
            t == sfs_io(Store(f.kind, f.fuel), ino, x[1], [k \in 1..x[2] |-> unit])
            done == [k \in 1..(t.off - x[1]) |-> unit]
        IN  /\ op[h] = Idle /\ status = "mounted" /\ opened[h] # 0 /\ ops < MaxOps
            /\ ops' = ops + 1
            /\ Commit(f, t)
            /\ op' = IF t.err = "halt" THEN [g \in User |-> Idle] ELSE op
            /\ opened' = IF t.err = "halt" THEN [g \in User |-> 0] ELSE opened
            /\ content' = [content EXCEPT ![ino] = Overlaid(@, x[1], done)]
            /\ durable' = WithoutFile(ino)

-----------------------------------------------------------------------------
(* The volume *)

\* Mutant: the inodes are left to the last close.
sfs_sync_maponly(t, array) ==
    IF t.mapdirty THEN [sfs_wblock(t, SFS_MAP_LOCATION, MapBlock(t.map)) EXCEPT !.mapdirty = FALSE]
    ELSE t

\* Every loaded inode in the order of the array of vnodes, then the map.  Any
\* order is possible: an inode that is loaded again goes to the end.
sfs_sync(t, array) ==
    LET inodes == FoldLeft(sfs_sync_inode, t, array)
    IN  IF inodes.mapdirty
          THEN [sfs_wblock(inodes, SFS_MAP_LOCATION, MapBlock(inodes.map)) EXCEPT !.mapdirty = FALSE]
          ELSE inodes

\* The files of a directory: the slots that name one.
Named(d, root) ==
    LET e == FileUnits(d, root)
    IN  {k \in DOMAIN e : e[k].sfd_ino # SFS_NOINO /\ e[k].sfd_name \notin {".", ".."}}

\* The inode as the kernel sees it: in memory if it is loaded.
View(ino) == IF ino \in DOMAIN sfs_vnodes THEN sfs_vnodes[ino].sv_i ELSE AsInode(disk[ino])
Root == View(SFS_ROOT_LOCATION)
Entries == FileUnits(disk, Root)
Files == {Entries[k].sfd_ino : k \in Named(disk, Root)}

\* What a user sees of the volume: the file of every name and its contents.
Seen ==
    LET At(n) == CHOOSE k \in Named(disk, Root) : Entries[k].sfd_name = n
    IN  [n \in {Entries[k].sfd_name : k \in Named(disk, Root)} |->
            [ino |-> Entries[At(n)].sfd_ino,
             units |-> FileUnits(disk, View(Entries[At(n)].sfd_ino))]]

Sync(f) ==
    \E array \in SetToSeqs(DOMAIN sfs_vnodes) :
    LET t == sfs_sync(Store(f.kind, f.fuel), array)
    IN  /\ status = "mounted" /\ ops < MaxOps /\ ops' = ops + 1
        /\ Commit(f, t)
        /\ op' = IF t.err = "halt" THEN [g \in User |-> Idle] ELSE op
        /\ opened' = IF t.err = "halt" THEN [g \in User |-> 0] ELSE opened
        /\ durable' = IF t.err = "halt" THEN durable ELSE Seen
        /\ UNCHANGED content

\* vfs_unmount syncs first, without a fault here, so that the order does not
\* matter; sfs_unmount refuses while inodes are loaded.
Unmount ==
    LET t == sfs_sync(Store("none", 0), SetToSeq(DOMAIN sfs_vnodes))
    IN  /\ status = "mounted" /\ ops < MaxOps /\ ops' = ops + 1
        /\ disk' = t.disk /\ durable' = Seen
        /\ IF DOMAIN t.vn = {}
             THEN status' = "off" /\ sfs_freemap' = {} /\ sfs_freemapdirty' = FALSE /\ sfs_vnodes' = <<>>
             ELSE sfs_freemap' = t.map /\ sfs_freemapdirty' = t.mapdirty /\ sfs_vnodes' = t.vn
                  /\ UNCHANGED status
        /\ UNCHANGED <<op, opened, badness, spoiled, content, faults>>

\* Two kinds of damage that sfsck does not repair and calls repaired: a file
\* with fewer links counted than it has names, and an inode that goes on naming
\* a direct block after its end, which sfsck has freed.
Undercounted(f) ==
    View(f).sfi_linkcount < Cardinality({k \in Named(disk, Root) : Entries[k].sfd_ino = f})
NamesFreed(f) ==
    \E k \in 1..SFS_NDIRECT : /\ View(f).sfi_direct[k] # 0
                              /\ k > BlocksOf(View(f).sfi_size)
Spoiled ==
    \/ \E f \in Files : Undercounted(f)
    \/ \E f \in Files \union {SFS_ROOT_LOCATION} : NamesFreed(f)

\* sfs_domount reads the map and asks nothing.  The operator does not mount a
\* volume that sfsck says it could not repair.
Mount ==
    /\ status \in {"off", "checked"}
    /\ badness < EXIT_UNRECOV
    /\ status' = "mounted"
    /\ sfs_freemap' = disk[SFS_MAP_LOCATION].used /\ sfs_freemapdirty' = FALSE
    /\ spoiled' = (spoiled \/ (status = "checked" /\ Spoiled))
    /\ UNCHANGED <<disk, sfs_vnodes, op, opened, badness, content, durable, ops, faults>>

Fsck ==
    /\ status = "down" /\ status' = "checked"
    /\ \E c \in {sfsck(disk)} :
        /\ disk' = c.disk /\ badness' = c.badness
        /\ content' = [b \in Block |-> FileUnits(c.disk, AsInode(c.disk[b]))]
    /\ UNCHANGED <<sfs_freemap, sfs_freemapdirty, sfs_vnodes, op, opened, spoiled, durable, ops, faults>>

SfsNext ==
    \/ \E h \in User, f \in Faults :
         \/ Open(h, f) \/ Close(h, f) \/ Unlink(h, f) \/ Link(h, f) \/ Rename(h, f)
         \/ Continue(h, f) \/ Write(h, f)
    \/ \E f \in Faults : Sync(f)
    \/ Unmount \/ Mount \/ Fsck

SfsSpec == SfsInit /\ [][SfsNext]_sfsVars

-----------------------------------------------------------------------------
(* Properties *)

Live == Files \union DOMAIN sfs_vnodes \union {SFS_ROOT_LOCATION}
Owned(ino) == {ino} \union Holds(disk, View(ino))
Reserved == {SFS_SB_LOCATION, SFS_MAP_LOCATION}
Pointers(ino) == FileBlocks(disk, View(ino)) \o <<View(ino).sfi_indirect>>

\* No block has two uses, and none in use is free.
BlocksExclusive ==
    /\ \A f \in Live : Owned(f) \subseteq sfs_freemap \ Reserved
    /\ \A f, g \in Live : f # g => Owned(f) \intersect Owned(g) = {}
    /\ \A f \in Live : \A j, k \in DOMAIN Pointers(f) :
          Pointers(f)[j] = Pointers(f)[k] /\ Pointers(f)[j] # 0 => j = k

\* Until something fails no block is lost, and the link counts are right.
NothingLost ==
    /\ sfs_freemap = Reserved \union UNION {Owned(f) : f \in Live}
    /\ \A f \in Live \ {SFS_ROOT_LOCATION} :
          View(f).sfi_linkcount = Cardinality({k \in Named(disk, Root) : Entries[k].sfd_ino = f})

Calls(todo, call) == Cardinality({k \in DOMAIN todo : todo[k] = call})
RootRefs == FoldFunction(+, 0, [h \in User |-> Calls(op[h].todo, "decroot") - Calls(op[h].todo, "lookparent")])
FileRefs(ino) == Cardinality({h \in User : opened[h] = ino})
                 + Cardinality({h \in User : op[h].vn = ino})
OpenRefs(ino) == Cardinality({h \in User : opened[h] = ino})
                 + Cardinality({h \in User : /\ op[h].vn = ino
                                             /\ op[h].todo # <<>>
                                             /\ Head(op[h].todo) \in {"trunc", "decopen"}})

\* Whoever uses a vnode is counted; until something fails, nobody else is.
RefsExact ==
    \A ino \in DOMAIN sfs_vnodes :
        LET refs == IF ino = SFS_ROOT_LOCATION THEN RootRefs ELSE FileRefs(ino)
        IN  /\ sfs_vnodes[ino].ref >= refs
            /\ sfs_vnodes[ino].open = OpenRefs(ino)
            /\ faults = 0 => sfs_vnodes[ino].ref = refs

\* SFS keeps its books, whoever interleaves with whom, through full disks,
\* read errors, crashes and repairs (sfs_vnode.c, vnode.c), and no assertion of
\* sfs fails, unless it was given a volume that sfsck had left spoiled: then
\* sfs_lookonce meets a file without links (sfs_vnode.c:777-779), or sfs_bmap a
\* block that is in use and free.
SfsSound ==
    \/ spoiled
    \/ /\ status # "panic"
       /\ status = "mounted" => BlocksExclusive /\ RefsExact /\ (faults = 0 => NothingLost)

\* A reader of a file finds what the writers wrote, zeros in the holes, and
\* nothing of what the blocks held before (sfs_io, sfs_bmap, sfs_truncate).
ReadBack ==
    (status = "mounted" /\ ~spoiled) => \A f \in Files : FileUnits(disk, View(f)) = content[f]

\* A file that was synced and not touched since is found under its name, with
\* its contents, after a crash at any block write and after the repair
\* (sfs_sync, sfsck); so is every file after an unmount.
SyncedSurvives ==
    (status \in {"off", "checked"} /\ ~spoiled) =>
        \A n \in DOMAIN durable : n \in DOMAIN Seen /\ Seen[n] = durable[n]

\* sfsck is content with what a crash left of a volume that was sound before.
Repaired == status = "checked" /\ badness < EXIT_UNRECOV /\ ~spoiled

\* On a volume that sfsck calls repaired names lead to files, no block within a
\* file's length has two uses, and none is free (sfsck.c).  It does not hold of
\* every block an inode names: see FreedUnnamed.
SfsckSound ==
    Repaired =>
        LET i(f) == AsInode(disk[f])
            within(f) == {FileBlocks(disk, i(f))[k] : k \in 1..BlocksOf(i(f).sfi_size)}
            owned(f) == {f} \union ((within(f) \union {i(f).sfi_indirect}) \ {0})
        IN  /\ \A f \in Files : i(f).sfi_type = "file"
            /\ \A f \in Live : owned(f) \subseteq disk[SFS_MAP_LOCATION].used \ Reserved
            /\ \A f, g \in Live : f # g => owned(f) \intersect owned(g) = {}

\* "Inode %lu: %lu blocks after EOF (freed)": what sfsck.c:697 says it does
\* to the direct blocks of a file after its end.
FreedUnnamed == Repaired => \A f \in Live : ~NamesFreed(f)

\* "File %lu link count %lu should be %lu (fixed)": what sfsck.c says it does
\* to link counts.
LinksRepaired ==
    Repaired =>
        \A f \in Files : View(f).sfi_linkcount
                           = Cardinality({k \in Named(disk, Root) : Entries[k].sfd_ino = f})
=============================================================================
