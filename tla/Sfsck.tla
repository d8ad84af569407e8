-------------------------------- MODULE Sfsck --------------------------------
(***************************************************************************)
(* user/sbin/sfsck: the checker that is run on a volume after a crash, as   *)
(* one operator from volumes to repaired volumes.                           *)
(*                                                                         *)
(* The store is what the program knows: the volume, the blocks it has seen  *)
(* in use and those it will free, and its verdict.  The kernel writes whole  *)
(* blocks of good names, each once, whenever it stops, unless it was given a *)
(* spoiled volume (Sfs.SfsSound), so the repairs of bad, missing and         *)
(* repeated names and of odd sizes are left out.                             *)
(* SFS has no subdirectories, so check_dir runs once.                        *)
(***************************************************************************)
EXTENDS SfsDisk, TLC

EXIT_CLEAN == 0
EXIT_RECOV == 1
EXIT_UNRECOV == 2

setbadness(c, code) == [c EXCEPT !.badness = IF @ < code THEN code ELSE @]

\* Mark a block found in use.  A block may have only one use.
bitmap_mark(c, b) ==
    [(IF b \in c.found THEN setbadness(c, EXIT_UNRECOV) ELSE c)
        EXCEPT !.found = @ \union {b}, !.tofree = @ \ {b}]

\* Mark a block to be freed, unless it is in use.
MarkToFree(c, b) == IF b \in c.found THEN c ELSE [c EXCEPT !.tofree = @ \union {b}]

MarkAll(c, s) == FoldLeft(LAMBDA k, b : IF b = 0 THEN k ELSE bitmap_mark(k, b), c, s)

diskwrite(c, b, data) == [c EXCEPT !.disk[b] = data]

-----------------------------------------------------------------------------
(* The blocks of an inode.  The result is the store, the inode and whether   *)
(* blocks were found after EOF. *)

\* Entries after EOF are marked in use all the same, then cleared; an indirect
\* block left empty is to be freed, but it has just been marked.
check_indirect_block(c, i, nblocks, bad) ==
    LET id == i.sfi_indirect
        old == AsIndirect(c.disk[id])
        after(k) == SFS_NDIRECT + k - 1 >= nblocks
        new == [k \in 1..SFS_DBPERIDB |-> IF after(k) THEN 0 ELSE old[k]]
        marked == MarkAll(bitmap_mark(c, id), old)
    IN  IF id = 0 THEN <<c, i, bad>>
        ELSE IF new = NoBlocks THEN <<MarkToFree(marked, id), [i EXCEPT !.sfi_indirect = 0], TRUE>>
        ELSE IF bad \/ new # old THEN <<diskwrite(marked, id, IndirectBlock(new)), i, TRUE>>
        ELSE <<marked, i, FALSE>>

\* Direct blocks after EOF are to be freed; the inode goes on naming them.
check_inode_blocks(c, i) ==
    LET nblocks == BlocksOf(i.sfi_size)
        in == SubSeq(i.sfi_direct, 1, IF nblocks < SFS_NDIRECT THEN nblocks ELSE SFS_NDIRECT)
        after == {k \in (Len(in) + 1)..SFS_NDIRECT : i.sfi_direct[k] # 0}
        freed == FoldLeft(LAMBDA k, b : MarkToFree(k, i.sfi_direct[b]), MarkAll(c, in),
                          SetToSeq(after))
        r == check_indirect_block(freed, i, nblocks, after # {})
    IN  <<IF r[3] THEN setbadness(r[1], EXIT_RECOV) ELSE r[1], r[2], r[3]>>

-----------------------------------------------------------------------------
(* The inodes seen so far: c.inodes is what inodes[] has below ninodes. *)

\* The new entry is stored at inodes[ninodes], and ninodes is never increased.
addmemory(c, ino, linkcount) == c

\* The first use of a directory's inode; for the next one check_dir gives up.
remember_dir(c, ino) == addmemory(c, ino, 0)
Remembered(c, ino) == \E k \in DOMAIN c.inodes : c.inodes[k].ino = ino

\* One more name of a file.  As no inode is remembered, the second name of a
\* file is a second use of its inode.
observe_filelink(c, ino) ==
    IF Remembered(c, ino)
      THEN [c EXCEPT !.inodes = [k \in DOMAIN @ |-> IF @[k].ino = ino THEN [@[k] EXCEPT !.linkcount = @ + 1]
                                                                    ELSE @[k]]]
      ELSE addmemory(bitmap_mark(c, ino), ino, 1)

\* The link counts of the files are set to what was counted.
adjust_filelinks(c) ==
    LET Adjust(k, m) ==
          LET i == AsInode(k.disk[m.ino])
          IN  IF m.linkcount \in {0, i.sfi_linkcount} THEN k
              ELSE diskwrite(setbadness(k, EXIT_RECOV), m.ino,
                             InodeBlock([i EXCEPT !.sfi_linkcount = m.linkcount]))
    IN  FoldLeft(Adjust, c, c.inodes)

-----------------------------------------------------------------------------
(* The directory *)

\* The disk block of a block of a file, 0 if it has none.
ibmap(d, iblock, offset) == IF iblock = 0 THEN 0 ELSE AsIndirect(d[iblock])[offset + 1]
dobmap(d, i, fileblock) ==
    IF fileblock < SFS_NDIRECT THEN i.sfi_direct[fileblock + 1]
    ELSE IF fileblock < MaxFileBlocks THEN ibmap(d, i.sfi_indirect, fileblock - SFS_NDIRECT)
    ELSE 0

\* The entries; those in a hole are empty.
dirread(d, i) ==
    [k \in 1..i.sfi_size |->
        LET b == dobmap(d, i, (k - 1) \div PERBLOCK)
        IN  IF b = 0 THEN NoEntry ELSE AsUnits(d[b])[((k - 1) % PERBLOCK) + 1]]

\* "." and "..": corrected, or added in an empty slot or behind the last one
\* while the last block has room.
dir_tryadd(c, e, name) ==
    LET at == {k \in 1..Len(e) : e[k].sfd_name = name /\ e[k].sfd_ino # SFS_NOINO}
        empty == {k \in 1..Len(e) : e[k].sfd_ino = SFS_NOINO}
        entry == [sfd_ino |-> SFS_ROOT_LOCATION, sfd_name |-> name]
        bad == setbadness(c, EXIT_RECOV)
    IN  IF at # {}
          THEN IF e[Min(at)].sfd_ino = SFS_ROOT_LOCATION THEN <<c, e>>
               ELSE <<bad, [e EXCEPT ![Min(at)] = entry]>>
        ELSE IF empty # {} THEN <<bad, [e EXCEPT ![Min(empty)] = entry]>>
        ELSE IF Len(e) % PERBLOCK # 0 THEN <<bad, Append(e, entry)>>
        ELSE <<setbadness(c, EXIT_UNRECOV), e>>

\* Files are walked and counted; what is neither file nor directory goes.
CheckEntry(acc, k) ==
    LET c == acc[1]
        e == acc[2][k]
        i == AsInode(c.disk[e.sfd_ino])
        r == check_inode_blocks(c, i)
        kept == IF r[3] THEN diskwrite(r[1], e.sfd_ino, InodeBlock(r[2])) ELSE r[1]
    IN  IF e.sfd_name \in {".", ".."} \/ e.sfd_ino = SFS_NOINO THEN acc
        ELSE IF i.sfi_type = "file" THEN <<observe_filelink(kept, e.sfd_ino), acc[2]>>
        ELSE <<setbadness(c, EXIT_RECOV), [acc[2] EXCEPT ![k] = NoEntry]>>

\* Write the entries back where the directory has blocks; an entry that would
\* go into a hole is an error.
dirwrite(c, i, e) ==
    LET at(b) == [u \in 1..PERBLOCK |-> LET k == (b - 1) * PERBLOCK + u
                                        IN  IF k <= Len(e) THEN e[k] ELSE NoEntry]
        Put(k, b) == LET to == dobmap(k.disk, i, b - 1)
                     IN  IF to # 0 THEN diskwrite(k, to, UnitBlock(at(b)))
                         ELSE IF at(b) # ZeroUnits THEN setbadness(k, EXIT_UNRECOV) ELSE k
    IN  FoldLeft(Put, c, [b \in 1..BlocksOf(Len(e)) |-> b])

\* The end of check_dir: the link count and the size are set right, entries
\* and inode written back where they changed.  i is the inode as it was found,
\* j as check_inode_blocks left it.
dir_finish(c, i, j, changed, was, e) ==
    LET counted == IF i.sfi_linkcount # 2 THEN setbadness(c, EXIT_RECOV) ELSE c
        fixed == [j EXCEPT !.sfi_size = Len(e), !.sfi_linkcount = 2]
        written == IF e # was THEN dirwrite(counted, fixed, e) ELSE counted
    IN  IF changed \/ fixed # i
          THEN diskwrite(written, SFS_ROOT_LOCATION, InodeBlock(fixed)) ELSE written

\* "." and ".." are added where they are missing, then the entries are walked.
dir_walk(c, i, j, changed) ==
    LET was == dirread(c.disk, j)
        dot == dir_tryadd(c, was, ".")
        dotdot == dir_tryadd(dot[1], dot[2], "..")
        walked == FoldLeft(CheckEntry, dotdot, [k \in 1..Len(dotdot[2]) |-> k])
    IN  dir_finish(walked[1], i, j, changed, was, walked[2])

check_dir(c) ==
    LET i == AsInode(c.disk[SFS_ROOT_LOCATION])
        blocks == check_inode_blocks(bitmap_mark(remember_dir(c, SFS_ROOT_LOCATION), SFS_ROOT_LOCATION), i)
    IN  dir_walk(blocks[1], i, blocks[2], blocks[3])

\* The root is made a directory if it is not one.
check_root_dir(c) ==
    LET i == AsInode(c.disk[SFS_ROOT_LOCATION])
    IN  check_dir(IF i.sfi_type = "dir" THEN c
                  ELSE diskwrite(setbadness(c, EXIT_RECOV), SFS_ROOT_LOCATION,
                                 InodeBlock([i EXCEPT !.sfi_type = "dir"])))

-----------------------------------------------------------------------------

\* Mutant: the bitmap is left as it was found.
check_bitmap_keeps(c) == c

\* The bitmap becomes what was found in use; blocks that were to be freed do
\* not count as damage.
check_bitmap(c) ==
    LET bits == c.disk[SFS_MAP_LOCATION].used \ c.tofree
    IN  diskwrite(IF bits = c.found THEN c ELSE setbadness(c, EXIT_RECOV),
                  SFS_MAP_LOCATION, MapBlock(c.found))

check_sb(d) ==
    [disk |-> d, found |-> {SFS_SB_LOCATION, SFS_MAP_LOCATION}, tofree |-> {},
     inodes |-> <<>>, badness |-> EXIT_CLEAN]

sfsck(d) == adjust_filelinks(check_bitmap(check_root_dir(check_sb(d))))
=============================================================================
