------------------------------- MODULE SfsDisk -------------------------------
(***************************************************************************)
(* The SFS volume: the on-disk format of kern/sfs.h and the empty volume    *)
(* that user/sbin/mksfs writes.                                             *)
(*                                                                         *)
(* A file is measured in units, the size of a directory entry; a block has  *)
(* PERBLOCK of them.  A unit of a file's data is zero or marked, which is   *)
(* enough to tell stale data from fresh.  A block remembers as what it was  *)
(* written; read as anything else it reads as zeros, that is, user data is  *)
(* taken never to look like an inode or a block number.                     *)
(***************************************************************************)
EXTENDS Integers, Sequences, FiniteSets, FiniteSetsExt, SequencesExt

CONSTANTS
    NBLOCKS,        \* sp_nblocks; the bitmap fits one block
    SFS_NDIRECT, SFS_DBPERIDB,
    PERBLOCK        \* SFS_BLOCKSIZE / sizeof(struct sfs_dir)

ASSUME SfsDiskAssumption ==
    /\ NBLOCKS \in Nat /\ NBLOCKS > 3
    /\ SFS_NDIRECT \in Nat \ {0} /\ SFS_DBPERIDB \in Nat \ {0} /\ PERBLOCK \in Nat \ {0}

Block == 0..(NBLOCKS - 1)
SFS_SB_LOCATION == 0
SFS_ROOT_LOCATION == 1
SFS_MAP_LOCATION == 2
SFS_NOINO == 0

\* A directory entry; as file data, a zero or a marked unit.
NoEntry == [sfd_ino |-> SFS_NOINO, sfd_name |-> ""]
Marked == [sfd_ino |-> SFS_NOINO, sfd_name |-> "data"]

EmptyInode ==
    [sfi_type |-> "inval", sfi_size |-> 0, sfi_linkcount |-> 0,
     sfi_direct |-> [i \in 1..SFS_NDIRECT |-> 0], sfi_indirect |-> 0]
NoBlocks == [i \in 1..SFS_DBPERIDB |-> 0]
ZeroUnits == [i \in 1..PERBLOCK |-> NoEntry]

Zeros == [kind |-> "zeros"]
InodeBlock(i) == [kind |-> "inode", inode |-> i]
IndirectBlock(e) == [kind |-> "indirect", entries |-> e]
UnitBlock(u) == IF u = ZeroUnits THEN Zeros ELSE [kind |-> "units", units |-> u]
MapBlock(m) == [kind |-> "map", used |-> m]

AsInode(c) == IF c.kind = "inode" THEN c.inode ELSE EmptyInode
AsIndirect(c) == IF c.kind = "indirect" THEN c.entries ELSE NoBlocks
AsUnits(c) == IF c.kind = "units" THEN c.units ELSE ZeroUnits

\* Blocks a file of this many units needs, and the most it can have.
BlocksOf(size) == (size + PERBLOCK - 1) \div PERBLOCK
MaxFileBlocks == SFS_NDIRECT + SFS_DBPERIDB

\* The disk block of every block of a file; 0 where there is a hole.
FileBlocks(d, i) ==
    LET entries == IF i.sfi_indirect = 0 THEN NoBlocks ELSE AsIndirect(d[i.sfi_indirect])
    IN  i.sfi_direct \o entries

\* What a file contains.
FileUnits(d, i) ==
    [u \in 1..i.sfi_size |->
        LET b == FileBlocks(d, i)[((u - 1) \div PERBLOCK) + 1]
        IN  IF b = 0 THEN NoEntry ELSE AsUnits(d[b])[((u - 1) % PERBLOCK) + 1]]

\* The blocks an inode holds, besides its own.
Holds(d, i) ==
    ({FileBlocks(d, i)[k] : k \in 1..MaxFileBlocks} \union {i.sfi_indirect}) \ {0}

-----------------------------------------------------------------------------
(* mksfs *)

writerootdir == InodeBlock([EmptyInode EXCEPT !.sfi_type = "dir", !.sfi_linkcount = 1])
writebitmap == MapBlock({SFS_SB_LOCATION, SFS_ROOT_LOCATION, SFS_MAP_LOCATION})

mksfs ==
    [b \in Block |-> CASE b = SFS_SB_LOCATION -> [kind |-> "super"]
                       [] b = SFS_ROOT_LOCATION -> writerootdir
                       [] b = SFS_MAP_LOCATION -> writebitmap
                       [] OTHER -> Zeros]
=============================================================================
