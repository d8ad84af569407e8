------------------------------ MODULE VnodeOps ------------------------------
(***************************************************************************)
(* The tables of vnode operations: devices (kern/vfs/device.c with the        *)
(* d_open, d_io and d_ioctl of console.c, devnull.c, random.c and lhd.c),      *)
(* emufs (emu.c) and SFS (sfs_vnode.c).                                       *)
(*                                                                         *)
(* A table is a positional initialiser of struct vnode_ops: an entry's place   *)
(* is its meaning.  An entry is what the function there answers: "done" when    *)
(* it goes to work, an error, or the name of a function that looks at its       *)
(* argument.  A caller opens an object through vfs_open and uses it.           *)
(***************************************************************************)
EXTENDS Integers, Sequences

CONSTANTS
    Position,       \* seek positions and lengths tried, in bytes
    BLOCKSIZE,      \* d_blocksize of the disk
    DISKBLOCKS      \* d_blocks of the disk

VARIABLES
    vfile,          \* what is open: its kind and flags, or kind "none"
    vcalled         \* the last operation on it and what it answered

vopsVars == <<vfile, vcalled>>

\* struct vnode_ops
vnode_ops == <<"open", "close", "reclaim", "read", "readlink", "getdirentry", "write", "ioctl", "stat", "gettype",
               "tryseek", "fsync", "mmap", "truncate", "namefile", "creat", "symlink", "mkdir", "link", "remove",
               "rmdir", "rename", "lookup", "lookparent">>

\* The functions that answer the same to everybody.
emufs_unimp == "EUNIMP"
emufs_isdir == "EISDIR"
emufs_notdir == "ENOTDIR"
emufs_truncate_isdir == "ENOTDIR"
sfs_notdir == "ENOTDIR"
sfs_isdir == "EISDIR"
sfs_unimp == "EUNIMP"
null_nameop == "ENOTDIR"
dev_mmap == "EUNIMP"

\* For any path but the empty one.
dev_lookup == "ENOENT"

emufs_fileops ==
    <<"emufs_open", "done", "done", "done", "EINVAL", emufs_notdir, "done", "EINVAL", "done", "S_IFREG", "emufs_tryseek",
      "done", emufs_unimp, "done", emufs_notdir, emufs_notdir, emufs_notdir, emufs_notdir, emufs_notdir, emufs_notdir,
      emufs_notdir, emufs_notdir, emufs_notdir, emufs_notdir>>

\* The root directory: emufs_namefile knows no other's name.
emufs_dirops ==
    <<"emufs_opendir", "done", "done", emufs_isdir, emufs_isdir, "done", emufs_isdir, "EINVAL", "done", "S_IFDIR",
      emufs_unimp, emufs_isdir, emufs_isdir, emufs_truncate_isdir, "done", "done", emufs_unimp, emufs_unimp, emufs_unimp,
      emufs_unimp, emufs_unimp, emufs_unimp, "done", "done">>

sfs_fileops ==
    <<"sfs_open", "done", "done", "done", sfs_notdir, sfs_notdir, "done", "EINVAL", "done", "S_IFREG", "sfs_tryseek",
      "done", "EUNIMP", "done", sfs_notdir, sfs_notdir, sfs_notdir, sfs_notdir, sfs_notdir, sfs_notdir, sfs_notdir,
      sfs_notdir, sfs_notdir, sfs_notdir>>

sfs_dirops ==
    <<"sfs_opendir", "done", "done", sfs_isdir, sfs_isdir, sfs_unimp, sfs_isdir, "EINVAL", "done", "S_IFDIR", sfs_unimp,
      "done", sfs_isdir, sfs_isdir, "done", "done", sfs_unimp, sfs_unimp, "done", "done", sfs_unimp, "done", "done", "done">>

dev_vnode_ops ==
    <<"dev_open", "done", "done", "dev_read", "EINVAL", "EINVAL", "dev_write", "dev_ioctl", "done", "dev_gettype",
      "dev_tryseek", "done", dev_mmap, "dev_truncate", "done", null_nameop, null_nameop, null_nameop, null_nameop,
      null_nameop, null_nameop, null_nameop, dev_lookup, "ENOTDIR">>

Device == {"lhd", "con", "null", "random"}
Directory == {"emufs_dir", "sfs_dir"}
Kind == Device \cup Directory \cup {"emufs_file", "sfs_file"}

Table(k) == CASE k \in Device -> dev_vnode_ops [] k = "emufs_file" -> emufs_fileops [] k = "emufs_dir" -> emufs_dirops
              [] k = "sfs_file" -> sfs_fileops [] k = "sfs_dir" -> sfs_dirops

Access == {"O_RDONLY", "O_WRONLY", "O_RDWR"}
Flags == [how : Access, set : SUBSET {"O_TRUNC", "O_APPEND"}]

\* d_open: only randopen looks at the flags.
d_open(k, f) == IF k = "random" /\ f # [how |-> "O_RDONLY", set |-> {}] THEN "EIO" ELSE "done"
dev_open(k, f) == IF f.set # {} THEN "EINVAL" ELSE d_open(k, f)
emufs_open(f) == IF "O_APPEND" \in f.set THEN "EUNIMP" ELSE "done"
emufs_opendir(f) == IF f.how # "O_RDONLY" \/ "O_APPEND" \in f.set THEN "EISDIR" ELSE "done"
sfs_open(f) == IF "O_APPEND" \in f.set THEN "EUNIMP" ELSE "done"

sfs_opendir(f) == IF f.how # "O_RDONLY" \/ "O_APPEND" \in f.set THEN "EISDIR" ELSE "done"

\* d_io: the disk takes whole sectors only (the caller's are), random only reads.
d_io(k, op) == IF k = "random" /\ op = "write" THEN "EIO" ELSE "done"
d_ioctl(k) == IF k \in {"lhd", "random"} THEN "EIOCTL" ELSE "EINVAL"

d_blocks(k) == IF k = "lhd" THEN DISKBLOCKS ELSE 0

dev_gettype(k) == IF d_blocks(k) > 0 THEN "S_IFBLK" ELSE "S_IFCHR"
dev_tryseek(k, pos) ==
    IF d_blocks(k) = 0 THEN "ESPIPE"
    ELSE IF pos % BLOCKSIZE # 0 \/ pos < 0 \/ pos \div BLOCKSIZE >= d_blocks(k) THEN "EINVAL" ELSE "done"
dev_truncate(k, len) == IF d_blocks(k) > 0 /\ d_blocks(k) * BLOCKSIZE = len THEN "done" ELSE "EINVAL"
tryseek(pos) == IF pos < 0 THEN "EINVAL" ELSE "done"

Entry(k, op) == Table(k)[CHOOSE i \in DOMAIN vnode_ops : vnode_ops[i] = op]

\* VOP_<op>(k, arg)
VOP(k, op, f, pos) ==
    LET e == Entry(k, op)
    IN  CASE e = "emufs_open" -> emufs_open(f) [] e = "emufs_opendir" -> emufs_opendir(f)
          [] e = "sfs_open" -> sfs_open(f) [] e = "sfs_opendir" -> sfs_opendir(f) [] e = "dev_open" -> dev_open(k, f)
          [] e = "dev_read" -> d_io(k, "read") [] e = "dev_write" -> d_io(k, "write") [] e = "dev_ioctl" -> d_ioctl(k)
          [] e = "dev_gettype" -> dev_gettype(k) [] e = "dev_tryseek" -> dev_tryseek(k, pos)
          [] e = "dev_truncate" -> dev_truncate(k, pos) [] e \in {"emufs_tryseek", "sfs_tryseek"} -> tryseek(pos)
          [] OTHER -> e

-----------------------------------------------------------------------------
NoFile == [kind |-> "none", flags |-> [how |-> "O_RDONLY", set |-> {}]]
NoCalled == [op |-> "none", pos |-> 0, answer |-> "none"]

VopsInit == vfile = NoFile /\ vcalled = NoCalled

\* vfs_open of an object that exists.
Opens(k, f) ==
    /\ VOP(k, "open", f, 0) = "done"
    /\ "O_TRUNC" \in f.set => f.how # "O_RDONLY" /\ VOP(k, "truncate", f, 0) = "done"

VnodeOpen(k, f) ==
    /\ vfile.kind = "none" /\ Opens(k, f)
    /\ vfile' = [kind |-> k, flags |-> f] /\ vcalled' = NoCalled

VnodeCall(op, pos) ==
    /\ vfile.kind # "none"
    /\ vcalled' = [op |-> op, pos |-> pos, answer |-> VOP(vfile.kind, op, vfile.flags, pos)]
    /\ UNCHANGED vfile

VnodeClose == vfile.kind # "none" /\ vfile' = NoFile /\ vcalled' = NoCalled

VopsNext ==
    \/ \E k \in Kind, f \in Flags : VnodeOpen(k, f)
    \/ \E i \in DOMAIN vnode_ops, pos \in Position : VnodeCall(vnode_ops[i], pos)
    \/ VnodeClose

VopsSpec == VopsInit /\ [][VopsNext]_vopsVars

-----------------------------------------------------------------------------
(* Properties *)

\* The operations on the names in a directory.
NameOps == {"creat", "symlink", "mkdir", "link", "remove", "rmdir", "rename", "lookparent"}

\* Whoever could open an object for writing can write to it and whoever opened
\* it for reading can read it, or it is a directory; what is no directory says
\* ENOTDIR to the operations on names and a directory EISDIR to those on data;
\* a position that may be sought to is one the disk can transfer at.  This
\* binds vfs_open's checks to the positions in five tables.
TablesAgree ==
    LET k == vfile.kind
        c == vcalled
    IN  /\ c.op = "write" /\ vfile.flags.how # "O_RDONLY" => c.answer = "done"
        /\ c.op = "read" /\ vfile.flags.how # "O_WRONLY" /\ k \notin Directory => c.answer = "done"
        /\ c.op \in NameOps => (c.answer = "ENOTDIR" <=> k \notin Directory)
        /\ c.op = "truncate" /\ c.answer = "done" => k \notin Directory
        /\ c.op \in {"read", "write", "mmap", "readlink"} => (c.answer = "EISDIR" <=> k \in Directory)
        /\ c.op = "gettype" => (c.answer = "S_IFDIR" <=> k \in Directory)
        /\ c.op = "tryseek" /\ c.answer = "done" =>
             c.pos >= 0 /\ (k = "lhd" => \E b \in 0..(DISKBLOCKS - 1) : c.pos = b * BLOCKSIZE)
        /\ c.op \in {"close", "reclaim", "stat"} => c.answer = "done"
=============================================================================
