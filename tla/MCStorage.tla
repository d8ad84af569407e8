----------------------------- MODULE MCStorage -----------------------------
(***************************************************************************)
(* A volume, and the VFS layer's device table, side by side.  Sfs goes      *)
(* through the path operations of the VFS layer itself; `part` says which    *)
(* one runs.                                                                *)
(***************************************************************************)
EXTENDS Sfs, Vfs

VARIABLE part

MCExtents == {<<0, 2>>, <<3, 6>>}

\* A disk, the emulator's file system, and a device with a raw device's name.
MCAttach == {[name |-> <<"lhd0">>, mountable |-> TRUE, hasfs |-> FALSE],
             [name |-> <<"emu0">>, mountable |-> FALSE, hasfs |-> TRUE],
             [name |-> <<"lhd0", "raw">>, mountable |-> FALSE, hasfs |-> FALSE]}
MCLabel == [n \in {a.name : a \in MCAttach} |-> IF n = <<"lhd0">> THEN <<"vol">> ELSE n]

MCSymmetry == Permutations(User) \union Permutations(Name) \union Permutations(Proc)

storageVars == <<sfsVars, vfsVars, part>>

StorageInit == part \in {"sfs", "vfs"} /\ SfsInit /\ VfsInit

StorageNext ==
    /\ \/ part = "sfs" /\ SfsNext /\ UNCHANGED vfsVars
       \/ part = "vfs" /\ VfsNext /\ UNCHANGED sfsVars
    /\ UNCHANGED part

StorageSpec == StorageInit /\ [][StorageNext]_storageVars
=============================================================================
