------------------------------- MODULE MCHeap -------------------------------
(***************************************************************************)
(* Three allocators side by side: the coremap's loops, the kernel heap and  *)
(* the C library's heap, under any calls and under malloctest.  They share   *)
(* nothing; `part` says which one runs.                                    *)
(***************************************************************************)
EXTENDS CoremapScan, Kmalloc, MallocTest

VARIABLE part

MCSizes == <<2, 3, 4>>

heapVars == <<scanVars, kmVars, mtVars, part>>

HeapInit ==
    /\ part \in {"coremap", "kmalloc", "malloc", "malloctest"}
    /\ ScanInit /\ KmInit /\ MtInit

HeapNext ==
    /\ \/ part = "coremap" /\ ScanNext /\ UNCHANGED <<kmVars, mtVars>>
       \/ part = "kmalloc" /\ KmNext /\ UNCHANGED <<scanVars, mtVars>>
       \/ part = "malloc" /\ UmNext /\ UNCHANGED <<scanVars, kmVars, mtestVars>>
       \/ part = "malloctest" /\ MtNext /\ UNCHANGED <<scanVars, kmVars>>
    /\ UNCHANGED part

\* The scheduler runs a thread that is inside coremap_lock: see CoremapScan.
HeapSpec ==
    /\ HeapInit /\ [][HeapNext]_heapVars
    /\ \A o \in Owners : WF_heapVars(part = "coremap" /\ Step(o)
                                     /\ UNCHANGED <<kmVars, mtVars, part>>)
=============================================================================
