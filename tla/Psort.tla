-------------------------------- MODULE Psort --------------------------------
(***************************************************************************)
(* The parallel sort, user/testbin/psort/psort.c: processes that sort a file of  *)
(* keys in phases (generate, toss into bins, sort the bins, merge, assemble,     *)
(* validate), every phase a round of fork and waitpid, the data passed from       *)
(* phase to phase in files.                                                   *)
(*                                                                         *)
(* Files are sequences of keys; the work of one process in one phase is a        *)
(* sequence of reads and writes of WORKNUM keys at its own place.               *)
(***************************************************************************)
EXTENDS Integers, Sequences, SequencesExt

CONSTANTS
    numprocs, numkeys,
    RANDOM_MAX,         \* random gives 0 to RANDOM_MAX; keys are the numbers between
    WORKNUM

VARIABLES
    phase, procat,      \* the phase, and each process: "none", "nofork", "run", "bad", "ioerror", "exit"
    keysfile, bins, merged, sorted, valid,      \* the files
    ptook,              \* each process: keys it has handled in this phase
    outcome             \* "", "Succeeded" or "failed"

psortVars == <<phase, procat, keysfile, bins, merged, sorted, valid, ptook, outcome>>
files == <<keysfile, bins, merged, sorted, valid>>

Me == 0..(numprocs - 1)
Key == 1..(RANDOM_MAX - 1)
NoKey == 0                      \* a hole in a file
pivot == RANDOM_MAX \div numprocs

-----------------------------------------------------------------------------
(* sortints: a quicksort that moves the pivots together *)

\* The partition loop from the three positions (counted from 1): smaller keys to
\* the front, larger ones to the back; the gap between is filled with the pivot.
RECURSIVE Partition(_, _, _, _, _)
Partition(v, p, front, readpos, endpos) ==
    IF readpos >= endpos THEN [v |-> v, front |-> front, end |-> endpos]
    ELSE IF v[readpos] < p
         THEN Partition([v EXCEPT ![front] = v[readpos]], p, front + 1, readpos + 1, endpos)
    ELSE IF v[readpos] = p THEN Partition(v, p, front, readpos + 1, endpos)
    ELSE Partition([v EXCEPT ![endpos - 1] = v[readpos], ![readpos] = v[endpos - 1]], p, front, readpos, endpos - 1)

RECURSIVE sortints(_)
sortints(v) ==
    IF Len(v) < 2 THEN v
    ELSE LET p == v[(Len(v) \div 2) + 1]
             part == Partition(v, p, 1, 1, Len(v) + 1)
             low == SubSeq(part.v, 1, part.front - 1)
             high == SubSeq(part.v, part.end, Len(v))
         IN  sortints(low) \o [i \in 1..(part.end - part.front) |-> p] \o sortints(Reverse(high))

-----------------------------------------------------------------------------
(* Who does which keys *)

keys_per == numkeys \div numprocs
myfirst(me) == me * keys_per

getmykeys(me) == IF me < numprocs - 1 THEN keys_per ELSE numkeys - myfirst(me)

\* The next piece of this process's part.
Less(a, b) == IF a < b THEN a ELSE b
keys_to_do(me) == Less(getmykeys(me) - ptook[me], WORKNUM)

\* A file after keys were written at an offset; what was never written is NoKey.
WriteAt(file, offset, keys) ==
    LET end == offset + Len(keys)
        size == IF end > Len(file) THEN end ELSE Len(file)
    IN  [i \in 1..size |-> IF i \in (offset + 1)..end THEN keys[i - offset]
                           ELSE IF i <= Len(file) THEN file[i] ELSE NoKey]

Total(lengths) == FoldLeft(LAMBDA a, b : a + b, 0, lengths)

-----------------------------------------------------------------------------
(* doforkall *)

PsortInit ==
    /\ phase = "genkeys" /\ procat = [me \in Me |-> "none"] /\ ptook = [me \in Me |-> 0] /\ outcome = ""
    /\ keysfile = <<>> /\ bins = [me \in Me |-> [b \in Me |-> <<>>]] /\ merged = [me \in Me |-> <<>>] /\ sorted = <<>>
    /\ valid = [me \in Me |-> <<>>]

\* fork; a failure is remembered and the others go on.
dofork(me) ==
    /\ outcome = "" /\ procat[me] = "none" /\ \A k \in 0..(me - 1) : procat[k] # "none"
    /\ \E to \in {"run", "nofork"} : procat' = [procat EXCEPT ![me] = to]
    /\ UNCHANGED <<phase, files, ptook, outcome>>

Child(me, ph) == phase = ph /\ procat[me] = "run" /\ outcome = ""
Finishes(me) == procat' = [procat EXCEPT ![me] = "exit"]
Fails(me) == procat' = [procat EXCEPT ![me] = "bad"]

\* One piece of the part done; the process exits when it has all.
Piece(me) ==
    /\ ptook' = [ptook EXCEPT ![me] = @ + keys_to_do(me)]
    /\ IF ptook'[me] >= getmykeys(me) THEN Finishes(me) ELSE UNCHANGED procat

genkeys_sub(me) ==
    /\ Child(me, "genkeys")
    /\ \E keys \in [1..keys_to_do(me) -> Key] : keysfile' = WriteAt(keysfile, myfirst(me) + ptook[me], keys)
    /\ Piece(me)
    /\ UNCHANGED <<phase, bins, merged, sorted, valid, outcome>>

\* Keys are appended to the bin they belong to; a bin number out of range fails
\* an assertion.
bin(me) ==
    LET mine == SubSeq(keysfile, myfirst(me) + ptook[me] + 1, myfirst(me) + ptook[me] + keys_to_do(me))
        In(b) == SelectSeq(mine, LAMBDA key : key \div pivot = b)
    IN  /\ Child(me, "bin")
        /\ IF \A i \in 1..Len(mine) : mine[i] \div pivot < numprocs
           THEN bins' = [bins EXCEPT ![me] = [b \in Me |-> @[b] \o In(b)]] /\ Piece(me)
           ELSE Fails(me) /\ UNCHANGED <<bins, ptook>>
        /\ UNCHANGED <<phase, keysfile, merged, sorted, valid, outcome>>

\* A bin that does not fit the workspace is refused.
sortbins(me) ==
    /\ Child(me, "sortbins")
    /\ IF \A b \in Me : Len(bins[me][b]) <= WORKNUM
       THEN bins' = [bins EXCEPT ![me] = [b \in Me |-> sortints(@[b])]] /\ Finishes(me)
       ELSE Fails(me) /\ UNCHANGED bins
    /\ UNCHANGED <<phase, keysfile, merged, sorted, valid, ptook, outcome>>

\* mergebins: repeatedly the smallest of the first keys left of bins (i, me); of
\* equal ones that of the lowest i.
RECURSIVE MergeOf(_)
MergeOf(heads) ==
    LET ready == {i \in DOMAIN heads : heads[i] # <<>>}
        place == CHOOSE i \in ready : \A j \in ready : \/ heads[i][1] < heads[j][1]
                                                       \/ heads[i][1] = heads[j][1] /\ i <= j
    IN  IF ready = {} THEN <<>> ELSE <<heads[place][1]>> \o MergeOf([heads EXCEPT ![place] = Tail(@)])

mergebins(me) ==
    /\ Child(me, "mergebins")
    /\ merged' = [merged EXCEPT ![me] = MergeOf([i \in Me |-> bins[i][me]])]
    /\ Finishes(me)
    /\ UNCHANGED <<phase, keysfile, bins, sorted, valid, ptook, outcome>>

\* assemble: cat copies the process's merged file to its place in the output.
assemble(me) ==
    /\ Child(me, "assemble")
    /\ sorted' = WriteAt(sorted, Total([i \in 1..me |-> Len(merged[i - 1])]), merged[me])
    /\ Finishes(me)
    /\ UNCHANGED <<phase, keysfile, bins, merged, valid, ptook, outcome>>

\* dovalidate: the smallest and the largest key of the process's part.
dovalidate(me) ==
    LET mine == SubSeq(sorted, myfirst(me) + 1, myfirst(me) + getmykeys(me))
    IN  /\ Child(me, "validate")
        /\ IF \A i \in 1..Len(mine) : mine[i] \in Key
           THEN /\ valid' = [valid EXCEPT ![me] =
                               <<FoldLeft(Less, RANDOM_MAX, mine), FoldLeft(LAMBDA a, b : IF a < b THEN b ELSE a, 0, mine)>>]
                /\ Finishes(me)
           ELSE Fails(me) /\ UNCHANGED valid
        /\ UNCHANGED <<phase, keysfile, bins, merged, sorted, ptook, outcome>>

-----------------------------------------------------------------------------
(* The parent between the phases *)

NextPhase == [genkeys |-> "bin", bin |-> "sortbins", sortbins |-> "mergebins", mergebins |-> "assemble",
              assemble |-> "validate", validate |-> "end"]

\* The parent's checks after a phase: of the sizes of the files, of the sums over
\* all keys before and after, and of the smallest and largest keys (prev_largest
\* stays 1).
genkeys == Len(keysfile) = numkeys
checksize_bins == Total([i \in 1..numprocs |-> Total([j \in 1..numprocs |-> Len(bins[i - 1][j - 1])])]) = numkeys
checksize_merge == Total([i \in 1..numprocs |-> Len(merged[i - 1])]) = numkeys
checksum_file == Total(sorted) = Total(keysfile)
checksize_valid == \A i \in Me : Len(valid[i]) = 2
validate ==
    /\ checksize_valid
    /\ \A i \in Me : valid[i][1] >= 1 /\ valid[i][2] < RANDOM_MAX /\ valid[i][1] <= valid[i][2]

CheckOf(ph) ==
    CASE ph = "genkeys" -> genkeys
      [] ph \in {"bin", "sortbins"} -> checksize_bins
      [] ph = "mergebins" -> checksize_merge
      [] ph = "assemble" -> Len(sorted) = numkeys /\ checksum_file
      [] OTHER -> validate

\* An open, read, write, lseek, stat or close that fails ends the process, child
\* or parent.
IoFails ==
    /\ outcome = ""
    /\ \/ \E me \in Me : procat[me] = "run" /\ procat' = [procat EXCEPT ![me] = "ioerror"] /\ UNCHANGED outcome
       \/ outcome' = "failed" /\ UNCHANGED procat
    /\ UNCHANGED <<phase, files, ptook>>

\* doforkall's second half: every child forked is waited for, and one that was
\* not, or did not exit with 0, is the end.
doforkall ==
    /\ \A me \in Me : procat[me] \in {"exit", "bad", "ioerror", "nofork"}
    /\ outcome' = IF (\E me \in Me : procat[me] # "exit") \/ ~CheckOf(phase) THEN "failed"
                  ELSE IF phase = "validate" THEN "Succeeded" ELSE ""

\* sort and main: the phases in order; files no longer needed are removed.
sort ==
    /\ outcome = "" /\ doforkall
    /\ phase' = NextPhase[phase]
    /\ procat' = [me \in Me |-> "none"] /\ ptook' = [me \in Me |-> 0]
    /\ bins' = IF phase = "mergebins" THEN [me \in Me |-> [b \in Me |-> <<>>]] ELSE bins
    /\ merged' = IF phase = "assemble" THEN [me \in Me |-> <<>>] ELSE merged
    /\ valid' = IF phase = "validate" THEN [me \in Me |-> <<>>] ELSE valid
    /\ UNCHANGED <<keysfile, sorted>>

PsortNext ==
    \/ sort \/ IoFails
    \/ \E me \in Me : \/ dofork(me) \/ genkeys_sub(me) \/ bin(me) \/ sortbins(me) \/ mergebins(me)
                      \/ assemble(me) \/ dovalidate(me)

-----------------------------------------------------------------------------
(* Correctness *)

\* When psort reports success its output is the generated keys in order; a phase
\* whose processes all ran passes its checks; and a process gives up only over a
\* key that has no bin (the largest ones, when numprocs does not divide
\* RANDOM_MAX) or a bin that does not fit the workspace.
PsortSound ==
    /\ outcome = "Succeeded" => sorted = SortSeq(keysfile, <)
    /\ (\A me \in Me : procat[me] = "exit") => CheckOf(phase)
    /\ \A me \in Me : procat[me] = "bad" =>
            \/ \E i \in 1..Len(keysfile) : keysfile[i] \div pivot >= numprocs
            \/ \E k, b \in Me : Len(bins[k][b]) > WORKNUM
=============================================================================
