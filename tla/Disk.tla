-------------------------------- MODULE Disk --------------------------------
(***************************************************************************)
(* The disk driver of kern/dev/lamebus/lhd.c, used by SFS through the        *)
(* retrying sfs_rwblock of kern/fs/sfs/sfs_io.c and by processes that read   *)
(* and write the raw device (kern/vfs/device.c).                             *)
(*                                                                         *)
(* The card does one sector at a time: it has a status register, a sector    *)
(* register and one buffer.  lh_clear admits one thread to it, lh_done is    *)
(* raised by the interrupt.  A request is a uio: what is left of it moves     *)
(* with every uiomove, also when the card then reports an error.             *)
(***************************************************************************)
EXTENDS Integers, FiniteSets

CONSTANTS
    DiskThread,
    D_BLOCKS,       \* sectors on the disk
    TRIES,          \* the retries of sfs_rwblock (10 in the code)
    MaxIo,          \* bound: requests in a run
    MaxMedia        \* bound: sectors the card fails to read or write, in a run

ASSUME DiskAssumption ==
    D_BLOCKS \in Nat \ {0} /\ TRIES \in Nat /\ MaxIo \in Nat /\ MaxMedia \in Nat

VARIABLES
    lh_clear, lh_done,      \* semaphores
    lh_result,
    lh_reg,                 \* LHD_REG_STAT, LHD_REG_SECT
    lh_buf,                 \* the on-card buffer: whose data
    irqline,                \* the card's interrupt is asserted
    sectors,                \* the data in every sector: whose
    io,                     \* the request of each thread
    biglock,                \* the thread that holds vfs_biglock, if any
    ios, media

diskVars == <<lh_clear, lh_done, lh_result, lh_reg, lh_buf, irqline, sectors, io, biglock, ios, media>>

Nobody == "nobody"
Sector == 0..(D_BLOCKS - 1)
NoIo == [at |-> "idle", write |-> FALSE, sfs |-> FALSE, sector |-> 0, i |-> 0, len |-> 0, resid |-> 0,
         tries |-> 0, reached |-> FALSE, result |-> "ok"]

\* config_lhd
DiskInit ==
    /\ lh_clear = 1 /\ lh_done = 0
    /\ lh_result = "ok"
    /\ lh_reg = [stat |-> "idle", write |-> FALSE, sect |-> 0]
    /\ lh_buf = Nobody /\ irqline = FALSE
    /\ sectors = [s \in Sector |-> Nobody]
    /\ io = [t \in DiskThread |-> NoIo]
    /\ biglock = {}
    /\ ios = 0 /\ media = 0

-----------------------------------------------------------------------------
(* The card *)

\* It finishes the sector it works on, or fails.
CardDone ==
    /\ lh_reg.stat = "working"
    /\ \E stat \in {"ok", "media"} :
         /\ stat = "media" => media < MaxMedia
         /\ media' = IF stat = "media" THEN media + 1 ELSE media
         /\ lh_reg' = [lh_reg EXCEPT !.stat = stat]
         /\ sectors' = IF stat = "ok" /\ lh_reg.write
                         THEN [sectors EXCEPT ![lh_reg.sect] = lh_buf] ELSE sectors
         /\ lh_buf' = IF stat = "ok" /\ ~lh_reg.write THEN sectors[lh_reg.sect] ELSE lh_buf
    /\ irqline' = TRUE
    /\ UNCHANGED <<lh_clear, lh_done, lh_result, io, biglock, ios>>

lhd_code_to_errno(stat) == IF stat = "ok" THEN "ok" ELSE "EIO"

\* Mutant: the result is saved after the waiting thread is told.
lhd_iodone_late ==
    lh_done' = lh_done + 1 /\ lh_result' = lh_result

lhd_iodone ==
    lh_done' = lh_done + 1 /\ lh_result' = lhd_code_to_errno(lh_reg.stat)

\* Nothing to do if the card is idle or working.
lhd_irq ==
    /\ irqline
    /\ irqline' = FALSE
    /\ IF lh_reg.stat \in {"ok", "media"}
         THEN lhd_iodone /\ lh_reg' = [lh_reg EXCEPT !.stat = "idle"]
         ELSE UNCHANGED <<lh_done, lh_result, lh_reg>>
    /\ UNCHANGED <<lh_clear, lh_buf, sectors, io, biglock, ios, media>>

-----------------------------------------------------------------------------
(* lhd_io *)

\* Where a call of d_io starts: the range is checked, and nothing is done if
\* nothing is left to do.
D_io(r) ==
    [r EXCEPT !.at = IF r.sector + r.resid > D_BLOCKS \/ r.resid = 0 THEN "return" ELSE "clear",
              !.result = IF r.sector + r.resid > D_BLOCKS THEN "EINVAL" ELSE "ok",
              !.i = 0, !.len = r.resid]

\* sfs_rblock and sfs_wblock: one block, with vfs_biglock held.
SfsBlock(t) ==
    \E write \in BOOLEAN, s \in Sector :
        /\ biglock = {} /\ biglock' = {t}
        /\ io' = [io EXCEPT ![t] = D_io([NoIo EXCEPT !.write = write, !.sfs = TRUE, !.sector = s, !.resid = 1])]

\* dev_read and dev_write: any number of sectors, also past the end.
RawIo(t) ==
    \E write \in BOOLEAN, s \in Sector, n \in 0..2 :
        /\ io' = [io EXCEPT ![t] = D_io([NoIo EXCEPT !.write = write, !.sector = s, !.resid = n])]
        /\ UNCHANGED biglock

Request(t) ==
    /\ io[t].at = "idle" /\ ios < MaxIo
    /\ ios' = ios + 1
    /\ SfsBlock(t) \/ RawIo(t)
    /\ UNCHANGED <<lh_clear, lh_done, lh_result, lh_reg, lh_buf, irqline, sectors, media>>

Goes(t, at) == io' = [io EXCEPT ![t].at = at]

P_clear(t) ==
    /\ io[t].at = "clear" /\ lh_clear > 0
    /\ lh_clear' = lh_clear - 1
    /\ Goes(t, IF io[t].write THEN "fill" ELSE "kick")
    /\ UNCHANGED <<lh_done, lh_result, lh_reg, lh_buf, irqline, sectors, biglock, ios, media>>

\* uiomove into the card; user memory may be bad.
Fill(t) ==
    /\ io[t].at = "fill"
    /\ \/ /\ lh_buf' = t
          /\ io' = [io EXCEPT ![t].at = "kick", ![t].resid = @ - 1]
          /\ UNCHANGED lh_clear
       \/ /\ ~io[t].sfs
          /\ lh_clear' = lh_clear + 1
          /\ io' = [io EXCEPT ![t].at = "return", ![t].result = "EFAULT"]
          /\ UNCHANGED lh_buf
    /\ UNCHANGED <<lh_done, lh_result, lh_reg, irqline, sectors, biglock, ios, media>>

Kick(t) ==
    /\ io[t].at = "kick"
    /\ lh_reg' = [stat |-> "working", write |-> io[t].write, sect |-> io[t].sector + io[t].i]
    /\ Goes(t, "done")
    /\ UNCHANGED <<lh_clear, lh_done, lh_result, lh_buf, irqline, sectors, biglock, ios, media>>

P_done(t) ==
    /\ io[t].at = "done" /\ lh_done > 0
    /\ lh_done' = lh_done - 1
    /\ io' = [io EXCEPT ![t].at = IF lh_result = "ok" /\ ~io[t].write THEN "drain" ELSE "pass",
                        ![t].result = lh_result, ![t].reached = @ \/ (lh_result = "ok")]
    /\ UNCHANGED <<lh_clear, lh_result, lh_reg, lh_buf, irqline, sectors, biglock, ios, media>>

Drain(t) ==
    /\ io[t].at = "drain"
    /\ \/ io' = [io EXCEPT ![t].at = "pass", ![t].resid = @ - 1]
       \/ ~io[t].sfs /\ io' = [io EXCEPT ![t].at = "pass", ![t].result = "EFAULT"]
    /\ UNCHANGED <<lh_clear, lh_done, lh_result, lh_reg, lh_buf, irqline, sectors, biglock, ios, media>>

\* V(lh_clear), and the next sector unless this one failed.
Pass(t) ==
    LET r == io[t]
        last == r.result # "ok" \/ r.i + 1 = r.len
    IN  /\ r.at = "pass"
        /\ lh_clear' = lh_clear + 1
        /\ io' = [io EXCEPT ![t].at = IF last THEN "return" ELSE "clear",
                            ![t].i = IF last THEN @ ELSE @ + 1]
        /\ UNCHANGED <<lh_done, lh_result, lh_reg, lh_buf, irqline, sectors, biglock, ios, media>>

-----------------------------------------------------------------------------
(* The return *)

\* sfs_rwblock: again after EIO, with the uio as it is now: a write that the
\* card failed has no data left to write.
sfs_rwblock(t) ==
    LET r == io[t]
    IN  /\ r.at = "return" /\ r.sfs
        /\ IF r.result = "EIO" /\ r.tries < TRIES
             THEN io' = [io EXCEPT ![t] = D_io([r EXCEPT !.tries = @ + 1, !.sector = @ + 1 - r.resid])]
                  /\ UNCHANGED biglock
             ELSE Goes(t, "idle") /\ biglock' = {}
        /\ UNCHANGED <<lh_clear, lh_done, lh_result, lh_reg, lh_buf, irqline, sectors, ios, media>>

RawReturn(t) ==
    /\ io[t].at = "return" /\ ~io[t].sfs
    /\ Goes(t, "idle")
    /\ UNCHANGED <<lh_clear, lh_done, lh_result, lh_reg, lh_buf, irqline, sectors, biglock, ios, media>>

DiskStep(t) ==
    P_clear(t) \/ Fill(t) \/ Kick(t) \/ P_done(t) \/ Drain(t) \/ Pass(t) \/ sfs_rwblock(t) \/ RawReturn(t)

DiskNext == CardDone \/ lhd_irq \/ \E t \in DiskThread : Request(t) \/ DiskStep(t)

DiskSpec == DiskInit /\ [][DiskNext]_diskVars

-----------------------------------------------------------------------------
(* Properties *)

Inside(t) == io[t].at \in {"fill", "kick", "done", "drain", "pass"}

\* The card has one user at a time, and what it holds is that user's: a read
\* gets the data of the sector it asked for, an interrupt is never taken for
\* somebody else's, and EINVAL, which makes SFS panic, is never its answer
\* (lhd_io, lhd_irq, sfs_rwblock).
DiskSound ==
    /\ lh_clear + Cardinality({t \in DiskThread : Inside(t)}) = 1
    /\ \A t \in DiskThread :
         /\ io[t].at = "drain" =>
              /\ lh_buf = sectors[io[t].sector + io[t].i]
              /\ lh_reg = [stat |-> "idle", write |-> FALSE, sect |-> io[t].sector + io[t].i]
         /\ io[t].at = "kick" /\ io[t].write => lh_buf = t
         /\ io[t].at = "pass" /\ io[t].write /\ io[t].result = "ok" =>
              sectors[io[t].sector + io[t].i] = t
         /\ io[t].sfs => io[t].result # "EINVAL"
    /\ lh_reg.stat # "idle" \/ lh_done > 0 \/ irqline => \E t \in DiskThread : io[t].at = "done"
    /\ lh_done <= 1

\* What sfs_rwblock says of a block it could not write: "I/O error, giving up".
\* A block write that SFS is told has succeeded has reached the disk.
WriteErrorsReported ==
    \A t \in DiskThread :
        io[t].at = "return" /\ io[t].sfs /\ io[t].write /\ io[t].result = "ok" =>
            io[t].reached
=============================================================================
